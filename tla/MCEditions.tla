------------------------------ MODULE MCEditions ------------------------------
(***************************************************************************)
(* An instance of Editions: two editors with certificates of the author    *)
(* and of a coauthor, and one with certificates that do not hold.          *)
(***************************************************************************)
EXTENDS Editions

Cert(issuer, signed, file, key, not_after) ==
  [issuer |-> issuer, signed |-> signed, file_id |-> file, editor_key |-> key,
   not_after |-> not_after]

MCHolding == {Cert(1, TRUE, File, 11, 0), Cert(2, TRUE, File, 12, 1)}

MCCerts == MCHolding \cup
  {Cert(3, TRUE, File, 13, 1), Cert(1, TRUE, File + 1, 13, 1), Cert(1, FALSE, File, 13, 1)}

Unedited(counter, root) == [counter |-> counter, root |-> root, editor |-> None]

\* Copies whose region someone without a certificate has written: another
\* text as the original, a revision without a signature, a signature on an
\* unedited file, and a revision under another's certificate.
MCWild ==
  {Unedited(0, 1), Unedited(1, 1)}
  \cup {[counter |-> n, root |-> 1,
         editor |-> [cert |-> c, base |-> [counter |-> 0, root |-> 0], signer |-> 13]]
          : n \in 0 .. 1, c \in MCCerts}

===============================================================================
