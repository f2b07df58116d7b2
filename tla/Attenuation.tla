------------------------------ MODULE Attenuation ------------------------------
(***************************************************************************)
(* What a chain of delegations promises, whatever documents it is made of: *)
(* the author gives rights to one holder; each holder may hand on less     *)
(* than it has, and only if it has said so under this grant; rights that   *)
(* are lost do not come back.                                              *)
(***************************************************************************)
EXTENDS Integers

CONSTANTS
  Willing,   \* <<key, fingerprint, grant>> of holders that delegated something
  Nobody,    \* no rights yet
  Lost       \* no rights any more

VARIABLES
  author,    \* what the author signed
  rights     \* what the last holder has

\* Strictly less depth: a chain of equal links would never end.
Below(less, more) ==
  /\ less.grant = more.grant
  /\ less.files \subseteq more.files
  /\ less.until <= more.until
  /\ less.depth < more.depth
  /\ less.may \subseteq more.may
  /\ more.limits \subseteq less.limits

Init == rights = Nobody

Give == rights = Nobody /\ rights' = author

HandOn ==
  /\ rights \notin {Nobody, Lost}
  /\ <<rights.key, rights.fpr, rights.grant>> \in Willing
  /\ rights' \notin {Nobody, Lost}
  /\ Below(rights', rights)

Lose == rights' = Lost

Next == (Give \/ HandOn \/ Lose) /\ UNCHANGED author

Spec == Init /\ [][Next]_<<author, rights>>

===============================================================================
