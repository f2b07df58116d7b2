------------------------------- MODULE Documents -------------------------------
(***************************************************************************)
(* What the codecs of crates/oc-protocol share.  A document is a set of    *)
(* fields under a signature: the label of its domain, the key that signed  *)
(* and what was signed.  Signatures are unforgeable, so one that verifies  *)
(* was made by the holder of the key over the same bytes.                  *)
(*                                                                         *)
(* A writer newer than its reader may add fields the reader does not know. *)
(* They are told apart by the range of their tag only: more is "none", or  *)
(* the range of such a field.                                              *)
(***************************************************************************)

\* Fields a newer writer may have added.
Unknown == {"none", "optional", "critical"}

\* A field of the critical range is refused, one of the optional range skipped.
refuse_if_critical(more) == more # "critical"

\* A document signed under a label: d.text is the signed body, d.more the
\* fields in it that the reader has no name for.
Signed(label, key, text, more) ==
  [label |-> label, signer |-> key, text |-> text, more |-> more]

\* Verification of the signature over the bytes that arrived, skipped fields
\* and all, under the reader's own label.
verify(d, label, key) == d.label = label /\ d.signer = key

================================================================================
