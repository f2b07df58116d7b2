--------------------------- MODULE ControlDocuments ---------------------------
(***************************************************************************)
(* What intents of controllers and certificates of transfer have in common *)
(* (crates/oc-protocol/src/control.rs): an envelope is a body and the keys *)
(* listed over it.  Anybody may put one together, so the keys come in any  *)
(* order and any number of times; what counts is who has signed the body.  *)
(***************************************************************************)
EXTENDS Integers, Sequences, FiniteSets

CONSTANTS
  KeyLists,      \* lists of keys an envelope may carry
  MAX_SIGNERS,
  MaxU64         \* the largest epoch and revision

ASSUME DocumentsAssumption ==
  KeyLists \subseteq Seq(Nat) /\ MAX_SIGNERS \in Nat /\ MaxU64 \in Nat

\* A roster with a quorum it can reach, or nobody and nothing.
quorum_ok(b) ==
  IF b.roster = {} THEN b.threshold = 0
  ELSE b.threshold >= 1 /\ b.threshold <= Cardinality(b.roster)

\* Faulty: a key may be listed twice.
split_request_repeated(keys) == Len(keys) \in 1 .. MAX_SIGNERS

\* Keys ascend strictly: none is listed twice.
split_request(keys) ==
  /\ Len(keys) \in 1 .. MAX_SIGNERS
  /\ \A i \in 1 .. Len(keys) - 1 : keys[i] < keys[i + 1]

===============================================================================
