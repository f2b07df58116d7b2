----------------------------- MODULE AppendOnlyLog -----------------------------
(***************************************************************************)
(* What a witness promises of a log (crates/oc-protocol/src/witness.rs):   *)
(* it starts with whatever it was first shown and only ever gets longer.   *)
(***************************************************************************)
EXTENDS Integers, Sequences

CONSTANT Watchers

VARIABLE logs      \* what each watcher vouches for

Init == logs = [w \in Watchers |-> <<>>]

Extends(new, old) == Len(new) >= Len(old) /\ SubSeq(new, 1, Len(old)) = old

Extend == \A w \in Watchers : Extends(logs'[w], logs[w])

Spec == Init /\ [][Extend]_logs

================================================================================
