---------------------------- MODULE ControlSystem ----------------------------
(***************************************************************************)
(* Control of servers as a whole: the transfers of authority between them, *)
(* and one server under control with a copy of it, watched either by its   *)
(* replica or by a client.  The parts do not influence each other.         *)
(***************************************************************************)
EXTENDS Control, AuthorityChain

VARIABLE part   \* the one that is looked at

Init ==
  \/ part = "transfers" /\ ChainInit /\ AtRest
  \/ part \in {"replica", "client"} /\ ChainInit /\ ControlInit

Next ==
  \/ part = "transfers" /\ ChainNext /\ UNCHANGED <<part, controlvars>>
  \/ part # "transfers" /\ ServerNext /\ UNCHANGED <<part, chainvars>>
  \/ part = "replica" /\ ReplicaNext /\ UNCHANGED <<part, chainvars>>
  \/ part = "client" /\ ClientNext /\ UNCHANGED <<part, chainvars>>

Spec == Init /\ [][Next]_<<part, chainvars, controlvars>>

\* Nothing changes without a quorum of those in office: not the server that is
\* trusted (verify_chain), nor a revision of its binding (ControlRequest).
ByQuorum == TrustByQuorum /\ ChangedByQuorum

===============================================================================
