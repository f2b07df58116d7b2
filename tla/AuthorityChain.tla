---------------------------- MODULE AuthorityChain ----------------------------
(***************************************************************************)
(* Transfer of a server's authority (crates/oc-protocol/src/control.rs):   *)
(* controllers sign transfer certificates one after another, and clients   *)
(* walk a chain of certificates from the server key of the container       *)
(* header (verify_chain), each client at its own pace and with its own     *)
(* clock reading.                                                          *)
(*                                                                         *)
(* A binding is what the walk looks at: identity, epoch, key, the key that *)
(* signed it, roster and threshold.  An envelope is a certificate and the  *)
(* keys listed over it; a listed signature verifies iff that key has       *)
(* signed.  Anybody may put an envelope together, so the keys come in any  *)
(* order and any number of times.                                          *)
(***************************************************************************)
EXTENDS Integers, Sequences, FiniteSets, ControlDocuments

CONSTANTS
  Clients,
  Anchor,         \* the server key of the container header
  Firsts,         \* bindings that may be presented as the first
  Bodies,         \* certificates that controllers may be asked to sign
  Controllers,    \* keys that sign certificates
  None,
  MaxClock        \* bound: the clock

Bindings ==
  [authority_id : Nat, epoch : 0 .. MaxU64, lease_public : Nat, signer : Nat,
   roster : SUBSET Nat, threshold : Nat]

Transfers ==
  [authority_id : Nat, from_epoch : 0 .. MaxU64, to_epoch : 0 .. MaxU64, from_lease : Nat,
   transition_at : Int, old_leases : {"Honour", "RejectAfterTransition"},
   issued_at : Int, expires_at : Int, binding : Bindings]

ASSUME AuthorityAssumption ==
  /\ Anchor \in Nat /\ Controllers \subseteq Nat
  /\ Firsts \subseteq Bindings /\ Bodies \subseteq Transfers
  /\ MaxClock \in Nat
  /\ \A b \in Firsts \cup {t.binding : t \in Bodies} : IsFiniteSet(b.roster)

VARIABLES
  clock,       \* the clock
  signed,    \* <<certificate, key>>: the signatures there are
  client     \* for each client, the call of verify_chain it is in

chainvars == <<clock, signed, client>>

\* at is the clock the call was given; Effective is the rest.
NoCall ==
  [stage |-> "idle", first |-> None, at |-> 0, binding |-> None,
   transition_at |-> None, old_leases |-> None, previous_keys |-> <<>>, why |-> None]

-------------------------------------------------------------------------------
(* The documents. *)

\* The embedded key must be the one the binding is opened under.
open(b, anchor) ==
  IF b.signer # anchor                          THEN "BadHeaderSignature"
  ELSE IF ~quorum_ok(b) \/ b.lease_public # anchor  THEN "Malformed"
  ELSE "Ok"

\* Epochs follow each other; from the last there is no transfer.
transfer_body(t) ==
  /\ t.from_epoch < MaxU64 /\ t.to_epoch = t.from_epoch + 1
  /\ t.expires_at > t.issued_at

open_transfer(t, keys) ==
  /\ split_request(keys)
  /\ \A i \in DOMAIN keys : <<t, keys[i]>> \in signed
  /\ transfer_body(t)

\* sign by the first, cosign_transfer by the next; a controller signs one
\* certificate of each epoch (the rule of the roster, outside the code).
Sign(t, key) ==
  /\ transfer_body(t)
  /\ \A s \in signed : s[2] = key => s[1].from_epoch # t.from_epoch
  /\ signed' = signed \cup {<<t, key>>}
  /\ UNCHANGED <<clock, client>>

-------------------------------------------------------------------------------
(* verify_chain. *)

have(b, keys) == Cardinality({i \in DOMAIN keys : keys[i] \in b.roster})

NotAuthorized(b, keys) ==
  b.roster = {} \/ b.threshold = 0 \/ have(b, keys) < b.threshold

FirstRefusal(b) ==
  IF open(b, Anchor) = "BadHeaderSignature" THEN "NotAnchored" ELSE open(b, Anchor)

\* Faulty: any epoch's certificate will do.
TransferRefusalAnyEpoch(b, at, t, keys) ==
  IF ~open_transfer(t, keys)                            THEN "Malformed"
  ELSE IF t.authority_id # b.authority_id               THEN "Broken"
  ELSE IF t.from_lease # b.lease_public                 THEN "Broken"
  ELSE IF t.expires_at < at                             THEN "Expired"
  ELSE IF NotAuthorized(b, keys)                        THEN "NotAuthorized"
  ELSE IF ~quorum_ok(t.binding)                             THEN "Malformed"
  ELSE IF open(t.binding, t.binding.lease_public) # "Ok" THEN "Broken"
  ELSE IF t.binding.epoch # t.to_epoch \/ t.binding.authority_id # t.authority_id
                                                        THEN "Broken"
  ELSE "Ok"

TransferRefusal(b, at, t, keys) ==
  IF ~open_transfer(t, keys)                            THEN "Malformed"
  ELSE IF t.authority_id # b.authority_id               THEN "Broken"
  ELSE IF t.from_epoch # b.epoch                        THEN "Broken"
  ELSE IF t.from_lease # b.lease_public                 THEN "Broken"
  ELSE IF t.expires_at < at                             THEN "Expired"
  ELSE IF NotAuthorized(b, keys)                        THEN "NotAuthorized"
  ELSE IF ~quorum_ok(t.binding)                             THEN "Malformed"
  ELSE IF open(t.binding, t.binding.lease_public) # "Ok" THEN "Broken"
  ELSE IF t.binding.epoch # t.to_epoch \/ t.binding.authority_id # t.authority_id
                                                        THEN "Broken"
  ELSE "Ok"

Refused(c, why) == [client EXCEPT ![c] = [NoCall EXCEPT !.stage = "refused", !.why = why]]

\* A call begins, also after one that returned.
Begin(c, b) ==
  /\ client[c].stage # "walking"
  /\ FirstRefusal(b) = "Ok"
  /\ client' = [client EXCEPT ![c] =
       [NoCall EXCEPT !.stage = "walking", !.first = b, !.at = clock, !.binding = b]]
  /\ UNCHANGED <<clock, signed>>

RefuseFirst(c, b) ==
  /\ client[c].stage # "walking"
  /\ FirstRefusal(b) # "Ok"
  /\ client' = Refused(c, FirstRefusal(b))
  /\ UNCHANGED <<clock, signed>>

Taken(call, t) ==
  [call EXCEPT !.binding = t.binding,
               !.transition_at = t.transition_at, !.old_leases = t.old_leases,
               !.previous_keys = Append(call.previous_keys, call.binding.lease_public)]

TakeTransfer(c, t, keys) ==
  /\ client[c].stage = "walking"
  /\ TransferRefusal(client[c].binding, client[c].at, t, keys) = "Ok"
  /\ client' = [client EXCEPT ![c] = Taken(client[c], t)]
  /\ UNCHANGED <<clock, signed>>

RefuseTransfer(c, t, keys) ==
  /\ client[c].stage = "walking"
  /\ TransferRefusal(client[c].binding, client[c].at, t, keys) # "Ok"
  /\ client' = Refused(c, TransferRefusal(client[c].binding, client[c].at, t, keys))
  /\ UNCHANGED <<clock, signed>>

Return(c) ==
  /\ client[c].stage = "walking"
  /\ client' = [client EXCEPT ![c].stage = "done"]
  /\ UNCHANGED <<clock, signed>>

ClockTick == clock < MaxClock /\ clock' = clock + 1 /\ UNCHANGED <<signed, client>>

ChainInit == clock = 0 /\ signed = {} /\ client = [c \in Clients |-> NoCall]

ChainNext ==
  \/ \E t \in Bodies, key \in Controllers : Sign(t, key)
  \/ \E c \in Clients, b \in Firsts : Begin(c, b)
  \/ \E c \in Clients, b \in Firsts : RefuseFirst(c, b)
  \/ \E c \in Clients, t \in Bodies, keys \in KeyLists : TakeTransfer(c, t, keys)
  \/ \E c \in Clients, t \in Bodies, keys \in KeyLists : RefuseTransfer(c, t, keys)
  \/ \E c \in Clients : Return(c)
  \/ ClockTick

-------------------------------------------------------------------------------
(* Correctness. *)

Trusting(c) == client[c].stage \in {"walking", "done"}

\* Two quorums of the roster have a controller in common.
Majority(b) == 2 * b.threshold > Cardinality(b.roster)

\* Clients that started from the same binding never trust two servers in the
\* same epoch, whatever certificates circulate and in whatever order the
\* controllers signed, while every roster demands a majority.
NoSplitBrain ==
  \A c, d \in Clients :
    /\ Trusting(c) /\ Trusting(d)
    /\ client[c].first = client[d].first
    /\ Majority(client[c].first) /\ \A t \in Bodies : Majority(t.binding)
    /\ client[c].binding.epoch = client[d].binding.epoch
    => client[c].binding = client[d].binding

Quorum(b, t) ==
  Cardinality({key \in b.roster : <<t, key>> \in signed}) >= b.threshold

\* No successor is trusted on fewer controllers than the roster demands: the
\* binding in force was signed over by a quorum of the binding before it, and
\* the client holds one key for every epoch before it, beginning with the
\* anchor and not ending with the key in force.
TrustByQuorum ==
  \A c \in Clients :
    LET call == client[c]
        keys == call.previous_keys
    IN  Trusting(c) =>
          /\ Len(keys) = call.binding.epoch - call.first.epoch
          /\ call.binding.authority_id = call.first.authority_id
          /\ keys # <<>> =>
               /\ keys[1] = Anchor
               /\ \E b \in Firsts \cup {t.binding : t \in Bodies}, t \in Bodies :
                    /\ t.binding = call.binding /\ t.from_epoch = b.epoch
                    /\ t.from_lease = b.lease_public /\ t.from_lease = keys[Len(keys)]
                    /\ b.threshold >= 1 /\ Quorum(b, t)

===============================================================================
