-------------------------------- MODULE Control --------------------------------
(***************************************************************************)
(* Remote control of a server (crates/oc-protocol/src/control.rs) and the  *)
(* copies of its state a replica keeps (replica.rs).                       *)
(*                                                                         *)
(* Controllers sign intents; a server that finds a quorum of its current   *)
(* roster over one writes the next revision of its binding and answers     *)
(* with a receipt, which under the profile "Witnessed" is a success only   *)
(* after the replica has acknowledged the exact state.  Clients compare    *)
(* every binding they are shown with the one they hold (continuity).       *)
(*                                                                         *)
(* A binding is kept with the state written along with it: kept are the    *)
(* intents whose receipts the server remembers.  Each has a number of its  *)
(* own, which stands for the fingerprint of either.  Two servers may write *)
(* under the same key: the one in service, and a copy put back from        *)
(* a backup.  What the servers and the replica do with the documents is    *)
(* outside the repository and follows docs/protocol.md 9.16 and 9.17.      *)
(***************************************************************************)
EXTENDS Integers, Sequences, FiniteSets, ControlDocuments, Documents

CONSTANTS
  Zero,           \* the zero fingerprint and operation
  Created,        \* the binding in service at first, and one of another scope
  Intents,        \* bodies of intents
  SignedBy,       \* for each, the controllers that have signed it
  MAX_REQUEST_LIFETIME, MAX_URLS, MAX_ROSTER,
  MaxReceipts,    \* receipts a server keeps
  MaxDocs,        \* bound: bindings written
  MaxNow          \* bound: the clock

Payloads ==
  [kind : STRING, urls : Seq(STRING), durability : STRING, keys : Seq(Nat), threshold : Nat,
   status : STRING, more : STRING]

Requests ==
  [authority_id : Nat, epoch : Nat, operation_id : Nat, expected_revision : Nat,
   issued_at : Int, expires_at : Int, payload : Payloads, more : STRING]

SignedBindings ==
  [id : Nat, authority_id : Nat, epoch : Nat, revision : Nat, previous : Nat,
   operation_id : Nat, roster : SUBSET Nat, threshold : Nat, durability : STRING,
   status : STRING, kept : Seq(Requests), line : SUBSET Nat]

SameScope(a, b) == a.authority_id = b.authority_id /\ a.epoch = b.epoch

\* A binding that no intent has changed yet; there is one for each scope.
ASSUME ControlAssumption ==
  /\ Zero = 0 /\ MaxReceipts \in Nat /\ MaxDocs \in Nat /\ MaxNow \in Nat
  /\ Intents \subseteq Requests /\ SignedBy \in [Intents -> SUBSET Nat]
  /\ Created \subseteq SignedBindings /\ IsFiniteSet(Created)
  /\ {b.id : b \in Created} = 1 .. Cardinality(Created) /\ Created # {}
  /\ \A a, b \in Created : (a.id = b.id \/ SameScope(a, b)) => a = b
  /\ \A b \in Created : /\ b.revision = 0 /\ b.previous = Zero
                        /\ b.line = {b.id} /\ b.kept = <<>> /\ IsFiniteSet(b.roster)

VARIABLES
  now,        \* the servers' clock
  docs,       \* every binding signed; any may reach the client, in any order
  servers,    \* for "service" and "copy": binding in force, state acknowledged
  receipts,   \* every receipt of an executed intent
  replica,    \* the state stored, the cursor, and the state being taken
  full,       \* states sent whole, without continuity
  acks,       \* states the replica has acknowledged
  bootstrapped,  \* history: the replica has taken a whole state
  seen,       \* the binding the client holds, or Nothing
  accepted,   \* history: every binding the client has held
  gap,        \* history: the client has skipped a revision
  said        \* what the last call returned, when it changed nothing else

servervars  == <<now, docs, servers, receipts>>
replicavars == <<replica, full, acks, bootstrapped>>
clientvars  == <<seen, accepted, gap>>
controlvars == <<servervars, replicavars, clientvars, said>>

Nothing == [id |-> Zero]

-------------------------------------------------------------------------------
(* Documents. *)

Ascending(keys) == \A i \in 1 .. Len(keys) - 1 : keys[i] < keys[i + 1]

\* The rules on a binding; its addresses, keys and term are left out.
check(b) ==
  /\ quorum_ok(b)
  /\ b.revision = 0 => b.previous = Zero /\ b.operation_id = Zero
  /\ b.revision > 0 => b.previous # Zero

encode_urls(urls) == Len(urls) \in 1 .. MAX_URLS

\* An address is named once, which the writer does not look at.
decode_urls(urls) ==
  encode_urls(urls) /\ \A i, j \in DOMAIN urls : urls[i] = urls[j] => i = j

encode_keys(keys) == Ascending(keys) /\ Len(keys) <= MAX_ROSTER

payload_encode(p) ==
  /\ p.kind = "SetEndpoints" => encode_urls(p.urls)
  /\ p.kind = "SetRoster"    => encode_keys(p.keys)
  /\ p.kind = "Decommission" => p.status \in {"Stopped", "ArchiveOnly"}

\* Whether the quorum can be reached is for the binding to refuse.
payload_decode(p) ==
  /\ payload_encode(p)
  /\ p.kind = "SetEndpoints" => decode_urls(p.urls)
  /\ refuse_if_critical(p.more)

request_body(r) ==
  /\ r.expires_at - r.issued_at \in 1 .. MAX_REQUEST_LIFETIME
  /\ payload_encode(r.payload)

decode_body(r) ==
  request_body(r) /\ payload_decode(r.payload) /\ refuse_if_critical(r.more)

\* Every signature listed is verified, whoever made it.
open_request(r, keys) ==
  /\ split_request(keys)
  /\ \A i \in DOMAIN keys : keys[i] \in SignedBy[r]
  /\ decode_body(r)

\* Faulty: the reference to the binding seen before is not compared.
continuity_unlinked(old, new) ==
  IF old.authority_id # new.authority_id \/ old.epoch # new.epoch THEN "Unrelated"
  ELSE IF new.revision < old.revision THEN "Rollback"
  ELSE IF new.revision = old.revision THEN (IF new.id = old.id THEN "Same" ELSE "Fork")
  ELSE IF old.revision + 1 = new.revision THEN "Adjacent"
  ELSE "Gap"

\* Newer is "Adjacent" or "Gap".  The scope is the server and its organization,
\* which the code compares too: authority_id stands for both.
continuity(old, new) ==
  IF old.authority_id # new.authority_id \/ old.epoch # new.epoch THEN "Unrelated"
  ELSE IF new.revision < old.revision THEN "Rollback"
  ELSE IF new.revision = old.revision THEN (IF new.id = old.id THEN "Same" ELSE "Fork")
  ELSE IF old.revision + 1 = new.revision
       THEN (IF new.previous # old.id THEN "Fork" ELSE "Adjacent")
  ELSE "Gap"

-------------------------------------------------------------------------------
(* The servers. *)

Names == {"service", "copy"}

\* No server runs there.
Off == [binding |-> Nothing, acked |-> Zero]

Running(s) == servers[s] # Off

\* What an intent makes of a binding.
Ordered(b, p) ==
  CASE p.kind = "SetDurability" -> [b EXCEPT !.durability = p.durability]
    [] p.kind = "SetRoster"     -> [b EXCEPT !.roster = {p.keys[i] : i \in DOMAIN p.keys},
                                             !.threshold = p.threshold]
    [] p.kind = "Decommission"  -> [b EXCEPT !.status = p.status]
    [] OTHER                    -> b

\* The oldest receipt makes room for a new one.
Remember(kept, r) ==
  LET all == Append(kept, r)
  IN  IF Len(all) > MaxReceipts THEN Tail(all) ELSE all

\* line is the history of the binding: the fingerprints from the first to it.
Successor(b, r) ==
  LET id == Cardinality(docs) + 1
  IN  [Ordered(b, r.payload) EXCEPT
         !.id = id, !.revision = b.revision + 1, !.operation_id = r.operation_id,
         !.previous = b.id, !.kept = Remember(@, r), !.line = b.line \cup {id}]

SameId(b, r) == {i \in DOMAIN b.kept : b.kept[i].operation_id = r.operation_id}

QuorumOf(b, keys) ==
  b.threshold > 0 /\ Cardinality({i \in DOMAIN keys : keys[i] \in b.roster}) >= b.threshold

\* The checks of a server in their order.  A refusal changes nothing and is not
\* a step here; "Silent" has no receipt either.
Outcome(s, r, keys) ==
  LET b == servers[s].binding
  IN  IF ~open_request(r, keys) \/ r.authority_id # b.authority_id \/ r.epoch # b.epoch
                                                       THEN "Silent"
      ELSE IF r.expires_at < now                       THEN "Rejected"
      ELSE IF SameId(b, r) # {}
           THEN (IF \E i \in SameId(b, r) : b.kept[i] = r THEN "Stored" ELSE "IdConflict")
      ELSE IF r.expected_revision # b.revision         THEN "StaleRevision"
      ELSE IF b.revision = MaxU64 \/ ~QuorumOf(b, keys) \/ ~check(Successor(b, r))
                                                       THEN "Rejected"
      ELSE "Executed"

\* Under "Witnessed" a prepared answer is withheld until the state it describes
\* is acknowledged; the receipt names the profile it was acknowledged under.
Receipt(r, b, acked) ==
  [operation_id |-> r.operation_id, revision |-> b.revision, commit |-> b.id,
   durability |-> b.durability,
   outcome |-> IF b.durability = "Witnessed" /\ acked # b.id THEN "PendingDurability"
               ELSE "Committed"]

Execute(s, r, keys) ==
  /\ Running(s) /\ Cardinality(docs) < MaxDocs
  /\ Outcome(s, r, keys) = "Executed"
  /\ LET b == Successor(servers[s].binding, r)
     IN  /\ docs' = docs \cup {b}
         /\ servers' = [servers EXCEPT ![s].binding = b]
         /\ receipts' = receipts \cup {Receipt(r, b, servers[s].acked)}
  /\ said' = "" /\ UNCHANGED <<now, replicavars, clientvars>>

\* The same intent again: its receipt is written from the binding in force.
Replay(s, r, keys) ==
  /\ Running(s) /\ Outcome(s, r, keys) = "Stored"
  /\ \E b \in docs :
       /\ b.id \in servers[s].binding.line /\ b.operation_id = r.operation_id
       /\ LET head == servers[s].binding
          IN  receipts' = receipts \cup
                {[Receipt(r, head, servers[s].acked) EXCEPT !.revision = b.revision,
                                                            !.commit = b.id]}
  /\ said' = "" /\ UNCHANGED <<now, docs, servers, replicavars, clientvars>>

\* A copy starts from any state the server has had, and knows of no
\* acknowledgement of it.
RestoreBackup(b) ==
  /\ ~Running("copy") /\ Running("service") /\ b.id \in servers["service"].binding.line
  /\ servers' = [servers EXCEPT !["copy"] = [Off EXCEPT !.binding = b]]
  /\ said' = "" /\ UNCHANGED <<now, docs, receipts, replicavars, clientvars>>

Wait ==
  /\ now < MaxNow /\ now' = now + 1
  /\ said' = "" /\ UNCHANGED <<docs, servers, receipts, replicavars, clientvars>>

-------------------------------------------------------------------------------
(* The replica: a state is stored first, then the cursor moves to it. *)

Doc(id) == CHOOSE b \in docs : b.id = id

\* The number of a commit: a state is written with every revision.
seq(b) == b.revision + 1

CursorSeq == IF replica.cursor = Zero THEN 0 ELSE seq(Doc(replica.cursor))

\* States pushed: each after it was written, unless the profile is "Local".
Pushed == {b \in docs : b.durability # "Local"}

\* Taken, acknowledged again, or refused.
PushAnswer(b, whole) ==
  IF b.authority_id # Doc(1).authority_id \/ b.epoch # Doc(1).epoch THEN "OtherScope"
  ELSE IF seq(b) = CursorSeq
       THEN (IF b.id = replica.cursor THEN "Ack" ELSE "HistoryConflict")
  ELSE IF whole /\ seq(b) > CursorSeq THEN "Take"
  ELSE IF seq(b) = CursorSeq + 1 /\ b.previous = replica.cursor THEN "Take"
  ELSE "SnapshotRequired"

StoreSnapshot(b, whole) ==
  /\ replica.taking = Zero /\ PushAnswer(b, whole) = "Take"
  /\ replica' = [replica EXCEPT !.stored = b.id, !.taking = b.id]
  /\ bootstrapped' = (bootstrapped \/ whole)
  /\ said' = "" /\ UNCHANGED <<servervars, full, acks, clientvars>>

MoveCursor ==
  /\ replica.taking # Zero
  /\ replica' = [replica EXCEPT !.cursor = replica.taking, !.taking = Zero]
  /\ acks' = acks \cup {replica.taking}
  /\ said' = "" /\ UNCHANGED <<servervars, full, bootstrapped, clientvars>>

\* Interrupted in between: the cursor is where it was.
Interrupt ==
  /\ replica.taking # Zero
  /\ replica' = [replica EXCEPT !.taking = Zero]
  /\ said' = "" /\ UNCHANGED <<servervars, full, acks, bootstrapped, clientvars>>

\* Asked for it, a server sends the state it is at again, whole.
SendWhole(s, b) ==
  /\ b = servers[s].binding /\ replica.taking = Zero
  /\ PushAnswer(b, FALSE) = "SnapshotRequired"
  /\ full' = full \cup {b.id}
  /\ said' = "" /\ UNCHANGED <<servervars, replica, acks, bootstrapped, clientvars>>

RefusePush(b, whole) ==
  /\ replica.taking = Zero
  /\ PushAnswer(b, whole) \in {"OtherScope", "HistoryConflict"}
  /\ said' = PushAnswer(b, whole)
  /\ UNCHANGED <<servervars, replicavars, clientvars>>

\* Faulty: an acknowledgement is matched by the number of the commit alone.
Acknowledges_number(ack, b) == seq(ack) = seq(b)

\* The acknowledgement names the number and the fingerprint of a state.
Acknowledges(ack, b) == seq(ack) = seq(b) /\ ack.id = b.id

\* The answer may be late or come twice; the server looks for its own state.
HearAck(s, id) ==
  /\ Running(s) /\ Acknowledges(Doc(id), servers[s].binding)
  /\ servers' = [servers EXCEPT ![s].acked = servers[s].binding.id]
  /\ said' = "" /\ UNCHANGED <<now, docs, receipts, replicavars, clientvars>>

-------------------------------------------------------------------------------
(* The client: it takes a newer binding, and holds on to its own else. *)

FirstSight(b) ==
  /\ seen = Nothing /\ check(b)
  /\ seen' = b /\ accepted' = {b}
  /\ said' = "" /\ UNCHANGED <<servervars, replicavars, gap>>

Receive(b) ==
  /\ seen # Nothing /\ check(b)
  /\ said' = continuity(seen, b)
  /\ IF said' \in {"Adjacent", "Gap"}
     THEN /\ seen' = b /\ accepted' = accepted \cup {b}
          /\ gap' = (gap \/ said' = "Gap")
     ELSE UNCHANGED clientvars
  /\ UNCHANGED <<servervars, replicavars>>

-------------------------------------------------------------------------------

AtRest ==
  /\ now = 0 /\ docs = Created
  /\ servers = [s \in Names |-> Off] /\ receipts = {}
  /\ replica = [stored |-> Zero, cursor |-> Zero, taking |-> Zero]
  /\ full = {} /\ acks = {} /\ bootstrapped = FALSE
  /\ seen = Nothing /\ accepted = {} /\ gap = FALSE /\ said = ""

ControlInit ==
  /\ now = 0 /\ docs = Created
  /\ servers = [s \in Names |-> IF s = "service" THEN [Off EXCEPT !.binding = Doc(1)] ELSE Off]
  /\ receipts = {}
  /\ replica = [stored |-> Zero, cursor |-> Zero, taking |-> Zero]
  /\ full = {} /\ acks = {} /\ bootstrapped = FALSE
  /\ seen = Nothing /\ accepted = {} /\ gap = FALSE /\ said = ""

ServerNext ==
  \/ \E s \in Names, r \in Intents, keys \in KeyLists : Execute(s, r, keys)
  \/ \E s \in Names, r \in Intents, keys \in KeyLists : Replay(s, r, keys)
  \/ \E b \in docs : RestoreBackup(b)
  \/ Wait

ReplicaNext ==
  \/ \E b \in Pushed : StoreSnapshot(b, FALSE)
  \/ \E id \in full : StoreSnapshot(Doc(id), TRUE)
  \/ MoveCursor
  \/ Interrupt
  \/ \E s \in Names, b \in Pushed : SendWhole(s, b)
  \/ \E b \in Pushed : RefusePush(b, FALSE)
  \/ \E id \in full : RefusePush(Doc(id), TRUE)
  \/ \E s \in Names, id \in acks : HearAck(s, id)

ClientNext ==
  \/ \E b \in docs : FirstSight(b)
  \/ \E b \in docs : Receive(b)

-------------------------------------------------------------------------------
(* Correctness. *)

\* Every revision was ordered by a quorum of the controllers of the revision
\* before it, who knew that revision; and although servers forget receipts and
\* intents are repeated, no intent is executed twice along one history: an
\* intent is for one revision, and the id of an operation stays taken for as
\* many operations as receipts are kept.
ChangedByQuorum ==
  \A b \in docs : b.revision > 0 =>
    /\ \E a \in docs, r \in Intents :
         /\ a.id = b.previous /\ a.id \in b.line
         /\ r.operation_id = b.operation_id /\ r.expected_revision = a.revision
         /\ a.revision + 1 = b.revision
         /\ r.authority_id = b.authority_id /\ r.epoch = b.epoch
         /\ a.threshold > 0 /\ Cardinality(a.roster \cap SignedBy[r]) >= a.threshold
    /\ \A a \in docs : a.id \in b.line /\ a # b =>
         /\ a.revision < b.revision
         /\ (a.revision > 0 /\ a.operation_id = b.operation_id)
            => b.revision > a.revision + MaxReceipts

\* A receipt of success under "Witnessed" is true: what the replica has stored,
\* interrupted or not, continues that revision, and no server shows such a
\* receipt for another one in its place, even with a copy at work.  Only a state sent whole while
\* two servers write may put one history in the place of the other.
WitnessedMeansStored ==
  (~bootstrapped \/ ~Running("copy")) =>
    \A r \in receipts :
      r.outcome = "Committed" /\ r.durability = "Witnessed" =>
        /\ replica.stored # Zero /\ r.commit \in Doc(replica.stored).line
        /\ \A q \in receipts :
             q.outcome = "Committed" /\ q.durability = "Witnessed" /\ q.revision = r.revision
             => q.commit = r.commit

\* A client that never skipped a revision has followed one branch, each binding
\* referring to the one before it, even while a copy of the server writes a
\* second history under the same key; and the word "fork" is never said of a
\* server without a copy, whatever the order in which its bindings arrive.
OneBranch ==
  /\ ~gap =>
       \A a, b \in accepted :
         /\ a.authority_id = b.authority_id /\ a.epoch = b.epoch
         /\ a.revision = b.revision => a = b
         /\ b.revision = a.revision + 1 => b.previous = a.id
  /\ ~Running("copy") => said \notin {"Fork", "HistoryConflict"}

================================================================================
