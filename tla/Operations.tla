------------------------------- MODULE Operations -------------------------------
(***************************************************************************)
(* Requests that change the server's state, when answers are lost or made  *)
(* up: the identity of an operation (K28 in crates/oc-crypto/src/kdf.rs,   *)
(* the fields of crates/oc-protocol/src/activation.rs), and the            *)
(* subscription that tails the journal the operations write.               *)
(*                                                                         *)
(* The conversation is the proven one of Handshake: a request changed on   *)
(* the way is refused without an echo, while an answer has no MAC and may  *)
(* arrive as another.  A lease is signed: nobody makes one up, and that an *)
(* old one is refused by its number is left out.  The client, with the     *)
(* operation it has written down, and the server, with its table, are      *)
(* outside the repository and follow docs/protocol.md 9.9 and 9.10.  Every *)
(* file has a limit of grants.  Renewals, which use no identity, and the   *)
(* eviction of records nobody needs are left out.                          *)
(***************************************************************************)
EXTENDS Wire

CONSTANTS
  Clients,        \* devices that activate
  Files,
  Requests,       \* bodies of activations, without identity
  Seeds,          \* what a client's generator may give
  Papers,         \* signed documents of the authors, as frames
  Limit,          \* grants a file may have
  Room,           \* grants the table holds
  Window,         \* how long a client repeats an operation
  Retention,      \* how long the server keeps a record
  Watched,        \* files a subscriber follows
  MaxHours,       \* bound: the clock
  MaxOperations,  \* bound: operations begun
  MaxJournal      \* bound: records of the journal

\* What may be written down: the body with the identity in it.
WithId(body, id) == [body EXCEPT !.operation_id = id]

Ids == {operation_id(seed, "Activate", body) : seed \in Seeds, body \in Requests}
Identified == {WithId(body, operation_id(seed, "Activate", body)) : seed \in Seeds, body \in Requests}
FileIds == {body.file : body \in Requests} \cup {f.body.file : f \in Papers}

\* Answers to an activation.
Refusals ==
  [kind : {"Denied"},
   body : [file : FileIds, why : {"unread", "frozen", "used", "room", "limit", "forged"},
           operation_id : Ids \cup {None}, len : {40}, more : {"none"}]]
Leases ==
  [kind : {"Granted"},
   body : [file : FileIds, lease : Nat, operation_id : Ids \cup {None}, len : {400}, more : {"none"}]]

\* A client repeats for half the time the server keeps a record, the events of
\* the documents are their own, and None stands for none of the values.
ASSUME OperationsAssumption ==
  /\ Watched \subseteq Files /\ Limit \in Nat /\ Room \in Nat
  /\ Window \in Nat /\ Retention \in Nat /\ Window <= Retention
  /\ MaxHours \in Nat /\ MaxOperations \in Nat /\ MaxJournal \in Nat
  /\ \A body \in Requests : {"file", "operation_id"} \subseteq DOMAIN body
  /\ \A f \in Papers : DOMAIN f = {"kind", "body"} /\ f.body.change # "LEASE_ISSUED"
  /\ None \notin Clients /\ None \notin Ids /\ None \notin Leases /\ None \notin Refusals

VARIABLES
  hour,
  knows,        \* whether the server knows the identity field
  journal,      \* the server's journal; an entry names its operation (history)
  table,        \* the server's records of operations
  frozen,       \* files frozen
  begun,        \* how many operations have been begun
  pending,      \* for each client, the operation it has written down, or None
  running,      \* for each client, whether this process has begun it, and how far it is
  wire,         \* for each client, the frame or the answer on its connection, or None
  held,         \* what each client knows of each operation: its lease, a final refusal
  misled,       \* history: operations whose client was sent a refusal nobody gave: one
                \* with the echo, or one without to the first request
  watcher       \* the subscriber: cursor, connection, what it has heard

opvars == <<hour, knows, journal, table, frozen, begun, pending, running, wire, held,
            misled, watcher>>

-------------------------------------------------------------------------------
(* The server. *)

Issued(i) == journal[i].event = "LEASE_ISSUED"
Grants(file) == {i \in DOMAIN journal : Issued(i) /\ journal[i].file_id = file}

Live(r) == hour <= r.at + Retention

\* An identity belongs to the device proved; that of a document to nobody.
Record(actor, id) == {r \in table : Live(r) /\ r.actor = actor /\ r.id = id}

Denied(file, why, id) ==
  [kind |-> "Denied", body |-> [file |-> file, why |-> why, operation_id |-> id, len |-> 40, more |-> "none"]]
Granted(file, seq, id) ==
  [kind |-> "Granted", body |-> [file |-> file, lease |-> seq, operation_id |-> id, len |-> 400, more |-> "none"]]

Write(event, file, fpr, op) ==
  /\ Len(journal) < MaxJournal
  /\ journal' = Append(journal,
       [event |-> event, file_id |-> file, device_fpr |-> fpr, op |-> op, at |-> hour])

Keep(actor, id, hash, answer) ==
  table' = {r \in table : Live(r)} \cup {[actor |-> actor, id |-> id, hash |-> hash, answer |-> answer, at |-> hour]}

\* What executing an activation gives: a grant, or a refusal that is journaled.
Execute(d, f, id) ==
  LET file == f.body.file
      full == Cardinality(Grants(file)) >= Limit
      answer == IF full THEN Denied(file, "limit", id) ELSE Granted(file, Len(journal), id)
  IN  /\ Write(IF full THEN "ISSUE_REFUSED" ELSE "LEASE_ISSUED", file, d, f.op)
      /\ IF id = None THEN UNCHANGED table ELSE Keep(d, id, f.body, answer)
      /\ wire' = [wire EXCEPT ![d] = answer]

Say(d, answer) == wire' = [wire EXCEPT ![d] = answer] /\ UNCHANGED <<journal, table>>

Protected == {r \in table : Live(r) /\ r.answer.kind = "Granted"}

\* An activation arrives.  A server from before the field refuses it as unknown.
Activate(d) ==
  LET f == wire[d]
      id == f.body.operation_id
      rec == Record(d, id)
      file == f.body.file
  IN  /\ f # None /\ f.kind = "Activate"
      /\ IF ~decode_request(f) \/ (id # None /\ ~knows) \/ f.changed
         THEN Say(d, Denied(file, "unread", None))
         ELSE IF id = None
         THEN IF file \in frozen THEN Say(d, Denied(file, "frozen", None)) ELSE Execute(d, f, None)
         ELSE IF rec # {}
         THEN LET r == CHOOSE r \in rec : TRUE
              IN  IF r.hash # f.body THEN Say(d, Denied(file, "used", id))
                  ELSE IF r.answer.kind = "Granted" /\ file \in frozen
                  THEN Say(d, Denied(file, "frozen", id)) ELSE Say(d, r.answer)
         ELSE IF Cardinality(Protected) >= Room THEN Say(d, Denied(file, "room", id))
         ELSE IF file \in frozen THEN Say(d, Denied(file, "frozen", id))
         ELSE Execute(d, f, id)
      /\ UNCHANGED <<hour, knows, frozen, begun, pending, running, held, misled, watcher>>

\* A document's identity is its bytes; a copy may arrive at any time.
Document(f) ==
  LET rec == Record(None, f)
      change == f.body.change
  IN  /\ decode_request(f) /\ rec = {}
      /\ frozen' = CASE change = "FROZEN" -> frozen \cup {f.body.file}
                     [] change = "THAWED" -> frozen \ {f.body.file}
                     [] OTHER -> frozen
      /\ Write(change, f.body.file, None, f)
      /\ Keep(None, f, f, [kind |-> "Accepted", body |-> [len |-> 0]])
      /\ UNCHANGED <<hour, knows, begun, pending, running, wire, held, misled, watcher>>

Upgrade ==
  /\ ~knows /\ knows' = TRUE
  /\ UNCHANGED <<hour, journal, table, frozen, begun, pending, running, wire, held, misled, watcher>>

-------------------------------------------------------------------------------
(* The client. *)

Rest == [mine |-> FALSE, reached |-> FALSE, plain |-> FALSE]

\* An operation is written down before anything is sent.
Begin(d, body, seed) ==
  LET id == operation_id(seed, "Activate", body)
  IN  /\ pending[d] = None /\ wire[d] = None /\ begun < MaxOperations
      /\ begun' = begun + 1
      /\ pending' = [pending EXCEPT ![d] = [op |-> [n |-> begun + 1, at |-> hour, plain |-> FALSE, asks |-> body], body |-> WithId(body, id)]]
      /\ running' = [running EXCEPT ![d] = [Rest EXCEPT !.mine = TRUE]]
      /\ UNCHANGED <<hour, knows, journal, table, frozen, wire, held, misled, watcher>>

Activation(op, body) == [kind |-> "Activate", body |-> body, op |-> op, changed |-> FALSE]

\* The same body, in a new conversation.
Attempt(d) ==
  /\ pending[d] # None /\ wire[d] = None /\ hour <= pending[d].op.at + Window
  /\ wire' = [wire EXCEPT ![d] = Activation(pending[d].op, pending[d].body)]
  /\ UNCHANGED <<hour, knows, journal, table, frozen, begun, pending, running, held, misled, watcher>>

\* No earlier request of this process, which began the operation, can have arrived.
FirstRequest(d) == running[d].mine /\ ~running[d].reached

\* On the way: changed, cut short, or lost; the answer may be lost as well.
Change(d) ==
  /\ wire[d] # None /\ wire[d].kind = "Activate" /\ ~wire[d].changed
  /\ wire' = [wire EXCEPT ![d].changed = TRUE]
  /\ UNCHANGED <<hour, knows, journal, table, frozen, begun, pending, running, held, misled, watcher>>

\* What may arrive instead of frame f at a client with p written down: a refusal
\* with the echo or without, or a grant whose echo was removed.
Forgeries(f, p) ==
  {Denied(f.body.file, "unread", None)}
  \cup (IF p = None THEN {} ELSE {Denied(f.body.file, "forged", p.body.operation_id)})
  \cup (IF f.kind = "Granted" THEN {[f EXCEPT !.body.operation_id = None]} ELSE {})

\* The answer is replaced, or given in the server's place.
Forge(d) ==
  /\ wire[d] # None
  /\ \E a \in Forgeries(wire[d], pending[d]) :
       /\ wire' = [wire EXCEPT ![d] = a]
       /\ misled' = misled \cup
            {m \in [n : IF pending[d] = None THEN {} ELSE {pending[d].op.n}, by : {"echo", "silence"}] :
               /\ a.kind = "Denied"
               /\ m.by = IF a.body.operation_id # None THEN "echo" ELSE "silence"
               /\ m.by = "silence" => FirstRequest(d)}
  /\ UNCHANGED <<hour, knows, journal, table, frozen, begun, pending, running, held, watcher>>

Lose(d) ==
  /\ wire[d] # None /\ wire' = [wire EXCEPT ![d] = None]
  /\ running' = [running EXCEPT ![d] = IF @.plain THEN Rest ELSE [@ EXCEPT !.reached = TRUE]]
  /\ UNCHANGED <<hour, knows, journal, table, frozen, begun, pending, held, misled, watcher>>

\* The process ends; what is written down stays.
Crash(d) ==
  /\ running[d] # Rest \/ wire[d] # None
  /\ running' = [running EXCEPT ![d] = Rest] /\ wire' = [wire EXCEPT ![d] = None]
  /\ UNCHANGED <<hour, knows, journal, table, frozen, begun, pending, held, misled, watcher>>

Learn(d, op, what, lease) ==
  held' = [held EXCEPT ![d] = @ \cup {[op |-> op, what |-> what, lease |-> lease]}]

\* A grant is stored before the operation is crossed out (Done).
HearGrant(d) ==
  LET a == wire[d]
  IN  /\ a # None /\ a.kind = "Granted" /\ decode_response(a) /\ ~running[d].plain
      /\ Learn(d, pending[d].op, "lease", a.body)
      /\ wire' = [wire EXCEPT ![d] = None]
      /\ running' = [running EXCEPT ![d].reached = TRUE]
      /\ UNCHANGED <<hour, knows, journal, table, frozen, begun, pending, misled, watcher>>

Done(d) ==
  /\ pending[d] # None /\ wire[d] = None /\ pending[d].op \in {l.op : l \in held[d]}
  /\ pending' = [pending EXCEPT ![d] = None] /\ running' = [running EXCEPT ![d] = Rest]
  /\ UNCHANGED <<hour, knows, journal, table, frozen, begun, wire, held, misled, watcher>>

\* A refusal with the echo is final.
HearFinal(d) ==
  LET a == wire[d]
  IN  /\ a # None /\ a.kind = "Denied" /\ decode_response(a) /\ a.body.operation_id # None
      /\ Learn(d, pending[d].op, a.body.why, None)
      /\ pending' = [pending EXCEPT ![d] = None] /\ running' = [running EXCEPT ![d] = Rest]
      /\ wire' = [wire EXCEPT ![d] = None]
      /\ UNCHANGED <<hour, knows, journal, table, frozen, begun, misled, watcher>>

\* Faulty: a refusal is a refusal.
HearUnread_final(d) ==
  LET a == wire[d]
  IN  /\ a # None /\ a.kind = "Denied" /\ decode_response(a) /\ a.body.operation_id = None
      /\ ~running[d].plain
      /\ wire' = [wire EXCEPT ![d] = None] /\ running' = [running EXCEPT ![d] = Rest]
      /\ pending' = [pending EXCEPT ![d] = None]
      /\ UNCHANGED <<hour, knows, journal, table, frozen, begun, held, misled, watcher>>

\* One without: on the first request of this process that can have arrived, the
\* old form, once; at any other time the outcome is unknown and stays open.
HearUnread(d) ==
  LET a == wire[d]
  IN  /\ a # None /\ a.kind = "Denied" /\ decode_response(a) /\ a.body.operation_id = None
      /\ ~running[d].plain
      /\ IF FirstRequest(d)
         THEN /\ wire' = [wire EXCEPT ![d] = Activation([pending[d].op EXCEPT !.plain = TRUE], WithId(pending[d].body, None))]
              /\ running' = [running EXCEPT ![d] = [@ EXCEPT !.plain = TRUE]]
              /\ pending' = [pending EXCEPT ![d] = None]
         ELSE /\ wire' = [wire EXCEPT ![d] = None] /\ running' = [running EXCEPT ![d] = Rest]
              /\ UNCHANGED pending
      /\ UNCHANGED <<hour, knows, journal, table, frozen, begun, held, misled, watcher>>

\* The answer to the old form ends the operation, whatever it is.
HearPlain(d) ==
  LET a == wire[d]
  IN  /\ a # None /\ a.kind \in {"Granted", "Denied"} /\ running[d].plain /\ decode_response(a)
      /\ wire' = [wire EXCEPT ![d] = None] /\ running' = [running EXCEPT ![d] = Rest]
      /\ UNCHANGED <<hour, knows, journal, table, frozen, begun, pending, held, misled, watcher>>

\* Too old to be repeated: the next one is a new operation.
Abandon(d) ==
  /\ pending[d] # None /\ wire[d] = None /\ hour > pending[d].op.at + Window
  /\ pending' = [pending EXCEPT ![d] = None] /\ running' = [running EXCEPT ![d] = Rest]
  /\ UNCHANGED <<hour, knows, journal, table, frozen, begun, wire, held, misled, watcher>>

\* A connection does not outlast the hour.
Hour ==
  /\ hour < MaxHours /\ hour' = hour + 1 /\ \A d \in Clients : wire[d] = None
  /\ UNCHANGED <<knows, journal, table, frozen, begun, pending, running, wire, held, misled, watcher>>

-------------------------------------------------------------------------------
(* The subscriber. Records are numbered from 0.                              *)

Quiet(cursor, heard) ==
  [on |-> FALSE, files |-> {}, at |-> 0, coming |-> <<>>, cursor |-> cursor, heard |-> heard]

\* The cursor is the first record not seen; one ahead of the journal is refused.
Subscribe(body) ==
  LET w == decode_watch(body)
  IN  /\ ~watcher.on /\ decode_request([kind |-> "Watch", body |-> body])
      /\ w.since <= Len(journal)
      /\ watcher' = [watcher EXCEPT !.on = TRUE, !.files = w.files, !.at = w.since]
      /\ UNCHANGED <<hour, knows, journal, table, frozen, begun, pending, running, wire, held, misled>>

\* An author names no files: all of its own are meant.
SubscribeAuthor(body) ==
  /\ ~watcher.on /\ decode_request([kind |-> "WatchAuthor", body |-> body])
  /\ body.since <= Len(journal)
  /\ watcher' = [watcher EXCEPT !.on = TRUE, !.files = Watched, !.at = body.since]
  /\ UNCHANGED <<hour, knows, journal, table, frozen, begun, pending, running, wire, held, misled>>

\* The server goes through the journal and sends what the subscription names.
TailJournal ==
  LET e == journal[watcher.at + 1]
  IN  /\ watcher.on /\ watcher.at < Len(journal)
      /\ watcher' = [watcher EXCEPT !.at = @ + 1,
           !.coming = IF e.file_id \in watcher.files
                      THEN Append(@, [kind |-> "Notice", body |-> encode_notice(watcher.at, e)])
                      ELSE @]
      /\ UNCHANGED <<hour, knows, journal, table, frozen, begun, pending, running, wire, held, misled>>

\* The subscriber remembers the number after the one it has heard, and passes
\* over an event it has no name for.
HearNotice ==
  LET f == Head(watcher.coming)
      n == decode_notice(f.body)
  IN  /\ watcher.coming # <<>> /\ decode_response(f)
      /\ watcher' = [watcher EXCEPT !.coming = Tail(@), !.cursor = n.seq + 1,
           !.heard = IF n.event \in journal_event THEN @ \cup {n} ELSE @]
      /\ UNCHANGED <<hour, knows, journal, table, frozen, begun, pending, running, wire, held, misled>>

\* The connection ends, and what was on it is gone.
Disconnect ==
  /\ watcher.on /\ watcher' = Quiet(watcher.cursor, watcher.heard)
  /\ UNCHANGED <<hour, knows, journal, table, frozen, begun, pending, running, wire, held, misled>>

-------------------------------------------------------------------------------

OpInit ==
  /\ hour = 0 /\ knows \in BOOLEAN /\ journal = <<>> /\ table = {} /\ frozen = {} /\ begun = 0
  /\ pending = [d \in Clients |-> None] /\ running = [d \in Clients |-> Rest]
  /\ wire = [d \in Clients |-> None] /\ held = [d \in Clients |-> {}]
  /\ misled = {} /\ watcher = Quiet(0, {})

ClientNext ==
  \/ \E d \in Clients :
       \/ \E body \in Requests, seed \in Seeds : Begin(d, body, seed)
       \/ Attempt(d) \/ Change(d) \/ Lose(d) \/ Crash(d) \/ Activate(d)
       \/ HearGrant(d) \/ Done(d) \/ HearFinal(d) \/ HearUnread(d) \/ HearPlain(d) \/ Abandon(d)
  \/ Upgrade \/ Hour

ForgeNext == \E d \in Clients : Forge(d)

AuthorNext == \E f \in Papers : Document(f)

WatchNext ==
  \/ Subscribe(encode_watch(Watched, watcher.cursor))
  \/ SubscribeAuthor([len |-> 8 + SIGNATURE_LEN + 100, since |-> watcher.cursor])
  \/ TailJournal \/ HearNotice \/ Disconnect

OpNext == ClientNext \/ ForgeNext \/ AuthorNext \/ WatchNext

OpSpec == OpInit /\ [][OpNext]_opvars

-------------------------------------------------------------------------------
(* Properties. *)

\* Repeating is safe.  However often a client repeats an operation, over lost
\* and made-up answers, crashes, changed requests and a server that did not know
\* the field at first, at most one grant is counted for it; but that a refusal
\* without the echo, made up in answer to the first request, may cost a second,
\* in the old form, and never a third.  A document takes effect once within the
\* time its record is kept.  Two different requests never come under one
\* identity, though the generator repeats itself: no client is told that its
\* identity is another's, and the lease it takes for that of an operation was
\* issued to it for the same request.  (Equal ones may share one outcome.)
\* (kdf.rs operation_id, activation.rs decode_req, decode_deny)
GrantedOnce ==
  /\ \A i, j \in DOMAIN journal : i < j =>
       /\ Issued(i) /\ Issued(j) /\ journal[i].op.n = journal[j].op.n =>
            /\ ~journal[i].op.plain /\ journal[j].op.plain
            /\ [n |-> journal[i].op.n, by |-> "silence"] \in misled
       /\ journal[i].op = journal[j].op /\ journal[i].device_fpr = None =>
            journal[j].at > journal[i].at + Retention
  /\ \A d \in Clients : \A l \in held[d] :
       /\ l.what # "used"
       /\ l.what = "lease" => \E i \in DOMAIN journal :
            /\ i = l.lease.lease + 1 /\ Issued(i)
            /\ journal[i].device_fpr = d /\ journal[i].op.asks = l.op.asks

\* No grant is lost.  One counted for an operation with an identity is with the
\* client, or the client still has the operation written down and the server
\* the answer; unless the time to repeat it has passed, the client was refused
\* while the file was frozen and took it for the end, or it was sent a refusal
\* nobody gave, with the echo or in answer to the first request.  One without
\* the echo at any other time loses nothing.
\* (activation.rs encode_grant, decode_grant, encode_deny)
NothingLost ==
  \A i \in DOMAIN journal : Issued(i) =>
    LET d == journal[i].device_fpr
        op == journal[i].op
    IN  \/ op.plain
        \/ hour > op.at + Window
        \/ \E m \in misled : m.n = op.n
        \/ \E l \in held[d] : l.op = op /\ l.what \in {"lease", "frozen"}
        \/ /\ pending[d] # None /\ pending[d].op = op
           /\ \E r \in Record(d, pending[d].body.operation_id) :
                r.hash = pending[d].body /\ r.answer.kind = "Granted" /\ r.answer.body.lease = i - 1

\* A subscription has no gaps: every record of the files before the cursor has
\* been heard as it stands in the journal, however often the connection ended;
\* and none of those comes again.
\* (activation.rs encode_watch, decode_watch, encode_notice, decode_notice)
NoGap ==
  /\ \A i \in DOMAIN journal :
       i <= watcher.cursor /\ journal[i].file_id \in Watched /\ journal[i].event \in journal_event =>
         \E n \in watcher.heard :
           /\ n.seq = i - 1 /\ n.event = journal[i].event /\ n.file_id = journal[i].file_id
           /\ n.device_fpr = journal[i].device_fpr
  /\ \A k \in DOMAIN watcher.coming : decode_notice(watcher.coming[k].body).seq >= watcher.cursor

================================================================================
