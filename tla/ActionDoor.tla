------------------------------- MODULE ActionDoor -------------------------------
(***************************************************************************)
(* Executions outside the container (crates/oc-protocol/src/action.rs): a  *)
(* door asks, the server answers with a lease for that one execution or    *)
(* waits for the owner's word, the door executes what the lease says.      *)
(*                                                                         *)
(* The documents are those of the code.  The door and the server are       *)
(* outside the repository and follow docs/protocol.md 14.5: answers may be *)
(* lost or late, a door repeats its request under the same nonce, and the  *)
(* gates are passed again when a confirmed request is repeated.  The walk  *)
(* of the chain is DelegationChain; here every holder has the rules it     *)
(* came out with, and the holders above it.  Notes, the journal and the    *)
(* door's report of an execution are left out.                             *)
(***************************************************************************)
EXTENDS Integers, Sequences, FiniteSets, ActionRules, Documents

CONSTANTS
  Asks,           \* requests the doors may make
  Rules,          \* for each door, the set of its rules
  Above,          \* for each door, the doors above it in the chain
  OwnerKey, LeaseKey,
  Foreign,        \* decisions that somebody else has signed, or elsewhere
  ACTION_LEASE_SECONDS,
  MAX_PENDING_ACTION_WINDOW,
  Terms,          \* lifetimes a server may give a lease
  MaxQueue,       \* requests that may wait
  MaxLeases,      \* bound: leases
  MaxSeconds,     \* bound: the clock
  Never           \* not revoked

Doors == DOMAIN Rules
AllRules == UNION {Rules[d] : d \in Doors}

\* A door draws a nonce for each request, and the owner's key has signed no
\* decision but the owner's.
ASSUME DoorAssumption ==
  /\ AllRules \subseteq ActionRule
  /\ Above \in [Doors -> SUBSET Doors] /\ Terms \subseteq Nat
  /\ \A ask \in Asks : ask.door_fpr \in Doors /\ ask.nonce # 0
  /\ \A a, b \in Asks : a.nonce = b.nonce /\ a.args = b.args => a = b
  /\ \A d \in Foreign : ~verify(d, "ActionDecision", OwnerKey)
  /\ ACTION_LEASE_SECONDS \in Nat /\ MAX_PENDING_ACTION_WINDOW \in Nat
  /\ MaxQueue \in Nat /\ MaxLeases \in Nat /\ MaxSeconds \in Nat /\ Never \notin Int

VARIABLES
  seconds,       \* the clock
  revoked,       \* when the grant was revoked, or Never
  asking,        \* for each door, the request it has open, or NoAsk
  sent,          \* requests on the way; each may arrive again
  numbered,      \* the last number given to a request that waits
  queue,         \* requests that wait for the owner, numbered, with the verdict
  screen,        \* entries of the queue the owner has been shown
  decisions,     \* decisions signed, by whomever
  willed,        \* history: requests the owner has said yes to
  used,          \* executions counted, for a door and the key of a rule
  leases,        \* leases issued, with the rule of each (history)
  done           \* executions, with the rule of the lease and the time

doorvars == <<seconds, revoked, asking, sent, numbered, queue, screen, decisions,
              willed, used, leases, done>>

NoAsk == [nonce |-> 0]

-------------------------------------------------------------------------------
(* Documents. *)

check_args_shape(args) ==
  /\ args.kind = "TreeRemove"  => check_tree_path(args.path)
  /\ args.kind = "TreeRename"  => check_tree_path(args.from) /\ check_tree_path(args.to)
  /\ args.kind = "HttpRequest" => check_http_path(args.path) /\ args.body_len <= MAX_BODY_LEN

check_request_shape(ask) == ask.kind = ask.args.kind /\ check_args_shape(ask.args)

decode_action_request(ask) == check_request_shape(ask) /\ refuse_if_critical(ask.more)

\* The window belongs to the document: writer and reader refuse a longer one.
check_lease_shape(lease) ==
  /\ lease.kind = lease.args.kind
  /\ lease.expires_at >= lease.issued_at
  /\ lease.expires_at <= lease.issued_at + ACTION_LEASE_SECONDS
  /\ check_args_shape(lease.args)

decode_lease(d, key) ==
  verify(d, "ActionLease", key) /\ refuse_if_critical(d.more) /\ check_lease_shape(d.text)

\* An entry of the queue is the request with its number.
check_pending_shape(p) == check_request_shape(p.ask)

\* Faulty: a decision on access to a file is taken for one on an execution.
decode_action_decision_anywhere(d, key) ==
  d.signer = key /\ refuse_if_critical(d.more) /\ d.text.author_key = key

\* The key is the one of the server's record, and the one named inside.
decode_action_decision(d, key) ==
  verify(d, "ActionDecision", key) /\ refuse_if_critical(d.more) /\ d.text.author_key = key

\* Faulty: every rule of a kind has the same key.
limiter_key_kind(rule) == <<rule.kind>>

\* A rule is counted by its kind and the bytes of its constraint.
limiter_key(rule) == <<rule.kind, rule.constraint>>

-------------------------------------------------------------------------------
(* The server. *)

\* Where an execution under a rule is counted: at the door and at every door
\* above it, under the rule there that the door's own was narrowed from.
Charged(door, rule) ==
  {<<door, rule>>} \cup
  {c \in Above[door] \X AllRules : c[2] \in Rules[c[1]] /\ narrower(rule, c[2]) = "Ok"}

Counters == {<<d, limiter_key(r)>> : d \in Doors, r \in AllRules}

Charges(door, rule) == {<<c[1], limiter_key(c[2])>> : c \in Charged(door, rule)}

Left(door, rule) ==
  \A c \in Charged(door, rule) :
    c[2].max_uses = 0 \/ used[<<c[1], limiter_key(c[2])>>] < c[2].max_uses

\* A nonce is remembered until the lease issued for it ends.
Seen(nonce) == \E l \in leases : l.doc.text.nonce = nonce /\ seconds <= l.doc.text.expires_at

Waiting(ask) == {p \in queue : p.ask.nonce = ask.nonce}

Gates(ask, rule) ==
  /\ revoked = Never
  /\ rule \in Rules[ask.door_fpr] /\ args_within(rule, ask.args) = "Ok"
  /\ Left(ask.door_fpr, rule) /\ ~Seen(ask.nonce)
  /\ \A p \in Waiting(ask) : p.ask = ask

Lease(ask, term) ==
  [grant_id |-> ask.grant_id, door_fpr |-> ask.door_fpr, kind |-> ask.kind, args |-> ask.args,
   nonce |-> ask.nonce, issued_at |-> seconds, expires_at |-> seconds + term,
   seq |-> Cardinality(leases) + 1]

Issue(ask, rule, term) ==
  /\ ask \in sent /\ decode_action_request(ask) /\ Gates(ask, rule)
  /\ rule.confirm => \E p \in Waiting(ask) : p.verdict = "yes"
  /\ Cardinality(leases) < MaxLeases /\ check_lease_shape(Lease(ask, term))
  /\ leases' = leases \cup
       {[doc |-> Signed("ActionLease", LeaseKey, Lease(ask, term), "none"), rule |-> rule]}
  /\ used' = [c \in Counters |->
       IF c \in Charges(ask.door_fpr, rule) THEN used[c] + 1 ELSE used[c]]
  /\ queue' = queue \ Waiting(ask)
  /\ UNCHANGED <<seconds, revoked, asking, sent, numbered, screen, decisions, willed, done>>

Enqueue(ask, rule) ==
  /\ ask \in sent /\ decode_action_request(ask) /\ Gates(ask, rule)
  /\ rule.confirm /\ Waiting(ask) = {} /\ Cardinality(queue) < MaxQueue
  /\ numbered' = numbered + 1
  /\ queue' = queue \cup {[seq |-> numbered + 1, ask |-> ask, verdict |-> "none"]}
  /\ UNCHANGED <<seconds, revoked, asking, sent, screen, decisions, willed, used, leases, done>>

\* The decision names the number, the grant and the door of the request.
Decide(d) ==
  /\ decode_action_decision(d, OwnerKey)
  /\ \E p \in queue :
       /\ p.seq = d.text.seq /\ p.verdict = "none"
       /\ d.text.grant_id = p.ask.grant_id /\ d.text.door_fpr = p.ask.door_fpr
       /\ queue' = (queue \ {p}) \cup
                   {[p EXCEPT !.verdict = IF d.text.approve THEN "yes" ELSE "no"]}
  /\ UNCHANGED <<seconds, revoked, asking, sent, numbered, screen, decisions, willed, used, leases, done>>

RevokeGrant ==
  /\ revoked = Never /\ revoked' = seconds
  /\ UNCHANGED <<seconds, asking, sent, numbered, queue, screen, decisions, willed, used, leases, done>>

Second ==
  /\ seconds < MaxSeconds /\ seconds' = seconds + 1
  /\ UNCHANGED <<revoked, asking, sent, numbered, queue, screen, decisions, willed, used, leases, done>>

-------------------------------------------------------------------------------
(* The owner. *)

\* The window: the first entries by number that nobody has decided.
Window ==
  {p \in queue : /\ p.verdict = "none"
                 /\ Cardinality({q \in queue : q.verdict = "none" /\ q.seq < p.seq})
                      < MAX_PENDING_ACTION_WINDOW}

\* A longer answer, or one with an entry of no valid shape, is refused whole.
split_action_queue(entries) ==
  Cardinality(entries) <= MAX_PENDING_ACTION_WINDOW /\ \A p \in entries : check_pending_shape(p)

Look ==
  /\ Window # {} /\ split_action_queue(Window)
  /\ screen' = screen \cup Window
  /\ UNCHANGED <<seconds, revoked, asking, sent, numbered, queue, decisions, willed, used, leases, done>>

Decision(p, approve) ==
  [seq |-> p.seq, grant_id |-> p.ask.grant_id, door_fpr |-> p.ask.door_fpr,
   approve |-> approve, author_key |-> OwnerKey]

Answer(p, approve) ==
  /\ p \in screen
  /\ \A d \in decisions : verify(d, "ActionDecision", OwnerKey) => d.text.seq # p.seq
  /\ decisions' = decisions \cup {Signed("ActionDecision", OwnerKey, Decision(p, approve), "none")}
  /\ willed' = IF approve THEN willed \cup {p.ask} ELSE willed
  /\ UNCHANGED <<seconds, revoked, asking, sent, numbered, queue, screen, used, leases, done>>

-------------------------------------------------------------------------------
(* The doors. *)

Ask(ask) ==
  /\ asking[ask.door_fpr] = NoAsk /\ ask \notin sent
  /\ asking' = [asking EXCEPT ![ask.door_fpr] = ask]
  /\ sent' = sent \cup {ask}
  /\ UNCHANGED <<seconds, revoked, numbered, queue, screen, decisions, willed, used, leases, done>>

\* The lease must be for the request that is open, and still run.
Execute(l) ==
  LET lease == l.doc.text
      door  == lease.door_fpr
  IN  /\ decode_lease(l.doc, LeaseKey)
      /\ lease.nonce = asking[door].nonce /\ lease.args = asking[door].args
      /\ seconds <= lease.expires_at
      /\ done' = done \cup {[lease |-> lease, rule |-> l.rule, at |-> seconds]}
      /\ asking' = [asking EXCEPT ![door] = NoAsk]
      /\ UNCHANGED <<seconds, revoked, sent, numbered, queue, screen, decisions, willed, used, leases>>

GiveUp(door) ==
  /\ asking[door] # NoAsk
  /\ asking' = [asking EXCEPT ![door] = NoAsk]
  /\ UNCHANGED <<seconds, revoked, sent, numbered, queue, screen, decisions, willed, used, leases, done>>

-------------------------------------------------------------------------------

DoorInit ==
  /\ seconds = 0 /\ revoked = Never
  /\ asking = [d \in Doors |-> NoAsk] /\ sent = {}
  /\ numbered = 0 /\ queue = {} /\ screen = {} /\ decisions = Foreign /\ willed = {}
  /\ used = [c \in Counters |-> 0] /\ leases = {} /\ done = {}

DoorNext ==
  \/ \E ask \in Asks : Ask(ask)
  \/ \E ask \in sent, rule \in AllRules, term \in Terms : Issue(ask, rule, term)
  \/ \E ask \in sent, rule \in AllRules : Enqueue(ask, rule)
  \/ \E d \in decisions : Decide(d)
  \/ RevokeGrant
  \/ Second
  \/ Look
  \/ \E p \in screen, approve \in BOOLEAN : Answer(p, approve)
  \/ \E l \in leases : Execute(l)
  \/ \E door \in Doors : GiveUp(door)

DoorSpec == DoorInit /\ [][DoorNext]_doorvars

-------------------------------------------------------------------------------
(* Correctness. *)

SameLimit(r, q) == r.kind = q.kind /\ r.constraint = q.constraint

\* The leases whose execution is charged to the rules of this limit at a door,
\* and to one rule.
ChargedTo(d, r) ==
  {l \in leases : \E c \in Charged(l.doc.text.door_fpr, l.rule) : c[1] = d /\ SameLimit(c[2], r)}

ChargedToRule(d, r) == {l \in leases : <<d, r>> \in Charged(l.doc.text.door_fpr, l.rule)}

\* Delegation does not multiply a limit on executions, and no rule pays for
\* another: at every door of the chain, what is counted for a rule is the
\* number of leases issued under its limit there or below, and the leases
\* issued under a rule stay within its number.
UsesCounted ==
  \A d \in Doors : \A r \in Rules[d] :
    /\ used[<<d, limiter_key(r)>>] = Cardinality(ChargedTo(d, r))
    /\ r.max_uses # 0 => Cardinality(ChargedToRule(d, r)) <= r.max_uses

\* The owner stays in control of what is executed: nothing that asks for the
\* owner's word without a yes to this very request, nothing later than one
\* lease after the grant was revoked, and no request twice, however late the
\* answers and however often the door repeats it.
OwnerInControl ==
  \A e \in done :
    /\ e.rule.confirm =>
         \E ask \in willed : /\ ask.nonce = e.lease.nonce /\ ask.args = e.lease.args
                             /\ ask.door_fpr = e.lease.door_fpr
    /\ revoked # Never => e.at <= revoked + ACTION_LEASE_SECONDS
    /\ \A f \in done :
         f.lease.nonce = e.lease.nonce /\ f.lease.args = e.lease.args => f = e

=================================================================================
