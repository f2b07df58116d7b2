-------------------------------- MODULE Orders --------------------------------
(***************************************************************************)
(* Orders to the server (crates/oc-protocol/src/order.rs) and the standing *)
(* of a file the server answers with (standing.rs).  The author and others *)
(* sign orders; whoever carries them may hold them back and repeat them.   *)
(* The server is not part of the repository: what it does with an order is *)
(* taken from the contract that order.rs and docs/protocol.md 11 and 12    *)
(* write down, and it is here because every rule of the codecs is made for *)
(* it.                                                                     *)
(*                                                                         *)
(* An order is its kind, its file, its time and the fields it has.  People *)
(* are their keys.  An intent is the order without time and signer.        *)
(***************************************************************************)
EXTENDS Integers, Sequences, FiniteSets, Functions, AccessDecisions

CONSTANTS
  Files, First,        \* First is the file that is registered already
  NoFile,              \* the zero identifier
  Author,              \* the key of the author of every file
  Keys,                \* everybody's keys, the author's among them
  Client,              \* for each key, the fields its client adds to an order
  Devices,
  Founders,            \* rosters of coauthors that the header may pin
  Menus,               \* who gives which command, an order without its time
  Absent,
  NoDevice,            \* the zero name
  Skew,                \* how far the time of an order may be from the server's
  MAX_KEYS, MAX_HEIRS, MAX_DEVICE_NAMES,
  MaxTime, MaxSigned   \* bounds: the clock, orders signed

Kinds ==
  {"Register", "Revoke", "SetLimits", "SetCoauthors", "SetApprovers", "ApproveDevice",
   "Alive", "SetHeir", "Freeze", "ReplaceDevice", "SetRule", "WatchAuthor", "RevokeGrant"}

ASSUME OrdersAssumption ==
  /\ Author \in Keys /\ Client \in [Keys -> Unknown] /\ First \in Files /\ NoFile \notin Files
  /\ Skew \in Nat /\ MaxTime \in Nat /\ MaxSigned \in Nat
  /\ MAX_KEYS \in Nat /\ MAX_HEIRS \in Nat /\ MAX_DEVICE_NAMES \in Nat
  /\ Absent \notin {"Open", "Close"}

VARIABLES
  now,        \* the server's clock; the signers' clocks show the same
  menu,       \* the commands people issue in this behaviour
  orders,     \* signed orders: <<signer, order>>
  server,     \* what the server keeps of each file
  alive,      \* when the author was last seen
  revokedGrants,
  withdrawn,  \* history: refusing votes that were counted
  given,      \* history: what heirs were given, as <<device, file, decision>>
  executed,   \* history: the changes made, with the signatures counted
  said        \* history: <<key, command>> heard and not carried out since

vars == <<now, menu, orders, server, alive, revokedGrants, withdrawn, given, executed, said>>

-------------------------------------------------------------------------------
(* The order. *)

Order(file, kind, at, fields) == [file_id |-> file, kind |-> kind, at |-> at, fields |-> fields]

has(o, f) == f \in DOMAIN o.fields

\* A field a kind must have and the others must not; one it may have.
required(o, f, wanted) == has(o, f) <=> wanted
only_if(o, f, allowed) == has(o, f) => allowed

Distinct(s) == \A i, j \in DOMAIN s : s[i] = s[j] => i = j

check_names(names) == Len(names) \in 1 .. MAX_DEVICE_NAMES /\ Distinct(names) /\ NoDevice \notin Range(names)

\* Faulty: more signatures may be demanded than there are members.
check_roster_unreachable(keys, threshold) ==
  /\ Len(keys) <= MAX_KEYS /\ Distinct(keys)
  /\ keys = <<>> <=> threshold = 0

\* Nobody twice, and a threshold that the members can reach.
check_roster(keys, threshold) ==
  /\ Len(keys) <= MAX_KEYS /\ Distinct(keys)
  /\ IF keys = <<>> THEN threshold = 0 ELSE threshold \in 1 .. Len(keys)

\* Faulty: the file of a bequest is not compared.
check_bequests_anyfile(all, file) ==
  /\ Len(all) \in 1 .. MAX_HEIRS
  /\ \A i \in DOMAIN all :
       /\ decode_decision(all[i])
       /\ all[i].text.seq = HEIR_SEQ /\ all[i].text.approve
  /\ \A i, j \in DOMAIN all : all[i].text.device_fpr = all[j].text.device_fpr => i = j

\* Decisions about this file, ready to be handed out, one for each device.
check_bequests(all, file) ==
  /\ Len(all) \in 1 .. MAX_HEIRS
  /\ \A i \in DOMAIN all :
       /\ decode_decision(all[i])
       /\ all[i].text.file_id = file /\ all[i].text.seq = HEIR_SEQ
       /\ all[i].text.approve /\ all[i].text.share_b # NoShare
  /\ \A i, j \in DOMAIN all : all[i].text.device_fpr = all[j].text.device_fpr => i = j

\* What decoding makes of the fields.  A share that the author's key has signed
\* is sealed to the device the decision names.
FieldTypes(fields) ==
  /\ fields = [f \in DOMAIN fields |-> fields[f]]
  /\ "keys" \in DOMAIN fields => fields.keys \in Seq(Keys)
  /\ "heir_mode" \in DOMAIN fields => fields.heir_mode \in {"Off", "Open", "Close"}
  /\ \A f \in {"approve", "frozen"} \cap DOMAIN fields : fields[f] \in BOOLEAN
  /\ "bequests" \in DOMAIN fields =>
       /\ DOMAIN fields.bequests = 1 .. Len(fields.bequests)
       /\ \A i \in DOMAIN fields.bequests :
            LET d == fields.bequests[i]
            IN  verify(d, "GRANT", Author) /\ d.text.share_b # NoShare =>
                  d.text.share_b.sealed_to = d.text.device_fpr

\* Commands that can be written, and rosters a header can carry.
ASSUME CommandsAssumption ==
  /\ \A m \in Menus : \A x \in m :
       x[1] \in Keys /\ x[2].kind \in Kinds /\ FieldTypes(x[2].fields)
  /\ \A r \in Founders : r \in Seq(Keys) /\ check_roster(r, Len(r))

Fileless == {"Freeze", "WatchAuthor", "RevokeGrant"}

NamesItsSigner(o) ==
  \/ o.kind = "Alive" /\ o.file_id = NoFile
  \/ o.kind \in Fileless \cup {"ApproveDevice"}

\* The fields fit the kind: the same check when writing and when reading.
check(o) ==
  LET limits == o.kind \in {"Register", "SetLimits"}
      roster == o.kind \in {"SetCoauthors", "SetApprovers"}
      mode == IF has(o, "heir_mode") THEN o.fields.heir_mode ELSE Absent
  IN  /\ only_if(o, "max_devices", limits) /\ only_if(o, "max_grants", limits)
      /\ o.kind = "SetLimits" => has(o, "max_devices") \/ has(o, "max_grants")
      /\ required(o, "keys", roster) /\ required(o, "threshold", roster)
      /\ roster => check_roster(o.fields.keys, o.fields.threshold)
      /\ required(o, "device_fpr", o.kind = "ApproveDevice")
      /\ required(o, "approve", o.kind = "ApproveDevice")
      /\ required(o, "heir_mode", o.kind = "SetHeir")
      /\ required(o, "silence_seconds", mode \in {"Open", "Close"})
      /\ required(o, "bequests", mode = "Open")
      /\ only_if(o, "proposal_ttl", o.kind = "SetCoauthors")
      /\ has(o, "proposal_ttl") => o.fields.proposal_ttl # 0
      /\ required(o, "frozen", o.kind = "Freeze")
      /\ required(o, "authority_key", o.kind = "WatchAuthor")
      /\ required(o, "grant_id", o.kind = "RevokeGrant")
      /\ o.kind \in Fileless => o.file_id = NoFile
      /\ required(o, "signer_key", NamesItsSigner(o))
      /\ has(o, "bequests") => check_bequests(o.fields.bequests, o.file_id)
      /\ required(o, "old_devices", o.kind = "ReplaceDevice")
      /\ required(o, "new_devices", o.kind = "ReplaceDevice")
      /\ required(o, "rule", o.kind = "SetRule")
      /\ o.kind \in {"ReplaceDevice", "SetRule"} => o.file_id # NoFile
      /\ o.kind = "ReplaceDevice" =>
           /\ check_names(o.fields.old_devices) /\ check_names(o.fields.new_devices)
           /\ Range(o.fields.old_devices) \cap Range(o.fields.new_devices) = {}

encode(o) == check(o)

\* Fields of another version are refused or skipped before the check.
decode(o, more) == refuse_if_critical(more) /\ check(o)

\* Faulty: the time of signing is part of the intent.
intent_digest_timed(o) ==
  LET canonical == [o EXCEPT !.fields = Restrict(@, DOMAIN @ \ {"signer_key"})]
  IN  IF encode(canonical) THEN canonical ELSE Absent

\* What an order commands, whoever signed it and when.  Kinds that name their
\* signer have none: without that field they are not orders.
intent_digest(o) ==
  LET canonical == [o EXCEPT !.at = 0, !.fields = Restrict(@, DOMAIN @ \ {"signer_key"})]
  IN  IF encode(canonical) THEN canonical ELSE Absent

NoHeir == [mode |-> Absent, silence_seconds |-> Absent, device_fprs |-> <<>>, released_at |-> Absent]

-------------------------------------------------------------------------------
(* The standing of a file, as the server answers and the client reads it.  *)

\* Fields at their default are not written.
standing_encode(s) ==
  LET written(f) ==
        CASE f \in {"max_devices", "max_grants", "last_alive"} -> s[f] # Absent
          [] f \in {"coauthors", "approvers"}                  -> s[f] # <<>>
          [] f \in {"votes", "proposals"}                      -> s[f] # {}
          [] f \in {"coauthor_threshold", "approver_threshold", "proposal_ttl"} -> s[f] # 0
          [] f = "frozen"          -> s.frozen
          [] f \in {"heir_mode", "silence_seconds"} -> s.heir.mode # Absent
          [] f = "heir_released_at" -> s.heir.mode # Absent /\ s.heir.released_at # Absent
          [] f = "heir_fpr"        -> s.heir.mode = "Open"
          [] OTHER                 -> TRUE
      value(f) ==
        CASE f = "heir_mode"        -> s.heir.mode
          [] f = "silence_seconds"  -> s.heir.silence_seconds
          [] f = "heir_released_at" -> s.heir.released_at
          [] f = "heir_fpr"         -> s.heir.device_fprs
          [] OTHER                  -> s[f]
      names == (DOMAIN s \ {"heir"}) \cup
                 {"heir_mode", "silence_seconds", "heir_released_at", "heir_fpr"}
  IN  [f \in {g \in names : written(g)} |-> value(f)]

\* Both the roster and the threshold, or neither; and a quorum one can reach.
standing_check_roster(t, keys, threshold) ==
  /\ keys \in DOMAIN t => t[keys] # <<>> /\ Len(t[keys]) <= MAX_KEYS
  /\ keys \in DOMAIN t <=> threshold \in DOMAIN t
  /\ threshold \in DOMAIN t => t[threshold] \in 1 .. Len(t[keys])

\* An heir is there with all its fields or not at all.
standing_heir_fits(t) ==
  LET there == DOMAIN t \cap {"heir_mode", "silence_seconds", "heir_fpr"}
  IN  \/ there = {} /\ "heir_released_at" \notin DOMAIN t
      \/ there = {"heir_mode", "silence_seconds", "heir_fpr"} /\ t.heir_mode = "Open"
           /\ t.heir_fpr # <<>>
      \/ there = {"heir_mode", "silence_seconds"} /\ t.heir_mode = "Close"

\* What is refused: all that the writer never writes.
standing_readable(t) ==
  /\ {"file_id", "revoked"} \subseteq DOMAIN t
  /\ standing_check_roster(t, "coauthors", "coauthor_threshold")
  /\ standing_check_roster(t, "approvers", "approver_threshold")
  /\ "frozen" \in DOMAIN t => t.frozen
  /\ "proposal_ttl" \in DOMAIN t => t.proposal_ttl # 0
  /\ \A f \in {"votes", "proposals"} \cap DOMAIN t : t[f] # {}
  /\ standing_heir_fits(t)

standing_decode(t) ==
  LET read(f, default) == IF f \in DOMAIN t THEN t[f] ELSE default
  IN  [file_id |-> t.file_id, revoked |-> t.revoked,
       max_devices |-> read("max_devices", Absent), max_grants |-> read("max_grants", Absent),
       coauthors |-> read("coauthors", <<>>),
       coauthor_threshold |-> read("coauthor_threshold", 0),
       proposal_ttl |-> read("proposal_ttl", 0),
       approvers |-> read("approvers", <<>>),
       approver_threshold |-> read("approver_threshold", 0),
       heir |-> IF "heir_mode" \notin DOMAIN t THEN NoHeir
                ELSE [mode |-> t.heir_mode, silence_seconds |-> t.silence_seconds,
                      device_fprs |-> read("heir_fpr", <<>>),
                      released_at |-> read("heir_released_at", Absent)],
       last_alive |-> read("last_alive", Absent),
       votes |-> read("votes", {}), proposals |-> read("proposals", {}),
       frozen |-> read("frozen", FALSE)]

-------------------------------------------------------------------------------
(* The server. *)

\* A file before any order about it.
Blank ==
  [registered |-> FALSE, revoked |-> FALSE, max_devices |-> Absent, max_grants |-> Absent,
   coauthors |-> <<>>, coauthor_threshold |-> 0, proposal_ttl |-> 0,
   approvers |-> <<>>, approver_threshold |-> 0, votes |-> {}, proposals |-> {},
   heir |-> NoHeir, bequests |-> <<>>, frozen |-> FALSE, frozen_at |-> -1,
   barrier |-> [k \in Kinds |-> -1], done |-> {}, replaced |-> {}, reserved |-> {}, rule |-> Absent]

Registered == {f \in Files : server[f].registered}

\* The server's answer to a question about the file.
Standing(f) ==
  LET s == server[f]
  IN  [file_id |-> f, revoked |-> s.revoked, max_devices |-> s.max_devices,
       max_grants |-> s.max_grants, coauthors |-> s.coauthors,
       coauthor_threshold |-> s.coauthor_threshold, proposal_ttl |-> s.proposal_ttl,
       approvers |-> s.approvers, approver_threshold |-> s.approver_threshold,
       heir |-> s.heir, last_alive |-> alive, votes |-> s.votes,
       proposals |-> {[intent |-> p.intent, kind |-> p.intent.kind,
                       need |-> s.coauthor_threshold,
                       signers |-> {x[1] : x \in p.signers}] : p \in s.proposals},
       frozen |-> s.frozen]

Fresh(o) == o.at - now <= Skew /\ now - o.at <= Skew

\* Orders older than the last one of their kind pass without a trace, and so
\* does one that was carried out a moment ago.
Heard(s, o) == o.at >= s.barrier[o.kind]
Remembered(s, x) == \E d \in s.done : d[1] = x /\ now - d[2] <= 2 * Skew

Field(o, f, default) == IF has(o, f) THEN o.fields[f] ELSE default

\* What each kind sets.
Carried(s, o) ==
  CASE o.kind = "Revoke" -> [s EXCEPT !.revoked = TRUE]
    [] o.kind = "SetLimits" ->
         [s EXCEPT !.max_devices = Field(o, "max_devices", @),
                   !.max_grants = Field(o, "max_grants", @)]
    [] o.kind = "SetCoauthors" ->
         [s EXCEPT !.coauthors = o.fields.keys, !.coauthor_threshold = o.fields.threshold,
                   !.proposal_ttl = Field(o, "proposal_ttl", @)]
    [] o.kind = "SetApprovers" ->
         [s EXCEPT !.approvers = o.fields.keys, !.approver_threshold = o.fields.threshold]
    [] o.kind = "SetHeir" /\ o.fields.heir_mode = "Off" ->
         [s EXCEPT !.heir = NoHeir, !.bequests = <<>>]
    [] o.kind = "SetHeir" /\ o.fields.heir_mode # "Off" ->
         LET bequests == Field(o, "bequests", <<>>)
         IN  [s EXCEPT !.bequests = bequests,
                       !.heir = [mode |-> o.fields.heir_mode,
                                 silence_seconds |-> o.fields.silence_seconds,
                                 device_fprs |-> [i \in DOMAIN bequests |->
                                                    bequests[i].text.device_fpr],
                                 released_at |-> Absent]]
    [] o.kind = "ReplaceDevice" ->
         [s EXCEPT !.replaced = @ \cup Range(o.fields.old_devices),
                   !.reserved = @ \cup {Range(o.fields.new_devices)}]
    [] o.kind = "SetRule" -> [s EXCEPT !.rule = o.fields.rule]

FileKinds ==
  {"Revoke", "SetLimits", "SetCoauthors", "SetApprovers", "SetHeir", "ReplaceDevice", "SetRule"}

\* A replacement is refused for names already replaced or reserved, an heir
\* for a decision that the key of the file has not signed.
Executable(s, o) ==
  /\ o.kind = "ReplaceDevice" =>
       /\ Range(o.fields.old_devices) \cap s.replaced = {}
       /\ Range(o.fields.new_devices) \cap (s.replaced \cup UNION s.reserved) = {}
  /\ has(o, "bequests") =>
       \A i \in DOMAIN o.fields.bequests : verify(o.fields.bequests[i], "GRANT", Author)

\* Faulty: signatures collected for the same kind stay when one is carried out.
SettledKept(s, o, what) ==
  [Carried(s, o) EXCEPT !.barrier[o.kind] = o.at,
                        !.proposals = {p \in @ : p.intent # intent_digest(o)},
                        !.done = @ \cup {<<what, now>>}]

\* Carrying out raises the barrier of the kind and clears what was collected
\* for it, and for every kind when the coauthors change.
Settled(s, o, what) ==
  [Carried(s, o) EXCEPT
     !.barrier[o.kind] = o.at,
     !.proposals = IF o.kind = "SetCoauthors" THEN {}
                   ELSE {p \in @ : p.intent.kind # o.kind},
     !.done = @ \cup {<<what, now>>}]

\* Presence of the author, for all of the files; it never moves back.
Touched(key, at) == IF key = Author /\ (alive = Absent \/ alive < at) THEN at ELSE alive

Record(f, o, signers) ==
  executed' = Append(executed,
    [file |-> f, kind |-> o.kind, at |-> o.at, signers |-> signers,
     roster |-> server[f].coauthors, threshold |-> server[f].coauthor_threshold])

Forget(f, o) ==
  said' = {x \in said : x[2] # f \/ (o.kind # "SetCoauthors" /\ x[3].kind # o.kind)}

-------------------------------------------------------------------------------
(* Orders are signed, carried and executed. *)

\* Somebody gives a command.  A client of another make may sign what encode
\* would refuse, and add fields of its own.
Sign(key, c) ==
  /\ Cardinality(orders) < MaxSigned
  /\ LET plain == Order(c.file_id, c.kind, now, c.fields)
         o == IF NamesItsSigner(plain)
              THEN [plain EXCEPT !.fields = [f \in DOMAIN @ \cup {"signer_key"} |->
                                               IF f = "signer_key" THEN key ELSE @[f]]]
              ELSE plain
     IN  orders' = orders \cup {<<key, o>>}
  /\ UNCHANGED <<now, menu, server, alive, revokedGrants, withdrawn, given, executed, said>>

\* An order that reaches the server: it parses, is fresh, and its signature
\* verifies under the key that goes with its kind.
Reaches(m) ==
  LET o == m[2]
  IN  /\ decode(o, Client[m[1]]) /\ Fresh(o)
      /\ has(o, "signer_key") => o.fields.signer_key = m[1]

\* The remembered key of the file, when nobody has to agree.
CarryOut(m) ==
  LET o == m[2]
      f == o.file_id
      s == server[f]
  IN  /\ o.kind \in FileKinds /\ f \in Registered /\ s.coauthors = <<>>
      /\ m[1] = Author /\ Reaches(m)
      /\ Heard(s, o) /\ ~Remembered(s, o) /\ Executable(s, o)
      /\ server' = [server EXCEPT ![f] = Settled(s, o, o)]
      /\ alive' = Touched(m[1], o.at)
      /\ Record(f, o, {<<m[1], o.at>>}) /\ Forget(f, o)
      /\ UNCHANGED <<now, menu, orders, revokedGrants, withdrawn, given>>

\* Members are counted by their places in the roster in force.
have(s, signers) ==
  Cardinality({i \in DOMAIN s.coauthors : \E x \in signers : x[1] = s.coauthors[i]})

\* A signature on what others may have signed already.
Endorse(m) ==
  LET key == m[1]
      o == m[2]
      f == o.file_id
      s == server[f]
      intent == intent_digest(o)
      before == UNION {p.signers : p \in {q \in s.proposals : q.intent = intent}}
      signers == IF \E x \in before : x[1] = key THEN before ELSE before \cup {<<key, o.at>>}
  IN  /\ o.kind \in FileKinds /\ f \in Registered
      /\ key \in Range(s.coauthors) /\ Reaches(m)
      /\ Heard(s, o) /\ ~Remembered(s, intent) /\ Executable(s, o)
      /\ alive' = Touched(key, o.at)
      /\ IF have(s, signers) >= s.coauthor_threshold
         THEN /\ server' = [server EXCEPT ![f] = Settled(s, o, intent)]
              /\ Record(f, o, signers) /\ Forget(f, o)
         ELSE /\ server' = [server EXCEPT ![f].proposals =
                   {p \in @ : p.intent # intent} \cup {[intent |-> intent, signers |-> signers]}]
              /\ said' = said \cup {<<key, f, [kind |-> o.kind, fields |-> o.fields]>>}
              /\ UNCHANGED executed
      /\ UNCHANGED <<now, menu, orders, revokedGrants, withdrawn, given>>

\* A file comes under the panic that is in force for the others.
Register(m) ==
  LET o == m[2]
      f == o.file_id
      panic == {server[g].frozen_at : g \in Registered}
      newest == CHOOSE t \in panic \cup {-1} : \A u \in panic : t >= u
  IN  /\ o.kind = "Register" /\ f \in Files \ Registered
      /\ m[1] = Author /\ Reaches(m)
      /\ server' = [server EXCEPT ![f] =
           [Blank EXCEPT !.registered = TRUE, !.frozen_at = newest,
                         !.frozen = \E g \in Registered : server[g].frozen,
                         !.max_devices = Field(o, "max_devices", Absent),
                         !.max_grants = Field(o, "max_grants", Absent)]]
      /\ alive' = Touched(m[1], o.at)
      /\ UNCHANGED <<now, menu, orders, revokedGrants, withdrawn, given, executed, said>>

\* Past the coauthors, for every file of the key; the signers' clock orders
\* the commands, and the same second goes to the later one.
Freeze(m) ==
  LET o == m[2]
  IN  /\ o.kind = "Freeze" /\ m[1] = Author /\ Reaches(m)
      /\ server' = [f \in Files |->
           IF f \in Registered /\ o.at >= server[f].frozen_at
           THEN [server[f] EXCEPT !.frozen = o.fields.frozen, !.frozen_at = o.at]
           ELSE server[f]]
      /\ alive' = Touched(m[1], o.at)
      /\ UNCHANGED <<now, menu, orders, revokedGrants, withdrawn, given, executed, said>>

Alive(m) ==
  LET o == m[2]
  IN  /\ o.kind = "Alive" /\ m[1] = Author /\ Reaches(m)
      /\ o.file_id \in Registered \cup {NoFile}
      /\ alive' = Touched(m[1], o.at)
      /\ UNCHANGED <<now, menu, orders, server, revokedGrants, withdrawn, given, executed, said>>

\* A vote older than the one there passes; of the same second, a refusal wins.
VoteCounts(s, v) ==
  \A w \in s.votes :
    w.device_fpr = v.device_fpr /\ w.voter = v.voter =>
      v.at > w.at \/ (v.at = w.at /\ ~v.approve)

Vote(m) ==
  LET o == m[2]
      f == o.file_id
      v == [device_fpr |-> o.fields.device_fpr, voter |-> m[1], approve |-> o.fields.approve,
            at |-> o.at]
  IN  /\ o.kind = "ApproveDevice" /\ f \in Registered
      /\ m[1] \in Range(server[f].approvers) /\ Reaches(m)
      /\ VoteCounts(server[f], v)
      /\ server' = [server EXCEPT ![f].votes =
           {w \in @ : w.device_fpr # v.device_fpr \/ w.voter # v.voter} \cup {v}]
      /\ withdrawn' = IF v.approve THEN withdrawn ELSE withdrawn \cup {o}
      /\ alive' = Touched(m[1], o.at)
      /\ UNCHANGED <<now, menu, orders, revokedGrants, given, executed, said>>

RevokeGrant(m) ==
  LET o == m[2]
  IN  /\ o.kind = "RevokeGrant" /\ m[1] = Author /\ Reaches(m)
      /\ revokedGrants' = revokedGrants \cup {o.fields.grant_id}
      /\ alive' = Touched(m[1], o.at)
      /\ UNCHANGED <<now, menu, orders, server, withdrawn, given, executed, said>>

\* The event is noticed when somebody comes for the file; the heir is handed
\* the bytes the author signed.
Collect(device, f) ==
  LET s == server[f]
      mine == {i \in DOMAIN s.bequests : s.bequests[i].text.device_fpr = device}
  IN  /\ f \in Registered /\ s.heir.mode = "Open" /\ alive # Absent
      /\ s.heir.released_at # Absent \/ now - alive >= s.heir.silence_seconds
      /\ server' = [server EXCEPT ![f].heir.released_at = IF @ = Absent THEN now ELSE @]
      /\ given' = given \cup {<<device, f, s.bequests[i]>> : i \in mine}
      /\ UNCHANGED <<now, menu, orders, alive, revokedGrants, withdrawn, executed, said>>

Tick ==
  /\ now < MaxTime
  /\ now' = now + 1
  /\ UNCHANGED <<menu, orders, server, alive, revokedGrants, withdrawn, given, executed, said>>

\* One file is there already, with the coauthors its header pins.
Init ==
  /\ now = 0 /\ menu \in Menus /\ orders = {} /\ alive = 0 /\ revokedGrants = {}
  /\ \E r \in Founders :
       server = [f \in Files |->
         IF f # First THEN Blank
         ELSE [Blank EXCEPT !.registered = TRUE, !.coauthors = r, !.coauthor_threshold = Len(r)]]
  /\ withdrawn = {} /\ given = {} /\ executed = <<>> /\ said = {}

Next ==
  \/ \E x \in menu : Sign(x[1], x[2])
  \/ \E m \in orders :
       \/ CarryOut(m) \/ Endorse(m) \/ Register(m) \/ Freeze(m)
       \/ Alive(m) \/ Vote(m) \/ RevokeGrant(m)
  \/ \E device \in Devices, f \in Files : Collect(device, f)
  \/ Tick

Spec == Init /\ [][Next]_vars

-------------------------------------------------------------------------------
(* Correctness. *)

\* A file with coauthors is ruled by as many different people as its roster
\* asks for, and by no more than that: what was done was signed by a quorum of
\* distinct members, and what a quorum has said, each at a time of their own
\* and with a client of their own, has been done.
QuorumRules ==
  /\ \A i \in DOMAIN executed :
       LET e == executed[i]
       IN  e.roster # <<>> =>
             Cardinality(Range(e.roster) \cap {x[1] : x \in e.signers}) >= e.threshold
  /\ \A f \in Registered : \A x \in said :
       x[2] = f =>
         Cardinality({k \in Range(server[f].coauthors) : <<k, f, x[3]>> \in said})
           < server[f].coauthor_threshold

\* A command that was taken back stays so.  No change counts a signature older
\* than an earlier change of the same kind, even when somebody else completes
\* the quorum with a fresh one; a vote held back does not return once it was
\* withdrawn; and a panic is in force for every file of the author or for none.
NewestCommandStands ==
  /\ \A i, j \in DOMAIN executed :
       i < j /\ executed[i].file = executed[j].file /\ executed[i].kind = executed[j].kind =>
         \A x \in executed[j].signers : x[2] >= executed[i].at
  /\ \A f \in Registered : \A v \in server[f].votes : \A m \in orders :
       /\ v.approve /\ m[1] = v.voter /\ m[2].kind = "ApproveDevice" /\ m[2].file_id = f
       /\ m[2].fields.device_fpr = v.device_fpr /\ ~m[2].fields.approve
       /\ m[2] \in withdrawn
       => v.at > m[2].at
  /\ \A f, g \in Registered : server[f].frozen = server[g].frozen

\* Whatever orders were accepted, the author's client can read where the file
\* stands, and reads what the server keeps.
StandingReadable ==
  \A f \in Registered :
    LET sent == standing_encode(Standing(f))
    IN  standing_readable(sent) /\ standing_decode(sent) = Standing(f)

\* What an heir is handed after the author's silence is the author's decision
\* about this file and this device, with the share.
HeirGetsThisFile ==
  \A g \in given :
    LET d == g[3]
    IN  /\ decode_decision(d) /\ verify(d, "GRANT", Author)
        /\ d.text.file_id = g[2] /\ d.text.device_fpr = g[1]
        /\ d.text.approve /\ d.text.share_b.sealed_to = g[1]

================================================================================
