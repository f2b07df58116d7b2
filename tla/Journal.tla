-------------------------------- MODULE Journal --------------------------------
(***************************************************************************)
(* The logs of a server, the witness that signs their heads                *)
(* (crates/oc-protocol/src/witness.rs) and the directory of keys kept in   *)
(* one of them (directory.rs).                                             *)
(*                                                                         *)
(* Two servers may answer under one key: the one in service and a copy put *)
(* back from a backup that writes on.  Server, witness, client and monitor *)
(* are services outside the repository: what they do is the contract of    *)
(* docs/protocol.md 9.13 and 9.14, and every check they make is the code's.*)
(* Times and the texts of a record but for its member are left out.        *)
(***************************************************************************)
EXTENDS Integers, Sequences, FiniteSets, MerkleTree, Documents

CONSTANTS
  ServerKey, Watchers,    \* <<witness, log>> for each witness and the log it keeps
  Trusted,                \* the witness clients and monitors trust
  Entries,                \* <<member, key, state, more>> the operator may enter
  Tenants, Names,         \* those that may be written and shown
  MAX_PATH, MAX_INCLUSION_PATH, MAX_PAGE,
  MaxSize,                \* bound for each log: its records
  MaxU32                  \* the most leaves a tree can prove

Logs == {"Journal", "Directory"}
Branches == {"service", "copy"}

ASSUME JournalAssumption ==
  /\ Watchers \subseteq STRING \X Logs
  /\ MaxSize \in [Logs -> Nat] /\ MaxU32 \in Nat
  /\ MAX_PATH \in Nat /\ MAX_INCLUSION_PATH \in Nat /\ MAX_PAGE \in Nat \ {0}

VARIABLES
  inUse,      \* the log that is written and watched in this behaviour
  kept,       \* for each branch and log, the records
  copied,     \* the copy has been put back
  watch,      \* for each watcher, the head it remembers and whether it asks for one alone
  cosigned,   \* heads witnesses have signed
  evidence    \* what witnesses have found: <<watcher, "Rollback" or "Fork">>

logvars == <<inUse, kept, copied, watch, cosigned, evidence>>

-------------------------------------------------------------------------------
(* Records of the directory. *)

KeyState == {"Active", "Withdrawn"}

device_fpr(public) == <<"fpr", public>>

Record(member, public, version, state, more) ==
  [member |-> member, public |-> public, fpr |-> device_fpr(public), version |-> version,
   state |-> state, more |-> more]

check_tenant(tenant) == tenant \in Tenants
check_text(text) == text \in Names

check_record(r) ==
  /\ check_tenant(r.member[1]) /\ check_text(r.member[2])
  /\ r.version # 0 /\ r.fpr = device_fpr(r.public)

\* A field of a newer version is skipped or refused; the known ones must be
\* what they are encoded to.
decode_record(r) == refuse_if_critical(r.more) /\ check_record(r)

\* The leaf of a record is made from its bytes, unknown fields and all.
leaf_of_record(r) == Leaf(<<"entry", r>>)
LeafIn(l, r) == IF l = "Directory" THEN leaf_of_record(r) ELSE Leaf(<<"event", r>>)

encode_page(records) == Len(records) <= MAX_PAGE
decode_page(records) == Len(records) <= MAX_PAGE /\ \A i \in DOMAIN records : decode_record(records[i])

-------------------------------------------------------------------------------
(* Heads and views. *)

head_label(l) == IF l = "Journal" THEN "AUDIT_HEAD" ELSE "DIRECTORY_HEAD"

\* The label, the size and the root are signed.
SignedHead(l, size, root, key) ==
  [size |-> size, root |-> root, sig |-> <<head_label(l), key, size, root>>]

signed_by(head, l, key) == head.sig = <<head_label(l), key, head.size, head.root>>

check_view(view) ==
  /\ Len(view.path) <= MAX_PATH
  /\ view.since = 0 => view.path = <<>>
  /\ view.since <= view.head.size

\* Faulty: heads of one length are one head.
relate_by_length(old, new, path) ==
  IF new.size < old.size THEN "Rollback"
  ELSE IF new.size = old.size THEN "Same"
  ELSE IF new.size > MaxU32 THEN "Unprovable"
  ELSE IF verify_consistency(old.size, old.root, new.size, new.root, path) THEN "Extends"
  ELSE "Fork"

\* Faulty: a head of the same length is shorter.
relate_eager(old, new, path) ==
  IF new.size <= old.size THEN "Rollback"
  ELSE IF new.size > MaxU32 THEN "Unprovable"
  ELSE IF verify_consistency(old.size, old.root, new.size, new.root, path) THEN "Extends"
  ELSE "Fork"

\* Faulty: whatever is longer extends.
relate_trusting(old, new, path) ==
  IF new.size < old.size THEN "Rollback"
  ELSE IF new.size = old.size
       THEN (IF old.root = new.root /\ path = <<>> THEN "Same" ELSE "Fork")
  ELSE IF new.size > MaxU32 THEN "Unprovable"
  ELSE "Extends"

\* The old size is not above the new one where it is compared with MaxU32.
relate(old, new, path) ==
  IF new.size < old.size THEN "Rollback"
  ELSE IF new.size = old.size
       THEN (IF old.root = new.root /\ path = <<>> THEN "Same" ELSE "Fork")
  ELSE IF new.size > MaxU32 THEN "Unprovable"
  ELSE IF verify_consistency(old.size, old.root, new.size, new.root, path) THEN "Extends"
  ELSE "Fork"

\* Log, server and head are under the witness's signature.
cosign_transcript(l, key, head) == <<"WITNESS_COSIGN", l, key, head.size, head.root>>

Cosigned(l, head, witness) ==
  [head |-> head, witness |-> witness, sig |-> <<witness, cosign_transcript(l, ServerKey, head)>>]

verify_cosigned(c, l, key, witness) ==
  /\ signed_by(c.head, l, key)
  /\ c.witness = witness
  /\ c.sig = <<witness, cosign_transcript(l, key, c.head)>>

\* The head, then the inclusion of the bytes, then what they say.
verify_lookup(answer, key, member) ==
  /\ signed_by(answer.head, "Directory", key)
  /\ answer.head.size <= MaxU32
  /\ verify_proof(answer.head.root, answer.index, answer.head.size,
                  leaf_of_record(answer.record), answer.path)
  /\ decode_record(answer.record) /\ answer.record.member = member

decode_lookup(answer) == Len(answer.path) <= MAX_INCLUSION_PATH

-------------------------------------------------------------------------------
(* The server. *)

Tree(b, l, n) == build([i \in 1 .. n |-> LeafIn(l, kept[b][l][i])])
HeadAt(b, l, n) == SignedHead(l, n, RootOf(Tree(b, l, n)), ServerKey)
Size(b, l) == Len(kept[b][l])

Live == IF copied THEN Branches ELSE {"service"}

Of(records, member) == {i \in DOMAIN records : records[i].member = member}
Newest(records, member) == CHOOSE i \in Of(records, member) : \A j \in Of(records, member) : j <= i

\* Versions count from one; a withdrawal names the active key; a key that is
\* in use belongs to one member of the organization.
Active(records, member, public) ==
  /\ Of(records, member) # {}
  /\ LET r == records[Newest(records, member)] IN r.public = public /\ r.state = "Active"

DirectoryRules(records, r) ==
  /\ r.version = Cardinality(Of(records, r.member)) + 1
  /\ r.state = "Withdrawn" => Active(records, r.member, r.public)
  /\ r.state = "Active" =>
       \A s \in {records[i] : i \in DOMAIN records} :
         s.member # r.member /\ s.member[1] = r.member[1] => ~Active(records, s.member, r.public)

Enter(b, e) ==
  LET records == kept[b]["Directory"]
      r == Record(e[1], e[2], Cardinality(Of(records, e[1])) + 1, e[3], e[4])
  IN  /\ b \in Live /\ inUse = "Directory" /\ Len(records) < MaxSize["Directory"]
      /\ check_record(r) /\ DirectoryRules(records, r)
      /\ kept' = [kept EXCEPT ![b]["Directory"] = Append(records, r)]
      /\ UNCHANGED <<inUse, copied, watch, cosigned, evidence>>

\* Events of the two branches differ.
Event(b) ==
  /\ b \in Live /\ inUse = "Journal" /\ Size(b, "Journal") < MaxSize["Journal"]
  /\ kept' = [kept EXCEPT ![b]["Journal"] = Append(@, b)]
  /\ UNCHANGED <<inUse, copied, watch, cosigned, evidence>>

\* The copy starts with what the backup held of the log.
PutBack(size) ==
  /\ ~copied /\ size <= Size("service", inUse)
  /\ copied' = TRUE
  /\ kept' = [kept EXCEPT !["copy"][inUse] = SubSeq(kept["service"][inUse], 1, size)]
  /\ UNCHANGED <<inUse, watch, cosigned, evidence>>

-------------------------------------------------------------------------------
(* The witness. *)

NoHead == [size |-> 0]

\* The answer to a question from size since, path and head from any branch.
Views(b, c, l, since) ==
  IF since = 0 THEN {[head |-> HeadAt(b, l, Size(b, l)), since |-> 0, path |-> <<>>]}
  ELSE IF since > Size(c, l) THEN {}
  ELSE {[head |-> HeadAt(b, l, Size(b, l)), since |-> since,
         path |-> consistency(Tree(c, l, Size(c, l)), since)]}

\* Nothing is remembered of a head but what was compared; a head that is longer
\* and not proved from the one remembered proves nothing either way.
Decision(old, view) ==
  IF old = NoHead THEN "First"
  ELSE IF view.head.size > old.size /\ view.since # old.size THEN "Unproved"
  ELSE relate(old, view.head, view.path)

Decide(w, view) ==
  LET old == watch[w].head
      found == Decision(old, view)
      sound == check_view(view) /\ signed_by(view.head, w[2], ServerKey)
  IN  /\ IF sound /\ found \in {"First", "Same", "Extends"}
         THEN /\ watch' = [watch EXCEPT ![w] = [head |-> view.head, alone |-> FALSE]]
              /\ cosigned' = cosigned \cup {Cosigned(w[2], view.head, w[1])}
         ELSE watch' = [watch EXCEPT ![w].alone = FALSE] /\ UNCHANGED cosigned
      /\ evidence' = IF sound /\ found \in {"Rollback", "Fork"}
                     THEN evidence \cup {<<w, found>>} ELSE evidence
      /\ UNCHANGED <<inUse, kept, copied>>

\* A view from the size that is remembered.
Observe(w, b, c) ==
  /\ {b, c} \subseteq Live /\ Size(b, w[2]) > 0 /\ ~watch[w].alone
  /\ \E view \in Views(b, c, w[2], watch[w].head.size) : Decide(w, view)

\* It is refused, and the head alone is asked for.
AskAlone(w, c) ==
  /\ c \in Live /\ ~watch[w].alone /\ watch[w].head.size > Size(c, w[2])
  /\ watch' = [watch EXCEPT ![w].alone = TRUE]
  /\ UNCHANGED <<inUse, kept, copied, cosigned, evidence>>

ObserveAlone(w, b) ==
  /\ b \in Live /\ Size(b, w[2]) > 0 /\ watch[w].alone
  /\ \E view \in Views(b, b, w[2], 0) : Decide(w, view)

-------------------------------------------------------------------------------
(* Clients and monitors of the directory.  They change nothing, and what could *)
(* be answered once can be answered later too, since the logs only grow: what  *)
(* they may have been told is told by the state.                               *)

Directory(b, n) == SubSeq(kept[b]["Directory"], 1, n)
Statements == {c \in cosigned : verify_cosigned(c, "Directory", ServerKey, Trusted)}

\* A member's newest record among the first n, with its proof.
Answer(b, n, member) ==
  LET i == Newest(Directory(b, n), member)
  IN  [head |-> HeadAt(b, "Directory", n), index |-> i - 1, record |-> kept[b]["Directory"][i],
       path |-> proof(Tree(b, "Directory", n), i - 1)]

Answers(n, member) ==
  {Answer(b, n, member) : b \in {d \in Live : n <= Size(d, "Directory")
                                            /\ Of(Directory(d, n), member) # {}}}

Verified(n, member) ==
  {a \in Answers(n, member) : decode_lookup(a) /\ verify_lookup(a, ServerKey, member)}

\* A current head shown to extend the witnessed one.
Continues(old, new, b) ==
  /\ old.size <= Size(b, "Directory") /\ new.size <= Size(b, "Directory")
  /\ relate(old, new, IF old.size = new.size THEN <<>>
                      ELSE consistency(Tree(b, "Directory", new.size), old.size))
       \in {"Same", "Extends"}

\* The current record is the one under the witnessed head: the key is proved.
Proved(member) ==
  UNION {{[record |-> then.record, index |-> then.index] :
            then \in {a \in Verified(c.head.size, member) :
                        /\ a.head = c.head
                        /\ \E n \in c.head.size .. MaxSize["Directory"] :
                             \E now \in Verified(n, member), b \in Live :
                               /\ Continues(c.head, now.head, b)
                               /\ now.record = a.record}} :
         c \in Statements}

\* The pages up to a witnessed length, each from the branch that happens to
\* answer; rules and root are computed anew.
PageOf(i) == (i - 1) \div MAX_PAGE + 1
PagesOf(size) == 1 .. PageOf(size)

Readable(from, size) ==
  \A i \in 1 .. size : i <= Size(from[PageOf(i)], "Directory")

Read(from, size) == [i \in 1 .. size |-> kept[from[PageOf(i)]]["Directory"][i]]

PagesFit(read) ==
  \A p \in PagesOf(Len(read)) :
    LET last == IF p * MAX_PAGE < Len(read) THEN p * MAX_PAGE ELSE Len(read)
        page == SubSeq(read, (p - 1) * MAX_PAGE + 1, last)
    IN  encode_page(page) /\ decode_page(page)

Clean(read, head) ==
  /\ PagesFit(read)
  /\ RootOf(build([i \in DOMAIN read |-> leaf_of_record(read[i])])) = head.root
  /\ \A i \in DOMAIN read : DirectoryRules(SubSeq(read, 1, i - 1), read[i])

Audited ==
  UNION {{Read(from, c.head.size) :
            from \in {f \in [PagesOf(c.head.size) -> Live] :
                       Readable(f, c.head.size) /\ Clean(Read(f, c.head.size), c.head)}} :
         c \in Statements}

Unused ==
  /\ inUse \in Logs
  /\ kept = [b \in Branches |-> [l \in Logs |-> <<>>]] /\ copied = FALSE
  /\ watch = [w \in Watchers |-> [head |-> NoHead, alone |-> FALSE]]
  /\ cosigned = {} /\ evidence = {}

LogNext ==
  \/ \E b \in Branches, e \in Entries : Enter(b, e)
  \/ \E b \in Branches : Event(b)
  \/ \E size \in 0 .. MaxSize[inUse] : PutBack(size)
  \/ \E w \in Watchers, b, c \in Branches : Observe(w, b, c)
  \/ \E w \in Watchers, c \in Branches : AskAlone(w, c)
  \/ \E w \in Watchers, b \in Branches : ObserveAlone(w, b)

-------------------------------------------------------------------------------
(* Correctness. *)

\* The records behind a head: the roots of two histories are different.
Behind(l, head) ==
  LET n == head.size
      b == CHOOSE b \in Live : n <= Size(b, l) /\ (n = 0 \/ HeadAt(b, l, n) = head)
  IN  SubSeq(kept[b][l], 1, n)

\* What a witness signs is one log that only grows, although two servers write
\* different histories under one key and either may answer it: after its first
\* head, the witness implements AppendOnlyLog.
Vouched == INSTANCE AppendOnlyLog WITH logs <- [w \in Watchers |-> Behind(w[2], watch[w].head)]
WitnessedOnlyGrows == Vouched!Spec

\* A server that was never put back is never accused, however its log grows
\* between the questions of the witness.
NoFalseEvidence == ~copied => evidence = {}

\* Keys that are proved are the same for everybody: two clients that took
\* records of one member and one version for proved hold the same record, and a
\* monitor that read the directory up to there has read it too.
OneDirectory ==
  LET audited == Audited
  IN  \A member \in {e[1] : e \in Entries} :
        LET proved == Proved(member)
        IN  \A p \in proved :
              /\ \A q \in proved :
                   p.record.version = q.record.version => p.record = q.record
              /\ \A read \in audited :
                   Len(read) > p.index => read[p.index + 1] = p.record

================================================================================
