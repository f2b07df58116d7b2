------------------------------ MODULE OrderProofs ------------------------------
(***************************************************************************)
(* The safety properties of Orders, for every set of people, files and     *)
(* commands: quorums, the order of commands, the standing and the heir.    *)
(***************************************************************************)
EXTENDS Orders, FunctionTheorems, FiniteSetTheorems, TLAPS

-------------------------------------------------------------------------------
(* The invariant. *)

\* An order somebody has signed; one that names its signer names this one.
Issued(m) ==
  LET o == m[2]
  IN  /\ m[1] \in Keys /\ o.at \in Nat /\ o.kind \in Kinds /\ FieldTypes(o.fields)
      /\ o = Order(o.file_id, o.kind, o.at, o.fields)
      /\ NamesItsSigner(o) => o.fields.signer_key = m[1]

\* What the server keeps of a file has its fields; barriers and the time of a
\* panic are times.
FileTypes(s) ==
  /\ s = [registered |-> s.registered, revoked |-> s.revoked, max_devices |-> s.max_devices,
          max_grants |-> s.max_grants, coauthors |-> s.coauthors,
          coauthor_threshold |-> s.coauthor_threshold, proposal_ttl |-> s.proposal_ttl,
          approvers |-> s.approvers, approver_threshold |-> s.approver_threshold,
          votes |-> s.votes, proposals |-> s.proposals, heir |-> s.heir,
          bequests |-> s.bequests, frozen |-> s.frozen, frozen_at |-> s.frozen_at,
          barrier |-> s.barrier, done |-> s.done, replaced |-> s.replaced,
          reserved |-> s.reserved, rule |-> s.rule]
  /\ s.barrier \in [Kinds -> Int] /\ s.frozen_at \in Int /\ s.frozen_at >= -1
  /\ s.registered \in BOOLEAN /\ s.frozen \in BOOLEAN

\* Rosters that order.rs has checked, or header.rs.
Rosters(s) ==
  /\ s.coauthors \in Seq(Keys) /\ check_roster(s.coauthors, s.coauthor_threshold)
  /\ s.approvers \in Seq(Keys) /\ check_roster(s.approvers, s.approver_threshold)

\* The author's decision about a file, with the share for the device it names.
Bequeathed(d, f) ==
  /\ decode_decision(d) /\ verify(d, "GRANT", Author) /\ d.text.file_id = f
  /\ d.text.approve /\ d.text.share_b.sealed_to = d.text.device_fpr

Heirs(s, f) ==
  /\ s.heir = [mode |-> s.heir.mode, silence_seconds |-> s.heir.silence_seconds,
               device_fprs |-> s.heir.device_fprs, released_at |-> s.heir.released_at]
  /\ \/ s.heir = NoHeir
     \/ s.heir.mode = "Open" /\ s.heir.device_fprs # <<>>
     \/ s.heir.mode = "Close" /\ s.heir.device_fprs = <<>>
  /\ \A i \in DOMAIN s.bequests : Bequeathed(s.bequests[i], f)

\* Signatures that wait: one collection for each intent, none older than the
\* last change of the kind, and too few for the roster in force.
Waiting(s) ==
  /\ \A p \in s.proposals :
       /\ p.intent.kind \in FileKinds
       /\ \A x \in p.signers : x[2] \in Int /\ x[2] >= s.barrier[p.intent.kind]
       /\ have(s, p.signers) < s.coauthor_threshold
  /\ \A p, q \in s.proposals : p.intent = q.intent => p = q

\* One vote of each voter about each device.
Votes(s) ==
  /\ \A v \in s.votes : v.at \in Int /\ v.approve \in BOOLEAN
  /\ \A v, w \in s.votes : v.device_fpr = w.device_fpr /\ v.voter = w.voter => v = w

FileOK(s, f) ==
  FileTypes(s) /\ Rosters(s) /\ Heirs(s, f) /\ Waiting(s) /\ Votes(s)

ServerOK ==
  /\ server = [f \in Files |-> server[f]]
  /\ \A f \in Files : FileOK(server[f], f)

\* What was heard and not carried out waits with its signature.
IntentOf(f, c) == Order(f, c.kind, 0, c.fields)

SaidOK ==
  \A x \in said :
    /\ x = <<x[1], x[2], x[3]>> /\ x[2] \in Registered
    /\ \E p \in server[x[2]].proposals :
         p.intent = IntentOf(x[2], x[3]) /\ \E y \in p.signers : y[1] = x[1]

\* A change leaves its time as the barrier of its kind.
ExecutedOK ==
  /\ executed \in Seq(Range(executed))
  /\ \A i \in DOMAIN executed :
       LET e == executed[i]
       IN  /\ e.file \in Registered /\ e.kind \in FileKinds /\ e.at \in Int
           /\ e.at <= server[e.file].barrier[e.kind]
           /\ e.roster # <<>> =>
                Cardinality(Range(e.roster) \cap {x[1] : x \in e.signers}) >= e.threshold
  /\ \A i, j \in DOMAIN executed :
       i < j /\ executed[i].file = executed[j].file /\ executed[i].kind = executed[j].kind =>
         \A x \in executed[j].signers : x[2] >= executed[i].at

\* A refusing vote stands, or one that is later.
WithdrawnOK ==
  \A o \in withdrawn :
    /\ o.kind = "ApproveDevice" /\ o.file_id \in Registered /\ o.at \in Int
    /\ \E w \in server[o.file_id].votes :
         /\ w.device_fpr = o.fields.device_fpr /\ w.voter = o.fields.signer_key
         /\ w.at > o.at \/ (w.at = o.at /\ ~w.approve)

\* A panic is in force for all, since the same moment.
FrozenOK ==
  \A f, g \in Registered :
    server[f].frozen = server[g].frozen /\ server[f].frozen_at = server[g].frozen_at

OrderInv ==
  /\ now \in Nat /\ menu \in Menus /\ \A m \in orders : Issued(m)
  /\ ServerOK /\ SaidOK /\ ExecutedOK /\ WithdrawnOK /\ FrozenOK /\ HeirGetsThisFile

-------------------------------------------------------------------------------
(* Counting. *)

\* Nobody is in a roster twice, so places and members are equally many.
LEMMA MembersByPlace ==
  ASSUME NEW keys \in Seq(Keys), Distinct(keys), NEW K
  PROVE  LET S == {i \in DOMAIN keys : keys[i] \in K}
             T == Range(keys) \cap K
         IN  /\ IsFiniteSet(S) /\ IsFiniteSet(T)
             /\ Cardinality(S) \in Nat /\ Cardinality(T) = Cardinality(S)
<1> DEFINE S == {i \in DOMAIN keys : keys[i] \in K}
           T == Range(keys) \cap K
           f == [i \in S |-> keys[i]]
<1>1. Len(keys) \in Nat /\ DOMAIN keys = 1 .. Len(keys)
  OBVIOUS
<1>2. IsFiniteSet(1 .. Len(keys))
  BY <1>1, FS_Interval
<1>3. IsFiniteSet(S)
  BY <1>1, <1>2, FS_Subset
<1>4. f \in [S -> T] /\ \A i, j \in S : f[i] = f[j] => i = j
  BY DEF Range, Distinct
<1>5. \A t \in T : \E i \in S : f[i] = t
  BY DEF Range
<1>6. f \in Bijection(S, T)
  <2> HIDE DEF S, T, f
  <2> QED BY <1>4, <1>5, Fun_IsBij
<1>7. ExistsBijection(S, T)
  BY <1>6 DEF ExistsBijection
<1> QED BY <1>3, <1>7, FS_Bijection, FS_CardinalityType

\* have counts the members of the roster among the signers.
LEMMA HaveCounts ==
  ASSUME NEW s, Rosters(s), NEW signers
  PROVE  /\ have(s, signers) \in Nat
         /\ have(s, signers) = Cardinality(Range(s.coauthors) \cap {x[1] : x \in signers})
<1> DEFINE K == {x[1] : x \in signers}
<1>1. s.coauthors \in Seq(Keys) /\ Distinct(s.coauthors)
  BY DEF Rosters, check_roster
<1>2. {i \in DOMAIN s.coauthors : \E x \in signers : x[1] = s.coauthors[i]}
        = {i \in DOMAIN s.coauthors : s.coauthors[i] \in K}
  OBVIOUS
<1> QED BY <1>1, <1>2, MembersByPlace DEF have

-------------------------------------------------------------------------------
(* Orders. *)

\* The kinds about a file do not name their signer, so the intent of one that
\* is well formed is the order without its time.
LEMMA IntentIs ==
  ASSUME NEW m, Issued(m), check(m[2]), m[2].kind \in FileKinds
  PROVE  intent_digest(m[2]) = IntentOf(m[2].file_id, m[2])
<1> DEFINE o == m[2]
           canonical == [o EXCEPT !.at = 0, !.fields = Restrict(@, DOMAIN @ \ {"signer_key"})]
<1>1. o = Order(o.file_id, o.kind, o.at, o.fields)
      /\ o.fields = [f \in DOMAIN o.fields |-> o.fields[f]]
  BY DEF Issued, FieldTypes
<1>2. "signer_key" \notin DOMAIN o.fields
  BY DEF check, required, has, NamesItsSigner, Fileless, FileKinds
<1>3. Restrict(o.fields, DOMAIN o.fields \ {"signer_key"}) = o.fields
  BY <1>1, <1>2 DEF Restrict
<1>4. canonical = Order(o.file_id, o.kind, 0, o.fields)
  <2>1. canonical = [o EXCEPT !.at = 0, !.fields = o.fields]
    BY <1>3, Zenon
  <2>2. o \in [file_id : {o.file_id}, kind : {o.kind}, at : {o.at}, fields : {o.fields}]
    BY <1>1 DEF Order
  <2>3. canonical \in [file_id : {o.file_id}, kind : {o.kind}, at : {0}, fields : {o.fields}]
    <3> HIDE DEF o, canonical
    <3> QED BY <2>1, <2>2
  <2> HIDE DEF o, canonical
  <2> QED BY <2>3 DEF Order
<1>5. canonical.file_id = o.file_id /\ canonical.kind = o.kind /\ canonical.fields = o.fields
  BY <1>4 DEF Order
<1> HIDE DEF canonical
<1>6. check(canonical)
  BY <1>5 DEF check, required, only_if, has, NamesItsSigner
<1> QED BY <1>4, <1>6 DEF canonical, intent_digest, encode, IntentOf


-------------------------------------------------------------------------------
(* What carrying out an order does to a file. *)

\* What no order about a file sets by itself.
Untouched(s, c) ==
  /\ c.registered = s.registered /\ c.votes = s.votes /\ c.proposals = s.proposals
  /\ c.frozen = s.frozen /\ c.frozen_at = s.frozen_at
  /\ c.barrier = s.barrier /\ c.done = s.done

SameCoauthors(s, c) ==
  c.coauthors = s.coauthors /\ c.coauthor_threshold = s.coauthor_threshold

\* Bequests that were checked and whose signatures the server has verified.
LEMMA BequestsHold ==
  ASSUME NEW m, Issued(m), check(m[2]), has(m[2], "bequests"), NEW s, Executable(s, m[2])
  PROVE  LET all == m[2].fields.bequests
         IN  /\ DOMAIN all # {}
             /\ \A i \in DOMAIN all : Bequeathed(all[i], m[2].file_id)
<1> DEFINE all == m[2].fields.bequests
<1>1. check_bequests(all, m[2].file_id)
  BY DEF check
<1>2. /\ DOMAIN all = 1 .. Len(all)
      /\ \A i \in DOMAIN all :
           verify(all[i], "GRANT", Author) /\ all[i].text.share_b # NoShare =>
             all[i].text.share_b.sealed_to = all[i].text.device_fpr
  BY DEF Issued, FieldTypes, has
<1>3. \A i \in DOMAIN all : verify(all[i], "GRANT", Author)
  BY DEF Executable
<1> HIDE DEF all
<1>4. Len(all) \in 1 .. MAX_HEIRS
  BY <1>1 DEF check_bequests
<1>5. 1 \in DOMAIN all
  BY <1>2, <1>4, OrdersAssumption
<1>6. ASSUME NEW i \in DOMAIN all
      PROVE  Bequeathed(all[i], m[2].file_id)
  <2>1. /\ decode_decision(all[i]) /\ all[i].text.file_id = m[2].file_id
        /\ all[i].text.approve /\ all[i].text.share_b # NoShare
    BY <1>1, <1>6 DEF check_bequests
  <2> QED BY <1>2, <1>3, <1>6, <2>1 DEF Bequeathed
<1> QED BY <1>5, <1>6 DEF all

\* An order carried out leaves a file that is in order.
LEMMA CarriedKeeps ==
  ASSUME NEW s, NEW m, FileOK(s, m[2].file_id), Issued(m), check(m[2]),
         m[2].kind \in FileKinds, Executable(s, m[2])
  PROVE  LET c == Carried(s, m[2])
         IN  /\ FileTypes(c) /\ Rosters(c) /\ Heirs(c, m[2].file_id) /\ Untouched(s, c)
             /\ m[2].kind # "SetCoauthors" => SameCoauthors(s, c)
<1> DEFINE o == m[2]
           f == m[2].file_id
           Goal(c) ==
             /\ FileTypes(c) /\ Rosters(c) /\ Heirs(c, f) /\ Untouched(s, c)
             /\ o.kind # "SetCoauthors" => SameCoauthors(s, c)
<1> SUFFICES Goal(Carried(s, o))
  OBVIOUS
<1>0. FileTypes(s) /\ Rosters(s) /\ Heirs(s, f) /\ FieldTypes(o.fields)
  BY DEF FileOK, Issued
<1>0a. check(o) /\ Executable(s, o)
  OBVIOUS
<1>0b. has(o, "bequests") =>
         /\ DOMAIN o.fields.bequests # {}
         /\ \A i \in DOMAIN o.fields.bequests : Bequeathed(o.fields.bequests[i], f)
  BY BequestsHold
<1> HIDE DEF o, f
<1>1. CASE o.kind = "Revoke"
  <2>1. Carried(s, o) = [s EXCEPT !.revoked = TRUE]
    BY <1>1 DEF Carried
  <2> QED BY <1>0, <1>1, <2>1 DEF FileTypes, Rosters, Heirs, Untouched, SameCoauthors
<1>2. CASE o.kind = "SetLimits"
  <2>1. PICK a, b : Carried(s, o) = [s EXCEPT !.max_devices = a, !.max_grants = b]
    BY <1>2 DEF Carried
  <2> QED BY <1>0, <1>2, <2>1 DEF FileTypes, Rosters, Heirs, Untouched, SameCoauthors
<1>3. CASE o.kind = "SetCoauthors"
  <2>1. PICK keys, n, a :
          /\ Carried(s, o) = [s EXCEPT !.coauthors = keys, !.coauthor_threshold = n,
                                       !.proposal_ttl = a]
          /\ keys = o.fields.keys /\ n = o.fields.threshold
    BY <1>3 DEF Carried
  <2>2. keys \in Seq(Keys) /\ check_roster(keys, n)
    BY <1>0, <1>0a, <1>3, <2>1 DEF check, FieldTypes, required, has
  <2> QED BY <1>0, <1>3, <2>1, <2>2 DEF FileTypes, Rosters, Heirs, Untouched
<1>4. CASE o.kind = "SetApprovers"
  <2>1. PICK keys, n :
          /\ Carried(s, o) = [s EXCEPT !.approvers = keys, !.approver_threshold = n]
          /\ keys = o.fields.keys /\ n = o.fields.threshold
    BY <1>4 DEF Carried
  <2>2. keys \in Seq(Keys) /\ check_roster(keys, n)
    BY <1>0, <1>0a, <1>4, <2>1 DEF check, FieldTypes, required, has
  <2> QED BY <1>0, <1>4, <2>1, <2>2 DEF FileTypes, Rosters, Heirs, Untouched, SameCoauthors
<1>5. CASE o.kind = "SetHeir" /\ o.fields.heir_mode = "Off"
  <2>1. Carried(s, o) = [s EXCEPT !.heir = NoHeir, !.bequests = <<>>]
    BY <1>5 DEF Carried
  <2>2. DOMAIN <<>> = {}
    OBVIOUS
  <2> QED BY <1>0, <1>5, <2>1, <2>2, ZenonT(60) DEF FileTypes, Rosters, Heirs, Untouched, SameCoauthors, NoHeir
<1>6. CASE o.kind = "SetHeir" /\ o.fields.heir_mode # "Off"
  <2> DEFINE all == Field(o, "bequests", <<>>)
  <2>1. PICK mode, silence, names :
          /\ Carried(s, o) = [s EXCEPT !.bequests = all,
                                       !.heir = [mode |-> mode, silence_seconds |-> silence,
                                                 device_fprs |-> names, released_at |-> Absent]]
          /\ mode = o.fields.heir_mode
          /\ names = [i \in DOMAIN all |-> all[i].text.device_fpr]
    BY <1>6 DEF Carried
  <2>2. /\ mode \in {"Open", "Close"}
        /\ has(o, "bequests") <=> mode = "Open"
    BY <1>0, <1>0a, <1>6, <2>1 DEF check, FieldTypes, required, has
  <2>3. mode = "Open" => all = o.fields.bequests
    BY <2>2 DEF Field
  <2>4. mode = "Close" => all = <<>>
    BY <2>2 DEF Field
  <2>5. PICK bs : bs = all
    OBVIOUS
  <2> HIDE DEF all
  <2>6. /\ mode = "Open" => names # <<>>
        /\ mode = "Close" => names = <<>>
        /\ \A i \in DOMAIN bs : Bequeathed(bs[i], f)
    BY <1>0b, <2>1, <2>2, <2>3, <2>4, <2>5
  <2>7. Carried(s, o) = [s EXCEPT !.bequests = bs,
                                  !.heir = [mode |-> mode, silence_seconds |-> silence,
                                            device_fprs |-> names, released_at |-> Absent]]
    BY <2>1, <2>5
  <2>8. PICK heir, c :
          /\ heir = [mode |-> mode, silence_seconds |-> silence, device_fprs |-> names,
                     released_at |-> Absent]
          /\ c = [s EXCEPT !.bequests = bs, !.heir = heir] /\ c = Carried(s, o)
    BY <2>7
  <2>9. FileTypes(c) /\ Rosters(c) /\ Untouched(s, c) /\ SameCoauthors(s, c)
    BY <1>0, <2>8 DEF FileTypes, Rosters, Untouched, SameCoauthors
  <2>10. c.heir = heir /\ c.bequests = bs
    BY <1>0, <2>8 DEF FileTypes
  <2>11. Heirs(c, f)
    BY <2>2, <2>6, <2>8, <2>10 DEF Heirs
  <2> QED BY <2>8, <2>9, <2>11
<1>7. CASE o.kind = "ReplaceDevice"
  <2>1. PICK a, b : Carried(s, o) = [s EXCEPT !.replaced = a, !.reserved = b]
    BY <1>7 DEF Carried
  <2> QED BY <1>0, <1>7, <2>1 DEF FileTypes, Rosters, Heirs, Untouched, SameCoauthors
<1>8. CASE o.kind = "SetRule"
  <2>1. PICK a : Carried(s, o) = [s EXCEPT !.rule = a]
    BY <1>8 DEF Carried
  <2> QED BY <1>0, <1>8, <2>1 DEF FileTypes, Rosters, Heirs, Untouched, SameCoauthors
<1> QED BY <1>1, <1>2, <1>3, <1>4, <1>5, <1>6, <1>7, <1>8 DEF FileKinds, o


\* A change settles its kind: what waits is of other kinds, and the barrier is
\* the time of the order.
Changed(s, o, c) ==
  /\ c.registered = s.registered /\ c.votes = s.votes
  /\ c.frozen = s.frozen /\ c.frozen_at = s.frozen_at
  /\ c.barrier = [s.barrier EXCEPT ![o.kind] = o.at]
  /\ c.proposals = IF o.kind = "SetCoauthors" THEN {}
                   ELSE {p \in s.proposals : p.intent.kind # o.kind}

LEMMA SettledKeeps ==
  ASSUME NEW s, NEW m, FileOK(s, m[2].file_id), Issued(m), check(m[2]),
         m[2].kind \in FileKinds, Executable(s, m[2]), NEW what
  PROVE  /\ FileOK(Settled(s, m[2], what), m[2].file_id)
         /\ Changed(s, m[2], Settled(s, m[2], what))
<1> DEFINE o == m[2]
<1>1. PICK b : /\ b = Carried(s, o) /\ FileTypes(b) /\ Rosters(b) /\ Heirs(b, o.file_id)
               /\ Untouched(s, b) /\ (o.kind # "SetCoauthors" => SameCoauthors(s, b))
  BY CarriedKeeps
<1>2. PICK ps : ps = IF o.kind = "SetCoauthors" THEN {}
                     ELSE {p \in s.proposals : p.intent.kind # o.kind}
  OBVIOUS
<1>3. /\ FileTypes(s) /\ Waiting(s) /\ Votes(s) /\ o.kind \in Kinds /\ o.kind \in FileKinds
      /\ o.at \in Int
  BY DEF FileOK, Issued
<1>4. b.proposals = s.proposals
  BY <1>1 DEF Untouched
<1>5. PICK c : /\ c = Settled(s, o, what)
               /\ c = [b EXCEPT !.barrier[o.kind] = o.at, !.proposals = ps,
                                !.done = @ \cup {<<what, now>>}]
  BY <1>1, <1>2, <1>4 DEF Settled
<1> HIDE DEF o
<1>6. /\ c.barrier = [b.barrier EXCEPT ![o.kind] = o.at] /\ c.proposals = ps
      /\ c.registered = b.registered /\ c.votes = b.votes /\ c.heir = b.heir
      /\ c.frozen = b.frozen /\ c.frozen_at = b.frozen_at /\ c.bequests = b.bequests
      /\ SameCoauthors(b, c) /\ c.approvers = b.approvers
      /\ c.approver_threshold = b.approver_threshold
  BY <1>1, <1>5 DEF FileTypes, SameCoauthors
<1>7. FileTypes(c)
  <2>1. c.barrier \in [Kinds -> Int]
    BY <1>1, <1>3, <1>6 DEF FileTypes
  <2> QED BY <1>1, <1>5, <1>6, <2>1 DEF FileTypes
<1>8. Rosters(c) /\ Heirs(c, o.file_id)
  BY <1>1, <1>6 DEF Rosters, Heirs, SameCoauthors
<1>9. Votes(c)
  BY <1>1, <1>3, <1>6 DEF Votes, Untouched
<1>10. Waiting(c)
  <2>1. CASE o.kind = "SetCoauthors"
    BY <1>2, <1>6, <2>1 DEF Waiting
  <2>2. CASE o.kind # "SetCoauthors"
    <3>1. SameCoauthors(s, c)
      BY <1>1, <1>6, <2>2 DEF SameCoauthors
    <3>2. \A p : have(c, p.signers) = have(s, p.signers)
      BY <3>1 DEF have, SameCoauthors
    <3>3. \A k \in FileKinds : k # o.kind => c.barrier[k] = s.barrier[k]
      BY <1>1, <1>3, <1>6 DEF FileTypes, Untouched, FileKinds, Kinds
    <3>4. \A p \in c.proposals : p \in s.proposals /\ p.intent.kind # o.kind
      BY <1>2, <1>6, <2>2
    <3> QED BY <1>3, <3>1, <3>2, <3>3, <3>4 DEF Waiting, SameCoauthors
  <2> QED BY <2>1, <2>2
<1>11. /\ c.registered = s.registered /\ c.votes = s.votes /\ c.frozen = s.frozen
       /\ c.frozen_at = s.frozen_at /\ c.barrier = [s.barrier EXCEPT ![o.kind] = o.at]
  BY <1>1, <1>6 DEF Untouched
<1> QED BY <1>2, <1>5, <1>6, <1>7, <1>8, <1>9, <1>10, <1>11 DEF FileOK, Changed, o

-------------------------------------------------------------------------------
(* What a step leaves alone, it leaves in order. *)

LEMMA SaidKept ==
  ASSUME SaidOK, Registered \subseteq Registered', said' \subseteq said,
         \A x \in said' : server'[x[2]].proposals = server[x[2]].proposals
  PROVE  SaidOK'
BY DEF SaidOK, IntentOf, Order

LEMMA ExecutedKept ==
  ASSUME ExecutedOK, Registered \subseteq Registered', UNCHANGED executed,
         \A g \in Registered : server'[g].barrier = server[g].barrier
  PROVE  ExecutedOK'
BY DEF ExecutedOK

LEMMA WithdrawnKept ==
  ASSUME WithdrawnOK, Registered \subseteq Registered', UNCHANGED withdrawn,
         \A g \in Registered : server'[g].votes = server[g].votes
  PROVE  WithdrawnOK'
BY DEF WithdrawnOK

LEMMA FrozenKept ==
  ASSUME FrozenOK, Registered' = Registered,
         \A g \in Registered : /\ server'[g].frozen = server[g].frozen
                               /\ server'[g].frozen_at = server[g].frozen_at
  PROVE  FrozenOK'
BY DEF FrozenOK

LEMMA WaitingKept ==
  ASSUME NEW s, NEW c, Waiting(s), c.proposals = s.proposals, c.barrier = s.barrier,
         SameCoauthors(s, c)
  PROVE  Waiting(c)
<1>1. \A p : have(c, p) = have(s, p)
  BY DEF have, SameCoauthors
<1> QED BY <1>1 DEF Waiting, SameCoauthors

LEMMA AllFiles ==
  ASSUME server' = [f \in Files |-> server'[f]], \A f \in Files : FileOK(server'[f], f)
  PROVE  ServerOK'
BY DEF ServerOK, FileOK, FileTypes, Rosters, Heirs, Waiting, Votes, have

\* One file changes.
LEMMA OneFile ==
  ASSUME ServerOK, NEW f \in Files, NEW c, FileOK(c, f), server' = [server EXCEPT ![f] = c]
  PROVE  /\ ServerOK' /\ server'[f] = c /\ \A g \in Files : g # f => server'[g] = server[g]
         /\ c.registered = server[f].registered => Registered' = Registered
<1>1. server'[f] = c /\ \A g \in Files : g # f => server'[g] = server[g]
  BY DEF ServerOK
<1>2. server' = [g \in Files |-> server'[g]]
  BY <1>1 DEF ServerOK
<1>3. \A g \in Files : FileOK(server'[g], g)
  BY <1>1 DEF ServerOK
<1>4. ServerOK'
  BY <1>2, <1>3, AllFiles
<1> QED BY <1>1, <1>4 DEF Registered


LEMMA AppendSeq ==
  ASSUME NEW q, q \in Seq(Range(q)), NEW e
  PROVE  LET r == Append(q, e)
         IN  /\ r \in Seq(Range(r)) /\ Len(q) \in Nat
             /\ DOMAIN q = 1 .. Len(q) /\ DOMAIN r = 1 .. (Len(q) + 1)
             /\ r[Len(q) + 1] = e /\ \A i \in DOMAIN q : r[i] = q[i]
<1> DEFINE S == Range(q) \cup {e}
           r == Append(q, e)
<1>1. q \in Seq(S) /\ e \in S
  BY DEF Range
<1>2. /\ r \in Seq(S) /\ Len(q) \in Nat /\ DOMAIN q = 1 .. Len(q)
      /\ Len(r) = Len(q) + 1 /\ DOMAIN r = 1 .. (Len(q) + 1)
      /\ r[Len(q) + 1] = e /\ \A i \in DOMAIN q : r[i] = q[i]
  <2> HIDE DEF S
  <2> QED BY <1>1
<1>3. \A i \in 1 .. Len(r) : r[i] \in Range(r)
  BY <1>2 DEF Range
<1>4. r \in Seq(Range(r))
  <2> HIDE DEF r
  <2> QED BY <1>2, <1>3
<1> QED BY <1>2, <1>4

-------------------------------------------------------------------------------
(* Steps. *)

\* An order is carried out, with the signatures that count for it.
LEMMA ChangeStep ==
  ASSUME OrderInv, NEW m \in orders, m[2].kind \in FileKinds, m[2].file_id \in Registered,
         Reaches(m), Heard(server[m[2].file_id], m[2]), Executable(server[m[2].file_id], m[2]),
         NEW what, NEW signers,
         \A x \in signers : x[2] \in Int /\ x[2] >= server[m[2].file_id].barrier[m[2].kind],
         server[m[2].file_id].coauthors # <<>> =>
           Cardinality(Range(server[m[2].file_id].coauthors) \cap {x[1] : x \in signers})
             >= server[m[2].file_id].coauthor_threshold,
         server' = [server EXCEPT ![m[2].file_id] = Settled(server[m[2].file_id], m[2], what)],
         Record(m[2].file_id, m[2], signers), Forget(m[2].file_id, m[2]),
         UNCHANGED <<now, menu, orders, withdrawn, given>>
  PROVE  OrderInv'
<1>0. PICK o, f, s : o = m[2] /\ f = m[2].file_id /\ s = server[m[2].file_id]
  OBVIOUS
<1>1. /\ ServerOK /\ SaidOK /\ ExecutedOK /\ WithdrawnOK /\ FrozenOK /\ Issued(m)
      /\ f \in Registered /\ f \in Files /\ FileOK(s, f) /\ s.registered
      /\ check(o) /\ o.kind \in FileKinds /\ o.kind \in Kinds /\ o.at \in Int
  BY <1>0 DEF OrderInv, Registered, ServerOK, Reaches, decode, Issued
<1>2. PICK c : c = Settled(s, o, what) /\ FileOK(c, f) /\ Changed(s, o, c)
  BY <1>0, <1>1, SettledKeeps
<1>3. server' = [server EXCEPT ![f] = c]
  BY <1>0, <1>2
<1>4. /\ ServerOK' /\ server'[f] = c /\ \A g \in Files : g # f => server'[g] = server[g]
      /\ Registered' = Registered
  BY <1>0, <1>1, <1>2, <1>3, OneFile, ZenonT(60) DEF Changed
<1>5. Registered \subseteq Files
  BY DEF Registered
<1>6. FrozenOK' /\ WithdrawnOK'
  <2>1. \A g \in Registered :
          /\ server'[g].frozen = server[g].frozen /\ server'[g].frozen_at = server[g].frozen_at
          /\ server'[g].votes = server[g].votes
    BY <1>0, <1>2, <1>4, <1>5 DEF Changed
  <2> QED BY <1>1, <1>4, <2>1, FrozenKept, WithdrawnKept
<1>7. SaidOK'
  <2>1. said' = {x \in said : x[2] # f \/ (o.kind # "SetCoauthors" /\ x[3].kind # o.kind)}
    BY <1>0 DEF Forget
  <2> SUFFICES ASSUME NEW x \in said'
               PROVE  /\ x = <<x[1], x[2], x[3]>> /\ x[2] \in Registered
                      /\ \E p \in server'[x[2]].proposals :
                           p.intent = IntentOf(x[2], x[3]) /\ \E y \in p.signers : y[1] = x[1]
    BY <1>4 DEF SaidOK, IntentOf, Order
  <2>2. x \in said /\ (x[2] # f \/ (o.kind # "SetCoauthors" /\ x[3].kind # o.kind))
    BY <2>1
  <2>3. x = <<x[1], x[2], x[3]>> /\ x[2] \in Registered
    BY <1>1, <2>2 DEF SaidOK
  <2>4. PICK p \in server[x[2]].proposals :
          p.intent = IntentOf(x[2], x[3]) /\ \E y \in p.signers : y[1] = x[1]
    BY <1>1, <2>2 DEF SaidOK
  <2>5. p.intent.kind = x[3].kind
    BY <2>4 DEF IntentOf, Order
  <2>6. p \in server'[x[2]].proposals
    <3>1. CASE x[2] # f
      BY <1>4, <1>5, <2>3, <3>1
    <3>2. CASE x[2] = f
      BY <1>0, <1>2, <1>4, <2>2, <2>4, <2>5, <3>2 DEF Changed
    <3> QED BY <3>1, <3>2
  <2> QED BY <2>3, <2>4, <2>6
<1>8. ExecutedOK'
  <2>1. PICK e : /\ e = [file |-> f, kind |-> o.kind, at |-> o.at, signers |-> signers,
                         roster |-> s.coauthors, threshold |-> s.coauthor_threshold]
                 /\ executed' = Append(executed, e)
    BY <1>0 DEF Record
  <2>2. PICK n \in Nat :
          /\ executed' \in Seq(Range(executed')) /\ DOMAIN executed = 1 .. n
          /\ DOMAIN executed' = 1 .. (n + 1) /\ executed'[n + 1] = e
          /\ \A i \in 1 .. n : executed'[i] = executed[i]
    <3>1. executed \in Seq(Range(executed))
      BY <1>1 DEF ExecutedOK
    <3> QED BY <2>1, <3>1, AppendSeq
  <2>3. s.barrier \in [Kinds -> Int] /\ o.at >= s.barrier[o.kind]
    BY <1>0, <1>1 DEF FileOK, FileTypes, Heard
  <2>4. FileKinds \subseteq Kinds
    BY DEF FileKinds, Kinds
  <2>5. \A g \in Files : \A k \in FileKinds :
          /\ server[g].barrier[k] \in Int /\ server'[g].barrier[k] \in Int
          /\ server[g].barrier[k] <= server'[g].barrier[k]
    <3>1. \A g \in Files : \A k \in FileKinds :
            server[g].barrier[k] \in Int /\ server'[g].barrier[k] \in Int
      <4>1. \A g \in Files : server[g].barrier \in [Kinds -> Int]
        BY <1>1 DEF ServerOK, FileOK, FileTypes
      <4>2. c.barrier \in [Kinds -> Int]
        BY <1>2 DEF FileOK, FileTypes
      <4>3. \A g \in Files : server'[g].barrier \in [Kinds -> Int]
        BY <1>4, <4>1, <4>2
      <4> QED BY <2>4, <4>1, <4>3
    <3>2. \A k \in FileKinds : s.barrier[k] <= c.barrier[k]
      <4>1. c.barrier = [s.barrier EXCEPT ![o.kind] = o.at] /\ o.at \in Int
        BY <1>0, <1>1, <1>2, <2>3, <2>4, <3>1 DEF Changed
      <4> QED BY <2>3, <2>4, <4>1
    <3> QED BY <1>0, <1>4, <3>1, <3>2
  <2>6. e.at <= server'[f].barrier[e.kind]
    BY <1>1, <1>2, <1>4, <2>1, <2>3 DEF Changed
  <2>7. ASSUME NEW i \in DOMAIN executed'
        PROVE  /\ executed'[i].file \in Registered' /\ executed'[i].kind \in FileKinds
               /\ executed'[i].at \in Int
               /\ executed'[i].at <= server'[executed'[i].file].barrier[executed'[i].kind]
               /\ executed'[i].roster # <<>> =>
                    Cardinality(Range(executed'[i].roster) \cap {x[1] : x \in executed'[i].signers})
                      >= executed'[i].threshold
    <3>1. CASE i = n + 1
      <4>1. /\ executed'[i] = e /\ e.file = f /\ e.kind = o.kind /\ e.at = o.at
            /\ e.signers = signers /\ e.roster = s.coauthors /\ e.threshold = s.coauthor_threshold
        BY <2>1, <2>2, <3>1
      <4>2. s.coauthors # <<>> =>
              Cardinality(Range(s.coauthors) \cap {x[1] : x \in signers}) >= s.coauthor_threshold
        BY <1>0
      <4>3. e.file \in Registered' /\ e.kind \in FileKinds /\ e.at \in Int
        BY <1>1, <1>4, <4>1
      <4> QED BY <2>6, <4>1, <4>2, <4>3
    <3>2. CASE i \in 1 .. n
      <4>1. PICK d : d = executed[i] /\ d = executed'[i]
        BY <2>2, <3>2
      <4>2. /\ d.file \in Registered /\ d.kind \in FileKinds /\ d.at \in Int
            /\ d.at <= server[d.file].barrier[d.kind]
            /\ d.roster # <<>> =>
                 Cardinality(Range(d.roster) \cap {x[1] : x \in d.signers}) >= d.threshold
        BY <1>1, <2>2, <3>2, <4>1 DEF ExecutedOK
      <4>3. d.at <= server'[d.file].barrier[d.kind]
        BY <1>5, <2>5, <4>2
      <4> QED BY <1>4, <4>1, <4>2, <4>3
    <3> QED BY <2>2, <2>7, <3>1, <3>2
  <2>8. ASSUME NEW i \in DOMAIN executed', NEW j \in DOMAIN executed', i < j,
               executed'[i].file = executed'[j].file, executed'[i].kind = executed'[j].kind,
               NEW x \in executed'[j].signers
        PROVE  x[2] >= executed'[i].at
    <3>1. i \in 1 .. n /\ (j \in 1 .. n \/ j = n + 1)
      BY <2>2, <2>8
    <3>2. CASE j \in 1 .. n
      BY <1>1, <2>2, <2>8, <3>1, <3>2 DEF ExecutedOK
    <3>3. CASE j = n + 1
      <4>0. executed'[j] = e /\ e.file = f /\ e.kind = o.kind /\ executed'[i] = executed[i]
            /\ i \in DOMAIN executed
        BY <2>1, <2>2, <3>1, <3>3
      <4>1. executed[i].file = f /\ executed[i].kind = o.kind /\ executed[i].at \in Int
            /\ executed[i].at <= s.barrier[o.kind] /\ executed'[i].at = executed[i].at
        BY <1>0, <1>1, <2>8, <4>0 DEF ExecutedOK
      <4>2. x[2] \in Int /\ x[2] >= s.barrier[o.kind] /\ s.barrier[o.kind] \in Int
        BY <1>0, <1>1, <2>1, <2>2, <2>3, <2>8, <3>3
      <4> QED BY <4>1, <4>2
    <3> QED BY <3>1, <3>2, <3>3
  <2> QED BY <2>2, <2>7, <2>8 DEF ExecutedOK
<1>9. HeirGetsThisFile'
  BY DEF OrderInv, HeirGetsThisFile
<1>10. now' \in Nat /\ menu' \in Menus /\ \A n \in orders' : Issued(n)
  BY DEF OrderInv
<1> QED BY <1>4, <1>6, <1>7, <1>8, <1>9, <1>10 DEF OrderInv, Issued


\* The author alone.
LEMMA CarryOutStep ==
  ASSUME OrderInv, NEW m \in orders, CarryOut(m)
  PROVE  OrderInv'
<1>1. PICK s : s = server[m[2].file_id]
  OBVIOUS
<1>2. /\ m[2].kind \in FileKinds /\ m[2].file_id \in Registered /\ Reaches(m)
      /\ Heard(s, m[2]) /\ Executable(s, m[2]) /\ s.coauthors = <<>>
      /\ server' = [server EXCEPT ![m[2].file_id] = Settled(s, m[2], m[2])]
      /\ Record(m[2].file_id, m[2], {<<m[1], m[2].at>>}) /\ Forget(m[2].file_id, m[2])
      /\ UNCHANGED <<now, menu, orders, withdrawn, given>>
  BY <1>1 DEF CarryOut
<1>3. PICK signers : signers = {<<m[1], m[2].at>>}
  OBVIOUS
<1>4. \A x \in signers : x[2] \in Int /\ x[2] >= s.barrier[m[2].kind]
  BY <1>2, <1>3 DEF OrderInv, Issued, Heard
<1> QED BY <1>1, <1>2, <1>3, <1>4, ChangeStep

\* Signatures collected for an intent.
Collected(s, intent) == UNION {p.signers : p \in {q \in s.proposals : q.intent = intent}}

With(signers, key, at) ==
  IF \E x \in signers : x[1] = key THEN signers ELSE signers \cup {<<key, at>>}

\* A signature that does not complete a quorum waits.
LEMMA WaitStep ==
  ASSUME OrderInv, NEW m \in orders, m[2].kind \in FileKinds, m[2].file_id \in Registered,
         NEW s, s = server[m[2].file_id], NEW intent, intent = IntentOf(m[2].file_id, m[2]),
         NEW signers, signers = With(Collected(s, intent), m[1], m[2].at),
         \A x \in signers : x[2] \in Int /\ x[2] >= s.barrier[m[2].kind],
         have(s, signers) < s.coauthor_threshold,
         server' = [server EXCEPT ![m[2].file_id].proposals =
                      {p \in @ : p.intent # intent} \cup {[intent |-> intent, signers |-> signers]}],
         said' = said \cup {<<m[1], m[2].file_id, [kind |-> m[2].kind, fields |-> m[2].fields]>>},
         UNCHANGED <<now, menu, orders, withdrawn, given, executed>>
  PROVE  OrderInv'
<1>0. PICK o, f, key : o = m[2] /\ f = m[2].file_id /\ key = m[1]
  OBVIOUS
<1>1. /\ ServerOK /\ SaidOK /\ ExecutedOK /\ WithdrawnOK /\ FrozenOK
      /\ f \in Registered /\ f \in Files /\ FileOK(s, f) /\ o.kind \in FileKinds
  BY <1>0 DEF OrderInv, Registered, ServerOK
<1>2. PICK new, ps, c :
        /\ new = [intent |-> intent, signers |-> signers]
        /\ ps = {p \in s.proposals : p.intent # intent} \cup {new}
        /\ c = [s EXCEPT !.proposals = ps]
  OBVIOUS
<1>3. server' = [server EXCEPT ![f] = c]
  BY <1>0, <1>1, <1>2 DEF ServerOK
<1>4. new.intent = intent /\ new.signers = signers /\ intent.kind = o.kind
  BY <1>0, <1>2 DEF IntentOf, Order
<1>5. /\ FileTypes(c) /\ Rosters(c) /\ Heirs(c, f) /\ Votes(c) /\ c.proposals = ps
      /\ SameCoauthors(s, c) /\ c.barrier = s.barrier /\ c.votes = s.votes
      /\ c.frozen = s.frozen /\ c.frozen_at = s.frozen_at /\ c.registered = s.registered
  <2>1. FileTypes(s) /\ Rosters(s) /\ Heirs(s, f) /\ Votes(s)
    BY <1>1 DEF FileOK
  <2>2. /\ c.proposals = ps
        /\ SameCoauthors(s, c) /\ c.barrier = s.barrier /\ c.votes = s.votes
        /\ c.frozen = s.frozen /\ c.frozen_at = s.frozen_at /\ c.registered = s.registered
        /\ c.approvers = s.approvers /\ c.approver_threshold = s.approver_threshold
        /\ c.heir = s.heir /\ c.bequests = s.bequests
    BY <1>2, <2>1 DEF FileTypes, SameCoauthors
  <2>3. FileTypes(c)
    BY <1>2, <2>1, <2>2 DEF FileTypes
  <2> QED BY <2>1, <2>2, <2>3 DEF Rosters, Heirs, Votes, SameCoauthors
<1>6. Waiting(c)
  <2>1. \A p : have(c, p) = have(s, p)
    BY <1>5 DEF have, SameCoauthors
  <2>2. Waiting(s)
    BY <1>1 DEF FileOK
  <2>3. \A p \in ps : p = new \/ (p \in s.proposals /\ p.intent # intent)
    BY <1>2
  <2>4. /\ new.intent.kind \in FileKinds
        /\ \A x \in new.signers : x[2] \in Int /\ x[2] >= s.barrier[new.intent.kind]
        /\ have(s, new.signers) < s.coauthor_threshold
    BY <1>0, <1>1, <1>4
  <2> QED BY <1>4, <1>5, <2>1, <2>2, <2>3, <2>4, ZenonT(60) DEF Waiting, SameCoauthors
<1>7. FileOK(c, f)
  BY <1>5, <1>6 DEF FileOK
<1>8. /\ ServerOK' /\ server'[f] = c /\ \A g \in Files : g # f => server'[g] = server[g]
      /\ Registered' = Registered
  BY <1>0, <1>1, <1>3, <1>5, <1>7, OneFile, ZenonT(60)
<1>9. Registered \subseteq Files
  BY DEF Registered
<1>10. FrozenOK' /\ WithdrawnOK' /\ ExecutedOK'
  <2>1. \A g \in Registered :
          /\ server'[g].frozen = server[g].frozen /\ server'[g].frozen_at = server[g].frozen_at
          /\ server'[g].votes = server[g].votes /\ server'[g].barrier = server[g].barrier
    BY <1>0, <1>5, <1>8, <1>9
  <2> QED BY <1>1, <1>8, <2>1, FrozenKept, WithdrawnKept, ExecutedKept
<1>11. SaidOK'
  <2> SUFFICES ASSUME NEW x \in said'
               PROVE  /\ x = <<x[1], x[2], x[3]>> /\ x[2] \in Registered
                      /\ \E p \in server'[x[2]].proposals :
                           p.intent = IntentOf(x[2], x[3]) /\ \E y \in p.signers : y[1] = x[1]
    BY <1>8 DEF SaidOK, IntentOf, Order
  <2>1. CASE x \notin said
    <3>1. x = <<key, f, [kind |-> o.kind, fields |-> o.fields]>>
      BY <1>0, <2>1
    <3>2. x[1] = key /\ x[2] = f /\ x[3].kind = o.kind /\ x[3].fields = o.fields
          /\ x = <<x[1], x[2], x[3]>>
      BY <3>1
    <3>3. new \in server'[x[2]].proposals /\ new.intent = IntentOf(x[2], x[3])
      BY <1>0, <1>2, <1>4, <1>5, <1>8, <3>2 DEF IntentOf
    <3>4. \E y \in new.signers : y[1] = x[1]
      <4>1. CASE \E y \in Collected(s, intent) : y[1] = key
        BY <1>0, <1>4, <3>2, <4>1 DEF With
      <4>2. CASE ~\E y \in Collected(s, intent) : y[1] = key
        <5>1. <<key, o.at>> \in new.signers /\ <<key, o.at>>[1] = key
          BY <1>0, <1>4, <4>2 DEF With
        <5> QED BY <3>2, <5>1
      <4> QED BY <4>1, <4>2
    <3> QED BY <1>1, <3>2, <3>3, <3>4
  <2>2. CASE x \in said
    <3>1. x = <<x[1], x[2], x[3]>> /\ x[2] \in Registered
      BY <1>1, <2>2 DEF SaidOK
    <3>2. PICK p \in server[x[2]].proposals :
            p.intent = IntentOf(x[2], x[3]) /\ \E y \in p.signers : y[1] = x[1]
      BY <1>1, <2>2 DEF SaidOK
    <3>3. CASE x[2] # f
      BY <1>8, <1>9, <3>1, <3>2, <3>3
    <3>4. CASE x[2] = f /\ p.intent # intent
      <4>1. p \in s.proposals
        BY <1>0, <3>2, <3>4
      <4>2. p \in ps
        BY <1>2, <3>4, <4>1
      <4>3. p \in server'[x[2]].proposals
        BY <1>5, <1>8, <3>4, <4>2
      <4> QED BY <3>1, <3>2, <4>3
    <3>5. CASE x[2] = f /\ p.intent = intent
      <4>1. p.signers \subseteq Collected(s, intent)
        BY <1>0, <3>2, <3>5 DEF Collected
      <4>2. p.signers \subseteq new.signers
        BY <1>4, <4>1 DEF With
      <4>3. new \in server'[x[2]].proposals
        BY <1>2, <1>5, <1>8, <3>5, ZenonT(60)
      <4> QED BY <1>4, <3>1, <3>2, <3>5, <4>2, <4>3
    <3> QED BY <3>3, <3>4, <3>5
  <2> QED BY <2>1, <2>2
<1>12. HeirGetsThisFile'
  BY DEF OrderInv, HeirGetsThisFile
<1>13. now' \in Nat /\ menu' \in Menus /\ \A n \in orders' : Issued(n)
  BY DEF OrderInv
<1> QED BY <1>8, <1>10, <1>11, <1>12, <1>13 DEF OrderInv, Issued

\* Coauthors together: the signature completes a quorum, or waits.
LEMMA EndorseStep ==
  ASSUME OrderInv, NEW m \in orders, Endorse(m)
  PROVE  OrderInv'
<1>1. PICK s, intent, signers :
        /\ s = server[m[2].file_id] /\ intent = intent_digest(m[2])
        /\ signers = With(Collected(s, intent), m[1], m[2].at)
  OBVIOUS
<1>2. /\ m[2].kind \in FileKinds /\ m[2].file_id \in Registered /\ Reaches(m)
      /\ Heard(s, m[2]) /\ Executable(s, m[2])
      /\ IF have(s, signers) >= s.coauthor_threshold
         THEN /\ server' = [server EXCEPT ![m[2].file_id] = Settled(s, m[2], intent)]
              /\ Record(m[2].file_id, m[2], signers) /\ Forget(m[2].file_id, m[2])
         ELSE /\ server' = [server EXCEPT ![m[2].file_id].proposals =
                   {p \in @ : p.intent # intent} \cup {[intent |-> intent, signers |-> signers]}]
              /\ said' = said \cup {<<m[1], m[2].file_id, [kind |-> m[2].kind, fields |-> m[2].fields]>>}
              /\ UNCHANGED executed
      /\ UNCHANGED <<now, menu, orders, withdrawn, given>>
  BY <1>1 DEF Endorse, With, Collected
<1>3. Issued(m) /\ check(m[2]) /\ FileOK(s, m[2].file_id) /\ m[2].at \in Int
  BY <1>1, <1>2 DEF OrderInv, ServerOK, Registered, Reaches, decode, Issued
<1>4. intent = IntentOf(m[2].file_id, m[2]) /\ intent.kind = m[2].kind
  BY <1>1, <1>2, <1>3, IntentIs DEF IntentOf, Order
<1>5. \A x \in signers : x[2] \in Int /\ x[2] >= s.barrier[m[2].kind]
  <2>1. \A x \in Collected(s, intent) : x[2] \in Int /\ x[2] >= s.barrier[m[2].kind]
    BY <1>3, <1>4 DEF Collected, FileOK, Waiting
  <2>2. \A x \in {<<m[1], m[2].at>>} : x[2] \in Int /\ x[2] >= s.barrier[m[2].kind]
    BY <1>2, <1>3 DEF Heard
  <2> QED BY <1>1, <2>1, <2>2 DEF With
<1>6. /\ have(s, signers) \in Nat
      /\ have(s, signers) = Cardinality(Range(s.coauthors) \cap {x[1] : x \in signers})
  BY <1>3, HaveCounts DEF FileOK
<1>7. CASE have(s, signers) >= s.coauthor_threshold
  BY <1>1, <1>2, <1>5, <1>6, <1>7, ChangeStep
<1>8. CASE ~(have(s, signers) >= s.coauthor_threshold)
  <2>1. s.coauthor_threshold \in Nat
    BY <1>3 DEF FileOK, Rosters, check_roster
  <2>2. have(s, signers) < s.coauthor_threshold
    BY <1>6, <1>8, <2>1
  <2> QED BY <1>1, <1>2, <1>4, <1>5, <1>8, <2>2, WaitStep
<1> QED BY <1>7, <1>8


\* Nobody has to agree about a file that has no roster.
LEMMA BlankRosters ==
  <<>> \in Seq(Keys) /\ check_roster(<<>>, 0) /\ DOMAIN <<>> = {}
<1>1. <<>> \in Seq(Keys) /\ Len(<<>>) = 0 /\ DOMAIN <<>> = {}
  OBVIOUS
<1>2. Distinct(<<>>)
  BY <1>1 DEF Distinct
<1> QED BY <1>1, <1>2, OrdersAssumption DEF check_roster


\* A file before any order about it is in order.
LEMMA BlankOK ==
  ASSUME NEW f
  PROVE  FileOK(Blank, f)
<1>1. PICK b, heir, bar :
        /\ b = Blank /\ heir = NoHeir /\ bar = [k \in Kinds |-> -1]
        /\ b = [registered |-> FALSE, revoked |-> FALSE, max_devices |-> Absent,
                max_grants |-> Absent, coauthors |-> <<>>, coauthor_threshold |-> 0,
                proposal_ttl |-> 0, approvers |-> <<>>, approver_threshold |-> 0,
                votes |-> {}, proposals |-> {}, heir |-> heir, bequests |-> <<>>,
                frozen |-> FALSE, frozen_at |-> -1, barrier |-> bar, done |-> {},
                replaced |-> {}, reserved |-> {}, rule |-> Absent]
  BY DEF Blank
<1>2. bar \in [Kinds -> Int] /\ -1 \in Int
  BY <1>1
<1>3. FileTypes(b)
  BY <1>1, <1>2 DEF FileTypes
<1>4. /\ b.coauthors = <<>> /\ b.coauthor_threshold = 0 /\ b.approvers = <<>>
      /\ b.approver_threshold = 0 /\ b.votes = {} /\ b.proposals = {}
      /\ b.heir = heir /\ b.bequests = <<>>
  BY <1>1
<1>5. Rosters(b) /\ Waiting(b) /\ Votes(b)
  BY <1>4, BlankRosters DEF Rosters, Waiting, Votes
<1>6. Heirs(b, f)
  BY <1>1, <1>4, BlankRosters DEF Heirs, NoHeir
<1> QED BY <1>1, <1>3, <1>5, <1>6 DEF FileOK

\* A step that changes nothing the server keeps of the files.
LEMMA SameFiles ==
  ASSUME OrderInv, UNCHANGED <<server, withdrawn, given, executed, said>>,
         now' \in Nat, menu' \in Menus, \A m \in orders' : Issued(m)
  PROVE  OrderInv'
<1>1. Registered' = Registered
  BY DEF Registered
<1>2. ServerOK'
  <2>1. server' = [f \in Files |-> server'[f]] /\ \A f \in Files : FileOK(server'[f], f)
    BY DEF OrderInv, ServerOK
  <2> QED BY <2>1, AllFiles
<1>3. SaidOK' /\ ExecutedOK' /\ WithdrawnOK' /\ FrozenOK'
  BY <1>1, SaidKept, ExecutedKept, WithdrawnKept, FrozenKept DEF OrderInv
<1>4. HeirGetsThisFile'
  BY DEF OrderInv, HeirGetsThisFile
<1> QED BY <1>2, <1>3, <1>4 DEF OrderInv, Issued

\* A command that can be written becomes an order that names who signed it.
LEMMA SignStep ==
  ASSUME OrderInv, NEW x \in menu, Sign(x[1], x[2])
  PROVE  OrderInv'
<1>1. PICK key, c : key = x[1] /\ c = x[2]
  OBVIOUS
<1>2. key \in Keys /\ c.kind \in Kinds /\ FieldTypes(c.fields) /\ now \in Nat
  BY <1>1, CommandsAssumption DEF OrderInv
<1>3. PICK plain : plain = Order(c.file_id, c.kind, now, c.fields)
  OBVIOUS
<1>4. PICK named : named = [f \in DOMAIN c.fields \cup {"signer_key"} |->
                              IF f = "signer_key" THEN key ELSE c.fields[f]]
  OBVIOUS
<1>5. PICK o : /\ o = IF NamesItsSigner(plain) THEN Order(c.file_id, c.kind, now, named) ELSE plain
               /\ orders' = orders \cup {<<key, o>>}
  <2>1. [plain EXCEPT !.fields = [f \in DOMAIN @ \cup {"signer_key"} |->
                                    IF f = "signer_key" THEN key ELSE @[f]]]
          = Order(c.file_id, c.kind, now, named)
    BY <1>3, <1>4 DEF Order
  <2> QED BY <1>1, <1>3, <2>1 DEF Sign
<1>6. FieldTypes(named)
  <2>1. /\ DOMAIN named = DOMAIN c.fields \cup {"signer_key"}
        /\ \A f \in DOMAIN c.fields : f # "signer_key" => named[f] = c.fields[f]
    BY <1>4
  <2>2. named = [f \in DOMAIN named |-> named[f]]
    BY <1>4
  <2> QED BY <1>2, <2>1, <2>2 DEF FieldTypes
<1>7. Issued(<<key, o>>)
  <2>1. CASE NamesItsSigner(plain)
    <3>1. o = Order(c.file_id, c.kind, now, named) /\ named.signer_key = key
      BY <1>4, <1>5, <2>1
    <3> QED BY <1>2, <1>6, <3>1 DEF Issued, Order
  <2>2. CASE ~NamesItsSigner(plain)
    <3>1. o = Order(c.file_id, c.kind, now, c.fields) /\ ~NamesItsSigner(o)
      BY <1>3, <1>5, <2>2
    <3> QED BY <1>2, <3>1 DEF Issued, Order
  <2> QED BY <2>1, <2>2
<1>8. \A m \in orders' : Issued(m)
  BY <1>5, <1>7 DEF OrderInv
<1>9. UNCHANGED <<now, menu, server, withdrawn, given, executed, said>>
  BY DEF Sign
<1> QED BY <1>8, <1>9, SameFiles DEF OrderInv

\* A new file, under the panic that is in force for the others.
LEMMA RegisterStep ==
  ASSUME OrderInv, NEW m \in orders, Register(m)
  PROVE  OrderInv'
<1> DEFINE panic == {server[g].frozen_at : g \in Registered}
           newest == CHOOSE t \in panic \cup {-1} : \A u \in panic : t >= u
<1>1. PICK f, a, b, c :
        /\ f \in Files \ Registered /\ server' = [server EXCEPT ![f] = c]
        /\ c = [Blank EXCEPT !.registered = TRUE, !.frozen_at = newest,
                             !.frozen = \E g \in Registered : server[g].frozen,
                             !.max_devices = a, !.max_grants = b]
  BY DEF Register
<1>2. UNCHANGED <<now, menu, orders, withdrawn, given, executed, said>>
  BY DEF Register
<1>3. /\ ServerOK /\ SaidOK /\ ExecutedOK /\ WithdrawnOK /\ FrozenOK
      /\ Registered \subseteq Files /\ f \in Files
      /\ \A g \in Files : server[g].frozen_at \in Int /\ server[g].frozen_at >= -1
                          /\ server[g].frozen \in BOOLEAN
  BY <1>1 DEF OrderInv, ServerOK, FileOK, FileTypes, Registered
<1>4. /\ newest \in Int /\ newest >= -1
      /\ \A g \in Registered : newest = server[g].frozen_at
  <2>1. CASE Registered = {}
    <3>1. panic = {}
      BY <2>1
    <3>2. \E t \in panic \cup {-1} : \A u \in panic : t >= u
      BY <3>1
    <3>3. newest \in panic \cup {-1}
      BY <3>2
    <3> HIDE DEF newest, panic
    <3> QED BY <2>1, <3>1, <3>3
  <2>2. CASE Registered # {}
    <3>1. PICK g \in Registered : TRUE
      BY <2>2
    <3>2. PICK p \in Int : p = server[g].frozen_at /\ p >= -1
      BY <1>3, <3>1
    <3>3. \A h \in Registered : server[h].frozen_at = p
      BY <1>3, <3>1, <3>2 DEF FrozenOK
    <3>4. panic = {p}
      BY <3>1, <3>2, <3>3
    <3>5. \E t \in panic \cup {-1} : \A u \in panic : t >= u
      BY <3>4
    <3>6. newest \in panic \cup {-1} /\ \A u \in panic : newest >= u
      BY <3>5
    <3> HIDE DEF newest, panic
    <3>7. newest = p
      BY <3>2, <3>4, <3>6
    <3> QED BY <3>2, <3>3, <3>7
  <2> QED BY <2>1, <2>2
<1>5. PICK t, z : /\ t = newest /\ z = (\E g \in Registered : server[g].frozen)
                  /\ z \in BOOLEAN
  OBVIOUS
<1> HIDE DEF newest, panic
<1>6. c = [Blank EXCEPT !.registered = TRUE, !.frozen_at = t, !.frozen = z,
                        !.max_devices = a, !.max_grants = b]
  BY <1>1, <1>5
<1>7. /\ c.registered = TRUE /\ c.frozen_at = t /\ c.frozen = z /\ c.coauthors = <<>>
      /\ c.coauthor_threshold = 0 /\ c.approvers = <<>> /\ c.approver_threshold = 0
      /\ c.votes = {} /\ c.proposals = {} /\ c.heir = NoHeir /\ c.bequests = <<>>
      /\ c.barrier = [k \in Kinds |-> -1]
  BY <1>6 DEF Blank
<1>8. FileTypes(c)
  <2>1. c.barrier \in [Kinds -> Int]
    BY <1>7
  <2>2. t \in Int /\ t >= -1
    BY <1>4, <1>5
  <2>3. FileTypes(Blank)
    BY BlankOK DEF FileOK
  <2>4. PICK d : d = Blank /\ FileTypes(d)
    BY <2>3
  <2>5. c = [d EXCEPT !.registered = TRUE, !.frozen_at = t, !.frozen = z,
                      !.max_devices = a, !.max_grants = b]
    BY <1>6, <2>4
  <2> QED BY <1>5, <1>7, <2>1, <2>2, <2>4, <2>5 DEF FileTypes
<1>9. FileOK(c, f)
  BY <1>7, <1>8, BlankRosters DEF FileOK, Rosters, Heirs, Waiting, Votes, NoHeir
<1>10. /\ ServerOK' /\ server'[f] = c /\ \A g \in Files : g # f => server'[g] = server[g]
  BY <1>1, <1>3, <1>9, OneFile
<1>11. Registered' = Registered \cup {f}
  BY <1>3, <1>7, <1>10 DEF Registered
<1>12. \A g \in Registered : server'[g] = server[g]
  BY <1>1, <1>3, <1>10
<1>13. SaidOK'
  BY <1>2, <1>3, <1>11, <1>12, SaidKept DEF SaidOK
<1>14. ExecutedOK' /\ WithdrawnOK'
  BY <1>2, <1>3, <1>11, <1>12, ExecutedKept, WithdrawnKept
<1>15. FrozenOK'
  <2>1. \A g \in Registered : server'[g].frozen = z /\ server'[g].frozen_at = t
    BY <1>3, <1>4, <1>5, <1>12 DEF FrozenOK
  <2> QED BY <1>7, <1>10, <1>11, <2>1 DEF FrozenOK
<1>16. HeirGetsThisFile'
  BY <1>2 DEF OrderInv, HeirGetsThisFile
<1> QED BY <1>2, <1>10, <1>13, <1>14, <1>15, <1>16 DEF OrderInv, Issued


\* A panic begins or ends for all the files together: they were frozen or freed
\* last at the same time, so the order is late for all or for none.
LEMMA FreezeStep ==
  ASSUME OrderInv, NEW m \in orders, Freeze(m)
  PROVE  OrderInv'
<1>1. PICK z, t :
        /\ z = m[2].fields.frozen /\ t = m[2].at
        /\ server' = [f \in Files |->
             IF f \in Registered /\ t >= server[f].frozen_at
             THEN [server[f] EXCEPT !.frozen = z, !.frozen_at = t]
             ELSE server[f]]
  BY DEF Freeze
<1>2. UNCHANGED <<now, menu, orders, withdrawn, given, executed, said>>
  BY DEF Freeze
<1>3. z \in BOOLEAN /\ t \in Nat
  BY <1>1 DEF OrderInv, Issued, Freeze, Reaches, decode, check, required, has, FieldTypes
<1>4. /\ ServerOK /\ SaidOK /\ ExecutedOK /\ WithdrawnOK /\ FrozenOK /\ Registered \subseteq Files
  BY DEF OrderInv, Registered
<1>5. ASSUME NEW f \in Files
      PROVE  /\ FileOK(server'[f], f)
             /\ server'[f].registered = server[f].registered
             /\ server'[f].votes = server[f].votes /\ server'[f].proposals = server[f].proposals
             /\ server'[f].barrier = server[f].barrier
             /\ f \in Registered =>
                  IF t >= server[f].frozen_at
                  THEN server'[f].frozen = z /\ server'[f].frozen_at = t
                  ELSE server'[f] = server[f]
  <2>1. PICK s : s = server[f] /\ FileOK(s, f)
    BY <1>4 DEF ServerOK
  <2>2. CASE f \in Registered /\ t >= s.frozen_at
    <3>1. PICK c : c = server'[f] /\ c = [s EXCEPT !.frozen = z, !.frozen_at = t]
      BY <1>1, <2>1, <2>2
    <3>2. FileTypes(s) /\ Rosters(s) /\ Heirs(s, f) /\ Waiting(s) /\ Votes(s)
      BY <2>1 DEF FileOK
    <3>3. /\ c.registered = s.registered /\ c.votes = s.votes /\ c.proposals = s.proposals
          /\ c.barrier = s.barrier /\ c.frozen = z /\ c.frozen_at = t
          /\ SameCoauthors(s, c) /\ c.approvers = s.approvers
          /\ c.approver_threshold = s.approver_threshold
          /\ c.heir = s.heir /\ c.bequests = s.bequests
      BY <3>1, <3>2 DEF FileTypes, SameCoauthors
    <3>4. FileTypes(c)
      <4>1. t \in Int /\ t >= -1
        BY <1>3
      <4>2. c.barrier \in [Kinds -> Int] /\ c.registered \in BOOLEAN
        BY <3>2, <3>3 DEF FileTypes
      <4> QED BY <1>3, <3>1, <3>2, <3>3, <4>1, <4>2 DEF FileTypes
    <3>5. Rosters(c) /\ Heirs(c, f) /\ Votes(c)
      BY <3>2, <3>3 DEF Rosters, Heirs, Votes, SameCoauthors
    <3>6. Waiting(c)
      BY <3>2, <3>3, WaitingKept
    <3> QED BY <2>1, <2>2, <3>1, <3>3, <3>4, <3>5, <3>6 DEF FileOK
  <2>3. CASE ~(f \in Registered /\ t >= s.frozen_at)
    <3>1. server'[f] = s
      BY <1>1, <2>1, <2>3
    <3> QED BY <2>1, <2>3, <3>1
  <2> QED BY <2>2, <2>3
<1>6. ServerOK'
  <2>1. server' = [f \in Files |-> server'[f]]
    BY <1>1
  <2>2. \A f \in Files : FileOK(server'[f], f)
    BY <1>5
  <2> QED BY <2>1, <2>2, AllFiles
<1>7. Registered' = Registered
  BY <1>5 DEF Registered
<1>8. SaidOK'
  <2>1. \A x \in said' : server'[x[2]].proposals = server[x[2]].proposals
    BY <1>2, <1>4, <1>5 DEF SaidOK
  <2> QED BY <1>2, <1>4, <1>7, <2>1, SaidKept
<1>9. ExecutedOK' /\ WithdrawnOK'
  BY <1>2, <1>4, <1>5, <1>7, ExecutedKept, WithdrawnKept
<1>10. FrozenOK'
  <2> SUFFICES ASSUME NEW f \in Registered, NEW g \in Registered
               PROVE  /\ server'[f].frozen = server'[g].frozen
                      /\ server'[f].frozen_at = server'[g].frozen_at
    BY <1>7 DEF FrozenOK
  <2>1. server[f].frozen = server[g].frozen /\ server[f].frozen_at = server[g].frozen_at
    BY <1>4 DEF FrozenOK
  <2> QED BY <1>4, <1>5, <2>1
<1>11. HeirGetsThisFile'
  BY <1>2 DEF OrderInv, HeirGetsThisFile
<1> QED BY <1>2, <1>6, <1>8, <1>9, <1>10, <1>11 DEF OrderInv, Issued

\* A vote takes the place of the voter's last one, which it does not precede.
LEMMA VoteStep ==
  ASSUME OrderInv, NEW m \in orders, Vote(m)
  PROVE  OrderInv'
<1>1. PICK o, f, s, v, vs, c :
        /\ o = m[2] /\ f = m[2].file_id /\ s = server[f]
        /\ v = [device_fpr |-> o.fields.device_fpr, voter |-> m[1],
                approve |-> o.fields.approve, at |-> o.at]
        /\ vs = {w \in s.votes : w.device_fpr # v.device_fpr \/ w.voter # v.voter} \cup {v}
        /\ c = [s EXCEPT !.votes = vs]
  OBVIOUS
<1>2. /\ o.kind = "ApproveDevice" /\ f \in Registered /\ Reaches(m) /\ VoteCounts(s, v)
      /\ server' = [server EXCEPT ![f].votes =
           {w \in @ : w.device_fpr # v.device_fpr \/ w.voter # v.voter} \cup {v}]
      /\ withdrawn' = IF v.approve THEN withdrawn ELSE withdrawn \cup {o}
      /\ UNCHANGED <<now, menu, orders, given, executed, said>>
  BY <1>1 DEF Vote
<1>3. /\ ServerOK /\ SaidOK /\ ExecutedOK /\ WithdrawnOK /\ FrozenOK
      /\ Registered \subseteq Files /\ f \in Files /\ FileOK(s, f)
  BY <1>1, <1>2 DEF OrderInv, Registered, ServerOK
<1>4. /\ o.fields.approve \in BOOLEAN /\ o.at \in Int /\ o.fields.signer_key = m[1]
      /\ o.file_id = f
  <2>1. Issued(m) /\ check(o) /\ o.kind = "ApproveDevice"
    BY <1>1, <1>2 DEF OrderInv, Reaches, decode
  <2>2. "approve" \in DOMAIN o.fields /\ NamesItsSigner(o)
    BY <2>1 DEF check, required, has, NamesItsSigner
  <2>3. FieldTypes(o.fields) /\ o.at \in Int /\ o.fields.signer_key = m[1]
    BY <1>1, <2>1, <2>2 DEF Issued
  <2>4. o.fields.approve \in BOOLEAN
    BY <2>2, <2>3 DEF FieldTypes
  <2> QED BY <1>1, <2>3, <2>4
<1>5. /\ v.device_fpr = o.fields.device_fpr /\ v.voter = m[1] /\ v.approve = o.fields.approve
      /\ v.at = o.at
  BY <1>1
<1>6. server' = [server EXCEPT ![f] = c]
  BY <1>1, <1>2, <1>3 DEF ServerOK
<1>7. /\ FileOK(c, f) /\ c.votes = vs /\ c.registered = s.registered /\ c.frozen = s.frozen
      /\ c.frozen_at = s.frozen_at /\ c.barrier = s.barrier /\ c.proposals = s.proposals
  <2>1. FileTypes(s) /\ Rosters(s) /\ Heirs(s, f) /\ Waiting(s) /\ Votes(s)
    BY <1>3 DEF FileOK
  <2>2. /\ c.votes = vs /\ c.registered = s.registered /\ c.frozen = s.frozen
        /\ c.frozen_at = s.frozen_at /\ c.barrier = s.barrier /\ c.proposals = s.proposals
        /\ SameCoauthors(s, c) /\ c.approvers = s.approvers
        /\ c.approver_threshold = s.approver_threshold
        /\ c.heir = s.heir /\ c.bequests = s.bequests
    BY <1>1, <2>1 DEF FileTypes, SameCoauthors
  <2>3. FileTypes(c)
    BY <1>1, <2>1, <2>2, ZenonT(60) DEF FileTypes
  <2>4. Rosters(c) /\ Heirs(c, f) /\ Waiting(c)
    <3>1. Waiting(c)
      BY <2>1, <2>2, WaitingKept
    <3> QED BY <2>1, <2>2, <3>1 DEF Rosters, Heirs, SameCoauthors
  <2>5. Votes(c)
    <3>1. \A w \in vs : w = v \/ (w \in s.votes /\ (w.device_fpr # v.device_fpr \/ w.voter # v.voter))
      BY <1>1
    <3> QED BY <1>4, <1>5, <2>1, <2>2, <3>1 DEF Votes
  <2> QED BY <2>2, <2>3, <2>4, <2>5 DEF FileOK
<1>8. /\ ServerOK' /\ server'[f] = c /\ \A g \in Files : g # f => server'[g] = server[g]
      /\ Registered' = Registered
  <2>1. c.registered = server[f].registered
    BY <1>1, <1>7
  <2>2. ServerOK /\ f \in Files /\ FileOK(c, f)
    BY <1>3, <1>7
  <2> QED BY <1>6, <2>1, <2>2, OneFile
<1>9. \A g \in Registered :
        /\ server'[g].frozen = server[g].frozen /\ server'[g].frozen_at = server[g].frozen_at
        /\ server'[g].barrier = server[g].barrier /\ server'[g].proposals = server[g].proposals
  BY <1>1, <1>3, <1>7, <1>8
<1>10. FrozenOK' /\ ExecutedOK'
  BY <1>2, <1>3, <1>8, <1>9, FrozenKept, ExecutedKept
<1>11. SaidOK'
  <2>1. \A x \in said' : server'[x[2]].proposals = server[x[2]].proposals
    BY <1>2, <1>3, <1>9 DEF SaidOK
  <2> QED BY <1>2, <1>3, <1>8, <2>1, SaidKept
<1>12. WithdrawnOK'
  <2> SUFFICES ASSUME NEW r \in withdrawn'
               PROVE  /\ r.kind = "ApproveDevice" /\ r.file_id \in Registered /\ r.at \in Int
                      /\ \E w \in server'[r.file_id].votes :
                           /\ w.device_fpr = r.fields.device_fpr /\ w.voter = r.fields.signer_key
                           /\ w.at > r.at \/ (w.at = r.at /\ ~w.approve)
    BY <1>8 DEF WithdrawnOK
  <2>0. v \in vs
    BY <1>1
  <2>1. CASE r \notin withdrawn
    <3>1. r = o /\ ~v.approve
      BY <1>2, <2>1
    <3>2. v \in server'[r.file_id].votes
      BY <1>4, <1>7, <1>8, <2>0, <3>1
    <3> QED BY <1>2, <1>4, <1>5, <3>1, <3>2
  <2>2. CASE r \in withdrawn
    <3>1. r.kind = "ApproveDevice" /\ r.file_id \in Registered /\ r.at \in Int
      BY <1>3, <2>2 DEF WithdrawnOK
    <3>2. PICK w \in server[r.file_id].votes :
            /\ w.device_fpr = r.fields.device_fpr /\ w.voter = r.fields.signer_key
            /\ w.at > r.at \/ (w.at = r.at /\ ~w.approve)
      BY <1>3, <2>2 DEF WithdrawnOK
    <3>3. CASE r.file_id # f
      BY <1>3, <1>8, <3>1, <3>2, <3>3
    <3>4. CASE r.file_id = f /\ (w.device_fpr # v.device_fpr \/ w.voter # v.voter)
      <4>1. w \in s.votes
        BY <1>1, <3>2, <3>4
      <4>2. w \in vs
        BY <1>1, <3>4, <4>1
      <4>3. w \in server'[r.file_id].votes
        BY <1>7, <1>8, <3>4, <4>2
      <4> QED BY <3>1, <3>2, <4>3
    <3>5. CASE r.file_id = f /\ w.device_fpr = v.device_fpr /\ w.voter = v.voter
      <4>1. w \in s.votes
        BY <1>1, <3>2, <3>5
      <4>2. w.at \in Int /\ w.approve \in BOOLEAN
        BY <1>3, <4>1 DEF FileOK, Votes
      <4>3. v.at > w.at \/ (v.at = w.at /\ ~v.approve)
        BY <1>2, <3>5, <4>1 DEF VoteCounts
      <4>4. v.at \in Int
        BY <1>4, <1>5
      <4>5. v.at > r.at \/ (v.at = r.at /\ ~v.approve)
        BY <3>1, <3>2, <4>2, <4>3, <4>4
      <4>6. v \in server'[r.file_id].votes
        BY <1>7, <1>8, <2>0, <3>5
      <4> QED BY <3>1, <3>2, <3>5, <4>5, <4>6
    <3> QED BY <3>3, <3>4, <3>5
  <2> QED BY <2>1, <2>2
<1>13. HeirGetsThisFile'
  BY <1>2 DEF OrderInv, HeirGetsThisFile
<1> QED BY <1>2, <1>8, <1>10, <1>11, <1>12, <1>13 DEF OrderInv, Issued


\* An heir comes for the file and is handed what the author signed for it.
LEMMA CollectStep ==
  ASSUME OrderInv, NEW device \in Devices, NEW f \in Files, Collect(device, f)
  PROVE  OrderInv'
<1>1. PICK s, at, heir, c :
        /\ s = server[f] /\ at = IF s.heir.released_at = Absent THEN now ELSE s.heir.released_at
        /\ heir = [s.heir EXCEPT !.released_at = at] /\ c = [s EXCEPT !.heir = heir]
  OBVIOUS
<1>2. /\ f \in Registered /\ s.heir.mode = "Open"
      /\ server' = [server EXCEPT ![f].heir.released_at = IF @ = Absent THEN now ELSE @]
      /\ given' = given \cup {<<device, f, s.bequests[i]>> :
                                i \in {j \in DOMAIN s.bequests : s.bequests[j].text.device_fpr = device}}
      /\ UNCHANGED <<now, menu, orders, withdrawn, executed, said>>
  BY <1>1 DEF Collect
<1>3. /\ ServerOK /\ SaidOK /\ ExecutedOK /\ WithdrawnOK /\ FrozenOK /\ HeirGetsThisFile
      /\ Registered \subseteq Files /\ FileOK(s, f)
  BY <1>1 DEF OrderInv, Registered, ServerOK
<1>4. FileTypes(s) /\ Rosters(s) /\ Heirs(s, f) /\ Waiting(s) /\ Votes(s)
  BY <1>3 DEF FileOK
<1>5. server' = [server EXCEPT ![f] = c]
  BY <1>1, <1>2, <1>3 DEF ServerOK
<1>6. /\ c.heir = heir /\ c.registered = s.registered /\ c.frozen = s.frozen
      /\ c.frozen_at = s.frozen_at /\ c.barrier = s.barrier /\ c.proposals = s.proposals
      /\ c.votes = s.votes /\ SameCoauthors(s, c) /\ c.approvers = s.approvers
      /\ c.approver_threshold = s.approver_threshold /\ c.bequests = s.bequests
  BY <1>1, <1>4 DEF FileTypes, SameCoauthors
<1>7. FileOK(c, f)
  <2>1. FileTypes(c)
    BY <1>1, <1>4, <1>6 DEF FileTypes
  <2>2. Waiting(c)
    BY <1>4, <1>6, WaitingKept
  <2>3. Rosters(c) /\ Votes(c)
    BY <1>4, <1>6 DEF Rosters, Votes, SameCoauthors
  <2>4. /\ s.heir = [mode |-> s.heir.mode, silence_seconds |-> s.heir.silence_seconds,
                     device_fprs |-> s.heir.device_fprs, released_at |-> s.heir.released_at]
        /\ s.heir.mode = "Open" /\ s.heir.device_fprs # <<>>
    BY <1>2, <1>4, OrdersAssumption DEF Heirs, NoHeir
  <2>5. /\ heir = [mode |-> heir.mode, silence_seconds |-> heir.silence_seconds,
                   device_fprs |-> heir.device_fprs, released_at |-> heir.released_at]
        /\ heir.mode = "Open" /\ heir.device_fprs # <<>>
    BY <1>1, <2>4
  <2>6. Heirs(c, f)
    BY <1>4, <1>6, <2>5 DEF Heirs
  <2> QED BY <2>1, <2>2, <2>3, <2>6 DEF FileOK
<1>8. /\ ServerOK' /\ server'[f] = c /\ \A g \in Files : g # f => server'[g] = server[g]
      /\ Registered' = Registered
  <2>1. c.registered = server[f].registered
    BY <1>1, <1>6
  <2> QED BY <1>3, <1>5, <1>7, <2>1, OneFile
<1>9. \A g \in Registered :
        /\ server'[g].frozen = server[g].frozen /\ server'[g].frozen_at = server[g].frozen_at
        /\ server'[g].barrier = server[g].barrier /\ server'[g].proposals = server[g].proposals
        /\ server'[g].votes = server[g].votes
  BY <1>1, <1>3, <1>6, <1>8
<1>10. FrozenOK' /\ ExecutedOK' /\ WithdrawnOK'
  BY <1>2, <1>3, <1>8, <1>9, FrozenKept, ExecutedKept, WithdrawnKept
<1>11. SaidOK'
  <2>1. \A x \in said' : server'[x[2]].proposals = server[x[2]].proposals
    BY <1>2, <1>3, <1>9 DEF SaidOK
  <2> QED BY <1>2, <1>3, <1>8, <2>1, SaidKept
<1>12. HeirGetsThisFile'
  <2> DEFINE Meant(g) == /\ decode_decision(g[3]) /\ verify(g[3], "GRANT", Author)
                         /\ g[3].text.file_id = g[2] /\ g[3].text.device_fpr = g[1]
                         /\ g[3].text.approve /\ g[3].text.share_b.sealed_to = g[1]
  <2>1. \A g \in given : Meant(g)
    BY <1>3 DEF HeirGetsThisFile
  <2>2. ASSUME NEW i \in DOMAIN s.bequests, s.bequests[i].text.device_fpr = device
        PROVE  Meant(<<device, f, s.bequests[i]>>)
    BY <1>4, <2>2 DEF Heirs, Bequeathed
  <2> HIDE DEF Meant
  <2>3. \A g \in given' : Meant(g)
    BY <1>2, <2>1, <2>2
  <2> QED BY <2>3 DEF Meant, HeirGetsThisFile
<1> QED BY <1>2, <1>8, <1>10, <1>11, <1>12 DEF OrderInv, Issued

-------------------------------------------------------------------------------
(* The invariant holds. *)

LEMMA InitEstablishes ==
  ASSUME Init
  PROVE  OrderInv
<1>1. PICK r \in Founders :
        server = [f \in Files |->
          IF f # First THEN Blank
          ELSE [Blank EXCEPT !.registered = TRUE, !.coauthors = r, !.coauthor_threshold = Len(r)]]
  BY DEF Init
<1>2. PICK b, c : /\ b = Blank
                  /\ c = [b EXCEPT !.registered = TRUE, !.coauthors = r, !.coauthor_threshold = Len(r)]
  OBVIOUS
<1>3. r \in Seq(Keys) /\ check_roster(r, Len(r))
  BY CommandsAssumption
<1>4. \A f : FileOK(b, f)
  BY <1>2, BlankOK
<1>5. FileTypes(b) /\ Rosters(b) /\ Waiting(b) /\ Votes(b) /\ \A f : Heirs(b, f)
  BY <1>4 DEF FileOK
<1>6. /\ c.registered = TRUE /\ c.coauthors = r /\ c.coauthor_threshold = Len(r)
      /\ c.proposals = b.proposals /\ c.votes = b.votes /\ c.approvers = b.approvers
      /\ c.approver_threshold = b.approver_threshold /\ c.heir = b.heir
      /\ c.bequests = b.bequests
  BY <1>2, <1>5 DEF FileTypes
<1>7. b.proposals = {} /\ b.registered = FALSE
  BY <1>2 DEF Blank
<1>8. FileOK(c, First)
  <2>1. FileTypes(c)
    BY <1>2, <1>5, <1>6 DEF FileTypes
  <2>2. Rosters(c) /\ Heirs(c, First) /\ Waiting(c) /\ Votes(c)
    BY <1>3, <1>5, <1>6, <1>7 DEF Rosters, Heirs, Waiting, Votes
  <2> QED BY <2>1, <2>2 DEF FileOK
<1>9. \A f \in Files : server[f] = IF f # First THEN b ELSE c
  BY <1>1, <1>2
<1>10. ServerOK
  <2>1. server = [f \in Files |-> server[f]]
    BY <1>1
  <2> QED BY <1>4, <1>8, <1>9, <2>1 DEF ServerOK
<1>11. Registered \subseteq {First}
  BY <1>7, <1>9 DEF Registered
<1>12. FrozenOK
  BY <1>11 DEF FrozenOK
<1>13. SaidOK /\ WithdrawnOK /\ HeirGetsThisFile
  BY DEF Init, SaidOK, WithdrawnOK, HeirGetsThisFile
<1>14. ExecutedOK
  <2>1. executed = <<>> /\ DOMAIN executed = {} /\ executed \in Seq(Range(executed))
    BY DEF Init
  <2> QED BY <2>1 DEF ExecutedOK
<1> QED BY <1>10, <1>12, <1>13, <1>14 DEF OrderInv, Init

LEMMA NextKeeps ==
  ASSUME OrderInv, [Next]_vars
  PROVE  OrderInv'
<1>1. ASSUME NEW x \in menu, Sign(x[1], x[2])
      PROVE  OrderInv'
  BY <1>1, SignStep
<1>2. ASSUME NEW m \in orders, CarryOut(m) \/ Endorse(m) \/ Register(m) \/ Freeze(m) \/ Vote(m)
      PROVE  OrderInv'
  BY <1>2, CarryOutStep, EndorseStep, RegisterStep, FreezeStep, VoteStep
<1>3. ASSUME NEW m \in orders, Alive(m) \/ RevokeGrant(m)
      PROVE  OrderInv'
  <2>1. UNCHANGED <<now, menu, orders, server, withdrawn, given, executed, said>>
    BY <1>3 DEF Alive, RevokeGrant
  <2> QED BY <2>1, SameFiles DEF OrderInv
<1>4. ASSUME NEW device \in Devices, NEW f \in Files, Collect(device, f)
      PROVE  OrderInv'
  BY <1>4, CollectStep
<1>5. ASSUME Tick
      PROVE  OrderInv'
  <2>1. now' \in Nat /\ UNCHANGED <<menu, orders, server, withdrawn, given, executed, said>>
    BY <1>5 DEF Tick, OrderInv
  <2> QED BY <2>1, SameFiles DEF OrderInv
<1>6. ASSUME UNCHANGED vars
      PROVE  OrderInv'
  <2>1. UNCHANGED <<now, menu, orders, server, withdrawn, given, executed, said>>
    BY <1>6 DEF vars
  <2> QED BY <2>1, SameFiles DEF OrderInv
<1> QED BY <1>1, <1>2, <1>3, <1>4, <1>5, <1>6 DEF Next

\* The invariant the theorems rest on: whatever is signed, held back, repeated
\* and carried to the server, each file's record is in order, every signature
\* heard waits or was used, and barriers stand at the last change of a kind.
THEOREM OrderInvariant == Spec => []OrderInv
<1>1. Init => OrderInv
  BY InitEstablishes
<1>2. OrderInv /\ [Next]_vars => OrderInv'
  BY NextKeeps
<1> QED BY <1>1, <1>2, PTL DEF Spec

-------------------------------------------------------------------------------
(* What follows. *)

\* For every roster and every client: what the server did about a file with
\* coauthors a quorum of different members signed, and what a quorum said it
\* did.  order.rs makes this so with intent_digest, which is the same for
\* members who sign at different times, and check_roster, which refuses a
\* member named twice.
THEOREM QuorumHolds == Spec => []QuorumRules
<1>1. OrderInv => QuorumRules
  <2> SUFFICES ASSUME OrderInv
               PROVE  QuorumRules
    OBVIOUS
  <2>1. \A i \in DOMAIN executed :
          executed[i].roster # <<>> =>
            Cardinality(Range(executed[i].roster) \cap {x[1] : x \in executed[i].signers})
              >= executed[i].threshold
    BY DEF OrderInv, ExecutedOK
  <2>2. ASSUME NEW f \in Registered, NEW x \in said, x[2] = f
        PROVE  Cardinality({k \in Range(server[f].coauthors) : <<k, f, x[3]>> \in said})
                 < server[f].coauthor_threshold
    <3>1. PICK s, c : s = server[f] /\ c = x[3] /\ FileOK(s, f)
      BY DEF OrderInv, ServerOK, Registered
    <3>2. PICK p \in s.proposals : p.intent = IntentOf(f, c)
      BY <2>2, <3>1 DEF OrderInv, SaidOK
    <3>3. have(s, p.signers) < s.coauthor_threshold
      BY <3>1, <3>2 DEF FileOK, Waiting
    <3> DEFINE K == {y[1] : y \in p.signers}
               T == Range(s.coauthors) \cap K
               S == {k \in Range(s.coauthors) : <<k, f, c>> \in said}
    <3>4. /\ have(s, p.signers) = Cardinality(T) /\ have(s, p.signers) \in Nat
      BY <3>1, HaveCounts DEF FileOK
    <3>5. IsFiniteSet(T)
      BY <3>1, MembersByPlace DEF FileOK, Rosters, check_roster
    <3>6. S \subseteq T
      <4> SUFFICES ASSUME NEW k \in S
                   PROVE  k \in K
        OBVIOUS
      <4>1. PICK y : y = <<k, f, c>> /\ y \in said /\ y[1] = k /\ y[2] = f /\ y[3] = c
        OBVIOUS
      <4>2. PICK q \in s.proposals :
              q.intent = IntentOf(f, c) /\ \E z \in q.signers : z[1] = k
        BY <3>1, <4>1 DEF OrderInv, SaidOK
      <4>3. q = p
        BY <3>1, <3>2, <4>2 DEF FileOK, Waiting
      <4> QED BY <4>2, <4>3
    <3>7. Cardinality(S) \in Nat /\ Cardinality(S) <= Cardinality(T)
      <4> HIDE DEF S, T
      <4> QED BY <3>5, <3>6, FS_Subset, FS_CardinalityType
    <3>8. s.coauthor_threshold \in Nat
      BY <3>1 DEF FileOK, Rosters, check_roster
    <3>9. Cardinality(S) < s.coauthor_threshold
      <4> HIDE DEF S, T
      <4> QED BY <3>3, <3>4, <3>7, <3>8
    <3> QED BY <3>1, <3>9
  <2> QED BY <2>1, <2>2 DEF QuorumRules
<1> QED BY <1>1, OrderInvariant, PTL

\* For every interleaving: a command taken back is not revived by a signature,
\* a vote or a panic that was held back on the way.
THEOREM NewestHolds == Spec => []NewestCommandStands
<1>1. OrderInv => NewestCommandStands
  <2> SUFFICES ASSUME OrderInv
               PROVE  NewestCommandStands
    OBVIOUS
  <2>1. \A i, j \in DOMAIN executed :
          i < j /\ executed[i].file = executed[j].file /\ executed[i].kind = executed[j].kind =>
            \A x \in executed[j].signers : x[2] >= executed[i].at
    BY DEF OrderInv, ExecutedOK
  <2>2. ASSUME NEW f \in Registered, NEW v \in server[f].votes, NEW m \in orders,
               v.approve, m[1] = v.voter, m[2].kind = "ApproveDevice", m[2].file_id = f,
               m[2].fields.device_fpr = v.device_fpr, ~m[2].fields.approve, m[2] \in withdrawn
        PROVE  v.at > m[2].at
    <3>1. m[2].fields.signer_key = v.voter
      BY <2>2 DEF OrderInv, Issued, NamesItsSigner
    <3>2. PICK w \in server[f].votes :
            /\ w.device_fpr = v.device_fpr /\ w.voter = v.voter
            /\ w.at > m[2].at \/ (w.at = m[2].at /\ ~w.approve)
      BY <2>2, <3>1 DEF OrderInv, WithdrawnOK
    <3>3. w = v
      BY <2>2, <3>2 DEF OrderInv, ServerOK, FileOK, Votes, Registered
    <3> QED BY <2>2, <3>2, <3>3
  <2>3. \A f, g \in Registered : server[f].frozen = server[g].frozen
    BY DEF OrderInv, FrozenOK
  <2> QED BY <2>1, <2>2, <2>3 DEF NewestCommandStands
<1> QED BY <1>1, OrderInvariant, PTL

\* For every bequest a client may write: what the heir is handed is the
\* author's decision about this file and this device, as check_bequests and
\* the signature on each decision make sure.
THEOREM HeirHolds == Spec => []HeirGetsThisFile
<1>1. OrderInv => HeirGetsThisFile
  BY DEF OrderInv
<1> QED BY <1>1, OrderInvariant, PTL


-------------------------------------------------------------------------------
(* The standing. *)

StandingFields ==
  {"file_id", "revoked", "max_devices", "max_grants", "coauthors", "coauthor_threshold",
   "proposal_ttl", "approvers", "approver_threshold", "heir", "last_alive", "votes",
   "proposals", "frozen"}

\* What is written of a standing, field by field.
LEMMA WrittenIs ==
  ASSUME NEW s, DOMAIN s = StandingFields, NEW t, t = standing_encode(s)
  PROVE  /\ {"file_id", "revoked"} \subseteq DOMAIN t
         /\ t.file_id = s.file_id /\ t.revoked = s.revoked
         /\ \A f \in {"max_devices", "max_grants", "last_alive"} :
              (f \in DOMAIN t <=> s[f] # Absent) /\ (f \in DOMAIN t => t[f] = s[f])
         /\ \A f \in {"coauthors", "approvers"} :
              (f \in DOMAIN t <=> s[f] # <<>>) /\ (f \in DOMAIN t => t[f] = s[f])
         /\ \A f \in {"votes", "proposals"} :
              (f \in DOMAIN t <=> s[f] # {}) /\ (f \in DOMAIN t => t[f] = s[f])
         /\ \A f \in {"coauthor_threshold", "approver_threshold", "proposal_ttl"} :
              (f \in DOMAIN t <=> s[f] # 0) /\ (f \in DOMAIN t => t[f] = s[f])
         /\ ("frozen" \in DOMAIN t <=> s.frozen) /\ ("frozen" \in DOMAIN t => t.frozen = s.frozen)
         /\ ("heir_mode" \in DOMAIN t <=> s.heir.mode # Absent)
         /\ ("heir_mode" \in DOMAIN t => t.heir_mode = s.heir.mode)
         /\ ("silence_seconds" \in DOMAIN t <=> s.heir.mode # Absent)
         /\ ("silence_seconds" \in DOMAIN t => t.silence_seconds = s.heir.silence_seconds)
         /\ ("heir_released_at" \in DOMAIN t <=> s.heir.mode # Absent /\ s.heir.released_at # Absent)
         /\ ("heir_released_at" \in DOMAIN t => t.heir_released_at = s.heir.released_at)
         /\ ("heir_fpr" \in DOMAIN t <=> s.heir.mode = "Open")
         /\ ("heir_fpr" \in DOMAIN t => t.heir_fpr = s.heir.device_fprs)
BY DEF standing_encode, StandingFields


\* Written and read back, a standing is the same.
LEMMA ReadBack ==
  ASSUME NEW s, DOMAIN s = StandingFields,
         s = [file_id |-> s.file_id, revoked |-> s.revoked, max_devices |-> s.max_devices,
              max_grants |-> s.max_grants, coauthors |-> s.coauthors,
              coauthor_threshold |-> s.coauthor_threshold, proposal_ttl |-> s.proposal_ttl,
              approvers |-> s.approvers, approver_threshold |-> s.approver_threshold,
              heir |-> s.heir, last_alive |-> s.last_alive, votes |-> s.votes,
              proposals |-> s.proposals, frozen |-> s.frozen],
         s.frozen \in BOOLEAN, Rosters(s), NEW f, NEW bequests,
         Heirs([heir |-> s.heir, bequests |-> bequests], f)
  PROVE  standing_readable(standing_encode(s)) /\ standing_decode(standing_encode(s)) = s
<1>1. PICK t : t = standing_encode(s)
  OBVIOUS
<1>2. PICK heir : /\ heir = s.heir
                  /\ heir = [mode |-> heir.mode, silence_seconds |-> heir.silence_seconds,
                             device_fprs |-> heir.device_fprs, released_at |-> heir.released_at]
                  /\ \/ heir = NoHeir
                     \/ heir.mode = "Open" /\ heir.device_fprs # <<>>
                     \/ heir.mode = "Close" /\ heir.device_fprs = <<>>
  BY DEF Heirs
<1>3. heir = NoHeir => heir.mode = Absent
  BY DEF NoHeir
<1>4. standing_check_roster(t, "coauthors", "coauthor_threshold")
  <2>1. check_roster(s.coauthors, s.coauthor_threshold)
    BY DEF Rosters
  <2>2. /\ ("coauthors" \in DOMAIN t <=> s.coauthors # <<>>)
        /\ ("coauthors" \in DOMAIN t => t.coauthors = s.coauthors)
        /\ ("coauthor_threshold" \in DOMAIN t <=> s.coauthor_threshold # 0)
        /\ ("coauthor_threshold" \in DOMAIN t => t.coauthor_threshold = s.coauthor_threshold)
    BY <1>1, WrittenIs
  <2> QED BY <2>1, <2>2 DEF check_roster, standing_check_roster
<1>5. standing_check_roster(t, "approvers", "approver_threshold")
  <2>1. check_roster(s.approvers, s.approver_threshold)
    BY DEF Rosters
  <2>2. /\ ("approvers" \in DOMAIN t <=> s.approvers # <<>>)
        /\ ("approvers" \in DOMAIN t => t.approvers = s.approvers)
        /\ ("approver_threshold" \in DOMAIN t <=> s.approver_threshold # 0)
        /\ ("approver_threshold" \in DOMAIN t => t.approver_threshold = s.approver_threshold)
    BY <1>1, WrittenIs
  <2> QED BY <2>1, <2>2 DEF check_roster, standing_check_roster
<1>6. /\ ("heir_mode" \in DOMAIN t <=> heir.mode # Absent)
      /\ ("heir_mode" \in DOMAIN t => t.heir_mode = heir.mode)
      /\ ("silence_seconds" \in DOMAIN t <=> heir.mode # Absent)
      /\ ("silence_seconds" \in DOMAIN t => t.silence_seconds = heir.silence_seconds)
      /\ ("heir_released_at" \in DOMAIN t <=> heir.mode # Absent /\ heir.released_at # Absent)
      /\ ("heir_released_at" \in DOMAIN t => t.heir_released_at = heir.released_at)
      /\ ("heir_fpr" \in DOMAIN t <=> heir.mode = "Open")
      /\ ("heir_fpr" \in DOMAIN t => t.heir_fpr = heir.device_fprs)
  BY <1>1, <1>2, WrittenIs
<1>7. standing_heir_fits(t)
  BY <1>2, <1>3, <1>6, OrdersAssumption DEF standing_heir_fits
<1>8. standing_readable(t)
  <2>1. /\ {"file_id", "revoked"} \subseteq DOMAIN t
        /\ ("frozen" \in DOMAIN t => t.frozen)
        /\ ("proposal_ttl" \in DOMAIN t => t.proposal_ttl # 0)
        /\ \A g \in {"votes", "proposals"} \cap DOMAIN t : t[g] # {}
    BY <1>1, WrittenIs
  <2> QED BY <1>4, <1>5, <1>7, <2>1 DEF standing_readable
<1> DEFINE Read(name, default) == IF name \in DOMAIN t THEN t[name] ELSE default
<1>9. /\ t.file_id = s.file_id /\ t.revoked = s.revoked
      /\ Read("max_devices", Absent) = s.max_devices /\ Read("max_grants", Absent) = s.max_grants
      /\ Read("coauthors", <<>>) = s.coauthors
      /\ Read("coauthor_threshold", 0) = s.coauthor_threshold
      /\ Read("proposal_ttl", 0) = s.proposal_ttl /\ Read("approvers", <<>>) = s.approvers
      /\ Read("approver_threshold", 0) = s.approver_threshold
      /\ Read("last_alive", Absent) = s.last_alive
      /\ Read("votes", {}) = s.votes /\ Read("proposals", {}) = s.proposals
  BY <1>1, WrittenIs
<1>10. Read("frozen", FALSE) = s.frozen
  <2>1. ("frozen" \in DOMAIN t <=> s.frozen) /\ ("frozen" \in DOMAIN t => t.frozen = s.frozen)
    BY <1>1, WrittenIs
  <2> QED BY <2>1
<1>11. heir = IF "heir_mode" \notin DOMAIN t THEN NoHeir
              ELSE [mode |-> t.heir_mode, silence_seconds |-> t.silence_seconds,
                    device_fprs |-> Read("heir_fpr", <<>>),
                    released_at |-> Read("heir_released_at", Absent)]
  <2>1. CASE heir.mode = Absent
    BY <1>2, <1>6, <2>1, OrdersAssumption
  <2>2. CASE heir.mode # Absent
    <3>1. /\ t.heir_mode = heir.mode /\ t.silence_seconds = heir.silence_seconds
          /\ Read("heir_fpr", <<>>) = heir.device_fprs
          /\ Read("heir_released_at", Absent) = heir.released_at
          /\ "heir_mode" \in DOMAIN t
      BY <1>2, <1>3, <1>6, <2>2
    <3> QED BY <1>2, <3>1
  <2> QED BY <2>1, <2>2
<1>12. standing_decode(t) =
         [file_id |-> t.file_id, revoked |-> t.revoked,
          max_devices |-> Read("max_devices", Absent), max_grants |-> Read("max_grants", Absent),
          coauthors |-> Read("coauthors", <<>>),
          coauthor_threshold |-> Read("coauthor_threshold", 0),
          proposal_ttl |-> Read("proposal_ttl", 0), approvers |-> Read("approvers", <<>>),
          approver_threshold |-> Read("approver_threshold", 0), heir |-> heir,
          last_alive |-> Read("last_alive", Absent), votes |-> Read("votes", {}),
          proposals |-> Read("proposals", {}), frozen |-> Read("frozen", FALSE)]
  BY <1>11 DEF standing_decode
<1> HIDE DEF Read
<1>13. standing_decode(t) = s
  BY <1>2, <1>9, <1>10, <1>12
<1> QED BY <1>1, <1>8, <1>13

\* For every order accepted: the answer about a file is one that standing.rs
\* reads, and reading gives back what the server keeps.  check of order.rs and
\* decode of standing.rs are two pieces of code with the same rules.
THEOREM StandingHolds == Spec => []StandingReadable
<1>1. OrderInv => StandingReadable
  <2> SUFFICES ASSUME OrderInv, NEW f \in Registered
               PROVE  /\ standing_readable(standing_encode(Standing(f)))
                      /\ standing_decode(standing_encode(Standing(f))) = Standing(f)
    BY DEF StandingReadable
  <2>1. PICK s : s = server[f] /\ FileOK(s, f)
    BY DEF OrderInv, ServerOK, Registered
  <2>2. PICK t, ps :
          /\ t = Standing(f)
          /\ t = [file_id |-> f, revoked |-> s.revoked, max_devices |-> s.max_devices,
                  max_grants |-> s.max_grants, coauthors |-> s.coauthors,
                  coauthor_threshold |-> s.coauthor_threshold, proposal_ttl |-> s.proposal_ttl,
                  approvers |-> s.approvers, approver_threshold |-> s.approver_threshold,
                  heir |-> s.heir, last_alive |-> alive, votes |-> s.votes,
                  proposals |-> ps, frozen |-> s.frozen]
    BY <2>1 DEF Standing
  <2>3. /\ DOMAIN t = StandingFields
        /\ t = [file_id |-> t.file_id, revoked |-> t.revoked, max_devices |-> t.max_devices,
                max_grants |-> t.max_grants, coauthors |-> t.coauthors,
                coauthor_threshold |-> t.coauthor_threshold, proposal_ttl |-> t.proposal_ttl,
                approvers |-> t.approvers, approver_threshold |-> t.approver_threshold,
                heir |-> t.heir, last_alive |-> t.last_alive, votes |-> t.votes,
                proposals |-> t.proposals, frozen |-> t.frozen]
    BY <2>2 DEF StandingFields
  <2>4. /\ t.frozen = s.frozen /\ t.coauthors = s.coauthors /\ t.approvers = s.approvers
        /\ t.coauthor_threshold = s.coauthor_threshold /\ t.heir = s.heir
        /\ t.approver_threshold = s.approver_threshold
    BY <2>2
  <2>5. FileTypes(s) /\ Rosters(s) /\ Heirs(s, f)
    BY <2>1 DEF FileOK
  <2>6. t.frozen \in BOOLEAN /\ Rosters(t)
    BY <2>4, <2>5 DEF FileTypes, Rosters
  <2>7. PICK bequests : bequests = s.bequests
    OBVIOUS
  <2>8. Heirs([heir |-> t.heir, bequests |-> bequests], f)
    BY <2>4, <2>5, <2>7 DEF Heirs
  <2> QED BY <2>2, <2>3, <2>6, <2>8, ReadBack
<1> QED BY <1>1, OrderInvariant, PTL


================================================================================
