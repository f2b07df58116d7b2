----------------------------- MODULE PackingProofs -----------------------------
(***************************************************************************)
(* For every set of requests, documents and devices, and however often the *)
(* machine is set back: no nonce serves two messages under one key; a      *)
(* signed file opens for its parties and nobody else; the policy in it     *)
(* reads as it was written.                                                *)
(***************************************************************************)
EXTENDS Packing, SequenceTheorems, FiniteSetTheorems, TLAPS

-------------------------------------------------------------------------------
(* Nonces. *)

\* A nonce made from the message and the associated data it is used with.
Hedged(x) ==
  \E label, seed : x.nonce = hedged_nonce(label, seed, x.msg, x.aad)

\* The inductive invariant: it says how each nonce came about, not that two differ.
AllHedged == \A x \in sealed : Hedged(x)

\* A ciphertext with a hedged nonce is hedged (Encrypt as every sealing function
\* calls it).
LEMMA EncryptHedged ==
  ASSUME NEW key, NEW label, NEW seed, NEW aad, NEW msg
  PROVE  Hedged(Encrypt(key, hedged_nonce(label, seed, msg, aad), aad, msg))
BY DEF Hedged, Encrypt

\* What seal, wrap_cek and seal_private_meta put out is hedged.
LEMMA SealHedged ==
  ASSUME NEW public, NEW info, NEW aad, NEW plaintext, NEW n
  PROVE  Hedged(seal(public, info, aad, plaintext, n).ct)
BY EncryptHedged DEF seal

LEMMA WrapHedged ==
  ASSUME NEW kek, NEW cek, NEW core, NEW seed
  PROVE  Hedged(wrap_cek(kek, cek, core, seed).ct)
BY EncryptHedged DEF wrap_cek

LEMMA MetaHedged ==
  ASSUME NEW s, NEW request, NEW total_len, NEW n
  PROVE  Hedged(seal_private_meta(s, request, total_len, n).ct)
BY EncryptHedged DEF seal_private_meta

\* A slot has nothing sealed in it, or what is sealed is hedged.
SlotHedged(slot) == slot.blob # None => Hedged(slot.blob.ct)

LEMMA SealedSlotHedged ==
  ASSUME NEW kind, NEW public, NEW purpose, NEW h, NEW plaintext, NEW commitment, NEW n
  PROVE  SlotHedged(seal_slot(kind, public, purpose, h, plaintext, commitment, n))
BY SealHedged DEF seal_slot, SlotHedged

LEMMA ClaimSlotHedged ==
  ASSUME NEW claim_commit, NEW commitment
  PROVE  SlotHedged(claim_slot(claim_commit, commitment))
BY DEF claim_slot, SlotHedged

\* The recipient's slot is missing, a claim slot or a sealed one.
LEMMA RecipientSlotsHedged ==
  ASSUME NEW s, NEW h, NEW commitment, NEW n
  PROVE  \E S : /\ RecipientSlots(s, h, commitment, n) \in Seq(S)
                /\ \A slot \in S : SlotHedged(slot)
<1> DEFINE claim == claim_slot(s.plan.key, commitment)
           keyed == seal_slot("RecipientIdentity", s.plan.key, "slot-recipient", h,
                              s.secret_b, commitment, n)
<1>1. RecipientSlots(s, h, commitment, n) \in {<< >>, <<claim>>, <<keyed>>}
  BY DEF RecipientSlots
<1>2. SlotHedged(claim) /\ SlotHedged(keyed)
  BY ClaimSlotHedged, SealedSlotHedged
<1> HIDE DEF claim, keyed
<1>3. {<< >>, <<claim>>, <<keyed>>} \subseteq Seq({claim, keyed})
  OBVIOUS
<1>4. WITNESS {claim, keyed}
<1>5. QED BY <1>1, <1>2, <1>3

\* Every ciphertext of a header that assemble returns is hedged.
LEMMA AssembledHedged ==
  ASSUME NEW s, NEW request, NEW info, NEW n,
         assemble(s, request, info, n).result # None
  PROVE  \A x \in CiphertextsOf(assemble(s, request, info, n).result.header) : Hedged(x)
<1> DEFINE
  meta == seal_private_meta(s, request, info.total_len, n)
  skeleton == Skeleton(s, request, info.tree_root, meta)
  core == core_hash(skeleton)
  kek == derive_kek(s.file_id, request.org_id, s.secret_a, s.secret_b)
  commitment == slot_commitment(kek, core)
  m == IF s.plan.mode \in KeyedModes THEN n + 6 ELSE n + 4
  wrapped == wrap_cek(kek, s.cek, core, Draw(n + 1))
  server == seal_slot("Server", keys.authority_sealing, "slot-server", skeleton,
                      s.secret_a, commitment, n + 2)
  recipient == RecipientSlots(s, skeleton, commitment, n + 4)
  author == seal_slot("AuthorDevice", AuthorSlotKey(s.plan.mode), "slot-author-device", skeleton,
                      both_shares(s.secret_a, s.secret_b), commitment, m)
  header == [skeleton EXCEPT !.wrapped_cek = wrapped,
                             !.key_slots = <<server>> \o recipient \o <<author>>]
<1>1. assemble(s, request, info, n).result.header = header
  BY DEF assemble, Refused
<1>2. /\ header.private_meta = meta
      /\ header.wrapped_cek = wrapped
      /\ header.key_slots = <<server>> \o recipient \o <<author>>
  BY DEF Skeleton
<1>3. Hedged(meta.ct) /\ Hedged(wrapped.ct) /\ SlotHedged(server) /\ SlotHedged(author)
  BY MetaHedged, WrapHedged, SealedSlotHedged
<1>4. PICK S : recipient \in Seq(S) /\ \A slot \in S : SlotHedged(slot)
  BY RecipientSlotsHedged
<1> HIDE DEF meta, skeleton, wrapped, server, recipient, author, header
<1> DEFINE T == S \cup {server, author}
<1>5. header.key_slots \in Seq(T)
  BY <1>2, <1>4
<1>6. \A i \in DOMAIN header.key_slots : SlotHedged(header.key_slots[i])
  <2>1. \A i \in DOMAIN header.key_slots : header.key_slots[i] \in T
    BY <1>5
  <2>2. QED BY <2>1, <1>3, <1>4
<1>7. \A x \in CiphertextsOf(header) : Hedged(x)
  BY <1>2, <1>3, <1>6 DEF CiphertextsOf, SlotHedged
<1>8. QED BY <1>1, <1>7

\* Under one key no nonce serves two messages, whatever is asked, streamed and
\* set back (hedged_nonce in the four places that encrypt).
THEOREM NoncesNeverRepeat == Spec => []NonceNeverReused
<1>1. Init => AllHedged
  BY DEF Init, AllHedged
<1>2. AllHedged /\ [Next]_vars => AllHedged'
  <2> SUFFICES ASSUME AllHedged, [Next]_vars PROVE AllHedged'
    OBVIOUS
  <2>1. CASE sealed' = sealed
    BY <2>1 DEF AllHedged
  <2>2. ASSUME NEW doc \in Documents, Stream(doc) PROVE AllHedged'
    <3>1. PICK key, label, seed, aad :
            sealed' = sealed \cup
              {Encrypt(key, hedged_nonce(label, seed, doc, aad), aad, doc)}
      BY <2>2 DEF Stream
    <3>2. QED BY <3>1, EncryptHedged DEF AllHedged
  <2>3. ASSUME NEW request \in Requests, Assemble(request) PROVE AllHedged'
    <3> DEFINE got == assemble(session, request, streamed, rng)
    <3>1. got.result = None => sealed' = sealed
      BY <2>3 DEF Assemble
    <3>2. got.result # None => sealed' = sealed \cup CiphertextsOf(got.result.header)
      BY <2>3 DEF Assemble
    <3>3. got.result # None => \A x \in CiphertextsOf(got.result.header) : Hedged(x)
      BY AssembledHedged
    <3> HIDE DEF got
    <3>4. QED BY <3>1, <3>2, <3>3, <2>1 DEF AllHedged
  <2>4. ASSUME ~(\E doc \in Documents : Stream(doc)),
               ~(\E request \in Requests : Assemble(request))
        PROVE  sealed' = sealed
    BY <2>4 DEF Next, vars, Plan, Sign, Abandon, TakeSnapshot, Restore
  <2>5. QED BY <2>1, <2>2, <2>3, <2>4
<1>3. AllHedged => NonceNeverReused
  BY DEF AllHedged, Hedged, NonceNeverReused, hedged_nonce
<1>4. QED BY <1>1, <1>2, <1>3, PTL DEF Spec

-------------------------------------------------------------------------------
(* Who opens a file.  The invariant says of everything the host holds, now   *)
(* or in a snapshot, and of every file, which session it came from.          *)

\* A session as plan made it: share B is the code's when there is a code.
SessionMade(s) ==
  \E q \in Requests :
    /\ s.plan = RecipientPlan(s.file_id, q.recipient)
    /\ q.recipient.mode = "Claim" =>
         s.secret_b = secret_b_from_claim(s.file_id, q.recipient.key).share

\* A document streamed under the payload key of session s.
StreamMade(st, s) ==
  /\ Decrypts(st.frame.ct, derive_payload_key(s.cek, s.header_salt, s.file_id, s.chunk_size),
              st.frame.nonce, <<"chunk", s.file_id, 0>>)
  /\ st.total_len = st.frame.ct.msg[2]
  /\ st.tree_root = <<"root", st.frame>>

SlotsOf(h) == {h.key_slots[i] : i \in DOMAIN h.key_slots}

KekOf(s, request) == derive_kek(s.file_id, request.org_id, s.secret_a, s.secret_b)

CommitmentOf(h, s, request) == slot_commitment(KekOf(s, request), core_hash(h))

\* The slots of a header, as they were sealed with draws from i, j and k on.
ServerSlot(h, s, request, i) ==
  seal_slot("Server", keys.authority_sealing, "slot-server", h, s.secret_a,
            CommitmentOf(h, s, request), i)

IdentitySlot(h, s, request, j) ==
  seal_slot("RecipientIdentity", request.recipient.key, "slot-recipient", h, s.secret_b,
            CommitmentOf(h, s, request), j)

CodeSlot(h, s, request) ==
  claim_slot(secret_b_from_claim(s.file_id, request.recipient.key).commitment,
             CommitmentOf(h, s, request))

AuthorSlot(h, s, request, k) ==
  seal_slot("AuthorDevice", AuthorSlotKey(request.recipient.mode), "slot-author-device", h,
            both_shares(s.secret_a, s.secret_b), CommitmentOf(h, s, request), k)

AddresseeSlots(h, s, request, j) ==
  CASE request.recipient.mode = "None" -> {}
    [] request.recipient.mode = "Claim" -> {CodeSlot(h, s, request)}
    [] OTHER -> {IdentitySlot(h, s, request, j)}

\* What a header says besides its slots.
HeaderMade(h, s, request, st) ==
  /\ HeaderReadable(h)
  /\ h.container_version = CONTAINER_VERSION
  /\ h.min_reader_version = SUPPORTED_READER_VERSION
  /\ h.file_id = s.file_id /\ h.header_salt = s.header_salt
  /\ h.chunk_size = s.chunk_size /\ h.org_id = request.org_id
  /\ h.author_key = keys.author
  /\ h.policy = encode_policy(CONTAINER_VERSION, request.policy)
  /\ \E n : h.private_meta = seal_private_meta(s, request, st.total_len, n)
  /\ \E seed : h.wrapped_cek = wrap_cek(KekOf(s, request), s.cek, core_hash(h), seed)
  /\ {"key_slots", "wrapped_cek"} \subseteq DOMAIN h

\* Its slots are the server's, the addressee's and the author's.
SlotsMade(h, s, request) ==
  /\ AuthorSlotKey(request.recipient.mode) # None
  /\ \E i, j, k :
       SlotsOf(h) = {ServerSlot(h, s, request, i), AuthorSlot(h, s, request, k)}
                    \cup AddresseeSlots(h, s, request, j)

\* The mutable region is the streamed document's.
RegionMade(desc, s, st) ==
  /\ desc.body.tree_root = st.tree_root
  /\ ContentVerifies(desc, derive_content_mac_key(s.cek, s.header_salt, s.file_id), s.file_id)

\* What assemble returns of session s and the streamed st.
Made(x, s, st) ==
  /\ x.request \in Requests
  /\ SessionMade(s) /\ StreamMade(st, s)
  /\ PlanMatches(s, x.request)
  /\ HeaderMade(x.header, s, x.request, st)
  /\ SlotsMade(x.header, s, x.request)
  /\ RegionMade(x.content_desc, s, st)

\* What the host holds at one moment.
InFlight(s, st, a) ==
  /\ s = None \/ a = None
  /\ s # None => SessionMade(s)
  /\ s # None /\ st # None => StreamMade(st, s)
  /\ a # None => \E origin : Made(a, origin, st)

FileMade(f) ==
  \E s, st :
    /\ Made(f, s, st)
    /\ f.payload = st.frame /\ f.doc = st.frame.ct.msg
    /\ f.signature = Signature(keys.author, f.header)

\* The inductive invariant.
PackInv ==
  /\ keys \in Machines
  /\ InFlight(session, streamed, assembled)
  /\ snapshot # None => InFlight(snapshot.session, snapshot.streamed, snapshot.assembled)
  /\ \A f \in files : FileMade(f)

LEMMA OneMore ==
  ASSUME NEW S, NEW v \in Seq(S), NEW t \in Seq(S), Len(t) = 1, NEW n \in Nat, Len(v) = n
  PROVE  /\ v \o t \in Seq(S) /\ Len(v \o t) = n + 1
         /\ \A i \in 1 .. n : (v \o t)[i] = v[i]
         /\ (v \o t)[n + 1] = t[1]
<1>1. v \o t \in Seq(S) /\ Len(v \o t) = Len(v) + Len(t)
  BY ConcatProperties
<1>2. \A i \in 1 .. Len(v) + Len(t) : (v \o t)[i] = IF i <= Len(v) THEN v[i] ELSE t[i - Len(v)]
  BY ConcatProperties
<1>3. QED BY <1>1, <1>2

\* The members of the list of slots that assemble writes.
LEMMA SlotList ==
  ASSUME NEW a, NEW b, NEW r, NEW q, NEW u, u = <<a>> \o r \o <<b>>,
         \/ r = << >> /\ q = {}
         \/ \E x : r = <<x>> /\ q = {x}
  PROVE  {u[i] : i \in DOMAIN u} = {a, b} \cup q
<1>1. CASE r = << >> /\ q = {}
  <2>1. PICK S, s, t : S = {a, b} /\ s = <<a>> /\ t = <<b>> /\ u = s \o r \o t
    OBVIOUS
  <2>2. /\ s \in Seq(S) /\ r \in Seq(S) /\ t \in Seq(S) /\ Len(s) = 1 /\ Len(r) = 0 /\ Len(t) = 1
        /\ s[1] = a /\ t[1] = b
    BY <1>1, <2>1
  <2>3. PICK v : v = s \o r
    OBVIOUS
  <2>4. v \in Seq(S) /\ Len(v) = 1 /\ v[1] = a
    BY <2>2, <2>3, ConcatProperties
  <2>5. u \in Seq(S) /\ Len(u) = 2 /\ u[1] = a /\ u[2] = b
    BY <2>1, <2>2, <2>3, <2>4, OneMore
  <2>6. DOMAIN u = {1, 2}
    BY <2>5, LenProperties
  <2>7. {u[i] : i \in DOMAIN u} = {a, b}
    BY <2>5, <2>6
  <2>8. QED BY <1>1, <2>7
<1>2. ASSUME NEW x, r = <<x>>, q = {x}
      PROVE  {u[i] : i \in DOMAIN u} = {a, b} \cup q
  <2>1. PICK S, s, t : S = {a, b, x} /\ s = <<a>> /\ t = <<b>> /\ u = s \o r \o t
    OBVIOUS
  <2>2. /\ s \in Seq(S) /\ r \in Seq(S) /\ t \in Seq(S) /\ Len(s) = 1 /\ Len(r) = 1 /\ Len(t) = 1
        /\ s[1] = a /\ r[1] = x /\ t[1] = b
    BY <1>2, <2>1
  <2>3. PICK v : v = s \o r
    OBVIOUS
  <2>4. v \in Seq(S) /\ Len(v) = 2 /\ v[1] = a /\ v[2] = x
    BY <2>2, <2>3, OneMore
  <2>5. u \in Seq(S) /\ Len(u) = 3 /\ u[1] = a /\ u[2] = x /\ u[3] = b
    BY <2>1, <2>2, <2>3, <2>4, OneMore
  <2>6. DOMAIN u = {1, 2, 3}
    BY <2>5, LenProperties
  <2>7. {u[i] : i \in DOMAIN u} = {a, b, x}
    BY <2>5, <2>6
  <2>8. QED BY <1>2, <2>7
<1>3. QED BY <1>1, <1>2

\* The plan that matches a request is for its addressee.
LEMMA PlanIs ==
  ASSUME NEW s, NEW request, PlanMatches(s, request)
  PROVE  /\ s.plan.mode = request.recipient.mode
         /\ s.plan.mode # "Claim" => s.plan.key = request.recipient.key
         /\ s.plan.mode = "Claim" =>
              s.plan.key = secret_b_from_claim(s.file_id, request.recipient.key).commitment
BY DEF PlanMatches, RecipientPlan

\* A slot is sealed to the file's identity and policy, which both passes of
\* assemble have alike.
LEMMA SlotOfEither ==
  ASSUME NEW kind, NEW public, NEW purpose, NEW g, NEW h, NEW text, NEW commitment, NEW n,
         g.file_id = h.file_id, g.policy = h.policy
  PROVE  seal_slot(kind, public, purpose, g, text, commitment, n) =
         seal_slot(kind, public, purpose, h, text, commitment, n)
BY DEF seal_slot, policy_hash

\* What assemble returns is made of its session and of the streamed document
\* (assemble, both passes and every early return).
LEMMA AssembleMade ==
  ASSUME NEW s, NEW request \in Requests, NEW st, NEW n,
         SessionMade(s), StreamMade(st, s),
         assemble(s, request, st, n).result # None
  PROVE  LET got == assemble(s, request, st, n).result
         IN  Made([header |-> got.header, request |-> request,
                   content_desc |-> got.content_desc], s, st)
<1> DEFINE
  meta == seal_private_meta(s, request, st.total_len, n)
  skeleton == Skeleton(s, request, st.tree_root, meta)
  core == core_hash(skeleton)
  kek == derive_kek(s.file_id, request.org_id, s.secret_a, s.secret_b)
  commitment == slot_commitment(kek, core)
  m == IF s.plan.mode \in KeyedModes THEN n + 6 ELSE n + 4
  wrapped == wrap_cek(kek, s.cek, core, Draw(n + 1))
  server == seal_slot("Server", keys.authority_sealing, "slot-server", skeleton,
                      s.secret_a, commitment, n + 2)
  recipient == RecipientSlots(s, skeleton, commitment, n + 4)
  author == seal_slot("AuthorDevice", AuthorSlotKey(s.plan.mode), "slot-author-device", skeleton,
                      both_shares(s.secret_a, s.secret_b), commitment, m)
  header == [skeleton EXCEPT !.wrapped_cek = wrapped,
                             !.key_slots = <<server>> \o recipient \o <<author>>]
  body == [total_len |-> st.total_len, chunk_count |-> st.chunk_count,
           tree_root |-> st.tree_root, version_counter |-> 0]
  mac_key == derive_content_mac_key(s.cek, s.header_salt, s.file_id)
  desc == ContentDesc(body, mac_key, s.file_id)
<1>1. /\ assemble(s, request, st, n).result = [header |-> header, content_desc |-> desc]
      /\ PlanMatches(s, request)
      /\ AuthorSlotKey(s.plan.mode) # None
      /\ HeaderReadable(header)
      /\ core_hash(header) = core
  BY DEF assemble, Refused
<1>2. /\ header.container_version = CONTAINER_VERSION
      /\ header.min_reader_version = SUPPORTED_READER_VERSION
      /\ header.file_id = s.file_id /\ header.header_salt = s.header_salt
      /\ header.chunk_size = request.chunk_size /\ header.org_id = request.org_id
      /\ header.author_key = keys.author
      /\ header.policy = encode_policy(CONTAINER_VERSION, request.policy)
      /\ header.private_meta = meta
      /\ header.wrapped_cek = wrapped
      /\ header.key_slots = <<server>> \o recipient \o <<author>>
      /\ skeleton.file_id = header.file_id /\ skeleton.policy = header.policy
  BY DEF Skeleton
<1>3. HeaderMade(header, s, request, st)
  <2>1. header.chunk_size = s.chunk_size
    BY <1>1, <1>2 DEF PlanMatches
  <2>2. header.wrapped_cek = wrap_cek(KekOf(s, request), s.cek, core_hash(header), Draw(n + 1))
    BY <1>1, <1>2 DEF KekOf
  <2>3. {"key_slots", "wrapped_cek"} \subseteq DOMAIN header
    BY DEF Skeleton
  <2> HIDE DEF header
  <2>4. QED BY <1>1, <1>2, <2>1, <2>2, <2>3 DEF HeaderMade
<1>4. SlotsMade(header, s, request)
  <2> DEFINE keyed == seal_slot("RecipientIdentity", s.plan.key, "slot-recipient", skeleton,
                                s.secret_b, commitment, n + 4)
             claim == claim_slot(s.plan.key, commitment)
             q == AddresseeSlots(header, s, request, n + 4)
  <2>1. commitment = CommitmentOf(header, s, request)
    BY <1>1 DEF CommitmentOf, KekOf
  <2>2. /\ s.plan.mode = request.recipient.mode
        /\ s.plan.mode # "Claim" => s.plan.key = request.recipient.key
        /\ s.plan.mode = "Claim" =>
             s.plan.key = secret_b_from_claim(s.file_id, request.recipient.key).commitment
    BY <1>1, PlanIs
  <2>3. skeleton.file_id = header.file_id /\ skeleton.policy = header.policy
    BY <1>2
  <2>4. recipient = CASE s.plan.mode = "None" -> << >>
                      [] s.plan.mode = "Claim" -> <<claim>>
                      [] OTHER -> <<keyed>>
    BY DEF RecipientSlots
  <2>5. header.key_slots = <<server>> \o recipient \o <<author>>
    BY <1>2
  <2>6. AuthorSlotKey(request.recipient.mode) # None
    BY <1>1, <2>2
  <2> HIDE DEF header, skeleton, commitment, m
  <2>7. server = ServerSlot(header, s, request, n + 2)
    BY <2>1, <2>3, SlotOfEither DEF ServerSlot
  <2>8. author = AuthorSlot(header, s, request, m)
    BY <2>1, <2>2, <2>3, SlotOfEither DEF AuthorSlot
  <2>9. s.plan.mode # "Claim" => keyed = IdentitySlot(header, s, request, n + 4)
    BY <2>1, <2>2, <2>3, SlotOfEither DEF IdentitySlot
  <2>10. s.plan.mode = "Claim" => claim = CodeSlot(header, s, request)
    BY <2>1, <2>2 DEF CodeSlot
  <2> HIDE DEF server, author, keyed, claim, recipient
  <2>11. \/ recipient = << >> /\ q = {}
         \/ \E x : recipient = <<x>> /\ q = {x}
    BY <2>2, <2>4, <2>9, <2>10 DEF AddresseeSlots
  <2> HIDE DEF q
  <2>12. PICK all : all = <<server>> \o recipient \o <<author>>
    OBVIOUS
  <2>13. {all[i] : i \in DOMAIN all} = {server, author} \cup q
    BY <2>11, <2>12, SlotList
  <2>14. SlotsOf(header) = {server, author} \cup q
    BY <2>5, <2>12, <2>13 DEF SlotsOf
  <2>15. QED BY <2>6, <2>7, <2>8, <2>14 DEF SlotsMade, q
<1>5. RegionMade(desc, s, st)
  BY DEF RegionMade, ContentVerifies, ContentDesc
<1> HIDE DEF header, desc
<1>6. QED BY <1>1, <1>3, <1>4, <1>5 DEF Made

LEMMA PackInit == Init => PackInv
BY DEF Init, PackInv, InFlight

\* Keys never change, so what was made stays made.
LEMMA MadeStays ==
  ASSUME keys' = keys, NEW x, NEW s, NEW st, Made(x, s, st)
  PROVE  Made(x, s, st)'
<1>1. HeaderMade(x.header, s, x.request, st)'
  BY DEF Made, HeaderMade
<1>2. SlotsMade(x.header, s, x.request)'
  BY DEF Made, SlotsMade, ServerSlot, AuthorSlot, AuthorSlotKey
<1>3. QED BY <1>1, <1>2 DEF Made, SessionMade, StreamMade, RegionMade

LEMMA InFlightStays ==
  ASSUME keys' = keys, NEW s, NEW st, NEW a, InFlight(s, st, a)
  PROVE  InFlight(s, st, a)'
<1>1. ASSUME NEW origin, Made(a, origin, st) PROVE Made(a, origin, st)'
  BY <1>1, MadeStays
<1>2. a # None => \E origin : Made(a, origin, st)'
  BY <1>1 DEF InFlight
<1>3. QED BY <1>2 DEF InFlight, SessionMade, StreamMade

LEMMA FileStays ==
  ASSUME keys' = keys, NEW f, FileMade(f)
  PROVE  FileMade(f)'
<1>1. PICK s, st : /\ Made(f, s, st)
                   /\ f.payload = st.frame /\ f.doc = st.frame.ct.msg
                   /\ f.signature = Signature(keys.author, f.header)
  BY DEF FileMade
<1>2. Made(f, s, st)'
  BY <1>1, MadeStays
<1>3. QED BY <1>1, <1>2 DEF FileMade

\* A new session (plan).
LEMMA NewSessionMade ==
  ASSUME NEW request \in Requests, NEW n
  PROVE  SessionMade(NewSession(request, n))
BY DEF SessionMade, NewSession

\* What the stream step puts together (Stream).
LEMMA StreamStep ==
  ASSUME NEW doc, Stream(doc)
  PROVE  StreamMade(streamed', session)
<1> DEFINE aad == <<"chunk", session.file_id, 0>>
           nonce == hedged_nonce("frame-nonce", Draw(rng), doc, aad)
           key == derive_payload_key(session.cek, session.header_salt, session.file_id,
                                     session.chunk_size)
           frame == [nonce |-> nonce, ct |-> Encrypt(key, nonce, aad, doc)]
<1>1. streamed' = [frame |-> frame, total_len |-> doc[2], chunk_count |-> 1,
                   tree_root |-> <<"root", frame>>]
  BY DEF Stream
<1>2. frame.ct.msg = doc /\ Decrypts(frame.ct, key, frame.nonce, aad)
  BY DEF Encrypt, Decrypts
<1> HIDE DEF frame, key, aad
<1>3. streamed'.frame = frame /\ streamed'.total_len = doc[2] /\ streamed'.tree_root = <<"root", frame>>
  BY <1>1
<1>4. QED BY <1>2, <1>3 DEF StreamMade, key, aad

\* Every step keeps the invariant.
LEMMA PackStep == PackInv /\ [Next]_vars => PackInv'
<1> SUFFICES ASSUME PackInv, [Next]_vars PROVE PackInv'
  OBVIOUS
<1>1. keys' = keys
  BY DEF Next, vars, Plan, Stream, Assemble, Sign, Abandon, TakeSnapshot, Restore
<1>2. keys' \in Machines
  BY <1>1 DEF PackInv
\* What the host and its snapshot hold, and the files, as fixed values.
<1>3. PICK s, st, a, saved :
        s = session /\ st = streamed /\ a = assembled /\ saved = snapshot
  OBVIOUS
<1>4. InFlight(s, st, a) /\ InFlight(s, st, a)'
  BY <1>1, <1>3, InFlightStays DEF PackInv
<1>5. saved # None => InFlight(saved.session, saved.streamed, saved.assembled)'
  BY <1>1, <1>3, InFlightStays DEF PackInv
<1>6. snapshot' = snapshot =>
        (snapshot # None => InFlight(snapshot.session, snapshot.streamed, snapshot.assembled))'
  BY <1>3, <1>5 DEF InFlight
<1>7. \A f \in files : FileMade(f)'
  BY <1>1, FileStays DEF PackInv
<1>8. files' = files => (\A f \in files : FileMade(f))'
  BY <1>7
<1>9. ASSUME NEW request \in Requests, Plan(request) PROVE PackInv'
  <2>1. session' = NewSession(request, rng) /\ streamed' = None /\ assembled' = None
    BY <1>9 DEF Plan
  <2>2. PICK n : n = rng
    OBVIOUS
  <2>3. SessionMade(session)'
    BY <2>1, <2>2, NewSessionMade DEF SessionMade
  <2>4. InFlight(session, streamed, assembled)'
    BY <2>1, <2>3 DEF InFlight
  <2>5. snapshot' = snapshot /\ files' = files
    BY <1>9 DEF Plan
  <2>6. QED BY <1>2, <1>6, <1>8, <2>4, <2>5 DEF PackInv
<1>10. ASSUME NEW doc \in Documents, Stream(doc) PROVE PackInv'
  <2>1. session' = s /\ s # None /\ assembled' = a
    BY <1>3, <1>10 DEF Stream
  <2>2. PICK new : new = streamed'
    OBVIOUS
  <2>3. StreamMade(new, s)
    BY <1>3, <1>10, <2>2, StreamStep
  <2>4. a = None /\ SessionMade(s)
    BY <1>4, <2>1 DEF InFlight
  <2>5. InFlight(session, streamed, assembled)'
    BY <2>1, <2>2, <2>3, <2>4 DEF InFlight, SessionMade, StreamMade
  <2>6. snapshot' = snapshot /\ files' = files
    BY <1>10 DEF Stream
  <2>7. QED BY <1>2, <1>6, <1>8, <2>5, <2>6 DEF PackInv
<1>11. ASSUME NEW request \in Requests, Assemble(request) PROVE PackInv'
  <2>1. PICK n, got : n = rng /\ got = assemble(s, request, st, n)
    OBVIOUS
  <2>2. s # None /\ st # None /\ session' = None /\ snapshot' = snapshot /\ files' = files
    BY <1>3, <1>11 DEF Assemble
  <2>3. SessionMade(s) /\ StreamMade(st, s) /\ a = None
    BY <1>4, <2>2 DEF InFlight
  <2>4. CASE got.result = None
    <3>1. assembled' = None
      BY <1>3, <1>11, <2>1, <2>3, <2>4 DEF Assemble
    <3>2. InFlight(session, streamed, assembled)'
      BY <2>2, <3>1 DEF InFlight
    <3>3. QED BY <1>2, <1>6, <1>8, <2>2, <3>2 DEF PackInv
  <2>5. CASE got.result # None
    <3>1. PICK made : made = [header |-> got.result.header, request |-> request,
                              content_desc |-> got.result.content_desc]
      OBVIOUS
    <3>2. assembled' = made /\ streamed' = st
      BY <1>3, <1>11, <2>1, <2>5, <3>1 DEF Assemble
    <3>3. Made(made, s, st)
      BY <2>1, <2>3, <2>5, <3>1, AssembleMade
    <3>4. Made(made, s, st)'
      BY <1>1, <3>3, MadeStays
    <3>5. InFlight(session, streamed, assembled)'
      BY <2>2, <3>2, <3>4 DEF InFlight
    <3>6. QED BY <1>2, <1>6, <1>8, <2>2, <3>5 DEF PackInv
  <2>6. QED BY <2>4, <2>5
<1>12. CASE Sign
  <2>1. /\ a # None /\ assembled' = None /\ session' = session /\ snapshot' = snapshot
    BY <1>3, <1>12 DEF Sign
  <2>2. PICK origin : Made(a, origin, st)'
    BY <1>4, <2>1 DEF InFlight
  <2>3. s = None
    BY <1>4, <2>1 DEF InFlight
  <2>4. PICK signed :
          signed = [header |-> a.header, content_desc |-> a.content_desc,
                    payload |-> st.frame, signature |-> Signature(keys.author, a.header),
                    request |-> a.request, doc |-> st.frame.ct.msg]
    OBVIOUS
  <2>5. files' = files \cup {signed}
    BY <1>3, <1>12, <2>4 DEF Sign
  <2>6. Made(signed, origin, st)'
    BY <2>2, <2>4 DEF Made
  <2>7. FileMade(signed)'
    BY <1>1, <2>4, <2>6 DEF FileMade
  <2>8. (\A f \in files : FileMade(f))'
    BY <1>7, <2>5, <2>7
  <2>9. InFlight(session, streamed, assembled)'
    BY <1>3, <2>1, <2>3 DEF InFlight
  <2>10. QED BY <1>2, <1>6, <2>1, <2>8, <2>9 DEF PackInv
<1>13. CASE Abandon
  <2>1. /\ session' = None /\ assembled' = None /\ snapshot' = snapshot /\ files' = files
    BY <1>13 DEF Abandon
  <2>2. InFlight(session, streamed, assembled)'
    BY <2>1 DEF InFlight
  <2>3. QED BY <1>2, <1>6, <1>8, <2>1, <2>2 DEF PackInv
<1>14. CASE TakeSnapshot
  <2>1. /\ session' = s /\ streamed' = st /\ assembled' = a /\ files' = files
        /\ snapshot'.session = s /\ snapshot'.streamed = st /\ snapshot'.assembled = a
    BY <1>3, <1>14 DEF TakeSnapshot
  <2>2. InFlight(session, streamed, assembled)'
    BY <1>4, <2>1 DEF InFlight
  <2>3. InFlight(snapshot.session, snapshot.streamed, snapshot.assembled)'
    BY <1>4, <2>1 DEF InFlight
  <2>4. QED BY <1>2, <1>8, <2>1, <2>2, <2>3 DEF PackInv
<1>15. CASE Restore
  <2>1. /\ saved # None /\ session' = saved.session /\ streamed' = saved.streamed
        /\ assembled' = saved.assembled /\ files' = files /\ snapshot' = snapshot
    BY <1>3, <1>15 DEF Restore
  <2>2. InFlight(session, streamed, assembled)'
    BY <1>5, <2>1 DEF InFlight
  <2>3. QED BY <1>2, <1>6, <1>8, <2>1, <2>2 DEF PackInv
<1>16. CASE UNCHANGED vars
  <2>1. /\ session' = s /\ streamed' = st /\ assembled' = a
        /\ files' = files /\ snapshot' = snapshot
    BY <1>3, <1>16 DEF vars
  <2>2. InFlight(session, streamed, assembled)'
    BY <1>4, <2>1 DEF InFlight
  <2>3. QED BY <1>2, <1>6, <1>8, <2>1, <2>2 DEF PackInv
<1>17. QED
  BY <1>9, <1>10, <1>11, <1>12, <1>13, <1>14, <1>15, <1>16 DEF Next

-------------------------------------------------------------------------------
(* What opens a file that was made so. *)

LEMMA AllKems == KemsOf(CONTAINER_VERSION) = KemAlg
BY DEF KemsOf, CONTAINER_VERSION, KemAlg

\* The author's key is one of the device, and no weaker than the addressee's.
LEMMA AuthorKey ==
  ASSUME keys \in Machines, NEW mode, AuthorSlotKey(mode) # None
  PROVE  /\ AuthorSlotKey(mode) \in DeviceKeys /\ AuthorSlotKey(mode).kem \in KemAlg
         /\ mode \in {"Hybrid", "HardwareHybrid"} => AuthorSlotKey(mode).kem = ModeKem[mode]
BY MachinesAssumption DEF AuthorSlotKey, DeviceKeys, KemAlg, ModeKem

LEMMA RecipientKey ==
  ASSUME NEW request \in Requests
  PROVE  /\ request.recipient.mode \in KeyedModes \cup {"None", "Claim"}
         /\ request.recipient.mode \in KeyedModes =>
              /\ request.recipient.key.kem = ModeKem[request.recipient.mode]
              /\ request.recipient.key.kem \in KemAlg
BY RequestsAssumption DEF KeyedModes, ModeKem, KemAlg

\* A key is of the mechanism of one mode only.
LEMMA OneMode ==
  ASSUME NEW m \in KeyedModes, NEW n \in KeyedModes, ModeKem[m] = ModeKem[n]
  PROVE  m = n
BY DEF KeyedModes, ModeKem

LEMMA SharesAre ==
  ASSUME NEW h, NEW kind, NEW purpose, NEW publics
  PROVE  SharesIn(h, kind, purpose, publics) =
           {slot \in SlotsOf(h) :
              /\ slot.kind = kind
              /\ SlotKnown(h.container_version, slot)
              /\ \E public \in publics :
                   /\ public.kem = slot.kem
                   /\ SealOpens(public, slot.blob, slot_info(purpose, slot.kem, h.file_id),
                                policy_hash(h))}
BY DEF SharesIn, SlotsOf

LEMMA ClaimSlotsAre ==
  ASSUME NEW h, NEW code
  PROVE  ClaimSlots(h, code) =
           {slot \in SlotsOf(h) :
              /\ slot.kind = "RecipientClaim"
              /\ slot.claim_commit = secret_b_from_claim(h.file_id, code).commitment}
BY DEF ClaimSlots, SlotsOf

\* A sealed slot opens for the key it was sealed to and for no other (seal_slot).
LEMMA SealedSlot ==
  ASSUME NEW kind, NEW public, NEW purpose, NEW h, NEW text, NEW commitment, NEW n,
         NEW slot, slot = seal_slot(kind, public, purpose, h, text, commitment, n)
  PROVE  /\ slot.kind = kind /\ slot.kem = public.kem /\ slot.commitment = commitment
         /\ slot.blob.ct.msg = text
         /\ SealOpens(public, slot.blob, slot_info(purpose, slot.kem, h.file_id), policy_hash(h))
         /\ \A other : SealOpens(other, slot.blob, slot_info(purpose, slot.kem, h.file_id),
                                 policy_hash(h)) => other = public
<1>1. /\ slot.kind = kind /\ slot.kem = public.kem /\ slot.commitment = commitment
      /\ slot.blob = seal(public, slot_info(purpose, public.kem, h.file_id), policy_hash(h), text, n)
  BY DEF seal_slot
<1>2. PICK info, aad : info = slot_info(purpose, public.kem, h.file_id) /\ aad = policy_hash(h)
  OBVIOUS
<1>3. PICK blob : blob = seal(public, info, aad, text, n)
  OBVIOUS
<1>4. /\ blob.ct.msg = text /\ blob.ct.aad = aad /\ blob.ct.nonce = blob.nonce
      /\ blob.ct.key = derive_key(blob.enc, public, info)
  BY <1>3 DEF seal, Encrypt
<1>5. SealOpens(public, blob, info, aad)
  BY <1>4 DEF SealOpens, Decrypts
<1>6. ASSUME NEW other, SealOpens(other, blob, info, aad) PROVE other = public
  <2>1. derive_key(blob.enc, other, info) = derive_key(blob.enc, public, info)
    BY <1>4, <1>6 DEF SealOpens, Decrypts
  <2>2. QED BY <2>1 DEF derive_key
<1>7. slot.blob = blob /\ info = slot_info(purpose, slot.kem, h.file_id)
  BY <1>1, <1>2, <1>3
<1>8. QED BY <1>1, <1>2, <1>4, <1>5, <1>6, <1>7

\* The three kinds of slots of a made header, told apart.
Apart(h, s, request, server, author, others) ==
  /\ SlotsOf(h) = {server, author} \cup others
  /\ \E i : server = ServerSlot(h, s, request, i)
  /\ \E k : author = AuthorSlot(h, s, request, k)
  /\ server.kind = "Server" /\ author.kind = "AuthorDevice"
  /\ \/ request.recipient.mode = "None" /\ others = {}
     \/ /\ request.recipient.mode = "Claim"
        /\ others = {CodeSlot(h, s, request)}
     \/ /\ request.recipient.mode \in KeyedModes
        /\ \E j : others = {IdentitySlot(h, s, request, j)}

LEMMA SlotsApart ==
  ASSUME NEW h, NEW s, NEW request \in Requests, SlotsMade(h, s, request)
  PROVE  \E server, author, others : Apart(h, s, request, server, author, others)
<1>1. PICK i, j, k :
        SlotsOf(h) = {ServerSlot(h, s, request, i), AuthorSlot(h, s, request, k)}
                     \cup AddresseeSlots(h, s, request, j)
  BY DEF SlotsMade
<1>2. PICK server, author : /\ server = ServerSlot(h, s, request, i)
                            /\ author = AuthorSlot(h, s, request, k)
  OBVIOUS
<1>3. server.kind = "Server" /\ author.kind = "AuthorDevice"
  BY <1>2, SealedSlot DEF ServerSlot, AuthorSlot
<1>4. PICK others : others = AddresseeSlots(h, s, request, j)
  OBVIOUS
<1>5. \/ request.recipient.mode = "None" /\ others = {}
      \/ /\ request.recipient.mode = "Claim"
         /\ others = {CodeSlot(h, s, request)}
      \/ /\ request.recipient.mode \in KeyedModes
         /\ others = {IdentitySlot(h, s, request, j)}
  BY <1>4, RecipientKey DEF AddresseeSlots, KeyedModes
<1>6. Apart(h, s, request, server, author, others)
  BY <1>1, <1>2, <1>3, <1>4, <1>5 DEF Apart
<1>7. QED BY <1>6

LEMMA CodeSlotIs ==
  ASSUME NEW h, NEW s, NEW request
  PROVE  /\ CodeSlot(h, s, request).kind = "RecipientClaim"
         /\ CodeSlot(h, s, request).commitment = CommitmentOf(h, s, request)
         /\ CodeSlot(h, s, request).claim_commit =
              secret_b_from_claim(s.file_id, request.recipient.key).commitment
BY DEF CodeSlot, claim_slot

LEMMA IdentitySlotIs ==
  ASSUME NEW h, NEW s, NEW request, NEW j
  PROVE  /\ IdentitySlot(h, s, request, j).kind = "RecipientIdentity"
         /\ IdentitySlot(h, s, request, j).kem = request.recipient.key.kem
         /\ IdentitySlot(h, s, request, j).commitment = CommitmentOf(h, s, request)
BY SealedSlot DEF IdentitySlot

\* The author's device opens the author's slot and no other.
LEMMA AuthorShares ==
  ASSUME keys \in Machines, NEW h, NEW s, NEW request \in Requests, SlotsMade(h, s, request),
         h.container_version = CONTAINER_VERSION
  PROVE  \E slot :
           /\ SharesIn(h, "AuthorDevice", "slot-author-device", DeviceKeys) = {slot}
           /\ slot.blob.ct.msg = both_shares(s.secret_a, s.secret_b)
           /\ slot.commitment = CommitmentOf(h, s, request)
<1>0. PICK server, author, others : Apart(h, s, request, server, author, others)
  BY SlotsApart
<1>1. /\ SlotsOf(h) = {server, author} \cup others
      /\ \E k : author = AuthorSlot(h, s, request, k)
      /\ server.kind = "Server"
      /\ \A x \in others : x.kind # "AuthorDevice"
  BY <1>0, CodeSlotIs, IdentitySlotIs DEF Apart
<1>2. PICK public : public = AuthorSlotKey(request.recipient.mode)
  OBVIOUS
<1>3. public \in DeviceKeys /\ public.kem \in KemAlg
  BY <1>2, AuthorKey DEF SlotsMade
<1>4. /\ author.kind = "AuthorDevice" /\ author.kem = public.kem
      /\ author.commitment = CommitmentOf(h, s, request)
      /\ author.blob.ct.msg = both_shares(s.secret_a, s.secret_b)
      /\ SealOpens(public, author.blob, slot_info("slot-author-device", author.kem, h.file_id),
                   policy_hash(h))
  BY <1>1, <1>2, SealedSlot DEF AuthorSlot
<1>5. SlotKnown(h.container_version, author)
  BY <1>3, <1>4, AllKems DEF SlotKnown, SlotKind
<1>6. SharesIn(h, "AuthorDevice", "slot-author-device", DeviceKeys) = {author}
  BY <1>1, <1>3, <1>4, <1>5, SharesAre
<1>7. QED BY <1>4, <1>6

\* The server opens its slot and no other.
LEMMA ServerShares ==
  ASSUME keys \in Machines, NEW h, NEW s, NEW request \in Requests, SlotsMade(h, s, request),
         h.container_version = CONTAINER_VERSION
  PROVE  \E slot :
           /\ SharesIn(h, "Server", "slot-server", ServerKeys) = {slot}
           /\ slot.blob.ct.msg = s.secret_a
<1>0. PICK server, author, others : Apart(h, s, request, server, author, others)
  BY SlotsApart
<1>1. /\ SlotsOf(h) = {server, author} \cup others
      /\ \E i : server = ServerSlot(h, s, request, i)
      /\ author.kind = "AuthorDevice"
      /\ \A x \in others : x.kind # "Server"
  BY <1>0, CodeSlotIs, IdentitySlotIs DEF Apart
<1>2. PICK public : public = keys.authority_sealing
  OBVIOUS
<1>3. public \in ServerKeys /\ public.kem \in KemAlg
  BY <1>2, MachinesAssumption DEF ServerKeys, KemAlg
<1>4. /\ server.kind = "Server" /\ server.kem = public.kem
      /\ server.blob.ct.msg = s.secret_a
      /\ SealOpens(public, server.blob, slot_info("slot-server", server.kem, h.file_id),
                   policy_hash(h))
  BY <1>1, <1>2, SealedSlot DEF ServerSlot
<1>5. SlotKnown(h.container_version, server)
  BY <1>3, <1>4, AllKems DEF SlotKnown, SlotKind
<1>6. SharesIn(h, "Server", "slot-server", ServerKeys) = {server}
  BY <1>1, <1>3, <1>4, <1>5, SharesAre
<1>7. QED BY <1>4, <1>6

\* A key opens the addressee's slot when it is the addressee's, and else none.
LEMMA IdentityShares ==
  ASSUME NEW h, NEW s, NEW request \in Requests, SlotsMade(h, s, request),
         h.container_version = CONTAINER_VERSION, NEW key
  PROVE  IF request.recipient.mode \in KeyedModes /\ key = request.recipient.key
         THEN \E slot : /\ SharesIn(h, "RecipientIdentity", "slot-recipient", {key}) = {slot}
                        /\ slot.blob.ct.msg = s.secret_b
                        /\ slot.commitment = CommitmentOf(h, s, request)
         ELSE SharesIn(h, "RecipientIdentity", "slot-recipient", {key}) = {}
<1>0. PICK server, author, others : Apart(h, s, request, server, author, others)
  BY SlotsApart
<1>1. /\ SlotsOf(h) = {server, author} \cup others
      /\ server.kind = "Server" /\ author.kind = "AuthorDevice"
      /\ \/ request.recipient.mode = "None" /\ others = {}
         \/ request.recipient.mode = "Claim" /\ others = {CodeSlot(h, s, request)}
         \/ /\ request.recipient.mode \in KeyedModes
            /\ \E j : others = {IdentitySlot(h, s, request, j)}
  BY <1>0 DEF Apart
<1>2. CASE request.recipient.mode \notin KeyedModes
  <2>1. \A x \in SlotsOf(h) : x.kind # "RecipientIdentity"
    BY <1>1, <1>2, CodeSlotIs
  <2>2. QED BY <1>2, <2>1, SharesAre
<1>3. CASE request.recipient.mode \in KeyedModes
  <2>1. PICK j, slot : slot = IdentitySlot(h, s, request, j) /\ others = {slot}
    BY <1>1, <1>3 DEF KeyedModes
  <2>2. PICK public : public = request.recipient.key
    OBVIOUS
  <2>3. /\ slot.kind = "RecipientIdentity" /\ slot.kem = public.kem
        /\ slot.commitment = CommitmentOf(h, s, request)
        /\ slot.blob.ct.msg = s.secret_b
        /\ SealOpens(public, slot.blob, slot_info("slot-recipient", slot.kem, h.file_id),
                     policy_hash(h))
        /\ \A other : SealOpens(other, slot.blob, slot_info("slot-recipient", slot.kem, h.file_id),
                                policy_hash(h)) => other = public
    BY <2>1, <2>2, SealedSlot DEF IdentitySlot
  <2>4. SlotKnown(h.container_version, slot)
    BY <1>3, <2>2, <2>3, RecipientKey, AllKems DEF SlotKnown, SlotKind
  <2>5. SlotsOf(h) = {server, author, slot}
    BY <1>1, <2>1
  <2>6. SharesIn(h, "RecipientIdentity", "slot-recipient", {key})
          = IF key = public THEN {slot} ELSE {}
    BY <1>1, <2>3, <2>4, <2>5, SharesAre
  <2>7. QED BY <1>3, <2>2, <2>3, <2>6
<1>4. QED BY <1>2, <1>3

\* A code finds the claim slot when it is the addressee's, and else none.
LEMMA CodeShares ==
  ASSUME NEW h, NEW s, NEW request \in Requests, SlotsMade(h, s, request),
         h.file_id = s.file_id, NEW code
  PROVE  IF request.recipient.mode = "Claim" /\ code = request.recipient.key
         THEN \E slot : /\ ClaimSlots(h, code) = {slot}
                        /\ slot.commitment = CommitmentOf(h, s, request)
         ELSE ClaimSlots(h, code) = {}
<1>0. PICK server, author, others : Apart(h, s, request, server, author, others)
  BY SlotsApart
<1>1. /\ SlotsOf(h) = {server, author} \cup others
      /\ server.kind = "Server" /\ author.kind = "AuthorDevice"
      /\ \/ request.recipient.mode = "None" /\ others = {}
         \/ request.recipient.mode = "Claim" /\ others = {CodeSlot(h, s, request)}
         \/ /\ request.recipient.mode \in KeyedModes
            /\ \E j : others = {IdentitySlot(h, s, request, j)}
  BY <1>0 DEF Apart
<1>2. CASE request.recipient.mode # "Claim"
  <2>1. \A x \in SlotsOf(h) : x.kind # "RecipientClaim"
    BY <1>1, <1>2, IdentitySlotIs
  <2>2. QED BY <1>2, <2>1, ClaimSlotsAre
<1>3. CASE request.recipient.mode = "Claim"
  <2>1. PICK slot : slot = CodeSlot(h, s, request) /\ others = {slot}
    BY <1>1, <1>3 DEF KeyedModes
  <2>2. /\ slot.kind = "RecipientClaim" /\ slot.commitment = CommitmentOf(h, s, request)
        /\ slot.claim_commit = secret_b_from_claim(h.file_id, request.recipient.key).commitment
    BY <2>1, CodeSlotIs
  <2>3. SlotsOf(h) = {server, author, slot}
    BY <1>1, <2>1
  <2>4. slot.claim_commit = secret_b_from_claim(h.file_id, code).commitment
          <=> code = request.recipient.key
    BY <2>2 DEF secret_b_from_claim
  <2>5. ClaimSlots(h, code) = IF code = request.recipient.key THEN {slot} ELSE {}
    BY <1>1, <2>2, <2>3, <2>4, ClaimSlotsAre
  <2>6. QED BY <1>3, <2>2, <2>5
<1>4. QED BY <1>2, <1>3

\* Both shares and a commitment give the content key of the session.
LEMMA CekIs ==
  ASSUME NEW h, NEW s, NEW request, NEW st, HeaderMade(h, s, request, st),
         NEW slot, slot.commitment = CommitmentOf(h, s, request)
  PROVE  CekFrom(h, s.secret_a, s.secret_b, slot) = {s.cek}
<1>1. PICK seed : h.wrapped_cek = wrap_cek(KekOf(s, request), s.cek, core_hash(h), seed)
  BY DEF HeaderMade
<1>2. derive_kek(h.file_id, h.org_id, s.secret_a, s.secret_b) = KekOf(s, request)
  BY DEF HeaderMade, KekOf
<1>3. /\ h.wrapped_cek.ct.msg = s.cek
      /\ Decrypts(h.wrapped_cek.ct, KekOf(s, request), h.wrapped_cek.nonce, core_hash(h))
  BY <1>1 DEF wrap_cek, Encrypt, Decrypts
<1>4. Unwraps(KekOf(s, request), h.wrapped_cek, slot.commitment, core_hash(h))
  BY <1>3 DEF Unwraps, CommitmentOf
<1>5. QED BY <1>2, <1>3, <1>4 DEF CekFrom

\* The share B of a session planned for a code is that code's.
LEMMA CodeIsTheSessions ==
  ASSUME NEW s, SessionMade(s), NEW request, PlanMatches(s, request),
         request.recipient.mode = "Claim"
  PROVE  s.secret_b = secret_b_from_claim(s.file_id, request.recipient.key).share
<1>1. PICK q \in Requests :
        /\ s.plan = RecipientPlan(s.file_id, q.recipient)
        /\ q.recipient.mode = "Claim" =>
             s.secret_b = secret_b_from_claim(s.file_id, q.recipient.key).share
  BY DEF SessionMade
<1>2. /\ s.plan.mode = "Claim"
      /\ s.plan.key = secret_b_from_claim(s.file_id, request.recipient.key).commitment
  BY PlanIs
<1>3. q.recipient.mode = "Claim"
  BY <1>1, <1>2 DEF RecipientPlan
<1>4. s.plan.key = secret_b_from_claim(s.file_id, q.recipient.key).commitment
  BY <1>1, <1>3 DEF RecipientPlan
<1>5. q.recipient.key = request.recipient.key
  BY <1>2, <1>4 DEF secret_b_from_claim
<1>6. QED BY <1>1, <1>3, <1>5

LEMMA MadeIs ==
  ASSUME NEW x, NEW s, NEW st, Made(x, s, st)
  PROVE  /\ x.request \in Requests /\ SlotsMade(x.header, s, x.request)
         /\ HeaderMade(x.header, s, x.request, st)
         /\ x.header.container_version = CONTAINER_VERSION
         /\ x.header.file_id = s.file_id
BY DEF Made, HeaderMade

\* The author's device alone gets the content key of the session.
LEMMA AuthorGets ==
  ASSUME keys \in Machines, NEW x, NEW s, NEW st, Made(x, s, st)
  PROVE  AuthorPath(x.header, DeviceKeys) = {s.cek}
<1>1. PICK h, request : h = x.header /\ request = x.request
  OBVIOUS
<1>2. /\ request \in Requests /\ SlotsMade(h, s, request) /\ HeaderMade(h, s, request, st)
      /\ h.container_version = CONTAINER_VERSION
  BY <1>1, MadeIs
<1>3. PICK slot :
        /\ SharesIn(h, "AuthorDevice", "slot-author-device", DeviceKeys) = {slot}
        /\ slot.blob.ct.msg = both_shares(s.secret_a, s.secret_b)
        /\ slot.commitment = CommitmentOf(h, s, request)
  BY <1>2, AuthorShares
<1>4. slot.blob.ct.msg[2] = s.secret_a /\ slot.blob.ct.msg[3] = s.secret_b
  BY <1>3 DEF both_shares
<1>5. CekFrom(h, slot.blob.ct.msg[2], slot.blob.ct.msg[3], slot) = {s.cek}
  BY <1>2, <1>3, <1>4, CekIs
<1>6. AuthorPath(h, DeviceKeys) = CekFrom(h, slot.blob.ct.msg[2], slot.blob.ct.msg[3], slot)
  BY <1>3 DEF AuthorPath
<1>7. QED BY <1>1, <1>5, <1>6

\* With the server's help a key gives the content key to the addressee and
\* nothing to anybody else.
LEMMA KeyGets ==
  ASSUME keys \in Machines, NEW x, NEW s, NEW st, Made(x, s, st), NEW key
  PROVE  RecipientPath(x.header, {key}, ServerKeys) =
           IF x.request.recipient.mode \in KeyedModes /\ key = x.request.recipient.key
           THEN {s.cek} ELSE {}
<1>1. PICK h, request : h = x.header /\ request = x.request
  OBVIOUS
<1>2. /\ request \in Requests /\ SlotsMade(h, s, request) /\ HeaderMade(h, s, request, st)
      /\ h.container_version = CONTAINER_VERSION
  BY <1>1, MadeIs
<1>3. PICK server : /\ SharesIn(h, "Server", "slot-server", ServerKeys) = {server}
                    /\ server.blob.ct.msg = s.secret_a
  BY <1>2, ServerShares
<1>4. CASE request.recipient.mode \in KeyedModes /\ key = request.recipient.key
  <2>1. PICK slot : /\ SharesIn(h, "RecipientIdentity", "slot-recipient", {key}) = {slot}
                    /\ slot.blob.ct.msg = s.secret_b
                    /\ slot.commitment = CommitmentOf(h, s, request)
    BY <1>2, <1>4, IdentityShares
  <2>2. CekFrom(h, server.blob.ct.msg, slot.blob.ct.msg, slot) = {s.cek}
    BY <1>2, <1>3, <2>1, CekIs
  <2>3. RecipientPath(h, {key}, ServerKeys)
          = CekFrom(h, server.blob.ct.msg, slot.blob.ct.msg, slot)
    BY <1>3, <2>1 DEF RecipientPath
  <2>4. QED BY <1>1, <1>4, <2>2, <2>3
<1>5. CASE ~(request.recipient.mode \in KeyedModes /\ key = request.recipient.key)
  <2>1. SharesIn(h, "RecipientIdentity", "slot-recipient", {key}) = {}
    BY <1>2, <1>5, IdentityShares
  <2>2. RecipientPath(h, {key}, ServerKeys) = {}
    BY <2>1 DEF RecipientPath
  <2>3. QED BY <1>1, <1>5, <2>2
<1>6. QED BY <1>4, <1>5

\* So does a code.
LEMMA CodeGets ==
  ASSUME keys \in Machines, NEW x, NEW s, NEW st, Made(x, s, st), NEW code
  PROVE  ClaimPath(x.header, code, ServerKeys) =
           IF x.request.recipient.mode = "Claim" /\ code = x.request.recipient.key
           THEN {s.cek} ELSE {}
<1>1. PICK h, request : h = x.header /\ request = x.request
  OBVIOUS
<1>2. /\ request \in Requests /\ SlotsMade(h, s, request) /\ HeaderMade(h, s, request, st)
      /\ h.container_version = CONTAINER_VERSION /\ h.file_id = s.file_id
  BY <1>1, MadeIs
<1>3. PICK server : /\ SharesIn(h, "Server", "slot-server", ServerKeys) = {server}
                    /\ server.blob.ct.msg = s.secret_a
  BY <1>2, ServerShares
<1>4. CASE request.recipient.mode = "Claim" /\ code = request.recipient.key
  <2>1. PICK slot : /\ ClaimSlots(h, code) = {slot}
                    /\ slot.commitment = CommitmentOf(h, s, request)
    BY <1>2, <1>4, CodeShares
  <2>2. PICK b : b = secret_b_from_claim(h.file_id, code).share
    OBVIOUS
  <2>3. s.secret_b = b
    BY <1>1, <1>2, <1>4, <2>2, CodeIsTheSessions DEF Made
  <2>4. CekFrom(h, server.blob.ct.msg, b, slot) = {s.cek}
    BY <1>2, <1>3, <2>1, <2>3, CekIs
  <2>5. ClaimPath(h, code, ServerKeys) = CekFrom(h, server.blob.ct.msg, b, slot)
    BY <1>3, <2>1, <2>2 DEF ClaimPath
  <2>6. QED BY <1>1, <1>4, <2>4, <2>5
<1>5. CASE ~(request.recipient.mode = "Claim" /\ code = request.recipient.key)
  <2>1. ClaimSlots(h, code) = {}
    BY <1>2, <1>5, CodeShares
  <2>2. ClaimPath(h, code, ServerKeys) = {}
    BY <2>1 DEF ClaimPath
  <2>3. QED BY <1>1, <1>5, <2>2
<1>6. QED BY <1>4, <1>5

\* The addressee gets the content key, and no other recipient does.
LEMMA AddresseeGets ==
  ASSUME keys \in Machines, NEW x, NEW s, NEW st, Made(x, s, st)
  PROVE  AddresseePath(x.header, x.request.recipient) =
           IF x.request.recipient.mode = "None" THEN {} ELSE {s.cek}
<1>1. PICK request \in Requests : request = x.request
  BY MadeIs
<1>2. request.recipient.mode \in KeyedModes \cup {"None", "Claim"}
  BY RecipientKey
<1>3. CASE request.recipient.mode = "None"
  BY <1>1, <1>3 DEF AddresseePath
<1>4. CASE request.recipient.mode = "Claim"
  BY <1>1, <1>4, CodeGets DEF AddresseePath
<1>5. CASE request.recipient.mode \in KeyedModes
  <2>1. request.recipient.mode # "None" /\ request.recipient.mode # "Claim"
    BY <1>5 DEF KeyedModes
  <2>2. RecipientPath(x.header, {request.recipient.key}, ServerKeys) = {s.cek}
    BY <1>1, <1>5, KeyGets
  <2>3. QED BY <1>1, <2>1, <2>2 DEF AddresseePath
<1>6. QED BY <1>2, <1>3, <1>4, <1>5

LEMMA OthersGetNothing ==
  ASSUME keys \in Machines, NEW x, NEW s, NEW st, Made(x, s, st),
         NEW r \in OthersThan(x.request.recipient)
  PROVE  AddresseePath(x.header, r) = {}
<1>1. PICK request \in Requests : request = x.request
  BY MadeIs
<1>2. PICK q \in Requests : q.recipient = r
  BY DEF OthersThan
<1>3. ~(r.mode = request.recipient.mode /\ r.key = request.recipient.key)
  BY <1>1 DEF OthersThan
<1>4. /\ r.mode \in KeyedModes \cup {"None", "Claim"}
      /\ r.mode \in KeyedModes => r.key.kem = ModeKem[r.mode]
  BY <1>2, RecipientKey
<1>5. CASE r.mode = "None"
  BY <1>5 DEF AddresseePath
<1>6. CASE r.mode = "Claim"
  <2>1. ClaimPath(x.header, r.key, ServerKeys) = {}
    BY <1>1, <1>3, <1>6, CodeGets
  <2>2. QED BY <1>6, <2>1 DEF AddresseePath
<1>7. CASE r.mode \in KeyedModes
  <2>1. r.mode # "None" /\ r.mode # "Claim"
    BY <1>7 DEF KeyedModes
  <2>2. ~(request.recipient.mode \in KeyedModes /\ r.key = request.recipient.key)
    BY <1>3, <1>4, <1>7, RecipientKey, OneMode
  <2>3. RecipientPath(x.header, {r.key}, ServerKeys) = {}
    BY <1>1, <2>2, KeyGets
  <2>4. QED BY <2>1, <2>3 DEF AddresseePath
<1>8. QED BY <1>4, <1>5, <1>6, <1>7

\* What the content key of its session shows of a file.
LEMMA SessionShowsAll ==
  ASSUME NEW f, NEW s, NEW st, Made(f, s, st), f.payload = st.frame, f.doc = st.frame.ct.msg
  PROVE  ShowsAll(f, s.cek)
<1>1. PICK h, request : h = f.header /\ request = f.request
  OBVIOUS
<1>2. /\ h.file_id = s.file_id /\ h.header_salt = s.header_salt /\ h.chunk_size = s.chunk_size
      /\ \E n : h.private_meta = seal_private_meta(s, request, st.total_len, n)
  BY <1>1 DEF Made, HeaderMade
<1>3. PICK n : h.private_meta = seal_private_meta(s, request, st.total_len, n)
  BY <1>2
<1>4. /\ Decrypts(h.private_meta.ct, derive_private_meta_key(s.cek, s.header_salt, s.file_id),
                  h.private_meta.nonce, <<"meta", s.file_id>>)
      /\ h.private_meta.ct.msg = <<"name-and-size", request.original_name, st.total_len>>
  BY <1>3 DEF seal_private_meta, Encrypt, Decrypts
<1>5. st.total_len = f.doc[2]
  BY DEF Made, StreamMade
<1>6. DocumentsUnder(f, s.cek) = {f.doc}
  <2>1. f.content_desc.body.tree_root = <<"root", f.payload>>
    BY DEF Made, RegionMade, StreamMade
  <2>2. ContentVerifies(f.content_desc,
                        derive_content_mac_key(s.cek, h.header_salt, h.file_id), h.file_id)
    BY <1>2 DEF Made, RegionMade
  <2>3. Decrypts(f.payload.ct,
                 derive_payload_key(s.cek, h.header_salt, h.file_id, h.chunk_size),
                 f.payload.nonce, <<"chunk", h.file_id, 0>>)
    BY <1>2 DEF Made, StreamMade
  <2>4. QED BY <1>1, <2>1, <2>2, <2>3 DEF DocumentsUnder
<1>7. QED BY <1>1, <1>2, <1>4, <1>5, <1>6 DEF ShowsAll

\* A reader that has pinned the author's key takes the file.
LEMMA ReaderTakes ==
  ASSUME NEW f, NEW s, NEW st, Made(f, s, st), f.signature = Signature(keys.author, f.header)
  PROVE  verify_and_parse(f, [org \in {f.header.org_id} |-> keys.author]) = "Pinned"
<1>1. PICK h : h = f.header
  OBVIOUS
<1>2. /\ HeaderReadable(h) /\ h.author_key = keys.author
      /\ h.min_reader_version = SUPPORTED_READER_VERSION
      /\ h.container_version = CONTAINER_VERSION
  BY <1>1 DEF Made, HeaderMade
<1>3. ~(h.min_reader_version > SUPPORTED_READER_VERSION)
  BY <1>2 DEF SUPPORTED_READER_VERSION
<1>4. h.container_version \in MIN_READABLE_CONTAINER_VERSION .. MAX_READABLE_CONTAINER_VERSION
  BY <1>2 DEF CONTAINER_VERSION, MIN_READABLE_CONTAINER_VERSION, MAX_READABLE_CONTAINER_VERSION
<1>5. lookup([org \in {h.org_id} |-> keys.author], h.org_id, h.author_key) = "Pinned"
  BY <1>2 DEF lookup
<1>6. QED BY <1>1, <1>2, <1>3, <1>4, <1>5 DEF verify_and_parse

\* All slots of a file commit to its core.
LEMMA SlotsCommit ==
  ASSUME NEW h, NEW s, NEW request \in Requests, SlotsMade(h, s, request), NEW slot \in SlotsOf(h)
  PROVE  slot.commitment = CommitmentOf(h, s, request)
<1>0. PICK server, author, others : Apart(h, s, request, server, author, others)
  BY SlotsApart
<1>1. server.commitment = CommitmentOf(h, s, request)
  BY <1>0, SealedSlot DEF Apart, ServerSlot
<1>2. author.commitment = CommitmentOf(h, s, request)
  BY <1>0, SealedSlot DEF Apart, AuthorSlot
<1>3. \A x \in others : x.commitment = CommitmentOf(h, s, request)
  BY <1>0, CodeSlotIs, IdentitySlotIs DEF Apart
<1>4. QED BY <1>0, <1>1, <1>2, <1>3 DEF Apart

\* The author's slot, and the addressee's, are of the addressee's strength.
LEMMA StrengthKept ==
  ASSUME keys \in Machines, NEW h, NEW s, NEW request \in Requests, SlotsMade(h, s, request),
         request.recipient.mode \in {"Hybrid", "HardwareHybrid"}
  PROVE  /\ \A i \in DOMAIN h.key_slots :
              CarriesShareB(h.key_slots[i]) =>
                of_kem(h.key_slots[i].kem) >= of_kem(request.recipient.key.kem)
         /\ file_strength(h) = of_kem(request.recipient.key.kem)
<1>0. PICK server, author, others : Apart(h, s, request, server, author, others)
  BY SlotsApart
<1>1. PICK kem : kem = ModeKem[request.recipient.mode]
  OBVIOUS
<1>2. request.recipient.key.kem = kem
  BY <1>1, RecipientKey DEF KeyedModes
<1>3. author.kind = "AuthorDevice" /\ author.kem = kem
  <2>1. AuthorSlotKey(request.recipient.mode).kem = kem
    BY <1>1, AuthorKey DEF SlotsMade
  <2>2. author.kem = AuthorSlotKey(request.recipient.mode).kem
    BY <1>0, SealedSlot DEF Apart, AuthorSlot
  <2>3. QED BY <1>0, <2>1, <2>2 DEF Apart
<1>4. \A x \in others : x.kind = "RecipientIdentity" /\ x.kem = kem
  BY <1>0, <1>2, IdentitySlotIs DEF Apart
<1>5. SlotsOf(h) = {server, author} \cup others /\ server.kind = "Server"
  BY <1>0 DEF Apart
<1>6. of_kem(kem) \in Nat
  BY DEF of_kem, PostQuantumHardware, PostQuantum, Classical
<1>7. \A i \in DOMAIN h.key_slots :
        CarriesShareB(h.key_slots[i]) => of_kem(h.key_slots[i].kem) >= of_kem(kem)
  <2>1. \A x \in SlotsOf(h) : CarriesShareB(x) => x.kem = kem
    BY <1>3, <1>4, <1>5 DEF CarriesShareB
  <2>2. QED BY <1>6, <2>1 DEF SlotsOf
<1>8. file_strength(h) = of_kem(kem)
  <2>1. PICK found :
          found = {of_kem(h.key_slots[i].kem) : i \in
                     {j \in DOMAIN h.key_slots : h.key_slots[j].kind = "AuthorDevice"}}
    OBVIOUS
  <2>2. found = {of_kem(x.kem) : x \in {y \in SlotsOf(h) : y.kind = "AuthorDevice"}}
    BY <2>1 DEF SlotsOf
  <2>3. {y \in SlotsOf(h) : y.kind = "AuthorDevice"} = {author}
    BY <1>3, <1>4, <1>5
  <2>4. found = {of_kem(kem)}
    BY <1>3, <2>2, <2>3
  <2>5. (CHOOSE t \in found : \A u \in found : u <= t) = of_kem(kem)
    BY <1>6, <2>4
  <2>6. QED BY <2>1, <2>4, <2>5 DEF file_strength
<1>9. QED BY <1>2, <1>7, <1>8

\* Where no commitment and wrapped key go together nobody gets anything.
LEMMA NothingOpens ==
  ASSUME NEW m, NEW recipient,
         \A slot \in SlotsOf(m) : \A kek :
           ~Unwraps(kek, m.wrapped_cek, slot.commitment, core_hash(m))
  PROVE  AnyPath(m, recipient) = {}
<1>1. \A slot \in SlotsOf(m) : \A a, b : CekFrom(m, a, b, slot) = {}
  BY DEF CekFrom
<1>2. \A kind, purpose, publics : SharesIn(m, kind, purpose, publics) \subseteq SlotsOf(m)
  BY SharesAre
<1>3. \A code : ClaimSlots(m, code) \subseteq SlotsOf(m)
  BY ClaimSlotsAre
<1>4. AuthorPath(m, DeviceKeys) = {}
  BY <1>1, <1>2 DEF AuthorPath
<1>5. \A publics : RecipientPath(m, publics, ServerKeys) = {}
  BY <1>1, <1>2 DEF RecipientPath
<1>6. \A code : ClaimPath(m, code, ServerKeys) = {}
  BY <1>1, <1>3 DEF ClaimPath
<1>7. AddresseePath(m, recipient) = {}
  BY <1>5, <1>6 DEF AddresseePath
<1>8. QED BY <1>4, <1>7 DEF AnyPath

\* Key material of one file under another core opens nothing.
LEMMA MovedOpensNothing ==
  ASSUME NEW f, NEW s, NEW st, Made(f, s, st), NEW g, NEW t, NEW gt, Made(g, t, gt),
         core_hash(f.header) # core_hash(g.header), NEW recipient,
         NEW m, m \in {[f.header EXCEPT !.key_slots = g.header.key_slots],
                       [f.header EXCEPT !.wrapped_cek = g.header.wrapped_cek],
                       [f.header EXCEPT !.key_slots = g.header.key_slots,
                                        !.wrapped_cek = g.header.wrapped_cek]}
  PROVE  AnyPath(m, recipient) = {}
<1>1. PICK h, k : h = f.header /\ k = g.header
  OBVIOUS
<1>2. {"key_slots", "wrapped_cek"} \subseteq DOMAIN h
  BY <1>1 DEF Made, HeaderMade
<1>3. core_hash(m) = core_hash(h)
  <2>1. CASE m = [f.header EXCEPT !.key_slots = g.header.key_slots]
    BY <1>1, <2>1 DEF core_hash
  <2>2. CASE m = [f.header EXCEPT !.wrapped_cek = g.header.wrapped_cek]
    BY <1>1, <2>2 DEF core_hash
  <2>3. CASE m = [f.header EXCEPT !.key_slots = g.header.key_slots,
                                  !.wrapped_cek = g.header.wrapped_cek]
    BY <1>1, <2>3 DEF core_hash
  <2>4. QED BY <2>1, <2>2, <2>3
<1>4. m.key_slots = k.key_slots \/ m.wrapped_cek = k.wrapped_cek
  BY <1>1, <1>2
<1>5. CASE m.key_slots = k.key_slots
  <2>1. SlotsOf(m) = SlotsOf(k)
    BY <1>5 DEF SlotsOf
  <2>2. \A slot \in SlotsOf(m) : slot.commitment = slot_commitment(KekOf(t, g.request), core_hash(k))
    BY <1>1, <2>1, SlotsCommit, MadeIs DEF CommitmentOf
  <2>3. \A kek : slot_commitment(KekOf(t, g.request), core_hash(k)) # slot_commitment(kek, core_hash(m))
    BY <1>1, <1>3 DEF slot_commitment
  <2>4. QED BY <2>2, <2>3, NothingOpens DEF Unwraps
<1>6. CASE m.wrapped_cek = k.wrapped_cek
  <2>1. PICK seed : k.wrapped_cek = wrap_cek(KekOf(t, g.request), t.cek, core_hash(k), seed)
    BY <1>1 DEF Made, HeaderMade
  <2>2. m.wrapped_cek.ct.aad = core_hash(k)
    BY <1>6, <2>1 DEF wrap_cek, Encrypt
  <2>3. m.wrapped_cek.ct.aad # core_hash(m)
    BY <1>1, <1>3, <2>2
  <2>4. QED BY <2>3, NothingOpens DEF Unwraps, Decrypts
<1>7. QED BY <1>4, <1>5, <1>6

\* What was made as the invariant says opens for its parties and nobody else.
LEMMA OpensFromInv == PackInv => OpensForItsParties
<1> SUFFICES ASSUME PackInv PROVE OpensForItsParties
  OBVIOUS
<1>0. keys \in Machines
  BY DEF PackInv
<1>1. ASSUME NEW f \in files
      PROVE  \E s, st : /\ Made(f, s, st)
                        /\ f.payload = st.frame /\ f.doc = st.frame.ct.msg
                        /\ f.signature = Signature(keys.author, f.header)
  BY DEF PackInv, FileMade
<1>2. EveryPartyOpens
  <2>1. ASSUME NEW f \in files
        PROVE  /\ verify_and_parse(f, [org \in {f.header.org_id} |-> keys.author]) = "Pinned"
               /\ \E cek : /\ AuthorPath(f.header, DeviceKeys) = {cek}
                           /\ ShowsAll(f, cek)
                           /\ AddresseePath(f.header, f.request.recipient) =
                                IF f.request.recipient.mode = "None" THEN {} ELSE {cek}
    <3>1. PICK s, st : /\ Made(f, s, st)
                       /\ f.payload = st.frame /\ f.doc = st.frame.ct.msg
                       /\ f.signature = Signature(keys.author, f.header)
      BY <1>1
    <3>2. PICK cek : cek = s.cek
      OBVIOUS
    <3>3. AuthorPath(f.header, DeviceKeys) = {cek}
      BY <1>0, <3>1, <3>2, AuthorGets
    <3>4. ShowsAll(f, cek)
      BY <3>1, <3>2, SessionShowsAll
    <3>5. AddresseePath(f.header, f.request.recipient) =
            IF f.request.recipient.mode = "None" THEN {} ELSE {cek}
      BY <1>0, <3>1, <3>2, AddresseeGets
    <3>6. verify_and_parse(f, [org \in {f.header.org_id} |-> keys.author]) = "Pinned"
      BY <3>1, ReaderTakes
    <3>7. QED BY <3>3, <3>4, <3>5, <3>6
  <2>2. QED BY <2>1 DEF EveryPartyOpens
<1>3. OnlyTheAddressed
  <2>1. ASSUME NEW f \in files, NEW r \in OthersThan(f.request.recipient)
        PROVE  AddresseePath(f.header, r) = {}
    BY <1>0, <1>1, OthersGetNothing
  <2>2. QED BY <2>1 DEF OnlyTheAddressed
<1>4. RecipientStrengthKept
  <2>1. ASSUME NEW f \in files, f.request.recipient.mode \in {"Hybrid", "HardwareHybrid"}
        PROVE  LET h == f.header
                   wanted == of_kem(f.request.recipient.key.kem)
               IN  /\ \A i \in DOMAIN h.key_slots :
                        CarriesShareB(h.key_slots[i]) => of_kem(h.key_slots[i].kem) >= wanted
                   /\ file_strength(h) = wanted
    <3>1. PICK s, st : Made(f, s, st)
      BY <1>1
    <3>2. PICK h, request : h = f.header /\ request = f.request
      OBVIOUS
    <3>3. request \in Requests /\ SlotsMade(h, s, request)
      BY <3>1, <3>2, MadeIs
    <3>4. /\ \A i \in DOMAIN h.key_slots :
               CarriesShareB(h.key_slots[i]) =>
                 of_kem(h.key_slots[i].kem) >= of_kem(request.recipient.key.kem)
          /\ file_strength(h) = of_kem(request.recipient.key.kem)
      BY <1>0, <2>1, <3>2, <3>3, StrengthKept
    <3>5. QED BY <3>2, <3>4
  <2>2. QED BY <2>1 DEF RecipientStrengthKept
<1>5. KeyMaterialStaysWithItsCore
  <2>1. ASSUME NEW f \in files, NEW g \in files, Core(f.header) # Core(g.header), NEW recipient,
               NEW m \in {[f.header EXCEPT !.key_slots = g.header.key_slots],
                          [f.header EXCEPT !.wrapped_cek = g.header.wrapped_cek],
                          [f.header EXCEPT !.key_slots = g.header.key_slots,
                                           !.wrapped_cek = g.header.wrapped_cek]}
        PROVE  AnyPath(m, recipient) = {}
    <3>1. core_hash(f.header) # core_hash(g.header)
      <4>1. core_hash(f.header) = <<"core-hash", Core(f.header)>>
            /\ core_hash(g.header) = <<"core-hash", Core(g.header)>>
        BY DEF core_hash, Core
      <4>2. QED BY <2>1, <4>1
    <3>2. PICK s, st : Made(f, s, st)
      BY <1>1
    <3>3. PICK t, gt : Made(g, t, gt)
      BY <1>1
    <3>4. QED BY <3>1, <3>2, <3>3, MovedOpensNothing
  <2>2. QED BY <2>1 DEF KeyMaterialStaysWithItsCore
<1>6. QED BY <1>2, <1>3, <1>4, <1>5 DEF OpensForItsParties

\* A signed file opens for the author and for the recipient its request names,
\* at the recipient's strength, and for nobody else, whatever requests, devices
\* and documents there are, however the host mixes requests up between plan and
\* assemble and however often the machine is set back (plan, assemble,
\* seal_slots, verify_and_parse).
THEOREM FilesOpenForTheirParties == Spec => []OpensForItsParties
<1>1. QED BY PackInit, PackStep, OpensFromInv, PTL DEF Spec

-------------------------------------------------------------------------------
(* The policy in a header.  First, fields in the order of their tags.        *)

\* How many of the tags D are below t.
Rank(D, t) == Cardinality({u \in D : u < t})

LEMMA RankAscends ==
  ASSUME NEW D \in SUBSET Nat, IsFiniteSet(D), NEW t \in D, NEW u \in D, t < u
  PROVE  Rank(D, t) < Rank(D, u)
<1> DEFINE low == {v \in D : v < t}
           high == {v \in D : v < u}
<1>1. IsFiniteSet(low) /\ IsFiniteSet(high)
  BY FS_Subset
<1>2. Cardinality(low) \in Nat /\ Cardinality(high) \in Nat
  BY <1>1, FS_CardinalityType
<1>3. low \cup {t} \in SUBSET high /\ t \notin low
  <2>1. t \in Nat /\ u \in Nat
    OBVIOUS
  <2>2. \A v \in D : v < t => v < u
    BY <2>1
  <2>3. low \subseteq high /\ t \in high /\ t \notin low
    <3>1. low \subseteq high
      BY <2>2
    <3>2. t \in high
      OBVIOUS
    <3>3. t \notin low
      BY <2>1
    <3>4. QED BY <3>1, <3>2, <3>3
  <2> HIDE DEF low, high
  <2>4. QED BY <2>3
<1>4. Cardinality(low \cup {t}) = Cardinality(low) + 1
  BY <1>1, <1>3, FS_AddElement
<1>5. Cardinality(low \cup {t}) <= Cardinality(high)
  BY <1>1, <1>3, FS_Subset
<1>6. QED BY <1>2, <1>4, <1>5 DEF Rank

LEMMA RankTells ==
  ASSUME NEW D \in SUBSET Nat, IsFiniteSet(D), NEW t \in D, NEW u \in D,
         Rank(D, t) \in Int, Rank(D, u) \in Int
  PROVE  /\ Rank(D, t) = Rank(D, u) => t = u
         /\ Rank(D, t) < Rank(D, u) => t < u
<1>1. t \in Nat /\ u \in Nat
  OBVIOUS
<1>2. CASE t < u
  BY <1>1, <1>2, RankAscends
<1>3. CASE u < t
  BY <1>1, <1>3, RankAscends
<1>4. CASE t = u
  BY <1>4
<1>5. QED BY <1>1, <1>2, <1>3, <1>4

\* Ranks are the numbers below the size of D, each that of one tag.
LEMMA RanksAreAll ==
  ASSUME NEW D \in SUBSET Nat, IsFiniteSet(D)
  PROVE  /\ Cardinality(D) \in Nat
         /\ \A t \in D : Rank(D, t) \in 0 .. Cardinality(D) - 1
         /\ \A k \in 0 .. Cardinality(D) - 1 : \E t \in D : Rank(D, t) = k
<1>1. PICK n : n = Cardinality(D)
  OBVIOUS
<1>2. n \in Nat
  BY <1>1, FS_CardinalityType
<1>3. ASSUME NEW t \in D PROVE Rank(D, t) \in 0 .. n - 1
  <2> DEFINE low == {v \in D : v < t}
  <2>1. low \in SUBSET (D \ {t})
    OBVIOUS
  <2>2. IsFiniteSet(D \ {t}) /\ Cardinality(D \ {t}) = n - 1
    BY <1>1, FS_RemoveElement
  <2>3. IsFiniteSet(low) /\ Cardinality(low) <= n - 1
    BY <2>1, <2>2, FS_Subset
  <2>4. Cardinality(low) \in Nat
    BY <2>3, FS_CardinalityType
  <2>5. QED BY <1>2, <2>3, <2>4 DEF Rank
<1>4. PICK f : f = [t \in D |-> Rank(D, t)]
  OBVIOUS
<1>5. f \in Injection(D, 0 .. n - 1)
  <2>1. f \in [D -> 0 .. n - 1]
    BY <1>3, <1>4
  <2>2. ASSUME NEW t \in D, NEW u \in D, f[t] = f[u] PROVE t = u
    <3>1. Rank(D, t) = Rank(D, u)
      BY <1>4, <2>2
    <3>2. Rank(D, t) \in Int /\ Rank(D, u) \in Int
      BY <1>2, <1>3
    <3>3. QED BY <3>1, <3>2, RankTells
  <2>3. QED BY <2>1, <2>2 DEF Injection, IsInjective
<1>6. IsFiniteSet(0 .. n - 1) /\ Cardinality(0 .. n - 1) = n
  BY <1>2, FS_Interval
<1>7. f \in Surjection(D, 0 .. n - 1)
  BY <1>1, <1>5, <1>6, FS_Injection
<1>8. \A k \in 0 .. n - 1 : \E t \in D : Rank(D, t) = k
  BY <1>4, <1>7 DEF Surjection
<1>9. QED BY <1>1, <1>2, <1>3, <1>8

\* A map from tags written in tag order holds each of its entries, once.
LEMMA InOrder ==
  ASSUME NEW D \in SUBSET Nat, IsFiniteSet(D), NEW f, DOMAIN f = D, NEW q, q = InTagOrder(f)
  PROVE  /\ TagsOf(q) = D /\ Ascending(q)
         /\ \A i \in DOMAIN q : q[i].value = f[q[i].tag]
         /\ \A t \in D : ValueOf(q, t) = f[t]
<1>1. PICK n : n = Cardinality(D)
  OBVIOUS
<1>2. /\ n \in Nat
      /\ \A t \in D : Rank(D, t) \in 0 .. n - 1
      /\ \A k \in 0 .. n - 1 : \E t \in D : Rank(D, t) = k
  BY <1>1, RanksAreAll
<1>3. PICK tag : tag = [i \in 1 .. n |-> CHOOSE t \in D : Rank(D, t) = i - 1]
  OBVIOUS
<1>4. \A i \in 1 .. n : tag[i] \in D /\ Rank(D, tag[i]) = i - 1
  <2>1. ASSUME NEW i \in 1 .. n PROVE \E t \in D : Rank(D, t) = i - 1
    <3>1. i - 1 \in 0 .. n - 1
      BY <1>2
    <3>2. QED BY <1>2, <3>1
  <2>2. QED BY <1>3, <2>1
<1>5. DOMAIN q = 1 .. n /\ \A i \in 1 .. n : q[i].tag = tag[i] /\ q[i].value = f[tag[i]]
  <2> DEFINE Tag(i) == CHOOSE t \in D : Rank(D, t) = i - 1
  <2>1. q = [i \in 1 .. n |-> Field(Tag(i), f[Tag(i)])]
    BY <1>1 DEF InTagOrder, Rank
  <2>2. \A i \in 1 .. n : tag[i] = Tag(i)
    BY <1>3
  <2> HIDE DEF Tag
  <2>3. QED BY <2>1, <2>2 DEF Field
<1>6. ASSUME NEW t \in D PROVE \E i \in 1 .. n : tag[i] = t
  <2>1. PICK k \in 0 .. n - 1 : k = Rank(D, t)
    BY <1>2
  <2>2. PICK i \in 1 .. n : i = k + 1
    BY <1>2
  <2>3. tag[i] \in D /\ Rank(D, tag[i]) = Rank(D, t) /\ Rank(D, t) \in Int
    BY <1>2, <1>4, <2>1, <2>2
  <2>4. tag[i] = t
    BY <2>3, RankTells
  <2>5. QED BY <2>4
<1>7. TagsOf(q) = D
  <2>1. \A i \in DOMAIN q : q[i].tag \in D
    BY <1>4, <1>5
  <2>2. \A t \in D : \E i \in DOMAIN q : q[i].tag = t
    BY <1>5, <1>6
  <2>3. QED BY <2>1, <2>2 DEF TagsOf
<1>8. Ascending(q)
  <2>1. ASSUME NEW i \in 1 .. n, NEW j \in 1 .. n, i < j PROVE tag[i] < tag[j]
    <3>1. tag[i] \in D /\ tag[j] \in D /\ Rank(D, tag[i]) = i - 1 /\ Rank(D, tag[j]) = j - 1
      BY <1>4
    <3>2. /\ Rank(D, tag[i]) \in Int /\ Rank(D, tag[j]) \in Int
          /\ Rank(D, tag[i]) < Rank(D, tag[j])
      BY <1>2, <2>1, <3>1
    <3>3. QED BY <3>1, <3>2, RankTells
  <2>2. QED BY <1>5, <2>1 DEF Ascending
<1>9. \A i \in DOMAIN q : q[i].value = f[q[i].tag]
  BY <1>5
<1>10. ASSUME NEW t \in D PROVE ValueOf(q, t) = f[t]
  <2>1. \E i \in DOMAIN q : q[i].tag = t
    BY <1>5, <1>6
  <2>2. PICK i : i = CHOOSE j \in DOMAIN q : q[j].tag = t
    OBVIOUS
  <2>3. i \in DOMAIN q /\ q[i].tag = t
    BY <2>1, <2>2
  <2>4. QED BY <1>9, <2>2, <2>3 DEF ValueOf
<1>11. QED BY <1>7, <1>8, <1>9, <1>10

\* Tags of the known actions: one each, 1 to 6.
LEMMA ActionTags ==
  /\ KnownTags \in SUBSET Nat /\ IsFiniteSet(KnownTags)
  /\ \A a \in Action : ActionTag[a] \in KnownTags
  /\ \A a, b \in Action : ActionTag[a] = ActionTag[b] => a = b
<1>1. \A a \in Action : ActionTag[a] \in 1 .. 6
  BY DEF ActionTag, Action
<1>2. \A a, b \in Action : ActionTag[a] = ActionTag[b] => a = b
  BY DEF ActionTag, Action
<1>3. KnownTags \in SUBSET (1 .. 6)
  BY <1>1 DEF KnownTags
<1>4. IsFiniteSet(KnownTags)
  <2>1. IsFiniteSet(1 .. 6)
    <3>1. 1 \in Int /\ 6 \in Int
      OBVIOUS
    <3>2. QED BY <3>1, FS_Interval, Zenon
  <2>2. QED BY <1>3, <2>1, FS_Subset
<1>5. \A a \in Action : ActionTag[a] \in KnownTags
  BY DEF KnownTags
<1>6. QED BY <1>2, <1>3, <1>4, <1>5

\* The action of a tag is the one it was written for.
LEMMA TagsAction ==
  ASSUME NEW a \in Action
  PROVE  (CHOOSE b \in Action : ActionTag[b] = ActionTag[a]) = a
BY ActionTags

\* Rules come back: the allowed actions, and the tags of the unknown ones.
LEMMA RulesReadBack ==
  ASSUME NEW p \in Policies, IsFiniteSet(p.unknown_actions), p.unknown_actions \cap KnownTags = {},
         NEW rules, rules = InTagOrder(RulesByTag(p))
  PROVE  /\ AllowedBy(rules) = p.actions
         /\ TagsOf(rules) \ KnownTags = p.unknown_actions
<1>1. PICK D, f : D = KnownTags \cup p.unknown_actions /\ f = RulesByTag(p)
  OBVIOUS
<1>2. p.actions \in SUBSET Action /\ p.unknown_actions \in SUBSET Nat
  BY DEF Policies
<1>3. D \in SUBSET Nat /\ IsFiniteSet(D) /\ DOMAIN f = D
  BY <1>1, <1>2, ActionTags, FS_Union DEF RulesByTag
<1>4. /\ TagsOf(rules) = D
      /\ \A i \in DOMAIN rules : rules[i].value = f[rules[i].tag]
  BY <1>1, <1>3, InOrder
<1>5. ASSUME NEW a \in Action
      PROVE  f[ActionTag[a]] = RULE_ALLOW <=> a \in p.actions
  <2>1. ActionTag[a] \in KnownTags /\ ActionTag[a] \in D
    BY <1>1, ActionTags
  <2>2. f[ActionTag[a]] = RuleOf(p, a)
    BY <1>1, <2>1, TagsAction DEF RulesByTag
  <2>3. QED BY <2>2 DEF RuleOf, RULE_ALLOW, RULE_DENY
<1>6. ASSUME NEW a \in Action
      PROVE  (\E i \in DOMAIN rules : rules[i].tag = ActionTag[a] /\ rules[i].value = RULE_ALLOW)
               <=> a \in p.actions
  <2>1. PICK i \in DOMAIN rules : rules[i].tag = ActionTag[a]
    BY <1>1, <1>4, ActionTags DEF TagsOf
  <2>2. QED BY <1>4, <1>5, <2>1
<1>7. AllowedBy(rules) = p.actions
  BY <1>2, <1>6 DEF AllowedBy
<1>8. QED BY <1>1, <1>4, <1>7

LEMMA BindingsAreBytes ==
  ASSUME NEW b \in Binding
  PROVE  decode_binding(encode_binding(b)) = b
BY DEF decode_binding, encode_binding, Binding, Software, Hardware, HardwareAttested

\* So do the bindings of the actions.
LEMMA BindingsReadBack ==
  ASSUME NEW p \in Policies, NEW entries, entries = InTagOrder(BindingsByTag(p))
  PROVE  BindingBy(entries) = p.action_binding
<1>1. PICK f : f = BindingsByTag(p)
  OBVIOUS
<1>2. DOMAIN f = KnownTags
  BY <1>1 DEF BindingsByTag
<1>3. TagsOf(entries) = KnownTags /\ \A t \in KnownTags : ValueOf(entries, t) = f[t]
  BY <1>1, <1>2, ActionTags, InOrder
<1>4. p.action_binding \in [Action -> Binding]
  BY DEF Policies
<1>5. ASSUME NEW a \in Action
      PROVE  ActionTag[a] \in TagsOf(entries)
             /\ decode_binding(ValueOf(entries, ActionTag[a])) = p.action_binding[a]
  <2>1. ActionTag[a] \in KnownTags
    BY ActionTags
  <2>2. f[ActionTag[a]] = encode_binding(p.action_binding[a])
    BY <1>1, <2>1, TagsAction DEF BindingsByTag
  <2>3. QED BY <1>3, <1>4, <2>1, <2>2, BindingsAreBytes
<1>6. QED BY <1>4, <1>5 DEF BindingBy

LEMMA ValidityReadsBack ==
  ASSUME NEW v \in Validity
  PROVE  decode_validity(encode_validity(v)) = v
<1>1. CASE v = Always
  BY <1>1 DEF decode_validity, encode_validity, Always
<1>2. ASSUME NEW from \in I64, NEW to \in I64, v = Window(from, to)
      PROVE  decode_validity(encode_validity(v)) = v
  BY <1>2 DEF decode_validity, encode_validity, Window
<1>3. ASSUME NEW seconds \in I64, v = FromFirstOpen(seconds)
      PROVE  decode_validity(encode_validity(v)) = v
  BY <1>3 DEF decode_validity, encode_validity, FromFirstOpen
<1>4. QED BY <1>1, <1>2, <1>3 DEF Validity

LEMMA NetworkReadsBack ==
  ASSUME NEW n \in Network
  PROVE  decode_network(encode_network(n)) = n
<1>1. CASE n = StrictOnline
  BY <1>1 DEF decode_network, encode_network, StrictOnline
<1>2. ASSUME NEW seconds \in I64, NEW offline \in I64, n = LeaseNetwork(seconds, offline)
      PROVE  decode_network(encode_network(n)) = n
  BY <1>2 DEF decode_network, encode_network, LeaseNetwork
<1>3. QED BY <1>1, <1>2 DEF Network

\* What encode writes under each tag.
Written(p) ==
  << InTagOrder(RulesByTag(p)), encode_validity(p.validity), encode_network(p.network),
     encode_binding(p.min_binding), p.max_opens, IF p.watermark THEN 1 ELSE 0,
     InTagOrder(BindingsByTag(p)) >>

\* The fields of a policy, by their tags.
LEMMA FieldsAre ==
  ASSUME NEW p, NEW fields, fields = encode_policy(CONTAINER_VERSION, p)
  PROVE  /\ TagsOf(fields) = 1 .. 7
         /\ \A t \in 1 .. 7 : ValueOf(fields, t) = Written(p)[t]
<1>1. PICK w : w = Written(p)
  OBVIOUS
<1>2. PICK six : six = << Field(1, w[1]), Field(2, w[2]), Field(3, w[3]),
                          Field(4, w[4]), Field(5, w[5]), Field(6, w[6]) >>
  OBVIOUS
<1>3. PICK seventh : seventh = << Field(7, w[7]) >>
  OBVIOUS
<1>4. fields = six \o seventh
  BY <1>1, <1>2, <1>3 DEF encode_policy, Written, CONTAINER_VERSION, FIRST_ACTION_BINDING_VERSION,
     TAG_ACTIONS, TAG_VALIDITY, TAG_NETWORK, TAG_MIN_BINDING, TAG_MAX_OPENS, TAG_WATERMARK,
     TAG_ACTION_BINDING
<1>5. PICK S : S = {Field(t, w[t]) : t \in 1 .. 7}
  OBVIOUS
<1>6. six \in Seq(S) /\ Len(six) = 6 /\ seventh \in Seq(S) /\ Len(seventh) = 1
  BY <1>2, <1>3, <1>5
<1>7. (\A t \in 1 .. 6 : six[t] = Field(t, w[t])) /\ seventh[1] = Field(7, w[7])
  BY <1>2, <1>3
<1>8. /\ fields \in Seq(S) /\ Len(fields) = 7
      /\ \A t \in 1 .. 6 : fields[t] = six[t]
      /\ fields[7] = seventh[1]
  <2>1. /\ fields \in Seq(S) /\ Len(fields) = 6 + 1
        /\ \A t \in 1 .. 6 : fields[t] = six[t]
        /\ fields[6 + 1] = seventh[1]
    <3>1. 6 \in Nat
      OBVIOUS
    <3>2. /\ six \o seventh \in Seq(S) /\ Len(six \o seventh) = 6 + 1
          /\ \A t \in 1 .. 6 : (six \o seventh)[t] = six[t]
          /\ (six \o seventh)[6 + 1] = seventh[1]
      BY <1>6, <3>1, OneMore, ZenonT(60)
    <3>3. QED BY <1>4, <3>2, Zenon
  <2>2. QED BY <2>1
<1>9. DOMAIN fields = 1 .. 7 /\ \A t \in 1 .. 7 : fields[t] = Field(t, w[t])
  <2>1. ASSUME NEW t \in 1 .. 7 PROVE fields[t] = Field(t, w[t])
    <3>1. CASE t \in 1 .. 6
      BY <1>7, <1>8, <3>1
    <3>2. CASE t = 7
      BY <1>7, <1>8, <3>2
    <3>3. QED BY <3>1, <3>2
  <2>2. QED BY <1>8, <2>1, LenProperties
<1>10. \A t \in 1 .. 7 : fields[t].tag = t /\ fields[t].value = w[t]
  BY <1>9 DEF Field
<1>11. TagsOf(fields) = 1 .. 7
  BY <1>9, <1>10 DEF TagsOf
<1>12. ASSUME NEW t \in 1 .. 7 PROVE ValueOf(fields, t) = w[t]
  <2>1. (CHOOSE i \in DOMAIN fields : fields[i].tag = t) = t
    BY <1>9, <1>10
  <2>2. QED BY <1>10, <2>1 DEF ValueOf
<1>13. QED BY <1>1, <1>11, <1>12

Writable(p) ==
  /\ p \in Policies /\ IsFiniteSet(p.unknown_actions)
  /\ p.unknown_actions \cap KnownTags = {}

\* A policy of which the fields with tags T are left.
LeftOf(p, T) ==
  [actions |-> p.actions, validity |-> p.validity,
   max_opens |-> IF 5 \in T THEN p.max_opens ELSE 1,
   network |-> p.network, min_binding |-> p.min_binding,
   action_binding |-> p.action_binding,
   watermark |-> IF 6 \in T THEN p.watermark ELSE TRUE,
   unknown_actions |-> p.unknown_actions]

\* What decode makes of what encode wrote, or of what is left of it
\* (decode_policy, field by field).
LEMMA DecodeIs ==
  ASSUME NEW p, Writable(p), NEW fields, NEW T, T = TagsOf(fields),
         {1, 2, 3, 4, 7} \subseteq T, T \subseteq 1 .. 7,
         \A t \in T : ValueOf(fields, t) = Written(p)[t]
  PROVE  decode_policy(fields) = LeftOf(p, T)
<1>1. PICK d : d = decode_policy(fields)
  OBVIOUS
<1>p. p \in Policies
  BY DEF Writable
<1>2. PICK rules, entries : /\ rules = InTagOrder(RulesByTag(p))
                            /\ entries = InTagOrder(BindingsByTag(p))
  OBVIOUS
<1>3. /\ ValueOf(fields, 1) = rules /\ ValueOf(fields, 2) = encode_validity(p.validity)
      /\ ValueOf(fields, 3) = encode_network(p.network)
      /\ ValueOf(fields, 4) = encode_binding(p.min_binding)
      /\ 5 \in T => ValueOf(fields, 5) = p.max_opens
      /\ 6 \in T => ValueOf(fields, 6) = IF p.watermark THEN 1 ELSE 0
      /\ ValueOf(fields, 7) = entries
  <2>1. PICK w : w = Written(p)
    OBVIOUS
  <2>2. /\ w[1] = rules /\ w[2] = encode_validity(p.validity) /\ w[3] = encode_network(p.network)
        /\ w[4] = encode_binding(p.min_binding) /\ w[5] = p.max_opens
        /\ w[6] = (IF p.watermark THEN 1 ELSE 0) /\ w[7] = entries
    BY <1>2, <2>1 DEF Written
  <2>3. QED BY <2>1, <2>2
<1>4. /\ AllowedBy(rules) = p.actions /\ TagsOf(rules) \ KnownTags = p.unknown_actions
      /\ BindingBy(entries) = p.action_binding
  BY <1>2, RulesReadBack, BindingsReadBack DEF Writable
<1>5. /\ decode_validity(encode_validity(p.validity)) = p.validity
      /\ decode_network(encode_network(p.network)) = p.network
      /\ decode_binding(encode_binding(p.min_binding)) = p.min_binding
  <2>1. p.validity \in Validity /\ p.network \in Network /\ p.min_binding \in Binding
    BY <1>p DEF Policies
  <2>2. QED BY <2>1, ValidityReadsBack, NetworkReadsBack, BindingsAreBytes
<1>6. d = [actions |-> AllowedBy(ValueOf(fields, 1)),
           validity |-> decode_validity(ValueOf(fields, 2)),
           max_opens |-> IF 5 \in T THEN ValueOf(fields, 5) ELSE 1,
           network |-> decode_network(ValueOf(fields, 3)),
           min_binding |-> decode_binding(ValueOf(fields, 4)),
           action_binding |-> BindingBy(ValueOf(fields, 7)),
           watermark |-> IF 6 \in T THEN ValueOf(fields, 6) # 0 ELSE TRUE,
           unknown_actions |-> TagsOf(ValueOf(fields, 1)) \ KnownTags]
  BY <1>1 DEF decode_policy, WhenAbsent, OPENS_WHEN_THE_FIELD_IS_ABSENT, TAG_ACTIONS, TAG_VALIDITY,
     TAG_NETWORK, TAG_MIN_BINDING, TAG_MAX_OPENS, TAG_WATERMARK, TAG_ACTION_BINDING
<1>7. p.watermark \in BOOLEAN
  BY <1>p DEF Policies
<1>8. (IF 6 \in T THEN ValueOf(fields, 6) # 0 ELSE TRUE) = IF 6 \in T THEN p.watermark ELSE TRUE
  <2>1. CASE 6 \notin T
    BY <2>1
  <2>2. CASE 6 \in T /\ p.watermark = TRUE
    <3>1. ValueOf(fields, 6) = 1
      BY <1>3, <2>2
    <3>2. (ValueOf(fields, 6) # 0) = TRUE
      BY <3>1
    <3>3. QED BY <2>2, <3>2
  <2>3. CASE 6 \in T /\ p.watermark = FALSE
    <3>1. ValueOf(fields, 6) = 0
      BY <1>3, <2>3
    <3>2. (ValueOf(fields, 6) # 0) = FALSE
      BY <3>1
    <3>3. QED BY <2>3, <3>2
  <2>4. QED BY <1>7, <2>1, <2>2, <2>3
<1>9. QED BY <1>1, <1>3, <1>4, <1>5, <1>6, <1>8 DEF LeftOf

\* A policy comes back as it was written (encode_policy, decode_policy).
LEMMA PolicyReadsBack ==
  ASSUME NEW p, Writable(p)
  PROVE  decode_policy(encode_policy(CONTAINER_VERSION, p)) = p
<1>1. PICK fields : fields = encode_policy(CONTAINER_VERSION, p)
  OBVIOUS
<1>2. TagsOf(fields) = 1 .. 7 /\ \A t \in 1 .. 7 : ValueOf(fields, t) = Written(p)[t]
  BY <1>1, FieldsAre
<1>3. PICK T : T = 1 .. 7
  OBVIOUS
<1>4. {1, 2, 3, 4, 7} \subseteq T /\ 5 \in T /\ 6 \in T
  BY <1>3
<1>5. decode_policy(fields) = LeftOf(p, T)
  BY <1>2, <1>3, <1>4, DecodeIs
<1>6. LeftOf(p, T) = p
  <2>1. p = [actions |-> p.actions, validity |-> p.validity, max_opens |-> p.max_opens,
             network |-> p.network, min_binding |-> p.min_binding,
             action_binding |-> p.action_binding, watermark |-> p.watermark,
             unknown_actions |-> p.unknown_actions]
    BY DEF Writable, Policies
  <2>2. QED BY <1>4, <2>1 DEF LeftOf
<1>7. QED BY <1>1, <1>5, <1>6

\* What is left of a policy tightens the author's to itself.
LEMMA LeftTightens ==
  ASSUME NEW p \in Policies, NEW T, NEW author,
         author = [p EXCEPT !.max_opens = IF @ = 0 THEN 1 ELSE @]
  PROVE  intersect(author, LeftOf(p, T)) = LeftOf(p, T)
<1>1. PICK d : d = LeftOf(p, T)
  OBVIOUS
<1>2. /\ d.actions = p.actions /\ d.validity = p.validity /\ d.network = p.network
      /\ d.min_binding = p.min_binding /\ d.action_binding = p.action_binding
      /\ d.unknown_actions = p.unknown_actions
      /\ d.max_opens = (IF 5 \in T THEN p.max_opens ELSE 1)
      /\ d.watermark = (IF 6 \in T THEN p.watermark ELSE TRUE)
  BY <1>1 DEF LeftOf, Policies
<1>3. /\ author.actions = p.actions /\ author.validity = p.validity /\ author.network = p.network
      /\ author.min_binding = p.min_binding /\ author.action_binding = p.action_binding
      /\ author.unknown_actions = p.unknown_actions /\ author.watermark = p.watermark
      /\ author.max_opens = IF p.max_opens = 0 THEN 1 ELSE p.max_opens
  BY DEF Policies
<1>4. /\ p.validity \in Validity /\ p.network \in Network /\ p.min_binding \in Binding
      /\ p.action_binding \in [Action -> Binding] /\ p.watermark \in BOOLEAN
      /\ p.max_opens \in Nat \cup {None}
  BY DEF Policies
<1>5. tighten_validity(p.validity, p.validity) = p.validity
  <2>i. I64 \subseteq Int
    BY WidthAssumption DEF I64, MinI64
  <2>1. CASE p.validity = Always
    BY <2>1 DEF tighten_validity, Always
  <2>2. ASSUME NEW from \in I64, NEW to \in I64, p.validity = Window(from, to)
        PROVE  tighten_validity(p.validity, p.validity) = p.validity
    BY <2>i, <2>2 DEF tighten_validity, Window, MinOf, MaxOf
  <2>3. ASSUME NEW seconds \in I64, p.validity = FromFirstOpen(seconds)
        PROVE  tighten_validity(p.validity, p.validity) = p.validity
    BY <2>i, <2>3 DEF tighten_validity, FromFirstOpen, MinOf
  <2>4. QED BY <1>4, <2>1, <2>2, <2>3 DEF Validity
<1>6. tighten_network(p.network, p.network) = p.network
  <2>1. CASE p.network = StrictOnline
    BY <2>1 DEF tighten_network, StrictOnline
  <2>2. ASSUME NEW seconds \in I64, NEW offline \in I64, p.network = LeaseNetwork(seconds, offline)
        PROVE  tighten_network(p.network, p.network) = p.network
    BY <2>2 DEF tighten_network, LeaseNetwork, MinOf
  <2>3. QED BY <1>4, <2>1, <2>2 DEF Network
<1>7. MaxOf(p.min_binding, p.min_binding) = p.min_binding
  BY DEF MaxOf
<1>8. [a \in Action |-> MaxOf(p.action_binding[a], p.action_binding[a])] = p.action_binding
  BY <1>4 DEF MaxOf
<1>9. tighten_opens(author.max_opens, d.max_opens) = d.max_opens
  BY <1>2, <1>3, <1>4, NoneAssumption DEF tighten_opens, MinOf
<1>10. (p.watermark \/ d.watermark) = d.watermark
  BY <1>2, <1>4
<1>11. intersect(author, d) =
         [actions |-> p.actions, validity |-> p.validity, max_opens |-> d.max_opens,
          network |-> p.network, min_binding |-> p.min_binding,
          action_binding |-> p.action_binding, watermark |-> d.watermark,
          unknown_actions |-> p.unknown_actions]
  BY <1>2, <1>3, <1>5, <1>6, <1>7, <1>8, <1>9, <1>10 DEF intersect
<1>12. d = [actions |-> p.actions, validity |-> p.validity, max_opens |-> d.max_opens,
            network |-> p.network, min_binding |-> p.min_binding,
            action_binding |-> p.action_binding, watermark |-> d.watermark,
            unknown_actions |-> p.unknown_actions]
  BY <1>1 DEF LeftOf, Policies
<1>13. QED BY <1>1, <1>11, <1>12

\* Nothing absent is read as a permission (decode_policy, WhenAbsent).
LEMMA LostFieldsTighten ==
  ASSUME NEW p, Writable(p), NEW fields, fields = encode_policy(CONTAINER_VERSION, p),
         NEW tags, NEW rest, rest = Without(fields, tags),
         PolicyReadable(CONTAINER_VERSION, rest),
         NEW author, author = [p EXCEPT !.max_opens = IF @ = 0 THEN 1 ELSE @]
  PROVE  intersect(author, decode_policy(rest)) = decode_policy(rest)
<1>1. TagsOf(fields) = 1 .. 7 /\ \A t \in 1 .. 7 : ValueOf(fields, t) = Written(p)[t]
  BY FieldsAre
<1>2. PICK T, f : T = (1 .. 7) \ tags /\ f = [t \in T |-> ValueOf(fields, t)]
  OBVIOUS
<1>3. rest = InTagOrder(f)
  BY <1>1, <1>2 DEF Without
<1>4. T \in SUBSET Nat /\ IsFiniteSet(T) /\ DOMAIN f = T
  <2>1. IsFiniteSet(1 .. 7)
    <3>1. 1 \in Int /\ 7 \in Int
      OBVIOUS
    <3>2. QED BY <3>1, FS_Interval, Zenon
  <2>2. QED BY <1>2, <2>1, FS_Subset
<1>5. TagsOf(rest) = T /\ \A t \in T : ValueOf(rest, t) = f[t]
  BY <1>3, <1>4, InOrder
<1>6. \A t \in T : ValueOf(rest, t) = Written(p)[t]
  BY <1>1, <1>2, <1>5
<1>7. {1, 2, 3, 4, 7} \subseteq T
  BY <1>5 DEF PolicyReadable, Required, CONTAINER_VERSION, FIRST_ACTION_BINDING_VERSION, TAG_ACTIONS,
     TAG_VALIDITY, TAG_NETWORK, TAG_MIN_BINDING, TAG_ACTION_BINDING
<1>8. T \subseteq 1 .. 7
  BY <1>2
<1>9. decode_policy(rest) = LeftOf(p, T)
  BY <1>5, <1>6, <1>7, <1>8, DecodeIs
<1>10. QED BY <1>9, LeftTightens DEF Writable

LEMMA PolicyFromInv == PackInv => PolicyAsWritten
<1> SUFFICES ASSUME PackInv PROVE PolicyAsWritten
  OBVIOUS
<1>1. ASSUME assembled # None
      PROVE  /\ Writable(assembled.request.policy)
             /\ assembled.header.policy
                  = encode_policy(CONTAINER_VERSION, assembled.request.policy)
  <2>1. PICK s : Made(assembled, s, streamed)
    BY <1>1 DEF PackInv, InFlight
  <2>2. QED BY <2>1, PoliciesAssumption DEF Made, HeaderMade, Writable
<1>2. ReaderSeesAuthorsPolicy
  BY <1>1, PolicyReadsBack DEF ReaderSeesAuthorsPolicy
<1>3. AbsentFieldNeverWeakens
  BY <1>1, LostFieldsTighten DEF AbsentFieldNeverWeakens
<1>4. QED BY <1>2, <1>3 DEF PolicyAsWritten

\* The policy in an assembled header reads back as the request's, and what is
\* left of it when fields are lost is refused or no weaker, for every policy
\* with any unknown actions (encode and decode of policy_codec.rs, in assemble).
THEOREM PoliciesReadAsWritten == Spec => []PolicyAsWritten
<1>1. QED BY PackInit, PackStep, PolicyFromInv, PTL DEF Spec

===============================================================================
