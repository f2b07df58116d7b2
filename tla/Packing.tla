-------------------------------- MODULE Packing --------------------------------
(***************************************************************************)
(* Packing of documents: plan and assemble of crates/oc-engine/src/lib.rs, *)
(* with the host between them, which streams the document, signs the       *)
(* header and writes the file.                                             *)
(*                                                                         *)
(* The host may come to assemble with another request than the one it      *)
(* planned with, may stop at any point, and may run in a machine that is   *)
(* set back to a snapshot: generator, session and all, while what it       *)
(* released before stays in the world.  A document is one chunk; chunking  *)
(* and the tree over it are the subject of SealStream and MerkleTree.      *)
(***************************************************************************)
EXTENDS Container

CONSTANTS
  Requests,      \* what a host may ask to pack: records of PackRequest
  Documents,     \* <<"doc", length, text>>
  Machines,      \* records of PublicKeys, one per author device
  MaxPlans,      \* bound: packings begun
  MaxRestores    \* bound: times the machine is set back

VARIABLES
  rng,         \* draws taken from the generator
  keys,        \* the device's PublicKeys
  session,     \* secrets between the two calls, or None
  streamed,    \* the sealed document the host holds, or None
  assembled,   \* header and mutable region not signed yet, or None
  outcome,     \* what the last call returned
  sealed,      \* every ciphertext ever released
  files,       \* every signed container, with the request and document behind it
  plans,       \* packings begun
  snapshot,    \* the machine as it was saved, or None
  restores     \* times it was set back

vars == << rng, keys, session, streamed, assembled, outcome, sealed, files, plans, snapshot, restores >>

KeyedModes == {"Identity", "Hybrid", "HardwareHybrid"}

\* A keyed variant of Recipient has a key of its own mechanism.
ModeKem == [Identity |-> "X25519", Hybrid |-> "XWing", HardwareHybrid |-> "MlKem768P256"]

ASSUME RequestsAssumption ==
  \A request \in Requests :
    /\ request.recipient.mode \in KeyedModes \cup {"None", "Claim"}
    /\ request.recipient.mode \in KeyedModes =>
         request.recipient.key.kem = ModeKem[request.recipient.mode]

\* Unknown actions are those that decode does not know: a known one among them
\* would be written with its rule.
ASSUME PoliciesAssumption ==
  \A request \in Requests :
    /\ request.policy \in Policies
    /\ IsFiniteSet(request.policy.unknown_actions)
    /\ request.policy.unknown_actions \cap KnownTags = {}

\* So has each field of PublicKeys; those of type Option may be missing.
ASSUME MachinesAssumption ==
  \A machine \in Machines :
    /\ machine.authority_sealing.kem = "X25519"
    /\ machine.device.kem = "X25519"
    /\ machine.device_tpm # None => machine.device_tpm.kem = "P256"
    /\ machine.device_hybrid # None => machine.device_hybrid.kem = ModeKem["Hybrid"]
    /\ machine.device_hardware_hybrid # None =>
         machine.device_hardware_hybrid.kem = ModeKem["HardwareHybrid"]

-------------------------------------------------------------------------------
(* Planning. *)

\* The recipient slot that will appear; a claim code is already a commitment.
RecipientPlan(file_id, recipient) ==
  IF recipient.mode = "Claim"
  THEN [mode |-> "Claim", key |-> secret_b_from_claim(file_id, recipient.key).commitment]
  ELSE recipient

\* file_id, header_salt, content key and share A, then share B unless a code gives it.
NewSession(request, n) ==
  [file_id |-> Draw(n), header_salt |-> Draw(n + 1), chunk_size |-> request.chunk_size,
   cek |-> Draw(n + 2), secret_a |-> Draw(n + 3),
   secret_b |-> IF request.recipient.mode = "Claim"
                THEN secret_b_from_claim(Draw(n), request.recipient.key).share ELSE Draw(n + 4),
   plan |-> RecipientPlan(Draw(n), request.recipient)]

PlanDraws(request) == IF request.recipient.mode = "Claim" THEN 4 ELSE 5

\* Faulty: the recipient alone is compared.
PlanMatchesRecipient(s, request) ==
  /\ s.plan.mode = request.recipient.mode
  /\ s.plan = RecipientPlan(s.file_id, request.recipient)

\* Chunk size and recipient must be those of the plan.
PlanMatches(s, request) ==
  /\ request.chunk_size = s.chunk_size
  /\ s.plan.mode = request.recipient.mode
  /\ s.plan = RecipientPlan(s.file_id, request.recipient)

-------------------------------------------------------------------------------
(* Assembling. *)

seal_private_meta(s, request, total_len, n) ==
  LET msg == <<"name-and-size", request.original_name, total_len>>
      aad == <<"meta", s.file_id>>
      nonce == hedged_nonce("meta-nonce", Draw(n), msg, aad)
      key == derive_private_meta_key(s.cek, s.header_salt, s.file_id)
  IN  [nonce |-> nonce, ct |-> Encrypt(key, nonce, aad, msg)]

\* The header before there is key material.
Skeleton(s, request, tree_root, private_meta) ==
  [container_version  |-> CONTAINER_VERSION,
   min_reader_version |-> SUPPORTED_READER_VERSION,
   file_id            |-> s.file_id,
   author_key         |-> keys.author,
   header_salt        |-> s.header_salt,
   chunk_size         |-> request.chunk_size,
   original_root      |-> tree_root,
   policy             |-> encode_policy(CONTAINER_VERSION, request.policy),
   key_slots          |-> << >>,
   authority          |-> [sealing_kid |-> keys.authority_sealing,
                           lease_verify_key |-> keys.authority_lease_verify],
   private_meta       |-> private_meta,
   org_id             |-> request.org_id,
   wrapped_cek        |-> None,
   coauthors          |-> request.coauthors]

both_shares(a, b) == <<"both-shares", a, b>>

\* seal_slot and its variants: the mechanism is that of the key, the same in
\* the info string and in the slot.
seal_slot(kind, public, purpose, h, plaintext, commitment, n) ==
  [kind |-> kind, kem |-> public.kem,
   blob |-> seal(public, slot_info(purpose, public.kem, h.file_id), policy_hash(h), plaintext, n),
   commitment |-> commitment, key_fpr |-> public, claim_commit |-> None]

claim_slot(claim_commit, commitment) ==
  [kind |-> "RecipientClaim", kem |-> "X25519", blob |-> None,
   commitment |-> commitment, key_fpr |-> None, claim_commit |-> claim_commit]

RecipientSlots(s, h, commitment, n) ==
  CASE s.plan.mode = "None" -> << >>
    [] s.plan.mode = "Claim" -> << claim_slot(s.plan.key, commitment) >>
    [] OTHER -> << seal_slot("RecipientIdentity", s.plan.key, "slot-recipient", h,
                             s.secret_b, commitment, n) >>

\* The key the author slot is sealed to; None is MissingAuthorHybridKey.
AuthorSlotKey(mode) ==
  CASE mode = "HardwareHybrid" -> keys.device_hardware_hybrid
    [] mode = "Hybrid" -> keys.device_hybrid
    [] OTHER -> IF keys.device_tpm # None THEN keys.device_tpm ELSE keys.device

Refused(error, n) == [outcome |-> error, rng |-> n, result |-> None]

\* Both passes: the skeleton, whose core hash the key material is bound to,
\* then the header.
assemble(s, request, info, n) ==
  IF ~PlanMatches(s, request) THEN Refused("PlanMismatch", n)
  ELSE
  LET skeleton == Skeleton(s, request, info.tree_root,
                           seal_private_meta(s, request, info.total_len, n))
      core == core_hash(skeleton)
      kek == derive_kek(s.file_id, request.org_id, s.secret_a, s.secret_b)
      commitment == slot_commitment(kek, core)
      m == IF s.plan.mode \in KeyedModes THEN n + 6 ELSE n + 4
      author == AuthorSlotKey(s.plan.mode)
      header ==
        [skeleton EXCEPT
          !.wrapped_cek = wrap_cek(kek, s.cek, core, Draw(n + 1)),
          !.key_slots =
            << seal_slot("Server", keys.authority_sealing, "slot-server", skeleton,
                         s.secret_a, commitment, n + 2) >>
            \o RecipientSlots(s, skeleton, commitment, n + 4)
            \o << seal_slot("AuthorDevice", author, "slot-author-device", skeleton,
                            both_shares(s.secret_a, s.secret_b), commitment, m) >>]
      body == [total_len |-> info.total_len, chunk_count |-> info.chunk_count,
               tree_root |-> info.tree_root, version_counter |-> 0]
      mac_key == derive_content_mac_key(s.cek, s.header_salt, s.file_id)
  IN  IF ~(HeaderWritable(skeleton) /\ HeaderReadable(skeleton))
      THEN Refused("FormatError", n + 1)
      ELSE IF Malformed(keys.authority_sealing) THEN Refused("CryptoError", n + 2)
      ELSE IF s.plan.mode \in KeyedModes /\ Malformed(s.plan.key)
      THEN Refused("CryptoError", n + 4 + DrawnInVain(s.plan.key))
      ELSE IF author = None THEN Refused("MissingAuthorHybridKey", m)
      ELSE IF Malformed(author) THEN Refused("CryptoError", m + DrawnInVain(author))
      ELSE IF ~(HeaderWritable(header) /\ HeaderReadable(header))
      THEN Refused("FormatError", m + 2)
      ELSE IF core_hash(header) # core THEN Refused("CoreHashMismatch", m + 2)
      ELSE [outcome |-> "Assembled", rng |-> m + 2,
            result |-> [header |-> header,
                        content_desc |-> ContentDesc(body, mac_key, s.file_id)]]

\* The ciphertexts a header carries.
CiphertextsOf(h) ==
  {h.private_meta.ct, h.wrapped_cek.ct} \cup
  {h.key_slots[i].blob.ct : i \in {j \in DOMAIN h.key_slots : h.key_slots[j].blob # None}}

-------------------------------------------------------------------------------
(* The host. *)

Init ==
  /\ rng = 0 /\ keys \in Machines
  /\ session = None /\ streamed = None /\ assembled = None /\ outcome = "Idle"
  /\ sealed = {} /\ files = {}
  /\ plans = 0 /\ snapshot = None /\ restores = 0

Plan(request) ==
  /\ session = None /\ streamed = None /\ assembled = None
  /\ plans < MaxPlans
  /\ session' = NewSession(request, rng)
  /\ rng' = rng + PlanDraws(request)
  /\ plans' = plans + 1
  /\ outcome' = "Planned"
  /\ UNCHANGED << keys, streamed, assembled, sealed, files, snapshot, restores >>

\* The document goes out in one frame, under the payload key of the plan.
Stream(doc) ==
  /\ session # None /\ streamed = None
  /\ LET aad == <<"chunk", session.file_id, 0>>
         nonce == hedged_nonce("frame-nonce", Draw(rng), doc, aad)
         key == derive_payload_key(session.cek, session.header_salt, session.file_id,
                                   session.chunk_size)
         frame == [nonce |-> nonce, ct |-> Encrypt(key, nonce, aad, doc)]
     IN  /\ streamed' = [frame |-> frame, total_len |-> doc[2], chunk_count |-> 1,
                         tree_root |-> <<"root", frame>>]
         /\ sealed' = sealed \cup {frame.ct}
  /\ rng' = rng + 1
  /\ outcome' = "Streamed"
  /\ UNCHANGED << keys, session, assembled, files, plans, snapshot, restores >>

\* assemble consumes the session, whatever it returns.
Assemble(request) ==
  /\ session # None /\ streamed # None
  /\ LET got == assemble(session, request, streamed, rng)
     IN  /\ outcome' = got.outcome
         /\ rng' = got.rng
         /\ session' = None
         /\ IF got.result = None
            THEN streamed' = None /\ UNCHANGED << assembled, sealed >>
            ELSE /\ assembled' = [header |-> got.result.header, request |-> request,
                                  content_desc |-> got.result.content_desc]
                 /\ sealed' = sealed \cup CiphertextsOf(got.result.header)
                 /\ UNCHANGED streamed
  /\ UNCHANGED << keys, files, plans, snapshot, restores >>

\* The host signs the header it is going to write.
Sign ==
  /\ assembled # None
  /\ files' = files \cup
       {[header |-> assembled.header, content_desc |-> assembled.content_desc,
         payload |-> streamed.frame, signature |-> Signature(keys.author, assembled.header),
         request |-> assembled.request, doc |-> streamed.frame.ct.msg]}
  /\ assembled' = None /\ streamed' = None /\ outcome' = "Idle"
  /\ UNCHANGED << rng, keys, session, sealed, plans, snapshot, restores >>

\* The host gives up, or its process ends.
Abandon ==
  /\ session # None \/ assembled # None
  /\ session' = None /\ streamed' = None /\ assembled' = None /\ outcome' = "Idle"
  /\ UNCHANGED << rng, keys, sealed, files, plans, snapshot, restores >>

TakeSnapshot ==
  /\ snapshot = None /\ restores < MaxRestores
  /\ snapshot' = [rng |-> rng, session |-> session, streamed |-> streamed, assembled |-> assembled]
  /\ UNCHANGED << rng, keys, session, streamed, assembled, outcome, sealed, files, plans, restores >>

Restore ==
  /\ snapshot # None /\ restores < MaxRestores
  /\ rng' = snapshot.rng /\ session' = snapshot.session
  /\ streamed' = snapshot.streamed /\ assembled' = snapshot.assembled
  /\ outcome' = "Idle"
  /\ restores' = restores + 1
  /\ UNCHANGED << keys, sealed, files, plans, snapshot >>

Next ==
  \/ \E request \in Requests : Plan(request)
  \/ \E doc \in Documents : Stream(doc)
  \/ \E request \in Requests : Assemble(request)
  \/ Sign
  \/ Abandon
  \/ TakeSnapshot
  \/ Restore

Spec == Init /\ [][Next]_vars

-------------------------------------------------------------------------------
(* Properties. *)

\* Under one key no nonce serves two messages, even when the machine is set
\* back and packs another document, or the same one under other rules: random
\* bytes alone would repeat (hedged_nonce, with keys drawn from the same
\* generator).
NonceNeverReused ==
  \A x, y \in sealed : x.key = y.key /\ x.nonce = y.nonce => x.msg = y.msg /\ x.aad = y.aad

ServerKeys == {keys.authority_sealing}
DeviceKeys ==
  {keys.device, keys.device_hardware_hybrid, keys.device_hybrid, keys.device_tpm} \ {None}

\* The content keys the addressed recipient gets at with the server's help.
AddresseePath(h, recipient) ==
  CASE recipient.mode = "None" -> {}
    [] recipient.mode = "Claim" -> ClaimPath(h, recipient.key, ServerKeys)
    [] OTHER -> RecipientPath(h, {recipient.key}, ServerKeys)

\* What a content key shows of a file: the document and its private metadata.
ShowsAll(f, cek) ==
  LET h == f.header
  IN  /\ DocumentsUnder(f, cek) = {f.doc}
      /\ Decrypts(h.private_meta.ct, derive_private_meta_key(cek, h.header_salt, h.file_id),
                  h.private_meta.nonce, <<"meta", h.file_id>>)
      /\ h.private_meta.ct.msg = <<"name-and-size", f.request.original_name, f.doc[2]>>

\* Every signed file verifies under the author's pinned key, and the author's
\* device alone, and the recipient the request names with the server, get one
\* content key each that shows the streamed document: no change of the request
\* between plan and assemble, and no set-back machine, yields a file that is
\* signed but opens for nobody.
EveryPartyOpens ==
  \A f \in files :
    LET h == f.header
        pinned == [org \in {h.org_id} |-> keys.author]
        ByRecipient == AddresseePath(h, f.request.recipient)
    IN  /\ verify_and_parse(f, pinned) = "Pinned"
        /\ \E cek \in AuthorPath(h, DeviceKeys) :
             /\ AuthorPath(h, DeviceKeys) = {cek}
             /\ ShowsAll(f, cek)
             /\ ByRecipient = IF f.request.recipient.mode = "None" THEN {} ELSE {cek}

\* The recipients of all requests, the addressed one apart.
OthersThan(recipient) ==
  {r \in {q.recipient : q \in Requests} : ~(r.mode = recipient.mode /\ r.key = recipient.key)}

\* A recipient named in another request gets nothing from a file, even when
\* the machine was set back and drew the same shares for both.
OnlyTheAddressed ==
  \A f \in files : \A r \in OthersThan(f.request.recipient) : AddresseePath(f.header, r) = {}

\* The slots that give share B: the addressee's, and the author's.
CarriesShareB(slot) == slot.kind \in {"RecipientIdentity", "AuthorDevice"}

\* When the recipient's key is post-quantum, every slot share B can be had
\* from is at least as strong: a weaker author slot, which holds both shares,
\* would undo the recipient's (assemble refuses instead), and the strength a
\* reader shows is that of the recipient's mechanism.
RecipientStrengthKept ==
  \A f \in files : f.request.recipient.mode \in {"Hybrid", "HardwareHybrid"} =>
    LET h == f.header
        wanted == of_kem(f.request.recipient.key.kem)
    IN  /\ \A i \in DOMAIN h.key_slots :
             CarriesShareB(h.key_slots[i]) => of_kem(h.key_slots[i].kem) >= wanted
        /\ file_strength(h) = wanted

\* What a header says besides its key material.
Core(h) == [x \in DOMAIN h \ {"key_slots", "wrapped_cek"} |-> h[x]]

AnyPath(h, recipient) == AuthorPath(h, DeviceKeys) \cup AddresseePath(h, recipient)

\* Key material is bound to the whole core of its header: slots, the wrapped
\* key or both, taken from a file with another core, open nothing for anybody,
\* even when a set-back machine gave the two files the same shares and keys.
KeyMaterialStaysWithItsCore ==
  \A f, g \in files : Core(f.header) # Core(g.header) =>
    LET h == f.header
        moved == {[h EXCEPT !.key_slots = g.header.key_slots],
                  [h EXCEPT !.wrapped_cek = g.header.wrapped_cek],
                  [h EXCEPT !.key_slots = g.header.key_slots,
                            !.wrapped_cek = g.header.wrapped_cek]}
    IN  \A m \in moved :
          AnyPath(m, f.request.recipient) \cup AnyPath(m, g.request.recipient) = {}

\* Whatever the host does between the calls, and although the machine is set
\* back, a signed file opens for the author and for the recipient its request
\* names, at the recipient's strength, and for nobody else, not with slots or
\* a wrapped key taken from another file either.
OpensForItsParties ==
  EveryPartyOpens /\ OnlyTheAddressed /\ RecipientStrengthKept /\ KeyMaterialStaysWithItsCore

\* The policy a reader decodes from an assembled header is the one in the
\* author's request, rules this client does not know included, and writing it
\* again gives the same fields: the policy hash survives a re-encoding.
ReaderSeesAuthorsPolicy ==
  assembled # None =>
    LET fields == assembled.header.policy
    IN  /\ decode_policy(fields) = assembled.request.policy
        /\ encode_policy(CONTAINER_VERSION, decode_policy(fields)) = fields

\* The fields of a policy without the ones with these tags.
Without(fields, tags) ==
  InTagOrder([tag \in TagsOf(fields) \ tags |-> ValueOf(fields, tag)])

\* A policy that lost fields either does not decode or decodes to one that
\* tightening the author's with it leaves as it is: nothing absent is read as
\* a permission (the defaults of decode for the two optional fields), but that
\* a limit of no opens at all, when lost, is read as one.
AbsentFieldNeverWeakens ==
  assembled # None => \A tags \in SUBSET TagsOf(assembled.header.policy) :
    LET rest == Without(assembled.header.policy, tags)
        author == [assembled.request.policy EXCEPT !.max_opens = IF @ = 0 THEN 1 ELSE @]
    IN  PolicyReadable(CONTAINER_VERSION, rest) =>
          intersect(author, decode_policy(rest)) = decode_policy(rest)

\* What encode wrote is what decode gives, and what got lost on the way never
\* makes the policy weaker.
PolicyAsWritten == ReaderSeesAuthorsPolicy /\ AbsentFieldNeverWeakens

===============================================================================
