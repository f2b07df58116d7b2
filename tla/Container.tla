------------------------------- MODULE Container -------------------------------
(***************************************************************************)
(* What a container is made of and what opens it: the key schedule         *)
(* (oc-crypto/src/kdf.rs), sealing to a key (seal.rs), wrapping of the     *)
(* content key (wrap.rs), the header and its slots (oc-format/src/         *)
(* header.rs), the mutable region (content.rs) and the entry point of a    *)
(* reader (verify.rs).                                                     *)
(*                                                                         *)
(* Cryptography is symbolic: a derived key, a hash, a nonce or a MAC is    *)
(* the tuple of its label and inputs, so two are equal only when all of    *)
(* these are, and a ciphertext is a record that opens under its own key,   *)
(* nonce and associated data.  A random value is the draw that produced    *)
(* it: a generator set back repeats its draws.  Parts of a header that a   *)
(* packer always writes alike (suite, class, no footer, no predecessor)    *)
(* are left out.                                                           *)
(***************************************************************************)
EXTENDS PolicyCodec

CONSTANTS
  ChunkSizes,        \* the sizes check_chunk_size allows
  MAX_KEY_SLOTS, MAX_COAUTHORS

CONTAINER_VERSION == 5
SUPPORTED_READER_VERSION == 5
MIN_READABLE_CONTAINER_VERSION == 5
MAX_READABLE_CONTAINER_VERSION == 5

Draw(n) == <<"draw", n>>

-------------------------------------------------------------------------------
(* The key schedule. *)

derive_kek(file_id, org_id, a, b) == <<"kek", file_id, org_id, a, b>>

derive_payload_key(cek, header_salt, file_id, chunk_size) ==
  <<"payload", cek, header_salt, file_id, chunk_size>>

derive_private_meta_key(cek, header_salt, file_id) == <<"private-meta", cek, header_salt, file_id>>
derive_content_mac_key(cek, header_salt, file_id) == <<"content-mac", cek, header_salt, file_id>>

secret_b_from_claim(file_id, code) ==
  [share |-> <<"slot-b-claim", file_id, code>>, commitment |-> <<"slot-b-commit", file_id, code>>]

slot_commitment(kek, core_hash) == <<"slot-commit", kek, core_hash>>

\* Faulty: the nonce is the random bytes themselves.
hedged_nonce_random(label, seed, plaintext, aad) == <<label, seed>>

\* Random bytes, plaintext and associated data all enter a nonce.
hedged_nonce(label, seed, plaintext, aad) == <<label, seed, plaintext, aad>>

-------------------------------------------------------------------------------
(* AEAD, sealing to a public key, wrapping. *)

Encrypt(key, nonce, aad, msg) == [key |-> key, nonce |-> nonce, aad |-> aad, msg |-> msg]

\* decrypt of the AEAD: fails unless all three are those of the sender.
Decrypts(ct, key, nonce, aad) == ct.key = key /\ ct.nonce = nonce /\ ct.aad = aad

KemAlg == {"X25519", "P256", "XWing", "MlKem768P256"}

PublicKey(kem, holder) == [kem |-> kem, holder |-> holder]

\* Bytes that are no key of their mechanism, and so nobody's: sealing refuses them.
Malformed(public) == public.holder = None

\* What is drawn before that: MLKEM768-P256 takes its seed first, the others
\* look at the key first (X-Wing at its length and classical half).
DrawnInVain(public) == IF public.kem = "MlKem768P256" THEN 1 ELSE 0

slot_info(purpose, kem, file_id) == <<purpose, kem, file_id>>

\* Both ends derive it: the sender from the ephemeral secret, the holder from enc.
derive_key(enc, public, info) == <<"seal-key", enc, public, info>>

\* An encapsulation, or an ephemeral public key: the mechanism and the random bytes.
encapsulate(public, seed) == <<"enc", public.kem, seed>>

\* The four seal functions: an ephemeral key or an encapsulation, then a nonce seed.
seal(public, info, aad, plaintext, draws) ==
  LET enc == encapsulate(public, Draw(draws))
      nonce == hedged_nonce("seal-nonce", Draw(draws + 1), plaintext, aad)
  IN  [enc |-> enc, nonce |-> nonce,
       ct |-> Encrypt(derive_key(enc, public, info), nonce, aad, plaintext)]

\* The four open functions, called by the holder of public's secret.
SealOpens(public, blob, info, aad) ==
  Decrypts(blob.ct, derive_key(blob.enc, public, info), blob.nonce, aad)

wrap_cek(kek, cek, core_hash, seed) ==
  LET nonce == hedged_nonce("wrap-nonce", seed, cek, core_hash)
  IN  [nonce |-> nonce, ct |-> Encrypt(kek, nonce, core_hash, cek)]

\* The commitment is looked at before the AEAD.
Unwraps(kek, wrapped, commitment, core_hash) ==
  /\ commitment = slot_commitment(kek, core_hash)
  /\ Decrypts(wrapped.ct, kek, wrapped.nonce, core_hash)

-------------------------------------------------------------------------------
(* Key slots. *)

SlotKind == {"Server", "RecipientIdentity", "RecipientClaim", "AuthorDevice"}

kind_seals(kind) == kind # "RecipientClaim"

\* The mechanisms a version of the format can carry; RSA-OAEP has a number only.
KemsOf(version) ==
  {"X25519"} \cup (IF version >= 2 THEN {"P256"} ELSE {})
             \cup (IF version >= 4 THEN {"XWing"} ELSE {})
             \cup (IF version >= 5 THEN {"MlKem768P256"} ELSE {})

\* A slot of another kind or mechanism is kept as it is and not used.
SlotKnown(version, slot) == slot.kind \in SlotKind /\ slot.kem \in KemsOf(version)

check_slot_shape(slot) ==
  /\ kind_seals(slot.kind) = (slot.claim_commit = None)
  /\ kind_seals(slot.kind) = (slot.blob # None)
  /\ ~kind_seals(slot.kind) => slot.key_fpr = None /\ slot.kem = "X25519"

\* decode_slots.
SlotsReadable(version, slots) ==
  /\ Len(slots) <= MAX_KEY_SLOTS
  /\ \A i \in DOMAIN slots : SlotKnown(version, slots[i]) => check_slot_shape(slots[i])

\* encode_slots: the writer of a slot must know the form of its mechanism;
\* a slot that was kept is written as it was.
SlotsWritable(version, slots) ==
  /\ Len(slots) <= MAX_KEY_SLOTS
  /\ \A i \in DOMAIN slots : slots[i].kind \in SlotKind /\ slots[i].kem \in KemAlg =>
       slots[i].kem \in KemsOf(version) /\ check_slot_shape(slots[i])

Classical == 0
PostQuantum == 1
PostQuantumHardware == 2

of_kem(kem) ==
  CASE kem = "MlKem768P256" -> PostQuantumHardware
    [] kem = "XWing" -> PostQuantum
    [] OTHER -> Classical

\* The strength a reader shows: that of the strongest author slot.
file_strength(h) ==
  LET found == {of_kem(h.key_slots[i].kem) : i \in
                  {j \in DOMAIN h.key_slots : h.key_slots[j].kind = "AuthorDevice"}}
  IN  IF found = {} THEN Classical ELSE CHOOSE s \in found : \A t \in found : t <= s

-------------------------------------------------------------------------------
(* The header. *)

\* No roster, or a threshold the distinct keys can meet; zero says no quorum.
check_coauthors(coauthors) ==
  \/ coauthors.threshold = 0 /\ coauthors.keys = <<>>
  \/ /\ coauthors.threshold \in 1 .. Len(coauthors.keys)
     /\ Len(coauthors.keys) <= MAX_COAUTHORS
     /\ \A i, j \in DOMAIN coauthors.keys : coauthors.keys[i] = coauthors.keys[j] => i = j

\* Both keys of the authority must be there: None stands for the zero key.
check_authority(authority) ==
  authority.sealing_kid # None /\ authority.lease_verify_key # None

\* What decode takes.
HeaderReadable(h) ==
  /\ h.chunk_size \in ChunkSizes
  /\ PolicyReadable(h.container_version, h.policy)
  /\ SlotsReadable(h.container_version, h.key_slots)
  /\ check_authority(h.authority)
  /\ h.coauthors # None => check_coauthors(h.coauthors)

\* What encode writes.
HeaderWritable(h) ==
  /\ h.chunk_size \in ChunkSizes
  /\ SlotsWritable(h.container_version, h.key_slots)
  /\ check_authority(h.authority)
  /\ h.coauthors # None => check_coauthors(h.coauthors)

\* All of the header but its key material.
core_hash(h) ==
  <<"core-hash", [f \in DOMAIN h \ {"key_slots", "wrapped_cek"} |-> h[f]]>>

policy_hash(h) == <<"policy-hash", h.policy>>

-------------------------------------------------------------------------------
(* The mutable region and the reader's entry point. *)

content_mac(mac_key, file_id, body) == <<"mac", mac_key, file_id, body>>

ContentDesc(body, mac_key, file_id) == [body |-> body, mac |-> content_mac(mac_key, file_id, body)]

\* decode_verified: the MAC is checked before the body is looked at.
ContentVerifies(desc, mac_key, file_id) == desc.mac = content_mac(mac_key, file_id, desc.body)

Signature(key, h) == [key |-> key, over |-> h]

\* A store of pinned author keys, from organisations to keys.
lookup(store, org_id, author_key) ==
  IF org_id \notin DOMAIN store THEN "Unknown"
  ELSE IF store[org_id] = author_key THEN "Pinned" ELSE "Conflict"

\* The verdict of verify_and_parse, in the order of its steps.
verify_and_parse(file, store) ==
  LET h == file.header
  IN  IF ~HeaderReadable(h) THEN "FormatError"
      ELSE IF file.signature # Signature(h.author_key, h) THEN "BadHeaderSignature"
      ELSE IF h.min_reader_version > SUPPORTED_READER_VERSION THEN "ReaderTooOld"
      ELSE IF h.container_version \notin
                MIN_READABLE_CONTAINER_VERSION .. MAX_READABLE_CONTAINER_VERSION
      THEN "UnsupportedContainerVersion"
      ELSE lookup(store, h.org_id, h.author_key)

-------------------------------------------------------------------------------
(* Paths to the content key, as the engine's own tests walk them. *)

\* The slots of a kind that public's holder can open: the shares they give.
SharesIn(h, kind, purpose, publics) ==
  {h.key_slots[i] : i \in {j \in DOMAIN h.key_slots :
     /\ h.key_slots[j].kind = kind
     /\ SlotKnown(h.container_version, h.key_slots[j])
     /\ \E public \in publics :
          /\ public.kem = h.key_slots[j].kem
          /\ SealOpens(public, h.key_slots[j].blob,
                       slot_info(purpose, h.key_slots[j].kem, h.file_id), policy_hash(h))}}

ClaimSlots(h, code) ==
  {h.key_slots[i] : i \in {j \in DOMAIN h.key_slots :
     /\ h.key_slots[j].kind = "RecipientClaim"
     /\ h.key_slots[j].claim_commit = secret_b_from_claim(h.file_id, code).commitment}}

\* The content key two shares and a slot's commitment give, if they do.
CekFrom(h, a, b, slot) ==
  {cek \in {h.wrapped_cek.ct.msg} :
     Unwraps(derive_kek(h.file_id, h.org_id, a, b), h.wrapped_cek, slot.commitment, core_hash(h))}

\* The author's device: both shares are in its slot.
AuthorPath(h, publics) ==
  UNION {CekFrom(h, slot.blob.ct.msg[2], slot.blob.ct.msg[3], slot) :
           slot \in SharesIn(h, "AuthorDevice", "slot-author-device", publics)}

\* A recipient with a key, and the server's share.
RecipientPath(h, publics, server) ==
  UNION {CekFrom(h, s.blob.ct.msg, r.blob.ct.msg, r) :
           s \in SharesIn(h, "Server", "slot-server", server),
           r \in SharesIn(h, "RecipientIdentity", "slot-recipient", publics)}

\* A recipient with a claim code, and the server's share.
ClaimPath(h, code, server) ==
  UNION {CekFrom(h, s.blob.ct.msg, secret_b_from_claim(h.file_id, code).share, r) :
           s \in SharesIn(h, "Server", "slot-server", server),
           r \in ClaimSlots(h, code)}

\* The document a content key gives, if region and payload verify under it.
DocumentsUnder(file, cek) ==
  LET h == file.header
      frame == file.payload
  IN  {doc \in {frame.ct.msg} :
         /\ ContentVerifies(file.content_desc,
                            derive_content_mac_key(cek, h.header_salt, h.file_id), h.file_id)
         /\ Decrypts(frame.ct, derive_payload_key(cek, h.header_salt, h.file_id, h.chunk_size),
                     frame.nonce, <<"chunk", h.file_id, 0>>)
         /\ file.content_desc.body.tree_root = <<"root", frame>>}

===============================================================================
