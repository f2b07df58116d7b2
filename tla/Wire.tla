---------------------------------- MODULE Wire ----------------------------------
(***************************************************************************)
(* The messages between a device and a server                             *)
(* (crates/oc-protocol/src/activation.rs, attestation.rs) and the values   *)
(* derived from them (crates/oc-crypto/src/kdf.rs).                        *)
(*                                                                         *)
(* A frame is a kind and a body.  A body is a record with the length it    *)
(* has on the wire and the fields its reader looks at.  A hash or a MAC is *)
(* the tuple of its inputs, a sealed component names the key it is sealed  *)
(* to.  Bodies that have a codec in another file are read by it: the       *)
(* frame says with what verdict (parses).                                  *)
(***************************************************************************)
EXTENDS Integers, Sequences, FiniteSets, Documents

CONSTANTS
  None,
  MAX_DOCUMENT, MAX_WATCH_FILES, MAX_PAGE, MAX_REFUSAL, SIGNATURE_LEN,
  MAX_CHAIN_DOCUMENTS, MAX_INTERMEDIATES, MAX_CREDENTIAL

ASSUME AbsentAssumption == None \notin Int

-------------------------------------------------------------------------------
(* Kinds. *)

\* Bodies whose every field has its place: the length is exact.
FixedRequests ==
  [Requests |-> 16, Collect |-> 48, Revocation |-> 16, Standing |-> 16,
   AttestOpen |-> 0, AttestSecret |-> 32, JournalView |-> 16, DirectoryView |-> 16,
   DirectoryRecords |-> 12, Binding |-> 0, FetchChain |-> 32, ReportAction |-> 41,
   ActionRequests |-> 16]

FixedResponses ==
  [Proven |-> 0, Asked |-> 8, Waiting |-> 0, Accepted |-> 0, NotRevoked |-> 0,
   Endorsed |-> 2, AttestNonce |-> 32, Attested |-> 1, ChainStored |-> 0,
   NoChain |-> 0, ActionPending |-> 8]

\* Signed documents, carried without being read.
OpaqueRequests ==
  {"Decide", "Revoke", "Order", "RegisterEdition", "Control", "ReplicaPush", "PutGrant",
   "PutDelegation", "PutActionGrant", "RequestAction", "DecideAction"}

OpaqueResponses ==
  {"Decided", "Revocation", "Standing", "Receipt", "Binding", "ReplicaAck", "ActionGranted"}

\* access.rs, directory.rs and witness.rs.
ReadElsewhere == {"Ask", "DirectoryLookup", "LogView", "DirectoryEntry", "DirectoryPage"}

RequestKinds ==
  {"Hello", "Prove", "Activate", "Renew", "AttestEvidence", "Watch", "WatchAuthor", "Register",
   "Endorse", "Ask", "DirectoryLookup"} \cup DOMAIN FixedRequests \cup OpaqueRequests

ResponseKinds ==
  {"Challenge", "Granted", "Denied", "Notice", "AttestCredential", "Chain", "ActionRefused",
   "Queue", "ActionQueue", "LogView", "DirectoryEntry", "DirectoryPage"}
  \cup DOMAIN FixedResponses \cup OpaqueResponses

\* Events of the server's journal that subscribers are told of by name.
journal_event ==
  {"FILE_REGISTERED", "DEVICE_ACTIVATED", "LEASE_ISSUED", "REVOKED", "ACCESS_REQUESTED",
   "ACCESS_DECIDED", "COAUTHORS_SET", "APPROVERS_SET", "DEVICE_APPROVED",
   "ISSUE_HELD_FOR_QUORUM", "LIMITS_CHANGED", "HEIR_SET", "HEIR_RELEASED",
   "CLOSED_BY_SILENCE", "PROPOSAL_ENDORSED", "FROZEN", "THAWED", "AGENT_GRANT_REGISTERED",
   "DELEGATION_REGISTERED", "AGENT_GRANT_REVOKED", "ACTION_GRANT_REGISTERED",
   "ACTION_REQUESTED", "ACTION_LEASED", "ACTION_DONE", "ACTION_FAILED"}

opaque(len) == len \in 1 .. MAX_DOCUMENT

\* Requests the session MAC covers.
is_session_sealed(kind) ==
  kind \in {"Activate", "Renew", "AttestOpen", "AttestEvidence", "AttestSecret"}

-------------------------------------------------------------------------------
(* Derived values. *)

\* Faulty: an echo depends on the conversation through the secret only (K23).
echo_transcript_unbound(secret, fpr, handshake) == <<"echo", secret, fpr>>

\* K31 over the raw frames, as the side that computes it sent and received them.
handshake_transcript(hello, challenge) == <<hello, challenge>>
echo_transcript(secret, fpr, handshake) == <<"echo", secret, fpr, handshake>>

derive_session_mac_key(secret, fpr) == <<"mac", secret, fpr>>
request_mac(key, kind, body) == <<key, kind, body>>

\* K27: the X25519 key is its own fingerprint.
device_fpr(public) == public

\* Faulty: the identity is the drawn value.
operation_id_drawn(seed, kind, body) == [seed |-> seed]

\* K28, over the body without the identity.
operation_id(seed, kind, body) == [seed |-> seed, kind |-> kind, of |-> body]

\* K30: one output for each key presented, and for each purpose.
server_fresh(seed, purpose, now, fpr) == <<"fresh", seed, purpose, now, fpr>>

\* Faulty: the statement is about the key only.
attest_qualify_undated(challenge, fpr) == <<"qualify", fpr>>

attest_qualify(challenge, fpr) == <<"qualify", challenge, fpr>>

-------------------------------------------------------------------------------
(* The handshake. *)

\* Length of a hybrid key, by mechanism; no other mechanism is presented here.
HybridLen == [kem \in {4, 5} |-> IF kem = 4 THEN 1216 ELSE 1249]

\* h.tpm and h.public carry a key and a length, h.kem and h.hybrid come together.
decode_hello(h) ==
  /\ h.tpm # None => h.tpm.len = 65
  /\ (h.kem = None) = (h.hybrid = None)
  /\ h.kem # None => h.kem \in DOMAIN HybridLen /\ h.hybrid.len = HybridLen[h.kem]
  /\ refuse_if_critical(h.more)

\* The keys a greeting presents.
Presented(h) ==
  {h.public} \cup {k.owner : k \in {h.tpm, h.hybrid} \ {None}}

\* length, enc, nonce of 24, length, ct, and nothing after.
decode_slot(s) == s.len = 4 + s.enc + 24 + 4 + s.ct

decode_challenge(c) ==
  /\ c.software # None
  /\ \A s \in {c.software, c.hardware, c.hybrid} \ {None} : decode_slot(s)
  /\ refuse_if_critical(c.more)

decode_proof(p) == p.len = 32 /\ refuse_if_critical(p.more)

-------------------------------------------------------------------------------
(* Activation and attestation. *)

\* The length of the key is the receiver's business, who knows the mechanism.
decode_req(r) ==
  /\ r.public > 0 /\ decode_slot(r.slot) /\ r.clock \in {None, 20}
  /\ r.len <= MAX_DOCUMENT /\ refuse_if_critical(r.more)

\* The text of a refusal is left out, and with it that one which is not UTF-8 is
\* refused.
decode_grant(g) == g.len <= MAX_DOCUMENT /\ refuse_if_critical(g.more)
decode_deny(d) == d.len <= MAX_DOCUMENT /\ refuse_if_critical(d.more)

\* The limit of each part of the evidence.
Parts ==
  [ek_public |-> 1026, ek_certificate |-> 8192, identity_public |-> 1026,
   attest |-> 1024, signature |-> 600, device_public |-> 1026]

\* No part that is there is empty; only the certificates may be missing.
decode_evidence(e) ==
  /\ DOMAIN Parts \ {"ek_certificate"} \subseteq DOMAIN e.parts
  /\ \A f \in DOMAIN e.parts : e.parts[f] \in 1 .. Parts[f]
  /\ Len(e.intermediates) <= MAX_INTERMEDIATES
  /\ \A i \in DOMAIN e.intermediates : e.intermediates[i] \in 1 .. Parts["ek_certificate"]
  /\ e.len <= MAX_DOCUMENT /\ refuse_if_critical(e.more)

\* Two parts, each with its length, that fill the whole.
check_credential(c) ==
  c.len \in 1 .. MAX_CREDENTIAL /\ c.len = 2 + c.id_object + 2 + c.secret

-------------------------------------------------------------------------------
(* Subscriptions, reports, chains. *)

encode_watch(files, since) ==
  [len |-> 9 + 16 * Cardinality(files), count |-> Cardinality(files), files |-> files, since |-> since]

\* Faulty: since is taken for the last record seen.
decode_watch_seen(b) ==
  IF b.count \in 1 .. MAX_WATCH_FILES /\ b.len = 9 + 16 * b.count
  THEN [files |-> b.files, since |-> b.since + 1] ELSE None

decode_watch(b) ==
  IF b.count \in 1 .. MAX_WATCH_FILES /\ b.len = 9 + 16 * b.count
  THEN [files |-> b.files, since |-> b.since] ELSE None

\* A record of the journal, or a sign of life.
Heartbeat == [notice |-> "Heartbeat", len |-> 0]

encode_notice(seq, e) ==
  [notice |-> "Event", len |-> 58, seq |-> seq, event |-> e.event, file_id |-> e.file_id,
   has |-> IF e.device_fpr = None THEN 0 ELSE 1, fpr |-> e.device_fpr]

\* A flag that is neither 0 nor 1 is refused; without the flag the name is dropped.
decode_notice(b) ==
  IF b.notice = "Event" /\ b.len = 58 /\ b.has \in {0, 1}
  THEN [seq |-> b.seq, event |-> b.event, file_id |-> b.file_id,
        device_fpr |-> IF b.has = 1 THEN b.fpr ELSE None]
  ELSE None

decode_report(b) == b.len = 41 /\ b.ok \in {0, 1}

\* A header under its length, and the order to the end.
decode_register(b) ==
  b.len >= 4 /\ opaque(b.header) /\ b.len - 4 >= b.header /\ opaque(b.len - 4 - b.header)

decode_endorse(b) == b.len >= 32 /\ opaque(b.len - 32)

decode_watch_author(b) ==
  b.len >= 8 /\ b.len - 8 > SIGNATURE_LEN /\ b.len - 8 <= MAX_DOCUMENT

\* A stream of documents, each under its length.
split_chain(documents) ==
  /\ Len(documents) \in 1 .. MAX_CHAIN_DOCUMENTS
  /\ \A i \in DOMAIN documents : opaque(documents[i])

\* An action grant that is there is not empty; the writer leaves an empty one out.
decode_chain_reply(b) ==
  split_chain(b.documents) /\ b.action_grant # 0 /\ refuse_if_critical(b.more)

check_refusal(why) == why.len \in 1 .. MAX_REFUSAL /\ ~why.display_unsafe

-------------------------------------------------------------------------------
(* Frames. *)

decode_request(f) ==
  f.kind \in RequestKinds /\
  CASE f.kind = "Hello" -> decode_hello(f.body)
    [] f.kind = "Prove" -> decode_proof(f.body)
    [] f.kind \in {"Activate", "Renew"} -> decode_req(f.body)
    [] f.kind = "AttestEvidence" -> decode_evidence(f.body)
    [] f.kind = "Watch" -> decode_watch(f.body) # None
    [] f.kind = "WatchAuthor" -> decode_watch_author(f.body)
    [] f.kind = "Register" -> decode_register(f.body)
    [] f.kind = "Endorse" -> decode_endorse(f.body)
    [] f.kind = "ReportAction" -> decode_report(f.body)
    [] f.kind = "DirectoryRecords" -> f.body.len = 12 /\ f.body.count \in 1 .. MAX_PAGE
    [] f.kind \in ReadElsewhere -> f.body.parses
    [] f.kind \in OpaqueRequests -> opaque(f.body.len)
    [] OTHER -> f.body.len = FixedRequests[f.kind]

decode_response(f) ==
  f.kind \in ResponseKinds /\
  CASE f.kind = "Challenge" -> decode_challenge(f.body)
    [] f.kind = "Granted" -> decode_grant(f.body)
    [] f.kind = "Denied" -> decode_deny(f.body)
    [] f.kind = "Notice" -> f.body = Heartbeat \/ decode_notice(f.body) # None
    [] f.kind = "AttestCredential" -> check_credential(f.body)
    [] f.kind = "Attested" -> f.body.len = 1 /\ f.body.basis \in {1, 2}
    [] f.kind = "Chain" -> decode_chain_reply(f.body)
    [] f.kind = "ActionRefused" -> check_refusal(f.body)
    [] f.kind \in ReadElsewhere -> f.body.parses
    [] f.kind \in OpaqueResponses -> opaque(f.body.len)
    [] f.kind \in {"Queue", "ActionQueue"} -> TRUE
    [] OTHER -> f.body.len = FixedResponses[f.kind]

================================================================================
