------------------------------- MODULE Handshake -------------------------------
(***************************************************************************)
(* A conversation of a device with the server: the greeting, the challenge *)
(* sealed to the keys presented, the echo, then requests under the session *)
(* MAC and the steps of attestation.  The documents and the derived values *)
(* are those of Wire; the two programs are outside the repository and      *)
(* follow docs/protocol.md 9.4 and 9.11.                                   *)
(*                                                                         *)
(* Every frame is seen on the way.  A greeting or a request may arrive as  *)
(* another, a device may be given the sealed components, the challenge of  *)
(* an attestation or the credential of other conversations, and a          *)
(* connection of somebody else may carry frames of earlier ones.  The      *)
(* server's generator may repeat itself (a snapshot, a cloned image), its  *)
(* clock may stand still.                                                  *)
(***************************************************************************)
EXTENDS Wire

CONSTANTS
  Devices,         \* fingerprints
  Greetings,       \* greetings anybody may send
  Bodies,          \* bodies of activations and renewals
  Chain,           \* the chain the server has for a holder
  Draws,           \* what the generator may give
  MaxConversations, \* bound: conversations
  MaxSeconds,      \* bound: the server's clock
  MaxAsked         \* bound: requests

Stranger == "stranger"

ASSUME HandshakeAssumption ==
  /\ Stranger \notin Devices /\ None \notin Devices /\ MaxConversations \in Nat /\ MaxSeconds \in Nat /\ MaxAsked \in Nat

VARIABLES
  clock,         \* of the server
  talks,         \* the conversations, as server and device have them
  seen,          \* frames that have been on the wire
  received,      \* the challenge the device of a conversation was given
  answered,      \* history: handshakes each device has echoed
  asked,         \* history: requests each device has made under a MAC
  served,        \* requests the server has acted on, with the conversation
  statements     \* what the TPMs have signed, and the challenge it was for

handvars == <<clock, talks, seen, received, answered, asked, served, statements>>

-------------------------------------------------------------------------------
(* Frames. *)

Frame(kind, body, mac) == [kind |-> kind, body |-> body, mac |-> mac]

\* A part of the secret, sealed afresh to a key.
Component(owner, part, ephemeral) ==
  [to |-> owner, part |-> part, ephemeral |-> ephemeral, enc |-> 32, ct |-> 48, len |-> 112]

\* One part for each key presented.
Challenge(h, secret, ephemeral) ==
  [software |-> Component(h.public, <<secret, 1>>, ephemeral),
   hardware |-> IF h.tpm = None THEN None ELSE Component(h.tpm.owner, <<secret, 2>>, ephemeral),
   hybrid   |-> IF h.hybrid = None THEN None ELSE Component(h.hybrid.owner, <<secret, 3>>, ephemeral),
   more |-> "none"]

\* The secret of a challenge is its parts, joined in this order.
Joined(c) ==
  <<c.software.part, IF c.hardware = None THEN None ELSE c.hardware.part,
    IF c.hybrid = None THEN None ELSE c.hybrid.part>>

\* The proof takes every component.
Opens(device, challenge) ==
  \A c \in {challenge.software, challenge.hardware, challenge.hybrid} \ {None} : c.to = device

Proof(echo) == [echo |-> echo, len |-> 32, more |-> "none"]

Evidence(statement) ==
  [statement |-> statement, parts |-> [p \in DOMAIN Parts \ {"ek_certificate"} |-> 64],
   intermediates |-> <<>>, len |-> 330, more |-> "none"]

Credential(tpm, secret) == [tpm |-> tpm, opens |-> secret, id_object |-> 68, secret |-> 256, len |-> 328]

Secret(value) == [value |-> value, len |-> 32]
Empty == [len |-> 0]

-------------------------------------------------------------------------------
(* A conversation: who is at the other end, the greeting it sent and the one *)
(* that arrived, and what the server keeps.                                  *)

Talk(who, hello, arrived) ==
  [who |-> who, sent |-> hello, hello |-> arrived, challenge |-> None, secret |-> None,
   stage |-> "new", nonce |-> None, credential |-> None, attested |-> None]

Talks == DOMAIN talks
Fpr(t) == talks[t].hello.fpr
Proven(t) == talks[t].stage = "proven"
Key(t) == derive_session_mac_key(talks[t].secret, Fpr(t))
Set(t, talk) == talks' = [talks EXCEPT ![t] = talk]

\* The hardware point a conversation has proved.
Point(t) ==
  LET h == talks[t].hello
  IN  IF h.tpm # None THEN h.tpm.owner ELSE IF h.kem = 5 THEN h.hybrid.owner ELSE None

\* A device greets with its own keys; on the way the greeting may change.
Connect(who, hello, arrived) ==
  /\ Len(talks) < MaxConversations
  /\ who # Stranger => hello.fpr = who /\ Presented(hello) = {who}
  /\ who = Stranger => arrived = hello
  /\ talks' = Append(talks, Talk(who, hello, arrived))
  /\ UNCHANGED <<clock, seen, received, answered, asked, served, statements>>

\* What an intermediary can make of the challenges sent so far.
Offered ==
  LET sent == {talks[u].challenge : u \in Talks} \ {None}
  IN  {[software |-> a.software, hardware |-> b.hardware, hybrid |-> c.hybrid, more |-> a.more] :
         a, b, c \in sent}

\* The secret is derived, its components are sealed afresh.
Greet(t, draw, ephemeral) ==
  LET h == talks[t].hello
      c == Challenge(h, server_fresh(draw, "proof", clock, h.fpr), ephemeral)
  IN  /\ talks[t].stage = "new"
      /\ decode_request(Frame("Hello", h, None)) /\ device_fpr(h.public) = h.fpr
      /\ Set(t, [talks[t] EXCEPT !.stage = "greeted", !.secret = Joined(c), !.challenge = c])
      /\ UNCHANGED <<clock, seen, received, answered, asked, served, statements>>

\* The device computes the transcript from what it sent and what it received.
Echo(t, c) ==
  LET d == talks[t].who
      hand == handshake_transcript(talks[t].sent, c)
      echo == Frame("Prove", Proof(echo_transcript(Joined(c), d, hand)), None)
  IN  /\ d \in Devices /\ \A x \in received : x[1] # t
      /\ decode_response(Frame("Challenge", c, None)) /\ Opens(d, c)
      /\ received' = received \cup {<<t, c>>}
      /\ seen' = seen \cup {echo}
      /\ answered' = answered \cup {<<d, hand>>}
      /\ UNCHANGED <<clock, talks, asked, served, statements>>

\* The server compares the echo with the one of the frames it has itself.
Prove(t, f) ==
  LET hand == handshake_transcript(talks[t].hello, talks[t].challenge)
  IN  /\ talks[t].stage = "greeted" /\ f \in seen /\ f.kind = "Prove" /\ decode_request(f)
      /\ f.body.echo = echo_transcript(talks[t].secret, Fpr(t), hand)
      /\ Set(t, [talks[t] EXCEPT !.stage = "proven"])
      /\ UNCHANGED <<clock, seen, received, answered, asked, served, statements>>

\* A device that has echoed goes on under the MAC of the secret it was given.
Send(t, kind, body) ==
  LET d == talks[t].who
  IN  \E x \in received :
        LET f == Frame(kind, body, request_mac(derive_session_mac_key(Joined(x[2]), d), kind, body))
        IN  /\ x[1] = t /\ is_session_sealed(kind)
            /\ f \notin seen
            /\ seen' = seen \cup {f} /\ asked' = asked \cup {<<d, kind, body>>}
            /\ UNCHANGED <<clock, talks, received, answered, served, statements>>

Ask(t, kind, body) == Cardinality(asked) < MaxAsked /\ Send(t, kind, body)
AskAttestation(t) == Send(t, "AttestOpen", Empty)

\* The TPM signs about a key of its own, for the challenge the device was
\* given: that of conversation u.
Certify(t, u) ==
  LET d == talks[t].who
      s == [tpm |-> d, about |-> d, extra |-> attest_qualify(talks[u].nonce, d),
            challenge |-> talks[u].nonce]
  IN  /\ d \in Devices /\ talks[u].nonce # None
      /\ s \notin statements /\ statements' = statements \cup {s}
      /\ UNCHANGED <<clock, talks, seen, received, answered, asked, served>>

\* The owner of a device may present any statement there is.
Present(t, s) == s \in statements /\ Send(t, "AttestEvidence", Evidence(s))

\* Only the TPM the credential is for gives the secret.
Recover(t, u) ==
  LET c == talks[u].credential
  IN  /\ c # None /\ decode_response(Frame("AttestCredential", c, None))
      /\ c.tpm = talks[t].who
      /\ Send(t, "AttestSecret", Secret(c.opens))

-------------------------------------------------------------------------------
(* The server reads a frame of a proven conversation. The MAC comes first.   *)

\* The MAC of a frame that was sent, over what is there when it arrives.
Authentic(t, f, kind, body) ==
  /\ is_session_sealed(kind) => f.mac # None /\ f.mac = request_mac(Key(t), kind, body)
  /\ decode_request(Frame(kind, body, None))

Serve(t, f, kind, body) ==
  /\ kind \in {"Activate", "Renew"} /\ f \in seen /\ Proven(t) /\ Authentic(t, f, kind, body)
  /\ body.fpr = Fpr(t)
  /\ <<t, kind, body>> \notin served
  /\ served' = served \cup {<<t, kind, body>>}
  /\ UNCHANGED <<clock, talks, seen, received, answered, asked, statements>>

\* Without a MAC: the name in the body is compared with the one proved.
\* (Collect in the same way.)
FetchChain(t, fpr) ==
  /\ Proven(t) /\ decode_request(Frame("FetchChain", [holder_fpr |-> fpr, len |-> 32], None))
  /\ fpr = Fpr(t) /\ decode_response(Frame("Chain", Chain, None))
  /\ <<t, "FetchChain", fpr>> \notin served
  /\ served' = served \cup {<<t, "FetchChain", fpr>>}
  /\ UNCHANGED <<clock, talks, seen, received, answered, asked, statements>>

AttestOpen(t, f, draw) ==
  /\ f \in seen /\ Proven(t) /\ Authentic(t, f, "AttestOpen", Empty)
  /\ talks[t].nonce = None /\ Point(t) # None
  /\ Set(t, [talks[t] EXCEPT !.nonce = server_fresh(draw, "attest", clock, Fpr(t))])
  /\ UNCHANGED <<clock, seen, received, answered, asked, served, statements>>

\* The statement is about the point proved here, and made for this challenge.
AttestEvidence(t, f, body, draw) ==
  LET s == body.statement
  IN  /\ f \in seen /\ Proven(t) /\ Authentic(t, f, "AttestEvidence", body)
      /\ talks[t].nonce # None /\ talks[t].credential = None
      /\ s.about = Point(t) /\ s.extra = attest_qualify(talks[t].nonce, Point(t))
      /\ Set(t, [talks[t] EXCEPT !.credential =
                   Credential(s.tpm, server_fresh(draw, "credential", clock, Fpr(t)))])
      /\ UNCHANGED <<clock, seen, received, answered, asked, served, statements>>

AttestSecret(t, f, body) ==
  /\ f \in seen /\ Proven(t) /\ Authentic(t, f, "AttestSecret", body)
  /\ talks[t].credential # None /\ talks[t].attested = None
  /\ body.value = talks[t].credential.opens
  /\ Set(t, [talks[t] EXCEPT !.attested = talks[t].nonce])
  /\ UNCHANGED <<clock, seen, received, answered, asked, served, statements>>

Second ==
  /\ clock < MaxSeconds /\ clock' = clock + 1
  /\ UNCHANGED <<talks, seen, received, answered, asked, served, statements>>

-------------------------------------------------------------------------------

HandInit ==
  /\ clock = 0 /\ talks = <<>> /\ seen = {} /\ received = {} /\ answered = {} /\ asked = {}
  /\ served = {} /\ statements = {}

OpenNext ==
  \/ \E who \in Devices \cup {Stranger}, hello, arrived \in Greetings : Connect(who, hello, arrived)
  \/ \E t \in Talks :
       \/ \E draw, ephemeral \in Draws : Greet(t, draw, ephemeral)
       \/ \E c \in Offered : Echo(t, c)
       \/ \E f \in seen : Prove(t, f)

RequestNext ==
  \E t \in Talks :
    \/ \E kind \in {"Activate", "Renew"}, body \in Bodies :
         Ask(t, kind, body) \/ \E f \in seen : Serve(t, f, kind, body)
    \/ \E fpr \in Devices : FetchChain(t, fpr)

AttestNext ==
  Second \/ \E t \in Talks :
    \/ AskAttestation(t) \/ \E u \in Talks : Certify(t, u) \/ Recover(t, u)
    \/ \E s \in statements : Present(t, s)
    \/ \E f \in seen :
         \/ \E draw \in Draws : AttestOpen(t, f, draw)
         \/ \E s \in statements, draw \in Draws : AttestEvidence(t, f, Evidence(s), draw)
         \/ \E u \in Talks :
              talks[u].credential # None /\ AttestSecret(t, f, Secret(talks[u].credential.opens))

HandNext == OpenNext \/ RequestNext \/ AttestNext

HandSpec == HandInit /\ [][HandNext]_handvars

-------------------------------------------------------------------------------
(* Properties. *)

\* Conversations belong to the holder of the keys.  When the server takes a
\* conversation for a device's, that device has echoed the very greeting and
\* challenge the server has, so that it presented every key in them itself; and
\* what is done under the MAC is what the device asked.  Holds although the
\* generator repeats itself, frames are changed or come from elsewhere, and the
\* device is given components of several challenges.
\* (kdf.rs echo_transcript, activation.rs decode_hello, is_session_sealed)
ProvenIdentity ==
  /\ \A t \in Talks : Proven(t) =>
       LET h == talks[t].hello
       IN  /\ <<h.fpr, handshake_transcript(h, talks[t].challenge)>> \in answered
           /\ Presented(h) = {h.fpr}
  /\ \A x \in served : is_session_sealed(x[2]) => <<Fpr(x[1]), x[2], x[3]>> \in asked

\* A conversation that is attested rests on what the TPM of the proven point
\* has signed about that point for the challenge of this conversation.  A
\* statement from before fits only if the whole challenge is the same, drawn
\* alike for this device in the same second.  (kdf.rs attest_qualify, server_fresh)
AttestedHere ==
  \A t \in Talks : talks[t].attested # None =>
    \E s \in statements :
      s.tpm = Fpr(t) /\ s.about = Point(t) /\ s.challenge = talks[t].nonce

================================================================================
