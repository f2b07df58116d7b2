----------------------------- MODULE SessionProofs -----------------------------
(***************************************************************************)
(* The safety properties of Handshake, for every set of devices, greetings *)
(* and bodies, every draw of the generator and every bound: any number of  *)
(* conversations, with requests and attestations in any order.  Then those *)
(* of Operations, for every set of clients, bodies, seeds, documents: what *)
(* an operation repeated over lost and made-up answers and crashes counts, *)
(* when its grant may be lost, and that a subscription has no gaps.        *)
(***************************************************************************)
EXTENDS Handshake, Operations, SequenceTheorems, TLAPS

-------------------------------------------------------------------------------
(* Handshake: the invariant. *)

\* What the conversations are made of.
Secrets ==
  {server_fresh(draw, purpose, at, hello.fpr) :
     draw \in Draws, purpose \in {"proof", "attest", "credential"},
     at \in 0 .. MaxSeconds, hello \in Greetings}

Challenges ==
  {Challenge(hello, secret, ephemeral) :
     hello \in Greetings, secret \in Secrets, ephemeral \in Draws}

Joins == {Joined(c) : c \in Challenges}

Credentials == {Credential(tpm, secret) : tpm \in Devices, secret \in Secrets}

Conversation ==
  [who : Devices \cup {Stranger}, sent : Greetings, hello : Greetings,
   challenge : Challenges \cup {None}, secret : Joins \cup {None},
   stage : {"new", "greeted", "proven"}, nonce : Secrets \cup {None},
   credential : Credentials \cup {None}, attested : Secrets \cup {None}]

\* A device greets with its own keys; a greeting that was answered is well
\* formed, and has a challenge.
Greeted(talk) ==
  /\ talk.who # Stranger => talk.sent.fpr = talk.who /\ Presented(talk.sent) = {talk.who}
  /\ talk.stage # "new" =>
       decode_hello(talk.hello) /\ talk.challenge \in Challenges /\ talk.secret \in Joins

TalksOK ==
  /\ clock \in 0 .. MaxSeconds /\ talks \in Seq(Conversation)
  /\ \A t \in Talks : Greeted(talks[t])

\* A handshake that was echoed is one a device greeted for, with its own keys.
AnsweredOK ==
  \A a \in answered : \E hello \in Greetings : \E c :
    a = <<hello.fpr, handshake_transcript(hello, c)>> /\ Presented(hello) = {hello.fpr}

\* An echo on the wire is one of these, a MAC that of a request made.
SeenOK ==
  \A f \in seen :
    /\ f.kind = "Prove" => \E a \in answered : \E secret :
         f.body.echo = echo_transcript(secret, a[1], a[2])
    /\ f.mac # None => \E x \in asked : \E secret :
         x = <<x[1], x[2], x[3]>>
         /\ f.mac = request_mac(derive_session_mac_key(secret, x[1]), x[2], x[3])

\* A proven conversation was echoed as the server has it.
ProvenOK ==
  \A t \in Talks : Proven(t) =>
    /\ <<Fpr(t), handshake_transcript(talks[t].hello, talks[t].challenge)>> \in answered
    /\ Presented(talks[t].hello) = {Fpr(t)}

ServedOK ==
  \A x \in served :
    /\ x[1] \in Talks
    /\ is_session_sealed(x[2]) => <<Fpr(x[1]), x[2], x[3]>> \in asked

\* A TPM signs about itself, for the challenge it was given.
StatementsOK ==
  \A s \in statements :
    s.tpm \in Devices /\ s.about = s.tpm /\ s.extra = attest_qualify(s.challenge, s.tpm)

\* A credential rests on a statement for this conversation.
AttestOK ==
  \A t \in Talks :
    /\ talks[t].credential # None =>
         /\ talks[t].nonce # None
         /\ \E s \in statements :
              s.tpm = Fpr(t) /\ s.about = Point(t) /\ s.challenge = talks[t].nonce
    /\ talks[t].attested # None => talks[t].credential # None

HandInv ==
  /\ TalksOK /\ AnsweredOK /\ SeenOK /\ ProvenOK /\ ServedOK /\ StatementsOK /\ AttestOK

-------------------------------------------------------------------------------
(* Steps. *)

\* The kinds of step, with every request of a device as a Send.
LEMMA HandCases ==
  ASSUME [HandNext]_handvars
  PROVE  \/ \E who \in Devices \cup {Stranger}, hello, arrived \in Greetings :
              Connect(who, hello, arrived)
         \/ \E t \in Talks :
              \/ \E draw, ephemeral \in Draws : Greet(t, draw, ephemeral)
              \/ \E c : Echo(t, c)
              \/ \E f \in seen : Prove(t, f)
              \/ \E kind, body : Send(t, kind, body)
              \/ \E f \in seen : \E kind, body : Serve(t, f, kind, body)
              \/ \E fpr \in Devices : FetchChain(t, fpr)
              \/ \E u \in Talks : Certify(t, u)
              \/ \E f \in seen, draw \in Draws : AttestOpen(t, f, draw)
              \/ \E f \in seen, s \in statements, draw \in Draws :
                   AttestEvidence(t, f, Evidence(s), draw)
              \/ \E f \in seen : \E body : AttestSecret(t, f, body)
         \/ Second
         \/ UNCHANGED handvars
BY DEF HandNext, OpenNext, RequestNext, AttestNext, Ask, AskAttestation, Present, Recover

\* A conversation replaced by one of the type leaves the others as they are.
LEMMA SetTalk ==
  ASSUME TalksOK, NEW t \in Talks, NEW talk \in Conversation, Set(t, talk)
  PROVE  /\ talks' \in Seq(Conversation) /\ Talks' = Talks
         /\ talks'[t] = talk
         /\ \A u \in Talks : u # t => talks'[u] = talks[u]
<1>1. talks \in Seq(Conversation) /\ talks' = [talks EXCEPT ![t] = talk] /\ t \in DOMAIN talks
  BY DEF TalksOK, Set, Talks
<1> QED BY <1>1 DEF Talks

\* A conversation of the sequence has the type.
LEMMA TalkTyped ==
  ASSUME TalksOK, NEW t \in Talks
  PROVE  talks[t] \in Conversation /\ Greeted(talks[t])
<1>1. talks \in Seq(Conversation) /\ t \in DOMAIN talks
  BY DEF TalksOK, Talks
<1> QED BY <1>1 DEF TalksOK

\* A conversation that begins.
LEMMA ConnectAdds ==
  ASSUME TalksOK, NEW who \in Devices \cup {Stranger}, NEW hello \in Greetings,
         NEW arrived \in Greetings, Connect(who, hello, arrived)
  PROVE  /\ talks' \in Seq(Conversation) /\ Talks \subseteq Talks'
         /\ \A u \in Talks : talks'[u] = talks[u]
         /\ \A u \in Talks' \ Talks : talks'[u] = Talk(who, hello, arrived)
<1>1. talks \in Seq(Conversation) /\ talks' = Append(talks, Talk(who, hello, arrived))
  BY DEF TalksOK, Connect
<1>2. Talk(who, hello, arrived) \in Conversation
  BY DEF Talk, Conversation
<1> HIDE DEF Conversation, Talk
<1>3. /\ Len(talks) \in Nat /\ DOMAIN talks = 1 .. Len(talks)
      /\ talks' \in Seq(Conversation) /\ DOMAIN talks' = 1 .. Len(talks) + 1
      /\ \A i \in 1 .. Len(talks) : talks'[i] = talks[i]
      /\ talks'[Len(talks) + 1] = Talk(who, hello, arrived)
  BY <1>1, <1>2
<1> QED BY <1>3 DEF Talks

\* A greeting that was read is well formed.
LEMMA HelloRead ==
  ASSUME NEW h, decode_request(Frame("Hello", h, None))
  PROVE  decode_hello(h)
<1>1. Frame("Hello", h, None).kind = "Hello" /\ Frame("Hello", h, None).body = h
  BY DEF Frame
<1> QED BY <1>1 DEF decode_request, ReadElsewhere, OpaqueRequests

\* What the server makes of a greeting.
LEMMA GreetSets ==
  ASSUME TalksOK, NEW t \in Talks, NEW draw \in Draws, NEW ephemeral \in Draws,
         Greet(t, draw, ephemeral)
  PROVE  \E talk \in Conversation :
           /\ Set(t, talk) /\ talks[t].stage = "new" /\ talk.stage = "greeted" /\ Greeted(talk)
           /\ talk.hello = talks[t].hello /\ talk.who = talks[t].who /\ talk.sent = talks[t].sent
           /\ talk.nonce = talks[t].nonce /\ talk.credential = talks[t].credential
           /\ talk.attested = talks[t].attested
<1> DEFINE h == talks[t].hello
           secret == server_fresh(draw, "proof", clock, h.fpr)
           c == Challenge(h, secret, ephemeral)
<1>1. talks[t] \in Conversation /\ Greeted(talks[t])
  BY TalkTyped
<1>2. h \in Greetings
  BY <1>1 DEF Conversation
<1>3. secret \in Secrets
  BY <1>2 DEF Secrets, TalksOK
<1>4. c \in Challenges
  BY <1>2, <1>3 DEF Challenges
<1>5. talks[t].stage = "new" /\ decode_hello(h)
      /\ Set(t, [talks[t] EXCEPT !.stage = "greeted", !.secret = Joined(c), !.challenge = c])
  BY HelloRead DEF Greet
<1>join. PICK join \in Joins : join = Joined(c)
  BY <1>4 DEF Joins
<1> HIDE DEF h, secret, c
<1>6. PICK talk : talk = [talks[t] EXCEPT !.stage = "greeted", !.secret = join, !.challenge = c]
  OBVIOUS
<1>7. /\ talk \in Conversation /\ talk.stage = "greeted" /\ talk.hello = talks[t].hello
      /\ talk.who = talks[t].who /\ talk.sent = talks[t].sent /\ talk.challenge = c
      /\ talk.secret = join
      /\ talk.nonce = talks[t].nonce /\ talk.credential = talks[t].credential
      /\ talk.attested = talks[t].attested
  BY <1>1, <1>4, <1>6 DEF Conversation
<1>8. Greeted(talk)
  BY <1>1, <1>4, <1>5, <1>7 DEF Greeted, h
<1> QED BY <1>5, <1>join, <1>6, <1>7, <1>8

\* A proof moves the stage, nothing else.
LEMMA ProveSets ==
  ASSUME TalksOK, NEW t \in Talks, NEW f, Prove(t, f)
  PROVE  \E talk \in Conversation :
           /\ Set(t, talk) /\ talk.stage = "proven" /\ talks[t].stage = "greeted" /\ Greeted(talk)
           /\ talk.hello = talks[t].hello /\ talk.who = talks[t].who /\ talk.sent = talks[t].sent
           /\ talk.challenge = talks[t].challenge /\ talk.secret = talks[t].secret
           /\ talk.nonce = talks[t].nonce /\ talk.credential = talks[t].credential
           /\ talk.attested = talks[t].attested
<1>1. talks[t] \in Conversation /\ Greeted(talks[t])
  BY TalkTyped
<1>2. talks[t].stage = "greeted" /\ Set(t, [talks[t] EXCEPT !.stage = "proven"])
  BY DEF Prove
<1>3. PICK talk : talk = [talks[t] EXCEPT !.stage = "proven"]
  OBVIOUS
<1>4. /\ talk \in Conversation /\ talk.stage = "proven"
      /\ talk.hello = talks[t].hello /\ talk.who = talks[t].who /\ talk.sent = talks[t].sent
      /\ talk.challenge = talks[t].challenge /\ talk.secret = talks[t].secret
      /\ talk.nonce = talks[t].nonce /\ talk.credential = talks[t].credential
      /\ talk.attested = talks[t].attested
  BY <1>1, <1>3 DEF Conversation
<1>5. Greeted(talk)
  BY <1>1, <1>2, <1>4 DEF Greeted
<1> QED BY <1>2, <1>3, <1>4, <1>5

\* The steps of attestation change the three fields of attestation only, one
\* at a time.
LEMMA AttestSets ==
  ASSUME TalksOK, StatementsOK, NEW t \in Talks, NEW f,
         \/ \E draw \in Draws : AttestOpen(t, f, draw)
         \/ \E s \in statements, draw \in Draws : AttestEvidence(t, f, Evidence(s), draw)
         \/ \E body : AttestSecret(t, f, body)
  PROVE  \E talk \in Conversation :
           /\ Set(t, talk) /\ Greeted(talk) /\ talk.stage = talks[t].stage
           /\ talk.hello = talks[t].hello /\ talk.who = talks[t].who /\ talk.sent = talks[t].sent
           /\ talk.challenge = talks[t].challenge /\ talk.secret = talks[t].secret
           /\ \/ /\ talks[t].nonce = None
                 /\ talk.credential = talks[t].credential /\ talk.attested = talks[t].attested
              \/ /\ talk.nonce = talks[t].nonce /\ talk.nonce # None
                 /\ talk.attested = talks[t].attested /\ talks[t].credential = None /\ Proven(t)
                 /\ \E s \in statements :
                      s.about = Point(t) /\ s.extra = attest_qualify(talks[t].nonce, Point(t))
              \/ /\ talk.nonce = talks[t].nonce
                 /\ talk.credential = talks[t].credential /\ talk.credential # None
<1>1. talks[t] \in Conversation /\ Greeted(talks[t])
  BY TalkTyped
<1>2. Fpr(t) \in {hello.fpr : hello \in Greetings} /\ clock \in 0 .. MaxSeconds
  BY <1>1 DEF Fpr, Conversation, TalksOK
<1>3. ASSUME NEW draw \in Draws, NEW purpose \in {"proof", "attest", "credential"}
      PROVE  server_fresh(draw, purpose, clock, Fpr(t)) \in Secrets
  BY <1>2 DEF Secrets
<1>4. ASSUME NEW draw \in Draws, AttestOpen(t, f, draw)
      PROVE  \E talk \in Conversation :
           /\ Set(t, talk) /\ Greeted(talk) /\ talk.stage = talks[t].stage
           /\ talk.hello = talks[t].hello /\ talk.who = talks[t].who /\ talk.sent = talks[t].sent
           /\ talk.challenge = talks[t].challenge /\ talk.secret = talks[t].secret
           /\ talks[t].nonce = None
           /\ talk.credential = talks[t].credential /\ talk.attested = talks[t].attested
  <2>1. PICK x \in Secrets : x = server_fresh(draw, "attest", clock, Fpr(t))
    BY <1>3
  <2>2. PICK talk : talk = [talks[t] EXCEPT !.nonce = x]
    OBVIOUS
  <2>3. Set(t, talk) /\ talks[t].nonce = None
    BY <1>4, <2>1, <2>2 DEF AttestOpen
  <2>4. /\ talk \in Conversation /\ talk.stage = talks[t].stage
        /\ talk.hello = talks[t].hello /\ talk.who = talks[t].who /\ talk.sent = talks[t].sent
        /\ talk.challenge = talks[t].challenge /\ talk.secret = talks[t].secret
        /\ talk.credential = talks[t].credential /\ talk.attested = talks[t].attested
    BY <1>1, <2>1, <2>2 DEF Conversation
  <2> QED BY <1>1, <2>3, <2>4 DEF Greeted
<1>5. ASSUME NEW s \in statements, NEW draw \in Draws, AttestEvidence(t, f, Evidence(s), draw)
      PROVE  \E talk \in Conversation :
           /\ Set(t, talk) /\ Greeted(talk) /\ talk.stage = talks[t].stage
           /\ talk.hello = talks[t].hello /\ talk.who = talks[t].who /\ talk.sent = talks[t].sent
           /\ talk.challenge = talks[t].challenge /\ talk.secret = talks[t].secret
           /\ talk.nonce = talks[t].nonce /\ talk.nonce # None
           /\ talk.attested = talks[t].attested /\ talks[t].credential = None /\ Proven(t)
           /\ s.about = Point(t) /\ s.extra = attest_qualify(talks[t].nonce, Point(t))
  <2>1. PICK x : x = Credential(s.tpm, server_fresh(draw, "credential", clock, Fpr(t)))
    OBVIOUS
  <2>2. x \in Credentials
    BY <1>3, <2>1 DEF Credentials, StatementsOK
  <2>3. Evidence(s).statement = s
    BY DEF Evidence
  <2>4. PICK talk : talk = [talks[t] EXCEPT !.credential = x]
    OBVIOUS
  <2>5. /\ Set(t, talk) /\ talks[t].nonce # None /\ talks[t].credential = None /\ Proven(t)
        /\ s.about = Point(t) /\ s.extra = attest_qualify(talks[t].nonce, Point(t))
    BY <1>5, <2>1, <2>3, <2>4 DEF AttestEvidence
  <2>6. /\ talk \in Conversation /\ talk.stage = talks[t].stage
        /\ talk.hello = talks[t].hello /\ talk.who = talks[t].who /\ talk.sent = talks[t].sent
        /\ talk.challenge = talks[t].challenge /\ talk.secret = talks[t].secret
        /\ talk.nonce = talks[t].nonce /\ talk.attested = talks[t].attested
    BY <1>1, <2>2, <2>4 DEF Conversation
  <2> QED BY <1>1, <2>5, <2>6 DEF Greeted
<1>6. ASSUME NEW body, AttestSecret(t, f, body)
      PROVE  \E talk \in Conversation :
           /\ Set(t, talk) /\ Greeted(talk) /\ talk.stage = talks[t].stage
           /\ talk.hello = talks[t].hello /\ talk.who = talks[t].who /\ talk.sent = talks[t].sent
           /\ talk.challenge = talks[t].challenge /\ talk.secret = talks[t].secret
           /\ talk.nonce = talks[t].nonce
           /\ talk.credential = talks[t].credential /\ talk.credential # None
  <2>1. PICK talk : talk = [talks[t] EXCEPT !.attested = talks[t].nonce]
    OBVIOUS
  <2>2. Set(t, talk) /\ talks[t].credential # None
    BY <1>6, <2>1 DEF AttestSecret
  <2>3. /\ talk \in Conversation /\ talk.stage = talks[t].stage
        /\ talk.hello = talks[t].hello /\ talk.who = talks[t].who /\ talk.sent = talks[t].sent
        /\ talk.challenge = talks[t].challenge /\ talk.secret = talks[t].secret
        /\ talk.nonce = talks[t].nonce /\ talk.credential = talks[t].credential
    BY <1>1, <2>1 DEF Conversation
  <2> QED BY <1>1, <2>2, <2>3 DEF Greeted
<1> QED BY <1>4, <1>5, <1>6

\* The first state satisfies the invariant.
LEMMA HandInitEstablishes == HandInit => HandInv
<1> SUFFICES ASSUME HandInit PROVE HandInv
  OBVIOUS
<1>1. clock \in 0 .. MaxSeconds /\ talks \in Seq(Conversation) /\ Talks = {}
  BY HandshakeAssumption DEF HandInit, Talks
<1>2. TalksOK /\ ProvenOK /\ AttestOK
  BY <1>1 DEF TalksOK, ProvenOK, AttestOK
<1>3. AnsweredOK /\ SeenOK /\ ServedOK /\ StatementsOK
  BY DEF HandInit, AnsweredOK, SeenOK, ServedOK, StatementsOK
<1> QED BY <1>2, <1>3 DEF HandInv

\* The conversations keep their shape, and a conversation its greeting.
LEMMA TalksStep ==
  ASSUME HandInv, [HandNext]_handvars
  PROVE  /\ TalksOK'
         /\ \A u \in Talks : u \in Talks' /\ talks'[u].hello = talks[u].hello
<1>0. TalksOK /\ StatementsOK
  BY DEF HandInv
<1>1. ASSUME NEW who \in Devices \cup {Stranger}, NEW hello \in Greetings,
             NEW arrived \in Greetings, Connect(who, hello, arrived)
      PROVE  TalksOK' /\ \A u \in Talks : u \in Talks' /\ talks'[u].hello = talks[u].hello
  <2>1. /\ talks' \in Seq(Conversation) /\ Talks \subseteq Talks'
        /\ \A u \in Talks : talks'[u] = talks[u]
        /\ \A u \in Talks' \ Talks : talks'[u] = Talk(who, hello, arrived)
    BY <1>0, <1>1, ConnectAdds
  <2>2. Greeted(Talk(who, hello, arrived))
    BY <1>1 DEF Connect, Greeted, Talk
  <2>3. clock' = clock
    BY <1>1 DEF Connect
  <2>4. \A u \in Talks' : Greeted(talks'[u])
    BY <1>0, <2>1, <2>2 DEF TalksOK
  <2> QED BY <1>0, <2>1, <2>3, <2>4 DEF TalksOK, Greeted
<1>2. ASSUME NEW t \in Talks, NEW talk \in Conversation, Set(t, talk), Greeted(talk),
             talk.hello = talks[t].hello, clock' = clock
      PROVE  TalksOK' /\ \A u \in Talks : u \in Talks' /\ talks'[u].hello = talks[u].hello
  <2>1. /\ talks' \in Seq(Conversation) /\ Talks' = Talks
        /\ talks'[t] = talk
        /\ \A u \in Talks : u # t => talks'[u] = talks[u]
    BY <1>0, <1>2, SetTalk
  <2>2. \A u \in Talks' : Greeted(talks'[u])
    BY <1>0, <1>2, <2>1 DEF TalksOK
  <2> QED BY <1>0, <1>2, <2>1, <2>2 DEF TalksOK, Greeted
<1>3. CASE UNCHANGED talks /\ clock' \in 0 .. MaxSeconds
  BY <1>0, <1>3 DEF TalksOK, Talks, Greeted
<1>4. clock \in 0 .. MaxSeconds
  BY <1>0 DEF TalksOK
<1>5. ASSUME NEW t \in Talks, NEW draw \in Draws, NEW ephemeral \in Draws,
             Greet(t, draw, ephemeral)
      PROVE  TalksOK' /\ \A u \in Talks : u \in Talks' /\ talks'[u].hello = talks[u].hello
  <2>1. clock' = clock
    BY <1>5 DEF Greet
  <2> QED BY <1>0, <1>2, <1>5, <2>1, GreetSets
<1>6. ASSUME NEW t \in Talks, NEW f, Prove(t, f)
      PROVE  TalksOK' /\ \A u \in Talks : u \in Talks' /\ talks'[u].hello = talks[u].hello
  <2>1. clock' = clock
    BY <1>6 DEF Prove
  <2> QED BY <1>0, <1>2, <1>6, <2>1, ProveSets
<1>7. ASSUME NEW t \in Talks, NEW f,
             \/ \E draw \in Draws : AttestOpen(t, f, draw)
             \/ \E s \in statements, draw \in Draws : AttestEvidence(t, f, Evidence(s), draw)
             \/ \E body : AttestSecret(t, f, body)
      PROVE  TalksOK' /\ \A u \in Talks : u \in Talks' /\ talks'[u].hello = talks[u].hello
  <2>1. clock' = clock
    BY <1>7 DEF AttestOpen, AttestEvidence, AttestSecret
  <2>2. PICK talk \in Conversation :
          Set(t, talk) /\ Greeted(talk) /\ talk.hello = talks[t].hello
    BY <1>0, <1>7, AttestSets
  <2> QED BY <1>2, <2>1, <2>2
<1>8. CASE Second
  <2>1. clock' \in 0 .. MaxSeconds /\ UNCHANGED talks
    BY <1>4, <1>8, HandshakeAssumption DEF Second
  <2> QED BY <1>3, <2>1
<1>9. ASSUME NEW t \in Talks,
             \/ \E c : Echo(t, c)
             \/ \E u \in Talks : Certify(t, u)
             \/ \E fpr \in Devices : FetchChain(t, fpr)
             \/ \E kind, body : Send(t, kind, body)
             \/ \E f \in seen : \E kind, body : Serve(t, f, kind, body)
      PROVE  TalksOK' /\ \A u \in Talks : u \in Talks' /\ talks'[u].hello = talks[u].hello
  <2>1. UNCHANGED <<talks, clock>>
    BY <1>9 DEF Echo, Certify, FetchChain, Send, Serve
  <2> QED BY <1>3, <1>4, <2>1
<1>10. CASE UNCHANGED handvars
  BY <1>3, <1>4, <1>10 DEF handvars
<1> QED BY <1>1, <1>5, <1>6, <1>7, <1>8, <1>9, <1>10, HandCases

\* What an Echo puts on the wire.
LEMMA EchoGives ==
  ASSUME HandInv, NEW t \in Talks, NEW c, Echo(t, c)
  PROVE  \E hello, secret, f :
           /\ hello \in Greetings /\ Presented(hello) = {hello.fpr}
           /\ f.kind = "Prove" /\ f.mac = None
           /\ f.body.echo = echo_transcript(secret, hello.fpr, handshake_transcript(hello, c))
           /\ seen' = seen \cup {f}
           /\ answered' = answered \cup {<<hello.fpr, handshake_transcript(hello, c)>>}
<1>0. TalksOK
  BY DEF HandInv
<1>1. talks[t] \in Conversation /\ Greeted(talks[t])
  BY <1>0, TalkTyped
<1> DEFINE d == talks[t].who
           hello == talks[t].sent
           hand == handshake_transcript(hello, c)
           secret == Joined(c)
           f == Frame("Prove", Proof(echo_transcript(secret, d, hand)), None)
<1>2. d \in Devices /\ seen' = seen \cup {f} /\ answered' = answered \cup {<<d, hand>>}
  BY DEF Echo
<1>3. d # Stranger
  BY <1>2, HandshakeAssumption
<1>4. hello \in Greetings /\ hello.fpr = d /\ Presented(hello) = {d}
  BY <1>1, <1>3 DEF Conversation, Greeted
<1>5. f.kind = "Prove" /\ f.mac = None /\ f.body.echo = echo_transcript(secret, d, hand)
  BY DEF Frame, Proof
<1> HIDE DEF f, d, hello, secret
<1> QED BY <1>2, <1>4, <1>5

\* What a Send puts on the wire.
LEMMA SendGives ==
  ASSUME NEW t \in Talks, NEW kind, NEW body, Send(t, kind, body)
  PROVE  \E secret, f :
           /\ f.kind = kind /\ kind # "Prove"
           /\ f.mac = request_mac(derive_session_mac_key(secret, talks[t].who), kind, body)
           /\ seen' = seen \cup {f}
           /\ asked' = asked \cup {<<talks[t].who, kind, body>>}
<1> DEFINE d == talks[t].who
           F(secret) == Frame(kind, body, request_mac(derive_session_mac_key(secret, d), kind, body))
<1>1. PICK x \in received :
        /\ is_session_sealed(kind)
        /\ seen' = seen \cup {F(Joined(x[2]))} /\ asked' = asked \cup {<<d, kind, body>>}
  BY DEF Send
<1>2. PICK secret : secret = Joined(x[2])
  OBVIOUS
<1>3. /\ F(secret).kind = kind
      /\ F(secret).mac = request_mac(derive_session_mac_key(secret, d), kind, body)
  BY DEF Frame
<1>4. kind # "Prove"
  BY <1>1 DEF is_session_sealed
<1> HIDE DEF F, d
<1>5. \E g :
           /\ g.kind = kind /\ kind # "Prove"
           /\ g.mac = request_mac(derive_session_mac_key(secret, d), kind, body)
           /\ seen' = seen \cup {g}
           /\ asked' = asked \cup {<<d, kind, body>>}
  BY <1>1, <1>2, <1>3, <1>4
<1> QED BY <1>5 DEF d

\* Frames and what they stand for.
LEMMA WireStep ==
  ASSUME HandInv, [HandNext]_handvars
  PROVE  AnsweredOK' /\ SeenOK' /\ answered \subseteq answered' /\ asked \subseteq asked'
<1>0. AnsweredOK /\ SeenOK
  BY DEF HandInv
<1>1. ASSUME NEW t \in Talks, NEW c, Echo(t, c)
      PROVE  AnsweredOK' /\ SeenOK' /\ answered \subseteq answered' /\ asked \subseteq asked'
  <2>1. PICK hello, secret, f :
           /\ hello \in Greetings /\ Presented(hello) = {hello.fpr}
           /\ f.kind = "Prove" /\ f.mac = None
           /\ f.body.echo = echo_transcript(secret, hello.fpr, handshake_transcript(hello, c))
           /\ seen' = seen \cup {f}
           /\ answered' = answered \cup {<<hello.fpr, handshake_transcript(hello, c)>>}
    BY <1>1, EchoGives
  <2>2. asked' = asked
    BY <1>1 DEF Echo
  <2>3. PICK a : a = <<hello.fpr, handshake_transcript(hello, c)>>
    OBVIOUS
  <2>4. AnsweredOK'
    BY <1>0, <2>1 DEF AnsweredOK
  <2>5. a[1] = hello.fpr /\ a[2] = handshake_transcript(hello, c) /\ answered' = answered \cup {a}
    BY <2>1, <2>3
  <2>6. SeenOK'
    <3> SUFFICES ASSUME NEW g \in seen'
                 PROVE  /\ g.kind = "Prove" => \E b \in answered' : \E sec :
                             g.body.echo = echo_transcript(sec, b[1], b[2])
                        /\ g.mac # None => \E x \in asked' : \E sec :
                             x = <<x[1], x[2], x[3]>>
                             /\ g.mac = request_mac(derive_session_mac_key(sec, x[1]), x[2], x[3])
      BY DEF SeenOK, echo_transcript, request_mac, derive_session_mac_key
    <3>1. CASE g = f
      BY <2>1, <2>5, <3>1
    <3>2. CASE g \in seen
      BY <1>0, <2>2, <2>5, <3>2 DEF SeenOK
    <3> QED BY <2>1, <3>1, <3>2
  <2> QED BY <2>2, <2>4, <2>5, <2>6
<1>2. ASSUME NEW t \in Talks, NEW kind, NEW body, Send(t, kind, body)
      PROVE  AnsweredOK' /\ SeenOK' /\ answered \subseteq answered' /\ asked \subseteq asked'
  <2>0. PICK d : d = talks[t].who
    OBVIOUS
  <2>1. PICK secret, f :
           /\ f.kind = kind /\ kind # "Prove"
           /\ f.mac = request_mac(derive_session_mac_key(secret, d), kind, body)
           /\ seen' = seen \cup {f}
           /\ asked' = asked \cup {<<d, kind, body>>}
    BY <1>2, <2>0, SendGives
  <2>2. answered' = answered
    BY <1>2 DEF Send
  <2>3. AnsweredOK'
    BY <1>0, <2>2 DEF AnsweredOK
  <2>4. PICK new : new = <<d, kind, body>>
    OBVIOUS
  <2>5. /\ new[1] = d /\ new[2] = kind /\ new[3] = body /\ new = <<new[1], new[2], new[3]>>
        /\ asked' = asked \cup {new}
    BY <2>1, <2>4
  <2>6. SeenOK'
    <3> SUFFICES ASSUME NEW g \in seen'
                 PROVE  /\ g.kind = "Prove" => \E b \in answered' : \E sec :
                             g.body.echo = echo_transcript(sec, b[1], b[2])
                        /\ g.mac # None => \E x \in asked' : \E sec :
                             x = <<x[1], x[2], x[3]>>
                             /\ g.mac = request_mac(derive_session_mac_key(sec, x[1]), x[2], x[3])
      BY DEF SeenOK, echo_transcript, request_mac, derive_session_mac_key
    <3>1. CASE g = f
      BY <2>1, <2>5, <3>1
    <3>2. CASE g \in seen
      BY <1>0, <2>2, <2>5, <3>2 DEF SeenOK
    <3> QED BY <2>1, <3>1, <3>2
  <2> QED BY <2>2, <2>3, <2>5, <2>6
<1>3. CASE UNCHANGED <<seen, answered, asked>>
  <2>1. AnsweredOK'
    BY <1>0, <1>3 DEF AnsweredOK
  <2>2. SeenOK'
    BY <1>0, <1>3 DEF SeenOK, echo_transcript, request_mac, derive_session_mac_key
  <2> QED BY <1>3, <2>1, <2>2
<1>4. ASSUME NEW t \in Talks,
             \/ \E draw, ephemeral \in Draws : Greet(t, draw, ephemeral)
             \/ \E f \in seen : Prove(t, f)
             \/ \E f \in seen : \E kind, body : Serve(t, f, kind, body)
             \/ \E fpr \in Devices : FetchChain(t, fpr)
             \/ \E u \in Talks : Certify(t, u)
             \/ \E f \in seen, draw \in Draws : AttestOpen(t, f, draw)
             \/ \E f \in seen, s \in statements, draw \in Draws :
                  AttestEvidence(t, f, Evidence(s), draw)
             \/ \E f \in seen : \E body : AttestSecret(t, f, body)
      PROVE  UNCHANGED <<seen, answered, asked>>
  BY <1>4 DEF Greet, Prove, Serve, FetchChain, Certify, AttestOpen, AttestEvidence, AttestSecret
<1>5. CASE Second \/ UNCHANGED handvars
           \/ \E who \in Devices \cup {Stranger}, hello, arrived \in Greetings :
                Connect(who, hello, arrived)
  BY <1>3, <1>5 DEF Second, handvars, Connect
<1> QED BY <1>1, <1>2, <1>3, <1>4, <1>5, HandCases

\* How a step may change a conversation.
Kept(u) ==
  /\ talks'[u].hello = talks[u].hello
  /\ talks'[u].nonce = talks[u].nonce /\ talks'[u].credential = talks[u].credential
  /\ talks'[u].attested = talks[u].attested

LEMMA TalkChanges ==
  ASSUME HandInv, [HandNext]_handvars, NEW u \in Talks'
  PROVE  \/ u \in Talks /\ talks'[u] = talks[u]
         \/ talks'[u].stage = "new" /\ talks'[u].credential = None /\ talks'[u].attested = None
         \/ u \in Talks /\ Kept(u) /\ talks'[u].stage = "greeted"
         \/ /\ u \in Talks /\ Kept(u) /\ talks'[u].challenge = talks[u].challenge
            /\ \E f \in seen : Prove(u, f)
         \/ /\ u \in Talks /\ talks'[u].hello = talks[u].hello
            /\ talks'[u].stage = talks[u].stage /\ talks'[u].challenge = talks[u].challenge
            /\ \/ /\ talks[u].nonce = None
                  /\ talks'[u].credential = talks[u].credential
                  /\ talks'[u].attested = talks[u].attested
               \/ /\ talks'[u].nonce = talks[u].nonce /\ talks'[u].nonce # None
                  /\ talks'[u].attested = talks[u].attested /\ talks[u].credential = None /\ Proven(u)
                  /\ \E s \in statements :
                       s.about = Point(u) /\ s.extra = attest_qualify(talks[u].nonce, Point(u))
               \/ /\ talks'[u].nonce = talks[u].nonce
                  /\ talks'[u].credential = talks[u].credential /\ talks'[u].credential # None
<1> DEFINE Changed == 
         \/ u \in Talks /\ talks'[u] = talks[u]
         \/ talks'[u].stage = "new" /\ talks'[u].credential = None /\ talks'[u].attested = None
         \/ u \in Talks /\ Kept(u) /\ talks'[u].stage = "greeted"
         \/ /\ u \in Talks /\ Kept(u) /\ talks'[u].challenge = talks[u].challenge
            /\ \E f \in seen : Prove(u, f)
         \/ /\ u \in Talks /\ talks'[u].hello = talks[u].hello
            /\ talks'[u].stage = talks[u].stage /\ talks'[u].challenge = talks[u].challenge
            /\ \/ /\ talks[u].nonce = None
                  /\ talks'[u].credential = talks[u].credential
                  /\ talks'[u].attested = talks[u].attested
               \/ /\ talks'[u].nonce = talks[u].nonce /\ talks'[u].nonce # None
                  /\ talks'[u].attested = talks[u].attested /\ talks[u].credential = None /\ Proven(u)
                  /\ \E s \in statements :
                       s.about = Point(u) /\ s.extra = attest_qualify(talks[u].nonce, Point(u))
               \/ /\ talks'[u].nonce = talks[u].nonce
                  /\ talks'[u].credential = talks[u].credential /\ talks'[u].credential # None
<1> SUFFICES Changed
  OBVIOUS
<1> HIDE DEF Changed
<1>0. TalksOK /\ StatementsOK
  BY DEF HandInv
<1>1. ASSUME NEW who \in Devices \cup {Stranger}, NEW hello \in Greetings,
             NEW arrived \in Greetings, Connect(who, hello, arrived)
      PROVE  Changed
  <2>1. CASE u \in Talks
    BY <1>0, <1>1, <2>1, ConnectAdds DEF Changed
  <2>2. CASE u \notin Talks
    <3>1. talks'[u] = Talk(who, hello, arrived)
      BY <1>0, <1>1, <2>2, ConnectAdds
    <3> QED BY <3>1 DEF Talk, Changed
  <2> QED BY <2>1, <2>2
<1>2. ASSUME NEW t \in Talks, NEW talk \in Conversation, Set(t, talk)
      PROVE  u \in Talks /\ (u = t => talks'[u] = talk) /\ (u # t => Changed)
  BY <1>0, <1>2, SetTalk DEF Changed
<1>3. ASSUME NEW t \in Talks, NEW draw \in Draws, NEW ephemeral \in Draws,
             Greet(t, draw, ephemeral)
      PROVE  Changed
  <2>1. PICK talk \in Conversation :
           /\ Set(t, talk) /\ talk.stage = "greeted" /\ talk.hello = talks[t].hello
           /\ talk.nonce = talks[t].nonce /\ talk.credential = talks[t].credential
           /\ talk.attested = talks[t].attested
    BY <1>0, <1>3, GreetSets
  <2>2. u \in Talks /\ (u = t => talks'[u] = talk) /\ (u # t => Changed)
    BY <1>2, <2>1
  <2>3. u = t => Kept(u) /\ talks'[u].stage = "greeted"
    BY <2>1, <2>2 DEF Kept
  <2> QED BY <2>2, <2>3 DEF Changed
<1>4. ASSUME NEW t \in Talks, NEW f \in seen, Prove(t, f)
      PROVE  Changed
  <2>1. PICK talk \in Conversation :
           /\ Set(t, talk) /\ talk.hello = talks[t].hello /\ talk.challenge = talks[t].challenge
           /\ talk.nonce = talks[t].nonce /\ talk.credential = talks[t].credential
           /\ talk.attested = talks[t].attested
    BY <1>0, <1>4, ProveSets
  <2>2. u \in Talks /\ (u = t => talks'[u] = talk) /\ (u # t => Changed)
    BY <1>2, <2>1
  <2>3. u = t => Kept(u) /\ talks'[u].challenge = talks[u].challenge /\ \E g \in seen : Prove(u, g)
    BY <1>4, <2>1, <2>2 DEF Kept
  <2> QED BY <2>2, <2>3 DEF Changed
<1>5. ASSUME NEW t \in Talks, NEW f,
             \/ \E draw \in Draws : AttestOpen(t, f, draw)
             \/ \E s \in statements, draw \in Draws : AttestEvidence(t, f, Evidence(s), draw)
             \/ \E body : AttestSecret(t, f, body)
      PROVE  Changed
  <2>1. PICK talk \in Conversation :
           /\ Set(t, talk) /\ talk.stage = talks[t].stage
           /\ talk.hello = talks[t].hello /\ talk.challenge = talks[t].challenge
           /\ \/ /\ talks[t].nonce = None
                 /\ talk.credential = talks[t].credential /\ talk.attested = talks[t].attested
              \/ /\ talk.nonce = talks[t].nonce /\ talk.nonce # None
                 /\ talk.attested = talks[t].attested /\ talks[t].credential = None /\ Proven(t)
                 /\ \E s \in statements :
                      s.about = Point(t) /\ s.extra = attest_qualify(talks[t].nonce, Point(t))
              \/ /\ talk.nonce = talks[t].nonce
                 /\ talk.credential = talks[t].credential /\ talk.credential # None
    BY <1>0, <1>5, AttestSets
  <2>2. u \in Talks /\ (u = t => talks'[u] = talk) /\ (u # t => Changed)
    BY <1>2, <2>1
  <2>3. CASE u = t
    BY <2>1, <2>2, <2>3 DEF Changed
  <2> QED BY <2>2, <2>3
<1>6. CASE UNCHANGED talks
  BY <1>6 DEF Talks, Changed
<1>7. ASSUME NEW t \in Talks,
             \/ \E c : Echo(t, c)
             \/ \E w \in Talks : Certify(t, w)
             \/ \E fpr \in Devices : FetchChain(t, fpr)
             \/ \E kind, body : Send(t, kind, body)
             \/ \E f \in seen : \E kind, body : Serve(t, f, kind, body)
      PROVE  Changed
  <2>1. UNCHANGED talks
    BY <1>7 DEF Echo, Certify, FetchChain, Send, Serve
  <2> QED BY <1>6, <2>1
<1>8. CASE Second
  <2>1. UNCHANGED talks
    BY <1>8 DEF Second
  <2> QED BY <1>6, <2>1
<1>9. CASE UNCHANGED handvars
  <2>1. UNCHANGED talks
    BY <1>9 DEF handvars
  <2> QED BY <1>6, <2>1
<1>10. ASSUME NEW t \in Talks,
              \/ \E f \in seen, draw \in Draws : AttestOpen(t, f, draw)
              \/ \E f \in seen, s \in statements, draw \in Draws :
                   AttestEvidence(t, f, Evidence(s), draw)
              \/ \E f \in seen : \E body : AttestSecret(t, f, body)
       PROVE  Changed
  BY <1>5, <1>10
<1> QED BY <1>1, <1>3, <1>4, <1>7, <1>8, <1>9, <1>10, HandCases

\* The server takes a conversation for a device's only over an echo of the
\* very greeting and challenge it has.
LEMMA ProvenStep ==
  ASSUME HandInv, [HandNext]_handvars
  PROVE  ProvenOK'
<1>0. ProvenOK /\ SeenOK /\ AnsweredOK
  BY DEF HandInv
<1>1. answered \subseteq answered'
  BY WireStep
<1> SUFFICES ASSUME NEW u \in Talks', talks'[u].stage = "proven"
             PROVE  /\ <<talks'[u].hello.fpr,
                         handshake_transcript(talks'[u].hello, talks'[u].challenge)>> \in answered'
                    /\ Presented(talks'[u].hello) = {talks'[u].hello.fpr}
  BY DEF ProvenOK, Proven, Fpr, handshake_transcript, Presented
<1>2. CASE /\ u \in Talks /\ talks'[u].hello = talks[u].hello
           /\ talks'[u].stage = talks[u].stage /\ talks'[u].challenge = talks[u].challenge
  BY <1>0, <1>1, <1>2 DEF ProvenOK, Proven, Fpr
<1>3. ASSUME NEW f \in seen, u \in Talks, Kept(u), talks'[u].challenge = talks[u].challenge,
             Prove(u, f)
      PROVE  /\ <<talks'[u].hello.fpr,
                  handshake_transcript(talks'[u].hello, talks'[u].challenge)>> \in answered'
             /\ Presented(talks'[u].hello) = {talks'[u].hello.fpr}
  <2> DEFINE h == talks[u].hello
             c == talks[u].challenge
  <2>1. f.kind = "Prove"
        /\ f.body.echo = echo_transcript(talks[u].secret, h.fpr, handshake_transcript(h, c))
    BY <1>3 DEF Prove, Fpr
  <2>2. PICK a \in answered : \E secret :
          f.body.echo = echo_transcript(secret, a[1], a[2])
    BY <1>0, <2>1 DEF SeenOK
  <2>3. a[1] = h.fpr /\ a[2] = handshake_transcript(h, c)
    BY <2>1, <2>2 DEF echo_transcript
  <2>4. PICK hello \in Greetings : \E d :
          a = <<hello.fpr, handshake_transcript(hello, d)>> /\ Presented(hello) = {hello.fpr}
    BY <1>0 DEF AnsweredOK
  <2>5. hello = h /\ a = <<h.fpr, handshake_transcript(h, c)>>
    BY <2>3, <2>4 DEF handshake_transcript
  <2>6. <<h.fpr, handshake_transcript(h, c)>> \in answered /\ Presented(h) = {h.fpr}
    BY <2>4, <2>5
  <2> QED BY <1>1, <1>3, <2>6 DEF Kept
<1> QED BY <1>2, <1>3, TalkChanges

\* What the server does under the MAC of a conversation is what the device it
\* proved has asked.
LEMMA ServedStep ==
  ASSUME HandInv, [HandNext]_handvars
  PROVE  ServedOK'
<1>0. ServedOK /\ SeenOK
  BY DEF HandInv
<1>1. /\ asked \subseteq asked'
      /\ \A u \in Talks : u \in Talks' /\ talks'[u].hello = talks[u].hello
  BY WireStep, TalksStep
<1> SUFFICES ASSUME NEW x \in served'
             PROVE  /\ x[1] \in Talks'
                    /\ is_session_sealed(x[2]) => <<talks'[x[1]].hello.fpr, x[2], x[3]>> \in asked'
  BY DEF ServedOK, Fpr, is_session_sealed
<1>2. CASE x \in served
  BY <1>0, <1>1, <1>2 DEF ServedOK, Fpr
<1>3. ASSUME NEW t \in Talks, NEW f \in seen, NEW kind, NEW body, Serve(t, f, kind, body),
             x \notin served
      PROVE  x[1] \in Talks' /\ <<talks'[x[1]].hello.fpr, x[2], x[3]>> \in asked'
  <2>1. x = <<t, kind, body>>
    BY <1>3 DEF Serve
  <2>2. f.mac # None /\ f.mac = request_mac(Key(t), kind, body)
    BY <1>3 DEF Serve, Authentic, is_session_sealed
  <2>3. PICK y \in asked : \E secret :
          y = <<y[1], y[2], y[3]>>
          /\ f.mac = request_mac(derive_session_mac_key(secret, y[1]), y[2], y[3])
    BY <1>0, <2>2 DEF SeenOK
  <2>4. y[1] = talks[t].hello.fpr /\ y[2] = kind /\ y[3] = body
    BY <2>2, <2>3 DEF request_mac, derive_session_mac_key, Key, Fpr
  <2> QED BY <1>1, <2>1, <2>3, <2>4
<1>4. ASSUME NEW t \in Talks, NEW fpr \in Devices, FetchChain(t, fpr), x \notin served
      PROVE  x[1] \in Talks' /\ ~is_session_sealed(x[2])
  <2>1. x = <<t, "FetchChain", fpr>>
    BY <1>4 DEF FetchChain
  <2> QED BY <1>1, <2>1 DEF is_session_sealed
<1>5. ASSUME NEW t \in Talks,
             \/ \E draw, ephemeral \in Draws : Greet(t, draw, ephemeral)
             \/ \E c : Echo(t, c)
             \/ \E f \in seen : Prove(t, f)
             \/ \E kind, body : Send(t, kind, body)
             \/ \E u \in Talks : Certify(t, u)
             \/ \E f \in seen, draw \in Draws : AttestOpen(t, f, draw)
             \/ \E f \in seen, s \in statements, draw \in Draws :
                  AttestEvidence(t, f, Evidence(s), draw)
             \/ \E f \in seen : \E body : AttestSecret(t, f, body)
      PROVE  x \in served
  BY <1>5 DEF Greet, Echo, Prove, Send, Certify, AttestOpen, AttestEvidence, AttestSecret
<1>6. CASE Second \/ UNCHANGED handvars
           \/ \E who \in Devices \cup {Stranger}, hello, arrived \in Greetings :
                Connect(who, hello, arrived)
  BY <1>2, <1>6 DEF Second, handvars, Connect
<1> QED BY <1>2, <1>3, <1>4, <1>5, <1>6, HandCases

\* A TPM signs for the challenge its device was given.
LEMMA StatementsStep ==
  ASSUME HandInv, [HandNext]_handvars
  PROVE  StatementsOK' /\ statements \subseteq statements'
<1>0. StatementsOK
  BY DEF HandInv
<1>1. ASSUME NEW t \in Talks, NEW u \in Talks, Certify(t, u)
      PROVE  StatementsOK' /\ statements \subseteq statements'
  <2>1. PICK d, s :
          /\ d \in Devices
          /\ s = [tpm |-> d, about |-> d, extra |-> attest_qualify(talks[u].nonce, d),
                  challenge |-> talks[u].nonce]
          /\ statements' = statements \cup {s}
    BY <1>1 DEF Certify
  <2>2. s.tpm \in Devices /\ s.about = s.tpm /\ s.extra = attest_qualify(s.challenge, s.tpm)
    BY <2>1
  <2> QED BY <1>0, <2>1, <2>2 DEF StatementsOK, attest_qualify
<1>2. CASE UNCHANGED statements
  BY <1>0, <1>2 DEF StatementsOK, attest_qualify
<1>3. ASSUME NEW t \in Talks,
             \/ \E draw, ephemeral \in Draws : Greet(t, draw, ephemeral)
             \/ \E c : Echo(t, c)
             \/ \E f \in seen : Prove(t, f)
             \/ \E kind, body : Send(t, kind, body)
             \/ \E f \in seen : \E kind, body : Serve(t, f, kind, body)
             \/ \E fpr \in Devices : FetchChain(t, fpr)
             \/ \E f \in seen, draw \in Draws : AttestOpen(t, f, draw)
             \/ \E f \in seen, s \in statements, draw \in Draws :
                  AttestEvidence(t, f, Evidence(s), draw)
             \/ \E f \in seen : \E body : AttestSecret(t, f, body)
      PROVE  UNCHANGED statements
  BY <1>3 DEF Greet, Echo, Prove, Send, Serve, FetchChain, AttestOpen, AttestEvidence, AttestSecret
<1>4. CASE Second \/ UNCHANGED handvars
           \/ \E who \in Devices \cup {Stranger}, hello, arrived \in Greetings :
                Connect(who, hello, arrived)
  BY <1>2, <1>4 DEF Second, handvars, Connect
<1> QED BY <1>1, <1>2, <1>3, <1>4, HandCases

\* The hardware point of a proven conversation is the device's own, or there
\* is none.
LEMMA PointProven ==
  ASSUME HandInv, NEW t \in Talks, Proven(t)
  PROVE  Point(t) \in {Fpr(t), None}
<1> DEFINE h == talks[t].hello
<1>1. decode_hello(h) /\ Presented(h) = {Fpr(t)}
  BY TalkTyped DEF HandInv, ProvenOK, Proven, Greeted
<1>2. \A k \in {h.tpm, h.hybrid} \ {None} : k.owner = Fpr(t)
  BY <1>1 DEF Presented
<1>3. CASE h.tpm # None
  BY <1>2, <1>3 DEF Point
<1>4. CASE h.tpm = None /\ h.kem = 5
  <2>1. h.hybrid # None
    BY <1>1, <1>4, AbsentAssumption DEF decode_hello
  <2> QED BY <1>2, <1>4, <2>1 DEF Point
<1>5. CASE h.tpm = None /\ h.kem # 5
  BY <1>5 DEF Point
<1> QED BY <1>3, <1>4, <1>5

\* A credential is given for a statement about this conversation, and
\* attestation never goes back to an earlier one.
LEMMA AttestStep ==
  ASSUME HandInv, [HandNext]_handvars
  PROVE  AttestOK'
<1>0. AttestOK /\ StatementsOK
  BY DEF HandInv
<1>1. statements \subseteq statements'
  BY StatementsStep
<1> DEFINE P(u) == LET h == talks'[u].hello
                   IN  IF h.tpm # None THEN h.tpm.owner
                       ELSE IF h.kem = 5 THEN h.hybrid.owner ELSE None
           Rests(u) ==
             /\ talks'[u].credential # None =>
                  /\ talks'[u].nonce # None
                  /\ \E s \in statements' :
                       /\ s.tpm = talks'[u].hello.fpr /\ s.about = P(u)
                       /\ s.challenge = talks'[u].nonce
             /\ talks'[u].attested # None => talks'[u].credential # None
<1> SUFFICES ASSUME NEW u \in Talks' PROVE Rests(u)
  BY DEF AttestOK, Point, Fpr
<1> HIDE DEF Rests
<1>2. ASSUME u \in Talks, talks'[u].hello = talks[u].hello
      PROVE  P(u) = Point(u) /\ talks'[u].hello.fpr = Fpr(u)
  BY <1>2 DEF Point, Fpr
<1> HIDE DEF P
<1>3. CASE u \in Talks /\ Kept(u)
  BY <1>0, <1>1, <1>2, <1>3 DEF AttestOK, Kept, Rests
<1>4. CASE u \in Talks /\ talks'[u] = talks[u]
  BY <1>3, <1>4 DEF Kept
<1>5. CASE talks'[u].credential = None /\ talks'[u].attested = None
  BY <1>5 DEF Rests
<1>6. CASE /\ u \in Talks /\ talks[u].nonce = None
           /\ talks'[u].credential = talks[u].credential
           /\ talks'[u].attested = talks[u].attested
  BY <1>0, <1>6 DEF AttestOK, Rests
<1>7. CASE /\ u \in Talks /\ talks'[u].hello = talks[u].hello
           /\ talks'[u].nonce = talks[u].nonce
           /\ talks'[u].credential = talks[u].credential /\ talks'[u].credential # None
  BY <1>0, <1>1, <1>2, <1>7 DEF AttestOK, Rests
<1>8. ASSUME u \in Talks, talks'[u].hello = talks[u].hello,
             talks'[u].nonce = talks[u].nonce, talks'[u].nonce # None,
             talks'[u].attested = talks[u].attested, Proven(u),
             NEW s \in statements, s.about = Point(u),
             s.extra = attest_qualify(talks[u].nonce, Point(u)),
             talks[u].credential = None
      PROVE  Rests(u)
  <2>1. s.tpm \in Devices /\ s.about = s.tpm /\ s.extra = attest_qualify(s.challenge, s.tpm)
    BY <1>0 DEF StatementsOK
  <2>2. Point(u) = Fpr(u)
    BY <1>8, <2>1, PointProven, HandshakeAssumption
  <2>3. s.challenge = talks[u].nonce
    BY <1>8, <2>1 DEF attest_qualify
  <2>4. s.tpm = Fpr(u) /\ s.about = Point(u)
    BY <1>8, <2>1, <2>2
  <2>5. s \in statements' /\ P(u) = Point(u) /\ talks'[u].hello.fpr = Fpr(u)
    BY <1>1, <1>2, <1>8
  <2>6. talks'[u].attested = None
    BY <1>0, <1>8 DEF AttestOK
  <2> QED BY <1>8, <2>3, <2>4, <2>5, <2>6 DEF Rests
<1> QED BY <1>3, <1>4, <1>5, <1>6, <1>7, <1>8, TalkChanges

-------------------------------------------------------------------------------
(* Theorems. *)

\* The invariant holds of every behaviour of the handshake.
THEOREM HandInvariance == HandSpec => []HandInv
<1>1. HandInit => HandInv
  BY HandInitEstablishes
<1>2. HandInv /\ [HandNext]_handvars => HandInv'
  <2> SUFFICES ASSUME HandInv, [HandNext]_handvars PROVE HandInv'
    OBVIOUS
  <2> QED BY TalksStep, WireStep, ProvenStep, ServedStep, StatementsStep, AttestStep DEF HandInv
<1> QED BY <1>1, <1>2, PTL DEF HandSpec

\* A conversation the server takes for a device's was echoed by that device,
\* over the greeting and the challenge the server has, and what is done under
\* its MAC the device has asked: whatever the generator draws, and whatever is
\* changed on the way or comes from another conversation.
\* (kdf.rs echo_transcript, activation.rs decode_hello, is_session_sealed)
THEOREM ConversationsAreTheHolders == HandSpec => []ProvenIdentity
<1>1. HandInv => ProvenIdentity
  BY DEF HandInv, ProvenOK, ServedOK, ProvenIdentity, Fpr
<1> QED BY <1>1, HandInvariance, PTL

\* Attestation rests on a statement the TPM of the proven point has made for
\* the challenge of this conversation.  (kdf.rs attest_qualify, server_fresh)
THEOREM AttestedForThisTalk == HandSpec => []AttestedHere
<1>1. HandInv => AttestedHere
  BY DEF HandInv, AttestOK, AttestedHere
<1> QED BY <1>1, HandInvariance, PTL

-------------------------------------------------------------------------------
(* Operations: types. *)

Op == [n : Nat, at : Nat, plain : BOOLEAN, asks : Requests]
Pending == [op : Op, body : Identified]
Progress == [mine : BOOLEAN, reached : BOOLEAN, plain : BOOLEAN]
Plain == {WithId(body, None) : body \in Identified}
Activations == [kind : {"Activate"}, body : Identified \cup Plain, op : Op, changed : BOOLEAN]
Frames == Activations \cup Refusals \cup Leases
Learnt ==
  [op : Op, what : {"lease", "unread", "frozen", "used", "room", "limit", "forged"},
   lease : {a.body : a \in Leases} \cup {None}]
Events == {"LEASE_ISSUED", "ISSUE_REFUSED"} \cup {f.body.change : f \in Papers}
Entry ==
  [event : Events, file_id : FileIds, device_fpr : Clients \cup {None},
   op : Op \cup Papers, at : Nat]

Marks == [n : Nat, by : {"echo", "silence"}]

OpTypes ==
  /\ hour \in Nat /\ begun \in Nat /\ journal \in Seq(Entry)
  /\ pending \in [Clients -> Pending \cup {None}]
  /\ running \in [Clients -> Progress]
  /\ wire \in [Clients -> Frames \cup {None}]
  /\ held \in [Clients -> SUBSET Learnt]
  /\ misled \in SUBSET Marks

-------------------------------------------------------------------------------
(* The client: p is what it has written down, r how far its process is, w    *)
(* what is on its connection, h what it has learned.                         *)

\* An answer with the echo.
Echoed(w) == w # None /\ w.kind # "Activate" /\ w.body.operation_id # None

\* The client has one operation: the one written down, which its frames are
\* about, or the one it has fallen back on the old form with.
ClientSound(p, r, w, now, count) ==
  /\ r.plain => p = None
  /\ p # None => p.op.n \in 1 .. count /\ p.op.at <= now /\ ~p.op.plain
  /\ w # None =>
       /\ ~r.plain => p # None
       /\ w.kind = "Activate" =>
            IF r.plain
            THEN w.body.operation_id = None /\ w.op.plain /\ w.op.n \in 1 .. count
            ELSE w.op = p.op /\ w.body = p.body /\ now <= p.op.at + Window
       /\ w.kind # "Activate" /\ r.plain => w.body.operation_id = None
       /\ w.kind = "Denied" => w.body.why # "used"

ClientsOK ==
  \A d \in Clients : ClientSound(pending[d], running[d], wire[d], hour, begun)

\* The client works on operation n.
Works(p, w, n) ==
  \/ p # None /\ p.op.n = n
  \/ w # None /\ w.kind = "Activate" /\ w.op.n = n

OneWorker ==
  \A d, e \in Clients, n \in Nat :
    Works(pending[d], wire[d], n) /\ Works(pending[e], wire[e], n) => d = e

\* What was learned of the operation written down is its grant.
HeldSound(p, h, count) ==
  \A l \in h :
    /\ l.what # "used" /\ l.op.n \in 1 .. count
    /\ p # None /\ l.op.n = p.op.n => l.what = "lease"

HeldOK == \A d \in Clients : HeldSound(pending[d], held[d], begun)

-------------------------------------------------------------------------------
(* The server. *)

\* A record of an activation is under an identity made of the body it has.
RecordSound(r, now) ==
  /\ r.at \in Nat /\ r.at <= now
  /\ r.actor # None =>
       /\ \E seed \in Seeds, body \in Requests :
            /\ r.id = operation_id(seed, "Activate", body)
            /\ r.hash = WithId(body, r.id)
       /\ r.answer \in Leases \cup Refusals /\ r.answer.body.operation_id = r.id
       /\ r.answer.kind = "Denied" => r.answer.body.why = "limit"

TableOK ==
  /\ \A r \in table : RecordSound(r, hour)
  /\ \A r, q \in table : r.actor = q.actor /\ r.id = q.id => r = q

\* A document in the journal has its record for as long as it is kept.
DocumentSound(e, tab, now) ==
  /\ e.at <= now
  /\ e.device_fpr = None =>
       /\ e.op \in Papers /\ e.event # "LEASE_ISSUED"
       /\ \/ now > e.at + Retention
          \/ \E r \in tab : r.actor = None /\ r.id = e.op /\ r.at = e.at
  /\ e.device_fpr # None => e.op \in Op

DocumentsOK ==
  /\ \A i \in DOMAIN journal : DocumentSound(journal[i], table, hour)
  /\ \A i, j \in DOMAIN journal :
       i < j /\ journal[i].op = journal[j].op /\ journal[i].device_fpr = None =>
         journal[j].at > journal[i].at + Retention

\* The record of grant i for the operation written down, while it is repeated.
Recorded(i, d, p, tab, now) ==
  \/ now > p.op.at + Window
  \/ \E r \in tab :
       /\ r.actor = d /\ r.id = p.body.operation_id /\ r.hash = p.body
       /\ r.answer.kind = "Granted" /\ r.answer.body.lease = i - 1
       /\ r.at >= p.op.at

\* The client of operation n was sent a refusal nobody gave: one without the
\* echo in answer to the first request, one with it, either.
Silenced(n, m) == [n |-> n, by |-> "silence"] \in m
Cut(n, m) == [n |-> n, by |-> "echo"] \in m
Fooled(n, m) == \E x \in m : x.n = n

\* Grant i was counted for operation op of client d.  While the operation is
\* written down the server has its record, the process that began it knows
\* that a request may have arrived, and no answer but the grant or a freeze is
\* on the way; afterwards the client has heard of it, or gave up in time.  A
\* refusal that was made up may come between.
GrantSound(i, d, op, p, r, w, h, tab, now, m) ==
  /\ p # None /\ p.op.n = op.n =>
       /\ op = p.op /\ Recorded(i, d, p, tab, now)
       /\ r.mine => \/ r.reached \/ Echoed(w) \/ (w # None /\ w.kind = "Granted")
                    \/ Silenced(op.n, m)
       /\ Echoed(w) /\ w.kind = "Denied" => w.body.why = "frozen" \/ Cut(op.n, m)
  /\ w # None /\ w.kind = "Activate" /\ r.plain => w.op.n # op.n \/ (~op.plain /\ Silenced(op.n, m))
  /\ \/ op.plain \/ now > op.at + Window \/ Fooled(op.n, m)
     \/ \E l \in h : l.op = op /\ l.what \in {"lease", "frozen"}
     \/ p # None /\ p.op = op

Counted == {i \in DOMAIN journal : journal[i].event = "LEASE_ISSUED"}

GrantOK(i) ==
  LET d == journal[i].device_fpr
      op == journal[i].op
  IN  /\ d \in Clients /\ op \in Op /\ op.n \in 1 .. begun
      /\ \A e \in Clients : Works(pending[e], wire[e], op.n) => e = d
      /\ GrantSound(i, d, op, pending[d], running[d], wire[d], held[d], table, hour, misled)

GrantsOK ==
  /\ \A i \in Counted : GrantOK(i)
  /\ \A i, j \in Counted : i < j /\ journal[i].op.n = journal[j].op.n =>
       ~journal[i].op.plain /\ journal[j].op.plain /\ Silenced(journal[i].op.n, misled)

\* Lease seq was issued to client d for request asks.
LeaseFor(seq, d, asks, entries) ==
  /\ seq + 1 \in DOMAIN entries /\ entries[seq + 1].event = "LEASE_ISSUED"
  /\ entries[seq + 1].device_fpr = d /\ entries[seq + 1].op.asks = asks

\* What is written down asks what the operation asks, and a lease on the way or
\* taken for that of an operation was issued for the same request.
LeaseSound(d, p, r, w, h, entries) ==
  /\ p # None => p.body.operation_id.of = p.op.asks
  /\ w # None /\ w.kind = "Granted" /\ ~r.plain => LeaseFor(w.body.lease, d, p.op.asks, entries)
  /\ \A l \in h : l.what = "lease" => LeaseFor(l.lease.lease, d, l.op.asks, entries)

\* A record keeps a lease for the request its identity is made of.
RecordedLease(r, entries) ==
  r.actor # None /\ r.answer.kind = "Granted" =>
    LeaseFor(r.answer.body.lease, r.actor, r.id.of, entries)

LeasesOK ==
  /\ \A r \in table : RecordedLease(r, journal)
  /\ \A d \in Clients : LeaseSound(d, pending[d], running[d], wire[d], held[d], journal)

-------------------------------------------------------------------------------
(* The subscriber. *)

Notice(i, entries) == [kind |-> "Notice", body |-> encode_notice(i - 1, entries[i])]

Notices == {[kind |-> "Notice", body |-> encode_notice(seq, e)] : seq \in Nat, e \in Entry}

Subscriber ==
  [on : BOOLEAN, files : SUBSET Files, at : Nat, coming : Seq(Notices), cursor : Nat,
   heard : SUBSET {decode_notice(f.body) : f \in Notices}]

\* The two parts of NoGap.
Heard ==
  \A i \in DOMAIN journal :
    i <= watcher.cursor /\ journal[i].file_id \in Watched /\ journal[i].event \in journal_event =>
      \E n \in watcher.heard :
        /\ n.seq = i - 1 /\ n.event = journal[i].event /\ n.file_id = journal[i].file_id
        /\ n.device_fpr = journal[i].device_fpr

Ahead ==
  \A k \in DOMAIN watcher.coming : decode_notice(watcher.coming[k].body).seq >= watcher.cursor

\* What is on the connection is, in order, what the subscription names between
\* the cursor and the place the server has come to.
WatcherOK ==
  /\ watcher.cursor <= Len(journal)
  /\ watcher.coming # <<>> => watcher.on
  /\ watcher.on =>
       /\ watcher.files = Watched /\ watcher.at \in watcher.cursor .. Len(journal)
       /\ \A k \in DOMAIN watcher.coming :
            \E i \in watcher.cursor + 1 .. watcher.at : watcher.coming[k] = Notice(i, journal)
       /\ \A k, l \in DOMAIN watcher.coming :
            k < l => watcher.coming[k].body.seq < watcher.coming[l].body.seq
       /\ \A i \in watcher.cursor + 1 .. watcher.at :
            journal[i].file_id \in Watched =>
              \E k \in DOMAIN watcher.coming : watcher.coming[k] = Notice(i, journal)
  /\ Heard

ClientInv ==
  /\ OpTypes /\ ClientsOK /\ OneWorker /\ HeldOK /\ TableOK /\ DocumentsOK /\ GrantsOK
  /\ LeasesOK

WatchInv == watcher \in Subscriber /\ WatcherOK

-------------------------------------------------------------------------------
(* Bodies and identities. *)

\* A body that is written down: its identity is one, and is not absent.
LEMMA IdentifiedBody ==
  ASSUME NEW body \in Identified
  PROVE  /\ body.operation_id \in Ids /\ body.operation_id # None
         /\ body.file \in FileIds
         /\ \E seed \in Seeds, b \in Requests :
              /\ body.operation_id = operation_id(seed, "Activate", b)
              /\ body = WithId(b, body.operation_id) 
<1>1. PICK seed \in Seeds, b \in Requests : body = WithId(b, operation_id(seed, "Activate", b))
  BY DEF Identified
<1> DEFINE id == operation_id(seed, "Activate", b)
<1>2. id \in Ids
  BY DEF Ids
<1> HIDE DEF id
<1>3. body = [b EXCEPT !.operation_id = id] /\ "operation_id" \in DOMAIN b /\ "file" \in DOMAIN b
  BY <1>1, OperationsAssumption DEF WithId, id
<1>4. body.operation_id = id /\ body.file = b.file
  BY <1>3
<1> QED BY <1>1, <1>2, <1>4, OperationsAssumption DEF FileIds, id

\* In the old form the identity is left out.
LEMMA PlainBody ==
  ASSUME NEW body \in Identified
  PROVE  /\ WithId(body, None) \in Plain /\ WithId(body, None).operation_id = None
         /\ WithId(body, None).file \in FileIds
<1>1. PICK seed \in Seeds, b \in Requests : body = WithId(b, operation_id(seed, "Activate", b))
  BY DEF Identified
<1>2. "operation_id" \in DOMAIN body /\ "file" \in DOMAIN body
  BY <1>1, OperationsAssumption DEF WithId
<1>3. WithId(body, None).operation_id = None /\ WithId(body, None).file = body.file
  BY <1>2 DEF WithId
<1> QED BY <1>3, IdentifiedBody DEF Plain

\* The record under an identity is about the body the identity is made of: a
\* generator that repeats itself never brings two bodies under one.
LEMMA RecordOfBody ==
  ASSUME NEW r, NEW now, RecordSound(r, now), r.actor # None,
         NEW body \in Identified, r.id = body.operation_id
  PROVE  r.hash = body
<1>1. PICK s \in Seeds, b \in Requests : r.id = operation_id(s, "Activate", b) /\ r.hash = WithId(b, r.id)
  BY DEF RecordSound
<1>2. PICK t \in Seeds, c \in Requests :
        body.operation_id = operation_id(t, "Activate", c) /\ body = WithId(c, body.operation_id)
  BY IdentifiedBody
<1>3. operation_id(s, "Activate", b) = operation_id(t, "Activate", c)
  BY <1>1, <1>2
<1>4. b = c
  BY <1>3 DEF operation_id
<1> QED BY <1>1, <1>2, <1>4

-------------------------------------------------------------------------------
(* Steps of one client. *)

\* The first state satisfies the invariants.
LEMMA OpInitEstablishes == OpInit => ClientInv /\ WatchInv
<1> SUFFICES ASSUME OpInit PROVE ClientInv /\ WatchInv
  OBVIOUS
<1>1. /\ hour = 0 /\ journal = <<>> /\ table = {} /\ begun = 0
      /\ pending = [d \in Clients |-> None] /\ running = [d \in Clients |-> Rest]
      /\ wire = [d \in Clients |-> None] /\ held = [d \in Clients |-> {}]
      /\ misled = {} /\ watcher = Quiet(0, {})
  BY DEF OpInit
<1>2. journal \in Seq(Entry) /\ DOMAIN journal = {} /\ Len(journal) = 0
  BY <1>1
<1>3. Rest \in Progress /\ ~Rest.plain
  BY DEF Rest, Progress
<1>4. OpTypes
  BY <1>1, <1>2, <1>3 DEF OpTypes
<1>5. ClientsOK /\ HeldOK /\ OneWorker
  BY <1>1, <1>3 DEF ClientsOK, ClientSound, HeldOK, HeldSound, OneWorker, Works
<1>6. TableOK /\ DocumentsOK /\ GrantsOK /\ LeasesOK
  BY <1>1, <1>2 DEF TableOK, DocumentsOK, GrantsOK, Counted, LeasesOK, LeaseSound
<1>7. watcher = [on |-> FALSE, files |-> {}, at |-> 0, coming |-> <<>>, cursor |-> 0, heard |-> {}]
  BY <1>1 DEF Quiet
<1>8. watcher \in Subscriber
  BY <1>7 DEF Subscriber
<1>9. WatcherOK
  BY <1>2, <1>7 DEF WatcherOK, Heard
<1> QED BY <1>4, <1>5, <1>6, <1>8, <1>9 DEF ClientInv, WatchInv

\* A refusal made up for one client is no harm to another.
LEMMA GrantKept ==
  ASSUME NEW i, NEW d, NEW op, NEW p, NEW r, NEW w, NEW h, NEW tab, NEW now, NEW k, NEW m,
         k \subseteq m, GrantSound(i, d, op, p, r, w, h, tab, now, k)
  PROVE  GrantSound(i, d, op, p, r, w, h, tab, now, m)
BY DEF GrantSound, Silenced, Cut, Fooled

\* A step of one client, that leaves the server as it is; a refusal may be made up.
LEMMA OutsideStep ==
  ASSUME ClientInv, NEW d \in Clients,
         NEW p \in Pending \cup {None}, NEW r \in Progress,
         NEW w \in Frames \cup {None}, NEW h \in SUBSET Learnt,
         NEW m \in SUBSET Marks, misled' = m, misled \subseteq m,
         pending' = [pending EXCEPT ![d] = p], running' = [running EXCEPT ![d] = r],
         wire' = [wire EXCEPT ![d] = w], held' = [held EXCEPT ![d] = h],
         UNCHANGED <<hour, begun, journal, table>>,
         ClientSound(p, r, w, hour, begun), HeldSound(p, h, begun),
         \A n \in Nat : Works(p, w, n) => Works(pending[d], wire[d], n),
         \A i \in Counted : \A op \in Op :
           GrantSound(i, d, op, pending[d], running[d], wire[d], held[d], table, hour, misled)
             => GrantSound(i, d, op, p, r, w, h, table, hour, m),
         LeaseSound(d, pending[d], running[d], wire[d], held[d], journal)
           => LeaseSound(d, p, r, w, h, journal)
  PROVE  ClientInv'
<1>0. OpTypes /\ ClientsOK /\ OneWorker /\ HeldOK /\ TableOK /\ DocumentsOK /\ GrantsOK /\ LeasesOK
  BY DEF ClientInv
<1>1. /\ pending'[d] = p /\ running'[d] = r /\ wire'[d] = w /\ held'[d] = h
      /\ \A e \in Clients : e # d =>
           /\ pending'[e] = pending[e] /\ running'[e] = running[e]
           /\ wire'[e] = wire[e] /\ held'[e] = held[e]
  BY <1>0 DEF OpTypes
<1>2. OpTypes'
  BY <1>0 DEF OpTypes
<1>3. ClientsOK'
  <2> SUFFICES ASSUME NEW e \in Clients
               PROVE  ClientSound(pending'[e], running'[e], wire'[e], hour, begun)
    BY DEF ClientsOK
  <2> QED BY <1>0, <1>1 DEF ClientsOK
<1>4. HeldOK'
  <2> SUFFICES ASSUME NEW e \in Clients PROVE HeldSound(pending'[e], held'[e], begun)
    BY DEF HeldOK
  <2> QED BY <1>0, <1>1 DEF HeldOK
<1>5. \A e \in Clients, n \in Nat : Works(pending'[e], wire'[e], n) => Works(pending[e], wire[e], n)
  BY <1>1
<1>6. OneWorker'
  <2> SUFFICES ASSUME NEW e \in Clients, NEW f \in Clients, NEW n \in Nat,
                      Works(pending'[e], wire'[e], n), Works(pending'[f], wire'[f], n)
               PROVE  e = f
    BY DEF OneWorker
  <2> QED BY <1>0, <1>5 DEF OneWorker
<1>7. TableOK' /\ DocumentsOK'
  BY <1>0 DEF TableOK, DocumentsOK
<1>8. GrantsOK'
  <2>1. Counted' = Counted
    BY DEF Counted
  <2>2. ASSUME NEW i \in Counted PROVE GrantOK(i)'
    <3> DEFINE e == journal[i].device_fpr
               op == journal[i].op
    <3>1. /\ e \in Clients /\ op \in Op /\ op.n \in 1 .. begun
          /\ \A c \in Clients : Works(pending[c], wire[c], op.n) => c = e
          /\ GrantSound(i, e, op, pending[e], running[e], wire[e], held[e], table, hour, misled)
      BY <1>0 DEF GrantsOK, GrantOK
    <3> HIDE DEF e, op
    <3>2. op.n \in Nat
      BY <3>1 DEF Op
    <3>3. \A c \in Clients : Works(pending'[c], wire'[c], op.n) => c = e
      BY <1>5, <3>1, <3>2
    <3>4. GrantSound(i, e, op, pending'[e], running'[e], wire'[e], held'[e], table, hour, m)
      <4>1. CASE e = d
        BY <1>1, <3>1, <4>1
      <4>2. CASE e # d
        BY <1>1, <3>1, <4>2, GrantKept
      <4> QED BY <4>1, <4>2
    <3> QED BY <3>1, <3>3, <3>4 DEF GrantOK, e, op
  <2> QED BY <1>0, <2>1, <2>2 DEF GrantsOK, Silenced
<1>9. LeasesOK'
  <2> SUFFICES ASSUME NEW e \in Clients
               PROVE  LeaseSound(e, pending'[e], running'[e], wire'[e], held'[e], journal)
    BY <1>0 DEF LeasesOK
  <2> QED BY <1>0, <1>1 DEF LeasesOK
<1> QED BY <1>2, <1>3, <1>4, <1>6, <1>7, <1>8, <1>9 DEF ClientInv

LEMMA LocalStep ==
  ASSUME ClientInv, NEW d \in Clients,
         NEW p \in Pending \cup {None}, NEW r \in Progress,
         NEW w \in Frames \cup {None}, NEW h \in SUBSET Learnt,
         pending' = [pending EXCEPT ![d] = p], running' = [running EXCEPT ![d] = r],
         wire' = [wire EXCEPT ![d] = w], held' = [held EXCEPT ![d] = h],
         UNCHANGED <<hour, begun, journal, table, misled>>,
         ClientSound(p, r, w, hour, begun), HeldSound(p, h, begun),
         \A n \in Nat : Works(p, w, n) => Works(pending[d], wire[d], n),
         \A i \in Counted : \A op \in Op :
           GrantSound(i, d, op, pending[d], running[d], wire[d], held[d], table, hour, misled)
             => GrantSound(i, d, op, p, r, w, h, table, hour, misled),
         LeaseSound(d, pending[d], running[d], wire[d], held[d], journal)
           => LeaseSound(d, p, r, w, h, journal)
  PROVE  ClientInv'
<1>1. PICK m \in SUBSET Marks : m = misled
  BY DEF ClientInv, OpTypes
<1>2. misled' = m /\ misled \subseteq m
  BY <1>1
<1> QED BY <1>1, <1>2, OutsideStep

\* What is known of a client.
LEMMA ClientState ==
  ASSUME ClientInv, NEW d \in Clients
  PROVE  /\ pending[d] \in Pending \cup {None} /\ running[d] \in Progress
         /\ wire[d] \in Frames \cup {None} /\ held[d] \in SUBSET Learnt
         /\ ClientSound(pending[d], running[d], wire[d], hour, begun)
         /\ HeldSound(pending[d], held[d], begun)
         /\ pending = [pending EXCEPT ![d] = pending[d]]
         /\ running = [running EXCEPT ![d] = running[d]]
         /\ wire = [wire EXCEPT ![d] = wire[d]] /\ held = [held EXCEPT ![d] = held[d]]
         /\ hour \in Nat /\ begun \in Nat /\ misled \in SUBSET Marks
<1>1. OpTypes /\ ClientsOK /\ HeldOK
  BY DEF ClientInv
<1> QED BY <1>1 DEF OpTypes, ClientsOK, HeldOK

\* A frame that is sent is that of the operation written down.
LEMMA AttemptStep ==
  ASSUME ClientInv, NEW d \in Clients, Attempt(d)
  PROVE  ClientInv'
<1>1. PICK p, r, w, h, v :
        p = pending[d] /\ r = running[d] /\ v = wire[d] /\ h = held[d] /\ w = Activation(p.op, p.body)
  OBVIOUS
<1>2. /\ p \in Pending \cup {None} /\ r \in Progress /\ h \in SUBSET Learnt
      /\ ClientSound(p, r, v, hour, begun) /\ HeldSound(p, h, begun)
      /\ pending = [pending EXCEPT ![d] = p] /\ running = [running EXCEPT ![d] = r]
      /\ held = [held EXCEPT ![d] = h]
  BY <1>1, ClientState
<1>3. p # None /\ v = None /\ hour <= p.op.at + Window
  BY <1>1 DEF Attempt
<1>3a. /\ wire' = [wire EXCEPT ![d] = w]
       /\ UNCHANGED <<hour, begun, journal, table, pending, running, held, misled>>
  BY <1>1 DEF Attempt
<1>4. p.op \in Op /\ p.body \in Identified
  BY <1>2, <1>3 DEF Pending
<1>5. /\ w \in Activations /\ w.kind = "Activate" /\ w.op = p.op /\ w.body = p.body
  BY <1>1, <1>4 DEF Activation, Activations
<1>6. w \in Frames \cup {None}
  BY <1>5 DEF Frames
<1>7. ClientSound(p, r, w, hour, begun)
  BY <1>2, <1>3, <1>5 DEF ClientSound
<1>8. \A n \in Nat : Works(p, w, n) => Works(p, v, n)
  BY <1>3, <1>5 DEF Works
<1>9. \A i \in Counted : \A op \in Op :
        GrantSound(i, d, op, p, r, v, h, table, hour, misled) => GrantSound(i, d, op, p, r, w, h, table, hour, misled)
  BY <1>2, <1>3, <1>5 DEF GrantSound, Echoed, ClientSound
<1>10. LeaseSound(d, p, r, v, h, journal) => LeaseSound(d, p, r, w, h, journal)
  BY <1>5 DEF LeaseSound
<1> QED BY <1>1, <1>2, <1>6, <1>7, <1>8, <1>9, <1>10, <1>3a, LocalStep

\* A change on the way leaves the operation the frame is about.
LEMMA ChangeStep ==
  ASSUME ClientInv, NEW d \in Clients, Change(d)
  PROVE  ClientInv'
<1>1. PICK p, r, w, h, v :
        p = pending[d] /\ r = running[d] /\ v = wire[d] /\ h = held[d] /\ w = [v EXCEPT !.changed = TRUE]
  OBVIOUS
<1>2. /\ p \in Pending \cup {None} /\ r \in Progress /\ h \in SUBSET Learnt /\ v \in Frames \cup {None}
      /\ ClientSound(p, r, v, hour, begun) /\ HeldSound(p, h, begun)
      /\ pending = [pending EXCEPT ![d] = p] /\ running = [running EXCEPT ![d] = r]
      /\ held = [held EXCEPT ![d] = h] 
  BY <1>1, ClientState
<1>3. /\ v # None /\ v.kind = "Activate" /\ wire' = [wire EXCEPT ![d] = w]
      /\ UNCHANGED <<hour, begun, journal, table, pending, running, held, misled>>
  BY <1>1 DEF Change
<1>4. v \in Activations
  BY <1>2, <1>3 DEF Frames, Refusals, Leases
<1>5. w \in Activations /\ w.kind = "Activate" /\ w.op = v.op /\ w.body = v.body
  BY <1>1, <1>4 DEF Activations
<1>6. w \in Frames \cup {None}
  BY <1>5 DEF Frames
<1>7. ClientSound(p, r, w, hour, begun)
  BY <1>2, <1>3, <1>5 DEF ClientSound
<1>8. \A n \in Nat : Works(p, w, n) => Works(p, v, n)
  BY <1>3, <1>5 DEF Works
<1>9. \A i \in Counted : \A op \in Op :
        GrantSound(i, d, op, p, r, v, h, table, hour, misled) => GrantSound(i, d, op, p, r, w, h, table, hour, misled)
  BY <1>3, <1>5 DEF GrantSound, Echoed
<1>10. LeaseSound(d, p, r, v, h, journal) => LeaseSound(d, p, r, w, h, journal)
  BY <1>5 DEF LeaseSound
<1> QED BY <1>1, <1>2, <1>3, <1>6, <1>7, <1>8, <1>9, <1>10, LocalStep

\* A connection that ends: what was on it may have arrived.
LEMMA LoseStep ==
  ASSUME ClientInv, NEW d \in Clients, Lose(d) \/ Crash(d) \/ HearPlain(d)
  PROVE  ClientInv'
<1>1. PICK p, v, h, q : p = pending[d] /\ q = running[d] /\ v = wire[d] /\ h = held[d]
  OBVIOUS
<1>2. /\ p \in Pending \cup {None} /\ q \in Progress /\ h \in SUBSET Learnt /\ v \in Frames \cup {None}
      /\ ClientSound(p, q, v, hour, begun) /\ HeldSound(p, h, begun)
      /\ pending = [pending EXCEPT ![d] = p] /\ running = [running EXCEPT ![d] = q]
      /\ held = [held EXCEPT ![d] = h]
  BY <1>1, ClientState
<1>3. Rest \in Progress /\ ~Rest.plain /\ ~Rest.mine
  BY DEF Rest, Progress
<1>4. ASSUME ~q.plain
      PROVE  [q EXCEPT !.reached = TRUE] \in Progress /\ ~[q EXCEPT !.reached = TRUE].plain
             /\ [q EXCEPT !.reached = TRUE].reached
  BY <1>2, <1>4 DEF Progress
<1>5. \E r \in Progress :
        /\ running' = [running EXCEPT ![d] = r] /\ ~r.plain /\ (r.mine => r.reached)
  <2>1. CASE Lose(d) /\ ~q.plain
    <3>1. running' = [running EXCEPT ![d] = [q EXCEPT !.reached = TRUE]]
      BY <1>1, <1>2, <2>1 DEF Lose
    <3> QED BY <1>4, <2>1, <3>1
  <2>2. CASE Lose(d) /\ q.plain
    BY <1>1, <1>2, <1>3, <2>2 DEF Lose
  <2>3. CASE Crash(d) \/ HearPlain(d)
    BY <1>3, <2>3 DEF Crash, HearPlain
  <2> QED BY <2>1, <2>2, <2>3
<1>6. PICK r \in Progress :
        /\ running' = [running EXCEPT ![d] = r] /\ ~r.plain /\ (r.mine => r.reached)
  BY <1>5
<1>7. /\ wire' = [wire EXCEPT ![d] = None]
      /\ UNCHANGED <<hour, begun, journal, table, pending, held, misled>>
  BY DEF Lose, Crash, HearPlain
<1>8. ClientSound(p, r, None, hour, begun)
  BY <1>2, <1>6 DEF ClientSound
<1>9. \A n \in Nat : Works(p, None, n) => Works(p, v, n)
  BY DEF Works
<1>10. \A i \in Counted : \A op \in Op :
        GrantSound(i, d, op, p, q, v, h, table, hour, misled) => GrantSound(i, d, op, p, r, None, h, table, hour, misled)
  BY <1>6 DEF GrantSound, Echoed
<1>11. LeaseSound(d, p, q, v, h, journal) => LeaseSound(d, p, r, None, h, journal)
  BY DEF LeaseSound
<1> QED BY <1>1, <1>2, <1>6, <1>7, <1>8, <1>9, <1>10, <1>11, LocalStep, ZenonT(60)

\* A grant is stored while the operation is still written down.
LEMMA HearGrantStep ==
  ASSUME ClientInv, NEW d \in Clients, HearGrant(d)
  PROVE  ClientInv'
<1>1. PICK p, v, k, q, l : p = pending[d] /\ q = running[d] /\ v = wire[d] /\ k = held[d]
                           /\ l = [op |-> p.op, what |-> "lease", lease |-> v.body]
  OBVIOUS
<1>2. /\ p \in Pending \cup {None} /\ q \in Progress /\ k \in SUBSET Learnt /\ v \in Frames \cup {None}
      /\ ClientSound(p, q, v, hour, begun) /\ HeldSound(p, k, begun)
      /\ pending = [pending EXCEPT ![d] = p] /\ running = [running EXCEPT ![d] = q]
      /\ held = [held EXCEPT ![d] = k]
  BY <1>1, ClientState
<1>3. PICK r : r = [q EXCEPT !.reached = TRUE]
  OBVIOUS
<1>4. /\ v # None /\ v.kind = "Granted" /\ ~q.plain
      /\ wire' = [wire EXCEPT ![d] = None] /\ held' = [held EXCEPT ![d] = k \cup {l}]
      /\ running' = [running EXCEPT ![d] = r]
      /\ UNCHANGED <<hour, begun, journal, table, pending, misled>>
  BY <1>1, <1>2, <1>3 DEF HearGrant, Learn
<1>5. r \in Progress /\ ~r.plain /\ r.reached
  BY <1>2, <1>3, <1>4 DEF Progress
<1>6. p # None /\ p.op \in Op /\ p.op.n \in 1 .. begun
  BY <1>2, <1>4 DEF ClientSound, Pending
<1>7. v \in Leases
  BY <1>2, <1>4 DEF Frames, Refusals, Activations
<1>8. l \in Learnt /\ l.op = p.op /\ l.what = "lease" /\ l.lease = v.body
  BY <1>1, <1>6, <1>7 DEF Learnt
<1>9. PICK h \in SUBSET Learnt : h = k \cup {l}
  BY <1>2, <1>8
<1>10. HeldSound(p, h, begun)
  BY <1>2, <1>6, <1>8, <1>9 DEF HeldSound
<1>11. ClientSound(p, r, None, hour, begun)
  BY <1>2, <1>5 DEF ClientSound
<1>12. \A n \in Nat : Works(p, None, n) => Works(p, v, n)
  BY DEF Works
<1>13. \A i \in Counted : \A op \in Op :
        GrantSound(i, d, op, p, q, v, k, table, hour, misled) => GrantSound(i, d, op, p, r, None, h, table, hour, misled)
  BY <1>5, <1>9 DEF GrantSound, Echoed
<1>14. LeaseSound(d, p, q, v, k, journal) => LeaseSound(d, p, r, None, h, journal)
  BY <1>4, <1>8, <1>9 DEF LeaseSound
<1> QED BY <1>1, <1>2, <1>4, <1>5, <1>9, <1>10, <1>11, <1>12, <1>13, <1>14, LocalStep, ZenonT(60)

\* An operation is crossed out once its grant is stored, or when it is too old.
LEMMA DoneStep ==
  ASSUME ClientInv, NEW d \in Clients, Done(d) \/ Abandon(d)
  PROVE  ClientInv'
<1>1. PICK p, v, h, q : p = pending[d] /\ q = running[d] /\ v = wire[d] /\ h = held[d]
  OBVIOUS
<1>2. /\ p \in Pending \cup {None} /\ q \in Progress /\ h \in SUBSET Learnt /\ v \in Frames \cup {None}
      /\ ClientSound(p, q, v, hour, begun) /\ HeldSound(p, h, begun)
      /\ wire = [wire EXCEPT ![d] = v] /\ held = [held EXCEPT ![d] = h]
  BY <1>1, ClientState
<1>3. Rest \in Progress /\ ~Rest.plain /\ ~Rest.mine
  BY DEF Rest, Progress
<1>4. /\ pending' = [pending EXCEPT ![d] = None] /\ running' = [running EXCEPT ![d] = Rest]
      /\ UNCHANGED <<hour, begun, journal, table, wire, held, misled>>
  BY DEF Done, Abandon
<1>5. p # None /\ v = None /\ (hour > p.op.at + Window \/ \E l \in h : l.op = p.op)
  BY <1>1 DEF Done, Abandon
<1>6. hour > p.op.at + Window \/ \E l \in h : l.op = p.op /\ l.what = "lease"
  BY <1>2, <1>5 DEF HeldSound
<1>7. HeldSound(None, h, begun)
  BY <1>2 DEF HeldSound
<1>8. ClientSound(None, Rest, v, hour, begun)
  BY <1>3, <1>5 DEF ClientSound
<1>9. \A n \in Nat : Works(None, v, n) => Works(p, v, n)
  BY DEF Works
<1>10. \A i \in Counted : \A op \in Op :
        GrantSound(i, d, op, p, q, v, h, table, hour, misled) => GrantSound(i, d, op, None, Rest, v, h, table, hour, misled)
  BY <1>3, <1>5, <1>6 DEF GrantSound
<1>11. LeaseSound(d, p, q, v, h, journal) => LeaseSound(d, None, Rest, v, h, journal)
  BY <1>5 DEF LeaseSound
<1> QED BY <1>1, <1>2, <1>3, <1>4, <1>7, <1>8, <1>9, <1>10, <1>11, LocalStep

\* A refusal with the echo ends the operation: nothing was counted for it,
\* unless the file is frozen or the refusal made up.
LEMMA HearFinalStep ==
  ASSUME ClientInv, NEW d \in Clients, HearFinal(d)
  PROVE  ClientInv'
<1>1. PICK p, v, k, q, l : p = pending[d] /\ q = running[d] /\ v = wire[d] /\ k = held[d]
                           /\ l = [op |-> p.op, what |-> v.body.why, lease |-> None]
  OBVIOUS
<1>2. /\ p \in Pending \cup {None} /\ q \in Progress /\ k \in SUBSET Learnt /\ v \in Frames \cup {None}
      /\ ClientSound(p, q, v, hour, begun) /\ HeldSound(p, k, begun)
      /\ held = [held EXCEPT ![d] = k]
  BY <1>1, ClientState
<1>3. Rest \in Progress /\ ~Rest.plain /\ ~Rest.mine
  BY DEF Rest, Progress
<1>4. /\ v # None /\ v.kind = "Denied" /\ v.body.operation_id # None
      /\ wire' = [wire EXCEPT ![d] = None] /\ held' = [held EXCEPT ![d] = k \cup {l}]
      /\ pending' = [pending EXCEPT ![d] = None] /\ running' = [running EXCEPT ![d] = Rest]
      /\ UNCHANGED <<hour, begun, journal, table, misled>>
  BY <1>1, <1>2 DEF HearFinal, Learn
<1>5. p # None /\ p.op \in Op /\ p.op.n \in 1 .. begun
  BY <1>2, <1>4 DEF ClientSound, Pending
<1>6. v \in Refusals
  BY <1>2, <1>4 DEF Frames, Leases, Activations
<1>7. v.body.why \in {"unread", "frozen", "room", "limit", "forged"}
  BY <1>2, <1>4, <1>6 DEF Refusals, ClientSound
<1>8. l \in Learnt /\ l.op = p.op /\ l.what = v.body.why
  BY <1>1, <1>5, <1>7 DEF Learnt
<1>9. PICK h \in SUBSET Learnt : h = k \cup {l}
  BY <1>2, <1>8
<1>10. HeldSound(None, h, begun)
  BY <1>2, <1>5, <1>7, <1>8, <1>9 DEF HeldSound
<1>11. ClientSound(None, Rest, None, hour, begun)
  BY <1>3 DEF ClientSound
<1>12. \A n \in Nat : Works(None, None, n) => Works(p, v, n)
  BY DEF Works
<1>13. \A i \in Counted : \A op \in Op :
        GrantSound(i, d, op, p, q, v, k, table, hour, misled) => GrantSound(i, d, op, None, Rest, None, h, table, hour, misled)
  BY <1>4, <1>8, <1>9 DEF GrantSound, Echoed, Cut, Fooled
<1>14. LeaseSound(d, p, q, v, k, journal) => LeaseSound(d, None, Rest, None, h, journal)
  BY <1>7, <1>8, <1>9 DEF LeaseSound
<1> QED BY <1>1, <1>2, <1>3, <1>4, <1>9, <1>10, <1>11, <1>12, <1>13, <1>14, LocalStep

\* A refusal without it: the old form is sent only for an operation no request
\* can have arrived for, or whose first was answered in the server's place.
LEMMA HearUnreadStep ==
  ASSUME ClientInv, NEW d \in Clients, HearUnread(d)
  PROVE  ClientInv'
<1>1. PICK p, v, h, q : p = pending[d] /\ q = running[d] /\ v = wire[d] /\ h = held[d]
  OBVIOUS
<1>2. /\ p \in Pending \cup {None} /\ q \in Progress /\ h \in SUBSET Learnt /\ v \in Frames \cup {None}
      /\ ClientSound(p, q, v, hour, begun) /\ HeldSound(p, h, begun)
      /\ pending = [pending EXCEPT ![d] = p] /\ held = [held EXCEPT ![d] = h]
  BY <1>1, ClientState
<1>3. Rest \in Progress /\ ~Rest.plain /\ ~Rest.mine
  BY DEF Rest, Progress
<1>4. v # None /\ v.kind = "Denied" /\ v.body.operation_id = None /\ ~q.plain
  BY <1>1 DEF HearUnread
<1>5. UNCHANGED <<hour, begun, journal, table, held, misled>>
  BY DEF HearUnread
<1>6. p # None /\ p.op \in Op /\ p.op.n \in 1 .. begun /\ p.body \in Identified /\ ~p.op.plain
  BY <1>2, <1>4 DEF ClientSound, Pending
<1>7. CASE q.mine /\ ~q.reached
  <2>1. PICK w, r, op2 : /\ op2 = [p.op EXCEPT !.plain = TRUE]
                         /\ w = Activation(op2, WithId(p.body, None))
                         /\ r = [q EXCEPT !.plain = TRUE]
    OBVIOUS
  <2>2. /\ wire' = [wire EXCEPT ![d] = w] /\ pending' = [pending EXCEPT ![d] = None]
        /\ running' = [running EXCEPT ![d] = r]
    BY <1>1, <1>2, <1>7, <2>1 DEF HearUnread, FirstRequest
  <2>3. r \in Progress /\ r.plain
    BY <1>2, <2>1 DEF Progress
  <2>4. op2 \in Op /\ op2.n = p.op.n /\ op2.plain
    BY <1>6, <2>1 DEF Op
  <2>5. WithId(p.body, None) \in Plain /\ WithId(p.body, None).operation_id = None
    BY <1>6, PlainBody
  <2>6. /\ w \in Activations /\ w.kind = "Activate" /\ w.op = op2
        /\ w.body.operation_id = None
    BY <2>1, <2>4, <2>5 DEF Activation, Activations
  <2>7. w \in Frames \cup {None}
    BY <2>6 DEF Frames
  <2>8. ClientSound(None, r, w, hour, begun)
    BY <1>6, <2>3, <2>4, <2>6 DEF ClientSound
  <2>9. HeldSound(None, h, begun)
    BY <1>2 DEF HeldSound
  <2>10. \A n \in Nat : Works(None, w, n) => Works(p, v, n)
    BY <1>6, <2>4, <2>6 DEF Works
  <2>11. ASSUME NEW i, NEW op \in Op, GrantSound(i, d, op, p, q, v, h, table, hour, misled)
         PROVE  GrantSound(i, d, op, None, r, w, h, table, hour, misled)
    <3>1. ~Echoed(v) /\ v.kind # "Granted"
      BY <1>4 DEF Echoed
    <3>2. CASE p.op.n # op.n
      <4>1. p.op # op
        BY <3>2
      <4> QED BY <2>4, <2>6, <2>11, <3>2, <4>1 DEF GrantSound
    <3>3. CASE p.op.n = op.n
      <4>1. op = p.op /\ Silenced(op.n, misled)
        BY <1>6, <1>7, <2>11, <3>1, <3>3 DEF GrantSound
      <4>2. Fooled(op.n, misled)
        BY <4>1 DEF Silenced, Fooled
      <4> QED BY <1>6, <4>1, <4>2 DEF GrantSound
    <3> QED BY <3>2, <3>3
  <2>12. LeaseSound(d, p, q, v, h, journal) => LeaseSound(d, None, r, w, h, journal)
    BY <2>6 DEF LeaseSound
  <2> QED BY <1>1, <1>2, <1>5, <2>2, <2>3, <2>7, <2>8, <2>9, <2>10, <2>11, <2>12, LocalStep, ZenonT(60)
<1>8. CASE ~(q.mine /\ ~q.reached)
  <2>1. /\ wire' = [wire EXCEPT ![d] = None] /\ running' = [running EXCEPT ![d] = Rest]
        /\ UNCHANGED pending
    BY <1>1, <1>8 DEF HearUnread, FirstRequest
  <2>2. ClientSound(p, Rest, None, hour, begun)
    BY <1>2, <1>3 DEF ClientSound
  <2>3. \A n \in Nat : Works(p, None, n) => Works(p, v, n)
    BY DEF Works
  <2>4. \A i \in Counted : \A op \in Op :
          GrantSound(i, d, op, p, q, v, h, table, hour, misled) => GrantSound(i, d, op, p, Rest, None, h, table, hour, misled)
    BY <1>3 DEF GrantSound, Echoed
  <2>5. LeaseSound(d, p, q, v, h, journal) => LeaseSound(d, p, Rest, None, h, journal)
    BY DEF LeaseSound
  <2> QED BY <1>1, <1>2, <1>3, <1>5, <2>1, <2>2, <2>3, <2>4, <2>5, LocalStep
<1> QED BY <1>7, <1>8

\* An answer that is replaced, or given in the server's place: it leaves what the
\* client has written down, and is remembered where it may do harm.
LEMMA ForgeStep ==
  ASSUME ClientInv, NEW d \in Clients, Forge(d)
  PROVE  ClientInv'
<1>1. PICK p, v, h, q : p = pending[d] /\ q = running[d] /\ v = wire[d] /\ h = held[d]
  OBVIOUS
<1>2. /\ p \in Pending \cup {None} /\ q \in Progress /\ h \in SUBSET Learnt /\ v \in Frames \cup {None}
      /\ ClientSound(p, q, v, hour, begun) /\ HeldSound(p, h, begun)
      /\ pending = [pending EXCEPT ![d] = p] /\ running = [running EXCEPT ![d] = q]
      /\ held = [held EXCEPT ![d] = h] /\ misled \in SUBSET Marks
  BY <1>1, ClientState
<1>3. PICK a, m :
        /\ a \in Forgeries(v, p) /\ v # None /\ wire' = [wire EXCEPT ![d] = a] /\ misled' = m
        /\ m = misled \cup
             {x \in [n : IF p = None THEN {} ELSE {p.op.n}, by : {"echo", "silence"}] :
                /\ a.kind = "Denied"
                /\ x.by = IF a.body.operation_id # None THEN "echo" ELSE "silence"
                /\ x.by = "silence" => q.mine /\ ~q.reached}
        /\ UNCHANGED <<hour, begun, journal, table, pending, running, held>>
  BY <1>1 DEF Forge, FirstRequest
<1>4. ASSUME p # None
      PROVE  /\ p.op \in Op /\ p.op.n \in Nat /\ p.body \in Identified
             /\ p.body.operation_id \in Ids /\ p.body.operation_id # None /\ ~q.plain
  <2>1. p.op \in Op /\ p.body \in Identified /\ p.op.n \in Nat
    BY <1>2, <1>4 DEF Pending, Op
  <2> QED BY <1>2, <1>4, <2>1, IdentifiedBody DEF ClientSound
<1>5. ~q.plain => p # None
  BY <1>2, <1>3 DEF ClientSound
<1>6. v.body.file \in FileIds
  <2>1. CASE v \in Activations
    <3>1. v.body \in Identified \cup Plain
      BY <2>1 DEF Activations
    <3> QED BY <3>1, IdentifiedBody, PlainBody DEF Plain
  <2>2. CASE v \in Refusals \cup Leases
    BY <2>2 DEF Refusals, Leases
  <2> QED BY <1>2, <1>3, <2>1, <2>2 DEF Frames
<1>7. \/ /\ a \in Refusals /\ a.kind = "Denied" /\ a.body.why = "unread" /\ a.body.operation_id = None
      \/ /\ p # None /\ a \in Refusals /\ a.kind = "Denied" /\ a.body.why = "forged"
         /\ a.body.operation_id = p.body.operation_id
      \/ /\ v.kind = "Granted" /\ a \in Leases /\ a.kind = "Granted"
         /\ a.body.lease = v.body.lease /\ a.body.operation_id = None
  <2>1. CASE a = Denied(v.body.file, "unread", None)
    BY <1>6, <2>1 DEF Denied, Refusals
  <2>2. CASE p # None /\ a = Denied(v.body.file, "forged", p.body.operation_id)
    BY <1>4, <1>6, <2>2 DEF Denied, Refusals
  <2>3. CASE v.kind = "Granted" /\ a = [v EXCEPT !.body.operation_id = None]
    <3>1. v \in Leases
      BY <1>2, <1>3, <2>3 DEF Frames, Refusals, Activations
    <3> QED BY <2>3, <3>1 DEF Leases
  <2> QED BY <1>3, <2>1, <2>2, <2>3 DEF Forgeries
<1>8. a \in Frames \cup {None} /\ a.kind # "Activate"
  BY <1>7 DEF Frames
<1>9. m \in SUBSET Marks /\ misled \subseteq m
  <2>1. ASSUME NEW x \in m, x \notin misled PROVE x \in Marks
    BY <1>3, <1>4, <2>1 DEF Marks
  <2> QED BY <1>2, <1>3, <2>1
<1>10. ASSUME p # None, a.kind = "Denied"
       PROVE  /\ a.body.operation_id # None => Cut(p.op.n, m)
              /\ a.body.operation_id = None /\ q.mine /\ ~q.reached => Silenced(p.op.n, m)
  <2>1. CASE a.body.operation_id # None
    <3>1. PICK x : x = [n |-> p.op.n, by |-> "echo"]
      OBVIOUS
    <3>2. x \in [n : {p.op.n}, by : {"echo", "silence"}] /\ x.by = "echo"
      BY <3>1
    <3> QED BY <1>3, <1>10, <2>1, <3>1, <3>2 DEF Cut
  <2>2. CASE a.body.operation_id = None /\ q.mine /\ ~q.reached
    <3>1. PICK x : x = [n |-> p.op.n, by |-> "silence"]
      OBVIOUS
    <3>2. x \in [n : {p.op.n}, by : {"echo", "silence"}] /\ x.by = "silence"
      BY <3>1
    <3> QED BY <1>3, <1>10, <2>2, <3>1, <3>2 DEF Silenced
  <2> QED BY <2>1, <2>2
<1>11. ClientSound(p, q, a, hour, begun)
  BY <1>2, <1>4, <1>5, <1>7, <1>8 DEF ClientSound
<1>12. \A n \in Nat : Works(p, a, n) => Works(p, v, n)
  BY <1>8 DEF Works
<1>13. ASSUME NEW i, NEW op \in Op, GrantSound(i, d, op, p, q, v, h, table, hour, misled)
       PROVE  GrantSound(i, d, op, p, q, a, h, table, hour, m)
  <2>1. GrantSound(i, d, op, p, q, v, h, table, hour, m)
    BY <1>9, <1>13, GrantKept
  <2>2. ASSUME p # None, p.op.n = op.n
        PROVE  /\ q.mine => \/ q.reached \/ Echoed(a) \/ (a # None /\ a.kind = "Granted")
                            \/ Silenced(op.n, m)
               /\ Echoed(a) /\ a.kind = "Denied" => Cut(op.n, m)
    <3>1. a # None
      BY <1>7, OperationsAssumption
    <3> QED BY <1>4, <1>7, <1>10, <2>2, <3>1 DEF Echoed
  <2> QED BY <1>8, <2>1, <2>2 DEF GrantSound
<1>14. LeaseSound(d, p, q, v, h, journal) => LeaseSound(d, p, q, a, h, journal)
  BY <1>3, <1>7 DEF LeaseSound
<1> QED BY <1>1, <1>2, <1>3, <1>8, <1>9, <1>11, <1>12, <1>13, <1>14, OutsideStep, ZenonT(60)

\* A new operation has a number of its own.
LEMMA BeginStep ==
  ASSUME ClientInv, NEW d \in Clients, NEW body \in Requests, NEW seed \in Seeds,
         Begin(d, body, seed)
  PROVE  ClientInv'
<1>0. OpTypes /\ ClientsOK /\ OneWorker /\ HeldOK /\ TableOK /\ DocumentsOK /\ GrantsOK /\ LeasesOK
  BY DEF ClientInv
<1>1. PICK p, r, op : /\ op = [n |-> begun + 1, at |-> hour, plain |-> FALSE, asks |-> body]
                      /\ p = [op |-> op, body |-> WithId(body, operation_id(seed, "Activate", body))]
                      /\ r = [Rest EXCEPT !.mine = TRUE]
  OBVIOUS
<1>2. /\ pending[d] = None /\ wire[d] = None /\ begun' = begun + 1
      /\ pending' = [pending EXCEPT ![d] = p] /\ running' = [running EXCEPT ![d] = r]
      /\ UNCHANGED <<hour, journal, table, wire, held, misled>>
  BY <1>1 DEF Begin
<1>3. hour \in Nat /\ begun \in Nat
  BY <1>0 DEF OpTypes
<1>4. op \in Op /\ op.n = begun + 1 /\ op.at = hour /\ ~op.plain /\ op.asks = body
  BY <1>1, <1>3 DEF Op
<1>5. p \in Pending /\ p.op = op
  BY <1>1, <1>4 DEF Pending, Identified
<1>6. r \in Progress /\ ~r.plain
  BY <1>1 DEF Rest, Progress
<1>7. /\ pending'[d] = p /\ running'[d] = r
      /\ \A e \in Clients : e # d => pending'[e] = pending[e] /\ running'[e] = running[e]
  BY <1>0, <1>2 DEF OpTypes
<1>8. OpTypes'
  BY <1>0, <1>2, <1>3, <1>5, <1>6 DEF OpTypes
<1>9. \A q, w, s : ClientSound(q, s, w, hour, begun) => ClientSound(q, s, w, hour, begun + 1)
  BY <1>3 DEF ClientSound
<1>10. \A q, h : HeldSound(q, h, begun) => HeldSound(q, h, begun + 1)
  BY <1>3 DEF HeldSound
<1>11. ClientsOK'
  <2> SUFFICES ASSUME NEW e \in Clients
               PROVE  ClientSound(pending'[e], running'[e], wire[e], hour, begun + 1)
    BY <1>2 DEF ClientsOK
  <2>1. CASE e = d
    BY <1>2, <1>3, <1>4, <1>5, <1>6, <1>7, <2>1 DEF ClientSound
  <2>2. CASE e # d
    BY <1>0, <1>7, <1>9, <2>2 DEF ClientsOK
  <2> QED BY <2>1, <2>2
<1>12. HeldOK'
  <2> SUFFICES ASSUME NEW e \in Clients PROVE HeldSound(pending'[e], held[e], begun + 1)
    BY <1>2 DEF HeldOK
  <2>1. CASE e = d
    BY <1>0, <1>3, <1>4, <1>5, <1>7, <2>1 DEF HeldSound, HeldOK
  <2>2. CASE e # d
    BY <1>0, <1>7, <1>10, <2>2 DEF HeldOK
  <2> QED BY <2>1, <2>2
<1>13. \A e \in Clients, n \in Nat : Works(pending[e], wire[e], n) => n # begun + 1
  <2> SUFFICES ASSUME NEW e \in Clients, NEW n \in Nat, Works(pending[e], wire[e], n)
               PROVE  n # begun + 1
    OBVIOUS
  <2>1. ClientSound(pending[e], running[e], wire[e], hour, begun)
    BY <1>0 DEF ClientsOK
  <2> QED BY <1>3, <2>1 DEF ClientSound, Works
<1>14. \A e \in Clients, n \in Nat :
         Works(pending'[e], wire'[e], n) =>
           (e = d /\ n = begun + 1) \/ (e # d /\ Works(pending[e], wire[e], n))
  BY <1>2, <1>4, <1>5, <1>7 DEF Works
<1>15. OneWorker'
  <2> SUFFICES ASSUME NEW e \in Clients, NEW f \in Clients, NEW n \in Nat,
                      Works(pending'[e], wire'[e], n), Works(pending'[f], wire'[f], n)
               PROVE  e = f
    BY DEF OneWorker
  <2> QED BY <1>0, <1>13, <1>14 DEF OneWorker
<1>16. TableOK' /\ DocumentsOK'
  BY <1>0, <1>2 DEF TableOK, DocumentsOK
<1>17. GrantsOK'
  <2>1. Counted' = Counted
    BY <1>2 DEF Counted
  <2>2. ASSUME NEW i \in Counted PROVE GrantOK(i)'
    <3> DEFINE e == journal[i].device_fpr
               o == journal[i].op
    <3>1. /\ e \in Clients /\ o \in Op /\ o.n \in 1 .. begun
          /\ \A c \in Clients : Works(pending[c], wire[c], o.n) => c = e
          /\ GrantSound(i, e, o, pending[e], running[e], wire[e], held[e], table, hour, misled)
      BY <1>0 DEF GrantsOK, GrantOK
    <3> HIDE DEF e, o
    <3>2. o.n \in Nat /\ o.n # begun + 1
      BY <1>3, <3>1
    <3>3. \A c \in Clients : Works(pending'[c], wire'[c], o.n) => c = e
      BY <1>14, <3>1, <3>2
    <3>4. GrantSound(i, e, o, pending'[e], running'[e], wire[e], held[e], table, hour, misled)
      <4>1. CASE e = d
        BY <1>2, <1>4, <1>5, <1>7, <3>1, <3>2, <4>1 DEF GrantSound
      <4>2. CASE e # d
        BY <1>7, <3>1, <4>2
      <4> QED BY <4>1, <4>2
    <3>5. o.n \in 1 .. begun + 1
      BY <1>3, <3>1
    <3> QED BY <1>2, <3>1, <3>3, <3>4, <3>5 DEF GrantOK, e, o
  <2> QED BY <1>0, <1>2, <2>1, <2>2 DEF GrantsOK, Silenced
<1>18. p.body.operation_id.of = p.op.asks
  <2>1. PICK id : id = operation_id(seed, "Activate", body)
    OBVIOUS
  <2>2. id.of = body
    BY <2>1 DEF operation_id
  <2>3. p.body = [body EXCEPT !.operation_id = id] /\ "operation_id" \in DOMAIN body
    BY <1>1, <2>1, OperationsAssumption DEF WithId
  <2> QED BY <1>4, <1>5, <2>2, <2>3
<1>19. LeasesOK'
  <2> SUFFICES ASSUME NEW e \in Clients
               PROVE  LeaseSound(e, pending'[e], running'[e], wire[e], held[e], journal)
    BY <1>0, <1>2 DEF LeasesOK
  <2>1. LeaseSound(e, pending[e], running[e], wire[e], held[e], journal)
    BY <1>0 DEF LeasesOK
  <2>2. CASE e = d
    BY <1>2, <1>7, <1>18, <2>1, <2>2 DEF LeaseSound
  <2>3. CASE e # d
    BY <1>7, <2>1, <2>3
  <2> QED BY <2>2, <2>3
<1> QED BY <1>8, <1>11, <1>12, <1>15, <1>16, <1>17, <1>19 DEF ClientInv

-------------------------------------------------------------------------------
(* Steps of the server. *)

\* A record that is added takes the place of those too old to be kept, and no
\* other is lost.
LEMMA KeepRecord ==
  ASSUME ClientInv, NEW x, RecordSound(x, hour), NEW tab,
         tab = {r \in table : Live(r)} \cup {x}, Record(x.actor, x.id) = {}
  PROVE  /\ \A r \in tab : RecordSound(r, hour)
         /\ \A r, q \in tab : r.actor = q.actor /\ r.id = q.id => r = q
         /\ \A e \in Entry : DocumentSound(e, table, hour) => DocumentSound(e, tab, hour)
         /\ \A i, d : \A p \in Pending :
              Recorded(i, d, p, table, hour) => Recorded(i, d, p, tab, hour)
<1>0. OpTypes /\ TableOK
  BY DEF ClientInv
<1>1. hour \in Nat /\ Window \in Nat /\ Retention \in Nat /\ Window <= Retention
  BY <1>0, OperationsAssumption DEF OpTypes
<1>2. \A r \in table : RecordSound(r, hour) /\ r.at \in Nat
  BY <1>0 DEF TableOK, RecordSound
<1>3. \A r \in tab : RecordSound(r, hour)
  BY <1>2
<1>4. ASSUME NEW r \in tab, NEW q \in tab, r.actor = q.actor, r.id = q.id
      PROVE  r = q
  <2>1. \A s \in table : Live(s) => s.actor # x.actor \/ s.id # x.id
    BY DEF Record
  <2> QED BY <1>0, <1>4, <2>1 DEF TableOK
<1>5. ASSUME NEW e \in Entry, DocumentSound(e, table, hour)
      PROVE  DocumentSound(e, tab, hour)
  <2>1. e.at \in Nat
    BY DEF Entry
  <2>2. ASSUME NEW r \in table, r.actor = None, r.id = e.op, r.at = e.at
        PROVE  r \in tab \/ hour > e.at + Retention
    BY <1>1, <2>1, <2>2 DEF Live
  <2> QED BY <1>5, <2>2 DEF DocumentSound
<1>6. ASSUME NEW i, NEW d, NEW p \in Pending, Recorded(i, d, p, table, hour)
      PROVE  Recorded(i, d, p, tab, hour)
  <2>1. p.op.at \in Nat
    BY DEF Pending, Op
  <2>2. ASSUME NEW r \in table, r.at >= p.op.at, hour <= p.op.at + Window
        PROVE  r \in tab
    BY <1>1, <1>2, <2>1, <2>2 DEF Live
  <2>3. CASE hour > p.op.at + Window
    BY <2>3 DEF Recorded
  <2>4. CASE hour <= p.op.at + Window
    BY <1>1, <1>6, <2>1, <2>2, <2>4 DEF Recorded
  <2> QED BY <1>1, <2>1, <2>3, <2>4
<1> QED BY <1>3, <1>4, <1>5, <1>6

\* When a frame arrives for an operation that has its grant, the record is there.
LEMMA RecordLive ==
  ASSUME ClientInv, NEW d \in Clients, wire[d] # None, wire[d].kind = "Activate",
         ~running[d].plain, NEW i, NEW op \in Op, op.n = pending[d].op.n,
         GrantSound(i, d, op, pending[d], running[d], wire[d], held[d], table, hour, misled)
  PROVE  \E r \in Record(d, wire[d].body.operation_id) : r.answer.kind = "Granted"
<1>1. /\ pending[d] \in Pending \cup {None} /\ hour \in Nat
      /\ ClientSound(pending[d], running[d], wire[d], hour, begun)
  BY ClientState
<1>2. pending[d] # None /\ wire[d].body = pending[d].body /\ hour <= pending[d].op.at + Window
  BY <1>1 DEF ClientSound
<1>3. Recorded(i, d, pending[d], table, hour)
  BY <1>2 DEF GrantSound
<1>4. pending[d].op.at \in Nat
  BY <1>1, <1>2 DEF Pending, Op
<1>5. PICK r \in table : /\ r.actor = d /\ r.id = pending[d].body.operation_id
                         /\ r.answer.kind = "Granted" /\ r.at >= pending[d].op.at
  BY <1>1, <1>2, <1>3, <1>4, OperationsAssumption DEF Recorded
<1>6. r.at \in Nat
  BY DEF ClientInv, TableOK, RecordSound
<1>7. Live(r)
  BY <1>1, <1>2, <1>4, <1>5, <1>6, OperationsAssumption DEF Live
<1> QED BY <1>2, <1>5, <1>7 DEF Record

\* Nothing has been counted yet for a frame that has no record; for one in the
\* old form, at most what its client was made to believe was not.
LEMMA NoGrantYet ==
  ASSUME ClientInv, NEW d \in Clients, wire[d] # None, wire[d].kind = "Activate",
         ~running[d].plain => Record(d, wire[d].body.operation_id) = {},
         NEW i \in Counted
  PROVE  journal[i].op.n = wire[d].op.n =>
           running[d].plain /\ ~journal[i].op.plain /\ Silenced(journal[i].op.n, misled)
<1> DEFINE e == journal[i].device_fpr
           op == journal[i].op
<1>1. /\ op \in Op
      /\ \A c \in Clients : Works(pending[c], wire[c], op.n) => c = e
      /\ GrantSound(i, e, op, pending[e], running[e], wire[e], held[e], table, hour, misled)
  BY DEF ClientInv, GrantsOK, GrantOK
<1> HIDE DEF e, op
<1> SUFFICES ASSUME op.n = wire[d].op.n
             PROVE  running[d].plain /\ ~op.plain /\ Silenced(op.n, misled)
  BY DEF op
<1>2. e = d
  BY <1>1 DEF Works
<1>3. ClientSound(pending[d], running[d], wire[d], hour, begun)
  BY ClientState
<1>4. CASE running[d].plain
  BY <1>1, <1>2, <1>4 DEF GrantSound
<1>5. CASE ~running[d].plain
  <2>1. wire[d].op = pending[d].op
    BY <1>3, <1>5 DEF ClientSound
  <2>2. \E r \in Record(d, wire[d].body.operation_id) : r.answer.kind = "Granted"
    BY <1>1, <1>2, <1>5, <2>1, RecordLive
  <2> QED BY <1>5, <2>2
<1> QED BY <1>4, <1>5

\* An answer that is given without executing anything.
LEMMA SayStep ==
  ASSUME ClientInv, NEW d \in Clients, wire[d] # None, wire[d].kind = "Activate",
         NEW a \in Refusals \cup Leases, wire' = [wire EXCEPT ![d] = a],
         UNCHANGED <<hour, begun, pending, running, held, journal, table, misled>>,
         running[d].plain => a.body.operation_id = None,
         a.kind = "Denied" => a.body.why # "used",
         a.kind = "Denied" => \/ a.body.operation_id = None \/ a.body.why = "frozen"
                              \/ ~\E r \in Record(d, wire[d].body.operation_id) :
                                    r.answer.kind = "Granted",
         a.kind = "Granted" => LeaseFor(a.body.lease, d, pending[d].op.asks, journal)
  PROVE  ClientInv'
<1>1. PICK p, v, h, q : p = pending[d] /\ q = running[d] /\ v = wire[d] /\ h = held[d]
  OBVIOUS
<1>2. /\ p \in Pending \cup {None} /\ q \in Progress /\ h \in SUBSET Learnt
      /\ ClientSound(p, q, v, hour, begun) /\ HeldSound(p, h, begun)
      /\ pending = [pending EXCEPT ![d] = p] /\ running = [running EXCEPT ![d] = q]
      /\ held = [held EXCEPT ![d] = h]
  BY <1>1, ClientState
<1>3. a \in Frames \cup {None} /\ a.kind # "Activate"
  BY DEF Frames, Refusals, Leases
<1>4. ClientSound(p, q, a, hour, begun)
  BY <1>1, <1>2, <1>3 DEF ClientSound
<1>5. \A n \in Nat : Works(p, a, n) => Works(p, v, n)
  BY <1>3 DEF Works
<1>6. ASSUME NEW i, NEW op \in Op, GrantSound(i, d, op, p, q, v, h, table, hour, misled)
      PROVE  GrantSound(i, d, op, p, q, a, h, table, hour, misled)
  <2>1. ASSUME p # None, p.op.n = op.n
        PROVE  /\ q.mine => q.reached \/ Silenced(op.n, misled)
               /\ (Echoed(a) /\ a.kind = "Denied" => a.body.why = "frozen")
    <3>1. ~q.plain
      BY <1>2, <2>1 DEF ClientSound
    <3>2. \E r \in Record(d, wire[d].body.operation_id) : r.answer.kind = "Granted"
      BY <1>1, <1>6, <2>1, <3>1, RecordLive
    <3> QED BY <1>1, <1>6, <2>1, <3>2 DEF GrantSound, Echoed
  <2> QED BY <1>3, <1>6, <2>1 DEF GrantSound
<1>7. LeaseSound(d, p, q, v, h, journal) => LeaseSound(d, p, q, a, h, journal)
  BY <1>1 DEF LeaseSound
<1> QED BY <1>1, <1>2, <1>3, <1>4, <1>5, <1>6, <1>7, LocalStep

\* The journal with one more record.
LEMMA JournalGrows ==
  ASSUME journal \in Seq(Entry), NEW e \in Entry, journal' = Append(journal, e)
  PROVE  /\ journal' \in Seq(Entry) /\ Len(journal) \in Nat
         /\ DOMAIN journal = 1 .. Len(journal) /\ Len(journal') = Len(journal) + 1
         /\ DOMAIN journal' = 1 .. Len(journal) + 1
         /\ \A i \in 1 .. Len(journal) : journal'[i] = journal[i]
         /\ journal'[Len(journal) + 1] = e
OBVIOUS

\* A lease that was issued stays so.
LEMMA LeaseStays ==
  ASSUME NEW N \in Nat, NEW M \in Nat, N <= M, NEW old, NEW new, DOMAIN old = 1 .. N,
         DOMAIN new = 1 .. M, \A i \in 1 .. N : new[i] = old[i]
  PROVE  /\ \A seq, d, asks : LeaseFor(seq, d, asks, old) => LeaseFor(seq, d, asks, new)
         /\ \A d, p, r, w, h : LeaseSound(d, p, r, w, h, old) => LeaseSound(d, p, r, w, h, new)
         /\ \A r : RecordedLease(r, old) => RecordedLease(r, new)
<1>1. ASSUME NEW seq, NEW d, NEW asks, LeaseFor(seq, d, asks, old)
      PROVE  LeaseFor(seq, d, asks, new)
  <2>1. PICK i \in 1 .. N : i = seq + 1
    BY <1>1 DEF LeaseFor
  <2>2. i \in 1 .. M /\ new[i] = old[i]
    BY <2>1
  <2> QED BY <1>1, <2>1, <2>2 DEF LeaseFor
<1>2. ASSUME NEW d, NEW p, NEW r, NEW w, NEW h, LeaseSound(d, p, r, w, h, old)
      PROVE  LeaseSound(d, p, r, w, h, new)
  BY <1>1, <1>2 DEF LeaseSound
<1>3. ASSUME NEW r, RecordedLease(r, old) PROVE RecordedLease(r, new)
  BY <1>1, <1>3 DEF RecordedLease
<1> QED BY <1>1, <1>2, <1>3

\* Executing an activation for which nothing has been counted.
LEMMA ExecuteStep ==
  ASSUME ClientInv, NEW d \in Clients, NEW f, f = wire[d], f # None, f.kind = "Activate",
         NEW id, id = f.body.operation_id, Execute(d, f, id),
         UNCHANGED <<hour, begun, pending, running, held, misled>>,
         ~running[d].plain => Record(d, id) = {}
  PROVE  ClientInv'
<1>0. OpTypes /\ ClientsOK /\ OneWorker /\ HeldOK /\ TableOK /\ DocumentsOK /\ GrantsOK /\ LeasesOK
  BY DEF ClientInv
<1>1. PICK p, r, h : p = pending[d] /\ r = running[d] /\ h = held[d]
  OBVIOUS
<1>2. /\ p \in Pending \cup {None} /\ r \in Progress /\ f \in Frames
      /\ ClientSound(p, r, f, hour, begun) /\ hour \in Nat /\ begun \in Nat
  BY <1>1, ClientState
<1>3. f \in Activations
  BY <1>2 DEF Frames, Refusals, Leases
<1>4. /\ f.op \in Op /\ f.body.file \in FileIds /\ f.op.n \in Nat /\ f.op.n \in 1 .. begun
      /\ IF r.plain THEN p = None /\ id = None /\ f.op.plain
         ELSE /\ p \in Pending /\ p # None /\ f.op = p.op /\ f.body = p.body
              /\ f.body \in Identified /\ id \in Ids /\ id # None
              /\ p.op.at \in Nat /\ p.op.at <= hour
  <2>1. f.op \in Op /\ f.op.n \in Nat /\ f.body \in Identified \cup Plain
    BY <1>3 DEF Activations, Op
  <2>2. f.body.file \in FileIds
    BY <2>1, IdentifiedBody, PlainBody DEF Plain
  <2>3. CASE r.plain
    BY <1>2, <2>1, <2>2, <2>3 DEF ClientSound
  <2>4. CASE ~r.plain
    <3>1. /\ p \in Pending /\ p # None /\ f.op = p.op /\ f.body = p.body
          /\ p.op.n \in 1 .. begun /\ p.op.at <= hour
      BY <1>2, <2>4 DEF ClientSound
    <3>2. p.body \in Identified /\ p.op.at \in Nat
      BY <3>1 DEF Pending, Op
    <3> QED BY <2>1, <2>2, <2>4, <3>1, <3>2, IdentifiedBody
  <2> QED BY <2>3, <2>4
<1>5. PICK N \in Nat : N = Len(journal)
  BY <1>0 DEF OpTypes
<1>6. PICK a, event :
        /\ \/ event = "ISSUE_REFUSED" /\ a = Denied(f.body.file, "limit", id)
           \/ event = "LEASE_ISSUED" /\ a = Granted(f.body.file, N, id)
        /\ journal' = Append(journal, [event |-> event, file_id |-> f.body.file,
                                       device_fpr |-> d, op |-> f.op, at |-> hour])
        /\ IF id = None THEN table' = table ELSE Keep(d, id, f.body, a)
        /\ wire' = [wire EXCEPT ![d] = a]
  BY <1>5, ZenonT(30) DEF Execute, Write
<1>7. /\ a \in Refusals \cup Leases /\ a.kind # "Activate" /\ a.body.operation_id = id
      /\ a.kind = "Denied" => a.body.why = "limit"
      /\ event = "LEASE_ISSUED" => a # None /\ a.kind = "Granted" /\ a.body.lease = N
  <2>1. id \in Ids \cup {None} /\ f.body.file \in FileIds
    BY <1>4
  <2>2. CASE event = "ISSUE_REFUSED" /\ a = Denied(f.body.file, "limit", id)
    BY <2>1, <2>2 DEF Denied, Refusals
  <2>3. CASE event = "LEASE_ISSUED" /\ a = Granted(f.body.file, N, id)
    <3>1. /\ a \in Leases /\ a.kind = "Granted" /\ a.body.lease = N
          /\ a.body.operation_id = id
      BY <1>5, <2>1, <2>3 DEF Granted, Leases
    <3> QED BY <2>3, <3>1, OperationsAssumption
  <2> QED BY <1>6, <2>2, <2>3
<1>8. PICK new \in Entry :
        /\ journal' = Append(journal, new) /\ new.event = event /\ new.op = f.op
        /\ new.device_fpr = d /\ new.at = hour
  <2>1. event \in Events
    BY <1>6 DEF Events
  <2>2. PICK new : new = [event |-> event, file_id |-> f.body.file, device_fpr |-> d,
                          op |-> f.op, at |-> hour]
    OBVIOUS
  <2>3. new \in Entry /\ new.event = event /\ new.op = f.op /\ new.device_fpr = d /\ new.at = hour
    BY <1>2, <1>4, <2>1, <2>2 DEF Entry
  <2> QED BY <1>6, <2>2, <2>3
<1>9. /\ journal' \in Seq(Entry) /\ DOMAIN journal = 1 .. N /\ DOMAIN journal' = 1 .. N + 1
      /\ \A i \in 1 .. N : journal'[i] = journal[i] /\ journal[i] \in Entry
      /\ journal'[N + 1] = new
  <2>1. journal \in Seq(Entry)
    BY <1>0 DEF OpTypes
  <2> QED BY <1>5, <1>8, <2>1, JournalGrows
<1>10. /\ wire'[d] = a /\ \A e \in Clients : e # d => wire'[e] = wire[e]
  BY <1>0, <1>6 DEF OpTypes
<1>11. \A i \in Counted : journal[i].op.n = f.op.n =>
         r.plain /\ ~journal[i].op.plain /\ Silenced(journal[i].op.n, misled)
  BY <1>1, <1>4, NoGrantYet
\* The table.
<1>12. /\ TableOK'
       /\ \A e \in Entry : DocumentSound(e, table, hour) => DocumentSound(e, table', hour)
       /\ \A i, c : \A q \in Pending :
            Recorded(i, c, q, table, hour) => Recorded(i, c, q, table', hour)
       /\ ~r.plain /\ event = "LEASE_ISSUED" => Recorded(N + 1, d, p, table', hour)
       /\ \A q \in table' : q \in table \/ (q.actor = d /\ q.id = id /\ q.answer = a /\ ~r.plain)
  <2>1. CASE r.plain
    BY <1>0, <1>4, <1>6, <2>1 DEF TableOK
  <2>2. CASE ~r.plain
    <3>1. PICK x : x = [actor |-> d, id |-> id, hash |-> f.body, answer |-> a, at |-> hour]
      OBVIOUS
    <3>2. x.actor = d /\ x.id = id /\ x.hash = f.body /\ x.answer = a /\ x.at = hour
      BY <3>1
    <3>3. table' = {q \in table : Live(q)} \cup {x}
      BY <1>4, <1>6, <2>2, <3>1 DEF Keep
    <3>4. RecordSound(x, hour)
      <4>1. \E seed \in Seeds, b \in Requests :
              id = operation_id(seed, "Activate", b) /\ f.body = WithId(b, id)
        BY <1>4, <2>2, IdentifiedBody
      <4> QED BY <1>2, <1>7, <3>2, <4>1 DEF RecordSound
    <3>5. PICK tab : tab = table'
      OBVIOUS
    <3>6. Record(x.actor, x.id) = {} /\ tab = {q \in table : Live(q)} \cup {x}
      BY <1>1, <2>2, <3>2, <3>3, <3>5
    <3>7. /\ \A q \in tab : RecordSound(q, hour)
          /\ \A s, q \in tab : s.actor = q.actor /\ s.id = q.id => s = q
          /\ \A e \in Entry : DocumentSound(e, table, hour) => DocumentSound(e, tab, hour)
          /\ \A i, c : \A q \in Pending :
               Recorded(i, c, q, table, hour) => Recorded(i, c, q, tab, hour)
      BY <3>4, <3>6, KeepRecord
    <3>8. TableOK'
      BY <3>5, <3>7 DEF TableOK
    <3>9. event = "LEASE_ISSUED" => Recorded(N + 1, d, p, tab, hour)
      <4>1. x \in tab
        BY <3>6
      <4> QED BY <1>2, <1>4, <1>5, <1>7, <2>2, <3>2, <4>1 DEF Recorded
    <3> QED BY <2>2, <3>2, <3>5, <3>6, <3>7, <3>8, <3>9
  <2> QED BY <2>1, <2>2
<1>13. OpTypes'
  BY <1>0, <1>6, <1>7, <1>9 DEF OpTypes, Frames
<1>14. ClientsOK'
  <2> SUFFICES ASSUME NEW e \in Clients
               PROVE  ClientSound(pending[e], running[e], wire'[e], hour, begun)
    BY DEF ClientsOK
  <2>1. CASE e = d
    BY <1>1, <1>2, <1>4, <1>7, <1>10, <2>1 DEF ClientSound
  <2>2. CASE e # d
    BY <1>0, <1>10, <2>2 DEF ClientsOK
  <2> QED BY <2>1, <2>2
<1>15. \A e \in Clients, n \in Nat : Works(pending[e], wire'[e], n) => Works(pending[e], wire[e], n)
  BY <1>7, <1>10 DEF Works
<1>16. OneWorker'
  <2> SUFFICES ASSUME NEW e \in Clients, NEW c \in Clients, NEW n \in Nat,
                      Works(pending[e], wire'[e], n), Works(pending[c], wire'[c], n)
               PROVE  e = c
    BY DEF OneWorker
  <2> QED BY <1>0, <1>15 DEF OneWorker
<1>17. HeldOK'
  BY <1>0 DEF HeldOK
<1>18. DocumentsOK'
  <2>1. DocumentSound(new, table', hour)
    BY <1>2, <1>4, <1>8, OperationsAssumption DEF DocumentSound
  <2>2. \A i \in DOMAIN journal' : DocumentSound(journal'[i], table', hour)
    BY <1>0, <1>5, <1>9, <1>12, <2>1 DEF DocumentsOK
  <2>3. f.op \notin Papers
    <3>1. DOMAIN f.op = {"n", "at", "plain", "asks"}
      BY <1>4 DEF Op
    <3> QED BY <3>1, OperationsAssumption
  <2>4. ASSUME NEW i \in DOMAIN journal', NEW j \in DOMAIN journal', i < j,
               journal'[i].op = journal'[j].op, journal'[i].device_fpr = None
        PROVE  journal'[j].at > journal'[i].at + Retention
    <3>1. i \in 1 .. N
      BY <1>5, <1>9, <2>4
    <3>2. journal[i].op \in Papers
      BY <1>0, <1>9, <2>4, <3>1 DEF DocumentsOK, DocumentSound
    <3>3. j # N + 1
      BY <1>8, <1>9, <2>3, <2>4, <3>1, <3>2
    <3>4. j \in 1 .. N
      BY <1>5, <1>9, <2>4, <3>3
    <3> QED BY <1>0, <1>9, <2>4, <3>1, <3>4 DEF DocumentsOK
  <2> QED BY <2>2, <2>4 DEF DocumentsOK
<1>19. Counted \subseteq 1 .. N
       /\ Counted' = Counted \cup (IF event = "LEASE_ISSUED" THEN {N + 1} ELSE {})
  BY <1>5, <1>8, <1>9 DEF Counted
<1>20. GrantsOK'
  <2>1. ASSUME NEW i \in Counted PROVE GrantOK(i)'
    <3> DEFINE e == journal[i].device_fpr
               op == journal[i].op
    <3>1. /\ e \in Clients /\ op \in Op /\ op.n \in 1 .. begun
          /\ \A c \in Clients : Works(pending[c], wire[c], op.n) => c = e
          /\ GrantSound(i, e, op, pending[e], running[e], wire[e], held[e], table, hour, misled)
      BY <1>0 DEF GrantsOK, GrantOK
    <3>2. (op.n = f.op.n => r.plain) /\ journal'[i].device_fpr = e /\ journal'[i].op = op
      BY <1>9, <1>11, <1>19
    <3> HIDE DEF e, op
    <3>3. op.n \in Nat
      BY <3>1 DEF Op
    <3>4. \A c \in Clients : Works(pending[c], wire'[c], op.n) => c = e
      BY <1>15, <3>1, <3>3
    <3>5. GrantSound(i, e, op, pending[e], running[e], wire'[e], held[e], table', hour, misled)
      <4>1. CASE e = d
        <5>1. ~(p # None /\ p.op.n = op.n)
          BY <1>4, <3>2
        <5> QED BY <1>1, <1>7, <1>10, <3>1, <4>1, <5>1 DEF GrantSound
      <4>2. CASE e # d
        <5>1. pending[e] \in Pending \cup {None}
          BY <3>1, ClientState
        <5>2. pending[e] # None /\ Recorded(i, e, pending[e], table, hour)
                => Recorded(i, e, pending[e], table', hour)
          BY <1>12, <5>1
        <5> QED BY <1>10, <3>1, <4>2, <5>2 DEF GrantSound
      <4> QED BY <4>1, <4>2
    <3> QED BY <3>1, <3>2, <3>4, <3>5 DEF GrantOK
  <2>2. ASSUME event = "LEASE_ISSUED" PROVE GrantOK(N + 1)'
    <3>1. Works(pending[d], wire[d], f.op.n)
      BY DEF Works
    <3>2. \A c \in Clients : Works(pending[c], wire'[c], f.op.n) => c = d
      BY <1>0, <1>4, <1>15, <3>1 DEF OneWorker
    <3>3. GrantSound(N + 1, d, f.op, p, r, a, h, table', hour, misled)
      <4>1. CASE r.plain
        BY <1>4, <1>7, <4>1 DEF GrantSound
      <4>2. CASE ~r.plain
        <5>1. Echoed(a) /\ a.kind = "Granted"
          BY <1>4, <1>7, <2>2, <4>2 DEF Echoed
        <5>2. Recorded(N + 1, d, p, table', hour)
          BY <1>12, <2>2, <4>2
        <5> QED BY <1>4, <1>7, <4>2, <5>1, <5>2 DEF GrantSound
      <4> QED BY <4>1, <4>2
    <3> QED BY <1>1, <1>4, <1>8, <1>9, <1>10, <3>2, <3>3 DEF GrantOK
  <2>3. \A i \in Counted' : GrantOK(i)'
    BY <1>19, <2>1, <2>2
  <2>4. ASSUME NEW i \in Counted', NEW j \in Counted', i < j,
               journal'[i].op.n = journal'[j].op.n
        PROVE  ~journal'[i].op.plain /\ journal'[j].op.plain /\ Silenced(journal'[i].op.n, misled)
    <3>0. i < j /\ Counted \subseteq 1 .. N /\ Counted' \subseteq Counted \cup {N + 1}
      BY <1>19, <2>4
    <3>1. i \in Counted /\ i \in 1 .. N
      BY <1>5, <3>0
    <3>2. CASE j \in Counted
      BY <1>0, <1>9, <1>19, <2>4, <3>1, <3>2 DEF GrantsOK
    <3>3. CASE j = N + 1
      BY <1>4, <1>8, <1>9, <1>11, <2>4, <3>1, <3>3
    <3> QED BY <1>19, <3>2, <3>3
  <2> QED BY <2>3, <2>4 DEF GrantsOK, Silenced
<1>21. LeasesOK'
  <2>1. /\ \A seq, c, asks : LeaseFor(seq, c, asks, journal) => LeaseFor(seq, c, asks, journal')
        /\ \A c, q, s, w, k : LeaseSound(c, q, s, w, k, journal) => LeaseSound(c, q, s, w, k, journal')
        /\ \A q : RecordedLease(q, journal) => RecordedLease(q, journal')
    <3>1. N + 1 \in Nat /\ N <= N + 1
      OBVIOUS
    <3> QED BY <1>9, <3>1, LeaseStays
  <2>2. LeaseSound(d, p, r, f, h, journal)
    BY <1>0, <1>1 DEF LeasesOK
  <2>3. ASSUME ~r.plain, a.kind = "Granted"
        PROVE  LeaseFor(a.body.lease, d, p.op.asks, journal') /\ id.of = p.op.asks
    <3>1. event = "LEASE_ISSUED" /\ a.body.lease = N
      BY <1>6, <1>7, <2>3 DEF Denied
    <3>2. new.op = p.op /\ new.event = "LEASE_ISSUED" /\ new.device_fpr = d
      BY <1>4, <1>8, <2>3, <3>1
    <3>3. id.of = p.op.asks
      BY <1>4, <2>2, <2>3 DEF LeaseSound
    <3> QED BY <1>9, <3>1, <3>2, <3>3 DEF LeaseFor
  <2>4. ASSUME NEW q \in table' PROVE RecordedLease(q, journal')
    <3>1. CASE q \in table
      BY <1>0, <2>1, <3>1 DEF LeasesOK
    <3>2. CASE q.actor = d /\ q.id = id /\ q.answer = a /\ ~r.plain
      BY <2>3, <3>2 DEF RecordedLease
    <3> QED BY <1>12, <3>1, <3>2
  <2>5. ASSUME NEW e \in Clients
        PROVE  LeaseSound(e, pending[e], running[e], wire'[e], held[e], journal')
    <3>1. LeaseSound(e, pending[e], running[e], wire[e], held[e], journal')
      BY <1>0, <2>1 DEF LeasesOK
    <3>2. CASE e = d
      BY <1>1, <1>10, <2>3, <3>1, <3>2 DEF LeaseSound
    <3>3. CASE e # d
      BY <1>10, <3>1, <3>3
    <3> QED BY <3>2, <3>3
  <2> QED BY <2>4, <2>5 DEF LeasesOK
<1> QED BY <1>12, <1>13, <1>14, <1>16, <1>17, <1>18, <1>20, <1>21 DEF ClientInv

\* An activation arrives: it is refused, answered from the record, or executed.
LEMMA ActivateStep ==
  ASSUME ClientInv, NEW d \in Clients, Activate(d)
  PROVE  ClientInv'
<1>1. PICK f, id, file, rec : /\ f = wire[d] /\ id = f.body.operation_id /\ file = f.body.file
                              /\ rec = Record(d, id)
  OBVIOUS
<1>2. f # None /\ f.kind = "Activate"
      /\ UNCHANGED <<hour, begun, pending, running, held, misled>>
  BY <1>1 DEF Activate
<1>3. /\ f \in Frames \cup {None} /\ running[d] \in Progress
      /\ ClientSound(pending[d], running[d], f, hour, begun)
  BY <1>1, ClientState
<1>4. f.body \in Identified \cup Plain
  BY <1>2, <1>3 DEF Frames, Refusals, Leases, Activations
<1>5. file \in FileIds /\ id \in Ids \cup {None}
  BY <1>1, <1>4, IdentifiedBody, PlainBody DEF Plain
<1>6. running[d].plain <=> id = None
  <2>1. CASE running[d].plain
    BY <1>1, <1>2, <1>3, <2>1 DEF ClientSound
  <2>2. CASE ~running[d].plain
    <3>1. f.body = pending[d].body /\ pending[d] # None
      BY <1>2, <1>3, <2>2 DEF ClientSound
    <3>2. pending[d].body \in Identified
      BY <3>1, ClientState DEF Pending
    <3> QED BY <1>1, <2>2, <3>1, <3>2, IdentifiedBody
  <2> QED BY <2>1, <2>2
<1>7. ASSUME NEW why \in {"unread", "frozen", "room"}, NEW i \in {id, None},
             Say(d, Denied(file, why, i)),
             i # None /\ why # "frozen" => rec = {}
      PROVE  ClientInv'
  <2>1. PICK a : a = Denied(file, why, i)
    OBVIOUS
  <2>2. a \in Refusals /\ a.kind = "Denied" /\ a.body.why = why /\ a.body.operation_id = i
    BY <1>5, <1>7, <2>1 DEF Denied, Refusals
  <2>3. wire' = [wire EXCEPT ![d] = a] /\ UNCHANGED <<journal, table>>
    BY <1>7, <2>1 DEF Say
  <2> QED BY <1>1, <1>2, <1>6, <1>7, <2>2, <2>3, SayStep
<1>8. ASSUME NEW r \in rec, id # None PROVE r.hash = f.body
  <2>1. r \in table /\ r.actor = d /\ r.id = id
    BY <1>1 DEF Record
  <2>2. RecordSound(r, hour) /\ r.actor # None
    BY <2>1, OperationsAssumption DEF ClientInv, TableOK
  <2>3. f.body \in Identified
    <3>1. \A b \in Plain : b.operation_id = None
      BY PlainBody DEF Plain
    <3> QED BY <1>1, <1>4, <1>8, <3>1
  <2> QED BY <1>1, <2>1, <2>2, <2>3, RecordOfBody
<1>9. ASSUME NEW r \in rec, id # None, Say(d, r.answer)
      PROVE  ClientInv'
  <2>1. r \in table /\ r.actor = d /\ r.id = id
    BY <1>1 DEF Record
  <2>2. RecordSound(r, hour) /\ r.actor # None
    BY <2>1, OperationsAssumption DEF ClientInv, TableOK
  <2>3. PICK a : a = r.answer
    OBVIOUS
  <2>4. a \in Refusals \cup Leases /\ (a.kind = "Denied" => a.body.why = "limit")
    BY <2>2, <2>3 DEF RecordSound
  <2>5. \A q \in rec : q = r
    BY <1>1, <2>1 DEF Record, ClientInv, TableOK
  <2>6. wire' = [wire EXCEPT ![d] = a] /\ UNCHANGED <<journal, table>>
    BY <1>9, <2>3 DEF Say
  <2>7. a.kind = "Denied" => ~\E q \in Record(d, wire[d].body.operation_id) : q.answer.kind = "Granted"
    BY <1>1, <2>3, <2>5
  <2>8. ~running[d].plain
    BY <1>6, <1>9
  <2>9. a.kind = "Granted" => LeaseFor(a.body.lease, d, pending[d].op.asks, journal)
    <3>1. RecordedLease(r, journal) /\ LeaseSound(d, pending[d], running[d], f, held[d], journal)
      BY <1>1, <2>1 DEF ClientInv, LeasesOK
    <3>2. pending[d] # None /\ f.body = pending[d].body
      BY <1>2, <1>3, <2>8 DEF ClientSound
    <3>3. id.of = pending[d].op.asks
      BY <1>1, <3>1, <3>2 DEF LeaseSound
    <3> QED BY <2>1, <2>2, <2>3, <3>1, <3>3 DEF RecordedLease
  <2> QED BY <1>1, <1>2, <2>4, <2>6, <2>7, <2>8, <2>9, SayStep
<1>10. ASSUME Execute(d, f, id), id # None => rec = {}
       PROVE  ClientInv'
  BY <1>1, <1>2, <1>6, <1>10, ExecuteStep
<1>11. \/ Say(d, Denied(file, "unread", None))
       \/ /\ id = None
          /\ Say(d, Denied(file, "frozen", None)) \/ Execute(d, f, id)
       \/ /\ id # None /\ rec # {}
          /\ \E r \in rec : \/ r.hash # f.body
                            \/ Say(d, Denied(file, "frozen", id)) \/ Say(d, r.answer)
       \/ /\ id # None /\ rec = {}
          /\ \/ Say(d, Denied(file, "room", id)) \/ Say(d, Denied(file, "frozen", id))
             \/ Execute(d, f, id)
  <2>1. ASSUME rec # {} PROVE (CHOOSE r \in rec : TRUE) \in rec
    BY <2>1
  <2> QED BY <1>1, <2>1 DEF Activate
<1> QED BY <1>7, <1>8, <1>9, <1>10, <1>11

\* A document takes effect where it has no record.
LEMMA DocumentStep ==
  ASSUME ClientInv, NEW f \in Papers, Document(f)
  PROVE  ClientInv'
<1>0. OpTypes /\ ClientsOK /\ OneWorker /\ HeldOK /\ TableOK /\ DocumentsOK /\ GrantsOK /\ LeasesOK
  BY DEF ClientInv
<1>1. hour \in Nat /\ journal \in Seq(Entry)
  BY <1>0 DEF OpTypes
<1>2. PICK x, new :
        /\ x = [actor |-> None, id |-> f, hash |-> f,
                answer |-> [kind |-> "Accepted", body |-> [len |-> 0]], at |-> hour]
        /\ new = [event |-> f.body.change, file_id |-> f.body.file, device_fpr |-> None,
                  op |-> f, at |-> hour]
  OBVIOUS
<1>3. /\ Record(None, f) = {} /\ journal' = Append(journal, new)
      /\ table' = {r \in table : Live(r)} \cup {x}
      /\ UNCHANGED <<hour, begun, pending, running, wire, held, misled>>
  BY <1>2 DEF Document, Write, Keep
<1>4. x.actor = None /\ x.id = f /\ x.at = hour
  BY <1>2
<1>5. new.event = f.body.change /\ new.op = f /\ new.device_fpr = None /\ new.at = hour
  BY <1>2
<1>6. new \in Entry
  BY <1>1, <1>2 DEF Entry, Events, FileIds
<1>7. RecordSound(x, hour)
  BY <1>1, <1>4 DEF RecordSound
<1>8. PICK tab : tab = table'
  OBVIOUS
<1>9. tab = {r \in table : Live(r)} \cup {x} /\ Record(x.actor, x.id) = {}
  BY <1>3, <1>4, <1>8
<1>10. /\ \A r \in tab : RecordSound(r, hour)
       /\ \A r, q \in tab : r.actor = q.actor /\ r.id = q.id => r = q
       /\ \A e \in Entry : DocumentSound(e, table, hour) => DocumentSound(e, tab, hour)
       /\ \A i, d : \A p \in Pending :
            Recorded(i, d, p, table, hour) => Recorded(i, d, p, tab, hour)
  BY <1>7, <1>9, KeepRecord
<1>11. TableOK'
  BY <1>3, <1>8, <1>10 DEF TableOK
<1>12. PICK N \in Nat : N = Len(journal)
  BY <1>1
<1>13. /\ journal' \in Seq(Entry) /\ DOMAIN journal = 1 .. N /\ DOMAIN journal' = 1 .. N + 1
       /\ \A i \in 1 .. N : journal'[i] = journal[i] /\ journal[i] \in Entry
       /\ journal'[N + 1] = new
  BY <1>1, <1>3, <1>6, <1>12, JournalGrows
<1>14. OpTypes'
  BY <1>0, <1>3, <1>13 DEF OpTypes
<1>15. ClientsOK' /\ OneWorker' /\ HeldOK'
  BY <1>0, <1>3 DEF ClientsOK, OneWorker, HeldOK
<1>16. new.event # "LEASE_ISSUED"
  BY <1>5, OperationsAssumption
<1>17. DocumentsOK'
  <2>1. DocumentSound(new, tab, hour)
    BY <1>1, <1>4, <1>5, <1>9, <1>16 DEF DocumentSound
  <2>2. \A i \in DOMAIN journal' : DocumentSound(journal'[i], tab, hour)
    BY <1>0, <1>10, <1>12, <1>13, <2>1 DEF DocumentsOK
  <2>3. ASSUME NEW i \in 1 .. N, journal[i].op = f, journal[i].device_fpr = None
        PROVE  hour > journal[i].at + Retention
    <3>1. DocumentSound(journal[i], table, hour)
      BY <1>0, <1>13 DEF DocumentsOK
    <3>2. \A r \in table : r.actor = None /\ r.id = f => ~Live(r)
      BY <1>3 DEF Record
    <3>3. journal[i].at \in Nat
      BY <1>13 DEF Entry
    <3>4. \/ hour > journal[i].at + Retention
          \/ \E r \in table : r.actor = None /\ r.id = f /\ r.at = journal[i].at
      BY <2>3, <3>1 DEF DocumentSound
    <3>5. ASSUME NEW r \in table, r.actor = None, r.id = f, r.at = journal[i].at
          PROVE  hour > journal[i].at + Retention
      <4>1. ~(hour <= journal[i].at + Retention)
        BY <3>2, <3>5 DEF Live
      <4>2. hour \in Nat /\ Retention \in Nat
        BY <1>1, OperationsAssumption
      <4> QED BY <3>3, <4>1, <4>2
    <3> QED BY <3>4, <3>5, Zenon
  <2>4. ASSUME NEW i \in DOMAIN journal', NEW j \in DOMAIN journal', i < j,
               journal'[i].op = journal'[j].op, journal'[i].device_fpr = None
        PROVE  journal'[j].at > journal'[i].at + Retention
    <3>1. i \in 1 .. N
      BY <1>12, <1>13, <2>4
    <3>2. CASE j = N + 1
      BY <1>5, <1>13, <2>3, <2>4, <3>1, <3>2
    <3>3. CASE j \in 1 .. N
      BY <1>0, <1>13, <2>4, <3>1, <3>3 DEF DocumentsOK
    <3> QED BY <1>12, <1>13, <3>2, <3>3
  <2> QED BY <1>3, <1>8, <2>2, <2>4 DEF DocumentsOK
<1>18. Counted' = Counted /\ Counted \subseteq 1 .. N
  BY <1>12, <1>13, <1>16 DEF Counted
<1>19. GrantsOK'
  <2>1. ASSUME NEW i \in Counted PROVE GrantOK(i)'
    <3> DEFINE e == journal[i].device_fpr
               op == journal[i].op
    <3>1. /\ e \in Clients /\ op \in Op /\ op.n \in 1 .. begun
          /\ \A c \in Clients : Works(pending[c], wire[c], op.n) => c = e
          /\ GrantSound(i, e, op, pending[e], running[e], wire[e], held[e], table, hour, misled)
      BY <1>0 DEF GrantsOK, GrantOK
    <3>2. journal'[i].device_fpr = e /\ journal'[i].op = op
      BY <1>13, <1>18
    <3> HIDE DEF e, op
    <3>3. pending[e] \in Pending \cup {None}
      BY <3>1, ClientState
    <3>4. GrantSound(i, e, op, pending[e], running[e], wire[e], held[e], tab, hour, misled)
      BY <1>10, <3>1, <3>3 DEF GrantSound
    <3> QED BY <1>3, <1>8, <3>1, <3>2, <3>4 DEF GrantOK
  <2>2. \A i \in Counted : journal'[i] = journal[i]
    BY <1>13, <1>18
  <2>3. ASSUME NEW i \in Counted, NEW j \in Counted, i < j,
               journal'[i].op.n = journal'[j].op.n
        PROVE  ~journal'[i].op.plain /\ journal'[j].op.plain /\ Silenced(journal'[i].op.n, misled)
    BY <1>0, <2>2, <2>3 DEF GrantsOK
  <2> QED BY <1>3, <1>18, <2>1, <2>3 DEF GrantsOK, Silenced
<1>20. LeasesOK'
  <2>1. /\ \A c, q, s, w, k : LeaseSound(c, q, s, w, k, journal) => LeaseSound(c, q, s, w, k, journal')
        /\ \A q : RecordedLease(q, journal) => RecordedLease(q, journal')
    <3>1. N + 1 \in Nat /\ N <= N + 1
      BY <1>12
    <3> QED BY <1>12, <1>13, <3>1, LeaseStays
  <2>2. RecordedLease(x, journal')
    BY <1>4 DEF RecordedLease
  <2>3. \A r \in table' : RecordedLease(r, journal')
    BY <1>0, <1>3, <2>1, <2>2 DEF LeasesOK
  <2>4. \A d \in Clients : LeaseSound(d, pending[d], running[d], wire[d], held[d], journal')
    BY <1>0, <2>1 DEF LeasesOK
  <2> QED BY <1>3, <2>3, <2>4 DEF LeasesOK
<1> QED BY <1>11, <1>14, <1>15, <1>17, <1>19, <1>20 DEF ClientInv

\* As time passes: nothing is on a connection, and what is too old to be
\* repeated was written down long enough ago.
LEMMA HourStep ==
  ASSUME ClientInv, Hour
  PROVE  ClientInv'
<1>0. OpTypes /\ ClientsOK /\ OneWorker /\ HeldOK /\ TableOK /\ DocumentsOK /\ GrantsOK /\ LeasesOK
  BY DEF ClientInv
<1>1. /\ hour' = hour + 1 /\ \A d \in Clients : wire[d] = None
      /\ UNCHANGED <<journal, table, begun, pending, running, wire, held, misled>>
  BY DEF Hour
<1>2. hour \in Nat /\ begun \in Nat /\ Window \in Nat /\ Retention \in Nat
  BY <1>0, OperationsAssumption DEF OpTypes
<1>3. OpTypes' /\ OneWorker' /\ HeldOK'
  BY <1>0, <1>1, <1>2 DEF OpTypes, OneWorker, HeldOK
<1>4. ClientsOK'
  <2> SUFFICES ASSUME NEW d \in Clients
               PROVE  ClientSound(pending[d], running[d], wire[d], hour + 1, begun)
    BY <1>1 DEF ClientsOK
  <2>1. ClientSound(pending[d], running[d], wire[d], hour, begun) /\ wire[d] = None
        /\ pending[d] \in Pending \cup {None}
    BY <1>1, ClientState
  <2>2. pending[d] # None => pending[d].op.at \in Nat
    BY <2>1 DEF Pending, Op
  <2> QED BY <1>2, <2>1, <2>2 DEF ClientSound
<1>5. TableOK'
  <2>1. \A r : RecordSound(r, hour) => RecordSound(r, hour + 1)
    BY <1>2 DEF RecordSound
  <2> QED BY <1>0, <1>1, <2>1 DEF TableOK
<1>6. DocumentsOK'
  <2>1. \A e \in Entry : DocumentSound(e, table, hour) => DocumentSound(e, table, hour + 1)
    <3> SUFFICES ASSUME NEW e \in Entry, DocumentSound(e, table, hour)
                 PROVE  DocumentSound(e, table, hour + 1)
      OBVIOUS
    <3>1. e.at \in Nat
      BY DEF Entry
    <3> QED BY <1>2, <3>1 DEF DocumentSound
  <2>2. \A i \in DOMAIN journal : journal[i] \in Entry
    BY <1>0 DEF OpTypes
  <2> QED BY <1>0, <1>1, <2>1, <2>2 DEF DocumentsOK
<1>7. GrantsOK'
  <2>1. Counted' = Counted
    BY <1>1 DEF Counted
  <2>2. ASSUME NEW i \in Counted PROVE GrantOK(i)'
    <3> DEFINE e == journal[i].device_fpr
               op == journal[i].op
    <3>1. /\ e \in Clients /\ op \in Op /\ op.n \in 1 .. begun
          /\ \A c \in Clients : Works(pending[c], wire[c], op.n) => c = e
          /\ GrantSound(i, e, op, pending[e], running[e], wire[e], held[e], table, hour, misled)
      BY <1>0 DEF GrantsOK, GrantOK
    <3> HIDE DEF e, op
    <3>2. pending[e] \in Pending \cup {None} /\ op.at \in Nat
      BY <3>1, ClientState DEF Op
    <3>3. ASSUME pending[e] # None, Recorded(i, e, pending[e], table, hour)
          PROVE  Recorded(i, e, pending[e], table, hour + 1)
      <4>1. pending[e].op.at \in Nat
        BY <3>2, <3>3 DEF Pending, Op
      <4> QED BY <1>2, <3>3, <4>1 DEF Recorded
    <3>4. op.plain \/ hour > op.at + Window => op.plain \/ hour + 1 > op.at + Window
      BY <1>2, <3>2
    <3>5. GrantSound(i, e, op, pending[e], running[e], wire[e], held[e], table, hour + 1, misled)
      BY <3>1, <3>3, <3>4 DEF GrantSound
    <3> QED BY <1>1, <3>1, <3>5 DEF GrantOK, e, op
  <2> QED BY <1>0, <1>1, <2>1, <2>2 DEF GrantsOK, Silenced
<1>8. LeasesOK'
  BY <1>0, <1>1 DEF LeasesOK
<1> QED BY <1>3, <1>4, <1>5, <1>6, <1>7, <1>8 DEF ClientInv

-------------------------------------------------------------------------------
(* The subscriber's steps. *)

\* A notice says what the record says.
LEMMA NoticeRead ==
  ASSUME NEW i \in Nat, NEW e
  PROVE  LET n == decode_notice(encode_notice(i, e))
         IN  /\ encode_notice(i, e).seq = i
             /\ n.seq = i /\ n.event = e.event /\ n.file_id = e.file_id
             /\ n.device_fpr = e.device_fpr
<1> DEFINE b == encode_notice(i, e)
<1>1. /\ b.notice = "Event" /\ b.len = 58 /\ b.seq = i /\ b.event = e.event
      /\ b.file_id = e.file_id /\ b.fpr = e.device_fpr
      /\ b.has = IF e.device_fpr = None THEN 0 ELSE 1
  BY DEF encode_notice
<1> HIDE DEF b
<1>2. decode_notice(b) = [seq |-> b.seq, event |-> b.event, file_id |-> b.file_id,
                          device_fpr |-> IF b.has = 1 THEN b.fpr ELSE None]
  BY <1>1 DEF decode_notice
<1>3. (IF b.has = 1 THEN b.fpr ELSE None) = e.device_fpr
  BY <1>1
<1> QED BY <1>1, <1>2, <1>3 DEF b

\* A notice has the number of its record.
LEMMA NoticeSeq ==
  ASSUME NEW entries, NEW i \in Nat \ {0}
  PROVE  /\ Notice(i, entries).kind = "Notice" /\ Notice(i, entries).body.seq = i - 1
         /\ Notice(i, entries).body = encode_notice(i - 1, entries[i])
<1> DEFINE b == encode_notice(i - 1, entries[i])
<1>1. b.seq = i - 1
  <2>1. i - 1 \in Nat
    OBVIOUS
  <2> QED BY <2>1, NoticeRead
<1> HIDE DEF b
<1>2. Notice(i, entries) = [kind |-> "Notice", body |-> b]
  BY DEF Notice, b
<1>3. Notice(i, entries).kind = "Notice" /\ Notice(i, entries).body = b
  BY <1>2
<1> QED BY <1>1, <1>3 DEF b

\* What is on the connection lies ahead of the cursor.
LEMMA NothingComesAgain ==
  ASSUME watcher \in Subscriber, WatcherOK
  PROVE  Ahead
<1> SUFFICES ASSUME NEW k \in DOMAIN watcher.coming
             PROVE  decode_notice(watcher.coming[k].body).seq >= watcher.cursor
  BY DEF Ahead
<1>1. watcher.cursor \in Nat /\ watcher.at \in Nat /\ watcher.coming # <<>>
  BY DEF Subscriber
<1>2. PICK i \in watcher.cursor + 1 .. watcher.at : watcher.coming[k] = Notice(i, journal)
  BY <1>1 DEF WatcherOK
<1>3. i \in Nat \ {0} /\ i - 1 \in Nat /\ i - 1 >= watcher.cursor
  BY <1>1, <1>2
<1>4. watcher.coming[k].body = encode_notice(i - 1, journal[i])
  BY <1>2, <1>3, NoticeSeq
<1>5. decode_notice(encode_notice(i - 1, journal[i])).seq = i - 1
  BY <1>3, NoticeRead
<1> QED BY <1>3, <1>4, <1>5

\* A journal that only grows leaves what the subscriber relies on.
LEMMA WatcherKept ==
  ASSUME WatchInv, journal \in Seq(Entry), journal' \in Seq(Entry),
         Len(journal) <= Len(journal'),
         \A i \in 1 .. Len(journal) : journal'[i] = journal[i], UNCHANGED watcher
  PROVE  WatchInv'
<1>1. PICK N \in Nat, M \in Nat : N = Len(journal) /\ M = Len(journal') /\ N <= M
  OBVIOUS
<1>2. DOMAIN journal = 1 .. N /\ DOMAIN journal' = 1 .. M
  BY <1>1
<1>3. watcher \in Subscriber /\ WatcherOK /\ watcher' \in Subscriber
  BY DEF WatchInv
<1>4. watcher.cursor \in Nat /\ watcher.at \in Nat
  BY <1>3 DEF Subscriber
<1>5. \A i \in 1 .. N : Notice(i, journal') = Notice(i, journal)
  BY <1>1 DEF Notice
<1>6. watcher.cursor <= N /\ (watcher.on => watcher.at \in watcher.cursor .. N)
  BY <1>1, <1>3 DEF WatcherOK
<1>7. Heard'
  <2> SUFFICES ASSUME NEW i \in DOMAIN journal', i <= watcher.cursor,
                      journal'[i].file_id \in Watched, journal'[i].event \in journal_event
               PROVE  \E n \in watcher.heard :
                        n.seq = i - 1 /\ n.event = journal'[i].event
                        /\ n.file_id = journal'[i].file_id /\ n.device_fpr = journal'[i].device_fpr
    BY DEF Heard, journal_event
  <2>1. i \in DOMAIN journal /\ journal'[i] = journal[i]
    BY <1>1, <1>2, <1>4, <1>6
  <2> QED BY <1>3, <2>1 DEF WatcherOK, Heard
<1>8. ASSUME watcher.on
      PROVE  /\ \A k \in DOMAIN watcher.coming :
                  \E i \in watcher.cursor + 1 .. watcher.at : watcher.coming[k] = Notice(i, journal')
             /\ \A i \in watcher.cursor + 1 .. watcher.at :
                  journal'[i].file_id \in Watched =>
                    \E k \in DOMAIN watcher.coming : watcher.coming[k] = Notice(i, journal')
  <2>1. \A i \in watcher.cursor + 1 .. watcher.at :
          i \in 1 .. N /\ Notice(i, journal') = Notice(i, journal) /\ journal'[i] = journal[i]
    BY <1>1, <1>4, <1>5, <1>6, <1>8
  <2> QED BY <1>3, <1>8, <2>1 DEF WatcherOK
<1>9. WatcherOK'
  <2>1. watcher'.cursor <= Len(journal')
    BY <1>1, <1>4, <1>6
  <2>2. watcher.on => watcher.at \in watcher.cursor .. Len(journal')
    BY <1>1, <1>4, <1>6
  <2>3. /\ watcher.coming # <<>> => watcher.on
        /\ watcher.on => watcher.files = Watched
        /\ watcher.on => \A k, l \in DOMAIN watcher.coming :
             k < l => watcher.coming[k].body.seq < watcher.coming[l].body.seq
    BY <1>3 DEF WatcherOK
  <2> QED BY <1>7, <1>8, <2>1, <2>2, <2>3, ZenonT(60) DEF WatcherOK, Notice, encode_notice
<1> QED BY <1>3, <1>9 DEF WatchInv

\* A subscription begins at the cursor.
LEMMA SubscribeStep ==
  ASSUME ClientInv, WatchInv, UNCHANGED journal, ~watcher.on,
         watcher.cursor <= Len(journal),
         watcher' = [watcher EXCEPT !.on = TRUE, !.files = Watched, !.at = watcher.cursor]
  PROVE  WatchInv'
<1>1. watcher \in Subscriber /\ WatcherOK /\ journal \in Seq(Entry)
  BY DEF WatchInv, ClientInv, OpTypes
<1>2. watcher.cursor \in Nat /\ Watched \in SUBSET Files /\ Len(journal) \in Nat
  BY <1>1, OperationsAssumption DEF Subscriber
<1>3. /\ watcher' \in Subscriber /\ watcher'.on /\ watcher'.files = Watched
      /\ watcher'.at = watcher.cursor /\ watcher'.coming = watcher.coming
      /\ watcher'.cursor = watcher.cursor /\ watcher'.heard = watcher.heard
  BY <1>1, <1>2 DEF Subscriber
<1>4. watcher.coming = <<>> /\ Heard
  BY <1>1 DEF WatcherOK
<1>5. Heard'
  BY <1>3, <1>4 DEF Heard, journal_event
<1>6. DOMAIN watcher'.coming = {}
  BY <1>3, <1>4
<1>7. watcher'.cursor + 1 .. watcher'.at = {}
  BY <1>2, <1>3
<1>8. watcher'.cursor <= Len(journal') /\ watcher'.at \in watcher'.cursor .. Len(journal')
  BY <1>2, <1>3
<1>9. WatcherOK'
  BY <1>3, <1>5, <1>6, <1>7, <1>8 DEF WatcherOK
<1> QED BY <1>3, <1>9 DEF WatchInv

\* The server goes on to the next record.
LEMMA TailStep ==
  ASSUME ClientInv, WatchInv, TailJournal
  PROVE  WatchInv'
<1>1. watcher \in Subscriber /\ WatcherOK /\ journal \in Seq(Entry)
  BY DEF WatchInv, ClientInv, OpTypes
<1>2. PICK N \in Nat, c \in Nat, a \in Nat, q \in Seq(Notices) :
        N = Len(journal) /\ c = watcher.cursor /\ a = watcher.at /\ q = watcher.coming
  BY <1>1 DEF Subscriber
<1>3. PICK e : e = journal[a + 1]
  OBVIOUS
<1>4. PICK q2 : q2 = IF e.file_id \in watcher.files
                     THEN Append(q, [kind |-> "Notice", body |-> encode_notice(a, e)]) ELSE q
  OBVIOUS
<1>5. /\ watcher.on /\ a < N /\ watcher' = [watcher EXCEPT !.at = a + 1, !.coming = q2]
      /\ UNCHANGED journal
  BY <1>1, <1>2, <1>3, <1>4 DEF TailJournal, Subscriber
<1>6. /\ watcher.files = Watched /\ c <= a /\ a <= N
      /\ \A k \in DOMAIN q : \E i \in c + 1 .. a : q[k] = Notice(i, journal)
      /\ \A k, l \in DOMAIN q : k < l => q[k].body.seq < q[l].body.seq
      /\ \A i \in c + 1 .. a : journal[i].file_id \in Watched =>
           \E k \in DOMAIN q : q[k] = Notice(i, journal)
      /\ Heard
  BY <1>1, <1>2, <1>5 DEF WatcherOK
<1>7. [kind |-> "Notice", body |-> encode_notice(a, e)] = Notice(a + 1, journal)
  <2>1. (a + 1) - 1 = a
    BY <1>2
  <2> QED BY <1>3, <2>1 DEF Notice
<1>8. e \in Entry
  BY <1>1, <1>2, <1>3, <1>5
<1>9. Notice(a + 1, journal) \in Notices
  BY <1>2, <1>7, <1>8 DEF Notices
<1>10. PICK m : m = Notice(a + 1, journal)
  OBVIOUS
<1>11. q2 = IF e.file_id \in Watched THEN Append(q, m) ELSE q
  BY <1>4, <1>6, <1>7, <1>10
<1>12. m \in Notices /\ m.body.seq = a
  BY <1>2, <1>9, <1>10, NoticeSeq
<1>13. \A k \in DOMAIN q : q[k].body.seq < a
  <2> SUFFICES ASSUME NEW k \in DOMAIN q PROVE q[k].body.seq < a
    OBVIOUS
  <2>1. PICK i \in c + 1 .. a : q[k] = Notice(i, journal)
    BY <1>6
  <2>2. q[k].body.seq = i - 1
    BY <1>2, <2>1, NoticeSeq
  <2> QED BY <1>2, <2>1, <2>2
<1>14. /\ q2 \in Seq(Notices)
       /\ \A k \in DOMAIN q2 : \E i \in c + 1 .. a + 1 : q2[k] = Notice(i, journal)
       /\ \A k, l \in DOMAIN q2 : k < l => q2[k].body.seq < q2[l].body.seq
       /\ \A i \in c + 1 .. a + 1 : journal[i].file_id \in Watched =>
            \E k \in DOMAIN q2 : q2[k] = Notice(i, journal)
  <2>1. CASE e.file_id \notin Watched
    <3>1. q2 = q
      BY <1>11, <2>1
    <3>2. \A i \in c + 1 .. a + 1 : journal[i].file_id \in Watched => i \in c + 1 .. a
      BY <1>2, <1>3, <2>1
    <3>3. \A i \in c + 1 .. a : i \in c + 1 .. a + 1
      BY <1>2
    <3> QED BY <1>2, <1>6, <3>1, <3>2, <3>3
  <2>2. CASE e.file_id \in Watched
    <3>1. PICK L \in Nat : L = Len(q)
      BY <1>2
    <3>2. /\ q2 \in Seq(Notices) /\ DOMAIN q = 1 .. L /\ DOMAIN q2 = 1 .. L + 1
          /\ \A k \in 1 .. L : q2[k] = q[k]
          /\ q2[L + 1] = m
      BY <1>2, <1>11, <1>12, <2>2, <3>1
    <3>3. \A i \in c + 1 .. a : i \in c + 1 .. a + 1
      BY <1>2
    <3>4. a + 1 \in c + 1 .. a + 1
      BY <1>2, <1>6
    <3>5. \A k \in DOMAIN q2 : \E i \in c + 1 .. a + 1 : q2[k] = Notice(i, journal)
      <4> SUFFICES ASSUME NEW k \in DOMAIN q2
                   PROVE  \E i \in c + 1 .. a + 1 : q2[k] = Notice(i, journal)
        OBVIOUS
      <4>1. CASE k = L + 1
        BY <1>10, <3>2, <3>4, <4>1
      <4>2. CASE k \in 1 .. L
        BY <1>6, <3>2, <3>3, <4>2
      <4> QED BY <3>1, <3>2, <4>1, <4>2
    <3>6. \A k, l \in DOMAIN q2 : k < l => q2[k].body.seq < q2[l].body.seq
      <4> SUFFICES ASSUME NEW k \in DOMAIN q2, NEW l \in DOMAIN q2, k < l
                   PROVE  q2[k].body.seq < q2[l].body.seq
        OBVIOUS
      <4>1. k \in 1 .. L
        BY <3>1, <3>2
      <4>2. CASE l = L + 1
        BY <1>12, <1>13, <3>2, <4>1, <4>2
      <4>3. CASE l \in 1 .. L
        BY <1>6, <3>2, <4>1, <4>3
      <4> QED BY <3>1, <3>2, <4>2, <4>3
    <3>7. \A i \in c + 1 .. a + 1 : journal[i].file_id \in Watched =>
            \E k \in DOMAIN q2 : q2[k] = Notice(i, journal)
      <4> SUFFICES ASSUME NEW i \in c + 1 .. a + 1, journal[i].file_id \in Watched
                   PROVE  \E k \in DOMAIN q2 : q2[k] = Notice(i, journal)
        OBVIOUS
      <4>0. L + 1 \in DOMAIN q2 /\ \A k \in 1 .. L : k \in DOMAIN q2
        BY <3>1, <3>2
      <4>1. CASE i = a + 1
        BY <1>10, <3>2, <4>0, <4>1
      <4>2. CASE i \in c + 1 .. a
        BY <1>6, <3>2, <4>0, <4>2
      <4> QED BY <1>2, <4>1, <4>2
    <3> QED BY <3>2, <3>5, <3>6, <3>7
  <2> QED BY <2>1, <2>2
<1>15. /\ watcher' \in Subscriber /\ watcher'.on /\ watcher'.files = watcher.files
       /\ watcher'.at = a + 1 /\ watcher'.coming = q2 /\ watcher'.cursor = c
       /\ watcher'.heard = watcher.heard
  <2>1. PICK b \in Nat : b = a + 1
    BY <1>2
  <2>2. watcher' = [watcher EXCEPT !.at = b, !.coming = q2] /\ q2 \in Seq(Notices) /\ watcher.on
    BY <1>5, <1>14, <2>1
  <2> HIDE DEF Notices
  <2>3. /\ watcher' \in Subscriber /\ watcher'.on /\ watcher'.files = watcher.files
        /\ watcher'.at = b /\ watcher'.coming = q2 /\ watcher'.cursor = watcher.cursor
        /\ watcher'.heard = watcher.heard
    BY <1>1, <2>2 DEF Subscriber
  <2> QED BY <1>2, <2>1, <2>3
<1>16. Heard'
  BY <1>2, <1>5, <1>6, <1>15 DEF Heard, journal_event
<1>17. watcher'.cursor <= Len(journal') /\ watcher'.at \in watcher'.cursor .. Len(journal')
  BY <1>2, <1>5, <1>6, <1>15
<1>18. WatcherOK'
  <2>1. /\ \A k \in DOMAIN watcher'.coming :
             \E i \in watcher'.cursor + 1 .. watcher'.at : watcher'.coming[k] = Notice(i, journal')
        /\ \A k, l \in DOMAIN watcher'.coming :
             k < l => watcher'.coming[k].body.seq < watcher'.coming[l].body.seq
        /\ \A i \in watcher'.cursor + 1 .. watcher'.at :
             journal'[i].file_id \in Watched =>
               \E k \in DOMAIN watcher'.coming : watcher'.coming[k] = Notice(i, journal')
    BY <1>5, <1>14, <1>15
  <2> QED BY <1>6, <1>15, <1>16, <1>17, <2>1 DEF WatcherOK
<1> QED BY <1>15, <1>18 DEF WatchInv

\* The first notice that comes is that of the next record the subscription
\* names: the cursor passes over no other.
LEMMA HearNoticeStep ==
  ASSUME ClientInv, WatchInv, HearNotice
  PROVE  WatchInv'
<1>1. watcher \in Subscriber /\ WatcherOK /\ journal \in Seq(Entry)
  BY DEF WatchInv, ClientInv, OpTypes
<1>2. PICK N \in Nat, c \in Nat, a \in Nat, q \in Seq(Notices) :
        N = Len(journal) /\ c = watcher.cursor /\ a = watcher.at /\ q = watcher.coming
  BY <1>1 DEF Subscriber
<1>3. PICK n, g : /\ n = decode_notice(Head(q).body)
                  /\ g = IF n.event \in journal_event THEN watcher.heard \cup {n} ELSE watcher.heard
  OBVIOUS
<1>4. /\ q # <<>> /\ UNCHANGED journal
      /\ watcher' = [watcher EXCEPT !.coming = Tail(q), !.cursor = n.seq + 1, !.heard = g]
  BY <1>1, <1>2, <1>3 DEF HearNotice, Subscriber
<1>5. /\ watcher.on /\ watcher.files = Watched /\ c <= a /\ a <= N
      /\ \A k \in DOMAIN q : \E i \in c + 1 .. a : q[k] = Notice(i, journal)
      /\ \A k, l \in DOMAIN q : k < l => q[k].body.seq < q[l].body.seq
      /\ \A i \in c + 1 .. a : journal[i].file_id \in Watched =>
           \E k \in DOMAIN q : q[k] = Notice(i, journal)
      /\ Heard
  BY <1>1, <1>2, <1>4 DEF WatcherOK
<1>6. PICK L \in Nat : L = Len(q) /\ DOMAIN q = 1 .. L
  BY <1>2
<1>7. /\ L >= 1 /\ Head(q) = q[1] /\ Tail(q) \in Seq(Notices) /\ DOMAIN Tail(q) = 1 .. L - 1
      /\ \A k \in 1 .. L - 1 : Tail(q)[k] = q[k + 1]
  BY <1>2, <1>4, <1>6
<1>8. PICK i \in c + 1 .. a : q[1] = Notice(i, journal)
  BY <1>5, <1>6, <1>7
<1>9. i \in Nat \ {0} /\ i <= N /\ c < i /\ i <= a /\ i - 1 \in Nat
  BY <1>2, <1>5, <1>8
<1>10. /\ q[1].body.seq = i - 1 /\ n.seq = i - 1 /\ n.event = journal[i].event
       /\ n.file_id = journal[i].file_id /\ n.device_fpr = journal[i].device_fpr
  <2>1. q[1].body = encode_notice(i - 1, journal[i]) /\ q[1].body.seq = i - 1
    BY <1>8, <1>9, NoticeSeq
  <2>2. n = decode_notice(encode_notice(i - 1, journal[i]))
    BY <1>3, <1>7, <2>1
  <2> QED BY <1>9, <2>1, <2>2, NoticeRead
<1>11. \A k \in 2 .. L : \A j \in c + 1 .. a : q[k] = Notice(j, journal) => j > i
  <2> SUFFICES ASSUME NEW k \in 2 .. L, NEW j \in c + 1 .. a, q[k] = Notice(j, journal)
               PROVE  j > i
    OBVIOUS
  <2>1. q[1].body.seq < q[k].body.seq
    BY <1>5, <1>6, <1>7
  <2>2. j \in Nat \ {0}
    BY <1>2
  <2>3. q[k].body.seq = j - 1
    BY <2>2, NoticeSeq
  <2>4. i - 1 < j - 1
    BY <1>10, <2>1, <2>3
  <2> QED BY <1>9, <2>2, <2>4
<1>12. PICK t \in Seq(Notices) : t = Tail(q)
  BY <1>7
<1>13. /\ watcher' \in Subscriber /\ watcher'.on /\ watcher'.files = Watched
       /\ watcher'.at = a /\ watcher'.coming = t /\ watcher'.cursor = i
       /\ watcher'.heard = g
  <2>1. n.seq + 1 = i
    BY <1>9, <1>10
  <2>2. watcher' = [watcher EXCEPT !.coming = t, !.cursor = i, !.heard = g]
    BY <1>4, <1>12, <2>1
  <2>3. n \in {decode_notice(f.body) : f \in Notices}
    BY <1>2, <1>3, <1>6, <1>7
  <2>4. g \in SUBSET {decode_notice(f.body) : f \in Notices} /\ i \in Nat
    BY <1>1, <1>3, <1>9, <2>3 DEF Subscriber
  <2>5. PICK S : S = {decode_notice(f.body) : f \in Notices}
    OBVIOUS
  <2>6. /\ watcher \in [on : BOOLEAN, files : SUBSET Files, at : Nat, coming : Seq(Notices),
                        cursor : Nat, heard : SUBSET S]
        /\ g \in SUBSET S
    BY <1>1, <2>4, <2>5 DEF Subscriber
  <2> HIDE DEF Notices
  <2>7. /\ watcher' \in [on : BOOLEAN, files : SUBSET Files, at : Nat, coming : Seq(Notices),
                         cursor : Nat, heard : SUBSET S]
        /\ watcher'.on = watcher.on /\ watcher'.files = watcher.files
        /\ watcher'.at = watcher.at /\ watcher'.coming = t /\ watcher'.cursor = i
        /\ watcher'.heard = g
    BY <1>12, <2>2, <2>4, <2>6
  <2> QED BY <1>2, <1>5, <2>5, <2>7 DEF Subscriber
<1>14. \A k \in DOMAIN t : \E j \in i + 1 .. a : t[k] = Notice(j, journal)
  <2> SUFFICES ASSUME NEW k \in DOMAIN t PROVE \E j \in i + 1 .. a : t[k] = Notice(j, journal)
    OBVIOUS
  <2>1. k + 1 \in 2 .. L /\ k + 1 \in DOMAIN q /\ t[k] = q[k + 1]
    BY <1>6, <1>7, <1>12
  <2>2. PICK j \in c + 1 .. a : q[k + 1] = Notice(j, journal)
    BY <1>5, <2>1
  <2>3. j > i
    BY <1>11, <2>1, <2>2
  <2>4. j \in i + 1 .. a
    BY <1>2, <1>9, <2>2, <2>3
  <2> QED BY <2>1, <2>2, <2>4
<1>15. \A k, l \in DOMAIN t : k < l => t[k].body.seq < t[l].body.seq
  <2> SUFFICES ASSUME NEW k \in DOMAIN t, NEW l \in DOMAIN t, k < l
               PROVE  t[k].body.seq < t[l].body.seq
    OBVIOUS
  <2>1. /\ k + 1 \in DOMAIN q /\ t[k] = q[k + 1] /\ l + 1 \in DOMAIN q /\ t[l] = q[l + 1]
        /\ k + 1 < l + 1
    BY <1>6, <1>7, <1>12
  <2> QED BY <1>5, <2>1
<1>16. ASSUME NEW j \in c + 1 .. a, journal[j].file_id \in Watched, j # i
       PROVE  j > i /\ \E k \in DOMAIN t : t[k] = Notice(j, journal)
  <2>1. PICK k \in DOMAIN q : q[k] = Notice(j, journal)
    BY <1>5, <1>16
  <2>2. k # 1
    <3>1. j \in Nat \ {0}
      BY <1>2
    <3>2. q[k].body.seq = j - 1
      BY <2>1, <3>1, NoticeSeq
    <3>3. i - 1 # j - 1
      BY <1>9, <1>16, <3>1
    <3> QED BY <1>10, <3>2, <3>3
  <2>3. k \in 2 .. L
    BY <1>6, <2>2
  <2>4. PICK m : m = k - 1
    OBVIOUS
  <2>5. m \in DOMAIN t /\ t[m] = q[k]
    BY <1>6, <1>7, <1>12, <2>3, <2>4
  <2> QED BY <1>11, <2>1, <2>3, <2>5
<1>17. Heard'
  <2> SUFFICES ASSUME NEW j \in DOMAIN journal, j <= i,
                      journal[j].file_id \in Watched, journal[j].event \in journal_event
               PROVE  \E x \in g :
                        x.seq = j - 1 /\ x.event = journal[j].event
                        /\ x.file_id = journal[j].file_id /\ x.device_fpr = journal[j].device_fpr
    BY <1>4, <1>13 DEF Heard, journal_event
  <2>1. j \in Nat /\ j >= 1
    BY <1>1
  <2>2. CASE j <= c
    BY <1>2, <1>3, <1>5, <2>2 DEF Heard
  <2>3. CASE j = i
    BY <1>3, <1>10, <2>3
  <2>4. CASE j > c /\ j # i
    <3>1. j \in c + 1 .. a
      BY <1>2, <1>9, <2>1, <2>4
    <3>2. j > i
      BY <1>16, <2>4, <3>1
    <3> QED BY <1>9, <2>1, <3>2
  <2> QED BY <1>2, <2>1, <2>2, <2>3, <2>4
<1>18. watcher'.cursor <= Len(journal') /\ watcher'.at \in watcher'.cursor .. Len(journal')
  BY <1>2, <1>4, <1>5, <1>9, <1>13
<1>19. \A j \in i + 1 .. a : journal[j].file_id \in Watched =>
         \E k \in DOMAIN t : t[k] = Notice(j, journal)
  <2>1. \A j \in i + 1 .. a : j \in c + 1 .. a /\ j # i
    BY <1>2, <1>9
  <2> QED BY <1>16, <2>1
<1>20. WatcherOK'
  <2>0. /\ journal' = journal /\ watcher'.coming = t /\ watcher'.cursor = i
        /\ watcher'.at = a
    BY <1>4, <1>13
  <2>1. /\ \A k \in DOMAIN watcher'.coming :
             \E j \in watcher'.cursor + 1 .. watcher'.at : watcher'.coming[k] = Notice(j, journal')
        /\ \A k, l \in DOMAIN watcher'.coming :
             k < l => watcher'.coming[k].body.seq < watcher'.coming[l].body.seq
        /\ \A j \in watcher'.cursor + 1 .. watcher'.at :
             journal'[j].file_id \in Watched =>
               \E k \in DOMAIN watcher'.coming : watcher'.coming[k] = Notice(j, journal')
    BY <1>14, <1>15, <1>19, <2>0
  <2> QED BY <1>13, <1>17, <1>18, <2>1 DEF WatcherOK
<1> QED BY <1>13, <1>20 DEF WatchInv

\* The connection ends; the cursor stays.
LEMMA DisconnectStep ==
  ASSUME ClientInv, WatchInv, Disconnect
  PROVE  WatchInv'
<1>1. watcher \in Subscriber /\ WatcherOK
  BY DEF WatchInv
<1>2. PICK c, g : c = watcher.cursor /\ g = watcher.heard
  OBVIOUS
<1>3. UNCHANGED journal
      /\ watcher' = [on |-> FALSE, files |-> {}, at |-> 0, coming |-> <<>>, cursor |-> c, heard |-> g]
  BY <1>2 DEF Disconnect, Quiet
<1>4. /\ watcher' \in Subscriber /\ watcher'.on = FALSE /\ watcher'.coming = <<>>
      /\ watcher'.cursor = watcher.cursor /\ watcher'.heard = watcher.heard
  BY <1>1, <1>2, <1>3 DEF Subscriber
<1>5. Heard'
  BY <1>1, <1>3, <1>4 DEF WatcherOK, Heard, journal_event
<1>6. WatcherOK'
  BY <1>1, <1>3, <1>4, <1>5 DEF WatcherOK
<1> QED BY <1>4, <1>6 DEF WatchInv

-------------------------------------------------------------------------------
(* Theorems. *)

\* A step of a client or an author, as the subscriber sees it.
LEMMA JournalOnlyGrows ==
  ASSUME ClientInv, ClientInv', [ClientNext \/ ForgeNext \/ AuthorNext]_opvars
  PROVE  /\ UNCHANGED watcher /\ journal \in Seq(Entry) /\ journal' \in Seq(Entry)
         /\ Len(journal) <= Len(journal')
         /\ \A i \in 1 .. Len(journal) : journal'[i] = journal[i]
<1>1. journal \in Seq(Entry) /\ journal' \in Seq(Entry)
  BY DEF ClientInv, OpTypes
<1>2. UNCHANGED watcher /\ (UNCHANGED journal \/ \E e : journal' = Append(journal, e))
  <2>1. ASSUME NEW d \in Clients, Activate(d)
        PROVE  UNCHANGED watcher /\ (UNCHANGED journal \/ \E e : journal' = Append(journal, e))
    BY <2>1 DEF Activate, Say, Execute, Write
  <2>2. ASSUME NEW f \in Papers, Document(f)
        PROVE  UNCHANGED watcher /\ \E e : journal' = Append(journal, e)
    BY <2>2 DEF Document, Write
  <2>3. ASSUME NEW d \in Clients,
               \/ \E body \in Requests, seed \in Seeds : Begin(d, body, seed)
               \/ Attempt(d) \/ Change(d) \/ Lose(d) \/ Crash(d) \/ HearGrant(d) \/ Done(d)
               \/ HearFinal(d) \/ HearUnread(d) \/ HearPlain(d) \/ Abandon(d) \/ Forge(d)
        PROVE  UNCHANGED <<watcher, journal>>
    BY <2>3 DEF Begin, Attempt, Change, Lose, Crash, HearGrant, Done, HearFinal, HearUnread,
                HearPlain, Abandon, Forge
  <2>4. CASE Upgrade \/ Hour \/ UNCHANGED opvars
    BY <2>4 DEF Upgrade, Hour, opvars
  <2> QED BY <2>1, <2>2, <2>3, <2>4 DEF ClientNext, ForgeNext, AuthorNext
<1>3. ASSUME NEW e, journal' = Append(journal, e)
      PROVE  /\ Len(journal) <= Len(journal')
             /\ \A i \in 1 .. Len(journal) : journal'[i] = journal[i]
  BY <1>1, <1>3
<1> QED BY <1>1, <1>2, <1>3

\* Every step keeps what is known of clients and server.
LEMMA ClientStep ==
  ASSUME ClientInv, [OpNext]_opvars
  PROVE  ClientInv'
<1>1. CASE UNCHANGED <<hour, begun, journal, table, pending, running, wire, held, misled>>
  BY <1>1 DEF ClientInv, OpTypes, ClientsOK, OneWorker, HeldOK, TableOK, DocumentsOK, GrantsOK,
              GrantOK, Counted, LeasesOK, Silenced
<1>2. CASE WatchNext \/ Upgrade \/ UNCHANGED opvars
  <2>1. UNCHANGED <<hour, begun, journal, table, pending, running, wire, held, misled>>
    BY <1>2 DEF WatchNext, Subscribe, SubscribeAuthor, TailJournal, HearNotice, Disconnect, Upgrade,
                opvars
  <2> QED BY <1>1, <2>1
<1>3. CASE AuthorNext
  BY <1>3, DocumentStep DEF AuthorNext
<1>3a. CASE ForgeNext
  BY <1>3a, ForgeStep DEF ForgeNext
<1>4. CASE ClientNext
  BY <1>2, <1>4, BeginStep, AttemptStep, ChangeStep, LoseStep, ActivateStep, HearGrantStep,
     DoneStep, HearFinalStep, HearUnreadStep, HourStep DEF ClientNext
<1> QED BY <1>2, <1>3, <1>3a, <1>4 DEF OpNext

\* A subscription request that is read says what was asked.
LEMMA WatchRead ==
  ASSUME NEW files, NEW since,
         decode_request([kind |-> "Watch", body |-> encode_watch(files, since)])
  PROVE  decode_watch(encode_watch(files, since)) = [files |-> files, since |-> since]
<1> DEFINE b == encode_watch(files, since)
<1>1. b.files = files /\ b.since = since
  BY DEF encode_watch
<1> HIDE DEF b
<1>2. decode_watch(b) # None
  BY DEF decode_request, ReadElsewhere, OpaqueRequests, b
<1> QED BY <1>1, <1>2 DEF decode_watch, b

LEMMA WatchStep ==
  ASSUME ClientInv, ClientInv', WatchInv, [OpNext]_opvars
  PROVE  WatchInv'
<1>1. CASE [ClientNext \/ ForgeNext \/ AuthorNext]_opvars
  BY <1>1, JournalOnlyGrows, WatcherKept
<1>2. CASE Subscribe(encode_watch(Watched, watcher.cursor))
  <2>1. decode_watch(encode_watch(Watched, watcher.cursor))
          = [files |-> Watched, since |-> watcher.cursor]
    BY <1>2, WatchRead DEF Subscribe
  <2>2. /\ UNCHANGED journal /\ ~watcher.on /\ watcher.cursor <= Len(journal)
        /\ watcher' = [watcher EXCEPT !.on = TRUE, !.files = Watched, !.at = watcher.cursor]
    BY <1>2, <2>1 DEF Subscribe
  <2> QED BY <2>2, SubscribeStep
<1>3. CASE SubscribeAuthor([len |-> 8 + SIGNATURE_LEN + 100, since |-> watcher.cursor])
  <2>1. /\ UNCHANGED journal /\ ~watcher.on /\ watcher.cursor <= Len(journal)
        /\ watcher' = [watcher EXCEPT !.on = TRUE, !.files = Watched, !.at = watcher.cursor]
    BY <1>3 DEF SubscribeAuthor
  <2> QED BY <2>1, SubscribeStep
<1>4. CASE TailJournal \/ HearNotice \/ Disconnect
  BY <1>4, TailStep, HearNoticeStep, DisconnectStep
<1> QED BY <1>1, <1>2, <1>3, <1>4 DEF OpNext, WatchNext

\* The invariants hold of every behaviour of clients, authors and subscriber.
THEOREM OpInvariance == OpSpec => [](ClientInv /\ WatchInv)
<1>1. OpInit => ClientInv /\ WatchInv
  BY OpInitEstablishes
<1>2. ClientInv /\ WatchInv /\ [OpNext]_opvars => (ClientInv /\ WatchInv)'
  BY ClientStep, WatchStep
<1> QED BY <1>1, <1>2, PTL DEF OpSpec

\* Repeating an operation counts one grant; a refusal without the echo, made up
\* in answer to the first request, can cost a second in the old form, and
\* nothing a third.  A document takes effect once while its record is kept.  Two
\* different requests never come under one identity, and a lease taken for that
\* of an operation was issued to this client for the same request: for any
\* number of clients, however answers are lost or replaced, processes end and
\* generators repeat.  (kdf.rs operation_id, activation.rs decode_req, decode_deny)
THEOREM RepeatingIsSafe == OpSpec => []GrantedOnce
<1>1. ClientInv => GrantedOnce
  <2> SUFFICES ASSUME ClientInv PROVE GrantedOnce
    OBVIOUS
  <2>1. GrantsOK /\ DocumentsOK /\ HeldOK /\ LeasesOK
    BY DEF ClientInv
  <2>2. ASSUME NEW i \in DOMAIN journal, NEW j \in DOMAIN journal, i < j, Issued(i), Issued(j),
               journal[i].op.n = journal[j].op.n
        PROVE  ~journal[i].op.plain /\ journal[j].op.plain
               /\ [n |-> journal[i].op.n, by |-> "silence"] \in misled
    BY <2>1, <2>2 DEF GrantsOK, Counted, Issued, Silenced
  <2>3. ASSUME NEW i \in DOMAIN journal, NEW j \in DOMAIN journal, i < j,
               journal[i].op = journal[j].op, journal[i].device_fpr = None
        PROVE  journal[j].at > journal[i].at + Retention
    BY <2>1, <2>3 DEF DocumentsOK
  <2>4. ASSUME NEW d \in Clients, NEW l \in held[d]
        PROVE  /\ l.what # "used"
               /\ l.what = "lease" => \E i \in DOMAIN journal :
                    /\ i = l.lease.lease + 1 /\ Issued(i)
                    /\ journal[i].device_fpr = d /\ journal[i].op.asks = l.op.asks
    <3>1. l.what # "used"
      BY <2>1 DEF HeldOK, HeldSound
    <3>2. l.what = "lease" => LeaseFor(l.lease.lease, d, l.op.asks, journal)
      BY <2>1 DEF LeasesOK, LeaseSound
    <3> QED BY <3>1, <3>2 DEF LeaseFor, Issued
  <2> QED BY <2>2, <2>3, <2>4 DEF GrantedOnce
<1> QED BY <1>1, OpInvariance, PTL

\* A grant that is counted is with the client, or can still be had by
\* repeating the operation that is written down; unless the client was refused
\* while the file was frozen, or sent a refusal nobody gave, with the echo or in
\* answer to the first request.
\* (activation.rs encode_grant, decode_grant, encode_deny)
THEOREM GrantsAreKept == OpSpec => []NothingLost
<1>1. ClientInv => NothingLost
  <2> SUFFICES ASSUME ClientInv, NEW i \in DOMAIN journal, Issued(i)
               PROVE  LET d == journal[i].device_fpr
                          op == journal[i].op
                      IN  \/ op.plain
                          \/ hour > op.at + Window
                          \/ \E m \in misled : m.n = op.n
                          \/ \E l \in held[d] : l.op = op /\ l.what \in {"lease", "frozen"}
                          \/ /\ pending[d] # None /\ pending[d].op = op
                             /\ \E r \in Record(d, pending[d].body.operation_id) :
                                  /\ r.hash = pending[d].body /\ r.answer.kind = "Granted"
                                  /\ r.answer.body.lease = i - 1
    BY DEF NothingLost
  <2> DEFINE d == journal[i].device_fpr
             op == journal[i].op
             p == pending[d]
  <2>1. /\ d \in Clients /\ op \in Op
        /\ GrantSound(i, d, op, p, running[d], wire[d], held[d], table, hour, misled)
    BY DEF ClientInv, GrantsOK, GrantOK, Counted, Issued
  <2> HIDE DEF d, op, p
  <2>2. ASSUME p # None, p.op = op, ~(hour > op.at + Window)
        PROVE  \E r \in Record(d, p.body.operation_id) :
                 r.hash = p.body /\ r.answer.kind = "Granted" /\ r.answer.body.lease = i - 1
    <3>1. op.at \in Nat /\ hour \in Nat
      BY <2>1 DEF Op, ClientInv, OpTypes
    <3>2. Recorded(i, d, p, table, hour)
      BY <2>1, <2>2 DEF GrantSound
    <3>3. PICK r \in table :
            /\ r.actor = d /\ r.id = p.body.operation_id /\ r.hash = p.body
            /\ r.answer.kind = "Granted" /\ r.answer.body.lease = i - 1 /\ r.at >= op.at
      BY <2>2, <3>2 DEF Recorded
    <3>4. r.at \in Nat
      BY DEF ClientInv, TableOK, RecordSound
    <3>5. Live(r)
      BY <2>2, <3>1, <3>3, <3>4, OperationsAssumption DEF Live
    <3> QED BY <3>3, <3>5 DEF Record
  <2> QED BY <2>1, <2>2 DEF GrantSound, Fooled, d, op, p
<1> QED BY <1>1, OpInvariance, PTL

\* Every record of the files a subscriber follows, up to its cursor, has been
\* heard as it stands, over any number of connections, and none of them comes
\* again.
\* (activation.rs encode_watch, decode_watch, encode_notice, decode_notice)
THEOREM SubscriptionsHaveNoGap == OpSpec => []NoGap
<1>1. ClientInv /\ WatchInv => NoGap
  <2> SUFFICES ASSUME ClientInv, WatchInv PROVE NoGap
    OBVIOUS
  <2>1. watcher \in Subscriber /\ WatcherOK
    BY DEF WatchInv
  <2>2. Heard
    BY <2>1 DEF WatcherOK
  <2>3. Ahead
    BY <2>1, NothingComesAgain
  <2> QED BY <2>2, <2>3 DEF NoGap, Heard, Ahead
<1> QED BY <1>1, OpInvariance, PTL

================================================================================
