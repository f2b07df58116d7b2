---------------------------- MODULE EditionProofs ----------------------------
(* What TLAPS proves of Editions. *)
EXTENDS Editions, Sequences, TLAPS

-------------------------------------------------------------------------------
(* The inductive invariant. *)

TypeOK ==
  /\ now \in 0 .. MaxTime
  /\ skipping \in SUBSET Editors
  /\ published \in SUBSET Descriptions
  /\ draft \in [Editors -> Drafts \cup {None}]
  /\ registry \in [counter : 0 .. MaxU64, digest : Digests]
  /\ journal \in Descriptions \cup {None}
  /\ accepted \in SUBSET Descriptions

\* A revision that an editor has made with its own key, under a certificate it has.
Written(d) ==
  d.editor # None /\ d.counter > 0 /\ SignatureHolds(d.editor) /\ d.editor.cert \in Certs

\* What circulates is the original or was made by an editor.
Made ==
  /\ \A d \in published : d = Original \/ Written(d)
  /\ \A k \in Editors : draft[k] # None => Written(draft[k].desc)

\* What the reader has taken, and that its journal is the latest of it.
Taken ==
  /\ \A d \in accepted : Authentic(d) /\ (d.editor # None => d.editor.cert \in Certs)
  /\ \A d, e \in accepted : d.counter = e.counter => digest(d) = digest(e)
  /\ journal = None => accepted = {}
  /\ journal # None => journal \in accepted /\ \A d \in accepted : d.counter <= journal.counter

\* b is what e was made from.
IsBase(b, e) ==
  b.counter + 1 = e.counter /\ e.editor.base = [counter |-> b.counter, root |-> b.root]

\* The server's number is that of the latest revision in circulation, or of one
\* that is about to be.
Numbered ==
  /\ \A d \in published :
       d.counter <= registry.counter /\ (d.counter = registry.counter => digest(d) = registry.digest)
  /\ \A d, e \in published : d.counter = e.counter => d = e
  /\ \A d \in published : d.editor # None => \E b \in published : IsBase(b, d)
  /\ \A k \in Editors : draft[k] # None =>
       /\ \E b \in published : IsBase(b, draft[k].desc) /\ draft[k].base_digest = digest(b)
       /\ draft[k].accepted =>
            \/ registry = [counter |-> draft[k].desc.counter, digest |-> digest(draft[k].desc)]
            \/ draft[k].desc \in published

EditionInv == TypeOK /\ Made /\ Taken /\ (skipping = {} => Numbered)

-------------------------------------------------------------------------------
(* Digests and descriptions. *)

\* The digest of a revision is not the zeros of an unedited file.
LEMMA DigestShape ==
  ASSUME NEW a, NEW b, NEW c, NEW d
  PROVE  <<a, b, c, d>> # <<0>>
<1>1. Len(<<a, b, c, d>>) = 4 /\ Len(<<0>>) = 1  OBVIOUS
<1> QED BY <1>1

\* Nobody but the editor that made it and its text has a revision's digest:
\* edition_digest of edit.rs covers all but the signature, and the certificate
\* names the key that signs.
LEMMA DigestBinds ==
  ASSUME NEW d \in Descriptions, NEW e \in Descriptions,
         d = Original \/ Written(d), e = Original \/ Written(e), digest(d) = digest(e)
  PROVE  d = e
<1>1. CASE d = Original /\ e = Original  BY <1>1
<1>2. CASE d = Original /\ Written(e)
  BY <1>2, DigestShape DEF Original, Written, digest, edition_digest
<1>3. CASE Written(d) /\ e = Original
  BY <1>3, DigestShape DEF Original, Written, digest, edition_digest
<1>4. CASE Written(d) /\ Written(e)
  <2>1. d.counter = e.counter /\ d.root = e.root
        /\ d.editor.cert = e.editor.cert /\ d.editor.base = e.editor.base
    BY <1>4 DEF Written, digest, edition_digest
  <2>2. d.editor \in Signed /\ e.editor \in Signed
    BY <1>4 DEF Written, Descriptions
  <2>3. d.editor.signer = e.editor.signer
    BY <1>4, <2>1 DEF Written, SignatureHolds
  <2>4. d.editor = e.editor
    BY <2>1, <2>2, <2>3 DEF Signed
  <2> QED BY <2>1, <2>4 DEF Descriptions
<1> QED BY <1>1, <1>2, <1>3, <1>4

LEMMA OriginalDescribed == Original \in Descriptions /\ digest(Original) = <<0>>
<1>1. 0 \in 0 .. MaxU64  BY EditionAssumption
<1> QED BY <1>1, EditionAssumption DEF Original, Descriptions, digest

LEMMA DigestType ==
  ASSUME NEW d \in Descriptions
  PROVE  digest(d) \in Digests
BY DEF Descriptions, Signed, digest, edition_digest, Digests

\* A text the reader takes as authentic is the author's or an editor's.
LEMMA AuthenticText ==
  ASSUME NEW d, Authentic(d)
  PROVE  /\ d.editor = None => d.counter = 0 /\ d.root = OriginalRoot
         /\ d.editor # None => /\ EditAllowed /\ SignatureHolds(d.editor)
                              /\ verify_for(d.editor.cert, None) = "ok"
<1>1. verify_for(d.editor.cert, None) # "edited" /\ verify_for(d.editor.cert, None) # "unedited"
  BY DEF verify_for
<1> QED BY <1>1 DEF Authentic, verify_edition

\* A certificate that verifies was given for this file by the author's side.
LEMMA VerifiedCert ==
  ASSUME NEW cert, NEW at, verify_for(cert, at) = "ok"
  PROVE  cert.signed /\ cert.file_id = File /\ cert.issuer \in Coauthors \cup {Author}
BY DEF verify_for, known

-------------------------------------------------------------------------------
(* The steps. *)

LEMMA InitEstablishes == Init => EditionInv
<1> SUFFICES ASSUME Init PROVE EditionInv  OBVIOUS
<1>1. TypeOK
  BY EditionAssumption, OriginalDescribed DEF Init, TypeOK, Digests
<1>2. Made
  BY DEF Init, Made
<1>3. Taken
  BY DEF Init, Taken
<1>4. Numbered
  <2>1. Original.editor = None /\ Original.counter = 0  BY DEF Original
  <2> QED BY <2>1, OriginalDescribed DEF Init, Numbered
<1> QED BY <1>1, <1>2, <1>3, <1>4 DEF EditionInv

LEMMA TickPreserves ==
  ASSUME EditionInv, Tick
  PROVE  EditionInv'
<1>1. TypeOK'  BY EditionAssumption DEF EditionInv, TypeOK, Tick
<1>2. Made'  BY DEF EditionInv, Made, Tick
<1>3. Taken'  BY DEF EditionInv, Taken, Tick
<1>4. skipping' = {} => Numbered'  BY DEF EditionInv, Numbered, Tick
<1> QED BY <1>1, <1>2, <1>3, <1>4 DEF EditionInv

LEMMA OpenPreserves ==
  ASSUME EditionInv, NEW d \in published \cup Wild, Open(d)
  PROVE  EditionInv'
<1>0. d \in Descriptions
  BY EditionAssumption DEF EditionInv, TypeOK
<1>1. TypeOK'  BY <1>0 DEF EditionInv, TypeOK, Open
<1>2. Made'  BY DEF EditionInv, Made, Open
<1>3. Taken'
  <2>1. Authentic(d) /\ Admits(d) /\ journal' = d /\ accepted' = accepted \cup {d}
    BY DEF Open, MayShow
  <2>2. d.editor # None => d.editor.cert \in Certs
    <3> SUFFICES ASSUME d.editor # None PROVE d.editor.cert \in Certs  OBVIOUS
    <3>1. CASE d \in published
      <4>1. d # Original  BY DEF Original
      <4> QED BY <3>1, <4>1 DEF EditionInv, Made, Written
    <3>2. CASE d \in Wild
      BY <3>2, <2>1, AuthenticText, VerifiedCert, EditionAssumption
    <3> QED BY <3>1, <3>2
  <2>3. \A e \in accepted : e.counter <= d.counter /\ (e.counter = d.counter => digest(e) = digest(d))
    <3> TAKE e \in accepted
    <3>1. journal # None /\ journal \in accepted /\ e.counter <= journal.counter
      BY DEF EditionInv, Taken
    <3>2. d.counter >= journal.counter /\ (d.counter = journal.counter => digest(d) = digest(journal))
      BY <2>1, <3>1 DEF Admits
    <3>3. e.counter \in Int /\ d.counter \in Int /\ journal.counter \in Int
      BY <1>0, <3>1 DEF EditionInv, TypeOK, Descriptions
    <3>4. e.counter = journal.counter => digest(e) = digest(journal)
      BY <3>1 DEF EditionInv, Taken
    <3> QED BY <3>1, <3>2, <3>3, <3>4
  <2>4. d # None  BY <1>0, EditionAssumption
  <2>5. d.counter <= d.counter  BY <1>0 DEF Descriptions
  <2>6. \A e \in accepted' : Authentic(e) /\ (e.editor # None => e.editor.cert \in Certs)
    BY <2>1, <2>2 DEF EditionInv, Taken
  <2>7. \A e, f \in accepted' : e.counter = f.counter => digest(e) = digest(f)
    BY <2>1, <2>3 DEF EditionInv, Taken
  <2> QED BY <2>1, <2>3, <2>4, <2>5, <2>6, <2>7 DEF Taken
<1>4. skipping' = {} => Numbered'  BY DEF EditionInv, Numbered, Open
<1> QED BY <1>1, <1>2, <1>3, <1>4 DEF EditionInv

LEMMA EditPreserves ==
  ASSUME EditionInv, NEW k \in Editors, NEW base \in published, NEW cert \in Certs,
         NEW root \in Root, Edit(k, base, cert, root)
  PROVE  EditionInv'
<1> DEFINE D == [counter |-> next_counter(base.counter), root |-> root,
                 editor |-> [cert |-> cert, signer |-> k,
                             base |-> [counter |-> base.counter, root |-> base.root]]]
           N == [desc |-> D, base_digest |-> digest(base), accepted |-> FALSE]
<1>0. base \in Descriptions /\ base.counter \in 0 .. MaxU64 /\ base.root \in Root
  BY DEF EditionInv, TypeOK, Descriptions
<1>1. /\ draft' = [draft EXCEPT ![k] = N] /\ cert.editor_key = k /\ base.counter < MaxU64
      /\ UNCHANGED <<now, skipping, published, registry, journal, accepted>>
  BY DEF Edit
<1>2. D.editor \in Signed /\ base.counter + 1 \in 0 .. MaxU64
  BY <1>0, <1>1, EditionAssumption DEF Signed, Bases
<1>3. D \in Descriptions /\ N \in Drafts
  BY <1>0, <1>2, DigestType DEF Descriptions, Drafts, next_counter
<1>4. Written(D)
  BY <1>0, <1>1, <1>2, EditionAssumption DEF Written, SignatureHolds, next_counter
<1>5. IsBase(base, D)
  BY DEF IsBase, next_counter
<1>a. draft' \in [Editors -> Drafts \cup {None}] /\ draft'[k] = N
      /\ \A j \in Editors : j # k => draft'[j] = draft[j]
  BY <1>1, <1>3 DEF EditionInv, TypeOK
<1>b. N.desc = D /\ N.base_digest = digest(base) /\ ~N.accepted  OBVIOUS
<1> HIDE DEF D, N
<1>6. TypeOK'  BY <1>1, <1>a DEF EditionInv, TypeOK
<1>7. Made'  BY <1>1, <1>4, <1>a, <1>b DEF EditionInv, Made
<1>8. Taken'  BY <1>1 DEF EditionInv, Taken
<1>9. skipping' = {} => Numbered'
  <2> SUFFICES ASSUME skipping = {} PROVE Numbered'  BY <1>1
  <2>1. Numbered  BY DEF EditionInv
  <2>2. \A j \in Editors : draft'[j] # None =>
          /\ \E b \in published : IsBase(b, draft'[j].desc) /\ draft'[j].base_digest = digest(b)
          /\ draft'[j].accepted =>
               \/ registry = [counter |-> draft'[j].desc.counter, digest |-> digest(draft'[j].desc)]
               \/ draft'[j].desc \in published
    BY <2>1, <1>5, <1>a, <1>b DEF Numbered
  <2> QED BY <2>1, <2>2, <1>1 DEF Numbered
<1> QED BY <1>6, <1>7, <1>8, <1>9 DEF EditionInv

\* What the server accepts under a new number was made from what it has.
LEMMA RegisterPreserves ==
  ASSUME EditionInv, NEW k \in Editors, NEW arrives \in BOOLEAN, Register(k, arrives)
  PROVE  EditionInv'
<1> DEFINE C == draft[k]
           R == [counter |-> C.desc.counter, digest |-> digest(C.desc)]
<1>0. C # None /\ C \in Drafts /\ C.desc \in Descriptions /\ Written(C.desc)
  BY DEF Register, Pending, EditionInv, TypeOK, Made, Drafts
<1>1. /\ registry' = R /\ draft' = [draft EXCEPT ![k].accepted = arrives]
      /\ UNCHANGED <<now, skipping, published, journal, accepted>>
  BY DEF Register
<1>2. registry = R
      \/ (C.desc.counter = registry.counter + 1 /\ C.base_digest = registry.digest)
  BY DEF Register, Decision
<1>3. R \in [counter : 0 .. MaxU64, digest : Digests]
  BY <1>0, DigestType DEF Descriptions
<1>4. /\ draft' \in [Editors -> Drafts \cup {None}]
      /\ draft'[k].desc = C.desc /\ draft'[k].base_digest = C.base_digest /\ draft'[k] # None
      /\ \A j \in Editors : j # k => draft'[j] = draft[j]
  <2>1. draft'[k] = [C EXCEPT !.accepted = arrives] /\ \A j \in Editors : j # k => draft'[j] = draft[j]
    BY <1>1 DEF EditionInv, TypeOK
  <2>2. [C EXCEPT !.accepted = arrives] \in Drafts
        /\ [C EXCEPT !.accepted = arrives].desc = C.desc
        /\ [C EXCEPT !.accepted = arrives].base_digest = C.base_digest
    BY <1>0 DEF Drafts
  <2> QED BY <1>1, <2>1, <2>2, EditionAssumption DEF EditionInv, TypeOK
<1>6. TypeOK'  BY <1>1, <1>3, <1>4 DEF EditionInv, TypeOK
<1>7. Made'
  <2>1. \A j \in Editors : draft'[j] # None => Written(draft'[j].desc)
    BY <1>0, <1>4 DEF EditionInv, Made
  <2> QED BY <2>1, <1>1 DEF EditionInv, Made
<1>8. Taken'  BY <1>1 DEF EditionInv, Taken
<1>9. skipping' = {} => Numbered'
  <2> SUFFICES ASSUME skipping = {} PROVE Numbered'  BY <1>1
  <2>1. Numbered  BY DEF EditionInv
  <2>2. \A d \in published : d.counter \in Int /\ d \in Descriptions /\ (d = Original \/ Written(d))
    BY DEF EditionInv, TypeOK, Made, Descriptions
  <2>3. registry.counter \in Int /\ C.desc.counter \in Int
    BY <1>0 DEF EditionInv, TypeOK, Descriptions
  <2>4. \A d \in published : d.counter <= R.counter /\ (d.counter = R.counter => digest(d) = R.digest)
    <3>1. R.counter = C.desc.counter /\ R.digest = digest(C.desc)  OBVIOUS
    <3>2. CASE registry = R  BY <3>2, <2>1 DEF Numbered
    <3>3. CASE C.desc.counter = registry.counter + 1
      BY <3>1, <3>3, <2>1, <2>2, <2>3 DEF Numbered
    <3> QED BY <3>2, <3>3, <1>2
  <2>5. \A j \in Editors : draft[j] # None /\ draft[j].accepted =>
          registry = R \/ draft[j].desc \in published
    <3> SUFFICES ASSUME NEW j \in Editors, draft[j] # None, draft[j].accepted,
                        registry # R, draft[j].desc \notin published
                 PROVE  FALSE
      OBVIOUS
    <3>1. registry.counter = draft[j].desc.counter /\ registry.digest = digest(draft[j].desc)
      BY <2>1 DEF Numbered
    <3>2. PICK b \in published : IsBase(b, C.desc) /\ C.base_digest = digest(b)
      BY <2>1, <1>0 DEF Numbered
    <3>3. draft[j].desc \in Descriptions /\ Written(draft[j].desc)
      BY DEF EditionInv, TypeOK, Made, Drafts
    <3>4. b = draft[j].desc
      BY <3>1, <3>2, <3>3, <1>2, <2>2, DigestBinds
    <3> QED BY <3>4
  <2>6. \A j \in Editors : draft'[j] # None =>
          /\ \E b \in published : IsBase(b, draft'[j].desc) /\ draft'[j].base_digest = digest(b)
          /\ draft'[j].accepted =>
               \/ R = [counter |-> draft'[j].desc.counter, digest |-> digest(draft'[j].desc)]
               \/ draft'[j].desc \in published
    <3> TAKE j \in Editors
    <3> HAVE draft'[j] # None
    <3>1. CASE j = k
      BY <3>1, <1>0, <1>4, <2>1 DEF Numbered
    <3>2. CASE j # k
      BY <3>2, <1>4, <2>1, <2>5 DEF Numbered
    <3> QED BY <3>1, <3>2
  <2> QED BY <2>1, <2>4, <2>6, <1>1 DEF Numbered
<1> QED BY <1>6, <1>7, <1>8, <1>9 DEF EditionInv

LEMMA GiveUpPreserves ==
  ASSUME EditionInv, NEW k \in Editors, GiveUp(k)
  PROVE  EditionInv'
<1>1. /\ draft' = [draft EXCEPT ![k] = None]
      /\ UNCHANGED <<now, skipping, published, registry, journal, accepted>>
  BY DEF GiveUp
<1>2. /\ draft' \in [Editors -> Drafts \cup {None}]
      /\ \A j \in Editors : draft'[j] # None => draft'[j] = draft[j]
  BY <1>1 DEF EditionInv, TypeOK
<1>3. TypeOK'  BY <1>1, <1>2 DEF EditionInv, TypeOK
<1>4. Made'  BY <1>1, <1>2 DEF EditionInv, Made
<1>5. Taken'  BY <1>1 DEF EditionInv, Taken
<1>6. skipping' = {} => Numbered'  BY <1>1, <1>2 DEF EditionInv, Numbered
<1> QED BY <1>3, <1>4, <1>5, <1>6 DEF EditionInv

LEMMA PublishPreserves ==
  ASSUME EditionInv, NEW k \in Editors, Publish(k)
  PROVE  EditionInv'
<1> DEFINE D == draft[k].desc
<1>0. draft[k] # None /\ D \in Descriptions /\ Written(D) /\ (draft[k].accepted \/ k \in skipping)
  BY DEF Publish, EditionInv, TypeOK, Made, Drafts
<1>1. /\ published' = published \cup {D} /\ draft' = [draft EXCEPT ![k] = None]
      /\ UNCHANGED <<now, skipping, registry, journal, accepted>>
  BY DEF Publish
<1>2. /\ draft' \in [Editors -> Drafts \cup {None}]
      /\ \A j \in Editors : draft'[j] # None => draft'[j] = draft[j]
  BY <1>1 DEF EditionInv, TypeOK
<1>3. TypeOK'  BY <1>0, <1>1, <1>2 DEF EditionInv, TypeOK
<1>4. Made'  BY <1>0, <1>1, <1>2 DEF EditionInv, Made
<1>5. Taken'  BY <1>1 DEF EditionInv, Taken
<1>6. skipping' = {} => Numbered'
  <2> SUFFICES ASSUME skipping = {} PROVE Numbered'  BY <1>1
  <2>1. Numbered  BY DEF EditionInv
  <2>2. D \in published \/ (registry.counter = D.counter /\ registry.digest = digest(D))
    BY <1>0, <2>1 DEF Numbered
  <2>3. D.counter \in Int  BY <1>0 DEF Descriptions
  <2>4. \A d \in published' :
          d.counter <= registry.counter /\ (d.counter = registry.counter => digest(d) = registry.digest)
    BY <1>1, <2>1, <2>2, <2>3 DEF Numbered
  <2>5. \A d \in published : d.counter = D.counter => d = D
    <3> TAKE d \in published
    <3> HAVE d.counter = D.counter
    <3>1. CASE D \in published  BY <3>1, <2>1 DEF Numbered
    <3>2. CASE registry.counter = D.counter /\ registry.digest = digest(D)
      <4>1. digest(d) = digest(D)  BY <3>2, <2>1 DEF Numbered
      <4>2. d \in Descriptions /\ (d = Original \/ Written(d))
        BY DEF EditionInv, TypeOK, Made
      <4> QED BY <4>1, <4>2, <1>0, DigestBinds
    <3> QED BY <3>1, <3>2, <2>2
  <2>6. \A d, e \in published' : d.counter = e.counter => d = e
    BY <1>1, <2>1, <2>5 DEF Numbered
  <2>7. \A d \in published' : d.editor # None => \E b \in published' : IsBase(b, d)
    BY <1>0, <1>1, <2>1 DEF Numbered
  <2>8. \A j \in Editors : draft'[j] # None =>
          /\ \E b \in published' : IsBase(b, draft'[j].desc) /\ draft'[j].base_digest = digest(b)
          /\ draft'[j].accepted =>
               \/ registry = [counter |-> draft'[j].desc.counter, digest |-> digest(draft'[j].desc)]
               \/ draft'[j].desc \in published'
    BY <1>1, <1>2, <2>1 DEF Numbered
  <2> QED BY <1>1, <2>4, <2>6, <2>7, <2>8 DEF Numbered
<1> QED BY <1>3, <1>4, <1>5, <1>6 DEF EditionInv

\* The invariant holds of every behaviour, whatever others write into copies
\* of the file and whichever answers of the server are lost.
THEOREM EditionInvariant == Spec => []EditionInv
<1>1. Init => EditionInv  BY InitEstablishes
<1>2. EditionInv /\ [Next]_vars => EditionInv'
  <2> SUFFICES ASSUME EditionInv, [Next]_vars PROVE EditionInv'  OBVIOUS
  <2>1. CASE Tick  BY <2>1, TickPreserves
  <2>2. ASSUME NEW d \in published \cup Wild, Open(d) PROVE EditionInv'
    BY <2>2, OpenPreserves
  <2>3. ASSUME NEW k \in Editors, NEW base \in published, NEW cert \in Certs, NEW root \in Root,
               Edit(k, base, cert, root)
        PROVE  EditionInv'
    BY <2>3, EditPreserves
  <2>4. ASSUME NEW k \in Editors, NEW arrives \in BOOLEAN, Register(k, arrives) PROVE EditionInv'
    BY <2>4, RegisterPreserves
  <2>5. ASSUME NEW k \in Editors, GiveUp(k) PROVE EditionInv'  BY <2>5, GiveUpPreserves
  <2>6. ASSUME NEW k \in Editors, Publish(k) PROVE EditionInv'  BY <2>6, PublishPreserves
  <2>7. CASE UNCHANGED vars
    BY <2>7 DEF vars, EditionInv, TypeOK, Made, Taken, Numbered
  <2> QED BY <2>1, <2>2, <2>3, <2>4, <2>5, <2>6, <2>7 DEF Next
<1> QED BY <1>1, <1>2, PTL DEF Spec

-------------------------------------------------------------------------------
(* What follows from it. *)

\* The reader is given texts of those the author allowed, one for each number,
\* and, with every editor asking the server, what circulates is one history,
\* for any editors, certificates and texts and whatever was written into copies.
THEOREM HistorySafe == Spec => []TextsOfOneHistory
<1>1. EditionInv => TextsOfOneHistory
  <2> SUFFICES ASSUME EditionInv PROVE TextsOfOneHistory  OBVIOUS
  <2>1. OnlyAllowedTexts
    <3> SUFFICES ASSUME NEW d \in accepted
                 PROVE  IF d.editor = None THEN d.root = OriginalRoot ELSE Allowed(d.editor.signer)
      BY DEF OnlyAllowedTexts
    <3>1. Authentic(d) /\ (d.editor # None => d.editor.cert \in Certs)
      BY DEF EditionInv, Taken
    <3>2. CASE d.editor = None  BY <3>1, <3>2, AuthenticText
    <3>3. CASE d.editor # None
      BY <3>1, <3>3, AuthenticText, VerifiedCert DEF Allowed, SignatureHolds
    <3> QED BY <3>2, <3>3
  <2>2. OneTextPerNumber
    <3> SUFFICES ASSUME NEW d \in accepted, NEW e \in accepted, d.counter = e.counter
                 PROVE  d.root = e.root
      BY DEF OneTextPerNumber
    <3>1. digest(d) = digest(e) /\ Authentic(d) /\ Authentic(e)
      BY DEF EditionInv, Taken
    <3>2. CASE d.editor = None /\ e.editor = None
      BY <3>1, <3>2, AuthenticText
    <3>3. CASE d.editor # None /\ e.editor # None
      BY <3>1, <3>3 DEF digest, edition_digest
    <3>4. (d.editor = None) = (e.editor = None)
      BY <3>1, DigestShape DEF digest, edition_digest
    <3> QED BY <3>2, <3>3, <3>4
  <2>3. OneHistory
    BY DEF EditionInv, Numbered, OneHistory, IsBase
  <2> QED BY <2>1, <2>2, <2>3 DEF TextsOfOneHistory
<1> QED BY <1>1, EditionInvariant, PTL

\* The reader is never locked out: what it took last still opens, whether or not
\* its certificate has ended, and so does a newer revision whose has not.
THEOREM ReaderKeepsReading == Spec => []NoLockout
<1>1. EditionInv => NoLockout
  <2> SUFFICES ASSUME EditionInv PROVE NoLockout  OBVIOUS
  <2>1. StaysOpen
    <3> SUFFICES ASSUME journal # None PROVE MayShow(journal)  BY DEF StaysOpen
    <3>1. journal \in accepted /\ Authentic(journal)  BY DEF EditionInv, Taken
    <3>2. journal.counter >= journal.counter  BY DEF EditionInv, TypeOK, Descriptions
    <3> QED BY <3>1, <3>2 DEF MayShow, Admits
  <2>2. NewRevisionsOpen
    <3> SUFFICES ASSUME NEW d \in published, d.editor # None, EditAllowed,
                        verify_for(d.editor.cert, None) = "ok", now <= d.editor.cert.not_after,
                        journal = None \/ d.counter > journal.counter
                 PROVE  MayShow(d)
      BY DEF NewRevisionsOpen
    <3>1. Written(d) /\ d \in Descriptions
      <4>1. d # Original  BY DEF Original
      <4> QED BY <4>1 DEF EditionInv, Made, TypeOK
    <3>2. Authentic(d)
      BY <3>1 DEF Written, Authentic, verify_edition, Descriptions
    <3>3. d.editor.cert.not_after \in Int /\ now \in Int
      BY <3>1, EditionAssumption DEF Written, EditionInv, TypeOK, Certificates
    <3>4. ~Expired(d.editor.cert, now)  BY <3>3 DEF Expired
    <3>5. journal # None =>
            /\ d.counter >= journal.counter
            /\ d.counter = journal.counter => digest(d) = digest(journal)
      BY <3>1 DEF EditionInv, TypeOK, Descriptions
    <3> QED BY <3>2, <3>4, <3>5 DEF MayShow, Admits
  <2> QED BY <2>1, <2>2 DEF NoLockout
<1> QED BY <1>1, EditionInvariant, PTL

===============================================================================
