------------------------------- MODULE Editions -------------------------------
(***************************************************************************)
(* Revisions of one file: editors make them (crates/oc-engine/src/edit.rs),*)
(* a server gives out their numbers, a reader accepts or refuses them      *)
(* (crates/oc-format/src/edit.rs).                                         *)
(*                                                                         *)
(* A description is what the mutable region says: counter, root of the     *)
(* text and, for a revision, what the editor signed.  The region's MAC     *)
(* shows no more than that its writer could open the file, and every       *)
(* reader can: the reader may meet any of the descriptions in Wild.        *)
(* Registry and journal belong to the hosts (docs/protocol.md 9.12,        *)
(* docs/format.md, "Editing is executable", items A, B and F).             *)
(***************************************************************************)
EXTENDS Integers, FiniteSets

CONSTANTS
  Author, Coauthors,  \* keys that may certify an editor
  File,               \* the file's id
  EditAllowed,        \* the author's policy has the action Edit
  Certs,              \* edit-key certificates that exist
  Editors,            \* edit keys
  Unregistered,       \* the sets of editors that may publish without asking the server
  Wild,               \* descriptions others have written into copies of the file
  Root, OriginalRoot, \* roots of texts, and the one in the header
  None,
  MaxU64, MaxTime,
  MaxPublished        \* bound: copies that differ

Certificates ==
  [issuer : Nat, signed : BOOLEAN, file_id : Nat, editor_key : Editors, not_after : 0 .. MaxTime]

\* base is what session_start hashes into the session head.
Bases == [counter : 0 .. MaxU64, root : Root]
Signed == [cert : Certificates, base : Bases, signer : Editors \cup {None}]
Descriptions == [counter : 0 .. MaxU64, root : Root, editor : Signed \cup {None}]

\* edition_digest of a revision; zeros for an unedited file.
Digests == ((0 .. MaxU64) \X Root \X Certificates \X Bases) \cup {<<0>>}
\* What an editor has made: the revision, and the claim it sends.
Drafts == [desc : Descriptions, base_digest : Digests, accepted : BOOLEAN]

\* The last conjunct is what a signature is for: a certificate in the author's or
\* a coauthor's name for this file, signed, is one they have given.
ASSUME EditionAssumption ==
  /\ Certs \subseteq Certificates /\ Unregistered \subseteq SUBSET Editors
  /\ Wild \subseteq Descriptions /\ OriginalRoot \in Root
  /\ EditAllowed \in BOOLEAN /\ Author \in Nat /\ Coauthors \subseteq Nat /\ File \in Nat
  /\ MaxU64 \in Nat /\ MaxTime \in Nat /\ MaxPublished \in Nat
  /\ None \notin Signed /\ None \notin Descriptions /\ None \notin Drafts
  /\ \A d \in Wild :
       (d.editor # None /\ d.editor.cert.signed /\ d.editor.cert.file_id = File
        /\ d.editor.cert.issuer \in Coauthors \cup {Author})
       => d.editor.cert \in Certs

VARIABLES
  now,
  skipping,    \* the editors that do not ask the server, the same throughout
  published,   \* descriptions in circulation; an old copy is never called back
  draft,       \* the revision each editor has made and not published, or None
  registry,    \* the server: number and digest last accepted
  journal,     \* the reader: the description accepted last, or None
  accepted     \* the reader: all it has accepted, and given out the text of

vars == <<now, skipping, published, draft, registry, journal, accepted>>

Original == [counter |-> 0, root |-> OriginalRoot, editor |-> None]

-------------------------------------------------------------------------------
(* Verification. *)

\* The author, or a key of the header's roster of coauthors.
known(cert) == cert.issuer = Author \/ cert.issuer \in Coauthors

\* Faulty: a certificate is over in its last second.
Expired_early(cert, at) == at # None /\ at >= cert.not_after

\* None stands for a caller that leaves the expiry to its journal.
Expired(cert, at) == at # None /\ at > cert.not_after

\* EditorCert::verify_for.
verify_for(cert, at) ==
  IF ~known(cert) THEN "ForeignIssuer"
  ELSE IF ~cert.signed THEN "BadCertificate"
  ELSE IF cert.file_id # File THEN "CertificateForOtherFile"
  ELSE IF Expired(cert, at) THEN "CertificateExpired"
  ELSE "ok"

\* Faulty: the digest leaves out the text and the certificate.
edition_digest_partial(d) == <<d.counter, d.editor.base>>

\* The digest of what the editor signs: all but the signature itself.
edition_digest(d) == <<d.counter, d.root, d.editor.cert, d.editor.base>>

\* The digest of a description, zeros for an unedited file.
digest(d) == IF d.editor = None THEN <<0>> ELSE edition_digest(d)

\* verify_pss_sha256 under the certificate's key.
SignatureHolds(e) == e.signer = e.cert.editor_key

\* verify_edition; every header this reader takes has a version that knows editing.
verify_edition(d, at) ==
  IF d.editor = None THEN (IF d.counter = 0 THEN "unedited" ELSE "UnsignedEdit")
  ELSE IF d.counter = 0 THEN "EditorOnUnedited"
  ELSE IF ~EditAllowed THEN "EditNotAllowed"
  ELSE IF verify_for(d.editor.cert, at) # "ok" THEN verify_for(d.editor.cert, at)
  ELSE IF ~SignatureHolds(d.editor) THEN "BadEditorSignature"
  ELSE "edited"

-------------------------------------------------------------------------------
(* The reader. *)

\* The text is the author's, or that of a revision the author allowed.
Authentic(d) ==
  \/ (verify_edition(d, None) = "unedited" /\ d.root = OriginalRoot)
  \/ verify_edition(d, None) = "edited"

\* The reader's journal: nothing older, no second text under one number, and
\* no new revision under an expired certificate.
Admits(d) ==
  /\ journal # None => /\ d.counter >= journal.counter
                       /\ d.counter = journal.counter => digest(d) = digest(journal)
  /\ (d.editor # None /\ \A a \in accepted : digest(a) # digest(d)) => ~Expired(d.editor.cert, now)

MayShow(d) == Authentic(d) /\ Admits(d)

Open(d) ==
  /\ MayShow(d)
  /\ journal' = d
  /\ accepted' = accepted \cup {d}
  /\ UNCHANGED <<now, skipping, published, draft, registry>>

-------------------------------------------------------------------------------
(* Editors and server. *)

\* Below the bound; EditWriter has the counter at its end.
next_counter(base) == base + 1

\* prepare and finish: a revision of a copy that opens, under a certificate of
\* the editor's key.  The writer does not ask whether the certificate holds.
Edit(k, base, cert, root) ==
  /\ draft[k] = None
  /\ Authentic(base) /\ base.counter < MaxU64
  /\ cert.editor_key = k
  /\ draft' = [draft EXCEPT ![k] =
       [desc |-> [counter |-> next_counter(base.counter), root |-> root,
                  editor |-> [cert |-> cert, signer |-> k,
                              base |-> [counter |-> base.counter, root |-> base.root]]],
        base_digest |-> digest(base), accepted |-> FALSE]]
  /\ UNCHANGED <<now, skipping, published, registry, journal, accepted>>

\* EditionClaimDoc::verify, for a claim the editor has signed.
verify(d) ==
  IF d.counter = 0 THEN "UnsignedEdit" ELSE verify_for(d.editor.cert, now)

\* What the server makes of a claim.
Decision(claim) ==
  IF verify(claim.desc) # "ok" \/ ~EditAllowed THEN "refused"
  ELSE IF registry = [counter |-> claim.desc.counter, digest |-> digest(claim.desc)] THEN "Accepted"
  ELSE IF claim.desc.counter = registry.counter + 1 /\ claim.base_digest = registry.digest
       THEN "Accepted"
  ELSE "EditionConflict"

Pending(k) == draft[k] # None /\ ~draft[k].accepted

\* The claim is accepted; the answer may not arrive, and then it is sent again.
Register(k, arrives) ==
  /\ Pending(k)
  /\ Decision(draft[k]) = "Accepted"
  /\ registry' = [counter |-> draft[k].desc.counter, digest |-> digest(draft[k].desc)]
  /\ draft' = [draft EXCEPT ![k].accepted = arrives]
  /\ UNCHANGED <<now, skipping, published, journal, accepted>>

\* A revision the server refuses is not published; the editor starts again.
GiveUp(k) ==
  /\ Pending(k)
  /\ Decision(draft[k]) # "Accepted"
  /\ draft' = [draft EXCEPT ![k] = None]
  /\ UNCHANGED <<now, skipping, published, registry, journal, accepted>>

\* The new file takes the place of the old once the server has its number.
Publish(k) ==
  /\ draft[k] # None /\ (draft[k].accepted \/ k \in skipping)
  /\ Cardinality(published) < MaxPublished
  /\ published' = published \cup {draft[k].desc}
  /\ draft' = [draft EXCEPT ![k] = None]
  /\ UNCHANGED <<now, skipping, registry, journal, accepted>>

Tick ==
  /\ now < MaxTime
  /\ now' = now + 1
  /\ UNCHANGED <<skipping, published, draft, registry, journal, accepted>>

Init ==
  /\ now = 0 /\ skipping \in Unregistered /\ published = {Original} /\ draft = [k \in Editors |-> None]
  /\ registry = [counter |-> 0, digest |-> <<0>>]
  /\ journal = None /\ accepted = {}

Next ==
  \/ Tick
  \/ \E d \in published \cup Wild : Open(d)
  \/ \E k \in Editors : \/ \E base \in published, cert \in Certs, root \in Root : Edit(k, base, cert, root)
                        \/ \E arrives \in BOOLEAN : Register(k, arrives)
                        \/ GiveUp(k) \/ Publish(k)

Spec == Init /\ [][Next]_vars

-------------------------------------------------------------------------------
(* Properties. *)

\* The author or a coauthor let this key edit this file.
Allowed(k) ==
  EditAllowed /\ \E c \in Certs : c.editor_key = k /\ c.signed /\ c.file_id = File
                                  /\ c.issuer \in Coauthors \cup {Author}

\* Whatever a holder of the file wrote into a copy, the reader is given the
\* author's text or one that a key the author allowed has signed: never that
\* of an editor without a certificate, nor of another file's.
OnlyAllowedTexts ==
  \A d \in accepted :
    IF d.editor = None THEN d.root = OriginalRoot ELSE Allowed(d.editor.signer)

\* The digest that readers compare tells texts apart: the reader is never
\* given two texts under one number, even when editors skip the server.
OneTextPerNumber ==
  \A d, e \in accepted : d.counter = e.counter => d.root = e.root

\* With every editor asking the server, what circulates is one history: no two
\* revisions have a number in common, and each was made from the one before,
\* so that no edit is lost.
OneHistory ==
  skipping = {} =>
    /\ \A d, e \in published : d.counter = e.counter => d = e
    /\ \A d \in published : d.editor # None =>
         \E b \in published : b.counter + 1 = d.counter
                              /\ d.editor.base = [counter |-> b.counter, root |-> b.root]

\* Accepted once, a revision opens until the reader has taken a later one: the
\* end of its certificate does not close it.
StaysOpen == journal # None => MayShow(journal)

\* A revision under a certificate that holds, newer than what the reader has,
\* is not refused.
NewRevisionsOpen ==
  \A d \in published :
    (/\ d.editor # None /\ verify_for(d.editor.cert, None) = "ok" /\ EditAllowed
     /\ now <= d.editor.cert.not_after
     /\ (journal = None \/ d.counter > journal.counter))
    => MayShow(d)

\* The reader is not locked out of what it may read.
NoLockout == StaysOpen /\ NewRevisionsOpen

\* What readers are given is what somebody the author allowed has written: one
\* text for each number, and, with the server asked, one history.
TextsOfOneHistory == OnlyAllowedTexts /\ OneTextPerNumber /\ OneHistory

===============================================================================
