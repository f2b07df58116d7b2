------------------------------- MODULE MCSession -------------------------------
(* Two instances that share nothing: conversations of one device with a TPM  *)
(* and of strangers; and operations of a device and an author, with a        *)
(* subscriber.                                                               *)
EXTENDS Handshake, Operations, TLC

VARIABLE part

Key65(owner) == [owner |-> owner, len |-> 65]
Hello(fpr, public, tpm, kem, hybrid) ==
  [fpr |-> fpr, public |-> public, tpm |-> tpm, kem |-> kem, hybrid |-> hybrid, more |-> "none"]

\* The device plainly and with its TPM; the device's name over another key, and
\* its key beside another's TPM.
MCGreetings ==
  {Hello("d", "d", None, None, None), Hello("d", "d", Key65("d"), None, None),
   Hello("d", "stranger", None, None, None), Hello("d", "d", Key65("stranger"), None, None)}

Slot == [enc |-> 32, ct |-> 48, len |-> 112]
Body(file, clock_len) ==
  [file |-> file, fpr |-> "d", public |-> 32, slot |-> Slot, clock |-> clock_len,
   operation_id |-> None, len |-> 300, more |-> "none"]

MCBodies == {Body("f", 20), Body("f", None)}

\* An order that freezes a file, a co-author's signature that thaws it, the
\* registration of another file.
Freeze == [kind |-> "Order", body |-> [file |-> "f", change |-> "FROZEN", len |-> 200]]
Thaw   == [kind |-> "Endorse", body |-> [file |-> "f", change |-> "THAWED", len |-> 232]]
Enter  == [kind |-> "Register",
           body |-> [file |-> "g", change |-> "FILE_REGISTERED", header |-> 300, len |-> 504]]
MCPapers == {Freeze, Thaw, Enter}

MCChain == [documents |-> <<200, 150>>, action_grant |-> None, more |-> "none"]

MCRequests == {Body("f", None), Body("g", None)}

MCInit ==
  /\ part \in {"identity", "attestation", "operations", "forgery", "subscription"} /\ HandInit /\ OpInit
  /\ part \notin {"operations", "forgery"} => knows

\* Attestation is looked at in conversations of the device, with its TPM, that
\* were opened as they should be, each without a pause and sealed on its own.
OwnTalks ==
  /\ \A t \in Talks :
       /\ talks[t].who = "d" /\ talks[t].hello = talks[t].sent /\ Point(t) = "d"
       /\ talks[t].challenge # None => talks[t].challenge.software.ephemeral = t
  /\ \A x \in received : x[2] = talks[x[1]].challenge
Opened == \A t \in Talks : Proven(t)

\* One request is served and one client misled once: the properties are about one.
OneServed == Cardinality(served) <= 1
OneForgery == Cardinality(misled) <= 1

MCNext ==
  \/ part = "identity" /\ (OpenNext \/ RequestNext) /\ OneServed' /\ UNCHANGED <<part, opvars>>
  \/ part = "attestation" /\ (OpenNext \/ (Opened /\ AttestNext)) /\ OwnTalks' /\ UNCHANGED <<part, opvars>>
  \/ part = "operations" /\ (ClientNext \/ \E f \in {Freeze, Thaw} : Document(f)) /\ UNCHANGED <<part, handvars>>
  \/ part = "forgery" /\ (ClientNext \/ ForgeNext) /\ OneForgery' /\ UNCHANGED <<part, handvars>>
  \/ part = "subscription" /\ (AuthorNext \/ Hour \/ WatchNext) /\ UNCHANGED <<part, handvars>>

MCSpec == MCInit /\ [][MCNext]_<<part, handvars, opvars>>

================================================================================
