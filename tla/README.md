# A TLA+ verification of Open Crate

Open Crate is a Rust library for encrypted documents: signed headers,
authenticated chunks, key slots, access policies and the signed documents that
servers, authors and agents exchange. It has no I/O, clocks, threads or storage
of its own; a host supplies all of these. The concurrency and the failures are
therefore in how its functions are called: which document is presented when,
what the caller has kept since the last call, which clock it was given, where a
source or a sink stops. The models are of the functions, and of the sequences
of calls a host, a server and a user can make of them.

`src/` below is the repository; crates are under `crates/`.

## 1. Inventory

| Part | Source | State | Operations | Properties that make it correct |
|---|---|---|---|---|
| Access evaluator | oc-policy/lib.rs | none (pure) | `evaluate`, `intersect`, `effective_binding` | every check counts; the server's profile only narrows |
| Access over time | contract of `Context`, `LeaseFacts` | the host's access-state file; leases; three clocks | issue, revoke, accept, open | a revocation takes effect in bounded time; limits hold over renewals and replays; honest users see no alarm |
| External actions | oc-protocol/action.rs | requests, leases of one execution, the owner's queue and decisions; host: counters | `args_within`, `narrower`, `limiter_key`, the codecs of request, lease, queue and decision | a delegated rule permits no more than its parent; limits are counted once per rule and chain; nothing is executed against the owner's word |
| Agent grants and delegation | oc-protocol/agent.rs | facts accumulated along the chain | `verify_grant_chain_with_actions` | rights only shrink, over any number of links |
| Control of a server | oc-protocol/control.rs | the binding, receipts; what a client has seen | `Binding::check`, payloads, `assemble`, `cosign`, receipts, `continuity` | each revision has a quorum of those in office; no false fork, no undetected one at adjacent revisions |
| Transfer of authority | oc-protocol/control.rs | signatures collected; the walk | `cosign_transfer`, `open_transfer`, `verify_chain` | no two servers of one epoch trusted; the keys of all epochs kept |
| Replication | oc-protocol/replica.rs | the replica's state and cursor | push, acknowledgement, refusals | what a receipt says is stored, is stored |
| Chunk layout | oc-format/lib.rs | none | `Layout::new`, `chunks_for`, `ciphertext_span` | reader's arithmetic matches writer's |
| Streaming encryption | oc-crypto/stream.rs | buffer, leaves, length, index | `seal_chunks`, `fill` | short reads do not move boundaries; nothing lost; it returns |
| Content tree | oc-crypto/merkle.rs | levels | build, update, proofs | proofs bind position and history |
| Revision writer | oc-engine/edit.rs | pieces placed so far | `prepare`, `finish` | every revision reads back as meant |
| Editions | oc-format/edit.rs | certificates, description; host: registry, journal | `verify_for`, `verify_edition`, `EditionClaimDoc::verify` | one history; no text the author did not allow |
| Packing engine | oc-engine/lib.rs | `Session` between plan and assembly; the generator it is lent | `plan`, `assemble` | every signed file opens for the parties addressed and for nobody else; no nonce twice; author's slot no weaker than the recipient's |
| Header and policy codecs | oc-format/header.rs, policy_codec.rs, tlv.rs | none | `encode`, `decode`, `core_hash`, `policy_hash` | the reader's policy is the author's; nothing absent is a permission |
| Container verification | oc-format/verify.rs | none; the host's pinned keys | `verify_and_parse` | structure, signature, versions and trust in this order |
| Orders and standing | oc-protocol/order.rs, standing.rs, unknown.rs | none (documents); server: what it keeps of each file | encode, verify-then-parse, `intent_digest`, rosters, bequests | a quorum rules and nobody else; what was taken back stays so; the standing can be read; an heir gets this file |
| Access requests | oc-protocol/access.rs | the queue the author reads | ask, pending, decision | a decision and its share are for the device that asked |
| Witnessed heads, directory | oc-protocol/witness.rs, directory.rs | the witness's heads; the directory's records | `View::check`, `relate`, cosign, `Lookup::verify` | what is signed only grows; nobody honest is accused; proved keys are the same for everybody |
| Activation, attestation | oc-protocol/activation.rs, attestation.rs | conversations, session keys, chip evidence | hello, challenge, echo, sealed requests, all responses | a conversation belongs to the holder of the keys; an attestation is of this conversation |
| Operations, subscriptions | oc-protocol/activation.rs | the operation a client wrote down, the server's table, the cursor | activate, register, order, endorse, watch, notice | repeating is safe; no grant is lost; no notice is missed |
| Leases on the wire, revocations, attribute rules | oc-protocol | none (documents) | codecs | |
| Primitives | oc-crypto | none | kdf, AEAD, sealing, wrapping, signatures | which inputs each output is bound to; the rest is computational |

**How they interact.** The engine plans a container, seals it through the
streaming writer, builds the content tree from its leaves and describes the
result by a layout. A reader verifies header and content description, computes
spans by the layout, checks leaves against the tree, and asks the evaluator with
lease facts that the lease codec produced. Editing replaces the content
description and frames; the server numbers the revisions. Grants and
delegations let an agent act under rules, one lease for each execution; orders
change what the server keeps of a file, and the standing shows it; a device
proves its keys in a handshake and asks for leases in identified operations;
controllers change the server's binding by intents, a replica and a witness
keep what it wrote; transfers let a server's successor issue leases for old
files.

**What is hard here.** The same lease is judged many times, by a clock the user
sets and a state file the user can restore. Chains pass through hands that need
not be honest, in any order. Two servers may write under one key after a backup
was put back. A virtual machine is set back to a snapshot and its generator
repeats. Controllers sign while clients walk. Orders are held back and
delivered after they were taken back. Conversations are mixed on the way. A
source reads short, a sink fails, a server's answer is lost and the request
repeated. Counters and lengths end at `u32` and `u64`.
`PROJECT.json` lists each of these as a hazard at its line, with the properties
aimed at it.

## 2. Modules

| Module | Models | Notes |
|---|---|---|
| `Policy` | oc-policy/lib.rs | pure operators; one operator per check of `evaluate`, in its order; arithmetic saturates at `MaxI64`, `MaxU64` |
| `AccessSession` | host, server and world around `evaluate` | EXTENDS `Policy`; actions issue, revoke, accept, open (allowed, denied), tick, reboot, set the clock, save and restore the state file |
| `ActionRules` | action.rs: shapes, `args_within`, `narrower` | pure; names opaque, paths as sequences of components |
| `Attenuation` | what delegation promises | abstract specification: rights are given, handed on no larger, or lost |
| `DelegationChain` | agent.rs: `verify_grant_chain_with_actions` | EXTENDS `ActionRules`; one action per stage and outcome; refines `Attenuation` |
| `Documents` | signatures and skipped fields of every oc-protocol document (unknown.rs) | pure; a document is a label, a key, a text and what its reader cannot name |
| `ActionDoor` | action.rs: request, lease of one execution, queue, decision | EXTENDS `ActionRules`, `Documents`; doors that ask, repeat and execute, an owner, a server that counts |
| `ControlDocuments` | control.rs: rosters and lists of signers | what intents and transfers share |
| `AuthorityChain` | control.rs: transfers, `verify_chain` | EXTENDS `ControlDocuments`; several clients and controllers, one step per certificate |
| `Control` | control.rs: bindings, intents, receipts, `continuity`; replica.rs | EXTENDS `ControlDocuments`, `Documents`; a server, a copy from a backup, a replica and a client |
| `ControlSystem` | both of them together | EXTENDS `Control`, `AuthorityChain`; the specification that is checked and proved |
| `AccessDecisions` | access.rs | pure; asks, the queue, decisions with the share |
| `Orders` | order.rs, standing.rs | EXTENDS `AccessDecisions`; signers, a carrier that holds back and repeats, a server with its barriers and quorums |
| `Wire` | activation.rs, attestation.rs: every message, and the derived values of kdf.rs | pure; lengths and the fields a reader looks at |
| `Handshake` | conversations: greeting, challenge, echo, session MAC, attestation | EXTENDS `Wire`; frames are seen, changed and moved between conversations, components of challenges too |
| `Operations` | identified operations, watch and notice | EXTENDS `Wire`; clients that restart, answers that get lost or are made up, a table that is full |
| `Layout` | oc-format/lib.rs: `Layout` | pure; negative numbers stand for its two errors |
| `SealStream` | stream.rs: `seal_chunks`, `fill` | EXTENDS `Layout`: the reader's arithmetic is applied to the writer's output |
| `EditWriter` | oc-engine/edit.rs | EXTENDS `Layout`; a file that lives through several revisions |
| `Editions` | oc-format/edit.rs | editors, server, reader |
| `PolicyCodec` | policy_codec.rs, tlv.rs | EXTENDS `Policy`; a TLV string is a sequence of tagged fields; writing, what reading refuses, and what it makes of the rest |
| `Container` | kdf.rs, seal.rs, wrap.rs, header.rs, content.rs, verify.rs | EXTENDS `PolicyCodec`; key schedule, slots, header, hashes, `verify_and_parse`, and the three ways to the content key |
| `Packing` | oc-engine/lib.rs | EXTENDS `Container`; actions plan, stream, assemble, sign, abandon, take a snapshot, go back to it |
| `MerkleTree` | merkle.rs | symbolic hashes; RECURSIVE operators, hence TLC only |
| `Journal` | witness.rs, directory.rs | EXTENDS `MerkleTree`, `Documents`; two logs, a copy, witnesses, clients and an auditor |
| `AppendOnlyLog` | what a witness promises | abstract specification; `Journal` refines it |
| `AccessProofs` (`Policy`, `AccessSession`), `AgentProofs` (`ActionRules`, `DelegationChain`, `ActionDoor`), `ControlProofs` (`ControlSystem`), `SessionProofs` (`Handshake`, `Operations`), `OrderProofs` (`Orders`), `EditionProofs` (`Editions`), `StreamProofs` (`SealStream`, `EditWriter`, with `Layout`), `PackingProofs` (`Packing`, with `Container` and `PolicyCodec`) | | theorems and their proofs |
| `MC*` | | constants for TLC; where one checks components that share nothing, `part` says which of them moves |

Operators named "Faulty" in a comment are plausible mistakes in the definition
that follows them (a dropped guard, an off-by-one, a missing reset). Each
property is known to fail when one of them takes that definition's place;
`PROJECT.json` pairs them.

### What is abstracted

* A signature verifies exactly under the key that made it; a hash is injective
  (documents, digests and tree nodes are compared as values). Nonces, tags and
  ciphertext bytes are symbols that carry what they were made from.
* In `Container` a derived key, hash, nonce, commitment or MAC is the tuple of its
  label and inputs, and a ciphertext opens under its own key, nonce and
  associated data only. A random value is the number of the draw that gave it
  (`Draw(n)`), so a generator set back gives the same values again, and the
  model counts draws in the order the code makes them.
* Encoding of signed documents is left out; what decoding *checks* (shape,
  limits, the key named inside, lengths, fields of the critical range) is kept.
  A message of `Wire` carries its length, and a body that another file decodes
  carries that file's verdict. The
  policy is encoded and decoded field by field, since what a missing or unknown
  field means is decided there.
* Denials and refusals keep their variant and lose their payload.
* Integer widths are constants. TLC is given small ones, so that saturation,
  `checked_add` and exhaustion of counters happen; proofs hold for all.

### Code outside the repository

The repository does not contain the host that keeps the access state, the server
that issues leases and registers editions, nor the reader's journal. They are
modelled from the contract the code states where it uses them (the comments of
`Context` and `LeaseFacts`, docs/protocol.md 3, 9 to 12 and 14.5, docs/format.md
"Editing is executable"), kept minimal, and marked external in the map:

* the host raises the clock floor before each decision, the highest lease
  number at acceptance, counts an opening before it releases content, and starts
  the count under a lease anew for a new number;
* the server stops issuing after a revocation; it may grant longer leases than
  the author allows (the evaluator must catch this);
* the host of the packing engine streams after `plan`, may come to `assemble` with
  another request, signs what it got or gives up; the machine may go back to a
  snapshot, generator, session and all, while what it released stays released
  (`Packing`). A document is one chunk there; cutting it is `SealStream`'s;
* how a reader gets from slots to the content key is taken from the engine's own
  tests (oc-engine/tests/p256_author_golden.rs), which walk both paths;
* a controller signs one certificate of an epoch (`AuthorityChain`);
* a server carries out an intent that is based on its revision and has a quorum
  of the current roster, keeps its receipt with the state, and forgets the
  oldest; a replica stores a state, then its cursor, and may stop in between
  (`Control`, docs/protocol.md 9.16, 9.17);
* a witness keeps a head of each log and moves on or accuses as `relate` says; a
  client takes a record for proved when the head it hangs from is cosigned
  (`Journal`, 9.13, 9.14);
* the server keeps a barrier of time for each kind of order, collects signatures
  under the digest of the intent, counts votes, verifies the signature of each
  bequest under the key of the file, and hands bequests out after the author's
  silence (`Orders`, 11 and 12);
* the server of executions counts by `limiter_key` along the chain, passes its
  gates again when a confirmed request is repeated, and gives a lease of at most
  30 s; a door executes under a lease that answers its request and is in force
  (`ActionDoor`, 14.5);
* a client writes an operation down before it sends it and repeats it until an
  answer it can read is about it, or its window is over; the server writes the
  record of an operation in the step that counts it and keeps it longer than
  that window (`Operations`, 9.9, 9.10); both sides of a conversation follow 9.4
  and 9.11 (`Handshake`);
* the server accepts a claim for the next number from the last digest, and
  repeats its answer to a claim it has accepted (`Editions`).

## 3. Runs

`tlc -config <run>.cfg <module>`; each ends within three minutes on two workers.

| Run | Asks | Result |
|---|---|---|
| `AccessHardware` | a device with a hardware clock, skew 1 s, terms of 1 s, a server granting up to 3 s: how long does a revoked file stay open? does it close for good though the user sets the clock back again and again? does an honest user see an alarm? does a profile widen anything? | holds, 395,000 states |
| `AccessLimits` | two leases with budgets, replay from the cache, term from the first opening, profile in one lease and not in the other | holds, 302,000 states |
| `AccessWiden` | does a StrictOnline profile only narrow? | **violated** (the finding below) |
| `Actions` | all chains over 19 grants, 10 action grants, 292 links, 3 holders; and two doors of one chain that ask for executions, the owner's yes or no, late, repeated and for the other door, the grant withdrawn at any time | holds, 263,000 states; each step of the walk refines `Attenuation` |
| `Control` | two clients, three controllers of whom two must sign, two rival successors; a server and its copy from a backup that carry out intents, with a replica, or with a client that is shown their bindings in any order | holds, 198,000 states |
| `Stream` | every way to read up to 17 bytes short at chunk sizes 1, 2, 4, with failures; `u32` ends at 4, `u64` at 30 | holds; every call returns, 2,500 states |
| `Packing` | two packings, one set-back of the machine, nine requests of every kind of recipient, two devices, two documents: who opens what was signed, does a nonce come twice, does the reader see the author's policy? | holds, 133,000 states |
| `Edit` | plans of up to four pieces, kept or new, to the end of the counter | holds, 583,000 states |
| `Editions` | two editors who ask the server or skip it, answers lost, regions written by others | holds, 682,000 states |
| `Journal` | all trees to nine leaves over two contents, grown and changed; and two logs of a server and of its copy, a witness for each, clients and an auditor | holds, 30,000 states; the witness refines `AppendOnlyLog` |
| `Orders` | four orders out of one of five menus, an author and a co-author whose client is newer than the server, delivered late, again or never: limits and rosters, votes, silence with a bequest the author did not sign, panic, devices | holds, 665,000 states |
| `Session` | two conversations with a generator that may repeat, frames and sealed components moved between them, attestation; two operations over lost answers, damaged frames, restarts, a table with room for two, hours that pass; the same with an answer made up; a subscriber that reconnects | holds, 1,728,000 states |

**What the properties of the protocols say.** `UsesCounted`, `OwnerInControl`: executions stay
within every limit of the chain, each under the rule that allowed it, and none
happens without the owner's yes to that very request, twice, or more than one
lease after the grant was revoked. `ByQuorum`, `WitnessedMeansStored`, `OneBranch`:
each revision and each successor has a quorum of the roster in office before it;
a receipt of success under the profile "Witnessed" is of a state the replica has;
a client that misses no revision follows one history. The second is subject to a
condition the documentation also makes: a state sent whole while two servers
write under one key replaces one history by the other. `NoFalseEvidence`,
`OneDirectory`, `WitnessedOnlyGrows`: a witness accuses no server that was never put
back and signs one history of one that was, so keys proved under its signature
are the same for every client and the auditor. `QuorumRules`, `NewestCommandStands`,
`StandingReadable`, `HeirGetsThisFile`: signatures of different times and client
versions add up exactly when the command is the same; nothing that was taken
back returns by an order held back; what the server accepted its client can read.
`ProvenIdentity`, `AttestedHere`: the echo is bound to greeting and challenge, so that
components of several conversations cannot be put together. A statement of the TPM
from before passes only for a challenge repeated whole, drawn alike in the same
second, which docs/format.md concedes. `GrantedOnce`, `NothingLost`, `NoGap`: a repeated
operation counts once, its lease reaches the client as long as it may repeat it,
and a subscriber hears every record once. Answers have no MAC (docs/protocol.md, 9.6),
so the first two have exceptions for a client that was sent a refusal nobody gave,
kept in the history variable `misled`. One without the echo, to the first request
that may have arrived, is what an old server would say: the client asks again in
the old form, and a second grant is counted (docs/protocol.md, 9.10); never a third.
One with the echo is believed, and the lease is lost, as it is after a refusal while
the file was frozen. One without the echo at any later time, or an echo removed from
a grant, does no harm. A generator that repeats may give two equal requests one identity and
one outcome; different requests never share one.

**Why these bounds are enough.** `AccessHardware`: the revocation bound is term
plus skew; `MaxTime` lets running time pass it by one, with one second of the
machine being off and one reboot. A second lease adds nothing to a bound that
holds for each lease; it is in `AccessLimits`, where it matters. The access
properties are also proved for all values. `Actions`: three links exhaust the
depth of every grant of the instance and each refusal is the outcome of some
document; of two doors, one above the other, the upper has two rules of one kind
and the lower a narrower one, so that three leases, against limits of one and two,
can be counted under the wrong rule or at the wrong door. `Control`: two rivals and one
further epoch, clients being interchangeable (symmetry); five bindings give
server and copy two revisions of their own each, and one receipt is forgotten by
the next. `Stream`: a `u32` of 4 makes the index run out while
the length does not; with a `u64` of 30 the longest files end beyond it,
which the reader must refuse, and the others do not. `Journal`: nine leaves
have every shape of odd end up to four levels; logs of three and four records
let server and copy part before, at and after a witnessed head. `Edit`: four pieces have a first,
a middle, a last and one too many for the index width. `Packing`: every property
relates at most two files, and two packings with one set-back between any two
steps give two files from the same draws at every point where the requests can
part; the requests include bytes that are no key, an illegal chunk size and a
roster that cannot meet its threshold, and one of the two devices lacks the hybrid
keys, so that each refusal but `CoreHashMismatch` happens. That one never does.
`Orders`: four orders are a quorum of two given, taken back, and two held back;
kinds that share no state are in different menus. `Session`: two conversations
are one and the one it is mixed with; two operations are one and its rival for the
last grant of a file, or its equal under a generator that gives one seed; three
hours pass a client's window (1) and the server's retention (2). What one part of
the instance is about is not repeated in the others: in "identity" one request is
served (`OneServed`), attestation is looked at in conversations opened as they should
be (`OwnTalks`, `Opened`), and one client is misled once (`OneForgery`), without documents,
which the parts "operations" and "subscription" have. The proofs have none of these bounds.

**Deadlock** is checked for the access runs and `Edit`. The others say
CHECK_DEADLOCK FALSE: a verification, a sealing call, an editor's or a packer's
work ends as the code does, and the instances with a bounded number of orders,
leases, bindings, records or operations end when these are used up.

**Fairness.** `RevokedFilesClose` assumes only that time passes while the machine
is on, `WF_vars(Tick(TRUE))`, and speaks of machines that are kept on and not
reset (`KeptRunning`): hardware time stands still while a machine is off. The
user, the server and the host are obliged to nothing. `Stream` assumes weak
fairness of the loop's own work (`WF_vars(Work)`), which is what calling the
function means: it is one loop of one thread, and a source or sink that blocks
for ever is the host's. Failures have no fairness. The other components promise
nothing in the end by themselves: an author, a door or a client may always stop
asking, and a network may lose every answer.

### Finding

*A server profile can open what the author's policy refuses.* The length of
a lease is compared with the author's term only when the composed policy is
`Network::Lease`. A profile of `StrictOnline` turns the composed policy into
`StrictOnline`, whose branch is empty; online, a lease longer than the
author's term is then allowed, which without the profile is denied
(`LeaseOutlivesPolicy`). oc-policy/lib.rs:335 says that the profile "cannot
EXPAND permissions". `ServerNeverWidens` states, checks and proves the rest:
in every other case the profile only narrows.

Three things that are not worth a run, seen while modelling: the comment at
stream.rs:63 has the sink receive "`tag ‖ ct`", while it receives `ct ‖ tag`,
which is what the reader's layout expects; and a policy whose limit is no opens
at all would be read as one open if that field were lost (policy_codec.rs:252),
where the test at line 778 is named `no_absent_field_ever_makes_the_policy_weaker`.
The field is always written and is under the author's signature;
`PolicyAsWritten` makes this exception explicitly. And activation.rs:85 says that a
refusal without an echo "means the operation did NOT execute under it", and line 71
calls the path a removed echo leads to "the safe direction"; docs/protocol.md, 9.10,
says that such a refusal "proves nothing" and that on the first request it can cost a
second grant. The document is what client and server follow, and the model with it.

## 4. Proofs

`tlapm <module>`; all obligations are proved by SMT (Z3), Zenon and, for the
temporal steps, LS4. The theorems hold for all values of the constants that
satisfy the named ASSUMEs, which TLC evaluates on the instances.

In each of them the argument is the same: the properties speak of histories or of
what *would* be accepted and are not inductive, so an invariant is found that
names what each part of the state has to do with the others; TLC checked it on
the instances before it was proved (except `PackInv`, which says "from some session"
of values TLC cannot enumerate); then one lemma per action, and under it one step
per conjunct the action can disturb.

**`AccessProofs`.** Of the pure operators: `AllowMeansAllChecks`, the evaluator
allows exactly when every check passes, so that the order of the checks matters
to the reason and never to the verdict (everything below uses this form);
`TighteningNeverWidens`, what is allowed under a profile is allowed without it,
save the finding above, with one lemma per field of `intersect`. Over time:
`TypeCorrect`, `RevocationBounded`, `RevocationBoundedHonest`, `OldLeasesDead`,
`ServerNarrows`, `LimitsHold`, `HonestNotAccused` and `WindowHolds`. The inductive
invariant is `AccessInv == TypeOK /\ Clocks /\ LeaseHistory /\ Counting`:

* `Clocks`: the hardware clock never runs ahead of real time, and the wall
  clock, unless it was set, is within the skew of the server's;
* `LeaseHistory`: a lease's issue time and hardware reading lie before the
  present, and before the revocation if there was one;
* `Counting`: unless a file was put back, the state file's counters are the
  history's.

The revocation bound then is arithmetic: the lease's length is at most the
author's term, the wall clock has not passed its end, and hardware time since
issuance is at most wall time since issuance plus the skew. `HonestNotAccused` is
the converse reading of `Clocks`, and needs that the floor in the state file is a
time that clock has shown; `WindowHolds` that the first opening in the file is the
history's.

**`AgentProofs`.** `NarrowerNeverWidens` (what a rule accepted by `narrower`
permits, its parent permits: a case per kind, path prefixes by transitivity),
`TypeCorrect`, `RootBounds`, `RulesBounded` and `ChainAttenuates`, the refinement of
`Attenuation`. The invariant `ChainInv` adds to the three properties `Checked`:
from the stage "links" on, the grant and action grant passed their checks.
Without it `facts` could come from a grant nobody signed. Of the doors:
`LimitsAlongTheChain` and `OwnerStaysInControl`, from `DoorInv`. A yes in the queue
has to be traced back to what the owner saw, so `Numbering` says that a number
stands for one request on the screen as in the queue, and `Confirmed` that what
the owner's key signed was shown under its number; `Counted` is the count for each
key at each door. The theorem needs that two rules under one key have one limit,
which is how `limiter_key` is made, and that a foreign document is not the owner's.

**`ControlProofs`.** `NoTwoServers`, `ChangesByQuorum`, `ReceiptsTrue` and
`BranchFollowed`. Two majorities of one roster share a controller, who signs one
certificate of an epoch (`OneVote`); but clients of one first binding are in step at
different epochs, and `ChainInv` therefore carries a set of the steps walked by
anybody, with at most one binding of each epoch for each first one. A list of
signers that `split_request` accepts has as many keys as entries because it
ascends: by well-founded induction on its positions. On the server's side
`ControlInv` says how the lines of two bindings lie to each other (`LinesOK`), what
a server remembers of the operations on its line (`Remembered`), that the replica
never runs ahead of a server whose pushes it takes (`ReplicaOK`, `Behind`) and what
each receipt is about (`ReceiptsOK`). That there is one created binding for each
scope is the assumption a copy would otherwise break at once.

**`SessionProofs`.** `ConversationsAreTheHolders` and `AttestedForThisTalk`, from
`HandInv`: who can have made each frame seen (`SeenOK`), what each device has
answered, to whatever challenge it was given (`AnsweredOK`), that a proven conversation was answered by the holder
(`ProvenOK`), what was served (`ServedOK`), what a TPM has stated and for which
challenge (`StatementsOK`, `AttestOK`). Any number of conversations, and a generator
that may repeat at will. Of operations: `RepeatingIsSafe`, `GrantsAreKept` and
`SubscriptionsHaveNoGap`. `ClientSound` relates what a client has written down, how
far its process is and what is on its wire, made-up answers included; `LeasesOK` that
a lease on the wire or with a client was issued to it for the request it asked;
`OneWorker` says that one client works
on an operation; `RecordSound` that a record in the server's table is of the body
its identity was made from; `GrantSound` follows each counted grant from the
journal to its record, to the wire, to the client, or to the made-up refusal in `misled`
that cut the way. That a made-up answer cannot bring a third grant rests on the old
form being sent once and by the process that began the operation. `Window <= Retention`
(docs/protocol.md, 12 and 24 hours) is what makes a repeated operation find its
record. `WatchInv` is the subscriber's: the cursor, the notices on the way and the
journal agree.

**`OrderProofs`.** `QuorumHolds`, `NewestHolds`, `StandingHolds` and `HeirHolds`, all
from `OrderInv`. Of each file it says that rosters have passed `check_roster`
(`Rosters`), that an heir has all its parts and its bequests are the author's
(`Heirs`), that there is one collection of signatures for each intent, too small for
the roster in force and with no signature older than the barrier of its kind
(`Waiting`), and one vote for each voter and device (`Votes`). Of the history:
whatever was said and not done waits with its signature (`SaidOK`), the barrier of a
kind is no older than any change of that kind (`ExecutedOK`), a refusing vote stands
or a later one does (`WithdrawnOK`), and all files were frozen or freed last at one
moment (`FrozenOK`), without which a panic could be late for one file and not for
another. `IntentIs` shows that `intent_digest` of an order about a file is the order
without its time; `MembersByPlace` that counting places of a roster counts people;
`WrittenIs` and `ReadBack` are the round trip of the standing, field by field.
`CommandsAssumption` says what a command is that can be written at all, with fields
of the types that decoding gives them, and that the author's own client seals the
share of a bequest to the device it names; other people's may write what they like.

**`EditionProofs`.** `HistorySafe` and `ReaderKeepsReading`, from `EditionInv`: who
made each revision and draft (`Made`), what the reader's journal holds (`Taken`),
and, with every editor asking the server, that the registered numbers lie one
behind the other (`Numbered`). `DigestBinds` is the lemma they turn on: two
revisions with one digest are one revision.

**`StreamProofs`.** `RevisionsReadAsMeant`: whatever revisions are written one after
the other, of kept and new pieces, the reader's chunk arithmetic over the resulting
file yields the text the editor meant. `WriterInv` has one predicate, `Chunked`, for
the file and for the half-written revision: all frames but the last are full, each
holds its part of the text, and a frame that was never moved is sealed for its place.
The property speaks of published files only; without `PlanOK` nothing is known of
the one that replaces it, and without `Rested` a second call could begin with what
an abandoned one left. `SealedIsReadable`: however the source returns its bytes,
short or not, what `seal_chunks` reports sealed is cut at the fixed boundaries, every
read opens exactly the chunks it needs, and every frame is where `Layout` says it
is. `StreamInv` says what holds in the loop (`Running`: all chunks so far are full,
and the buffer continues them) and at its end (`AllSealed`: nothing is left, and only
an empty document has an empty chunk); both carry `Frames`, the bytes of the sink.
Both theorems rest on a few lemmas on multiplication and division (`ChunksAscend`,
`OffsetInChunk`, `ChunkOfSpan`), since the chunk size is a constant of any value and
the arithmetic not linear. They assume that chunk sizes are positive and fit in
`u32` and that the length of a frame fits in `u64`, as it does in the code by 32
bits; that a file ends within `u64` is not assumed, and the reader's refusal is part
of the property.

**`PackingProofs`.** `NoncesNeverRepeat`: under one key no nonce serves two
messages. The property compares pairs and is not inductive; the invariant
`AllHedged` says of each ciphertext released how its nonce came about, from its
own plaintext and associated data, and is kept by every step, whatever the
generator repeats. One lemma per function that encrypts (`seal`, `wrap_cek`,
`seal_private_meta`), then the slots, then the header that `assemble` returns.
This one needs no assumption on requests, devices or bounds; that distinct
inputs give distinct nonces is the symbolic reading of the hash.

`FilesOpenForTheirParties`: a signed file opens for the author and for the recipient
its request names, at the recipient's strength, and for nobody else; with slots or a
wrapped key taken from another file it opens for nobody. `PoliciesReadAsWritten`: the reader
sees the policy the author asked for, and a field lost on the way only tightens it,
with the exception named above. Both follow from `PackInv`. They speak of finished
files, while what decides them happened in steps before, between which the machine
may be set back: so `PackInv` says of everything the host holds, now or in the
snapshot, and of every file, that it was made of *one* session (`SessionMade`,
`StreamMade`, `HeaderMade`, `SlotsMade`, `RegionMade`), however many sessions share
their draws with it. That the slots of a header are told apart by kind, recipient
and plaintext is `SlotsApart`; what each party gets out of its own, the lemmas named
after them. Of the policy codec, `InOrder` describes the one sequence in tag order:
a field's place is the number of smaller tags, and those places fill 1 to n because
an injection of a finite set into itself is onto. This takes the place of the
induction a sort would need; reading back (`RulesReadBack`, `BindingsReadBack`,
`DecodeIs`) and loss (`LostFieldsTighten`) follow field by field. The assumptions are
what Rust's types give: a recipient or device of a variant has a key of that
variant's mechanism, policies are of their type, and actions a policy keeps as
unknown are finitely many and none of the known ones.

**Only model-checked.** Liveness (`RevokedFilesClose`, `Returns`): out of the
prover's reach. `TreeProofsBind`, `NoFalseEvidence`, `OneDirectory` and
`WitnessedOnlyGrows`: `MerkleTree` is recursive, and with it `Journal`; induction
over data is out of the prover's reach. Every other property of the runs that pass
is stated by a theorem.

## 5. Not modelled

*Not under a model checker's eye at all:* strength of the primitives
(computational), RSA, the TPM's own structures; byte layout of numbers, texts,
frames, footer, prologue and the engine's wire interface, which golden files and
known-answer tests in the repository cover; the facade.

*Documents without a rule of their own:* the version table of leases (lease.rs), the
record of a revocation (revocation.rs) and the conditions of an attribute rule
(attribute_rule.rs) are stateless codecs. What a lease means is in `Policy`, how
it is asked for in `Operations`; `Orders` carries a rule whole.

*Left out inside modelled components, and why:*

* `Control`: changes the operator makes on the machine itself (`cca control set`),
  which need no intent; the organization of a server, which is part of what
  `authority_id` stands for.
* `Orders`: what limits do to devices that exist (the server's business), and the
  time after which a proposal without a quorum is dropped; without it a proposal
  lives longer, so the properties hold of more behaviours.
* `Handshake`: answers that somebody else makes up in place of the server's, which
  end a conversation (a challenge apart, which is modelled); nothing is promised of
  conversations that end.
* `Operations`: what a renewal changes, since renewals carry no identity, and the
  eviction of records of the table that are past their retention. A request that is
  held back on a connection its client has left: under an identity it meets its
  record, and after a made-up answer it is the second grant of the same exception. An
  old lease sent again in an answer, which its number gives away (`AccessSession`).
* `Wire`: the text of a refusal, and that one which is not UTF-8 is refused.
* `ActionDoor`: notes, and the report of an execution, which change nothing.
* `Journal`: times of heads and the texts of a record but for its member.
* `MerkleTree`: counts beyond `u32`, which both sides refuse.

## 6. Plan

Done: the access evaluator and its use over time, with proofs; delegation, with
the abstract specification, refinement and proofs; executions of external
actions; control, replication and transfer; witnessed journal and directory, with
the abstract specification and refinement; orders, standing and access requests;
the handshake, attestation, operations and subscriptions; layout, streaming,
revision writer, editions; content tree; packing, with the header and policy
codecs, the key schedule and verification.

Proved since: the access properties that were left, the doors of an agent,
control and transfer, the handshake, operations and subscriptions, orders and
standing, editions, streaming, the revision writer, and the rest of packing with
the policy codec.

Left: the properties listed as only model-checked in section 4, which would need a
prover with induction over sequences (the tree) or with fairness (the two liveness
properties); and the parts of section 5.
