-------------------------------- MODULE Policy --------------------------------
(***************************************************************************)
(* The access evaluator of crates/oc-policy/src/lib.rs: an author's policy,*)
(* the server's tightening of it, and the ordered checks of evaluate.      *)
(*                                                                         *)
(* A policy is a record.  Its map of rules is the set of allowed actions:  *)
(* an absent action and an explicit Deny are the same to every function of *)
(* the crate.  Options are a value or None.  The payload of a denial is    *)
(* left out, its variant is kept as a string.                              *)
(***************************************************************************)
EXTENDS Integers

CONSTANTS
  Digest,                   \* device fingerprints and policy hashes
  None,                     \* the absent value of an Option
  MaxI64, MaxU64,           \* the limits at which arithmetic saturates
  MAX_CLOCK_SKEW_SECONDS    \* tolerated disagreement of two clocks

ASSUME WidthAssumption ==
  MaxI64 \in Nat /\ MaxU64 \in Nat /\ MaxU64 >= MaxI64

ASSUME SkewAssumption == MAX_CLOCK_SKEW_SECONDS \in 0 .. MaxI64

MinI64 == -MaxI64 - 1

I64 == MinI64 .. MaxI64
U64 == 0 .. MaxU64

SatI64(x) == IF x > MaxI64 THEN MaxI64 ELSE IF x < MinI64 THEN MinI64 ELSE x
SatU64(x) == IF x > MaxU64 THEN MaxU64 ELSE IF x < 0 THEN 0 ELSE x

MinOf(a, b) == IF a <= b THEN a ELSE b
MaxOf(a, b) == IF a >= b THEN a ELSE b

-------------------------------------------------------------------------------
(* Policies. *)

Action == {"View", "Edit", "Print", "Clipboard", "Export", "Screenshot"}

\* The derived order Software < Hardware < HardwareAttested.
Software == 0
Hardware == 1
HardwareAttested == 2
Binding == {Software, Hardware, HardwareAttested}

Always == [kind |-> "Always"]
Window(from, to) == [kind |-> "Window", not_before |-> from, not_after |-> to]
FromFirstOpen(seconds) == [kind |-> "FromFirstOpen", seconds |-> seconds]

Validity ==
       {Always}
  \cup {Window(from, to) : from, to \in I64}
  \cup {FromFirstOpen(seconds) : seconds \in I64}

StrictOnline == [kind |-> "StrictOnline"]
LeaseNetwork(seconds, offline) ==
  [kind |-> "Lease", seconds |-> seconds, max_offline_seconds |-> offline]

Network ==
  {StrictOnline} \cup {LeaseNetwork(seconds, offline) : seconds, offline \in I64}

Policies ==
  [actions         : SUBSET Action,
   validity        : Validity,
   max_opens       : Nat \cup {None},
   network         : Network,
   min_binding     : Binding,
   action_binding  : [Action -> Binding],
   watermark       : BOOLEAN,
   unknown_actions : SUBSET Nat]

deny_all ==
  [actions |-> {}, validity |-> Always, max_opens |-> None,
   network |-> StrictOnline, min_binding |-> Software,
   action_binding |-> [a \in Action |-> Software],
   watermark |-> FALSE, unknown_actions |-> {}]

no_tightening ==
  [deny_all EXCEPT !.actions = Action, !.network = LeaseNetwork(MaxI64, MaxI64)]

binding_for(policy, action) == MaxOf(policy.min_binding, policy.action_binding[action])

\* A device vouches for Hardware at most; only a lease that carries the
\* server's attestation raises that, and never for software binding.
effective_binding(local, lease) ==
  IF local = Software THEN Software
  ELSE IF lease # None /\ lease.attested THEN HardwareAttested
  ELSE Hardware

-------------------------------------------------------------------------------
(* Composition of the author's policy with the server's. *)

IMPOSSIBLE == Window(MaxI64, MinI64)

tighten_validity(author, server) ==
  IF author.kind = "Always" THEN server
  ELSE IF server.kind = "Always" THEN author
  ELSE IF author.kind # server.kind THEN IMPOSSIBLE
  ELSE IF author.kind = "Window"
  THEN Window(MaxOf(author.not_before, server.not_before),
              MinOf(author.not_after, server.not_after))
  ELSE FromFirstOpen(MinOf(author.seconds, server.seconds))

\* Faulty: the server's lease terms take precedence over the author's.
tighten_network_by_server(author, server) ==
  IF author.kind = "StrictOnline" \/ server.kind = "StrictOnline"
  THEN StrictOnline
  ELSE LeaseNetwork(server.seconds, server.max_offline_seconds)

tighten_network(author, server) ==
  IF author.kind = "StrictOnline" \/ server.kind = "StrictOnline"
  THEN StrictOnline
  ELSE LeaseNetwork(MinOf(author.seconds, server.seconds),
                    MinOf(author.max_offline_seconds, server.max_offline_seconds))

tighten_opens(author, server) ==
  IF author = None THEN server
  ELSE IF server = None THEN author ELSE MinOf(author, server)

intersect(author, server) ==
  [actions         |-> author.actions \cap server.actions,
   validity        |-> tighten_validity(author.validity, server.validity),
   max_opens       |-> tighten_opens(author.max_opens, server.max_opens),
   network         |-> tighten_network(author.network, server.network),
   min_binding     |-> MaxOf(author.min_binding, server.min_binding),
   action_binding  |-> [a \in Action |->
                          MaxOf(author.action_binding[a], server.action_binding[a])],
   watermark       |-> author.watermark \/ server.watermark,
   unknown_actions |-> author.unknown_actions \cup server.unknown_actions]

\* What evaluate decides by: the author's policy under the lease's tightening.
composed(author, lease) ==
  IF lease # None /\ lease.server_policy # None
  THEN intersect(author, lease.server_policy)
  ELSE author

-------------------------------------------------------------------------------
(* What evaluate is given: lease facts and a context.                      *)

TpmClock == [reset_count : Nat, clock_ms : U64]

LeaseFacts ==
  [seq : Nat, issued_at : I64, expires_at : I64, opens_remaining : Nat \cup {None},
   revoked : BOOLEAN, device_fingerprint : Digest, policy_hash : Digest,
   server_policy : Policies \cup {None},
   attested : BOOLEAN, tpm_clock : TpmClock \cup {None}]

Absent == [kind |-> "Absent"]
Unreadable == [kind |-> "Unreadable"]
Read(reset_count, clock_ms) ==
  [kind |-> "Read", reset_count |-> reset_count, clock_ms |-> clock_ms]

DeviceClock ==
  {Absent, Unreadable} \cup {Read(resets, ms) : resets \in Nat, ms \in U64}

Contexts ==
  [now : I64, monotonic_floor : I64, first_open_at : I64 \cup {None},
   opens_so_far : Nat, opens_under_lease : Nat, binding : Binding,
   fingerprint : Digest, policy_hash : Digest, tpm_clock : DeviceClock,
   highest_seq_seen : Nat, online : BOOLEAN]

ASSUME NoneAssumption ==
  None \notin Int /\ None \notin Policies /\ None \notin TpmClock /\ None \notin LeaseFacts

-------------------------------------------------------------------------------
(* The checks of evaluate, each named for what it finds wrong.             *)

NotUnderstood(policy) == policy.unknown_actions # {}

ClockRolledBack(ctx) == ctx.now < ctx.monotonic_floor

BindingTooWeak(policy, lease, action, ctx) ==
  effective_binding(ctx.binding, lease) < binding_for(policy, action)

\* Hardware time is asked for only by a lease that carries it; a decrease of
\* either component is a rollback.
TpmMissing(lease, ctx)    == lease.tpm_clock # None /\ ctx.tpm_clock.kind = "Absent"
TpmUnreadable(lease, ctx) == lease.tpm_clock # None /\ ctx.tpm_clock.kind = "Unreadable"
TpmRolledBack(lease, ctx) ==
  /\ lease.tpm_clock # None
  /\ ctx.tpm_clock.kind = "Read"
  /\ \/ ctx.tpm_clock.clock_ms < lease.tpm_clock.clock_ms
     \/ ctx.tpm_clock.reset_count < lease.tpm_clock.reset_count

IssuedInTheFuture(lease, ctx) ==
  SatI64(lease.issued_at - ctx.now) > MAX_CLOCK_SKEW_SECONDS

OfflineNotPermitted(policy, ctx) == policy.network.kind = "StrictOnline" /\ ~ctx.online

\* Faulty: only a negative length is refused, so a generous server is believed.
OutlivesPolicyIgnoringTerm(policy, lease) ==
  policy.network.kind = "Lease" /\ SatI64(lease.expires_at - lease.issued_at) < 0

\* A lease whose length is negative or longer than the policy's lease term.
\* Under StrictOnline the length is not looked at.
OutlivesPolicy(policy, lease) ==
  /\ policy.network.kind = "Lease"
  /\ LET granted == SatI64(lease.expires_at - lease.issued_at)
     IN  granted < 0 \/ granted > policy.network.seconds

\* Milliseconds by the hardware clock and by the wall clock since issuance;
\* a wall clock behind the issuance counts as no time at all.
HardwareElapsed(lease, ctx) == SatU64(ctx.tpm_clock.clock_ms - lease.tpm_clock.clock_ms)
WallElapsed(lease, ctx)     == SatU64(SatI64(ctx.now - lease.issued_at) * 1000)

\* Faulty: no allowance for the skew of two clocks.
OutranWallClockNoSlack(lease, ctx) ==
  /\ lease.tpm_clock # None
  /\ ctx.tpm_clock.kind = "Read"
  /\ HardwareElapsed(lease, ctx) > WallElapsed(lease, ctx)

\* Faulty: hardware time is compared in direction only.
OutranWallClockNever(lease, ctx) ==
  /\ lease.tpm_clock # None
  /\ ctx.tpm_clock.kind = "Read"
  /\ ctx.tpm_clock.clock_ms < lease.tpm_clock.clock_ms

OutranWallClock(lease, ctx) ==
  /\ lease.tpm_clock # None
  /\ ctx.tpm_clock.kind = "Read"
  /\ HardwareElapsed(lease, ctx) >
       SatU64(WallElapsed(lease, ctx) + SatU64(MAX_CLOCK_SKEW_SECONDS * 1000))

OfflineTooLong(policy, lease, ctx) ==
  /\ ~ctx.online
  /\ policy.network.kind = "Lease"
  /\ SatI64(ctx.now - lease.issued_at) > policy.network.max_offline_seconds

NotYetValid(policy, ctx) ==
  policy.validity.kind = "Window" /\ ctx.now < policy.validity.not_before

\* Faulty: the term from the first opening is not enforced.
ValidityOverWindowOnly(policy, ctx) ==
  policy.validity.kind = "Window" /\ ctx.now > policy.validity.not_after

ValidityOver(policy, ctx) ==
  \/ policy.validity.kind = "Window" /\ ctx.now > policy.validity.not_after
  \/ /\ policy.validity.kind = "FromFirstOpen"
     /\ ctx.first_open_at # None
     /\ ctx.now > SatI64(ctx.first_open_at + policy.validity.seconds)

FirstOpenNotRecorded(policy, ctx) ==
  policy.validity.kind = "FromFirstOpen" /\ ctx.first_open_at = None /\ ~ctx.online

\* Faulty: a lease's budget stops only at an exact zero.
OpensUsedUpAtZero(policy, lease, ctx) ==
  \/ policy.max_opens # None /\ ctx.opens_so_far >= policy.max_opens
  \/ lease.opens_remaining = 0

OpensUsedUp(policy, lease, ctx) ==
  \/ policy.max_opens # None /\ ctx.opens_so_far >= policy.max_opens
  \/ lease.opens_remaining # None /\ ctx.opens_under_lease >= lease.opens_remaining

-------------------------------------------------------------------------------
(* evaluate: the first check that fails is the reason of the denial.       *)

\* Faulty: the lease's number is not looked at.
LeaseDenialNoNumber(lease, ctx) ==
  IF lease.revoked                                       THEN "Revoked"
  ELSE IF lease.device_fingerprint # ctx.fingerprint     THEN "WrongDevice"
  ELSE IF lease.policy_hash # ctx.policy_hash            THEN "PolicyHashMismatch"
  ELSE IF TpmMissing(lease, ctx)                         THEN "TpmClockMissing"
  ELSE IF TpmUnreadable(lease, ctx)                      THEN "TpmClockUnreadable"
  ELSE IF TpmRolledBack(lease, ctx)                      THEN "TpmClockRollback"
  ELSE IF IssuedInTheFuture(lease, ctx)                  THEN "LeaseIssuedInTheFuture"
  ELSE "Ok"

\* Who the lease is for, and whether it and the device can be believed.
LeaseDenial(lease, ctx) ==
  IF lease.revoked                                       THEN "Revoked"
  ELSE IF lease.device_fingerprint # ctx.fingerprint     THEN "WrongDevice"
  ELSE IF lease.policy_hash # ctx.policy_hash            THEN "PolicyHashMismatch"
  ELSE IF lease.seq < ctx.highest_seq_seen               THEN "LeaseRollback"
  ELSE IF TpmMissing(lease, ctx)                         THEN "TpmClockMissing"
  ELSE IF TpmUnreadable(lease, ctx)                      THEN "TpmClockUnreadable"
  ELSE IF TpmRolledBack(lease, ctx)                      THEN "TpmClockRollback"
  ELSE IF IssuedInTheFuture(lease, ctx)                  THEN "LeaseIssuedInTheFuture"
  ELSE "Ok"

\* How long the lease and the policy run.
TermDenial(policy, lease, ctx) ==
  IF OfflineNotPermitted(policy, ctx)                    THEN "OfflineNotPermitted"
  ELSE IF OutlivesPolicy(policy, lease)                  THEN "LeaseOutlivesPolicy"
  ELSE IF OutranWallClock(lease, ctx)                    THEN "HardwareClockOutranWallClock"
  ELSE IF ctx.now > lease.expires_at                     THEN "Expired"
  ELSE IF OfflineTooLong(policy, lease, ctx)             THEN "OfflineTooLong"
  ELSE IF NotYetValid(policy, ctx)                       THEN "NotYetValid"
  ELSE IF ValidityOver(policy, ctx)                      THEN "Expired"
  ELSE IF FirstOpenNotRecorded(policy, ctx)              THEN "FirstOpenNotRecorded"
  ELSE "Ok"

\* How often, and whether the action is allowed at all; a denial names the
\* party it comes from.
GrantDenial(author, policy, lease, action, ctx) ==
  IF OpensUsedUp(policy, lease, ctx)                     THEN "OpenLimitReached"
  ELSE IF action \in policy.actions                      THEN "Ok"
  ELSE IF action \in author.actions                      THEN "ActionTightenedByServer"
  ELSE "ActionNotPermitted"

evaluate(author, lease, action, ctx) ==
  LET policy == composed(author, lease)
  IN  IF NotUnderstood(policy)                           THEN "PolicyNotFullyUnderstood"
      ELSE IF ClockRolledBack(ctx)                       THEN "ClockRollback"
      ELSE IF BindingTooWeak(policy, lease, action, ctx) THEN "BindingTooWeak"
      ELSE IF lease = None                               THEN "NoLease"
      ELSE IF LeaseDenial(lease, ctx) # "Ok"             THEN LeaseDenial(lease, ctx)
      ELSE IF TermDenial(policy, lease, ctx) # "Ok"      THEN TermDenial(policy, lease, ctx)
      ELSE IF GrantDenial(author, policy, lease, action, ctx) # "Ok"
           THEN GrantDenial(author, policy, lease, action, ctx)
      ELSE "Allow"

is_allowed(author, lease, action, ctx) == evaluate(author, lease, action, ctx) = "Allow"

\* What an allowed action obliges the client to.
Obligations(author, lease) ==
  [watermark            |-> composed(author, lease).watermark,
   block_screen_capture |-> "Screenshot" \notin composed(author, lease).actions]

===============================================================================
