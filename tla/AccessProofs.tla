----------------------------- MODULE AccessProofs -----------------------------
(***************************************************************************)
(* Facts about the evaluator (Policy), for every policy, lease and         *)
(* context; then the safety properties of AccessSession, for every author  *)
(* policy, every set of profiles, lease lengths and budgets, and every     *)
(* bound.                                                                  *)
(***************************************************************************)
EXTENDS AccessSession, TLAPS

-------------------------------------------------------------------------------
(* Saturating arithmetic. *)

\* i64 saturation stays in range, keeps the order and leaves what fits alone.
LEMMA SatI64Facts ==
  ASSUME NEW x \in Int, NEW y \in Int
  PROVE  /\ SatI64(x) \in I64 /\ SatI64(x) \in Int
         /\ x <= y => SatI64(x) <= SatI64(y)
         /\ x \in I64 => SatI64(x) = x
         /\ x >= MinI64 => SatI64(x) <= x
BY WidthAssumption DEF SatI64, I64, MinI64

\* u64 saturation, of a value that may be negative.
LEMMA SatU64Facts ==
  ASSUME NEW x \in Int, NEW y \in Int
  PROVE  /\ SatU64(x) \in U64 /\ SatU64(x) \in Int
         /\ x <= y => SatU64(x) <= SatU64(y)
         /\ x \in U64 => SatU64(x) = x
         /\ x >= 0 => SatU64(x) <= x
BY WidthAssumption DEF SatU64, U64

-------------------------------------------------------------------------------
(* What an Allow verdict says: no check of evaluate failed. *)

LeaseChecks(lease, ctx) ==
  /\ ~lease.revoked
  /\ lease.device_fingerprint = ctx.fingerprint
  /\ lease.policy_hash = ctx.policy_hash
  /\ ~(lease.seq < ctx.highest_seq_seen)
  /\ ~TpmMissing(lease, ctx) /\ ~TpmUnreadable(lease, ctx)
  /\ ~TpmRolledBack(lease, ctx) /\ ~IssuedInTheFuture(lease, ctx)

TermChecks(policy, lease, ctx) ==
  /\ ~OfflineNotPermitted(policy, ctx) /\ ~OutlivesPolicy(policy, lease)
  /\ ~OutranWallClock(lease, ctx) /\ ~(ctx.now > lease.expires_at)
  /\ ~OfflineTooLong(policy, lease, ctx) /\ ~NotYetValid(policy, ctx)
  /\ ~ValidityOver(policy, ctx) /\ ~FirstOpenNotRecorded(policy, ctx)

PassesAll(policy, lease, action, ctx) ==
  /\ ~NotUnderstood(policy) /\ ~ClockRolledBack(ctx)
  /\ ~BindingTooWeak(policy, lease, action, ctx)
  /\ lease # None
  /\ LeaseChecks(lease, ctx)
  /\ TermChecks(policy, lease, ctx)
  /\ ~OpensUsedUp(policy, lease, ctx)
  /\ action \in policy.actions

\* The checks on the lease itself pass exactly when all of them do.
LEMMA LeaseDenialOk ==
  ASSUME NEW lease, NEW ctx
  PROVE  LeaseDenial(lease, ctx) = "Ok" <=> LeaseChecks(lease, ctx)
BY DEF LeaseDenial, LeaseChecks

\* Likewise the checks on the terms.
LEMMA TermDenialOk ==
  ASSUME NEW policy, NEW lease, NEW ctx
  PROVE  TermDenial(policy, lease, ctx) = "Ok" <=> TermChecks(policy, lease, ctx)
BY DEF TermDenial, TermChecks

\* Likewise the limits and the rule of the action.
LEMMA GrantDenialOk ==
  ASSUME NEW author, NEW policy, NEW lease, NEW action, NEW ctx
  PROVE  GrantDenial(author, policy, lease, action, ctx) = "Ok"
           <=> ~OpensUsedUp(policy, lease, ctx) /\ action \in policy.actions
BY DEF GrantDenial

\* A denial is never the word for an allowance.
LEMMA DenialsDeny ==
  ASSUME NEW author, NEW policy, NEW lease, NEW action, NEW ctx
  PROVE  /\ LeaseDenial(lease, ctx) # "Allow"
         /\ TermDenial(policy, lease, ctx) # "Allow"
         /\ GrantDenial(author, policy, lease, action, ctx) # "Allow"
BY DEF LeaseDenial, TermDenial, GrantDenial

\* evaluate allows an action exactly when every one of its checks passes under
\* the composed policy: the order of the checks decides the reason of a
\* denial, never the verdict.
THEOREM AllowMeansAllChecks ==
  ASSUME NEW author, NEW lease, NEW action, NEW ctx
  PROVE  is_allowed(author, lease, action, ctx)
           <=> PassesAll(composed(author, lease), lease, action, ctx)
<1> DEFINE policy == composed(author, lease)
<1> HIDE DEF policy
<1>1. evaluate(author, lease, action, ctx) =
        IF NotUnderstood(policy)                           THEN "PolicyNotFullyUnderstood"
        ELSE IF ClockRolledBack(ctx)                       THEN "ClockRollback"
        ELSE IF BindingTooWeak(policy, lease, action, ctx) THEN "BindingTooWeak"
        ELSE IF lease = None                               THEN "NoLease"
        ELSE IF LeaseDenial(lease, ctx) # "Ok"             THEN LeaseDenial(lease, ctx)
        ELSE IF TermDenial(policy, lease, ctx) # "Ok"      THEN TermDenial(policy, lease, ctx)
        ELSE IF GrantDenial(author, policy, lease, action, ctx) # "Ok"
             THEN GrantDenial(author, policy, lease, action, ctx)
        ELSE "Allow"
  BY DEF evaluate, policy
<1>2. is_allowed(author, lease, action, ctx) <=> PassesAll(policy, lease, action, ctx)
  BY <1>1, LeaseDenialOk, TermDenialOk, GrantDenialOk, DenialsDeny
     DEF is_allowed, PassesAll
<1> QED BY <1>2 DEF policy

-------------------------------------------------------------------------------
(* Tightening. *)

\* Every policy a client can hold has kinds and fields as Policies says.
LEMMA PolicyShape ==
  ASSUME NEW p \in Policies
  PROVE  /\ p.actions \subseteq Action /\ p.unknown_actions \subseteq Nat
         /\ p.max_opens \in Nat \cup {None} /\ p.min_binding \in Int
         /\ p.action_binding \in [Action -> Binding]
         /\ p.network \in Network /\ p.validity \in Validity
BY DEF Policies, Binding, Software, Hardware, HardwareAttested

\* A network is StrictOnline or a Lease with two durations.
LEMMA NetworkShape ==
  ASSUME NEW n \in Network
  PROVE  \/ n.kind = "StrictOnline"
         \/ n.kind = "Lease" /\ n.seconds \in Int /\ n.max_offline_seconds \in Int
BY WidthAssumption DEF Network, StrictOnline, LeaseNetwork, I64, MinI64

\* A validity is one of three kinds, each with its own bounds.
LEMMA ValidityShape ==
  ASSUME NEW v \in Validity
  PROVE  \/ v.kind = "Always"
         \/ v.kind = "Window" /\ v.not_before \in I64 /\ v.not_after \in I64
         \/ v.kind = "FromFirstOpen" /\ v.seconds \in I64
BY DEF Validity, Always, Window, FromFirstOpen

\* Where both sides allow offline use the shorter terms win; anything else is
\* StrictOnline.
LEMMA NetworkTightens ==
  ASSUME NEW a \in Network, NEW s \in Network
  PROVE  LET n == tighten_network(a, s)
         IN  \/ n.kind = "StrictOnline"
             \/ /\ n.kind = "Lease" /\ a.kind = "Lease"
                /\ n.seconds \in Int /\ n.max_offline_seconds \in Int
                /\ n.seconds <= a.seconds
                /\ n.max_offline_seconds <= a.max_offline_seconds
BY NetworkShape DEF tighten_network, StrictOnline, LeaseNetwork, MinOf

\* A moment that the composed validity admits, the author's admits.
LEMMA ValidityTightens ==
  ASSUME NEW a \in Validity, NEW s \in Validity, NEW ctx \in Contexts,
         NEW p, p.validity = tighten_validity(a, s),
         NEW q, q.validity = a,
         ~NotYetValid(p, ctx), ~ValidityOver(p, ctx), ~FirstOpenNotRecorded(p, ctx)
  PROVE  ~NotYetValid(q, ctx) /\ ~ValidityOver(q, ctx) /\ ~FirstOpenNotRecorded(q, ctx)
<1> USE DEF NotYetValid, ValidityOver, FirstOpenNotRecorded
<1>0. /\ ctx.now \in I64 /\ MaxI64 \in Int /\ MinI64 \in Int
      /\ ctx.first_open_at \in I64 \cup {None}
  BY WidthAssumption DEF Contexts, MinI64
<1>1. CASE a.kind = "Always"
  BY <1>1
<1>2. CASE a.kind # "Always" /\ s.kind = "Always"
  BY <1>2 DEF tighten_validity
<1>3. CASE a.kind = "Window" /\ s.kind = "Window"
  BY <1>0, <1>3, ValidityShape DEF tighten_validity, Window, MaxOf, MinOf, I64
<1>4. CASE a.kind = "FromFirstOpen" /\ s.kind = "FromFirstOpen"
  <2>1. p.validity = FromFirstOpen(MinOf(a.seconds, s.seconds))
    BY <1>4 DEF tighten_validity
  <2>2. a.seconds \in Int /\ s.seconds \in Int
    BY <1>4, <1>0, ValidityShape DEF I64
  <2>3. p.validity.kind = "FromFirstOpen" /\ p.validity.seconds <= a.seconds
        /\ p.validity.seconds \in Int
    BY <2>1, <2>2 DEF FromFirstOpen, MinOf
  <2>4. CASE ctx.first_open_at = None
    BY <2>3, <2>4, <1>4
  <2>5. CASE ctx.first_open_at # None
    <3>1. ctx.first_open_at \in Int /\ ctx.now \in Int
      BY <2>5, <1>0 DEF I64
    <3>2. /\ SatI64(ctx.first_open_at + p.validity.seconds) \in Int
          /\ SatI64(ctx.first_open_at + a.seconds) \in Int
          /\ SatI64(ctx.first_open_at + p.validity.seconds) <= SatI64(ctx.first_open_at + a.seconds)
      BY <3>1, <2>2, <2>3, SatI64Facts
    <3> QED BY <3>1, <3>2, <2>3, <2>5, <1>4
  <2> QED BY <2>4, <2>5
<1>5. CASE \/ a.kind = "Window" /\ s.kind = "FromFirstOpen"
           \/ a.kind = "FromFirstOpen" /\ s.kind = "Window"
  <2>1. p.validity = Window(MaxI64, MinI64)
    BY <1>5 DEF tighten_validity, IMPOSSIBLE
  <2> QED BY <2>1, <1>0, WidthAssumption DEF Window, I64, MinI64
<1> QED BY <1>1, <1>2, <1>3, <1>4, <1>5, ValidityShape

\* The composed binding requirement is at least the author's.
LEMMA BindingTightens ==
  ASSUME NEW a \in Policies, NEW s \in Policies, NEW action \in Action,
         NEW lease, NEW ctx \in Contexts,
         ~BindingTooWeak(intersect(a, s), lease, action, ctx)
  PROVE  ~BindingTooWeak(a, lease, action, ctx)
<1>1. /\ a.min_binding \in Int /\ s.min_binding \in Int
      /\ a.action_binding[action] \in Int /\ s.action_binding[action] \in Int
  BY PolicyShape DEF Binding, Software, Hardware, HardwareAttested
<1>2. effective_binding(ctx.binding, lease) \in Int
  BY DEF effective_binding, Software, Hardware, HardwareAttested
<1>3. /\ intersect(a, s).min_binding = MaxOf(a.min_binding, s.min_binding)
      /\ intersect(a, s).action_binding[action]
           = MaxOf(a.action_binding[action], s.action_binding[action])
  BY DEF intersect
<1>4. binding_for(a, action) \in Int /\ binding_for(intersect(a, s), action) \in Int
      /\ binding_for(a, action) <= binding_for(intersect(a, s), action)
  BY <1>1, <1>3 DEF binding_for, MaxOf
<1> QED BY <1>2, <1>4 DEF BindingTooWeak

\* The composed limit of opens is at most the author's.
LEMMA OpensTighten ==
  ASSUME NEW a \in Policies, NEW s \in Policies, NEW lease, NEW ctx \in Contexts,
         ~OpensUsedUp(intersect(a, s), lease, ctx)
  PROVE  ~OpensUsedUp(a, lease, ctx)
<1>1. a.max_opens \in Nat \cup {None} /\ s.max_opens \in Nat \cup {None}
  BY PolicyShape
<1>2. intersect(a, s).max_opens = tighten_opens(a.max_opens, s.max_opens)
  BY DEF intersect
<1>3. ctx.opens_so_far \in Nat
  BY DEF Contexts
<1>4. ~(a.max_opens # None /\ ctx.opens_so_far >= a.max_opens)
  BY <1>1, <1>2, <1>3, NoneAssumption DEF OpensUsedUp, tighten_opens, MinOf
<1> QED BY <1>4 DEF OpensUsedUp

\* What a lease is without its server profile, check by check.
LEMMA BareLease ==
  ASSUME NEW lease \in LeaseFacts
  PROVE  LET bare == [lease EXCEPT !.server_policy = None]
         IN  /\ bare \in LeaseFacts /\ bare # None /\ bare.server_policy = None
             /\ bare.seq = lease.seq /\ bare.issued_at = lease.issued_at
             /\ bare.expires_at = lease.expires_at
             /\ bare.opens_remaining = lease.opens_remaining
             /\ bare.revoked = lease.revoked /\ bare.attested = lease.attested
             /\ bare.device_fingerprint = lease.device_fingerprint
             /\ bare.policy_hash = lease.policy_hash
             /\ bare.tpm_clock = lease.tpm_clock
BY NoneAssumption DEF LeaseFacts

\* The server's profile only narrows: an action allowed under a profile is
\* allowed by the author's policy alone, unless the profile replaces the
\* author's lease term by StrictOnline (intersect, tighten_validity, evaluate).
THEOREM TighteningNeverWidens ==
  ASSUME NEW author \in Policies, NEW lease \in LeaseFacts, NEW action \in Action,
         NEW ctx \in Contexts,
         is_allowed(author, lease, action, ctx),
         composed(author, lease).network.kind = author.network.kind
  PROVE  is_allowed(author, [lease EXCEPT !.server_policy = None], action, ctx)
<1> DEFINE bare == [lease EXCEPT !.server_policy = None]
           p == composed(author, lease)
           s == lease.server_policy
<1>1. /\ bare \in LeaseFacts /\ bare # None /\ bare.server_policy = None
      /\ bare.seq = lease.seq /\ bare.issued_at = lease.issued_at
      /\ bare.expires_at = lease.expires_at
      /\ bare.opens_remaining = lease.opens_remaining
      /\ bare.revoked = lease.revoked /\ bare.attested = lease.attested
      /\ bare.device_fingerprint = lease.device_fingerprint
      /\ bare.policy_hash = lease.policy_hash
      /\ bare.tpm_clock = lease.tpm_clock
  BY BareLease
<1> HIDE DEF bare
<1>2. composed(author, bare) = author
  BY <1>1 DEF composed
<1>3. PassesAll(p, lease, action, ctx)
  BY AllowMeansAllChecks
<1>4. s = None \/ s \in Policies
  BY DEF LeaseFacts
<1>5. lease # None
  BY NoneAssumption
<1>6. PassesAll(author, lease, action, ctx)
  <2>1. CASE s = None
    <3>1. p = author
      BY <2>1 DEF composed
    <3> QED BY <3>1, <1>3
  <2>2. CASE s # None
    <3>1. s \in Policies /\ p = intersect(author, s)
      BY <1>4, <1>5, <2>2 DEF composed
    <3> HIDE DEF p, s
    <3>2. /\ p.actions = author.actions \cap s.actions
          /\ p.unknown_actions = author.unknown_actions \cup s.unknown_actions
          /\ p.network = tighten_network(author.network, s.network)
          /\ p.validity = tighten_validity(author.validity, s.validity)
      BY <3>1 DEF intersect
    <3>3. ~NotUnderstood(author) /\ action \in author.actions
      BY <1>3, <3>2 DEF PassesAll, NotUnderstood
    <3>4. ~BindingTooWeak(author, lease, action, ctx)
      BY <1>3, <3>1, BindingTightens DEF PassesAll
    <3>5. ~OpensUsedUp(author, lease, ctx)
      BY <1>3, <3>1, OpensTighten DEF PassesAll
    <3>6. ~NotYetValid(author, ctx) /\ ~ValidityOver(author, ctx)
          /\ ~FirstOpenNotRecorded(author, ctx)
      <4>1. author.validity \in Validity /\ s.validity \in Validity
        BY <3>1, PolicyShape
      <4>2. ~NotYetValid(p, ctx) /\ ~ValidityOver(p, ctx) /\ ~FirstOpenNotRecorded(p, ctx)
        BY <1>3 DEF PassesAll, TermChecks
      <4> QED BY <3>2, <4>1, <4>2, ValidityTightens
    <3>7. /\ ~OfflineNotPermitted(author, ctx) /\ ~OutlivesPolicy(author, lease)
          /\ ~OfflineTooLong(author, lease, ctx)
      <4>1. author.network \in Network /\ s.network \in Network
        BY <3>1, PolicyShape
      <4>2. /\ ~OfflineNotPermitted(p, ctx) /\ ~OutlivesPolicy(p, lease)
            /\ ~OfflineTooLong(p, lease, ctx)
        BY <1>3 DEF PassesAll, TermChecks
      <4>3. p.network.kind = author.network.kind
        BY DEF p
      <4>4. /\ SatI64(lease.expires_at - lease.issued_at) \in Int
            /\ SatI64(ctx.now - lease.issued_at) \in Int
        <5>1. lease.expires_at \in Int /\ lease.issued_at \in Int /\ ctx.now \in Int
          BY DEF LeaseFacts, Contexts, I64
        <5> QED BY <5>1, SatI64Facts
      <4>5. CASE p.network.kind = "StrictOnline"
        BY <4>2, <4>3, <4>5 DEF OfflineNotPermitted, OutlivesPolicy, OfflineTooLong
      <4>6. CASE p.network.kind # "StrictOnline"
        <5>1. /\ p.network.kind = "Lease" /\ author.network.kind = "Lease"
              /\ p.network.seconds \in Int /\ p.network.max_offline_seconds \in Int
              /\ p.network.seconds <= author.network.seconds
              /\ p.network.max_offline_seconds <= author.network.max_offline_seconds
          BY <3>2, <4>1, <4>6, NetworkTightens
        <5>2. author.network.seconds \in Int /\ author.network.max_offline_seconds \in Int
          BY <4>1, <5>1, NetworkShape
        <5> QED BY <4>2, <4>4, <5>1, <5>2
                DEF OfflineNotPermitted, OutlivesPolicy, OfflineTooLong
      <4> QED BY <4>5, <4>6
    <3> QED BY <1>3, <3>3, <3>4, <3>5, <3>6, <3>7 DEF PassesAll, TermChecks
  <2> QED BY <2>1, <2>2
<1>7. PassesAll(author, bare, action, ctx)
  <2>1. BindingTooWeak(author, bare, action, ctx) <=> BindingTooWeak(author, lease, action, ctx)
    BY <1>1, <1>5 DEF BindingTooWeak, effective_binding
  <2>2. LeaseChecks(lease, ctx) <=> LeaseChecks(bare, ctx)
    BY <1>1 DEF LeaseChecks, TpmMissing, TpmUnreadable, TpmRolledBack, IssuedInTheFuture
  <2>3. TermChecks(author, lease, ctx) <=> TermChecks(author, bare, ctx)
    BY <1>1 DEF TermChecks, OutlivesPolicy, OutranWallClock, OfflineTooLong,
                HardwareElapsed, WallElapsed
  <2>4. OpensUsedUp(author, lease, ctx) <=> OpensUsedUp(author, bare, ctx)
    BY <1>1 DEF OpensUsedUp
  <2> QED BY <1>1, <1>6, <2>1, <2>2, <2>3, <2>4 DEF PassesAll
<1>8. is_allowed(author, bare, action, ctx)
  BY <1>2, <1>7, AllowMeansAllChecks
<1> QED BY <1>8 DEF bare

-------------------------------------------------------------------------------
(* The invariant. *)

AccessInv == TypeOK /\ Clocks /\ LeaseHistory /\ Counting

\* The constants as the proofs use them.
LEMMA ConstantFacts ==
  /\ MAX_CLOCK_SKEW_SECONDS \in Nat /\ MaxI64 \in Nat /\ MaxU64 \in Nat /\ MinI64 \in Int
  /\ MinI64 <= 0
  /\ MaxTime \in Nat /\ MaxTime >= MAX_CLOCK_SKEW_SECONDS /\ MaxTime * 1000 <= MaxU64
  /\ MaxLeases \in Nat /\ MaxResets \in Nat
  /\ None \notin Int
  /\ Times \subseteq Int /\ U64 \subseteq Nat
BY WidthAssumption, SkewAssumption, SessionAssumption, NoneAssumption
   DEF MinI64, Times, U64

\* The first state satisfies the invariant.
LEMMA InitEstablishes == Init => AccessInv
<1> SUFFICES ASSUME Init PROVE AccessInv
  OBVIOUS
<1> USE ConstantFacts DEF Init
<1>1. TypeOK
  <2>1. file \in StateFile
    BY DEF NewFile, StateFile, Times
  <2>2. tpm \in [reset_count : 0 .. MaxResets, clock_ms : U64]
    BY DEF U64
  <2>3. turned \in BOOLEAN /\ restored \in BOOLEAN
    OBVIOUS
  <2>4. /\ time \in 0 .. MaxTime /\ wall \in Times /\ fresh \in 0 .. MaxLeases
        /\ issued \in 0 .. MaxLeases
    BY DEF Times
  <2>5. opened \in [Seqs -> Nat] /\ total \in Nat
    OBVIOUS
  <2>6. leases \subseteq LeaseFacts
    OBVIOUS
  <2>7. /\ revoked \in (0 .. MaxTime) \cup {None} /\ revokedMs \in U64 \cup {None}
        /\ firstNow \in Times \cup {None} /\ lastNow \in Times \cup {None}
        /\ saved \in StateFile \cup {None}
    OBVIOUS
  <2> QED BY <2>1, <2>2, <2>3, <2>4, <2>5, <2>6, <2>7, Zenon DEF TypeOK
<1>2. Clocks
  BY DEF Clocks
<1>3. LeaseHistory
  BY DEF LeaseHistory
<1>4. Counting
  BY DEF Counting, NewFile, Seqs
<1> QED BY <1>1, <1>2, <1>3, <1>4 DEF AccessInv

-------------------------------------------------------------------------------
(* Type correctness. *)

\* A lease the server makes out is well formed.
LEMMA IssuedLeaseTyped ==
  ASSUME TypeOK, NEW d \in Durations, NEW b \in Budgets, NEW p \in Profiles,
         issued < MaxLeases
  PROVE  [seq |-> issued + 1, issued_at |-> time,
          expires_at |-> time + d, opens_remaining |-> b,
          revoked |-> FALSE, device_fingerprint |-> Fingerprint,
          policy_hash |-> PolicyHash, server_policy |-> p,
          attested |-> FALSE, tpm_clock |-> LeaseReading] \in LeaseFacts
<1>1. issued + 1 \in Nat
  BY ConstantFacts DEF TypeOK
<1>2. time \in I64 /\ time + d \in I64
  <2>1. time \in 0 .. MaxTime
    BY DEF TypeOK
  <2>2. d \in Int /\ d >= 0 /\ MaxTime + MAX_CLOCK_SKEW_SECONDS + d <= MaxI64
    BY SessionAssumption, ConstantFacts DEF I64
  <2> QED BY <2>1, <2>2, ConstantFacts DEF I64
<1>3. b \in Nat \cup {None} /\ p \in Policies \cup {None}
  BY SessionAssumption
<1>4. LeaseReading \in TpmClock \cup {None}
  <2>1. tpm \in [reset_count : 0 .. MaxResets, clock_ms : U64]
    BY DEF TypeOK
  <2>2. tpm \in TpmClock
    BY <2>1, ConstantFacts DEF TpmClock
  <2> QED BY <2>2 DEF LeaseReading
<1>5. Fingerprint \in Digest /\ PolicyHash \in Digest
  BY SessionAssumption
<1> QED BY <1>1, <1>2, <1>3, <1>4, <1>5 DEF LeaseFacts

\* Every step keeps the variables in their types.
LEMMA TypeStep == AccessInv /\ [Next]_vars => TypeOK'
<1> SUFFICES ASSUME AccessInv, [Next]_vars PROVE TypeOK'
  OBVIOUS
<1> USE DEF history
<1>0. /\ TypeOK
      /\ time \in 0 .. MaxTime /\ wall \in Times
      /\ tpm \in [reset_count : 0 .. MaxResets, clock_ms : U64]
      /\ file \in StateFile /\ issued \in 0 .. MaxLeases
      /\ leases \subseteq LeaseFacts
      /\ \A lease \in leases : lease.seq \in 1 .. MaxLeases
  BY ConstantFacts DEF AccessInv, TypeOK, LeaseHistory
<1>1. ASSUME NEW d \in Durations, NEW b \in Budgets, NEW p \in Profiles, IssueLease(d, b, p)
      PROVE  TypeOK'
  <2>1. leases' \subseteq LeaseFacts
    BY <1>0, <1>1, IssuedLeaseTyped DEF IssueLease
  <2>2. issued' \in 0 .. MaxLeases
    BY <1>0, <1>1, ConstantFacts DEF IssueLease
  <2> QED BY <1>0, <1>1, <2>1, <2>2 DEF TypeOK, IssueLease
<1>2. CASE Revoke
  <2>1. revoked' \in 0 .. MaxTime /\ revokedMs' \in U64
    BY <1>0, <1>2 DEF Revoke
  <2> QED BY <1>0, <1>2, <2>1 DEF TypeOK, Revoke
<1>3. ASSUME NEW lease \in leases, Accept(lease)
      PROVE  TypeOK'
  <2>1. file' \in StateFile /\ fresh' \in 0 .. MaxLeases
    BY <1>0, <1>3, ConstantFacts DEF Accept, StateFile
  <2> QED BY <1>0, <1>3, <2>1 DEF TypeOK, Accept
<1>4. ASSUME NEW lease \in leases, NEW action \in Asked, OpenAllowed(lease, action)
      PROVE  TypeOK'
  <2>1. UnderLease(lease) \in Nat
    BY <1>0 DEF UnderLease, StateFile
  <2>2. Floored \in StateFile
    BY <1>0, ConstantFacts DEF Floored, StateFile, MaxOf, Times
  <2>3. MaxOf(file.highest_seq_seen, lease.seq) \in 0 .. MaxLeases
    BY <1>0, ConstantFacts DEF MaxOf, StateFile
  <2>4. file' \in StateFile
    <3> DEFINE first == IF file.first_open_at = None THEN wall ELSE file.first_open_at
    <3>1. first \in Times \cup {None} /\ file.opens_so_far + 1 \in Nat
      BY <1>0 DEF StateFile
    <3>2. lease.seq \in 0 .. MaxLeases /\ UnderLease(lease) + 1 \in Nat
      BY <1>0, <2>1, ConstantFacts
    <3>3. file' = [Floored EXCEPT
            !.highest_seq_seen  = MaxOf(file.highest_seq_seen, lease.seq),
            !.opens_so_far      = file.opens_so_far + 1,
            !.counted_seq       = lease.seq,
            !.opens_under_lease = UnderLease(lease) + 1,
            !.first_open_at     = first]
      BY <1>4 DEF OpenAllowed
    <3> HIDE DEF first
    <3> QED BY <2>2, <2>3, <3>1, <3>2, <3>3 DEF StateFile
  <2>5. opened' \in [Seqs -> Nat] /\ total' \in Nat
    <3>1. opened \in [Seqs -> Nat] /\ total \in Nat /\ lease.seq \in Seqs
      BY <1>0 DEF TypeOK, Seqs
    <3> QED BY <3>1, <1>4 DEF OpenAllowed
  <2>6. firstNow' \in Times \cup {None} /\ lastNow' \in Times \cup {None} /\ fresh' \in 0 .. MaxLeases
    BY <1>0, <1>4, ConstantFacts DEF OpenAllowed, TypeOK
  <2> QED BY <1>0, <1>4, <2>4, <2>5, <2>6 DEF TypeOK, OpenAllowed
<1>5. ASSUME NEW lease \in leases, NEW action \in Asked, OpenDenied(lease, action)
      PROVE  TypeOK'
  <2>1. file' \in StateFile /\ fresh' \in 0 .. MaxLeases
    BY <1>0, <1>5, ConstantFacts DEF OpenDenied, Floored, StateFile, MaxOf, Times
  <2> QED BY <1>0, <1>5, <2>1 DEF TypeOK, OpenDenied
<1>6. ASSUME NEW powered \in BOOLEAN, Tick(powered)
      PROVE  TypeOK'
  <2>1. time' \in 0 .. MaxTime /\ wall' \in Times
    BY <1>0, <1>6, ConstantFacts DEF Tick, Times, AccessInv, Clocks
  <2>2. tpm.clock_ms + 1000 \in U64
    BY <1>0, <1>6, ConstantFacts DEF Tick, U64, AccessInv, Clocks
  <2>3. tpm' \in [reset_count : 0 .. MaxResets, clock_ms : U64]
    BY <1>0, <1>6, <2>2 DEF Tick
  <2> QED BY <1>0, <1>6, <2>1, <2>3 DEF TypeOK, Tick
<1>7. CASE Reboot
  <2>1. tpm' \in [reset_count : 0 .. MaxResets, clock_ms : U64] /\ fresh' \in 0 .. MaxLeases
    BY <1>0, <1>7, ConstantFacts DEF Reboot
  <2> QED BY <1>0, <1>7, <2>1 DEF TypeOK, Reboot
<1>8. ASSUME NEW t \in Times, SetWall(t)
      PROVE  TypeOK'
  <2>1. turned' \in BOOLEAN /\ wall' \in Times
    BY <1>8 DEF SetWall
  <2> QED BY <1>0, <1>8, <2>1 DEF TypeOK, SetWall
<1>9. CASE SaveProfile
  BY <1>0, <1>9 DEF TypeOK, SaveProfile
<1>10. CASE RestoreProfile
  <2>1. /\ file' \in StateFile /\ fresh' \in 0 .. MaxLeases /\ restored' \in BOOLEAN
    BY <1>0, <1>10, ConstantFacts DEF TypeOK, RestoreProfile
  <2> QED BY <1>0, <1>10, <2>1 DEF TypeOK, RestoreProfile
<1>11. CASE UNCHANGED vars
  BY <1>0, <1>11 DEF TypeOK, vars
<1> QED BY <1>1, <1>2, <1>3, <1>4, <1>5, <1>6, <1>7, <1>8, <1>9, <1>10, <1>11 DEF Next

-------------------------------------------------------------------------------
(* The strengthening is kept. *)

\* The facts of a state that the steps below start from.
LEMMA StateFacts ==
  ASSUME AccessInv
  PROVE  /\ time \in Int /\ wall \in Int /\ issued \in Int /\ tpm.clock_ms \in Int
         /\ tpm.reset_count \in Int
         /\ wall \in I64
         /\ file.highest_seq_seen \in Int /\ file.counted_seq \in 0 .. MaxLeases
         /\ file.opens_so_far \in Nat /\ file.opens_under_lease \in Nat
         /\ file.monotonic_floor \in Times /\ file.first_open_at \in Times \cup {None}
         /\ \A lease \in leases :
              /\ lease \in LeaseFacts /\ lease # None
              /\ lease.seq \in Seqs /\ lease.issued_at \in I64 /\ lease.expires_at \in I64
              /\ lease.tpm_clock # None =>
                   lease.tpm_clock.clock_ms \in U64 /\ lease.tpm_clock.reset_count \in Nat
<1>1. time \in 0 .. MaxTime /\ wall \in Times /\ issued \in 0 .. MaxLeases
  BY DEF AccessInv, TypeOK
<1>2. tpm \in [reset_count : 0 .. MaxResets, clock_ms : U64] /\ file \in StateFile
  BY DEF AccessInv, TypeOK
<1>3. ASSUME NEW lease \in leases
      PROVE  /\ lease \in LeaseFacts /\ lease # None
             /\ lease.seq \in Seqs /\ lease.issued_at \in I64 /\ lease.expires_at \in I64
             /\ lease.tpm_clock # None =>
                  lease.tpm_clock.clock_ms \in U64 /\ lease.tpm_clock.reset_count \in Nat
  <2>1. lease \in LeaseFacts /\ lease.seq \in 1 .. issued
    BY DEF AccessInv, TypeOK, LeaseHistory
  <2>2. lease # None
    BY <2>1, NoneAssumption
  <2>3. lease.seq \in Seqs
    BY <2>1, <1>1, ConstantFacts DEF Seqs
  <2>4. /\ lease.issued_at \in I64 /\ lease.expires_at \in I64
        /\ lease.tpm_clock \in TpmClock \cup {None}
    BY <2>1 DEF LeaseFacts
  <2> QED BY <2>1, <2>2, <2>3, <2>4 DEF TpmClock
<1>4. wall \in I64
  BY <1>1, ConstantFacts, SessionAssumption DEF Times, I64
<1>5. /\ file.highest_seq_seen \in Int /\ file.counted_seq \in 0 .. MaxLeases
      /\ file.opens_so_far \in Nat /\ file.opens_under_lease \in Nat
      /\ file.monotonic_floor \in Times /\ file.first_open_at \in Times \cup {None}
  BY <1>2, ConstantFacts DEF StateFile
<1>6. time \in Int /\ wall \in Int /\ issued \in Int
  BY <1>1, ConstantFacts
<1>7. tpm.clock_ms \in Int /\ tpm.reset_count \in Int
  BY <1>2, ConstantFacts DEF U64
<1> QED BY <1>3, <1>4, <1>5, <1>6, <1>7

\* Clocks move together but for the user's hand, and hardware time only slower.
LEMMA ClocksStep == AccessInv /\ [Next]_vars => Clocks'
<1> SUFFICES ASSUME AccessInv, [Next]_vars PROVE Clocks'
  OBVIOUS
<1> USE ConstantFacts, StateFacts DEF Clocks, history
<1>0. Clocks
  BY DEF AccessInv
<1>1. ASSUME NEW powered \in BOOLEAN, Tick(powered)
      PROVE  Clocks'
  <2>1. tpm'.clock_ms <= tpm.clock_ms + 1000
    <3>1. tpm \in [reset_count : 0 .. MaxResets, clock_ms : U64]
      BY DEF AccessInv, TypeOK
    <3> QED BY <3>1, <1>1 DEF Tick
  <2>2. tpm'.clock_ms \in Int
    <3>1. tpm \in [reset_count : 0 .. MaxResets, clock_ms : U64]
      BY DEF AccessInv, TypeOK
    <3> QED BY <3>1, <1>1 DEF Tick
  <2> QED BY <1>0, <1>1, <2>1, <2>2 DEF Tick
<1>2. ASSUME NEW t \in Times, SetWall(t)
      PROVE  Clocks'
  BY <1>0, <1>2 DEF SetWall
<1>3. CASE Reboot
  <2>1. tpm'.clock_ms = tpm.clock_ms
    <3>1. tpm \in [reset_count : 0 .. MaxResets, clock_ms : U64]
      BY DEF AccessInv, TypeOK
    <3> QED BY <3>1, <1>3 DEF Reboot
  <2> QED BY <1>0, <1>3, <2>1 DEF Reboot
<1>4. CASE UNCHANGED <<time, wall, tpm, turned>>
  BY <1>0, <1>4
<1> HIDE ConstantFacts, StateFacts DEF Clocks
<1>5. ASSUME NEW d \in Durations, NEW b \in Budgets, NEW p \in Profiles, IssueLease(d, b, p)
      PROVE  Clocks'
  BY <1>4, <1>5 DEF IssueLease
<1>6. ASSUME NEW lease \in leases, Accept(lease)
      PROVE  Clocks'
  BY <1>4, <1>6 DEF Accept
<1>7. ASSUME NEW lease \in leases, NEW action \in Asked, OpenAllowed(lease, action)
      PROVE  Clocks'
  BY <1>4, <1>7 DEF OpenAllowed
<1>8. ASSUME NEW lease \in leases, NEW action \in Asked, OpenDenied(lease, action)
      PROVE  Clocks'
  BY <1>4, <1>8 DEF OpenDenied
<1>9. CASE Revoke \/ SaveProfile \/ RestoreProfile
  BY <1>4, <1>9 DEF Revoke, SaveProfile, RestoreProfile
<1>10. CASE UNCHANGED vars
  BY <1>4, <1>10 DEF vars
<1> QED
  BY <1>1, <1>2, <1>3, <1>5, <1>6, <1>7, <1>8, <1>9, <1>10 DEF Next

\* A lease of the history, as LeaseHistory describes it.
Dated(lease) ==
  /\ lease.seq \in 1 .. issued
  /\ IssuedBefore(lease, time, tpm.clock_ms)
  /\ revoked # None => IssuedBefore(lease, revoked, revokedMs)
  /\ HasTpm <=> lease.tpm_clock # None
  /\ lease.tpm_clock # None =>
       /\ lease.tpm_clock.reset_count <= tpm.reset_count
       /\ tpm.clock_ms - lease.tpm_clock.clock_ms <= (time - lease.issued_at) * 1000

\* Issuing appends a lease dated now, under the next number.
LEMMA HistoryIssue ==
  ASSUME AccessInv, NEW d \in Durations, NEW b \in Budgets, NEW p \in Profiles,
         IssueLease(d, b, p)
  PROVE  LeaseHistory'
<1> DEFINE new == [seq |-> issued + 1, issued_at |-> time,
          expires_at |-> time + d, opens_remaining |-> b,
          revoked |-> FALSE, device_fingerprint |-> Fingerprint,
          policy_hash |-> PolicyHash, server_policy |-> p,
          attested |-> FALSE, tpm_clock |-> LeaseReading]
<1>a. PICK n : n = new
  OBVIOUS
<1>1. /\ leases' = leases \cup {n} /\ issued' = issued + 1 /\ revoked = None
      /\ UNCHANGED <<time, revoked, revokedMs, tpm>>
  BY <1>a DEF IssueLease, history
<1>2. /\ n.seq = issued + 1 /\ n.issued_at = time /\ n.tpm_clock = LeaseReading
  BY <1>a
<1> HIDE DEF new
<1>3. HasTpm <=> LeaseReading # None
  <2>1. tpm \in [reset_count : 0 .. MaxResets, clock_ms : U64]
    BY DEF AccessInv, TypeOK
  <2>2. tpm \in TpmClock
    BY <2>1, ConstantFacts DEF TpmClock
  <2>3. tpm # None
    BY <2>2, NoneAssumption
  <2> QED BY <2>3 DEF LeaseReading
<1>4. LeaseReading # None => LeaseReading = tpm
  BY DEF LeaseReading
<1>5. issued \in Nat /\ time \in Int /\ tpm.clock_ms \in Int /\ tpm.reset_count \in Int
  BY StateFacts, ConstantFacts DEF AccessInv, TypeOK
<1>6. Dated(n)'
  BY <1>1, <1>2, <1>3, <1>4, <1>5 DEF Dated, IssuedBefore
<1>7. \A lease \in leases : Dated(lease)'
  BY <1>1, <1>5 DEF Dated, AccessInv, LeaseHistory, IssuedBefore
<1>8. \A l, m \in leases' : l.seq = m.seq => l = m
  <2>1. \A l \in leases : l.seq \in 1 .. issued
    BY DEF AccessInv, LeaseHistory
  <2>2. \A l, m \in leases : l.seq = m.seq => l = m
    BY DEF AccessInv, LeaseHistory
  <2>3. \A l \in leases : l.seq # n.seq
    BY <2>1, <1>2, <1>5
  <2> QED BY <1>1, <2>2, <2>3
<1>9. revoked' = None <=> revokedMs' = None
  BY <1>1 DEF AccessInv, LeaseHistory
<1> QED BY <1>1, <1>6, <1>7, <1>8, <1>9 DEF LeaseHistory, Dated

\* What was issued stays dated as the clocks move on, and a revocation comes
\* after all of it.
LEMMA HistoryStep == AccessInv /\ [Next]_vars => LeaseHistory'
<1> SUFFICES ASSUME AccessInv, [Next]_vars PROVE LeaseHistory'
  OBVIOUS
<1> USE DEF history
<1>0. /\ LeaseHistory
      /\ tpm \in [reset_count : 0 .. MaxResets, clock_ms : U64]
  BY DEF AccessInv, TypeOK
<1>1. ASSUME NEW d \in Durations, NEW b \in Budgets, NEW p \in Profiles, IssueLease(d, b, p)
      PROVE  LeaseHistory'
  BY <1>1, HistoryIssue
<1>2. CASE Revoke
  <2>1. /\ revoked' = time /\ revokedMs' = tpm.clock_ms
        /\ UNCHANGED <<time, tpm, leases, issued>>
    BY <1>2 DEF Revoke
  <2>2. time # None /\ tpm.clock_ms # None
    BY StateFacts, ConstantFacts
  <2> QED BY <1>0, <2>1, <2>2, StateFacts DEF LeaseHistory, IssuedBefore
<1>3. ASSUME NEW powered \in BOOLEAN, Tick(powered)
      PROVE  LeaseHistory'
  <2>1. /\ time' = time + 1 /\ tpm'.reset_count = tpm.reset_count
        /\ tpm'.clock_ms \in {tpm.clock_ms, tpm.clock_ms + 1000}
        /\ UNCHANGED <<revoked, revokedMs, leases, issued>>
    BY <1>0, <1>3 DEF Tick
  <2>2. revoked \in Int \cup {None} /\ revokedMs \in Int \cup {None}
    BY ConstantFacts DEF AccessInv, TypeOK
  <2>3. \A lease \in leases : lease.issued_at \in Int
        /\ (lease.tpm_clock # None => lease.tpm_clock.clock_ms \in Int
                                      /\ lease.tpm_clock.reset_count \in Int)
    BY StateFacts, ConstantFacts DEF I64, U64
  <2>4. \A lease \in leases : Dated(lease)'
    BY <1>0, <2>1, <2>3, StateFacts DEF LeaseHistory, IssuedBefore, Dated
  <2>5. revoked' # None => revoked' <= time' /\ revokedMs' <= tpm'.clock_ms
    BY <1>0, <2>1, <2>2, StateFacts DEF LeaseHistory
  <2> QED BY <1>0, <2>1, <2>4, <2>5 DEF LeaseHistory, Dated
<1>4. CASE Reboot
  <2>1. /\ tpm'.reset_count = tpm.reset_count + 1 /\ tpm'.clock_ms = tpm.clock_ms
        /\ UNCHANGED <<revoked, revokedMs, leases, issued, time>>
    BY <1>0, <1>4 DEF Reboot
  <2>2. \A lease \in leases :
          lease.tpm_clock # None => lease.tpm_clock.reset_count \in Int
    BY StateFacts
  <2> QED BY <1>0, <2>1, <2>2, StateFacts DEF LeaseHistory, IssuedBefore
<1>5. CASE UNCHANGED <<time, tpm, leases, issued, revoked, revokedMs>>
  BY <1>0, <1>5 DEF LeaseHistory, IssuedBefore
<1>6. ASSUME NEW lease \in leases, Accept(lease)
      PROVE  LeaseHistory'
  BY <1>5, <1>6 DEF Accept
<1>7. ASSUME NEW lease \in leases, NEW action \in Asked, OpenAllowed(lease, action)
      PROVE  LeaseHistory'
  BY <1>5, <1>7 DEF OpenAllowed
<1>8. ASSUME NEW lease \in leases, NEW action \in Asked, OpenDenied(lease, action)
      PROVE  LeaseHistory'
  BY <1>5, <1>8 DEF OpenDenied
<1>9. ASSUME NEW t \in Times, SetWall(t)
      PROVE  LeaseHistory'
  BY <1>5, <1>9 DEF SetWall
<1>10. CASE SaveProfile \/ RestoreProfile
  BY <1>5, <1>10 DEF SaveProfile, RestoreProfile
<1>11. CASE UNCHANGED vars
  BY <1>5, <1>11 DEF vars
<1> QED
  BY <1>1, <1>2, <1>3, <1>4, <1>6, <1>7, <1>8, <1>9, <1>10, <1>11 DEF Next

-------------------------------------------------------------------------------
(* What an allowed opening tells about the state. *)

\* The context evaluate is given is well formed.
LEMMA ContextTyped ==
  ASSUME AccessInv, NEW lease \in leases
  PROVE  ContextFor(lease) \in Contexts
<1>1. wall \in I64 /\ file.highest_seq_seen \in Nat
  BY StateFacts, ConstantFacts DEF AccessInv, TypeOK, StateFile
<1>2. Floored.monotonic_floor \in I64
  <2>1. file \in StateFile
    BY DEF AccessInv, TypeOK
  <2>2. Floored.monotonic_floor = MaxOf(file.monotonic_floor, wall)
    BY <2>1 DEF Floored, StateFile
  <2>3. file.monotonic_floor \in I64
    BY StateFacts, ConstantFacts, SessionAssumption DEF Times, I64
  <2> QED BY <2>2, <2>3, <1>1 DEF MaxOf
<1>3. file.first_open_at \in I64 \cup {None}
  BY StateFacts, ConstantFacts, SessionAssumption DEF Times, I64
<1>4. UnderLease(lease) \in Nat /\ file.opens_so_far \in Nat
  BY StateFacts DEF UnderLease
<1>5. (IF HasTpm THEN Read(tpm.reset_count, tpm.clock_ms) ELSE Absent) \in DeviceClock
  <2>1. tpm.reset_count \in Nat /\ tpm.clock_ms \in U64
    BY ConstantFacts DEF AccessInv, TypeOK
  <2> QED BY <2>1 DEF DeviceClock
<1>6. LocalBinding \in Binding /\ Fingerprint \in Digest /\ PolicyHash \in Digest
  BY SessionAssumption
<1>7. (lease.seq = fresh) \in BOOLEAN
  OBVIOUS
<1> QED BY <1>1, <1>2, <1>3, <1>4, <1>5, <1>6, <1>7 DEF ContextFor, Contexts

\* An allowed opening has passed every check of evaluate.
LEMMA OpenPasses ==
  ASSUME NEW lease, NEW action, Verdict(lease, action) = "Allow"
  PROVE  PassesAll(composed(Author, lease), lease, action, ContextFor(lease))
BY AllowMeansAllChecks DEF Verdict, is_allowed

\* The composed limits are within the author's.
LEMMA ComposedLimits ==
  ASSUME NEW lease \in LeaseFacts
  PROVE  LET p == composed(Author, lease)
         IN  /\ p.max_opens \in Nat \cup {None}
             /\ Author.max_opens # None => p.max_opens # None /\ p.max_opens <= Author.max_opens
             /\ p.network.kind = "Lease" =>
                  /\ Author.network.kind = "Lease"
                  /\ p.network.seconds \in Int /\ Author.network.seconds \in Int
                  /\ p.network.seconds <= Author.network.seconds
<1> DEFINE p == composed(Author, lease)
           s == lease.server_policy
<1>0. Author \in Policies /\ lease # None /\ (s = None \/ s \in Policies)
  BY SessionAssumption, NoneAssumption DEF LeaseFacts
<1>1. CASE s = None
  <2>1. p = Author
    BY <1>1 DEF composed
  <2>2. Author.max_opens \in Nat \cup {None} /\ Author.network \in Network
    BY <1>0, PolicyShape
  <2>3. Author.network.kind = "Lease" => Author.network.seconds \in Int
    BY <2>2, NetworkShape
  <2> QED BY <2>1, <2>2, <2>3, ConstantFacts
<1>2. CASE s # None
  <2>1. s \in Policies /\ p = intersect(Author, s)
    BY <1>0, <1>2 DEF composed
  <2> HIDE DEF p, s
  <2>2. /\ p.max_opens = tighten_opens(Author.max_opens, s.max_opens)
        /\ p.network = tighten_network(Author.network, s.network)
    BY <2>1 DEF intersect
  <2>3. /\ Author.max_opens \in Nat \cup {None} /\ s.max_opens \in Nat \cup {None}
        /\ Author.network \in Network /\ s.network \in Network
    BY <1>0, <2>1, PolicyShape
  <2>4. /\ p.max_opens \in Nat \cup {None}
        /\ Author.max_opens # None => p.max_opens # None /\ p.max_opens <= Author.max_opens
    BY <2>2, <2>3, ConstantFacts DEF tighten_opens, MinOf
  <2>5. p.network.kind = "Lease" =>
          /\ Author.network.kind = "Lease"
          /\ p.network.seconds \in Int /\ Author.network.seconds \in Int
          /\ p.network.seconds <= Author.network.seconds
    BY <2>2, <2>3, NetworkTightens, NetworkShape
  <2> QED BY <2>4, <2>5 DEF p
<1> QED BY <1>1, <1>2

\* The checks on number and budget, in terms of the state file.
LEMMA OpenCounts ==
  ASSUME AccessInv, NEW lease \in leases, NEW action,
         Verdict(lease, action) = "Allow"
  PROVE  /\ lease.seq >= file.highest_seq_seen
         /\ lease.opens_remaining # None => UnderLease(lease) < lease.opens_remaining
         /\ Author.max_opens # None => file.opens_so_far < Author.max_opens
<1> DEFINE ctx == ContextFor(lease)
           p == composed(Author, lease)
<1>1. /\ ctx.highest_seq_seen = file.highest_seq_seen
      /\ ctx.opens_under_lease = UnderLease(lease) /\ ctx.opens_so_far = file.opens_so_far
  BY DEF ContextFor
<1>2. LeaseChecks(lease, ctx) /\ ~OpensUsedUp(p, lease, ctx)
  BY OpenPasses DEF PassesAll
<1> HIDE DEF ctx, p
<1>3. lease.seq \in Int /\ file.highest_seq_seen \in Int /\ file.opens_so_far \in Nat
      /\ UnderLease(lease) \in Nat /\ lease.opens_remaining \in Nat \cup {None}
  BY StateFacts, ConstantFacts DEF Seqs, UnderLease, LeaseFacts
<1>4. lease.seq >= file.highest_seq_seen
  BY <1>1, <1>2, <1>3 DEF LeaseChecks
<1>5. lease.opens_remaining # None => UnderLease(lease) < lease.opens_remaining
  BY <1>1, <1>2, <1>3, ConstantFacts DEF OpensUsedUp
<1>6. p.max_opens \in Nat \cup {None} /\
      (Author.max_opens # None => p.max_opens # None /\ p.max_opens <= Author.max_opens)
  BY StateFacts, ComposedLimits DEF p
<1>7. Author.max_opens \in Nat \cup {None}
  BY SessionAssumption, PolicyShape
<1>8. Author.max_opens # None => file.opens_so_far < Author.max_opens
  BY <1>1, <1>2, <1>3, <1>6, <1>7, ConstantFacts DEF OpensUsedUp
<1> QED BY <1>4, <1>5, <1>8

\* Restarting the count for a new number loses nothing: the number is above
\* every one counted before.
LEMMA CountAgrees ==
  ASSUME AccessInv, ~restored, NEW lease \in leases, lease.seq >= file.highest_seq_seen
  PROVE  opened[lease.seq] = UnderLease(lease)
<1>1. lease.seq \in Seqs /\ file.counted_seq \in Int /\ file.highest_seq_seen \in Int
  BY StateFacts DEF Seqs
<1>2. /\ file.counted_seq <= file.highest_seq_seen
      /\ file.counted_seq \in Seqs => opened[file.counted_seq] = file.opens_under_lease
      /\ \A n \in Seqs : n > file.counted_seq => opened[n] = 0
  BY DEF AccessInv, Counting
<1>3. CASE file.counted_seq = lease.seq
  BY <1>1, <1>2, <1>3 DEF UnderLease
<1>4. CASE file.counted_seq # lease.seq
  BY <1>1, <1>2, <1>4 DEF UnderLease, Seqs
<1> QED BY <1>3, <1>4

\* The file an allowed opening leaves behind.
LEMMA FileAfterOpen ==
  ASSUME AccessInv, NEW lease \in leases, NEW action \in Asked, OpenAllowed(lease, action)
  PROVE  /\ file'.monotonic_floor = MaxOf(file.monotonic_floor, wall)
         /\ file'.highest_seq_seen = MaxOf(file.highest_seq_seen, lease.seq)
         /\ file'.opens_so_far = file.opens_so_far + 1
         /\ file'.counted_seq = lease.seq
         /\ file'.opens_under_lease = UnderLease(lease) + 1
         /\ file'.first_open_at
              = IF file.first_open_at = None THEN wall ELSE file.first_open_at
<1>1. file \in StateFile
  BY DEF AccessInv, TypeOK
<1>2. Floored = [file EXCEPT !.monotonic_floor = MaxOf(file.monotonic_floor, wall)]
  BY DEF Floored
<1>3. Floored \in [monotonic_floor : {MaxOf(file.monotonic_floor, wall)},
                   highest_seq_seen : 0 .. MaxLeases,
                   opens_so_far : Nat, counted_seq : 0 .. MaxLeases,
                   opens_under_lease : Nat, first_open_at : Times \cup {None}]
  BY <1>1, <1>2 DEF StateFile
<1> QED BY <1>3 DEF OpenAllowed

\* The state file keeps agreeing with the history.
LEMMA CountingStep == AccessInv /\ [Next]_vars => Counting'
<1> SUFFICES ASSUME AccessInv, [Next]_vars PROVE Counting'
  OBVIOUS
<1> USE DEF history
<1>0. Counting /\ file \in StateFile /\ opened \in [Seqs -> Nat]
  BY DEF AccessInv, TypeOK
<1>1. ASSUME NEW lease \in leases, NEW action \in Asked, OpenAllowed(lease, action)
      PROVE  Counting'
  <2> SUFFICES ASSUME ~restored'
               PROVE  /\ total' = file'.opens_so_far
                      /\ file'.counted_seq <= file'.highest_seq_seen /\ file'.counted_seq <= issued'
                      /\ file'.counted_seq \in Seqs =>
                           opened'[file'.counted_seq] = file'.opens_under_lease
                      /\ \A n \in Seqs : n > file'.counted_seq => opened'[n] = 0
                      /\ firstNow' = file'.first_open_at
                      /\ ~turned' => file'.monotonic_floor <= wall'
    BY DEF Counting
  <2>1. /\ restored' = restored /\ turned' = turned /\ wall' = wall
        /\ opened' = [opened EXCEPT ![lease.seq] = opened[lease.seq] + 1]
        /\ total' = total + 1
        /\ firstNow' = IF firstNow = None THEN wall ELSE firstNow
        /\ Verdict(lease, action) = "Allow"
    BY <1>1 DEF OpenAllowed
  <2>2. /\ ~restored /\ lease.seq \in Seqs /\ lease.seq \in Int
        /\ file.highest_seq_seen \in Int /\ file.counted_seq \in Int
        /\ wall \in Int /\ file.monotonic_floor \in Int
    BY <2>1, StateFacts, ConstantFacts DEF Seqs, Times
  <2>3. lease.seq >= file.highest_seq_seen
    BY <2>1, OpenCounts
  <2>4. opened[lease.seq] = UnderLease(lease)
    BY <2>2, <2>3, CountAgrees
  <2>5. /\ total = file.opens_so_far /\ file.counted_seq <= file.highest_seq_seen
        /\ \A n \in Seqs : n > file.counted_seq => opened[n] = 0
        /\ firstNow = file.first_open_at
        /\ ~turned => file.monotonic_floor <= wall
    BY <1>0, <2>2 DEF Counting
  <2>6. total' = file'.opens_so_far /\ firstNow' = file'.first_open_at
    BY <1>1, <2>1, <2>5, FileAfterOpen
  <2>7. file'.counted_seq <= file'.highest_seq_seen /\ file'.counted_seq <= issued'
    <3>1. issued' = issued /\ lease.seq <= issued /\ issued \in Int
      BY <1>1, StateFacts DEF OpenAllowed, AccessInv, LeaseHistory
    <3> QED BY <1>1, <2>2, <3>1, FileAfterOpen DEF MaxOf
  <2>8. opened'[file'.counted_seq] = file'.opens_under_lease
    BY <1>0, <1>1, <2>1, <2>2, <2>4, FileAfterOpen
  <2>9. \A n \in Seqs : n > file'.counted_seq => opened'[n] = 0
    <3> SUFFICES ASSUME NEW n \in Seqs, n > file'.counted_seq PROVE opened'[n] = 0
      OBVIOUS
    <3>1. n > lease.seq /\ n \in Int
      BY <1>1, FileAfterOpen DEF Seqs
    <3>2. n > file.counted_seq
      BY <2>2, <2>3, <2>5, <3>1
    <3> QED BY <1>0, <2>1, <2>2, <2>5, <3>1, <3>2
  <2>10. ~turned' => file'.monotonic_floor <= wall'
    BY <1>1, <2>1, <2>2, <2>5, FileAfterOpen DEF MaxOf
  <2> QED BY <2>6, <2>7, <2>8, <2>9, <2>10
<1>2. ASSUME NEW lease \in leases, NEW action \in Asked, OpenDenied(lease, action)
      PROVE  Counting'
  <2>1. /\ file' = [file EXCEPT !.monotonic_floor = MaxOf(file.monotonic_floor, wall)]
        /\ UNCHANGED <<issued, wall, turned, restored, opened, total, firstNow>>
    BY <1>2 DEF OpenDenied, Floored
  <2>2. /\ file'.monotonic_floor = MaxOf(file.monotonic_floor, wall)
        /\ file'.opens_so_far = file.opens_so_far
        /\ file'.counted_seq = file.counted_seq
        /\ file'.highest_seq_seen = file.highest_seq_seen
        /\ file'.opens_under_lease = file.opens_under_lease
        /\ file'.first_open_at = file.first_open_at
    BY <1>0, <2>1 DEF StateFile
  <2>3. wall \in Int /\ file.monotonic_floor \in Int
    BY StateFacts, ConstantFacts
  <2> QED BY <1>0, <2>1, <2>2, <2>3 DEF Counting, MaxOf
<1>3. ASSUME NEW lease \in leases, Accept(lease)
      PROVE  Counting'
  <2>1. /\ file'.highest_seq_seen = lease.seq
        /\ file'.monotonic_floor = file.monotonic_floor
        /\ file'.opens_so_far = file.opens_so_far
        /\ file'.counted_seq = file.counted_seq
        /\ file'.opens_under_lease = file.opens_under_lease
        /\ file'.first_open_at = file.first_open_at
    BY <1>0, <1>3 DEF Accept, StateFile
  <2>2. /\ lease.seq > file.highest_seq_seen
        /\ UNCHANGED <<issued, wall, turned, restored, opened, total, firstNow>>
    BY <1>3 DEF Accept
  <2>3. lease.seq \in Int /\ file.highest_seq_seen \in Int /\ file.counted_seq \in Int
    BY StateFacts DEF Seqs
  <2> QED BY <1>0, <2>1, <2>2, <2>3 DEF Counting
<1>4. ASSUME NEW powered \in BOOLEAN, Tick(powered)
      PROVE  Counting'
  <2>1. /\ wall' = wall + 1
        /\ UNCHANGED <<issued, file, turned, restored, opened, total, firstNow>>
    BY <1>4 DEF Tick
  <2>2. wall \in Int /\ file.monotonic_floor \in Int
    BY StateFacts, ConstantFacts
  <2> QED BY <1>0, <2>1, <2>2 DEF Counting
<1>5. ASSUME NEW t \in Times, SetWall(t)
      PROVE  Counting'
  BY <1>0, <1>5 DEF SetWall, Counting
<1>6. CASE RestoreProfile
  BY <1>6 DEF RestoreProfile, Counting
<1>7. CASE UNCHANGED <<issued, file, wall, turned, restored, opened, total, firstNow>>
  BY <1>0, <1>7 DEF Counting
<1>8. ASSUME NEW d \in Durations, NEW b \in Budgets, NEW p \in Profiles, IssueLease(d, b, p)
      PROVE  Counting'
  <2>1. /\ issued' = issued + 1
        /\ UNCHANGED <<file, wall, turned, restored, opened, total, firstNow>>
    BY <1>8 DEF IssueLease
  <2>2. issued \in Int /\ file.counted_seq \in Int
    BY StateFacts
  <2> QED BY <1>0, <2>1, <2>2 DEF Counting
<1>9. CASE Revoke \/ Reboot \/ SaveProfile
  BY <1>7, <1>9 DEF Revoke, Reboot, SaveProfile
<1>10. CASE UNCHANGED vars
  BY <1>7, <1>10 DEF vars
<1> QED
  BY <1>1, <1>2, <1>3, <1>4, <1>5, <1>6, <1>8, <1>9, <1>10 DEF Next

\* The invariant holds of every behaviour of the specification.
LEMMA Invariance == Spec => []AccessInv
<1>1. AccessInv /\ [Next]_vars => AccessInv'
  BY TypeStep, ClocksStep, HistoryStep, CountingStep DEF AccessInv
<1> QED BY InitEstablishes, <1>1, PTL DEF Spec

-------------------------------------------------------------------------------
(* The theorems. *)

\* The variables of AccessSession keep their types.
THEOREM TypeCorrect == Spec => []TypeOK
BY Invariance, PTL DEF AccessInv

\* The time checks of an allowed opening, in terms of the clocks: hardware and
\* wall time since the lease was issued, both within the author's term.
LEMMA OpenTimes ==
  ASSUME AccessInv, NEW lease \in leases, NEW action,
         Verdict(lease, action) = "Allow", UnderLeaseTerm(lease)
  PROVE  /\ Author.network.seconds \in Int
         /\ wall - lease.issued_at <= Author.network.seconds \/ Author.network.seconds >= MaxI64
         /\ lease.tpm_clock # None =>
              tpm.clock_ms - lease.tpm_clock.clock_ms
                <= (Author.network.seconds + MAX_CLOCK_SKEW_SECONDS) * 1000
<1> DEFINE ctx == ContextFor(lease)
           p == composed(Author, lease)
           elapsed == SatI64(wall - lease.issued_at)
           granted == SatI64(lease.expires_at - lease.issued_at)
<1>1. /\ ctx.now = wall
      /\ HasTpm => ctx.tpm_clock = Read(tpm.reset_count, tpm.clock_ms)
  BY DEF ContextFor
<1>2. /\ ~OutlivesPolicy(p, lease) /\ ~OutranWallClock(lease, ctx)
      /\ ~(ctx.now > lease.expires_at)
  BY OpenPasses DEF PassesAll, TermChecks
<1>3. /\ lease \in LeaseFacts /\ wall \in Int /\ lease.issued_at \in Int
      /\ lease.expires_at \in Int /\ tpm.clock_ms \in Int
      /\ MAX_CLOCK_SKEW_SECONDS \in Nat
  BY StateFacts, ConstantFacts DEF I64
<1>4. /\ p.network.kind = "Lease" /\ p.network.seconds \in Int
      /\ Author.network.seconds \in Int /\ p.network.seconds <= Author.network.seconds
  BY <1>3, ComposedLimits DEF UnderLeaseTerm
<1> HIDE DEF ctx, p
<1>5. /\ elapsed \in Int /\ granted \in Int /\ elapsed <= granted
  <2>1. wall - lease.issued_at <= lease.expires_at - lease.issued_at
    BY <1>1, <1>2, <1>3
  <2> QED BY <2>1, <1>3, SatI64Facts
<1>6. granted >= 0 /\ granted <= p.network.seconds
  BY <1>2, <1>3, <1>4, <1>5 DEF OutlivesPolicy
<1>7. elapsed <= Author.network.seconds /\ Author.network.seconds >= 0
  BY <1>4, <1>5, <1>6
<1>8. wall - lease.issued_at <= Author.network.seconds \/ Author.network.seconds >= MaxI64
  BY <1>3, <1>4, <1>7, ConstantFacts DEF SatI64
<1>9. ASSUME lease.tpm_clock # None
      PROVE  tpm.clock_ms - lease.tpm_clock.clock_ms
               <= (Author.network.seconds + MAX_CLOCK_SKEW_SECONDS) * 1000
  <2>1. HasTpm /\ lease.tpm_clock.clock_ms <= tpm.clock_ms
    BY <1>9 DEF AccessInv, LeaseHistory, IssuedBefore
  <2>2. ctx.tpm_clock.kind = "Read" /\ ctx.tpm_clock.clock_ms = tpm.clock_ms
    BY <1>1, <2>1 DEF Read
  <2>3. lease.tpm_clock.clock_ms \in U64 /\ tpm.clock_ms \in U64
    BY <1>9, StateFacts DEF AccessInv, TypeOK
  <2>4. HardwareElapsed(lease, ctx) = tpm.clock_ms - lease.tpm_clock.clock_ms
    <3>1. tpm.clock_ms - lease.tpm_clock.clock_ms \in U64
      BY <2>1, <2>3, ConstantFacts DEF U64
    <3> QED BY <2>2, <3>1, <1>3, SatU64Facts, ConstantFacts DEF HardwareElapsed, U64
  <2>5. WallElapsed(lease, ctx) = SatU64(elapsed * 1000)
    BY <1>1 DEF WallElapsed
  <2> HIDE DEF elapsed, granted
  <2>6. /\ SatU64(elapsed * 1000) \in Int
        /\ SatU64(elapsed * 1000) <= Author.network.seconds * 1000
    <3>1. /\ SatU64(elapsed * 1000) <= SatU64(Author.network.seconds * 1000)
          /\ SatU64(Author.network.seconds * 1000) <= Author.network.seconds * 1000
          /\ SatU64(elapsed * 1000) \in Int
          /\ SatU64(Author.network.seconds * 1000) \in Int
      <4>1. elapsed * 1000 <= Author.network.seconds * 1000
            /\ Author.network.seconds * 1000 >= 0
            /\ elapsed * 1000 \in Int /\ Author.network.seconds * 1000 \in Int
        BY <1>4, <1>5, <1>7
      <4> QED BY <4>1, SatU64Facts
    <3> QED BY <3>1, <1>4
  <2>7. /\ SatU64(MAX_CLOCK_SKEW_SECONDS * 1000) \in Int
        /\ SatU64(MAX_CLOCK_SKEW_SECONDS * 1000) <= MAX_CLOCK_SKEW_SECONDS * 1000
        /\ SatU64(MAX_CLOCK_SKEW_SECONDS * 1000) >= 0
    BY <1>3, ConstantFacts DEF SatU64
  <2>8. SatU64(elapsed * 1000) >= 0
    BY <1>5, ConstantFacts DEF SatU64
  <2>9. HardwareElapsed(lease, ctx) <=
          SatU64(SatU64(elapsed * 1000) + SatU64(MAX_CLOCK_SKEW_SECONDS * 1000))
    <3>1. HardwareElapsed(lease, ctx) \in Int
      BY <2>4, <1>3, <2>3, ConstantFacts DEF U64
    <3>2. SatU64(SatU64(elapsed * 1000) + SatU64(MAX_CLOCK_SKEW_SECONDS * 1000)) \in Int
      BY <2>6, <2>7, SatU64Facts
    <3> QED BY <1>2, <1>9, <2>2, <2>5, <3>1, <3>2 DEF OutranWallClock
  <2>10. SatU64(SatU64(elapsed * 1000) + SatU64(MAX_CLOCK_SKEW_SECONDS * 1000))
           <= SatU64(elapsed * 1000) + SatU64(MAX_CLOCK_SKEW_SECONDS * 1000)
    BY <2>6, <2>7, <2>8, SatU64Facts
  <2>11. SatU64(SatU64(elapsed * 1000) + SatU64(MAX_CLOCK_SKEW_SECONDS * 1000)) \in Int
    BY <2>6, <2>7, SatU64Facts
  <2>12. tpm.clock_ms - lease.tpm_clock.clock_ms \in Int
    BY <1>3, <2>3, ConstantFacts DEF U64
  <2> QED BY <2>4, <2>6, <2>7, <2>9, <2>10, <2>11, <2>12, <1>3, <1>4
<1> QED BY <1>4, <1>8, <1>9

\* A revocation reaches the device: a lease with hardware time opens the file
\* for the author's lease term and the skew of running time at most, whatever
\* is done to the system clock and the state file.
THEOREM RevocationBounded == Spec => []RevocationReachesTheDevice
<1>1. AccessInv => RevocationReachesTheDevice
  <2> SUFFICES ASSUME AccessInv, revoked # None, NEW lease \in leases, MayOpen(lease),
                      lease.tpm_clock # None, UnderLeaseTerm(lease)
               PROVE  tpm.clock_ms - revokedMs
                        <= (Author.network.seconds + MAX_CLOCK_SKEW_SECONDS) * 1000
    BY DEF RevocationReachesTheDevice
  <2>1. PICK action \in Asked : Verdict(lease, action) = "Allow"
    BY DEF MayOpen
  <2>2. /\ Author.network.seconds \in Int
        /\ tpm.clock_ms - lease.tpm_clock.clock_ms
             <= (Author.network.seconds + MAX_CLOCK_SKEW_SECONDS) * 1000
    BY <2>1, OpenTimes
  <2>3. lease.tpm_clock.clock_ms <= revokedMs /\ revokedMs # None
    BY DEF AccessInv, LeaseHistory, IssuedBefore
  <2>4. revokedMs \in Int /\ tpm.clock_ms \in Int /\ lease.tpm_clock.clock_ms \in Int
    BY <2>3, StateFacts, ConstantFacts DEF AccessInv, TypeOK, U64
  <2> QED BY <2>2, <2>3, <2>4, ConstantFacts
<1> QED BY Invariance, <1>1, PTL

\* On a device whose clock is left alone the bound holds in real time.
THEOREM RevocationBoundedHonest == Spec => []RevocationLagHonest
<1>1. AccessInv => RevocationLagHonest
  <2> SUFFICES ASSUME AccessInv, revoked # None, ~turned, NEW lease \in leases,
                      MayOpen(lease), UnderLeaseTerm(lease)
               PROVE  time - revoked <= Author.network.seconds + MAX_CLOCK_SKEW_SECONDS
    BY DEF RevocationLagHonest
  <2>1. PICK action \in Asked : Verdict(lease, action) = "Allow"
    BY DEF MayOpen
  <2>2. /\ Author.network.seconds \in Int
        /\ wall - lease.issued_at <= Author.network.seconds \/ Author.network.seconds >= MaxI64
    BY <2>1, OpenTimes
  <2>3. lease.issued_at <= revoked /\ time <= wall + MAX_CLOCK_SKEW_SECONDS
    BY DEF AccessInv, LeaseHistory, IssuedBefore, Clocks
  <2>4. /\ revoked \in Nat /\ time \in Int /\ time <= MaxTime /\ wall \in Int
        /\ lease.issued_at \in Int
    BY StateFacts, ConstantFacts DEF AccessInv, TypeOK, I64
  <2>5. MaxTime + MAX_CLOCK_SKEW_SECONDS <= MaxI64
    BY SessionAssumption
  <2> QED BY <2>2, <2>3, <2>4, <2>5, ConstantFacts
<1> QED BY Invariance, <1>1, PTL

\* A lease below one already used opens nothing again.
THEOREM OldLeasesDead == Spec => []OldLeasesStayDead
<1>1. AccessInv => OldLeasesStayDead
  <2> SUFFICES ASSUME AccessInv, ~restored, NEW lease \in leases, MayOpen(lease),
                      NEW n \in Seqs, n > lease.seq
               PROVE  opened[n] = 0
    BY DEF OldLeasesStayDead
  <2>1. PICK action \in Asked : Verdict(lease, action) = "Allow"
    BY DEF MayOpen
  <2>2. lease.seq >= file.highest_seq_seen
    BY <2>1, OpenCounts
  <2>3. /\ file.counted_seq <= file.highest_seq_seen
        /\ \A m \in Seqs : m > file.counted_seq => opened[m] = 0
    BY DEF AccessInv, Counting
  <2>4. lease.seq \in Int /\ file.highest_seq_seen \in Int /\ file.counted_seq \in Int /\ n \in Int
    BY StateFacts DEF Seqs
  <2> QED BY <2>2, <2>3, <2>4
<1> QED BY Invariance, <1>1, PTL

\* The server's profile never allows what the author's policy alone denies,
\* but for a profile that turns a lease term into StrictOnline.
THEOREM ServerNarrows == Spec => []ServerNeverWidens
<1>1. AccessInv => ServerNeverWidens
  <2> SUFFICES ASSUME AccessInv, NEW lease \in leases, NEW action \in Asked,
                      Verdict(lease, action) = "Allow",
                      composed(Author, lease).network.kind = Author.network.kind
               PROVE  evaluate(Author, Untightened(lease), action, ContextFor(lease)) = "Allow"
    BY DEF ServerNeverWidens
  <2>1. Author \in Policies /\ action \in Action
    BY SessionAssumption
  <2>2. lease \in LeaseFacts /\ ContextFor(lease) \in Contexts
    BY StateFacts, ContextTyped
  <2>3. is_allowed(Author, lease, action, ContextFor(lease))
    BY DEF Verdict, is_allowed
  <2>4. is_allowed(Author, [lease EXCEPT !.server_policy = None], action, ContextFor(lease))
    BY <2>1, <2>2, <2>3, TighteningNeverWidens
  <2> QED BY <2>4 DEF is_allowed, Untightened
<1> QED BY Invariance, <1>1, PTL

\* No lease is opened beyond its budget, nor the file beyond the author's
\* limit, unless an older state file was put back.
THEOREM LimitsHold == Spec => []OpensWithinLimits
<1>1. Init => OpensWithinLimits
  <2> SUFFICES ASSUME Init PROVE OpensWithinLimits
    OBVIOUS
  <2>1. total = 0 /\ leases = {}
    BY DEF Init
  <2>2. Author.max_opens \in Nat \cup {None}
    BY SessionAssumption, PolicyShape
  <2> QED BY <2>1, <2>2 DEF OpensWithinLimits
<1>2. AccessInv /\ OpensWithinLimits /\ [Next]_vars => OpensWithinLimits'
  <2> SUFFICES ASSUME AccessInv, OpensWithinLimits, [Next]_vars PROVE OpensWithinLimits'
    OBVIOUS
  <2> USE DEF history
  <2>1. ASSUME NEW lease \in leases, NEW action \in Asked, OpenAllowed(lease, action)
        PROVE  OpensWithinLimits'
    <3>1. /\ Verdict(lease, action) = "Allow" /\ total' = total + 1
          /\ opened' = [opened EXCEPT ![lease.seq] = opened[lease.seq] + 1]
          /\ UNCHANGED <<leases, restored>>
      BY <2>1 DEF OpenAllowed
    <3> SUFFICES ASSUME ~restored'
                 PROVE  /\ \A l \in leases :
                             l.opens_remaining # None => opened'[l.seq] <= l.opens_remaining
                        /\ Author.max_opens # None => total' <= Author.max_opens
      BY <3>1 DEF OpensWithinLimits
    <3>2. /\ lease.seq >= file.highest_seq_seen
          /\ lease.opens_remaining # None => UnderLease(lease) < lease.opens_remaining
          /\ Author.max_opens # None => file.opens_so_far < Author.max_opens
      BY <3>1, OpenCounts
    <3>3. opened[lease.seq] = UnderLease(lease) /\ total = file.opens_so_far
      BY <3>1, <3>2, CountAgrees DEF AccessInv, Counting
    <3>4. Author.max_opens \in Nat \cup {None} /\ file.opens_so_far \in Nat
      BY SessionAssumption, PolicyShape, StateFacts
    <3>5. Author.max_opens # None => total' <= Author.max_opens
      BY <3>1, <3>2, <3>3, <3>4
    <3>6. ASSUME NEW l \in leases, l.opens_remaining # None
          PROVE  opened'[l.seq] <= l.opens_remaining
      <4>1. l.seq \in Seqs /\ opened \in [Seqs -> Nat] /\ l.opens_remaining \in Nat
        BY <3>6, StateFacts DEF AccessInv, TypeOK, LeaseFacts
      <4>2. CASE l = lease
        BY <4>1, <4>2, <3>1, <3>2, <3>3, <3>6
      <4>3. CASE l # lease
        <5>1. l.seq # lease.seq
          BY <4>3 DEF AccessInv, LeaseHistory
        <5>2. opened'[l.seq] = opened[l.seq]
          BY <3>1, <4>1, <5>1
        <5> QED BY <5>2, <3>1, <3>6 DEF OpensWithinLimits
      <4> QED BY <4>2, <4>3
    <3> QED BY <3>5, <3>6
  <2>2. ASSUME NEW d \in Durations, NEW b \in Budgets, NEW p \in Profiles, IssueLease(d, b, p)
        PROVE  OpensWithinLimits'
    <3>1. PICK n : n.seq = issued + 1 /\ n.opens_remaining = b /\ leases' = leases \cup {n}
      BY <2>2 DEF IssueLease
    <3>2. UNCHANGED <<restored, opened, total>> /\ issued < MaxLeases
      BY <2>2 DEF IssueLease
    <3>3. b \in Nat \cup {None}
      BY SessionAssumption
    <3>4. ~restored => opened[issued + 1] = 0
      <4>1. issued \in 0 .. MaxLeases /\ issued + 1 \in Seqs
        BY <3>2, ConstantFacts DEF AccessInv, TypeOK, Seqs
      <4>2. ~restored => /\ file.counted_seq <= issued
                         /\ \A k \in Seqs : k > file.counted_seq => opened[k] = 0
        BY DEF AccessInv, Counting
      <4>3. file.counted_seq \in Int
        BY StateFacts
      <4> QED BY <4>1, <4>2, <4>3
    <3> QED BY <3>1, <3>2, <3>3, <3>4 DEF OpensWithinLimits
  <2>3. CASE RestoreProfile
    BY <2>3 DEF RestoreProfile, OpensWithinLimits
  <2>4. CASE UNCHANGED <<restored, opened, total, leases>>
    BY <2>4 DEF OpensWithinLimits
  <2>5. ASSUME NEW lease \in leases, Accept(lease)
        PROVE  OpensWithinLimits'
    BY <2>4, <2>5 DEF Accept
  <2>6. ASSUME NEW lease \in leases, NEW action \in Asked, OpenDenied(lease, action)
        PROVE  OpensWithinLimits'
    BY <2>4, <2>6 DEF OpenDenied
  <2>7. ASSUME NEW powered \in BOOLEAN, Tick(powered)
        PROVE  OpensWithinLimits'
    BY <2>4, <2>7 DEF Tick
  <2>8. ASSUME NEW t \in Times, SetWall(t)
        PROVE  OpensWithinLimits'
    BY <2>4, <2>8 DEF SetWall
  <2>9. CASE Revoke \/ Reboot \/ SaveProfile
    BY <2>4, <2>9 DEF Revoke, Reboot, SaveProfile
  <2>10. CASE UNCHANGED vars
    BY <2>4, <2>10 DEF vars
  <2> QED
    BY <2>1, <2>2, <2>3, <2>5, <2>6, <2>7, <2>8, <2>9, <2>10 DEF Next
<1> QED BY Invariance, <1>1, <1>2, PTL DEF Spec

-------------------------------------------------------------------------------
(* No false alarm. *)

\* Milliseconds of hardware time that do not exceed the wall clock's seconds
\* and the slack pass the saturating comparison of evaluate.
LEMMA WithinSlack ==
  ASSUME NEW hw \in U64, NEW w \in Int,
         hw <= (w + MAX_CLOCK_SKEW_SECONDS) * 1000, hw <= MaxI64 * 1000
  PROVE  hw <= SatU64(SatU64(SatI64(w) * 1000) + SatU64(MAX_CLOCK_SKEW_SECONDS * 1000))
<1> DEFINE e == SatI64(w)
<1>0. /\ MAX_CLOCK_SKEW_SECONDS \in Nat /\ MaxU64 \in Nat /\ MaxI64 \in Nat /\ hw \in Nat
      /\ hw <= MaxU64
  BY ConstantFacts DEF U64
<1>1. e \in Int /\ (e >= 0 => e = w \/ e = MaxI64) /\ (e < 0 => w < 0)
  BY <1>0, ConstantFacts, SatI64Facts DEF SatI64, MinI64
<1> HIDE DEF e
<1>2. hw <= e * 1000 + MAX_CLOCK_SKEW_SECONDS * 1000 \/ hw <= MAX_CLOCK_SKEW_SECONDS * 1000
  BY <1>0, <1>1
<1>3. PICK x \in Int, y \in Int : x = e * 1000 /\ y = MAX_CLOCK_SKEW_SECONDS * 1000 /\ y >= 0
  BY <1>0, <1>1
<1>4. hw <= SatU64(SatU64(x) + SatU64(y))
  BY <1>0, <1>2, <1>3 DEF SatU64
<1> QED BY <1>3, <1>4 DEF e

\* The clocks of a device that was left alone give no check of evaluate's
\* cause to speak of a rollback.
LEMMA HonestClocks ==
  ASSUME AccessInv, ~turned, ~restored, NEW lease \in leases
  PROVE  LET ctx == ContextFor(lease)
         IN  /\ ~ClockRolledBack(ctx) /\ ~TpmMissing(lease, ctx)
             /\ ~TpmRolledBack(lease, ctx) /\ ~IssuedInTheFuture(lease, ctx)
             /\ ~OutranWallClock(lease, ctx)
<1> DEFINE ctx == ContextFor(lease)
<1>1. /\ ctx.now = wall /\ ctx.monotonic_floor = Floored.monotonic_floor
      /\ HasTpm => ctx.tpm_clock = Read(tpm.reset_count, tpm.clock_ms)
  BY DEF ContextFor
<1> HIDE DEF ctx
<1>2. /\ wall \in Int /\ time \in Int /\ lease.issued_at \in Int
      /\ MAX_CLOCK_SKEW_SECONDS \in Nat
      /\ file.monotonic_floor \in Int /\ file.monotonic_floor <= wall
      /\ file \in StateFile
      /\ tpm.clock_ms \in U64 /\ tpm.reset_count \in Int
  BY StateFacts, ConstantFacts DEF I64, Times, AccessInv, Counting, TypeOK
<1>3. /\ lease.issued_at <= time /\ time <= wall + MAX_CLOCK_SKEW_SECONDS
      /\ tpm.clock_ms <= (time - MAX_CLOCK_SKEW_SECONDS) * 1000 /\ time <= MaxTime
      /\ HasTpm <=> lease.tpm_clock # None
  BY ConstantFacts DEF AccessInv, LeaseHistory, IssuedBefore, Clocks, TypeOK
<1>4. ASSUME lease.tpm_clock # None
      PROVE  /\ ctx.tpm_clock.kind = "Read" /\ ctx.tpm_clock.clock_ms = tpm.clock_ms
             /\ ctx.tpm_clock.reset_count = tpm.reset_count
             /\ lease.tpm_clock.clock_ms \in U64 /\ lease.tpm_clock.reset_count \in Int
             /\ lease.tpm_clock.clock_ms <= tpm.clock_ms
             /\ lease.tpm_clock.reset_count <= tpm.reset_count
             /\ tpm.clock_ms - lease.tpm_clock.clock_ms <= (time - lease.issued_at) * 1000
  <2>1. ctx.tpm_clock = Read(tpm.reset_count, tpm.clock_ms)
    BY <1>1, <1>3, <1>4
  <2>2. lease.tpm_clock.clock_ms \in U64 /\ lease.tpm_clock.reset_count \in Int
    BY <1>4, StateFacts
  <2> QED BY <1>4, <2>1, <2>2 DEF Read, AccessInv, LeaseHistory, IssuedBefore
<1>5. ~ClockRolledBack(ctx)
  <2>1. Floored.monotonic_floor = wall
    BY <1>2 DEF Floored, StateFile, MaxOf
  <2> QED BY <2>1, <1>1, <1>2 DEF ClockRolledBack
<1>6. ~TpmMissing(lease, ctx)
  BY <1>4 DEF TpmMissing
<1>7. ~TpmRolledBack(lease, ctx)
  BY <1>2, <1>4, ConstantFacts DEF TpmRolledBack, U64
<1>8. ~IssuedInTheFuture(lease, ctx)
  <2>1. lease.issued_at - wall <= MAX_CLOCK_SKEW_SECONDS
    BY <1>2, <1>3
  <2>2. MAX_CLOCK_SKEW_SECONDS \in I64
    BY SkewAssumption, ConstantFacts DEF I64
  <2>3. lease.issued_at - wall \in Int /\ MAX_CLOCK_SKEW_SECONDS \in Int
    BY <1>2
  <2>4. SatI64(lease.issued_at - wall) \in Int
        /\ SatI64(lease.issued_at - wall) <= MAX_CLOCK_SKEW_SECONDS
    BY <2>1, <2>2, <2>3, SatI64Facts
  <2> QED BY <2>4, <1>1, <1>2 DEF IssuedInTheFuture
<1>9. ~OutranWallClock(lease, ctx)
  <2> SUFFICES ASSUME lease.tpm_clock # None
               PROVE  ~(HardwareElapsed(lease, ctx) >
                          SatU64(WallElapsed(lease, ctx) + SatU64(MAX_CLOCK_SKEW_SECONDS * 1000)))
    BY DEF OutranWallClock
  <2> DEFINE hw == tpm.clock_ms - lease.tpm_clock.clock_ms
             w == wall - lease.issued_at
  <2>1. hw \in U64 /\ HardwareElapsed(lease, ctx) = hw
    <3>1. hw \in U64 /\ hw \in Int
      BY <1>2, <1>4, ConstantFacts DEF U64
    <3>2. SatU64(hw) = hw
      BY <3>1, SatU64Facts
    <3> QED BY <3>1, <3>2, <1>4 DEF HardwareElapsed
  <2>2. WallElapsed(lease, ctx) = SatU64(SatI64(w) * 1000)
    BY <1>1 DEF WallElapsed
  <2>3. w \in Int /\ hw <= (w + MAX_CLOCK_SKEW_SECONDS) * 1000
    <3>1. (time - lease.issued_at) * 1000 <= (w + MAX_CLOCK_SKEW_SECONDS) * 1000
      BY <1>2, <1>3
    <3> QED BY <3>1, <1>2, <1>4, ConstantFacts DEF U64
  <2>4. hw <= MaxI64 * 1000
    <3>1. MaxTime <= MaxI64
      BY SessionAssumption, ConstantFacts
    <3>2. lease.tpm_clock.clock_ms >= 0 /\ lease.tpm_clock.clock_ms \in Int /\ tpm.clock_ms \in Int
      BY <1>2, <1>4, ConstantFacts DEF U64
    <3> QED BY <1>2, <1>3, <3>1, <3>2, ConstantFacts
  <2> HIDE DEF hw, w
  <2>5. hw <= SatU64(SatU64(SatI64(w) * 1000) + SatU64(MAX_CLOCK_SKEW_SECONDS * 1000))
    BY <2>1, <2>3, <2>4, WithinSlack
  <2>6. SatU64(SatU64(SatI64(w) * 1000) + SatU64(MAX_CLOCK_SKEW_SECONDS * 1000)) \in Int
    BY <2>3, <1>2, SatI64Facts, SatU64Facts
  <2> QED BY <2>1, <2>2, <2>5, <2>6, ConstantFacts DEF U64
<1> QED BY <1>5, <1>6, <1>7, <1>8, <1>9 DEF ctx

\* A user who neither sets the clock nor puts an older file back is never
\* denied for a rollback, whatever the policies and however often the machine
\* is off or started anew.
THEOREM HonestNotAccused == Spec => []NoFalseAlarm
<1>1. AccessInv => NoFalseAlarm
  <2> SUFFICES ASSUME AccessInv, ~turned, ~restored, NEW lease \in leases, NEW action \in Asked
               PROVE  Verdict(lease, action) \notin RollbackAlarms
    BY DEF NoFalseAlarm
  <2> DEFINE ctx == ContextFor(lease)
             p == composed(Author, lease)
  <2>1. /\ ~ClockRolledBack(ctx) /\ ~TpmMissing(lease, ctx)
        /\ ~TpmRolledBack(lease, ctx) /\ ~IssuedInTheFuture(lease, ctx)
        /\ ~OutranWallClock(lease, ctx)
    BY HonestClocks
  <2>2. Verdict(lease, action) =
          IF NotUnderstood(p)                           THEN "PolicyNotFullyUnderstood"
          ELSE IF ClockRolledBack(ctx)                  THEN "ClockRollback"
          ELSE IF BindingTooWeak(p, lease, action, ctx) THEN "BindingTooWeak"
          ELSE IF lease = None                          THEN "NoLease"
          ELSE IF LeaseDenial(lease, ctx) # "Ok"        THEN LeaseDenial(lease, ctx)
          ELSE IF TermDenial(p, lease, ctx) # "Ok"      THEN TermDenial(p, lease, ctx)
          ELSE IF GrantDenial(Author, p, lease, action, ctx) # "Ok"
               THEN GrantDenial(Author, p, lease, action, ctx)
          ELSE "Allow"
    BY DEF Verdict, evaluate
  <2> HIDE DEF ctx, p
  <2>3. LeaseDenial(lease, ctx) \notin RollbackAlarms
    BY <2>1 DEF LeaseDenial, RollbackAlarms
  <2>4. TermDenial(p, lease, ctx) \notin RollbackAlarms
    BY <2>1 DEF TermDenial, RollbackAlarms
  <2>5. GrantDenial(Author, p, lease, action, ctx) \notin RollbackAlarms
    BY DEF GrantDenial, RollbackAlarms
  <2>6. {"PolicyNotFullyUnderstood", "BindingTooWeak", "NoLease", "Allow"} \cap RollbackAlarms = {}
    BY DEF RollbackAlarms
  <2> QED BY <2>1, <2>2, <2>3, <2>4, <2>5, <2>6
<1> QED BY Invariance, <1>1, PTL

-------------------------------------------------------------------------------
(* The window from the first opening. *)

\* An allowed opening is within the author's own validity, whatever the
\* server's profile says.
LEMMA OpenWithinValidity ==
  ASSUME AccessInv, NEW lease \in leases, NEW action, Verdict(lease, action) = "Allow"
  PROVE  ~ValidityOver(Author, ContextFor(lease))
<1> DEFINE p == composed(Author, lease)
           s == lease.server_policy
           ctx == ContextFor(lease)
<1>1. ~NotYetValid(p, ctx) /\ ~ValidityOver(p, ctx) /\ ~FirstOpenNotRecorded(p, ctx)
  BY OpenPasses DEF PassesAll, TermChecks
<1>2. /\ Author \in Policies /\ lease # None /\ lease \in LeaseFacts
      /\ ctx \in Contexts
  BY SessionAssumption, StateFacts, ContextTyped
<1>3. s = None \/ s \in Policies
  BY <1>2 DEF LeaseFacts
<1>4. CASE s = None
  <2>1. p = Author
    BY <1>4 DEF composed
  <2> QED BY <2>1, <1>1
<1>5. CASE s # None
  <2>1. s \in Policies /\ p = intersect(Author, s)
    BY <1>2, <1>3, <1>5 DEF composed
  <2> HIDE DEF p, s, ctx
  <2>2. p.validity = tighten_validity(Author.validity, s.validity)
    BY <2>1 DEF intersect
  <2>3. Author.validity \in Validity /\ s.validity \in Validity
    BY <1>2, <2>1, PolicyShape
  <2>4. ~ValidityOver(Author, ctx)
    BY <1>1, <1>2, <2>2, <2>3, ValidityTightens
  <2> QED BY <2>4 DEF ctx
<1> QED BY <1>4, <1>5

\* "So long from the first opening" bounds every later opening, however the
\* clock is set in between, unless an older state file was put back.
THEOREM WindowHolds == Spec => []FirstOpenWindow
<1>1. Init => FirstOpenWindow
  BY DEF Init, FirstOpenWindow
<1>2. AccessInv /\ FirstOpenWindow /\ [Next]_vars => FirstOpenWindow'
  <2> SUFFICES ASSUME AccessInv, FirstOpenWindow, [Next]_vars PROVE FirstOpenWindow'
    OBVIOUS
  <2> USE DEF history
  <2>1. ASSUME NEW lease \in leases, NEW action \in Asked, OpenAllowed(lease, action)
        PROVE  FirstOpenWindow'
    <3>1. /\ Verdict(lease, action) = "Allow" /\ lastNow' = wall
          /\ firstNow' = IF firstNow = None THEN wall ELSE firstNow
          /\ restored' = restored
      BY <2>1 DEF OpenAllowed
    <3> SUFFICES ASSUME Author.validity.kind = "FromFirstOpen", Author.validity.seconds >= 0,
                        ~restored
                 PROVE  lastNow' - firstNow' <= Author.validity.seconds
      BY <3>1 DEF FirstOpenWindow
    <3>2. Author.validity.seconds \in Int /\ wall \in Int /\ MaxI64 \in Int
      <4>1. Author.validity \in Validity
        BY SessionAssumption, PolicyShape
      <4> QED BY <4>1, ValidityShape, StateFacts, ConstantFacts DEF I64
    <3>3. CASE firstNow = None
      BY <3>1, <3>2, <3>3
    <3>4. CASE firstNow # None
      <4>1. firstNow = file.first_open_at
        BY DEF AccessInv, Counting
      <4>2. ContextFor(lease).first_open_at = firstNow /\ ContextFor(lease).now = wall
        BY <4>1 DEF ContextFor
      <4>3. ~(wall > SatI64(firstNow + Author.validity.seconds))
        BY <3>1, <3>4, <4>2, OpenWithinValidity DEF ValidityOver
      <4>4. firstNow \in Int /\ firstNow >= 0
        BY <3>4, <4>1, StateFacts, ConstantFacts DEF Times
      <4>5. /\ SatI64(firstNow + Author.validity.seconds) \in Int
            /\ SatI64(firstNow + Author.validity.seconds) <= firstNow + Author.validity.seconds
        <5>1. firstNow + Author.validity.seconds \in Int
              /\ firstNow + Author.validity.seconds >= MinI64
          BY <3>2, <4>4, ConstantFacts
        <5> QED BY <5>1, SatI64Facts
      <4> QED BY <3>1, <3>2, <3>4, <4>3, <4>4, <4>5
    <3> QED BY <3>3, <3>4
  <2>2. CASE RestoreProfile
    BY <2>2 DEF RestoreProfile, FirstOpenWindow
  <2>3. CASE UNCHANGED <<restored, firstNow, lastNow>>
    BY <2>3 DEF FirstOpenWindow
  <2>4. ASSUME NEW d \in Durations, NEW b \in Budgets, NEW p \in Profiles, IssueLease(d, b, p)
        PROVE  FirstOpenWindow'
    BY <2>3, <2>4 DEF IssueLease
  <2>5. ASSUME NEW lease \in leases, Accept(lease)
        PROVE  FirstOpenWindow'
    BY <2>3, <2>5 DEF Accept
  <2>6. ASSUME NEW lease \in leases, NEW action \in Asked, OpenDenied(lease, action)
        PROVE  FirstOpenWindow'
    BY <2>3, <2>6 DEF OpenDenied
  <2>7. ASSUME NEW powered \in BOOLEAN, Tick(powered)
        PROVE  FirstOpenWindow'
    BY <2>3, <2>7 DEF Tick
  <2>8. ASSUME NEW t \in Times, SetWall(t)
        PROVE  FirstOpenWindow'
    BY <2>3, <2>8 DEF SetWall
  <2>9. CASE Revoke \/ Reboot \/ SaveProfile
    BY <2>3, <2>9 DEF Revoke, Reboot, SaveProfile
  <2>10. CASE UNCHANGED vars
    BY <2>3, <2>10 DEF vars
  <2> QED
    BY <2>1, <2>2, <2>4, <2>5, <2>6, <2>7, <2>8, <2>9, <2>10 DEF Next
<1> QED BY Invariance, <1>1, <1>2, PTL DEF Spec

===============================================================================
