---------------------------- MODULE AccessSession -----------------------------
(***************************************************************************)
(* One protected file on one device.  The server issues numbered leases    *)
(* and may revoke; the device keeps an access-state file, the user can put *)
(* back an older copy of it, set the wall clock and reboot; each opening   *)
(* asks evaluate of oc-policy.                                             *)
(*                                                                         *)
(* oc-policy is pure: it is given a Context and keeps nothing.  The owner  *)
(* of the state is the host, outside the repository; it is modelled from   *)
(* the contract the fields of Context and LeaseFacts state and             *)
(* docs/protocol.md section 3 repeats (floor raised before the decision,   *)
(* number raised at acceptance, budget counted anew for each number).      *)
(***************************************************************************)
EXTENDS Policy

CONSTANTS
  Author,         \* the author's signed policy
  Profiles,       \* server policies a lease may carry (None: no tightening)
  Durations,      \* lease lengths the server may grant, the generous ones too
  Budgets,        \* open budgets a lease may carry
  LocalBinding,   \* binding level the device reports
  Fingerprint,    \* this device
  PolicyHash,     \* hash of the signed policy, as the client computes it
  HasTpm,         \* the device has a hardware clock
  Asked,          \* actions the user asks for
  MaxTime,        \* bound: seconds of server time
  MaxOff,         \* bound: seconds the machine is off
  LastRevoke,     \* bound: the latest time of a revocation
  MaxLeases,      \* bound: leases the server issues
  MaxResets,      \* bound: reboots
  MaxOpened       \* bound: successful opens

ASSUME SessionAssumption ==
  /\ Fingerprint \in Digest /\ PolicyHash \in Digest
  /\ Author \in Policies /\ Author.unknown_actions = {}
  /\ Profiles \subseteq Policies \cup {None}
  /\ Durations \subseteq I64
  /\ Budgets \subseteq Nat \cup {None}
  /\ LocalBinding \in Binding
  /\ HasTpm \in BOOLEAN
  /\ Asked \subseteq Action
  /\ MaxTime \in Nat /\ MaxTime >= MAX_CLOCK_SKEW_SECONDS
  /\ MaxOff \in Nat /\ LastRevoke \in Nat /\ MaxLeases \in Nat /\ MaxResets \in Nat /\ MaxOpened \in Nat
  /\ MaxTime * 1000 <= MaxU64 /\ MaxTime + MAX_CLOCK_SKEW_SECONDS <= MaxI64
  /\ \A d \in Durations : d >= 0 /\ MaxTime + MAX_CLOCK_SKEW_SECONDS + d <= MaxI64

VARIABLES
  time,       \* the server's clock
  revoked,    \* the time of the revocation, or None
  issued,     \* the number of the last lease issued
  leases,     \* every lease issued; any of them may sit in the cache
  wall,       \* the device's system clock
  tpm,        \* the hardware clock: runs only while powered, never set back
  file,       \* the access-state file
  fresh,      \* number of the lease this process has just been handed, or 0
  saved,      \* an older copy of the access-state file, or None
  turned,     \* history: the user has set the system clock
  restored,   \* history: the user has put an older file back
  revokedMs,  \* history: the hardware clock at the revocation
  opened,     \* history: successful opens per lease number
  total,      \* history: successful opens
  firstNow,   \* history: system time of the first successful open, or None
  lastNow     \* history: system time of the last successful open, or None

vars == <<time, revoked, issued, leases, wall, tpm, file, fresh, saved,
          turned, restored, revokedMs, opened, total, firstNow, lastNow>>

history == <<turned, restored, revokedMs, opened, total, firstNow, lastNow>>

Times == 0 .. MaxTime + MAX_CLOCK_SKEW_SECONDS
Seqs  == 1 .. MaxLeases

StateFile ==
  [monotonic_floor : Times, highest_seq_seen : 0 .. MaxLeases,
   opens_so_far : Nat, counted_seq : 0 .. MaxLeases, opens_under_lease : Nat,
   first_open_at : Times \cup {None}]

NewFile ==
  [monotonic_floor |-> 0, highest_seq_seen |-> 0, opens_so_far |-> 0,
   counted_seq |-> 0, opens_under_lease |-> 0, first_open_at |-> None]

-------------------------------------------------------------------------------
(* The server. *)

LeaseReading == IF HasTpm THEN tpm ELSE None

IssueLease(duration, budget, profile) ==
  /\ revoked = None
  /\ issued < MaxLeases
  /\ issued' = issued + 1
  /\ leases' = leases \cup
       {[seq |-> issued + 1, issued_at |-> time,
         expires_at |-> time + duration, opens_remaining |-> budget,
         revoked |-> FALSE, device_fingerprint |-> Fingerprint,
         policy_hash |-> PolicyHash, server_policy |-> profile,
         attested |-> FALSE, tpm_clock |-> LeaseReading]}
  /\ UNCHANGED <<time, revoked, wall, tpm, file, fresh, saved, history>>

\* A revoked file is given no further lease; what was issued stays valid.
Revoke ==
  /\ revoked = None
  /\ time <= LastRevoke
  /\ revoked' = time
  /\ revokedMs' = tpm.clock_ms
  /\ UNCHANGED <<time, issued, leases, wall, tpm, file, fresh, saved,
                 turned, restored, opened, total, firstNow, lastNow>>

-------------------------------------------------------------------------------
(* The host on the device. *)

\* Faulty: the number recorded is one too high.
AcceptOffByOne(lease) ==
  /\ lease.seq > file.highest_seq_seen
  /\ file' = [file EXCEPT !.highest_seq_seen = lease.seq + 1]
  /\ fresh' = lease.seq
  /\ UNCHANGED <<time, revoked, issued, leases, wall, tpm, saved, history>>

\* A lease is taken from the wire only above every number taken before.
Accept(lease) ==
  /\ lease.seq > file.highest_seq_seen
  /\ file' = [file EXCEPT !.highest_seq_seen = lease.seq]
  /\ fresh' = lease.seq
  /\ UNCHANGED <<time, revoked, issued, leases, wall, tpm, saved, history>>

\* The file as the decision sees it: the floor is raised first, and the opens
\* under a lease start at nought for a number not counted before.
Floored == [file EXCEPT !.monotonic_floor = MaxOf(file.monotonic_floor, wall)]

UnderLease(lease) == IF file.counted_seq = lease.seq THEN file.opens_under_lease ELSE 0

ContextFor(lease) ==
  [now |-> wall, monotonic_floor |-> Floored.monotonic_floor,
   first_open_at |-> file.first_open_at, opens_so_far |-> file.opens_so_far,
   opens_under_lease |-> UnderLease(lease), binding |-> LocalBinding,
   fingerprint |-> Fingerprint, policy_hash |-> PolicyHash,
   tpm_clock |-> IF HasTpm THEN Read(tpm.reset_count, tpm.clock_ms) ELSE Absent,
   highest_seq_seen |-> file.highest_seq_seen, online |-> lease.seq = fresh]

Verdict(lease, action) == evaluate(Author, lease, action, ContextFor(lease))

MayOpen(lease) == \E action \in Asked : Verdict(lease, action) = "Allow"

\* An opening counts, and is written down, before content is released.
OpenAllowed(lease, action) ==
  /\ Verdict(lease, action) = "Allow"
  /\ total < MaxOpened
  /\ file' = [Floored EXCEPT
       !.highest_seq_seen  = MaxOf(file.highest_seq_seen, lease.seq),
       !.opens_so_far      = file.opens_so_far + 1,
       !.counted_seq       = lease.seq,
       !.opens_under_lease = UnderLease(lease) + 1,
       !.first_open_at     = IF file.first_open_at = None THEN wall ELSE file.first_open_at]
  /\ fresh' = 0
  /\ opened' = [opened EXCEPT ![lease.seq] = opened[lease.seq] + 1]
  /\ total' = total + 1
  /\ firstNow' = IF firstNow = None THEN wall ELSE firstNow
  /\ lastNow' = wall
  /\ UNCHANGED <<time, revoked, issued, leases, wall, tpm, saved, turned, restored, revokedMs>>

\* A denial leaves the floor raised.
OpenDenied(lease, action) ==
  /\ Verdict(lease, action) # "Allow"
  /\ file' = Floored
  /\ fresh' = 0
  /\ UNCHANGED <<time, revoked, issued, leases, wall, tpm, saved, history>>

-------------------------------------------------------------------------------
(* The world. *)

\* A second passes, for the hardware clock only if the machine is on.
Tick(powered) ==
  /\ time < MaxTime
  /\ powered \/ (time - MAX_CLOCK_SKEW_SECONDS) * 1000 - tpm.clock_ms < MaxOff * 1000
  /\ time' = time + 1
  /\ wall' = wall + 1
  /\ tpm' = IF powered THEN [tpm EXCEPT !.clock_ms = tpm.clock_ms + 1000] ELSE tpm
  /\ UNCHANGED <<revoked, issued, leases, file, fresh, saved, history>>

Reboot ==
  /\ tpm.reset_count < MaxResets
  /\ tpm' = [tpm EXCEPT !.reset_count = tpm.reset_count + 1]
  /\ fresh' = 0
  /\ UNCHANGED <<time, revoked, issued, leases, wall, file, saved, history>>

\* The user sets the clock: as far back as it goes, ahead by the skew at most
\* (a bound: further ahead, a lease only expires sooner).
SetWall(t) ==
  /\ t <= time + MAX_CLOCK_SKEW_SECONDS
  /\ wall' = t
  /\ turned' = TRUE
  /\ UNCHANGED <<time, revoked, issued, leases, tpm, file, fresh, saved,
                 restored, revokedMs, opened, total, firstNow, lastNow>>

\* One copy is kept (a bound).
SaveProfile ==
  /\ saved = None
  /\ saved' = file
  /\ UNCHANGED <<time, revoked, issued, leases, wall, tpm, file, fresh, history>>

RestoreProfile ==
  /\ saved # None
  /\ file' = saved
  /\ fresh' = 0
  /\ restored' = TRUE
  /\ UNCHANGED <<time, revoked, issued, leases, wall, tpm, saved,
                 turned, revokedMs, opened, total, firstNow, lastNow>>

-------------------------------------------------------------------------------
\* The device's clock starts within the skew of the server's.
Init ==
  /\ time = MAX_CLOCK_SKEW_SECONDS
  /\ wall \in 0 .. 2 * MAX_CLOCK_SKEW_SECONDS
  /\ tpm = [reset_count |-> 0, clock_ms |-> 0]
  /\ revoked = None /\ issued = 0 /\ leases = {} /\ file = NewFile /\ fresh = 0 /\ saved = None
  /\ turned = FALSE /\ restored = FALSE /\ revokedMs = None
  /\ opened = [n \in Seqs |-> 0] /\ total = 0 /\ firstNow = None /\ lastNow = None

Next ==
  \/ \E d \in Durations, b \in Budgets, p \in Profiles : IssueLease(d, b, p)
  \/ Revoke
  \/ \E lease \in leases : Accept(lease)
  \/ \E lease \in leases, action \in Asked : OpenAllowed(lease, action)
  \/ \E lease \in leases, action \in Asked : OpenDenied(lease, action)
  \/ \E powered \in BOOLEAN : Tick(powered)
  \/ Reboot
  \/ \E t \in Times : SetWall(t)
  \/ SaveProfile
  \/ RestoreProfile

\* Time passes while the machine is on; nobody is obliged to do anything else.
Fairness == WF_vars(Tick(TRUE))

Spec == Init /\ [][Next]_vars /\ Fairness

-------------------------------------------------------------------------------
(* Correctness. *)

\* The variables hold what their declarations say.
TypeOK ==
  /\ time \in 0 .. MaxTime /\ wall \in Times
  /\ tpm \in [reset_count : 0 .. MaxResets, clock_ms : U64]
  /\ revoked \in (0 .. MaxTime) \cup {None} /\ revokedMs \in U64 \cup {None}
  /\ issued \in 0 .. MaxLeases /\ leases \subseteq LeaseFacts
  /\ file \in StateFile /\ saved \in StateFile \cup {None}
  /\ fresh \in 0 .. MaxLeases
  /\ turned \in BOOLEAN /\ restored \in BOOLEAN
  /\ opened \in [Seqs -> Nat] /\ total \in Nat
  /\ firstNow \in Times \cup {None} /\ lastNow \in Times \cup {None}

\* The term of the author's that bounds an opening under this lease: leases
\* that are opened under a composed Lease network (see ServerNeverWidens).
UnderLeaseTerm(lease) == composed(Author, lease).network.kind = "Lease"

\* After a revocation a lease that carries hardware time opens the file for at
\* most the author's lease term plus the clock skew of running time, whatever
\* the user does to the system clock and to the access-state file, and however
\* long a lease the server granted.  (evaluate's lease-length check together
\* with its comparison of hardware and wall elapsed time.)
RevocationReachesTheDevice ==
  revoked # None =>
    \A lease \in leases :
      MayOpen(lease) /\ lease.tpm_clock # None /\ UnderLeaseTerm(lease) =>
        tpm.clock_ms - revokedMs <= (Author.network.seconds + MAX_CLOCK_SKEW_SECONDS) * 1000

\* On a device whose clock is left alone the same bound holds in real time,
\* with or without a hardware clock.
RevocationLagHonest ==
  revoked # None /\ ~turned =>
    \A lease \in leases :
      MayOpen(lease) /\ UnderLeaseTerm(lease) =>
        time - revoked <= Author.network.seconds + MAX_CLOCK_SKEW_SECONDS

\* Without a restored state file no lease is opened more often than its budget
\* and the file no more often than the author allows, across renewals, replays
\* of older leases and denials in between.
OpensWithinLimits ==
  ~restored =>
    /\ \A lease \in leases :
         lease.opens_remaining # None => opened[lease.seq] <= lease.opens_remaining
    /\ Author.max_opens # None => total <= Author.max_opens

\* Without a restored state file a lease older than one already used is dead.
OldLeasesStayDead ==
  ~restored =>
    \A lease \in leases :
      MayOpen(lease) => \A n \in Seqs : n > lease.seq => opened[n] = 0

\* Without a restored state file the author's "so long from the first opening"
\* bounds every later opening, however the clock is set in between.
FirstOpenWindow ==
  /\ Author.validity.kind = "FromFirstOpen" /\ Author.validity.seconds >= 0
  /\ ~restored /\ firstNow # None
  =>
    lastNow - firstNow <= Author.validity.seconds

\* A user who neither sets the clock nor restores the state is never accused
\* of a rollback, over reboots, power cuts and renewals.
RollbackAlarms ==
  {"ClockRollback", "TpmClockRollback", "LeaseIssuedInTheFuture",
   "HardwareClockOutranWallClock", "TpmClockMissing"}

NoFalseAlarm ==
  ~turned /\ ~restored =>
    \A lease \in leases, action \in Asked : Verdict(lease, action) \notin RollbackAlarms

\* The server's profile only narrows: what it lets through, the author's
\* policy alone lets through as well.
Untightened(lease) == [lease EXCEPT !.server_policy = None]

ServerCannotWiden ==
  \A lease \in leases, action \in Asked :
    Verdict(lease, action) = "Allow" =>
      evaluate(Author, Untightened(lease), action, ContextFor(lease)) = "Allow"

\* The same, but for the one case in which the profile replaces the author's
\* lease term by StrictOnline.
ServerNeverWidens ==
  \A lease \in leases, action \in Asked :
    /\ Verdict(lease, action) = "Allow"
    /\ composed(Author, lease).network.kind = Author.network.kind
    => evaluate(Author, Untightened(lease), action, ContextFor(lease)) = "Allow"

\* The machine was never off, nor started anew.
KeptRunning ==
  tpm.reset_count = 0 /\ tpm.clock_ms = (time - MAX_CLOCK_SKEW_SECONDS) * 1000

\* Once revoked, a file whose leases carry hardware time closes for good on a
\* machine that keeps running, however often the user sets the clock back.
RevokedFilesClose ==
  []KeptRunning =>
    ((revoked # None) ~> [](\A lease \in leases : ~MayOpen(lease)))

-------------------------------------------------------------------------------
(* What the actions keep true besides, from which the invariants follow.   *)

\* The device's clock, unless set, stays within the skew of the server's, and
\* the hardware clock has not run longer than time has.
Clocks ==
  /\ MAX_CLOCK_SKEW_SECONDS <= time /\ wall <= time + MAX_CLOCK_SKEW_SECONDS
  /\ ~turned => time <= wall + MAX_CLOCK_SKEW_SECONDS
  /\ tpm.clock_ms <= (time - MAX_CLOCK_SKEW_SECONDS) * 1000

\* Leases are numbered apart, and date from the past and from before the
\* revocation, by either clock.
IssuedBefore(lease, t, clock) ==
  /\ lease.issued_at <= t
  /\ lease.tpm_clock # None => lease.tpm_clock.clock_ms <= clock

LeaseHistory ==
  /\ revoked = None <=> revokedMs = None
  /\ revoked # None => revoked <= time /\ revokedMs <= tpm.clock_ms
  /\ \A lease \in leases :
       /\ lease.seq \in 1 .. issued
       /\ IssuedBefore(lease, time, tpm.clock_ms)
       /\ revoked # None => IssuedBefore(lease, revoked, revokedMs)
       /\ HasTpm <=> lease.tpm_clock # None
       /\ lease.tpm_clock # None =>
            /\ lease.tpm_clock.reset_count <= tpm.reset_count
            /\ tpm.clock_ms - lease.tpm_clock.clock_ms <= (time - lease.issued_at) * 1000
  /\ \A l, m \in leases : l.seq = m.seq => l = m

\* The state file agrees with what was opened, unless an older one was put back.
Counting ==
  ~restored =>
    /\ total = file.opens_so_far
    /\ file.counted_seq <= file.highest_seq_seen /\ file.counted_seq <= issued
    /\ file.counted_seq \in Seqs => opened[file.counted_seq] = file.opens_under_lease
    /\ \A n \in Seqs : n > file.counted_seq => opened[n] = 0
    /\ firstNow = file.first_open_at
    /\ ~turned => file.monotonic_floor <= wall

===============================================================================
