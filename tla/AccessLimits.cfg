SPECIFICATION Spec
CONSTANTS
  None = None
  Digest = {d1}
  Fingerprint = d1
  PolicyHash = d1
  MaxI64 = 100
  MaxU64 = 10000
  MAX_CLOCK_SKEW_SECONDS = 1
  LocalBinding = 1
  Asked = {"View"}
  Author <- FirstOpenAuthor
  Profiles <- FirstOpenProfiles
  Budgets <- SomeBudgets
  Durations = {1}
  HasTpm = FALSE
  MaxTime = 1
  MaxOff = 0
  LastRevoke = 0
  MaxLeases = 2
  MaxResets = 0
  MaxOpened = 4
INVARIANTS OpensWithinLimits OldLeasesStayDead FirstOpenWindow
