SPECIFICATION Spec
CONSTANTS
  None = None
  Digest = {d1}
  Fingerprint = d1
  PolicyHash = d1
  MaxI64 = 100
  MaxU64 = 10000
  MAX_CLOCK_SKEW_SECONDS = 1
  LocalBinding = 1
  Asked = {"View"}
  Author <- LeaseAuthor
  Profiles <- StrictProfiles
  Budgets <- NoBudget
  Durations = {3}
  HasTpm = FALSE
  MaxTime = 2
  MaxOff = 0
  LastRevoke = 0
  MaxLeases = 1
  MaxResets = 0
  MaxOpened = 1
INVARIANT ServerCannotWiden
