SPECIFICATION Spec
CONSTANTS
  None = None
  Digest = {d1}
  Fingerprint = d1
  PolicyHash = d1
  MaxI64 = 100
  MaxU64 = 10000
  MAX_CLOCK_SKEW_SECONDS = 1
  LocalBinding = 1
  Asked = {"View"}
  Author <- LeaseAuthor
  Profiles <- HardwareProfiles
  Budgets <- NoBudget
  Durations = {1, 3}
  HasTpm = TRUE
  MaxTime = 4
  MaxOff = 1
  LastRevoke = 1
  MaxLeases = 1
  MaxResets = 1
  MaxOpened = 1
INVARIANTS TypeOK RevocationReachesTheDevice RevocationLagHonest NoFalseAlarm ServerNeverWidens
PROPERTY RevokedFilesClose
