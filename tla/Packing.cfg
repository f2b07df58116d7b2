SPECIFICATION Spec
CONSTANTS
  None = None
  Digest = {d1}
  MaxI64 = 100
  MaxU64 = 10000
  MAX_CLOCK_SKEW_SECONDS = 1
  c1 = c1
  c2 = c2
  Texts = {t1, t2}
  ChunkSizes = {4, 8}
  MAX_KEY_SLOTS = 4
  MAX_COAUTHORS = 2
  Requests <- SomeRequests
  Documents <- SomeDocuments
  Machines <- SomeMachines
  MaxPlans = 2
  MaxRestores = 1
INVARIANTS NonceNeverReused OpensForItsParties PolicyAsWritten
SYMMETRY TextSymmetry
CHECK_DEADLOCK FALSE
