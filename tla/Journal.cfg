SPECIFICATION Spec
CONSTANTS
  MaxLeaves = 9
  Contents = {0, 1}
  ServerKey = "s"
  Watchers <- MCWatchers
  Trusted = "w1"
  Entries <- MCEntries
  Tenants = {"org"}
  Names = {"ann", "bob"}
  MAX_PATH = 9
  MAX_INCLUSION_PATH = 4
  MAX_PAGE = 2
  MaxSize <- MCMaxSize
  MaxU32 = 3
CHECK_DEADLOCK FALSE
INVARIANTS TreeProofsBind NoFalseEvidence OneDirectory
PROPERTY WitnessedOnlyGrows
