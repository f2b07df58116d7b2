SPECIFICATION Spec
CONSTANTS
  Clients = {c1, c2}
  Anchor = 10
  Firsts <- MCFirsts
  Bodies <- MCBodies
  KeyLists <- MCKeyLists
  Controllers = {1, 2, 3}
  None = None
  MAX_SIGNERS = 2
  MaxU64 = 2
  MaxClock = 1
  Zero = 0
  Created <- MCCreated
  Intents <- MCIntents
  SignedBy <- MCSignedBy
  MAX_REQUEST_LIFETIME = 2
  MAX_URLS = 2
  MAX_ROSTER = 3
  MaxReceipts = 1
  MaxDocs = 5
  MaxNow = 1
SYMMETRY Symmetry
CHECK_DEADLOCK FALSE
INVARIANTS NoSplitBrain ByQuorum WitnessedMeansStored OneBranch
