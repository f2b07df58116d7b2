SPECIFICATION MCSpec
CONSTANTS
  None = None
  MAX_DOCUMENT = 1048576
  MAX_WATCH_FILES = 32
  MAX_PAGE = 256
  MAX_REFUSAL = 1024
  SIGNATURE_LEN = 64
  MAX_CHAIN_DOCUMENTS = 5
  MAX_INTERMEDIATES = 2
  MAX_CREDENTIAL = 648
  Devices = {"d"}
  Greetings <- MCGreetings
  Bodies <- MCBodies
  Chain <- MCChain
  Draws = {1, 2}
  MaxConversations = 2
  MaxSeconds = 1
  MaxAsked = 2
  Clients = {"d"}
  Files = {"f", "g"}
  Requests <- MCRequests
  Seeds = {1}
  Papers <- MCPapers
  Limit = 2
  Room = 2
  Window = 1
  Retention = 2
  Watched = {"f"}
  MaxHours = 3
  MaxOperations = 2
  MaxJournal = 4
INVARIANTS ProvenIdentity AttestedHere GrantedOnce NothingLost NoGap
CHECK_DEADLOCK FALSE
