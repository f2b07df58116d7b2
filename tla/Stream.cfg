SPECIFICATION Spec
CONSTANTS
  MaxU32 = 4
  MaxU64 = 30
  NONCE_LEN = 2
  TAG_LEN = 1
  ChunkSizes = {1, 2, 4}
  FileLens <- MCFileLens
  AskedSizes <- MCAskedSizes
  PayloadOffset = 5
CHECK_DEADLOCK FALSE
INVARIANT SealedForTheReader
PROPERTY Returns
