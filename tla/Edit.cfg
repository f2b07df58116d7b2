SPECIFICATION WriterSpec
CONSTANTS
  MaxU32 = 3
  MaxU64 = 4
  NONCE_LEN = 2
  TAG_LEN = 1
  ChunkSizes = {1, 2}
  Byte = {x, y}
  MaxPieces = 4
SYMMETRY Symmetry
INVARIANT RevisionAsMeant
