SPECIFICATION Spec
CONSTANTS
  Author = 1
  Coauthors = {2}
  File = 7
  EditAllowed = TRUE
  Certs <- MCHolding
  Editors = {11, 12, 13}
  Unregistered = {{}, {11, 12}}
  Wild <- MCWild
  Root = {0, 1}
  OriginalRoot = 0
  None = None
  MaxU64 = 2
  MaxTime = 1
  MaxPublished = 4
CHECK_DEADLOCK FALSE
INVARIANTS TextsOfOneHistory NoLockout
