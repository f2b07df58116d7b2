SPECIFICATION Spec
CONSTANTS
  HEIR_SEQ = 99
  MAX_PENDING_PER_FILE = 2
  NoShare = NoShare
  Files = {"f1", "f2"}
  First = "f1"
  NoFile = NoFile
  Author = "a"
  Keys = {"a", "b"}
  Client <- MCClient
  Devices <- MCDevices
  Founders <- MCFounders
  Menus <- MCMenus
  Absent = Absent
  NoDevice = NoDevice
  Skew = 1
  MAX_KEYS = 2
  MAX_HEIRS = 1
  MAX_DEVICE_NAMES = 2
  MaxTime = 2
  MaxSigned = 4
CHECK_DEADLOCK FALSE
INVARIANTS QuorumRules NewestCommandStands StandingReadable HeirGetsThisFile
