SPECIFICATION MCSpec
CONSTANTS
  Name = {"origin", "work", "main", "host", "TOKEN", "OTHER"}
  Part = {"src", "doc", ".."}
  Dots = {".."}
  Method = {"Get", "Put"}
  NoSecret = NoSecret
  MAX_BODY_LEN = 1
  MAX_USES = 2
  AuthorKey = 0
  Grants <- MCGrants
  ActionGrants <- MCActionGrants
  Links <- MCLinks
  Moments = {0, 1, 2}
  Requests <- MCRequests
  Absent = Absent
  Void = Void
  MAX_GRANT_FILES = 2
  MAX_GRANT_DEPTH = 2
  MAX_ACTION_RULES = 2
  Asks <- MCAsks
  Rules <- MCRules
  Above <- MCAbove
  OwnerKey = 0
  LeaseKey = 9
  Foreign <- MCForeign
  ACTION_LEASE_SECONDS = 1
  MAX_PENDING_ACTION_WINDOW = 1
  Terms = {1, 2}
  MaxQueue = 2
  MaxLeases = 3
  MaxSeconds = 2
  Never = Never
CHECK_DEADLOCK FALSE
INVARIANTS TypeOK NeverBeyondTheRoot ActionsNeverWiden UsesCounted OwnerInControl
PROPERTY Attenuates
