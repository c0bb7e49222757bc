SPECIFICATION FairSpec
CONSTANTS
  Task = {1}
  Request = {c1}
  Token = {k1}
  NoToken = NoToken
  MaxSha = 2
  MaxPulls = 2
  MaxChanges = 3
  Quota = 3
  Reserve = 1
  MaxFaults = 2
  MaxCrashes = 1
CHECK_DEADLOCK FALSE
INVARIANTS UnchangedIsRecorded
PROPERTIES NewsIsSaidOnce MergeIsHeard
