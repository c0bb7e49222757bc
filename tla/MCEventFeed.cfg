SPECIFICATION FairSpec
CONSTANTS
  e1 = e1
  e2 = e2
  Client = {c1}
  Event = {e1, e2}
  Wanted <- MCWanted
  Scripted = {e1}
  Capacity = 2
  PageSize = 2
  Concurrency = 1
  Queue = 1
  MaxEvents = 4
  MaxDrops = 1
  MaxRestarts = 1
CHECK_DEADLOCK FALSE
INVARIANTS HooksAreBounded
PROPERTIES FeedIsALog EverythingArrives HooksRecover
