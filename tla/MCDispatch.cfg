SPECIFICATION FairSpec
CONSTANTS
  Row = {1}
  Machines = 3
  Call = {1, 2}
  Anywhere = 0
  Blank = Blank
  Id = {1, 2}
  HasProject = {1, 2}
  MaxFailures = 2
  MaxCrashes = 1
CHECK_DEADLOCK FALSE
INVARIANTS OneTaskPerKey NamedStaysPut DispatchedWasStarted
PROPERTIES QueueDrains
