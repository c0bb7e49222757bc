SPECIFICATION FairSpec
CONSTANTS
  r1 = r1
  r2 = r2
  t1 = t1
  t2 = t2
  Task = {t1}
  Request = {r1}
  Poller = poller
  MaxSessions = 2
  MaxCrashes = 1
  Readings = {"working"}
  Kinds = {"start", "restart"}
  Readable = {t1}
  Prefix = {}
  TmuxFails = FALSE
  ClientsLeave = TRUE
  NoTask = NoTask
  NoSession = NoSession
  NoTracker = NoTracker
INVARIANTS BeliefIsStored
PROPERTIES BootAdopts ExitIsNoticed AbsenceIsNoticed
