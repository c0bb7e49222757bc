SPECIFICATION Spec
CONSTANTS
  r1 = r1
  r2 = r2
  t1 = t1
  t2 = t2
  Task = {t1}
  Request = {r1, r2}
  Poller = poller
  MaxSessions = 2
  MaxCrashes = 0
  Readings = {"waiting"}
  Kinds = {"start", "stop"}
  Readable = {t1}
  Prefix = {}
  TmuxFails = TRUE
  ClientsLeave = FALSE
  NoTask = NoTask
  NoSession = NoSession
  NoTracker = NoTracker
SYMMETRY Symmetry
INVARIANTS OneLiveRow AnnouncedOnce EndingIsAnnounced
