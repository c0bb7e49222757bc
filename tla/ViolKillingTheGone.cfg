SPECIFICATION Spec
CONSTANTS
  r1 = r1
  r2 = r2
  t1 = t1
  t2 = t2
  Task = {t1, t2}
  Request = {r1}
  Poller = poller
  MaxSessions = 2
  MaxCrashes = 0
  Readings = {"working"}
  Kinds = {"start", "stop"}
  Readable = {t1, t2}
  Prefix <- T1BeginsT2
  TmuxFails = FALSE
  ClientsLeave = FALSE
  NoTask = NoTask
  NoSession = NoSession
  NoTracker = NoTracker
PROPERTY KillingTheGoneIsNothing
