SPECIFICATION FairSpec
CONSTANTS
  m1 = m1
  m2 = m2
  m3 = m3
  m4 = m4
  STALENESS_CAP = 2
  WAITING_DEBOUNCE = 1
  Readings = {"idle", "working", "waiting"}
  Marks = {m1, m2, m3, m4}
  NoMark = NoMark
  TmuxFails = TRUE
  MaxRestarts = 1
CHECK_DEADLOCK FALSE
INVARIANTS BeliefIsRecent
PROPERTIES WaitingIsConfirmed QuestionIsNoticed ReadsStatuses
