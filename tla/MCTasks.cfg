SPECIFICATION Spec
CONSTANTS
  Request = {c1, c2}
  Key = {k1, k2}
  NoKey = NoKey
  k1 = k1
  k2 = k2
  Creation <- MCCreation
  Cleaning <- MCCleaning
  Root = {r1, r2}
  NoPath = NoPath
  MaxTask = 2
  MaxCreates = 2
  MaxMishaps = 1
SYMMETRY MCSymmetry
CHECK_DEADLOCK FALSE
PROPERTIES WorkSurvives TreesStayAccounted NoHalfMadeTask AgentKeepsItsTree
