SPECIFICATION TerminalFairSpec
CONSTANTS
  BACKLOG = 1
  Window = 1
  MaxChunk = 3
  MaxSent = 2
CHECK_DEADLOCK FALSE
INVARIANTS NoHoles TypedAsAllowed
PROPERTIES GoneIsReaped
