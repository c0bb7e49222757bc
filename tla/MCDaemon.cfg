SPECIFICATION FairSpec
CONSTANTS
  Garbled = Garbled
  Absent = Absent
  Port = {8787, 8788}
  DEFAULT_PORT = 8787
  Written <- MCWritten
  Build = {1, 2}
  MaxTokens = 4
  MaxEdits = 1
  MaxRuns = 1
  MaxMishaps = 1
INVARIANTS SchemaIsWhole ClientIsLetIn
PROPERTIES TwinsPart ComesBack
CHECK_DEADLOCK FALSE
