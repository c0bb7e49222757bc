SPECIFICATION FairSpec
CONSTANTS
  here = here
  there = there
  Machine = {here, there}
  Command <- MCCommand
  MaxSession = 1
  HereAsks = 2
  ThereAsks = 0
  MaxQuestion <- MCMaxQuestion
  MaxUpdates = 2
  MaxMishaps = 1
CHECK_DEADLOCK FALSE
INVARIANTS HeardEndsIt
PROPERTIES OneAnswerPerPrompt ReplaysTheLastOnly UpdatesAreHandled
