SPECIFICATION Spec
CONSTANTS
  NumIds <- TwoSessions
  MaxTurns <- TwoTurns
  MaxLaunches = 1
  MaxCommands = 1
CHECK_DEADLOCK FALSE
INVARIANT AnchorsFollow
