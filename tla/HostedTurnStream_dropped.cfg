SPECIFICATION Spec
CONSTANTS
  NumTurns <- TwoTurns
  MaxText = 1
  CatchUp = 1
  MaxBreaks = 0
CHECK_DEADLOCK FALSE
INVARIANT OwnEndingAfterADrop
