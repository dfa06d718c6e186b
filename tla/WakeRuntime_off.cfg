SPECIFICATION Spec
CONSTANTS
  w1 = w1
  w2 = w2
  Refreshes <- TwoRefreshes
CHECK_DEADLOCK FALSE
PROPERTY OffOpensNothing
