SPECIFICATION PartsFairSpec
CONSTANTS
  l1 = l1
  l2 = l2
  b1 = b1
  b2 = b2
  m1 = m1
  m2 = m2
  m3 = m3
  s1 = s1
  s2 = s2
  p1 = p1
  p2 = p2
  background = background
  foreground = foreground
  NoAsk = NoAsk
  Local <- LocalAsks
  Brokered <- BrokeredAsks
  Submissions <- ThreeMessages
  MaxCalls = 3
  MaxPieces = 2
  MaxTools = 2
  NumTurns = 3
  MaxText = 1
  CatchUp = 2
  MaxBreaks = 1
  Occasions <- TwoStreams
  MaxToken = 1
  Pulls <- TwoPulls
  MaxChanges = 3
  Slots <- TwoSlots
  MaxRounds = 3
  NumIds = 4
  MaxTurns = 3
  MaxLaunches = 2
  MaxCommands = 3
  MaxMessages = 2
  MaxLines = 1
  MaxPrints = 2
  NumAgents = 2
  MaxNest = 1
  MaxItems = 3
  MaxLaneCalls = 2
  MaxTime = 5
CHECK_DEADLOCK FALSE
INVARIANT PartsTypeOK
INVARIANT CardIsTrue
INVARIANT IndicatorTellsTruth
PROPERTY NeverClearsAnothers
INVARIANT TurnIsWritten
INVARIANT TurnReachesItsOwn
INVARIANT SaidOnce
PROPERTY ColoursKept
PROPERTY EverythingSettles
INVARIANT SessionsAreKept
INVARIANT TurnIsDrawn
INVARIANT ScreenIsTranscript
