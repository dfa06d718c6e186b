SPECIFICATION PartsFairSpec
CONSTANTS
  c1 = c1
  c2 = c2
  c3 = c3
  c4 = c4
  n1 = n1
  m1 = m1
  m2 = m2
  m3 = m3
  s1 = s1
  s2 = s2
  s3 = s3
  NoSession = NoSession
  h1 = h1
  h2 = h2
  w1 = w1
  w2 = w2
  w3 = w3
  p1 = p1
  p2 = p2
  r1 = r1
  r2 = r2
  a1 = a1
  a2 = a2
  k1 = k1
  k2 = k2
  NoFeed = NoFeed
  Updates <- FourCalls
  Names <- OneName
  KeyOf <- OwnKey
  Messages <- ThreeMessages
  Sessions <- ThreeSessions
  ConversationOf <- OneConversation
  LossyReplies = FALSE
  NumSessions = 2
  MaxTurns = 2
  MaxRecovered = 1
  MaxBoots = 2
  Reconciles <- TwoReconciles
  MaxChanges = 3
  Refreshes <- ThreeRefreshes
  NumOperations = 3
  Places <- TwoPlaces
  MaxForeign = 1
  Roots <- TwoRoots
  Slots <- TwoSlots
  MaxLaunches = 2
  Callers <- TwoCallers
  NumIds = 3
  MaxCalls = 3
  DraftLimit = 2
CHECK_DEADLOCK FALSE
INVARIANT PartsTypeOK
INVARIANT UpdatesInTurn
INVARIANT OneAnswerer
INVARIANT TranscriptIsHome
INVARIANT AdoptionIsSound
INVARIANT MicrophoneIsOurs
INVARIANT AppliedAsAWhole
INVARIANT RegisterIsTheOwners
INVARIANT DraftsAreKept
PROPERTY ActsAtOnce
PROPERTY PlacedOnce
PROPERTY NeverShrinks
PROPERTY EverythingEnds
