SPECIFICATION FairSpec
CONSTANTS
  m1 = m1
  m2 = m2
  m3 = m3
  s1 = s1
  s2 = s2
  NoSession = NoSession
  NoWatch = NoWatch
  Messages <- ThreeMessages
  Sessions <- SessionIds
  LossyReplies = FALSE
CHECK_DEADLOCK FALSE
INVARIANT TypeOK
INVARIANT RunsOnce
INVARIANT OneWatchedConversation
PROPERTY PlacedOnce
PROPERTY EventuallyRuns
