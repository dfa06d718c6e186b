SPECIFICATION Spec
CONSTANTS
  m1 = m1
  m2 = m2
  m3 = m3
  s1 = s1
  s2 = s2
  NoSession = NoSession
  NoWatch = NoWatch
  Messages <- TwoMessages
  Sessions <- SessionIds
  LossyReplies = TRUE
CHECK_DEADLOCK FALSE
INVARIANT RunsOnce
