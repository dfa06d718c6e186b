SPECIFICATION FairSpec
CONSTANTS
  a1 = a1
  a2 = a2
  s1 = s1
  s2 = s2
  r1 = r1
  r2 = r2
  NoStream = NoStream
  Asks <- TwoAsks
  Unreadable <- OneAsk
  Streams <- StreamIds
  Reads <- ReadIds
  Subscribes = TRUE
INVARIANT TypeOK
INVARIANT StreamsAccounted
INVARIANT NeverAhead
PROPERTY ReplySwapsOnlyIfRaced
PROPERTY Converges
