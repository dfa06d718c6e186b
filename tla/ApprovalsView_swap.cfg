SPECIFICATION Spec
CONSTANTS
  a1 = a1
  a2 = a2
  s1 = s1
  s2 = s2
  r1 = r1
  r2 = r2
  NoStream = NoStream
  Asks <- OneAsk
  Unreadable <- NoAsks
  Streams <- StreamIds
  Reads <- OneRead
  Subscribes = TRUE
PROPERTY NeverSwappedBack
