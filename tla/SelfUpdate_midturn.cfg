SPECIFICATION Spec
CONSTANTS
  p1 = p1
  p2 = p2
  Processes <- OneProcess
  NumReleases = 2
  Ships <- EveryExtra
  Stale <- SecondStale
  Prebuilt = TRUE
  MaxFaults = 0
PROPERTY RestartsOnlyIdle
