SPECIFICATION Spec
CONSTANTS
  p1 = p1
  p2 = p2
  Processes <- TwoProcesses
  NumReleases = 2
  Ships <- EveryExtra
  Stale <- SecondStale
  Prebuilt = TRUE
  MaxFaults = 0
SYMMETRY Interchangeable
INVARIANT UpdateIsAccounted
