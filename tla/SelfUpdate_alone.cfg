SPECIFICATION FairSpec
CONSTANTS
  p1 = p1
  p2 = p2
  Processes <- OneProcess
  NumReleases = 3
  Ships <- ThirdWithoutDriver
  Stale <- SecondStale
  Prebuilt = TRUE
  MaxFaults = 2
INVARIANT TypeOK
INVARIANT InstallIsWhole
INVARIANT UpdateIsAccounted
PROPERTY LaunchCompletes
