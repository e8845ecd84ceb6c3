SPECIFICATION FairSpec
CONSTANTS
  j1 = j1
  j2 = j2
  j3 = j3
  r1 = r1
  r2 = r2
  NoJob = NoJob
  NoOne = NoOne
  Jobs = {j1, j2}
  Requests = {r1}
  LaunchMax = 1
  RunMax = 1
  StopMax = 0
  StaleAfter = 2
  LastStart = 1
  MaxTime = 5
  MaxCrashes = 0
PROPERTIES LatestResolves WebReturns
CHECK_DEADLOCK FALSE
