SPECIFICATION Spec
CONSTANTS
  j1 = j1
  j2 = j2
  j3 = j3
  r1 = r1
  r2 = r2
  NoJob = NoJob
  NoOne = NoOne
  Jobs = {j1, j2}
  Requests = {r1, r2}
  LaunchMax = 1
  RunMax = 1
  StopMax = 1
  StaleAfter = 3
  LastStart = 4
  MaxTime = 5
  MaxCrashes = 1
INVARIANTS TypeOK OneUpgrade FinishedIsOver NoChangesClaimed SuccessIsInstalled
PROPERTIES TerminalIsFinal
CHECK_DEADLOCK FALSE
