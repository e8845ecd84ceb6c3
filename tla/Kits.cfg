SPECIFICATION FairSpec
CONSTANTS
  Service <- MCService
  Node <- MCNode
  Run <- MCRun
  Kept <- MCKept
  Session <- MCSession
  Device <- MCDevice
  Zoom <- MCZoom
  Text <- MCText
  Blank <- MCBlank
  Matches <- MCMatches
  MatchesOk <- MCMatchesOk
  ToastTicks = 2
  MaxAgo = 2
  MaxSent = 1
  MaxChanged = 3
INVARIANTS TypeOK ScreenSound EffectsInStep
PROPERTIES Browses ToastsEnd
CHECK_DEADLOCK FALSE
