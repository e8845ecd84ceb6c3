SPECIFICATION RacingSpec
CONSTANTS
  t1 = t1
  t2 = t2
  n1 = n1
  n2 = n2
  s1 = s1
  NoTtl = NoTtl
  Threads = {t1, t2}
  Writers = {t1}
  Names = {n1, n2}
  Static = {}
  Ttls = {1}
  MaxTime = 2
  MaxCrashes = 0
INVARIANTS AcknowledgedSurvives
