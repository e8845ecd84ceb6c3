SPECIFICATION MCSpec
CONSTANTS
  t1 = t1
  t2 = t2
  n1 = n1
  n2 = n2
  s1 = s1
  NoTtl = NoTtl
  Threads = {t1, t2}
  Writers = {t1, t2}
  Names = {n1, n2, s1}
  Static = {s1}
  Ttls = {0, 1}
  MaxTime = 3
  MaxCrashes = 1
INVARIANTS TypeOK NamesSound RegistrationsSurvive CrashesLeaveItReadable
PROPERTIES ImplementsAlone RequestsEnd
