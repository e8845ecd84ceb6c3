SPECIFICATION Spec
CONSTANTS
  n1 = n1  n2 = n2  n3 = n3  n4 = n4  n5 = n5  m1 = m1  m2 = m2  m3 = m3  web = web  db = db
  Untagged = Untagged
  Node = {n1, n2, n3}
  Root = {n1}
  Trust <- Line
  Federating = {n1, n2, n3}
  Guarded = {}
  Offers <- Mixed
  MaxHops = 5
  PeerTimeout = 1
  Pool <- Threads
  Prompt = TRUE
  Faults = {"silent"}
  MaxRev = 0
  MaxFaults = 1
INVARIANTS HealthyIsShown
CHECK_DEADLOCK FALSE
