SPECIFICATION MCSpec
CONSTANTS
  n1 = n1  n2 = n2  n3 = n3  n4 = n4  n5 = n5  m1 = m1  m2 = m2  m3 = m3  web = web  db = db
  Untagged = Untagged
  Node = {m1, m2, m3, n1, n2, n3, n4, n5}
  Root = {m1, n1, n4}
  Trust <- Graph
  Federating = {m1, m2, m3, n1, n2, n3, n5}
  Guarded = {n3, n5}
  Offers <- Mixed
  MaxHops = 2
  PeerTimeout = 1
  Pool <- Threads
  Prompt = FALSE
  Faults = {"down", "silent"}
  MaxRev = 1
  MaxFaults = 1
INVARIANTS TypeOK TruthfulAndFresh LoopSafe Complete ReachableIsShown
PROPERTIES WalksEnd
CHECK_DEADLOCK FALSE
