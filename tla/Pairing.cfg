SPECIFICATION MCSpec
CONSTANTS
  Node = {n1, n2, n3}
  Bystander = {n3}
  Code = {c1, c2}
  Attempt = {a1, a2}
  CodeTtl = 1
  MaxTime = 1
  MaxRestarts = 1
  MaxRemovals = 1
CHECK_DEADLOCK FALSE
INVARIANTS TypeOK OneRecordPerName OwnToken CodesWorkOnce PairedBothWays RemovalsHold
PROPERTIES AttemptsEnd
