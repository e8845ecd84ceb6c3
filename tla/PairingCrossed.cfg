SPECIFICATION AttemptsSpec
CONSTANTS
  Bystander = {}
  Node = {n1, n2}
  Code = {c1, c2}
  Attempt = {a1, a2}
  CodeTtl = 1
  MaxTime = 0
  MaxRestarts = 0
  MaxRemovals = 0
CHECK_DEADLOCK FALSE
INVARIANTS MutualTrust
