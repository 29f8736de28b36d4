CONSTANTS
  None = None
  c1 = c1
  p1 = p1
  p2 = p2
  n1 = n1
  n2 = n2
  n3 = n3
  Contracts = {c1}
  PRs = {p1, p2}
  Numbers = {n1, n2, n3}
  Requests = {r1, r2}
  Chain = 2
  Signers = 2
SPECIFICATION PartsSpec
INVARIANT ConvertedOnce
CHECK_DEADLOCK FALSE
