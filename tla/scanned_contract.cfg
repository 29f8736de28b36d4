CONSTANTS
  None = None
  m1 = m1
  m2 = m2
  f1 = f1
  f2 = f2
  Messages = {m1}
  Files = {f1}
  Content <- MCShared
  Requests = {r1}
  MaxPaid = 2
  Throws <- NoCall
  Endpoints = {e1, e2, e3}
  Dispatches = {d1}
  Nobody = Nobody
SPECIFICATION CaptureSpec
INVARIANT DeliveredIsCaptured
CHECK_DEADLOCK FALSE
