CONSTANTS
  None = None
  u1 = u1
  Users = {u1}
  Requests = {r1, r2}
  Invites = {i1, i2}
  Resets = {t1, t2}
  Logins = {s1}
  MaxFailed = 3
  Passwords = 3
  Kept = 1
  e1 = e1
  Keys = {k1}
  Clients = {c1}
  Entities = {e1, e2}
  Slots = {x1, x2}
  Session = Session
  Nothing = Nothing
  Window = 2
  PerWindow = 1
  Lifetime = 2
  LastTick = 2
  MaxCalls = 3
SPECIFICATION PartsSpec
INVARIANTS LoginOpensOnce InvitePerOverlap LockedInTime SignsInOrderly
  AdmittedIsEntitled LimitHolds DefaultPerOverlap
CONSTRAINT Scope
SYMMETRY Symmetric
CHECK_DEADLOCK FALSE
