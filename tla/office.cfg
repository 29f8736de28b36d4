CONSTANTS
  None = None
  c1 = c1
  p1 = p1
  p2 = p2
  n1 = n1
  n2 = n2
  n3 = n3
  Contracts = {c1}
  PRs = {p1, p2}
  Numbers = {n1, n2, n3}
  Requests = {r1, r2}
  Chain = 2
  Signers = 2
  i1 = i1
  g1 = g1
  Papers = {i1, i2}
  Lined = {i1}
  Fetches = {g1, g2}
  Blank = Blank
  MaxActs = 3
  d1 = d1
  d2 = d2
  Docs = {d1, d2}
  Calls = {g1, g2}
  Nobody = Nobody
  MaxSteps = 2
  a1 = a1
  a2 = a2
  b1 = b1
  b2 = b2
  Areas = {a1, a2}
  Invoices = a1
  Persons = {u1, u2}
  Offices = {e1, e2}
  Bands = {b1, b2}
  AreaOf <- MCAreaOf
  Flights = {g1, g2}
  NoOne = NoOne
  MaxDeeds = 2
  Tables = {a1, a2}
  Calendar <- MCCalendar
  Quotes = {All, usd}
  All = All
  Loads = {g1, g2}
  NoTable = NoTable
  MaxClicks = 2
SPECIFICATION OfficeSpec
INVARIANTS CompletedIsSigned DoneOnce SerialIsOrderly FormsStayHome
  NothingInVain SavedIsOwn AdminInOrder RatesFitTable
CONSTRAINT Scope
SYMMETRY AlikeRequests
CHECK_DEADLOCK FALSE
