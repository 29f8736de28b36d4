CONSTANTS
  None = None
  l1 = l1
  l2 = l2
  Orders = {o1}
  Lines = {l1, l2}
  Requests = {r1, r2}
  LineTables <- MCTables
  Receipts <- MCReceipts
  MaxEntries = 2
  MaxAudited = 6
  FailAt <- BeforeWriting
  Purchases = {p1}
  Rows = {a1, a2, a3}
  Calls = {c1, c2}
  Stages = 2
  MaxDue = 2
  Nothing = Nothing
  Invoices = {i1, i2}
  Syncs = {s1, s2}
  NoPack = NoPack
  Quotes = {q1, q2}
  q1 = q1
  q2 = q2
  Base = Base
  LastDay = 3
  Window = 0
  Batch = 1
  Fixings <- MCFixings
  FxSyncs = {x1, x2}
  NoTable = NoTable
SPECIFICATION FinanceSpec
INVARIANT AuditedWithinOrdered
CONSTRAINT Scope
SYMMETRY Symmetric
CHECK_DEADLOCK FALSE
