CONSTANTS
  None = None
  clerk = clerk
  boss = boss
  admin = admin
  Invoices = {i1, i2, i3}
  Users = {clerk}
  Requests = {r1, r2}
  Totals = {1, 2}
  Drafts <- NoDrafts
  Policies <- MCDefaultPolicy
  HardLimit = 1
  Lookback = 0
  MaxRound = 1
  MaxCopies = 0
  FailAt <- Never
SPECIFICATION FairApprovingSpec
PROPERTIES MeterSpec ReliableMeterSpec
