CONSTANTS
  None = None
  clerk = clerk
  boss = boss
  admin = admin
  Invoices = {i1}
  Users = {clerk, boss}
  Requests = {r1}
  Totals = {1, 2}
  Drafts <- MCOneDraft
  Policies <- MCDefaultPolicy
  HardLimit = 2
  Lookback = 0
  MaxRound = 2
  MaxCopies = 2
  FailAt <- Never
SPECIFICATION Spec
PROPERTIES VoidIsFinal
