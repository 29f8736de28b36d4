CONSTANTS
  None = None
  clerk = clerk
  boss = boss
  admin = admin
  Invoices = {i1}
  Users = {clerk, boss}
  Requests = {r1, r2}
  Totals = {1, 2}
  Drafts <- MCBigDrafts
  Policies <- MCUnstaffed
  HardLimit = 1
  Lookback = 0
  MaxRound = 2
  MaxCopies = 1
  FailAt <- BeforeBilling
SPECIFICATION TimelessSpec
INVARIANTS ApprovedIsBilled OpenRoundsBounded
SYMMETRY MCSymmetry
