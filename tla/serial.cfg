CONSTANTS
  None = None
  clerk = clerk
  boss = boss
  admin = admin
  Invoices = {i1, i2}
  Users = {clerk, boss}
  Requests = {r1}
  Totals = {1, 2}
  Drafts <- MCDrafts
  Policies <- MCBlocking
  HardLimit = 2
  Lookback = 0
  MaxRound = 2
  MaxCopies = 1
  FailAt <- AtGates
SPECIFICATION Spec
INVARIANTS TasksFitStatus GatePassed AskedAreIndependent
PROPERTIES FinalLeavesByDecision
SYMMETRY MCSymmetry
CONSTRAINT SerialScope
