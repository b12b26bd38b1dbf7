\* An emergency pin, then the weekly rebuild.
SPECIFICATION Spec
CONSTANTS
  t1 = t1
  t2 = t2
  Targets <- OneTarget
  GitLab = {g1}
  Jenkins = {}
  Dates = {d1}
  Hand = {h1}
  MaxVersion = 2
  MaxTool = 1
  IronBankTool <- Everywhere
  MaxEdits = 1
  Token = {g1}
  None = None
INVARIANTS
  PinHoldsUntilCaughtUp
