\* A push pipeline after Iron Bank has moved, or pins what git does not pin yet.
SPECIFICATION Spec
CONSTANTS
  t1 = t1
  t2 = t2
  Targets <- OneTarget
  GitLab = {g1}
  Jenkins = {}
  Dates = {}
  Hand = {}
  MaxVersion = 2
  MaxTool = 1
  IronBankTool <- Everywhere
  MaxEdits = 0
  Token = {}
  None = None
INVARIANTS
  ReportOnly
