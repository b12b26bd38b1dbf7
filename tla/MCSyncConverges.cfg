\* Two targets; a GitLab without the token and a Jenkins with it run side by side.
\* Nobody edits by hand, which keeps it small enough for liveness.
SPECIFICATION FairSpec
CONSTANTS
  t1 = t1
  t2 = t2
  Targets <- TwoTargets
  GitLab = {g1}
  Jenkins = {j1}
  Dates = {d1, d2}
  Hand = {}
  MaxVersion = 2
  MaxTool = 1
  IronBankTool <- SecondOnly
  MaxEdits = 0
  Token = {j1}
  None = None
INVARIANTS
  ScheduledBuildsFresh
PROPERTIES
  SyncConverges
