\* One target, three versions; both pipelines may push a sync branch, so branches of
\* two days are open together and each is force-pushed by both.  Iron Bank does not
\* pin the tool, so a person or Renovate and a sync edit different entries.
SPECIFICATION Spec
CONSTANTS
  t1 = t1
  t2 = t2
  Targets <- OneTarget
  GitLab = {g1}
  Jenkins = {j1}
  Dates = {d1, d2}
  Hand = {h1}
  MaxVersion = 3
  MaxTool = 2
  IronBankTool <- SecondOnly
  MaxEdits = 1
  Token = {g1, j1}
  None = None
INVARIANTS
  TypeOK
  BuildsWhatItTags
PROPERTIES
  SyncNeverGoesBack
  ConvergedStays
