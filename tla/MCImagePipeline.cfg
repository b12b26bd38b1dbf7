\* A rebuild and two patches on one working tag, two versions, a retry of any job.
SPECIFICATION Spec
SYMMETRY Symmetry
CONSTANTS
  Rebuilds = {r1}
  Patches = {p1, p2}
  Os = Os
  Java = Java
  Seed = Seed
  None = None
  MaxRetries = 1
  MaxVersion = 2
  Suffix <- SameSuffix
  Findings <- OsOnly
  OsFindings <- OsOnly
  Blocking <- OsOnly
INVARIANTS
  TypeOK
  PromotedIsAdmissible
  GatedUnlessOvertaken
  AttestsItself
  TagsNameTheirVersion
  TagsAgree
PROPERTIES
  ImplementsTrustedPromotion
\* Every run ends; the numbers of runs and retries are finite.
CHECK_DEADLOCK FALSE
