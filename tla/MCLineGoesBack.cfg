\* A rebuild promotes Iron Bank's version, a patch then promotes the checkout's.
SPECIFICATION Spec
CONSTANTS
  Rebuilds = {r1}
  Patches = {p1}
  Os = Os
  Java = Java
  Seed = Seed
  None = None
  MaxRetries = 0
  MaxVersion = 2
  Suffix <- SameSuffix
  Findings <- OsOnly
  OsFindings <- OsOnly
  Blocking <- OsOnly
PROPERTIES
  LineNeverGoesBack
CHECK_DEADLOCK FALSE
