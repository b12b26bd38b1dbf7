\* Two patch jobs of one product share the tag <version>-patched.
SPECIFICATION Spec
CONSTANTS
  Rebuilds = {}
  Patches = {p1, p2}
  Os = Os
  Java = Java
  Seed = Seed
  None = None
  MaxRetries = 0
  MaxVersion = 1
  Suffix <- SameSuffix
  Findings <- BothFindings
  OsFindings <- OsOnly
  Blocking <- BothFindings
INVARIANTS
  PromotedWasGated
CHECK_DEADLOCK FALSE
