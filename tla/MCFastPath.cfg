\* One product, no day passes, nothing is retried.
SPECIFICATION Spec
CONSTANTS
  p1 = p1
  p2 = p2
  Products = {p1}
  Sections <- OneSection
  MaxDays = 2
  WarnWithin = 4
  FailWithin = 2
  NoDate = NoDate
  Malformed = Malformed
  IgnoreFiles <- SomeFiles
  Supports <- ClosingWindows
  MaxDay = 0
  MaxBuilds = 1
  MaxRetries = 0
  None = None
INVARIANTS
  PatchScheduleOnlyPatches
CHECK_DEADLOCK FALSE
