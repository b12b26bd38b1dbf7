\* Every trigger, two products, a day that passes, and one retry.
SPECIFICATION FairSpec
CONSTANTS
  p1 = p1
  p2 = p2
  Products <- TwoProducts
  Sections <- OneSection
  MaxDays = 2
  WarnWithin = 4
  FailWithin = 2
  NoDate = NoDate
  Malformed = Malformed
  IgnoreFiles <- SomeFiles
  Supports <- ClosingWindows
  MaxDay = 1
  MaxBuilds = 2
  MaxRetries = 1
  None = None
INVARIANTS
  TypeOK
  ReviewNeverPromotes
  SignsWhatItGated
  GatedUnderExceptionsInForce
  PromotedWhileSupported
  NeverStuck
PROPERTIES
  ImplementsGatedRelease
  ComesToRest
\* Every pipeline ends.
CHECK_DEADLOCK FALSE
