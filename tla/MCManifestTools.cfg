\* Every tool, dying anywhere, after every other.
SPECIFICATION Spec
CONSTANTS
  Product = product
  Tools = {tini, git}
  Numbered = {git}
  MaxRelease = 3
  IronBank <- SomeIronBank
INVARIANTS
  TypeOK
  BuildsOneRelease
  EmptyIsNeverBuilt
  PinsWhatItNames
  SyncAdoptsTools
  SyncIsApply
PROPERTIES
  OnlyABumpUnpairs
