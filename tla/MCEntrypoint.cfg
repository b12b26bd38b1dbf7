\* Two Bitbucket nodes on one shared home.
SPECIFICATION FairSpec
CONSTANTS
  Nodes = {n1, n2}
  props = props
  Files <- OneFile
  Once <- OneFile
  Texts = {a, b}
  Empty = Empty
  Mixed = Mixed
  None = None
INVARIANTS
  TypeOK
  RenderedWhole
PROPERTIES
  WrittenOnce
  ImplementsConfigFiles
  AllGetToRun
