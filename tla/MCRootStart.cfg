\* One container, started as root on a volume of another UID.
SPECIFICATION Spec
CONSTANTS
  Nodes = {n1}
  props = props
  Files <- OneFile
  Once <- OneFile
  Texts = {a}
  Empty = Empty
  Mixed = Mixed
  None = None
INVARIANTS
  ProductReadsItsConfiguration
