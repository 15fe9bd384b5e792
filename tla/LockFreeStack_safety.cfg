CONSTANTS
  Pushers = {a, b}
  Poppers = {x, y}
  Busy = {a, x}
  Main = Main
  Nodes = {n1, n2}
  Values = {v1, v2}
  NULL = NULL
  Size <- MCSize
  IntMax = 5
  Suspended = {}
SPECIFICATION Spec
SYMMETRY Symmetry
INVARIANTS
  TypeOK
  MemorySafe
  SplitCount
  NoLeak
  IInv
PROPERTIES
  Linearizable
