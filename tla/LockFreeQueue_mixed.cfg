CONSTANTS
  Pushers = {a, b}
  Poppers = {x}
  Busy = {x}
  Main = Main
  Nodes = {n1, n2, n3, n4}
  Values = {v1, v2}
  NULL = NULL
  Size <- MCSize
  IntMax = 6
  Modulus = 8
  Phased = FALSE
  Suspended = {}
SYMMETRY Symmetry
SPECIFICATION Spec
INVARIANTS
  TypeOK
  MemorySafe
  RefCounts
  NoLeak
  QueueInv
PROPERTIES
  LinearizableButLossy
