CONSTANTS
  Pushers = {a, b}
  Poppers = {x, y}
  Busy = {a, x}
  Main = Main
  Nodes = {n1, n2, n3, n4}
  Values = {v1, v2}
  NULL = NULL
  Size <- MCSize
  IntMax = 6
  Modulus = 8
  Phased = TRUE
  Suspended = {}
SPECIFICATION Spec
SYMMETRY Symmetry
INVARIANTS
  QueueInv
  NoLeak
  NoCrash
PROPERTIES
  Linearizable
