CONSTANTS
  Pushers = {a, b}
  Poppers = {x, y}
  Busy = {}
  Main = Main
  Nodes = {n1, n2, n3}
  Values = {v1}
  NULL = NULL
  Size <- MCSize
  IntMax = 6
  Modulus = 8
  Phased = TRUE
  Suspended = {}
SPECIFICATION Spec
INVARIANTS
  TracesLiveNode
