CONSTANTS
  Pushers = {a, b}
  Poppers = {x}
  Busy = {}
  Main = Main
  Nodes = {n1, n2, n3}
  Values = {v1, v2}
  NULL = NULL
  Size <- MCSize
  IntMax = 6
  Modulus = 8
  Phased = FALSE
  Suspended = {}
SPECIFICATION Spec
PROPERTIES
  PushesIntoTail
