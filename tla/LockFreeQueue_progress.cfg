CONSTANTS
  Pushers = {a, b}
  Poppers = {x}
  Busy = {}
  Main = Main
  Nodes = {n1, n2, n3, n4}
  Values = {v1}
  NULL = NULL
  Size <- MCSize
  IntMax = 6
  Modulus = 8
  Phased = FALSE
  Suspended = {a}
SPECIFICATION Spec
PROPERTIES
  Progress
