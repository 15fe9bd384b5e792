CONSTANTS
  Pushers = {a, b}
  Poppers = {x}
  Busy = {b, x}
  Main = Main
  Nodes = {n1, n2, n3}
  Values = {v1}
  NULL = NULL
  Size <- MCSize
  IntMax = 9
  Suspended = {a}
SPECIFICATION Spec
PROPERTIES
  Progress
