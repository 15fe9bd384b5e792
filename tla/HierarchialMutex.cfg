CONSTANTS
  Threads = {a, b, c}
  high = high
  Mutexes = {high, low, twin}
  Level <- MCLevel
  Top = 3
  NONE = NONE
  Depth = 2
  Calls <- MCCalls
SPECIFICATION Spec
INVARIANTS
  TypeOK
  CursorFollowsScopes
  NoTerminate
  NoDeadlock
PROPERTIES
  EveryLockReturns
