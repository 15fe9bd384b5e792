CONSTANTS
  rust = rust
  vue = vue
  python = python
  bye = bye
  goodbye = goodbye
  Producers = {"parepare_data", "another"}
  Consumers = {c, d, e}
  Pollers = {x}
  Values = {rust, vue, python, bye, goodbye}
  Byes = {bye, goodbye}
  Initial <- MCInitial
  Items <- MCItems
  Polls <- MCPolls
  Chunks <- MCChunks
  Bye = "bye"
  Messages <- MCMessages
  Last = "last msg"
  Queries <- MCQueries
  Error = "error"
  Lists <- MCLists
  Poppers = {"t1", "t2"}
  Pushed <- MCPushed
  SafeStack <- MCSafeStack
  UnsafeStack <- MCUnsafeStack
  Lhs <- MCLhs
  Rhs <- MCRhs
  Text <- MCText
  Users = {"devil", "angel"}
  Movables = {"x", "y", "z"}
  Addresses = {"1", "2", "3"}
  Others = {0}
  Turns = 3
SPECIFICATION TestSpec
INVARIANTS
  TypeOK
  NoLostWakeup
  InOrder
  SleepsOnlyBeforeNotify
  ProcessedInOrder
  MessagesRunInOrder
  AnswersInOrder
  Sorts
  PoppedOnce
  LeavesATop
  SwapsExchange
  NobodyJoinsTy
  NeverMixed
  UniqueOwner
PROPERTIES
  EveryItemIsFetched
  TestsEnd
