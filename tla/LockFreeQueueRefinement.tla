----------------------- MODULE LockFreeQueueRefinement -----------------------
(***************************************************************************)
(* lock_free_queue implements AtomicQueue.  A push takes effect when tail  *)
(* leaves the node its data is in, whichever thread swings it; a pop, when *)
(* its compare_exchange moves head on; an empty pop, when it reads tail.   *)
(* A push whose data goes into a node that is not the tail is lost.        *)
(***************************************************************************)
EXTENDS LockFreeQueue, Sequences

\* The i-th node from head on, as far as tail; those before tail hold items.
NodeAt[i \in Nat] ==
  IF i = 0 THEN head.ptr
  ELSE IF NodeAt[i - 1] = tail.ptr THEN tail.ptr ELSE next[NodeAt[i - 1]].ptr

Length == Cardinality(Linked \ From(tail.ptr))

Contents == [i \in 1 .. Length |-> data[NodeAt[i - 1]]]

\* A push that has put its data into the tail, and not yet seen it swing.
Pending(p) == pc[p] \in {"push_trace", "push_next", "set_tail"} /\ ptr[p] = tail.ptr

PushCall(p) ==
  IF \/ pc[p] \in {"push_increase", "push_data", "push_help"}
     \/ cont[p] = "push_increase"
     \/ Pending(p)
  THEN [op |-> "push", val |-> val[p]]
  ELSE [op |-> "pushed"]

PopCall(p) ==
  CASE pc[p] \in {"pop_increase", "pop_tail", "pop_head"} -> [op |-> "pop"]
    [] pc[p] = "pop_data"                                 -> [op |-> "popped", val |-> data[ptr[p]]]
    [] OTHER -> IF cont[p] = "pop_increase" THEN [op |-> "pop"]
                ELSE [op |-> "popped", val |-> val[p]]

Call(p) ==
  IF pc[p] = "idle" THEN [op |-> "none"]
  ELSE IF p \in Pushers THEN PushCall(p) ELSE PopCall(p)

Calls == [p \in Procs |-> Call(p)]

Queue == INSTANCE AtomicQueue WITH
           Empty <- NULL, Lossy <- FALSE, items <- Contents, call <- Calls

LossyQueue == INSTANCE AtomicQueue WITH
                Empty <- NULL, Lossy <- TRUE, items <- Contents, call <- Calls

\* Every push and pop takes effect at one instant inside its call and in FIFO
\* order: no element is lost, duplicated or reordered.
Linearizable == Queue!Spec

\* The same, except that a push may be lost altogether.
LinearizableButLossy == LossyQueue!Spec
=============================================================================
