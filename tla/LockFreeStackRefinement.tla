----------------------- MODULE LockFreeStackRefinement -----------------------
(***************************************************************************)
(* lock_free_stack implements AtomicStack.  push takes effect when its     *)
(* compare_exchange publishes the node; a successful pop, when its         *)
(* compare_exchange unlinks the node, long before it reads the data out of *)
(* it; an empty pop, when increase_head_count finds a null pointer.        *)
(***************************************************************************)
EXTENDS LockFreeStack, Sequences

\* The i-th node down the chain of next pointers from head.
NodeAt[i \in Nat] ==
  IF i = 0 THEN head.ptr
  ELSE IF NodeAt[i - 1] = NULL THEN NULL ELSE next[NodeAt[i - 1]].ptr

Depth == Cardinality({i \in 0 .. Cardinality(Nodes) : NodeAt[i] # NULL})

Contents == [i \in 1 .. Depth |-> data[NodeAt[i - 1]]]

\* What each thread is doing, as its caller could tell.  The result of a pop
\* stays in the node until the popper swaps it out.
Call(p) ==
  CASE pc[p] = "idle" -> [op |-> "none"]
    [] pc[p] = "push" -> [op |-> "push", val |-> data[new_node[p]]]
    [] pc[p] \in {"increase", "next", "unlink", "release", "delete_retry"} -> [op |-> "pop"]
    [] pc[p] = "swap" -> [op |-> "popped", val |-> data[ptr[p]]]
    [] OTHER -> [op |-> "popped", val |-> res[p]]

Abstract == INSTANCE AtomicStack WITH
              Empty <- NULL,
              items <- Contents,
              call  <- [p \in Procs |-> Call(p)]

\* Every push and pop of lock_free_stack takes effect at one instant inside
\* its call: no element is lost, duplicated or returned out of order, though
\* addresses are reused and pops read the data after they unlink the node.
Linearizable == Abstract!Spec
=============================================================================
