---------------------------- MODULE AtomicStack ----------------------------
(***************************************************************************)
(* What lock_free_stack promises its callers: a stack whose push and pop   *)
(* each take effect in one indivisible step between the call and the       *)
(* return, whatever the threads interleave in between.                     *)
(***************************************************************************)
EXTENDS Sequences

CONSTANTS
  Procs,      (* the threads that call the stack         *)
  Values,     (* the data that can be pushed             *)
  Empty       (* what pop returns from an empty stack, not a value *)

VARIABLES
  items,      (* the contents, top first                 *)
  call        (* the operation each thread is inside of  *)

vars == <<items, call>>

Idle       == [op |-> "none"]
Pushing(v) == [op |-> "push", val |-> v]
Popping    == [op |-> "pop"]
Popped(v)  == [op |-> "popped", val |-> v]

Init ==
  /\ items = <<>>
  /\ call = [p \in Procs |-> Idle]

Becomes(p, c) == call' = [call EXCEPT ![p] = c]

CallPush(p, v) ==
  /\ call[p] = Idle
  /\ Becomes(p, Pushing(v))
  /\ UNCHANGED items

\* push returns nothing, so its effect and its return are one step.
Push(p, v) ==
  /\ call[p] = Pushing(v)
  /\ items' = <<v>> \o items
  /\ Becomes(p, Idle)

CallPop(p) ==
  /\ call[p] = Idle
  /\ Becomes(p, Popping)
  /\ UNCHANGED items

PopTop(p) ==
  /\ call[p] = Popping
  /\ items # <<>>
  /\ items' = Tail(items)
  /\ Becomes(p, Popped(Head(items)))

PopEmpty(p) ==
  /\ call[p] = Popping
  /\ items = <<>>
  /\ Becomes(p, Popped(Empty))
  /\ UNCHANGED items

ReturnPop(p) ==
  /\ \E v \in Values \cup {Empty} : call[p] = Popped(v)
  /\ Becomes(p, Idle)
  /\ UNCHANGED items

Next ==
  \E p \in Procs :
    \/ \E v \in Values : CallPush(p, v) \/ Push(p, v)
    \/ CallPop(p)
    \/ PopTop(p)
    \/ PopEmpty(p)
    \/ ReturnPop(p)

Spec == Init /\ [][Next]_vars
=============================================================================
