---------------------------- MODULE AtomicQueue ----------------------------
(***************************************************************************)
(* What lock_free_queue promises its callers: a FIFO queue whose push and  *)
(* pop each take effect at one instant between their call and their        *)
(* return.  If Lossy, a push may also take no effect at all.               *)
(***************************************************************************)
EXTENDS Sequences

CONSTANTS
  Procs,      (* the threads that call the queue         *)
  Values,     (* the data that can be pushed             *)
  Empty,      (* what pop returns from an empty queue, not a value *)
  Lossy       (* whether a push can be lost              *)

VARIABLES
  items,      (* the contents, oldest first              *)
  call        (* the operation each thread is inside of  *)

vars == <<items, call>>

Idle       == [op |-> "none"]
Pushing(v) == [op |-> "push", val |-> v]
Pushed     == [op |-> "pushed"]
Popping    == [op |-> "pop"]
Popped(v)  == [op |-> "popped", val |-> v]

Init ==
  /\ items = <<>>
  /\ call = [p \in Procs |-> Idle]

Advance(p, from, to) ==
  /\ call[p] = from
  /\ call' = [call EXCEPT ![p] = to]

CallPush(p, v) == Advance(p, Idle, Pushing(v)) /\ UNCHANGED items

Push(p, v) == Advance(p, Pushing(v), Pushed) /\ items' = Append(items, v)

Lose(p, v) == Lossy /\ Advance(p, Pushing(v), Pushed) /\ UNCHANGED items

CallPop(p) == Advance(p, Idle, Popping) /\ UNCHANGED items

PopFront(p) ==
  /\ items # <<>>
  /\ Advance(p, Popping, Popped(Head(items)))
  /\ items' = Tail(items)

PopEmpty(p) ==
  /\ items = <<>>
  /\ Advance(p, Popping, Popped(Empty))
  /\ UNCHANGED items

Return(p) ==
  /\ \E c \in {Pushed} \cup {Popped(v) : v \in Values \cup {Empty}} : Advance(p, c, Idle)
  /\ UNCHANGED items

Next ==
  \E p \in Procs :
    \/ \E v \in Values : CallPush(p, v) \/ Push(p, v) \/ Lose(p, v)
    \/ CallPop(p) \/ PopFront(p) \/ PopEmpty(p)
    \/ Return(p)

Spec == Init /\ [][Next]_vars
=============================================================================
