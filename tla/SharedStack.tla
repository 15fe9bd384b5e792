---------------------------- MODULE SharedStack ----------------------------
(***************************************************************************)
(* A std::stack that several threads pop: ThreadSafeStack                  *)
(* (threadsafe_stack.h), whose operations hold m, and ThreadUnsafeStack    *)
(* (threadunsafe_stack.cc), whose unsafe_pop does the same without a       *)
(* mutex.  Both forms of ThreadSafeStack::pop take the same steps.         *)
(*                                                                         *)
(* top and pop of an empty stack are undefined: the model has no step for  *)
(* them and stops there, in a deadlock.                                    *)
(***************************************************************************)
EXTENDS Naturals, Sequences, FiniteSets

CONSTANTS
  Guarded,    (* whether it is a ThreadSafeStack                           *)
  Poppers,
  Pushed,     (* Pushed[p]: the item that thread p pushes                  *)
  Initial     (* what the constructor pushes, all different                *)

Pushers == DOMAIN Pushed
Threads == Poppers \cup Pushers
Nobody  == "nobody"

VARIABLES
  cells, size,  (* the memory of stack_t, and how much of it is in use     *)
  m,            (* the owner of the mutex                                  *)
  pc,           (* "call", "test", "top", "pop", "set", "push", "end"      *)
  value,        (* the local of a pop                                      *)
  finish        (* the size that a std::stack::pop has read                *)

vars == <<cells, size, m, pc, value, finish>>

Init ==
  /\ cells = Initial
  /\ size = Len(Initial)
  /\ m = Nobody
  /\ pc = [t \in Threads |-> "call"]
  /\ value = [t \in Poppers |-> 0]
  /\ finish = [t \in Poppers |-> 0]

Goto(t, label) == pc' = [pc EXCEPT ![t] = label]

\* Mutant: no lock_guard.
NoLock(t) == UNCHANGED m

Lock(t) == IF Guarded THEN m = Nobody /\ m' = t ELSE UNCHANGED m

Enter(t) ==
  /\ pc[t] = "call"
  /\ Lock(t)
  /\ Goto(t, IF t \in Pushers THEN "push" ELSE "test")
  /\ UNCHANGED <<cells, size, value, finish>>

Leave(t) == Goto(t, "end") /\ m' = IF m = t THEN Nobody ELSE m

\* Mutant: while in place of if.
PopAll(t) == Goto(t, "test") /\ UNCHANGED m

Popped(t) == Leave(t)

Push(t) ==
  /\ pc[t] = "push"
  /\ cells' = [i \in DOMAIN cells \cup {size + 1} |-> IF i = size + 1 THEN Pushed[t] ELSE cells[i]]
  /\ size' = size + 1
  /\ Leave(t)
  /\ UNCHANGED <<value, finish>>

\* empty: pop throws empty_stack, unsafe_pop does nothing.
TestEmpty(t) ==
  /\ pc[t] = "test"
  /\ size = 0
  /\ Leave(t)
  /\ UNCHANGED <<cells, size, value, finish>>

TestNotEmpty(t) ==
  /\ pc[t] = "test"
  /\ size # 0
  /\ Goto(t, "top")
  /\ UNCHANGED <<cells, size, m, value, finish>>

Top(t) ==
  /\ pc[t] = "top"
  /\ size # 0
  /\ value' = [value EXCEPT ![t] = cells[size]]
  /\ Goto(t, "pop")
  /\ UNCHANGED <<cells, size, m, finish>>

\* std::stack::pop reads the end of the stack and sets it: not one step for a
\* thread that does not hold the mutex.
Pop(t) ==
  /\ pc[t] = "pop"
  /\ finish' = [finish EXCEPT ![t] = size]
  /\ Goto(t, "set")
  /\ UNCHANGED <<cells, size, m, value>>

SetSize(t) ==
  /\ pc[t] = "set"
  /\ finish[t] # 0
  /\ size' = finish[t] - 1
  /\ Popped(t)
  /\ UNCHANGED <<cells, value, finish>>

Step(t) ==
  \/ Enter(t)
  \/ t \in Pushers /\ Push(t)
  \/ t \in Poppers /\ (TestEmpty(t) \/ TestNotEmpty(t) \/ Top(t) \/ Pop(t) \/ SetSize(t))

Next == \E t \in Threads : Step(t)

Ended == \A t \in Threads : pc[t] = "end"

Spec == Init /\ [][Next]_vars /\ WF_vars(Next)
----------------------------------------------------------------------------
(* Properties. *)

StackItems == {Initial[i] : i \in DOMAIN Initial} \cup {Pushed[p] : p \in Pushers}

\* Whenever the mutex of a ThreadSafeStack is free, every item is in exactly
\* one place: still to be pushed, in the stack, or popped by one thread.
Places(item) ==
    Cardinality({t \in Poppers : value[t] = item})
  + Cardinality({i \in 1 .. size : cells[i] = item})
  + Cardinality({p \in Pushers : pc[p] = "call" /\ Pushed[p] = item})

PoppedOnce == Guarded /\ m = Nobody => \A item \in StackItems : Places(item) = 1

\* Two unsafe_pops may hand one item out twice and lose another, but the test
\* of ThreadUnsafeStack ends with the top() that its main thread calls.
LeavesATop == ~ Guarded /\ Ended => size # 0
=============================================================================
