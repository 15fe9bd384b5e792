------------------------------ MODULE StdLock ------------------------------
(***************************************************************************)
(* stdlock (deadlock_stdlock.cc): each of two threads swaps the same two   *)
(* XX, named the other way round, under std::lock.  A some_big_object owns *)
(* a string on the heap; nothing deletes one before the test is over.      *)
(***************************************************************************)
EXTENDS Naturals, Sequences, FiniteSets

CONSTANTS
  Lhs, Rhs,   (* Lhs[t], Rhs[t]: the XX that thread t swaps                *)
  Text        (* Text[x]: what x was constructed from                      *)

Threads == DOMAIN Lhs
XX      == DOMAIN Text
Nobody  == "nobody"
nullptr == 0

VARIABLES
  heap,       (* the strings made so far; an address is an index           *)
  p_str,      (* of the data of each XX, and of each swap's temp           *)
  m,          (* m[x]: the owner of x's mutex                              *)
  pc

vars == <<heap, p_str, m, pc>>

\* Where the allocator puts the strings of the XX does not matter.
Address ==
  CHOOSE f \in [XX -> 1 .. Cardinality(XX)] : \A x, y \in XX : x # y => f[x] # f[y]

Init ==
  /\ heap = [a \in 1 .. Cardinality(XX) |-> Text[CHOOSE x \in XX : Address[x] = a]]
  /\ p_str = [x \in XX \cup Threads |-> IF x \in XX THEN Address[x] ELSE nullptr]
  /\ m = [x \in XX |-> Nobody]
  /\ pc = [t \in Threads |-> "lock"]

Goto(t, label) == pc' = [pc EXCEPT ![t] = label]

\* Mutant: the two locks of the comment, without the std::lock that takes them.
LockDeferred(t) == UNCHANGED m

\* std::lock takes both mutexes or, while one of them is taken, none.
LockBoth(t) ==
  /\ m[Lhs[t]] = Nobody
  /\ m[Rhs[t]] = Nobody
  /\ m' = [m EXCEPT ![Lhs[t]] = t, ![Rhs[t]] = t]

Lock(t) ==
  /\ pc[t] = "lock"
  /\ LockBoth(t)
  /\ Goto(t, "copy")
  /\ UNCHANGED <<heap, p_str>>

\* temp = std::move(lhs): there is no move constructor, so lhs is copied.
Copy(t) ==
  /\ pc[t] = "copy"
  /\ heap' = Append(heap, heap[p_str[Lhs[t]]])
  /\ p_str' = [p_str EXCEPT ![t] = Len(heap')]
  /\ Goto(t, "move")
  /\ UNCHANGED m

\* operator=(some_big_object&&): the string that to had is forgotten.
MoveAssign(to, from) == p_str' = [p_str EXCEPT ![to] = p_str[from], ![from] = nullptr]

Move(t) ==
  /\ pc[t] = "move"
  /\ MoveAssign(Lhs[t], Rhs[t])
  /\ Goto(t, "move_back")
  /\ UNCHANGED <<heap, m>>

MoveBack(t) ==
  /\ pc[t] = "move_back"
  /\ MoveAssign(Rhs[t], t)
  /\ Goto(t, "unlock")
  /\ UNCHANGED <<heap, m>>

\* The destructors of temp, which has no string left, and of the lock_guards.
Unlock(t) ==
  /\ pc[t] = "unlock"
  /\ m' = [x \in XX |-> IF m[x] = t THEN Nobody ELSE m[x]]
  /\ Goto(t, "end")
  /\ UNCHANGED <<heap, p_str>>

Next == \E t \in Threads : Lock(t) \/ Copy(t) \/ Move(t) \/ MoveBack(t) \/ Unlock(t)

Ended == \A t \in Threads : pc[t] = "end"

Spec == Init /\ [][Next]_vars /\ WF_vars(Next)
----------------------------------------------------------------------------
(* Properties. *)

\* Between two swaps the objects have the texts they began with, exchanged if
\* the number of swaps so far is odd; no string has two owners; and every
\* swap has left one string behind that nobody owns or will ever delete.
SwapsExchange ==
  LET swaps == Cardinality({t \in Threads : pc[t] = "end"})
  IN  (\A x \in XX : m[x] = Nobody) =>
        /\ \A x \in XX : p_str[x] # nullptr
        /\ \A x, y \in XX : x # y =>
             /\ p_str[x] # p_str[y]
             /\ heap[p_str[x]] = IF swaps % 2 = 0 THEN Text[x] ELSE Text[y]
        /\ Len(heap) = Cardinality(XX) + swaps
=============================================================================
