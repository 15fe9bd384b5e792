---------------------------- MODULE NestedMutex ----------------------------
(***************************************************************************)
(* X and swap (share_data.h, deadlock_nestedmutex.cc): each of two threads *)
(* swaps the same two objects, named the other way round.  An assignment   *)
(* locks the mutex of the right side, sleeps, and locks the left one's.    *)
(***************************************************************************)
EXTENDS Naturals

CONSTANTS
  Lhs, Rhs,   (* Lhs[t], Rhs[t]: the objects that thread t swaps           *)
  I           (* I[x]: the value set(n) gave to x                          *)

Threads == DOMAIN Lhs
Objects == DOMAIN I
Nobody  == "nobody"

VARIABLES
  i, m,       (* the members of each X; m[x] is the owner                  *)
  temp,       (* the local copy of a swap                                  *)
  pc

vars == <<i, m, temp, pc>>

Init ==
  /\ i = I
  /\ m = [x \in Objects |-> Nobody]
  /\ temp = [t \in Threads |-> 0]
  /\ pc = [t \in Threads |-> "copy"]

Goto(t, label) == pc' = [pc EXCEPT ![t] = label]

\* X temp = lhs: the copy constructor locks nothing.
Copy(t) ==
  /\ pc[t] = "copy"
  /\ temp' = [temp EXCEPT ![t] = i[Lhs[t]]]
  /\ Goto(t, IF Lhs[t] = Rhs[t] THEN "lock_back" ELSE "lock_rhs")
  /\ UNCHANGED <<i, m>>

\* lhs = rhs: nothing for one object, otherwise both mutexes, nested.
LockRhs(t) ==
  /\ pc[t] = "lock_rhs"
  /\ m[Rhs[t]] = Nobody
  /\ m' = [m EXCEPT ![Rhs[t]] = t]
  /\ Goto(t, "lock_lhs")
  /\ UNCHANGED <<i, temp>>

LockLhs(t) ==
  /\ pc[t] = "lock_lhs"
  /\ m[Lhs[t]] = Nobody
  /\ m' = [m EXCEPT ![Lhs[t]] = t]
  /\ Goto(t, "assign")
  /\ UNCHANGED <<i, temp>>

\* Mutant: rhs.m locked by hand and not unlocked.
KeepRhs(t) == UNCHANGED m

UnlockRhs(t) == m' = [m EXCEPT ![Rhs[t]] = Nobody]

\* The assignment, and the two lock_guards that go out of scope, the later one first.
Assign(t) ==
  /\ pc[t] = "assign"
  /\ i' = [i EXCEPT ![Lhs[t]] = i[Rhs[t]]]
  /\ m' = [m EXCEPT ![Lhs[t]] = Nobody]
  /\ Goto(t, "unlock")
  /\ UNCHANGED temp

Release(t) ==
  /\ pc[t] = "unlock"
  /\ UnlockRhs(t)
  /\ Goto(t, "lock_back")
  /\ UNCHANGED <<i, temp>>

\* rhs = temp: temp's mutex is nobody else's.
LockBack(t) ==
  /\ pc[t] = "lock_back"
  /\ m[Rhs[t]] = Nobody
  /\ m' = [m EXCEPT ![Rhs[t]] = t]
  /\ Goto(t, "assign_back")
  /\ UNCHANGED <<i, temp>>

AssignBack(t) ==
  /\ pc[t] = "assign_back"
  /\ i' = [i EXCEPT ![Rhs[t]] = temp[t]]
  /\ m' = [m EXCEPT ![Rhs[t]] = Nobody]
  /\ Goto(t, "end")
  /\ UNCHANGED temp

Step(t) ==
  \/ Copy(t) \/ LockRhs(t) \/ LockLhs(t) \/ Assign(t) \/ Release(t)
  \/ LockBack(t) \/ AssignBack(t)

Next == \E t \in Threads : Step(t)

\* The deadlock that the test announces: in their first assignments, each of
\* the threads with the mutex of its right side, and waiting for the other's.
Circle == \A t \in Threads : pc[t] = "lock_lhs" /\ m[Lhs[t]] \notin {t, Nobody}

Ended == \A t \in Threads : pc[t] = "end"

Spec == Init /\ [][Next]_vars /\ WF_vars(Next)
=============================================================================
