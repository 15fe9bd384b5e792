-------------------------- MODULE HierarchialMutex --------------------------
(***************************************************************************)
(* hierarchial_mutex (include/share_data.h, share_data/                    *)
(* hierarchial_mutex.cc): a mutex with a level.  A thread-local cursor is  *)
(* the level of the mutex the thread locked last; lock and try_lock throw  *)
(* unless the cursor is above the level of the mutex they are called for,  *)
(* and unlock puts the cursor back to what it was.                         *)
(*                                                                         *)
(* The threads use the mutexes as thread_a and thread_b do, through        *)
(* lock_guards in nested scopes: a scope ends last in, first out, also     *)
(* when an exception leaves it on its way to the handler.                  *)
(***************************************************************************)
EXTENDS Integers, Sequences, FiniteSets

CONSTANTS
  Threads,
  Mutexes,
  Level,      (* hierarchy_value of each mutex                             *)
  Top,        (* ULONG_MAX                                                 *)
  NONE,       (* no thread, no mutex                                       *)
  Calls       (* how many times each thread calls lock or try_lock         *)

ASSUME HierarchyAssumption ==
  /\ IsFiniteSet(Threads)
  /\ NONE \notin Threads \cup Mutexes
  /\ Top \in Nat
  /\ Level \in [Mutexes -> 0 .. Top]
  /\ Calls \in [Threads -> Nat]

VARIABLES
  owner,      (* internal_mutex: the thread that has it                    *)
  previous,   (* previous_hierarchy_value                                  *)
  cursor,     (* this_thread_hierarchy_value                               *)
  pc,         (* where each thread is                                      *)
  want,       (* the mutex lock was called for, until it returns           *)
  held,       (* the mutexes its open scopes have locked, in order         *)
  todo        (* the calls it has left                                     *)

mutex == <<owner, previous>>
vars  == <<mutex, cursor, pc, want, held, todo>>

Init ==
  /\ owner = [m \in Mutexes |-> NONE]
  /\ previous = [m \in Mutexes |-> 0]
  /\ cursor = [t \in Threads |-> Top]
  /\ pc = [t \in Threads |-> "run"]
  /\ want = [t \in Threads |-> NONE]
  /\ held = [t \in Threads |-> <<>>]
  /\ todo = Calls

Goto(t, l) == pc' = [pc EXCEPT ![t] = l]

\* Mutant: the comparison of the comment, smaller or equal.
ViolatesAbove(t, m) == cursor[t] < Level[m]

\* check_for_hierarchy_violation
Violates(t, m) == cursor[t] <= Level[m]

\* Mutant: one call more than there are.
CallOnceMore(t) ==
  /\ pc[t] = "run"
  /\ todo[t] >= 0
  /\ todo' = [todo EXCEPT ![t] = @ - 1]

Call(t) ==
  /\ pc[t] = "run"
  /\ todo[t] > 0
  /\ todo' = [todo EXCEPT ![t] = @ - 1]

Wants(t, m) == want' = [want EXCEPT ![t] = m]

\* internal_mutex is t's; update_hierarchy_value.
Lock(t, m) ==
  /\ owner[m] = NONE
  /\ owner' = [owner EXCEPT ![m] = t]
  /\ previous' = [previous EXCEPT ![m] = cursor[t]]
  /\ cursor' = [cursor EXCEPT ![t] = Level[m]]
  /\ held' = [held EXCEPT ![t] = Append(@, m)]
  /\ Goto(t, "run")

\* lock, up to internal_mutex.lock() ...
LockCall(t, m) ==
  /\ Call(t)
  /\ ~Violates(t, m)
  /\ Wants(t, m)
  /\ Goto(t, "acquire")
  /\ UNCHANGED <<mutex, cursor, held>>

\* ... and from its return on.
Acquire(t) ==
  /\ pc[t] = "acquire"
  /\ Lock(t, want[t])
  /\ Wants(t, NONE)
  /\ UNCHANGED todo

TryLock(t, m) == Call(t) /\ ~Violates(t, m) /\ Lock(t, m) /\ UNCHANGED want

\* try_lock returns false, as std::mutex may also do for no reason.
TryLockFails(t, m) ==
  /\ Call(t)
  /\ ~Violates(t, m)
  /\ UNCHANGED <<mutex, cursor, pc, want, held>>

\* lock or try_lock throws std::logic_error.
LockThrows(t, m) ==
  /\ Call(t)
  /\ Violates(t, m)
  /\ Wants(t, m)
  /\ Goto(t, "throw")
  /\ UNCHANGED <<mutex, cursor, held>>

Innermost(t) == held[t][Len(held[t])]

\* Mutant: the cursor goes back to the top.
RestoredTop(t) == Top

Restored(t) == previous[Innermost(t)]

\* The innermost scope ends, and with it its lock_guard.  If unlock throws, it
\* does so in a destructor: std::terminate.
Unlock(t) ==
  /\ pc[t] \in {"run", "throw"}
  /\ held[t] # <<>>
  /\ IF cursor[t] = Level[Innermost(t)]
     THEN /\ cursor' = [cursor EXCEPT ![t] = Restored(t)]
          /\ owner' = [owner EXCEPT ![Innermost(t)] = NONE]
          /\ held' = [held EXCEPT ![t] = SubSeq(@, 1, Len(@) - 1)]
          /\ UNCHANGED pc
     ELSE Goto(t, "terminate") /\ UNCHANGED <<cursor, owner, held>>
  /\ UNCHANGED <<previous, want, todo>>

\* The handler outside of all scopes, as in thread_b.
Catch(t) ==
  /\ pc[t] = "throw"
  /\ held[t] = <<>>
  /\ Goto(t, "run")
  /\ Wants(t, NONE)
  /\ UNCHANGED <<mutex, cursor, held, todo>>

Finished(t) == pc[t] = "run" /\ held[t] = <<>> /\ todo[t] = 0

Step(t) ==
  \/ \E m \in Mutexes : LockCall(t, m) \/ TryLock(t, m) \/ TryLockFails(t, m) \/ LockThrows(t, m)
  \/ Acquire(t)
  \/ Unlock(t)
  \/ Catch(t)

Ended == (\A t \in Threads : Finished(t)) /\ UNCHANGED vars

Next == (\E t \in Threads : Step(t)) \/ Ended

\* A scope ends sooner or later, and a free mutex is given to its only waiter.
Fairness == \A t \in Threads : WF_vars(Step(t))

Spec == Init /\ [][Next]_vars /\ Fairness
----------------------------------------------------------------------------
(* Properties. *)

\* Every variable holds a value of its C++ type.
TypeOK ==
  /\ owner \in [Mutexes -> Threads \cup {NONE}]
  /\ previous \in [Mutexes -> 0 .. Top]
  /\ cursor \in [Threads -> 0 .. Top]
  /\ pc \in [Threads -> {"run", "acquire", "throw", "terminate"}]
  /\ want \in [Threads -> Mutexes \cup {NONE}]
  /\ held \in [Threads -> Seq(Mutexes)]
  /\ todo \in [Threads -> Nat]

Waiting(t) == pc[t] = "acquire"

\* The levels a thread holds strictly descend, and the cursor, with the
\* previous values saved in the mutexes, spells them out: each unlock of
\* scopes that nest finds the cursor at its own level.
ScopesOf(t) ==
  /\ \A i \in 1 .. Len(held[t]) : owner[held[t][i]] = t
  /\ \A i \in 1 .. Len(held[t]) - 1 : /\ Level[held[t][i + 1]] < Level[held[t][i]]
                                      /\ previous[held[t][i + 1]] = Level[held[t][i]]
  /\ held[t] # <<>> => previous[held[t][1]] = Top
  /\ cursor[t] = IF held[t] = <<>> THEN Top ELSE Level[Innermost(t)]

CursorFollowsScopes == \A t \in Threads : ScopesOf(t)

\* No lock_guard's destructor ever meets the exception of unlock.
NoTerminate == \A t \in Threads : pc[t] # "terminate"

\* No threads wait for each other in a circle: among any threads there is one
\* that does not wait for a mutex held by one of them.
NoDeadlock ==
  \A S \in SUBSET Threads :
    S # {} => \E t \in S : Waiting(t) => owner[want[t]] \notin S

\* Every thread gets through its calls: a lock that does not throw returns.
EveryLockReturns == \A t \in Threads : <>Finished(t)

\* "Only a mutex less than or equal to this cursor is allowed to be locked":
\* lock throws for no other reason than a greater level.
ThrowsOnlyAbove ==
  [][\A t \in Threads : pc[t] = "run" /\ pc'[t] = "throw" => Level[want'[t]] > cursor[t]]_vars
=============================================================================
