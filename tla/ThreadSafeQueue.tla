-------------------------- MODULE ThreadSafeQueue --------------------------
(***************************************************************************)
(* ThreadSafeQueue (include/threadsafe_queue.h), used the way              *)
(* test_threadsafe_queue does: producers push the items of an array,       *)
(* consumers wait_and_pop until they get one that says "Bye".              *)
(*                                                                         *)
(* Every operation holds mut from its first access to its last and blocks  *)
(* nowhere but in wait, so one action is one critical section: a whole     *)
(* push or try_pop, and of wait_and_pop the part up to the wait, or from   *)
(* the return of the wait on.  An exception of make_shared or of a copy    *)
(* leaves the thread's function and ends the program; it is left out.      *)
(***************************************************************************)
EXTENDS Naturals, Sequences, FiniteSets

CONSTANTS
  Producers,  (* threads that push                                         *)
  Consumers,  (* threads that wait_and_pop                                 *)
  Pollers,    (* threads that try_pop                                      *)
  Values,     (* the items                                                 *)
  Byes,       (* those that tell a consumer to end                         *)
  Initial,    (* what the constructor fills the queue with                 *)
  Items,      (* Items[p]: the items p pushes, in order                    *)
  Polls       (* Polls[p]: how many times p calls try_pop                  *)

ASSUME QueueAssumption ==
  /\ IsFiniteSet(Producers) /\ IsFiniteSet(Consumers)
  /\ Byes \subseteq Values
  /\ Initial \in Seq(Values)
  /\ Items \in [Producers -> Seq(Values)]
  /\ Polls \in [Pollers -> Nat]

VARIABLES
  data_queue,
  pc,         (* consumers: "run", "wait" in data_cond, "woken", "end"     *)
  todo,       (* the items a producer has not pushed yet                   *)
  polls,      (* the calls a poller has left                               *)
  popped      (* every item that was ever popped, in order                 *)

vars == <<data_queue, pc, todo, polls, popped>>

Init ==
  /\ data_queue = Initial
  /\ pc = [c \in Consumers |-> "run"]
  /\ todo = Items
  /\ polls = Polls
  /\ popped = <<>>

Sleepers == {c \in Consumers : pc[c] = "wait"}
Woken    == {c \in Consumers : pc[c] = "woken"}

\* data_cond.notify_one: one waiter, if there is one.
notify_one ==
  IF Sleepers = {} THEN UNCHANGED pc
  ELSE \E c \in Sleepers : pc' = [pc EXCEPT ![c] = "woken"]

\* Mutant: notify only when the queue was empty, "since nobody waits otherwise".
NotifyWhenFirst == IF data_queue = <<>> THEN notify_one ELSE UNCHANGED pc

Notify == notify_one

Push(p) ==
  /\ todo[p] # <<>>
  /\ data_queue' = Append(data_queue, Head(todo[p]))
  /\ todo' = [todo EXCEPT ![p] = Tail(@)]
  /\ Notify
  /\ UNCHANGED <<polls, popped>>

\* Mutant: front, and no pop.
FrontOnly ==
  /\ data_queue # <<>>
  /\ popped' = Append(popped, Head(data_queue))
  /\ UNCHANGED data_queue

\* front and pop.
TakeFront ==
  /\ data_queue # <<>>
  /\ popped' = Append(popped, Head(data_queue))
  /\ data_queue' = Tail(data_queue)

\* In wait_and_pop with mut locked: on entry, or when wait has locked it again.
HasLock(c) == pc[c] \in {"run", "woken"}

WaitAndPop(c) ==
  /\ HasLock(c)
  /\ TakeFront
  /\ pc' = [pc EXCEPT ![c] = IF Head(data_queue) \in Byes THEN "end" ELSE "run"]
  /\ UNCHANGED <<todo, polls>>

\* The predicate of the wait is false: sleep, with mut unlocked.
Wait(c) ==
  /\ HasLock(c)
  /\ data_queue = <<>>
  /\ pc' = [pc EXCEPT ![c] = "wait"]
  /\ UNCHANGED <<data_queue, todo, polls, popped>>

\* A wait may wake up without a notification.
SpuriousWakeup(c) ==
  /\ pc[c] = "wait"
  /\ pc' = [pc EXCEPT ![c] = "woken"]
  /\ UNCHANGED <<data_queue, todo, polls, popped>>

\* Mutant: poll once more.
PollOnceMore(p) == polls[p] >= 0 /\ polls' = [polls EXCEPT ![p] = @ - 1]

Poll(p) == polls[p] > 0 /\ polls' = [polls EXCEPT ![p] = @ - 1]

TryPop(p) == Poll(p) /\ TakeFront /\ UNCHANGED <<pc, todo>>

TryPopEmpty(p) == Poll(p) /\ data_queue = <<>> /\ UNCHANGED <<data_queue, pc, todo, popped>>

\* The consumers left are asleep, for good if a poller took their "Bye".
Ended ==
  /\ \A p \in Producers : todo[p] = <<>>
  /\ \A c \in Consumers : pc[c] \in {"wait", "end"}
  /\ UNCHANGED vars

Next ==
  \/ \E p \in Producers : Push(p)
  \/ \E c \in Consumers : WaitAndPop(c) \/ Wait(c) \/ SpuriousWakeup(c)
  \/ \E p \in Pollers : TryPop(p) \/ TryPopEmpty(p)
  \/ Ended

\* Every thread that is not asleep runs, and gets mut when it asks for it.
Fairness ==
  /\ \A p \in Producers : WF_vars(Push(p))
  /\ \A c \in Consumers : WF_vars(WaitAndPop(c) \/ Wait(c))

Spec == Init /\ [][Next]_vars /\ Fairness
----------------------------------------------------------------------------
(* Properties. *)

\* Every variable holds a value of its C++ type.
TypeOK ==
  /\ data_queue \in Seq(Values)
  /\ pc \in [Consumers -> {"run", "wait", "woken", "end"}]
  /\ todo \in [Producers -> Seq(Values)]
  /\ polls \in [Pollers -> Nat]
  /\ popped \in Seq(Values)

\* While a consumer sleeps, there is for every item in the queue a consumer
\* that has been woken and will come for one: a notification of push that
\* finds nobody asleep is not needed later.
NoLostWakeup == Sleepers # {} => Len(data_queue) <= Cardinality(Woken)

\* The items popped so far and those in the queue are, in this order, what was
\* in the queue first and what each producer has pushed, and they are no more
\* than that: no item, of the constructor or of a producer, is lost, handed out
\* twice, or overtaken by a later one of the same producer (push, line 26, and
\* front and pop, lines 35, 44, 53 and 62).
Of(p) == {Items[p][i] : i \in 1 .. Len(Items[p])}

PlacesOf(p, all, n) == {i \in 1 .. n : all[i] \in Of(p)}

PushedBy(p, all, n) == Cardinality(PlacesOf(p, all, n))

\* The calls of push that have returned: the first, second ... of every p.
CallsOf(p) == {p} \X (1 .. Len(Items[p]) - Len(todo[p]))
Pushes     == UNION {CallsOf(p) : p \in Producers}

InOrder ==
  LET all == popped \o data_queue
  IN  /\ Len(all) = Len(Initial) + Cardinality(Pushes)
      /\ SubSeq(all, 1, Len(Initial)) = Initial
      /\ \A p \in Producers :
           /\ \A n \in 1 .. Len(all) : all[n] \in Of(p) => all[n] = Items[p][PushedBy(p, all, n)]
           /\ todo[p] = SubSeq(Items[p], PushedBy(p, all, Len(all)) + 1, Len(Items[p]))

\* No consumer sleeps for good while there is something in the queue.
EveryItemIsFetched ==
  \A c \in Consumers :
    pc[c] = "wait" /\ data_queue # <<>> ~> pc[c] # "wait" \/ data_queue = <<>>
=============================================================================
