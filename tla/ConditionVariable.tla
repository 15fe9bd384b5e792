------------------------- MODULE ConditionVariable -------------------------
(***************************************************************************)
(* condition_var.cc: data_preparation_thread pushes chunks until one says  *)
(* "bye"; data_processing_thread waits for them with a predicate, or       *)
(* data_processing_thread2 with a deadline and without a predicate.        *)
(*                                                                         *)
(* What a thread does with mut locked, between two waits, is one action;   *)
(* reading or printing a chunk of its own is part of the action beside it. *)
(***************************************************************************)
EXTENDS Sequences

CONSTANTS
  Input,      (* the chunks get_data reads from cin                        *)
  Bye,        (* the one that is_last_chunk                                *)
  Timed       (* whether data_processing_thread2 is the consumer           *)

VARIABLES
  input,      (* what get_data has not read yet                            *)
  data_queue,
  producer,   (* "push", "notify" after a push, "end"                      *)
  consumer,   (* "run", "wait" in data_cond, "woken", "timeout", "end"     *)
  processed   (* the arguments of process_data                             *)

vars == <<input, data_queue, producer, consumer, processed>>

Init ==
  /\ input = Input
  /\ data_queue = <<>>
  /\ producer = "push"
  /\ consumer = "run"
  /\ processed = <<>>

\* get_data and the block of the lock_guard.
Push ==
  /\ producer = "push"
  /\ input # <<>>
  /\ data_queue' = Append(data_queue, Head(input))
  /\ producer' = "notify"
  /\ UNCHANGED <<input, consumer, processed>>

notify_one == consumer' = IF consumer = "wait" THEN "woken" ELSE consumer

\* Mutant: break before notify_one.
NotifyUnlessLast == IF Head(input) = Bye THEN UNCHANGED consumer ELSE notify_one

NotifyChunk == notify_one

\* notify_one, without the lock, and the test of the chunk just pushed.
Notify ==
  /\ producer = "notify"
  /\ NotifyChunk
  /\ producer' = IF Head(input) = Bye THEN "end" ELSE "push"
  /\ input' = Tail(input)
  /\ UNCHANGED <<data_queue, processed>>

\* Mutant: process the front, pop later.
TakeNoPop ==
  /\ data_queue # <<>>
  /\ processed' = Append(processed, Head(data_queue))
  /\ consumer' = IF Head(data_queue) = Bye THEN "end" ELSE "run"
  /\ UNCHANGED <<input, data_queue, producer>>

\* front, pop and process_data.
TakeFront ==
  /\ data_queue # <<>>
  /\ processed' = Append(processed, Head(data_queue))
  /\ data_queue' = Tail(data_queue)
  /\ consumer' = IF Head(data_queue) = Bye THEN "end" ELSE "run"
  /\ UNCHANGED <<input, producer>>

ConsumerIs(from, to) ==
  consumer \in from /\ consumer' = to /\ UNCHANGED <<input, data_queue, producer, processed>>

\* data_cond.wait with the predicate: on entry and after every wakeup.
Wait == ~ Timed /\ data_queue = <<>> /\ ConsumerIs({"run", "woken"}, "wait")
Take == ~ Timed /\ consumer \in {"run", "woken"} /\ TakeFront

\* data_cond.wait_until sleeps whatever is in the queue; a thread that was
\* woken finds the deadline passed or goes back to the top of the loop.
WaitUntil    == Timed /\ ConsumerIs({"run"}, "wait")
TimeOut      == Timed /\ ConsumerIs({"wait", "woken"}, "timeout")
NoTimeout    == Timed /\ ConsumerIs({"woken"}, "run")
TimeoutEmpty == data_queue = <<>> /\ ConsumerIs({"timeout"}, "run")
TimeoutTake  == consumer = "timeout" /\ TakeFront

\* Either wait may end without a notification.
SpuriousWakeup == ConsumerIs({"wait"}, "woken")

Produce == Push \/ Notify
Consume == Wait \/ Take \/ WaitUntil \/ NoTimeout \/ TimeoutEmpty \/ TimeoutTake

Next == Produce \/ Consume \/ TimeOut \/ SpuriousWakeup

Ended == producer = "end" /\ consumer = "end"

\* Both threads run; three seconds pass now and then without a wakeup.
Fairness == WF_vars(Produce) /\ WF_vars(Consume) /\ SF_vars(TimeOut)

Spec == Init /\ [][Next]_vars /\ Fairness
----------------------------------------------------------------------------
(* Properties. *)

\* A consumer that waits with the predicate sleeps beside a chunk only while
\* the producer is between its push and its notify_one, which is outside the
\* lock: no notification comes too early for it.
SleepsOnlyBeforeNotify ==
  ~ Timed /\ consumer = "wait" /\ data_queue # <<>> => producer = "notify"

\* Every chunk up to the last one is processed, once and in order, and none
\* is left behind when both threads have ended.
OnTheWay == IF producer = "notify" THEN Tail(input) ELSE input

ProcessedInOrder ==
  /\ processed \o data_queue \o OnTheWay = Input
  /\ consumer = "end" => data_queue = <<>> /\ OnTheWay = <<>>
=============================================================================
