------------------------------- MODULE Tests -------------------------------
(***************************************************************************)
(* The tests of src/test that run the demonstrations of src/share_data,    *)
(* src/synchronize and src/thread_mgr.  ctest runs every test as a process *)
(* of its own (gtest_discover_tests in CMakeLists.txt): the first state    *)
(* chooses the test, and only the component it calls makes steps.          *)
(*                                                                         *)
(* The state of ThreadSafeQueue, and its parameters, come with EXTENDS; of *)
(* the other components there is an instance each, or two, one for either  *)
(* form that the tests run, on the same variables.  Their parameters are   *)
(* the arguments the tests pass.                                           *)
(***************************************************************************)
EXTENDS ThreadSafeQueue, TLC

CONSTANTS
  Chunks, Bye,      (* ConditionVariable: what is typed, and its last line  *)
  Messages, Last,   (* PackagedTask                                         *)
  Queries, Error,   (* Promise                                              *)
  Lists,            (* QuickSort                                            *)
  Poppers, Pushed,  (* SharedStack: the threads, and what a ThreadSafeStack *)
  SafeStack,        (* and a ThreadUnsafeStack hold at the start, the last   *)
  UnsafeStack,      (* one more elements than there are threads to pop it   *)
  Lhs, Rhs, Text,   (* StdLock                                              *)
  Users,            (* DataWrapper                                          *)
  Movables,         (* Movable, and the addresses new can return            *)
  Addresses,
  Others, Turns     (* DanglingRef                                          *)

IsSequence(s) == s \in Seq({s[i] : i \in DOMAIN s})

Distinct(f) == \A x, y \in DOMAIN f : f[x] = f[y] => x = y

ASSUME TestsAssumption ==
  /\ IsSequence(Chunks) /\ \A i \in DOMAIN Chunks : Chunks[i] = Bye => i = Len(Chunks)
  /\ IsSequence(Messages) /\ \A i \in DOMAIN Messages : Messages[i] = Last => i = Len(Messages)
  /\ IsSequence(Queries)
  /\ Lists \subseteq Seq(Nat)
  /\ IsFiniteSet(Poppers) /\ IsFiniteSet(DOMAIN Pushed) /\ Poppers \cap DOMAIN Pushed = {}
  /\ IsSequence(SafeStack) /\ Distinct(SafeStack) /\ Distinct(Pushed)
  /\ \A i \in DOMAIN SafeStack : \A p \in DOMAIN Pushed : SafeStack[i] # Pushed[p]
  /\ \A i \in DOMAIN SafeStack : SafeStack[i] # 0
  /\ \A p \in DOMAIN Pushed : Pushed[p] # 0
  /\ IsSequence(UnsafeStack) /\ Cardinality(Poppers) < Len(UnsafeStack)
  /\ IsFiniteSet(DOMAIN Lhs) /\ DOMAIN Rhs = DOMAIN Lhs
  /\ \E x, y \in DOMAIN Text : x # y /\ DOMAIN Text = {x, y}
  /\ \A t \in DOMAIN Lhs : Lhs[t] # Rhs[t] /\ {Lhs[t], Rhs[t]} = DOMAIN Text
  /\ DOMAIN Lhs \cap DOMAIN Text = {}
  /\ "nobody" \notin Poppers \cup DOMAIN Pushed \cup DOMAIN Lhs \cup Users
  /\ {"unborn", "nullptr"} \cap Addresses = {}
  /\ Turns \in Nat

VARIABLES
  test,
  (* ConditionVariable   *) cv_input, cv_queue, producer, consumer, processed,
  (* PackagedTask        *) gui_todo, tasks, is_quit_message, gui, task, ran,
  (* Promise             *) started, shared, results,
  (* QuickSort           *) lst, calls,
  (* SharedStack         *) cells, size, stack_m, stack_pc, value, finish,
  (* NestedMutex         *) x_i, x_m, temp, x_pc,
  (* StdLock             *) strings, p_str, xx_m, xx_pc,
  (* MutualJoin          *) join_pc, handle, terminated,
  (* DataWrapper         *) data_a, data_b, data_m, data_pc,
  (* LockGuardList       *) some_list, main,
  (* Movable             *) int_p, heap,
  (* DanglingRef         *) run, reader_i, reader, ref_i

cv_vars == <<cv_input, cv_queue, producer, consumer, processed>>
pt_vars == <<gui_todo, tasks, is_quit_message, gui, task, ran>>
pr_vars == <<started, shared, results>>
qs_vars == <<lst, calls>>
ts_vars == <<cells, size, stack_m, stack_pc, value, finish>>
nm_vars == <<x_i, x_m, temp, x_pc>>
sl_vars == <<strings, p_str, xx_m, xx_pc>>
mj_vars == <<join_pc, handle, terminated>>
dw_vars == <<data_a, data_b, data_m, data_pc>>
lg_vars == <<some_list, main>>
mv_vars == <<int_p, heap>>
dr_vars == <<run, reader_i, reader, ref_i>>

CV == INSTANCE ConditionVariable WITH
  Input <- Chunks, Timed <- FALSE, input <- cv_input, data_queue <- cv_queue
CV2 == INSTANCE ConditionVariable WITH
  Input <- Chunks, Timed <- TRUE, input <- cv_input, data_queue <- cv_queue

PT == INSTANCE PackagedTask WITH todo <- gui_todo

PR == INSTANCE Promise

QS  == INSTANCE QuickSort WITH Parallel <- FALSE
QS2 == INSTANCE QuickSort WITH Parallel <- TRUE

TS == INSTANCE SharedStack WITH
  Guarded <- TRUE, Initial <- SafeStack, m <- stack_m, pc <- stack_pc
TU == INSTANCE SharedStack WITH
  Guarded <- FALSE, Pushed <- <<>>, Initial <- UnsafeStack, m <- stack_m, pc <- stack_pc

NM == INSTANCE NestedMutex WITH
  Lhs <- [t |-> "a", d |-> "b"], Rhs <- [t |-> "b", d |-> "a"], I <- [a |-> 10, b |-> 20],
  i <- x_i, m <- x_m, pc <- x_pc

SL == INSTANCE StdLock WITH heap <- strings, m <- xx_m, pc <- xx_pc

MJ == INSTANCE MutualJoin WITH pc <- join_pc

DW == INSTANCE DataWrapper WITH
  Kept <- FALSE, Threads <- Users,
  a <- data_a, b <- data_b, m_ <- data_m, pc <- data_pc
DW2 == INSTANCE DataWrapper WITH
  Kept <- TRUE, Threads <- Users,
  a <- data_a, b <- data_b, m_ <- data_m, pc <- data_pc

LG == INSTANCE LockGuardList WITH Numbers <- 4, Sought <- 2

MV == INSTANCE Movable WITH
  Objects <- Movables, p <- int_p

DR == INSTANCE DanglingRef WITH
  TEST_VAL <- 100, Max <- Turns, i <- reader_i, pc <- reader
----------------------------------------------------------------------------
Names == {
  "test_threadsafe_queue", "test_condition_var", "test_condition_var2", "test_packged_task",
  "test_promise", "test_seq_quicksort", "test_parallel_quicksort", "test_threadsafe_stack",
  "test_threadunsafe_stack", "test_deadlock_nestedmutex", "test_stdlock",
  "test_deadlock_mutualjoin", "test_mutex_hole", "test_unqiue_lock", "test_lock_guard",
  "test_movable", "test_dangling_ref"}

TestInit ==
  /\ test \in Names
  /\ Init /\ CV!Init /\ PT!Init /\ PR!Init /\ QS!Init
  /\ IF test = "test_threadunsafe_stack" THEN TU!Init ELSE TS!Init
  /\ NM!Init /\ SL!Init /\ MJ!Init /\ DW!Init /\ LG!Init /\ MV!Init /\ DR!Init

\* The component that the test calls makes a step A, all others stand still.
Frame(tests, component) == IF test \in tests THEN TRUE ELSE UNCHANGED component

OthersIdle ==
  /\ UNCHANGED test
  /\ Frame({"test_threadsafe_queue"}, vars)
  /\ Frame({"test_condition_var", "test_condition_var2"}, cv_vars)
  /\ Frame({"test_packged_task"}, pt_vars)
  /\ Frame({"test_promise"}, pr_vars)
  /\ Frame({"test_seq_quicksort", "test_parallel_quicksort"}, qs_vars)
  /\ Frame({"test_threadsafe_stack", "test_threadunsafe_stack"}, ts_vars)
  /\ Frame({"test_deadlock_nestedmutex"}, nm_vars)
  /\ Frame({"test_stdlock"}, sl_vars)
  /\ Frame({"test_deadlock_mutualjoin"}, mj_vars)
  /\ Frame({"test_mutex_hole", "test_unqiue_lock"}, dw_vars)
  /\ Frame({"test_lock_guard"}, lg_vars)
  /\ Frame({"test_movable"}, mv_vars)
  /\ Frame({"test_dangling_ref"}, dr_vars)

test_threadsafe_queue     == test = "test_threadsafe_queue"     /\ Next     /\ OthersIdle
test_condition_var        == test = "test_condition_var"        /\ CV!Next  /\ OthersIdle
test_condition_var2       == test = "test_condition_var2"       /\ CV2!Next /\ OthersIdle
test_packged_task         == test = "test_packged_task"         /\ PT!Next  /\ OthersIdle
test_promise              == test = "test_promise"              /\ PR!Next  /\ OthersIdle
test_seq_quicksort        == test = "test_seq_quicksort"        /\ QS!Next  /\ OthersIdle
test_parallel_quicksort   == test = "test_parallel_quicksort"   /\ QS2!Next /\ OthersIdle
test_threadsafe_stack     == test = "test_threadsafe_stack"     /\ TS!Next  /\ OthersIdle
test_threadunsafe_stack   == test = "test_threadunsafe_stack"   /\ TU!Next  /\ OthersIdle
test_deadlock_nestedmutex == test = "test_deadlock_nestedmutex" /\ NM!Next  /\ OthersIdle
test_stdlock              == test = "test_stdlock"              /\ SL!Next  /\ OthersIdle
test_deadlock_mutualjoin  == test = "test_deadlock_mutualjoin"  /\ MJ!Next  /\ OthersIdle
test_mutex_hole           == test = "test_mutex_hole"           /\ DW!Next  /\ OthersIdle
test_unqiue_lock          == test = "test_unqiue_lock"          /\ DW2!Next /\ OthersIdle
test_lock_guard           == test = "test_lock_guard"           /\ LG!Next  /\ OthersIdle
test_movable              == test = "test_movable"              /\ MV!Next  /\ OthersIdle
test_dangling_ref         == test = "test_dangling_ref"         /\ DR!Next  /\ OthersIdle

\* Where a test may stop for good: its end; for the one that is there to
\* deadlock, its deadlock; the calls of Movables may stop anywhere.
Over ==
  \/ test \in {"test_condition_var", "test_condition_var2"} /\ CV!Ended
  \/ test = "test_packged_task" /\ PT!Ended
  \/ test = "test_promise" /\ PR!Ended
  \/ test \in {"test_seq_quicksort", "test_parallel_quicksort"} /\ QS!Ended
  \/ test = "test_threadsafe_stack" /\ TS!Ended
  \/ test = "test_threadunsafe_stack" /\ TU!Ended
  \/ test = "test_deadlock_nestedmutex" /\ (NM!Ended \/ NM!Circle)
  \/ test = "test_stdlock" /\ SL!Ended
  \/ test = "test_deadlock_mutualjoin" /\ MJ!Ended
  \/ test \in {"test_mutex_hole", "test_unqiue_lock"} /\ DW!Ended
  \/ test = "test_lock_guard" /\ LG!Ended
  \/ test = "test_movable"
  \/ test = "test_dangling_ref" /\ DR!Ended

test_vars ==
  <<test, vars, cv_vars, pt_vars, pr_vars, qs_vars, ts_vars, nm_vars, sl_vars, mj_vars,
    dw_vars, lg_vars, mv_vars, dr_vars>>

Stop == Over /\ UNCHANGED test_vars

TestNext ==
  \/ test_threadsafe_queue \/ test_condition_var \/ test_condition_var2 \/ test_packged_task
  \/ test_promise \/ test_seq_quicksort \/ test_parallel_quicksort \/ test_threadsafe_stack
  \/ test_threadunsafe_stack \/ test_deadlock_nestedmutex \/ test_stdlock
  \/ test_deadlock_mutualjoin \/ test_mutex_hole \/ test_unqiue_lock \/ test_lock_guard
  \/ test_movable \/ test_dangling_ref
  \/ Stop

\* The tests with a thread that polls, or wakes up in vain.
Polling ==
  {"test_threadsafe_queue", "test_condition_var", "test_condition_var2", "test_packged_task",
   "test_lock_guard"}

\* These need every thread to run, and nobody can count on spurious wakeups;
\* where each step gets nearer to the end, it is enough that there is a next one.
TestFairness ==
  /\ WF_test_vars(test \notin Polling /\ TestNext)
  /\ \A q \in Producers : WF_vars(test = "test_threadsafe_queue" /\ Push(q))
  /\ \A c \in Consumers : WF_vars(test = "test_threadsafe_queue" /\ (WaitAndPop(c) \/ Wait(c)))
  /\ WF_cv_vars(test = "test_condition_var" /\ CV!Produce)
  /\ WF_cv_vars(test = "test_condition_var" /\ CV!Consume)
  /\ WF_cv_vars(test = "test_condition_var2" /\ CV2!Produce)
  /\ WF_cv_vars(test = "test_condition_var2" /\ CV2!Consume)
  /\ SF_cv_vars(test = "test_condition_var2" /\ CV2!TimeOut)
  /\ WF_pt_vars(test = "test_packged_task" /\ PT!Post)
  /\ WF_pt_vars(test = "test_packged_task" /\ PT!Gui)
  /\ WF_lg_vars(test = "test_lock_guard" /\ LG!Add)
  /\ WF_lg_vars(test = "test_lock_guard" /\ (LG!Find \/ LG!Exit))

TestSpec == TestInit /\ [][TestNext]_test_vars /\ TestFairness
----------------------------------------------------------------------------
(* Properties: the components', for the instances the tests run. *)

\* A consumer that waits with the predicate sleeps beside a chunk only while
\* the producer is between its push and its notify_one.
SleepsOnlyBeforeNotify == test = "test_condition_var" => CV!SleepsOnlyBeforeNotify

\* Either consumer processes every chunk once and in order, and leaves none.
ProcessedInOrder == CV!ProcessedInOrder

\* gui_thread runs every message once and in order before it quits.
MessagesRunInOrder == PT!MessagesRunInOrder

\* The futures yield each query's answer or exception at the query's place.
AnswersInOrder == PR!AnswersInOrder

\* Both quicksorts return the elements of their list in order.
Sorts == QS!Sorts

\* The comment of quicksort.h:23 on divide_point, which the trace dereferences.
DividePointIsElement == test = "test_seq_quicksort" => QS!DividePointIsElement

\* No element of a ThreadSafeStack is popped twice or lost.
PoppedOnce == test = "test_threadsafe_stack" => TS!PoppedOnce

\* Two unsafe_pops leave the main thread of their test an element to look at.
LeavesATop == test = "test_threadunsafe_stack" => TU!LeavesATop

\* Swaps under std::lock exchange the texts, and leak a string each.
SwapsExchange == SL!SwapsExchange

\* A program whose threads join each other cannot end but in std::terminate.
NobodyJoinsTy == MJ!NobodyJoinsTy

\* Data used under the lock that was kept is never half one thread's.
NeverMixed == test = "test_unqiue_lock" => DW2!NeverMixed

\* An int that Movables hand on has one owner at most, and is still there.
UniqueOwner == MV!UniqueOwner

\* Every test comes to its end: the consumers get the last chunk also when
\* notifications find nobody or wake a thread up for nothing, gui_thread its
\* shutdown message, the main threads their futures, sorted parts and joins,
\* the poller its number; and two nested swaps end or stop in their circle.
\* (The consumers of the ThreadSafeQueue have EveryItemIsFetched.)
TestsEnd == <>(Over \/ test = "test_threadsafe_queue")
=============================================================================
