---------------------------- MODULE TestsProofs ----------------------------
(***************************************************************************)
(* What is proved of a component for any parameters holds of the tests     *)
(* that run it: a step of TestNext is a step of the test's own component   *)
(* and leaves all others alone.                                            *)
(***************************************************************************)
EXTENDS Tests, ThreadSafeQueueProofs, FiniteSetTheorems, TLAPS

DWP == INSTANCE DataWrapperProofs WITH
  Kept <- TRUE, Threads <- Users,
  a <- data_a, b <- data_b, m_ <- data_m, pc <- data_pc

MVP == INSTANCE MovableProofs WITH
  Objects <- Movables, p <- int_p

CVP == INSTANCE ConditionVariableProofs WITH
  Input <- Chunks, Timed <- FALSE, input <- cv_input, data_queue <- cv_queue
CVP2 == INSTANCE ConditionVariableProofs WITH
  Input <- Chunks, Timed <- TRUE, input <- cv_input, data_queue <- cv_queue

----------------------------------------------------------------------------
\* A step of the tests, seen from one component or the other.
LEMMA Steps ==
  ASSUME [TestNext]_test_vars
  PROVE  /\ test' = test
         /\ [Next]_vars
         /\ test = "test_unqiue_lock" => DW2!Next \/ UNCHANGED dw_vars
         /\ MV!Next \/ UNCHANGED mv_vars
         /\ \/ test = "test_condition_var" /\ CV!Next
            \/ test = "test_condition_var2" /\ CV2!Next
            \/ UNCHANGED cv_vars
         /\ PT!Next \/ UNCHANGED pt_vars
         /\ PR!Next \/ UNCHANGED pr_vars
         /\ QS!Next \/ QS2!Next \/ UNCHANGED qs_vars
         /\ SL!Next \/ UNCHANGED sl_vars
         /\ MJ!Next \/ UNCHANGED mj_vars
         /\ DR!Next \/ UNCHANGED dr_vars
         /\ \/ test = "test_threadsafe_stack" /\ TS!Next
            \/ test = "test_threadunsafe_stack" /\ TU!Next
            \/ UNCHANGED ts_vars
BY DEF TestNext, test_vars, OthersIdle, Frame, Stop,
       test_threadsafe_queue, test_condition_var, test_condition_var2, test_packged_task,
       test_promise, test_seq_quicksort, test_parallel_quicksort, test_threadsafe_stack,
       test_threadunsafe_stack, test_deadlock_nestedmutex, test_stdlock,
       test_deadlock_mutualjoin, test_mutex_hole, test_unqiue_lock, test_lock_guard,
       test_movable, test_dangling_ref

\* test_threadsafe_queue: no wakeup is lost, whatever else the tests do.
THEOREM WakeupsInTest == TestSpec => [](TypeOK /\ NoLostWakeup)
<1>1. TestInit => IInv
  BY InitIInv DEF TestInit
<1>2. IInv /\ [TestNext]_test_vars => IInv'
  BY Steps, IInvStep
<1>. QED
  BY <1>1, <1>2, PTL DEF TestSpec, IInv

\* test_threadsafe_queue: what the constructor put in and what was pushed comes
\* out, each item once and those of one producer in order.
THEOREM ItemsInOrderInTest == ASSUME Traceable PROVE TestSpec => []InOrder
<1>1. TestInit => IInv /\ InOrder
  BY InitIInv, InitInOrder DEF TestInit
<1>2. IInv /\ InOrder /\ [TestNext]_test_vars => (IInv /\ InOrder)'
  BY Steps, IInvStep, InOrderStep
<1>. QED
  BY <1>1, <1>2, PTL DEF TestSpec

----------------------------------------------------------------------------
(* DataWrapper *)

LockKept == test = "test_unqiue_lock" => DWP!IInv

LEMMA LockKeptInit == ASSUME TestInit PROVE LockKept
<1>1. DW!Init => DWP!Init
  BY DEF DW!Init, DWP!Init, DW!Unset, DWP!Unset, DW!Nobody, DWP!Nobody
<1>. QED
  BY <1>1, DWP!InitIInv DEF TestInit, LockKept

LEMMA LockKeptStep == ASSUME LockKept, [TestNext]_test_vars PROVE LockKept'
<1>1. DW2!Next => DWP!Next
  BY DEF DW2!Next, DWP!Next, DW2!Process, DWP!Process, DW2!TestA, DWP!TestA,
         DW2!TestB, DWP!TestB, DW2!SetA, DWP!SetA, DW2!SetB, DWP!SetB,
         DW2!Leave, DWP!Leave, DW2!Goto, DWP!Goto, DW2!KeepLock, DWP!KeepLock,
         DW2!Nobody, DWP!Nobody, DW2!Unset, DWP!Unset, DW2!Garbled, DWP!Garbled
<1>2. DWP!Nobody \notin Users
  BY TestsAssumption DEF DWP!Nobody
<1>3. test = "test_unqiue_lock" => [DWP!Next]_DWP!vars
  BY <1>1, Steps DEF dw_vars, DWP!vars
<1>. QED
  BY <1>2, <1>3, Steps, DWP!Inductive DEF LockKept

\* test_unqiue_lock: what the two threads do with the data under the lock that
\* process_data_with_lock has returned (blow_a_hole.cc:58) is never mixed up.
THEOREM LockKeptInTest == TestSpec => []NeverMixed
<1>1. LockKept => NeverMixed
  BY TestsAssumption DEF LockKept, NeverMixed, DWP!IInv, DW2!NeverMixed, DWP!Exclusive, DWP!HalfSet,
         DW2!Nobody, DWP!Nobody
<1>. QED
  BY <1>1, LockKeptInit, LockKeptStep, PTL DEF TestSpec

----------------------------------------------------------------------------
(* Movable *)

LEMMA OwnersInit == ASSUME TestInit PROVE MVP!IInv
<1>1. MV!Init => MVP!Init
  BY DEF MV!Init, MVP!Init, MV!Unborn, MVP!Unborn
<1>. QED
  BY <1>1, MVP!InitIInv, TestsAssumption DEF TestInit, MVP!Unborn

LEMMA OwnersStep == ASSUME MVP!IInv, [TestNext]_test_vars PROVE MVP!IInv'
<1>1. MV!Next => MVP!Next
  BY DEF MV!Next, MVP!Next, MV!Construct, MVP!Construct, MV!MoveConstruct, MVP!MoveConstruct,
         MV!MoveAssign, MVP!MoveAssign, MV!MoveSelf, MVP!MoveSelf, MV!Destroy, MVP!Destroy,
         MV!Born, MVP!Born, MV!Moved, MVP!Moved, MV!Unborn, MVP!Unborn,
         MV!nullptr, MVP!nullptr, MV!vars, MVP!vars
<1>2. [MVP!Next]_MVP!vars
  BY <1>1, Steps DEF mv_vars, MVP!vars
<1>. QED
  BY <1>2, MVP!Inductive, TestsAssumption DEF MVP!Unborn, MVP!nullptr

\* test_movable and any other sequence of constructions and moves: an int
\* has one owner at most.
THEOREM OwnersInTest == TestSpec => []UniqueOwner
<1>1. MVP!IInv => UniqueOwner
  BY DEF MVP!IInv, MVP!UniqueOwner, UniqueOwner, MV!UniqueOwner
<1>. QED
  BY <1>1, OwnersInit, OwnersStep, PTL DEF TestSpec

----------------------------------------------------------------------------
(* ConditionVariable *)

ChunksArrive ==
  IF test = "test_condition_var2" THEN CVP2!IInv ELSE CVP!IInv

LEMMA ChunksEndWithBye == CVP!EndsWithBye /\ CVP2!EndsWithBye
BY TestsAssumption DEF IsSequence, CVP!EndsWithBye, CVP!Chunk, CVP2!EndsWithBye, CVP2!Chunk

LEMMA ChunksArriveInit == ASSUME TestInit PROVE ChunksArrive
<1>1. CV!Init => CVP!Init /\ CVP2!Init
  BY DEF CV!Init, CVP!Init, CVP2!Init
<1>. QED
  BY <1>1, ChunksEndWithBye, CVP!InitIInv, CVP2!InitIInv DEF TestInit, ChunksArrive

LEMMA ChunksArriveStep == ASSUME ChunksArrive, [TestNext]_test_vars PROVE ChunksArrive'
<1>1. CV!Next => CVP!Next
  BY DEF CV!ConsumerIs, CVP!ConsumerIs, CV!Push, CVP!Push, CV!notify_one, CVP!notify_one,
         CV!NotifyChunk, CVP!NotifyChunk, CV!Notify, CVP!Notify, CV!TakeFront, CVP!TakeFront,
         CV!Wait, CVP!Wait, CV!Take, CVP!Take, CV!WaitUntil, CVP!WaitUntil, CV!TimeOut, CVP!TimeOut, CV!NoTimeout,
         CVP!NoTimeout, CV!TimeoutEmpty, CVP!TimeoutEmpty, CV!TimeoutTake, CVP!TimeoutTake,
         CV!SpuriousWakeup, CVP!SpuriousWakeup, CV!Produce, CVP!Produce, CV!Consume,
         CVP!Consume, CV!Next, CVP!Next
<1>2. CV2!Next => CVP2!Next
  BY DEF CV2!ConsumerIs, CVP2!ConsumerIs, CV2!Push, CVP2!Push, CV2!notify_one,
         CVP2!notify_one, CV2!NotifyChunk, CVP2!NotifyChunk,
         CV2!Notify, CVP2!Notify, CV2!TakeFront, CVP2!TakeFront, CV2!Wait,
         CVP2!Wait, CV2!Take, CVP2!Take, CV2!WaitUntil, CVP2!WaitUntil, CV2!TimeOut,
         CVP2!TimeOut, CV2!NoTimeout, CVP2!NoTimeout, CV2!TimeoutEmpty, CVP2!TimeoutEmpty,
         CV2!TimeoutTake, CVP2!TimeoutTake, CV2!SpuriousWakeup, CVP2!SpuriousWakeup,
         CV2!Produce, CVP2!Produce, CV2!Consume, CVP2!Consume, CV2!Next, CVP2!Next
<1>3. IF test = "test_condition_var2" THEN [CVP2!Next]_CVP2!vars ELSE [CVP!Next]_CVP!vars
  BY <1>1, <1>2, Steps DEF cv_vars, CVP!vars, CVP2!vars
<1>. QED
  BY <1>3, Steps, ChunksEndWithBye, CVP!Inductive, CVP2!Inductive DEF ChunksArrive

\* test_condition_var and test_condition_var2: every chunk is processed once
\* and in order, and none is left behind.
THEOREM ChunksInOrderInTest == TestSpec => []ProcessedInOrder
<1>1. ChunksArrive => ProcessedInOrder
  BY DEF ChunksArrive, CVP!IInv, CVP2!IInv, ProcessedInOrder, CV!ProcessedInOrder, CV!OnTheWay,
         CVP!ProcessedInOrder, CVP!OnTheWay, CVP2!ProcessedInOrder, CVP2!OnTheWay
<1>. QED
  BY <1>1, ChunksArriveInit, ChunksArriveStep, PTL DEF TestSpec

\* test_condition_var: notify_one outside the lock never comes too early.
THEOREM NoEarlyNotifyInTest == TestSpec => []SleepsOnlyBeforeNotify
<1>1. ChunksArrive => SleepsOnlyBeforeNotify
  BY DEF ChunksArrive, CVP!IInv, SleepsOnlyBeforeNotify, CV!SleepsOnlyBeforeNotify,
         CVP!SleepsOnlyBeforeNotify
<1>. QED
  BY <1>1, ChunksArriveInit, ChunksArriveStep, PTL DEF TestSpec
----------------------------------------------------------------------------
(* PackagedTask *)

Message == {Messages[i] : i \in DOMAIN Messages}

\* What gui_thread has not run yet; nothing, once it has read the last message.
Unrun == task \o (tasks \o gui_todo)

MessagesTyped ==
  /\ gui_todo \in Seq(Message)
  /\ tasks \in Seq(Message)
  /\ ran \in Seq(Message)
  /\ task \in Seq(Message)
  /\ gui = "run" => Len(task) = 1
  /\ gui # "run" => task = <<>>

MessagesKept ==
  /\ MessagesTyped
  /\ ran \o Unrun = Messages
  /\ is_quit_message \/ gui = "end" => Unrun = <<>>

LEMMA SecondPart ==
  ASSUME NEW S, NEW s \in Seq(S), NEW t \in Seq(S), Len(t) >= 1
  PROVE  Len(s \o t) = Len(s) + Len(t) /\ (s \o t)[Len(s) + 1] = t[1]
<1>1. Len(s) \in Nat /\ Len(t) \in Nat
  BY LenProperties
<1>2. /\ Len(s) + 1 \in 1 .. Len(s) + Len(t)
      /\ ~ (Len(s) + 1 <= Len(s))
      /\ (Len(s) + 1) - Len(s) = 1
  BY <1>1
<1>. QED
  BY <1>2, ConcatProperties

LEMMA MessagesKeptInit == ASSUME TestInit PROVE MessagesKept
<1>1. <<>> \o (<<>> \o (<<>> \o Messages)) = Messages
  BY TestsAssumption, ConcatEmptySeq, EmptySeq DEF IsSequence
<1>. QED
  BY <1>1, TestsAssumption, EmptySeq
  DEF IsSequence, TestInit, PT!Init, MessagesKept, MessagesTyped, Unrun, Message

LEMMA PostStep == ASSUME MessagesKept, PT!Post PROVE MessagesKept'
<1>1. /\ Append(tasks, Head(gui_todo)) \in Seq(Message)
      /\ Tail(gui_todo) \in Seq(Message)
      /\ Append(tasks, Head(gui_todo)) \o Tail(gui_todo) = tasks \o gui_todo
  BY CVP!MoveHead DEF PT!Post, MessagesKept, MessagesTyped
<1>2. MessagesTyped' /\ Unrun' = Unrun
  BY <1>1 DEF PT!Post, PT!PushBack, MessagesKept, MessagesTyped, Unrun
<1>. QED
  BY <1>2 DEF PT!Post, MessagesKept

LEMMA TakeTaskStep == ASSUME MessagesKept, PT!TakeTask PROVE MessagesKept'
<1>1. task = <<>> /\ tasks # <<>>
  BY DEF PT!TakeTask, MessagesKept, MessagesTyped
<1>2. /\ Append(<<>>, Head(tasks)) \in Seq(Message)
      /\ Tail(tasks) \in Seq(Message)
      /\ Append(<<>>, Head(tasks)) \o Tail(tasks) = <<>> \o tasks
  BY <1>1, CVP!MoveHead, EmptySeq DEF MessagesKept, MessagesTyped
<1>3. Append(<<>>, Head(tasks)) = <<Head(tasks)>>
  OBVIOUS
<1>4. MessagesTyped'
  BY <1>2, <1>3 DEF PT!TakeTask, MessagesKept, MessagesTyped
<1>5. Unrun' = Unrun
  <2>. DEFINE Q == Seq(Message)
              F(x, y) == x \o y
              first == <<Head(tasks)>>
              rest == Tail(tasks)
  <2>1. first \in Q /\ rest \in Q /\ tasks \in Q /\ gui_todo \in Q /\ <<>> \in Q
    BY <1>2, <1>3, EmptySeq DEF MessagesKept, MessagesTyped
  <2>2. F(first, rest) = F(<<>>, tasks)
    BY <1>2, <1>3
  <2>3. \A x, y, z \in Q : F(F(x, y), z) = F(x, F(y, z))
    BY CVP!Associative
  <2>4. F(first, F(rest, gui_todo)) = F(<<>>, F(tasks, gui_todo))
    <3>. HIDE DEF Q, F, first, rest
    <3>. QED
      BY <2>1, <2>2, <2>3
  <2>. QED
    BY <1>1, <2>4 DEF PT!TakeTask, Unrun
<1>. QED
  BY <1>4, <1>5 DEF PT!TakeTask, MessagesKept

\* The task that sets the flag is the last of the messages: what follows it
\* in the deque, or is yet to be posted, is nothing.
LEMMA RunTaskStep == ASSUME MessagesKept, PT!RunTask PROVE MessagesKept'
<1>. DEFINE rest == tasks \o gui_todo
<1>1. Len(task) = 1 /\ task \in Seq(Message) /\ ran \in Seq(Message) /\ rest \in Seq(Message)
      /\ gui = "run" /\ ~ is_quit_message
  <2>1. <<>> \in Seq(Message) /\ Len(task) = 1 /\ gui = "run"
    BY EmptySeq DEF PT!RunTask, MessagesKept, MessagesTyped
  <2>2. rest \in Seq(Message) /\ Len(Unrun) = Len(task) + Len(rest) /\ Len(rest) \in Nat
    BY ConcatProperties, LenProperties DEF MessagesKept, MessagesTyped, Unrun
  <2>3. Unrun # <<>>
    BY <2>1, <2>2
  <2>. QED
    BY <2>1, <2>2, <2>3 DEF MessagesKept, MessagesTyped
<1>2. ran \o task \in Seq(Message) /\ (ran \o task) \o rest = ran \o Unrun
  <2>1. ran \o task \in Seq(Message)
    BY <1>1, ConcatProperties
  <2>2. (ran \o task) \o rest = ran \o (task \o rest)
    <3>1. \A x, y, z \in Seq(Message) : (x \o y) \o z = x \o (y \o z)
      BY CVP!Associative
    <3>. HIDE DEF rest
    <3>. QED
      BY <1>1, <3>1, Zenon
  <2>. QED
    BY <2>1, <2>2 DEF Unrun
<1>3. Unrun' = rest /\ rest = <<>> \o rest
  BY <1>1, ConcatEmptySeq DEF PT!RunTask, Unrun
<1>4. MessagesTyped'
  BY <1>2, EmptySeq DEF PT!RunTask, MessagesKept, MessagesTyped
<1>5. ASSUME is_quit_message' PROVE rest = <<>>
  <2>1. task = <<Last>>
    BY <1>1, <1>5, Zenon DEF PT!RunTask
  <2>2. Len(ran) \in Nat /\ Len(rest) \in Nat /\ Len(Unrun) = 1 + Len(rest)
        /\ Unrun \in Seq(Message) /\ Unrun[1] = Last
    BY <1>1, <2>1, ConcatProperties, LenProperties DEF Unrun
  <2>3. Len(Messages) = Len(ran) + (1 + Len(rest)) /\ Messages[Len(ran) + 1] = Last
    <3>1. Len(ran \o Unrun) = Len(ran) + Len(Unrun) /\ (ran \o Unrun)[Len(ran) + 1] = Unrun[1]
      <4>1. ran \in Seq(Message) /\ Unrun \in Seq(Message) /\ Len(Unrun) >= 1
        <5>. HIDE DEF rest
        <5>. QED
          BY <1>1, <2>2
      <4>. QED
        BY <4>1, SecondPart
    <3>. QED
      BY <2>2, <3>1 DEF MessagesKept
  <2>4. Len(ran) + 1 \in DOMAIN Messages
    <3>1. DOMAIN Messages = 1 .. Len(Messages)
      BY TestsAssumption, LenProperties DEF IsSequence
    <3>. QED
      BY <2>2, <2>3, <3>1
  <2>5. Len(ran) + 1 = Len(Messages)
    BY <2>3, <2>4, TestsAssumption
  <2>. QED
    BY <1>1, <2>2, <2>3, <2>5, EmptySeq
<1>. QED
  BY <1>2, <1>3, <1>4, <1>5 DEF PT!RunTask, MessagesKept

LEMMA MessagesKeptStep == ASSUME MessagesKept, [TestNext]_test_vars PROVE MessagesKept'
<1>. USE DEF MessagesKept, MessagesTyped, Unrun
<1>1. CASE PT!TestQuit
  <2>1. CASE is_quit_message
    BY <1>1, <2>1 DEF PT!TestQuit
  <2>2. CASE ~ is_quit_message
    BY <1>1, <2>2 DEF PT!TestQuit
  <2>. QED
    BY <2>1, <2>2
<1>2. CASE PT!NoTask
  BY <1>2 DEF PT!NoTask
<1>3. CASE UNCHANGED pt_vars
  BY <1>3 DEF pt_vars
<1>. HIDE DEF MessagesKept, MessagesTyped, Unrun
<1>. QED
  BY <1>1, <1>2, <1>3, Steps, PostStep, TakeTaskStep, RunTaskStep DEF PT!Next, PT!Gui

\* test_packged_task: the messages are run once and in order, and none is left
\* unrun, whatever their number, though gui_thread tests is_quit_message
\* without the lock (packaged_task.cc).
THEOREM MessagesInOrderInTest == TestSpec => []MessagesRunInOrder
<1>1. ASSUME MessagesKept PROVE MessagesRunInOrder
  <2>1. ran \o task \o tasks \o gui_todo = ran \o Unrun
    <3>. DEFINE Q == Seq(Message)
                F(x, y) == x \o y
    <3>1. ran \in Q /\ task \in Q /\ tasks \in Q /\ gui_todo \in Q
          /\ F(ran, task) \in Q /\ F(tasks, gui_todo) \in Q
      BY <1>1, ConcatProperties DEF MessagesKept, MessagesTyped
    <3>2. \A x, y, z \in Q : F(F(x, y), z) = F(x, F(y, z))
      BY CVP!Associative
    <3>3. F(F(F(ran, task), tasks), gui_todo) = F(ran, F(task, F(tasks, gui_todo)))
      <4>. HIDE DEF Q, F
      <4>. QED
        BY <3>1, <3>2
    <3>. QED
      BY <3>3 DEF Unrun
  <2>2. gui = "end" => ran = Messages
    BY <1>1, ConcatEmptySeq DEF MessagesKept, MessagesTyped
  <2>. QED
    BY <1>1, <2>1, <2>2 DEF MessagesKept, MessagesRunInOrder, PT!MessagesRunInOrder
<1>. QED
  BY <1>1, MessagesKeptInit, MessagesKeptStep, PTL DEF TestSpec

----------------------------------------------------------------------------
(* Promise *)

Answers == {PR!Answer(q) : q \in PR!Calls}

Answered ==
  /\ shared \in [PR!Calls -> {PR!Empty} \cup Answers]
  /\ \A q \in PR!Calls : shared[q] \in {PR!Empty, PR!Answer(q)}
  /\ results \in Seq(Answers)
  /\ Len(results) <= Len(Queries)
  /\ AnswersInOrder

LEMMA AnsweredStep == ASSUME Answered, [TestNext]_test_vars PROVE Answered'
<1>. USE DEF Answered, AnswersInOrder, PR!AnswersInOrder, Answers
<1>. Len(Queries) \in Nat
  BY TestsAssumption, LenProperties DEF IsSequence
<1>1. CASE PR!Start \/ UNCHANGED pr_vars
  BY <1>1 DEF PR!Start, pr_vars, PR!Answer
<1>2. ASSUME NEW q \in PR!Calls, PR!Fulfil(q) PROVE Answered'
  BY <1>2 DEF PR!Fulfil
<1>3. ASSUME NEW q \in PR!Calls, PR!Get(q) PROVE Answered'
  <2>1. q = Len(results) + 1 /\ shared[q] = PR!Answer(q) /\ shared' = shared
        /\ results' = Append(results, PR!Answer(q))
    BY <1>3 DEF PR!Get, PR!Gets
  <2>2. results' \in Seq(Answers) /\ Len(results') = q
        /\ \A i \in 1 .. q : results'[i] = IF i <= Len(results) THEN results[i] ELSE PR!Answer(q)
    BY <2>1, AppendProperties
  <2>. QED
    BY <2>1, <2>2 DEF PR!Calls
<1>. QED
  BY <1>1, <1>2, <1>3, Steps DEF PR!Next

\* test_promise: the futures yield the answers at their queries' places, for
\* any queries and however the threads are scheduled.
THEOREM AnswersInOrderInTest == TestSpec => []AnswersInOrder
<1>1. TestInit => Answered
  BY TestsAssumption, EmptySeq, LenProperties
  DEF IsSequence, TestInit, PR!Init, Answered, AnswersInOrder, PR!AnswersInOrder
<1>2. Answered => AnswersInOrder
  BY DEF Answered
<1>. QED
  BY <1>1, <1>2, AnsweredStep, PTL DEF TestSpec

----------------------------------------------------------------------------
(* MutualJoin *)

\* main creates tx first.  While global_ty is not set, tx runs or ends without
\* a join; afterwards only a join of tx could take global_ty from it, and
\* that waits for ty, which in turn ends by joining tx alone.
JoinsTyped ==
  /\ join_pc \in [{"main", "tx", "ty"} -> {"none", "run", "join", "end", "tx", "ty", "exit"}]
  /\ handle \in [{"tx", "ty"} -> {"none", "joinable"}]

TyIsLeft ==
  /\ JoinsTyped
  /\ join_pc["main"] \in {"tx", "ty", "exit", "end"}
  /\ handle["ty"] = "joinable" <=> join_pc["main"] \in {"exit", "end"}
  /\ join_pc["main"] = "tx" => join_pc["ty"] = "none" /\ handle["tx"] = "none"
  /\ join_pc["main"] # "tx" /\ join_pc["ty"] # "end" => handle["tx"] = "joinable"
  /\ join_pc["ty"] = "end" => join_pc["tx"] = "end"
  /\ join_pc["main"] = "end" => terminated

LEMMA TyIsLeftStep == ASSUME TyIsLeft, [TestNext]_test_vars PROVE TyIsLeft'
<1>. USE DEF TyIsLeft, JoinsTyped, MJ!Goto, MJ!Other
<1>1. CASE UNCHANGED mj_vars
  BY <1>1 DEF mj_vars
<1>2. ASSUME NEW t \in {"tx", "ty"}, MJ!Create(t) PROVE TyIsLeft'
  BY <1>2 DEF MJ!Create
<1>3. ASSUME NEW t \in {"tx", "ty"}, MJ!MoveHandle(t) PROVE TyIsLeft'
  BY <1>3 DEF MJ!MoveHandle
<1>4. ASSUME NEW t \in {"tx", "ty"}, MJ!Test(t) PROVE TyIsLeft'
  BY <1>4 DEF MJ!Test, MJ!Joins
<1>5. ASSUME NEW t \in {"tx", "ty"}, MJ!Join(t) PROVE TyIsLeft'
  BY <1>5 DEF MJ!Join
<1>6. CASE MJ!JoinThrows
  BY <1>6 DEF MJ!JoinThrows
<1>7. CASE MJ!Exit
  <2>1. \E t \in DOMAIN handle : handle[t] = "joinable"
    BY <1>7 DEF MJ!Exit
  <2>2. terminated'
    BY <1>7, <2>1, Zenon DEF MJ!Exit
  <2>. QED
    BY <1>7, <2>2 DEF MJ!Exit
<1>. HIDE DEF TyIsLeft, JoinsTyped
<1>. QED
  BY <1>1, <1>2, <1>3, <1>4, <1>5, <1>6, <1>7, Steps DEF MJ!Next

\* test_deadlock_mutualjoin: nobody joins global_ty, and the program does not
\* end but in std::terminate.
THEOREM TyIsLeftInTest == TestSpec => []NobodyJoinsTy
<1>1. TestInit => TyIsLeft
  BY DEF TestInit, MJ!Init, TyIsLeft, JoinsTyped
<1>2. TyIsLeft => NobodyJoinsTy
  BY DEF TyIsLeft, NobodyJoinsTy, MJ!NobodyJoinsTy
<1>. QED
  BY <1>1, <1>2, TyIsLeftStep, PTL DEF TestSpec

----------------------------------------------------------------------------
(* SharedStack, without the mutex *)

EndedPops == {t \in Poppers : stack_pc[t] = "end"}

PopsTyped ==
  /\ stack_pc \in [Poppers -> {"call", "test", "top", "pop", "set", "end"}]
  /\ finish \in [Poppers -> Nat]
  /\ size \in Nat

\* A pop that has read the size takes one off what it read, and so does each
\* that has ended: there are fewer of them than elements, so that no pop finds
\* the stack empty.
AtMostOneOffEach ==
  /\ PopsTyped
  /\ size + Cardinality(EndedPops) >= Len(UnsafeStack)
  /\ \A t \in Poppers : stack_pc[t] = "set" =>
       finish[t] + Cardinality(EndedPops) >= Len(UnsafeStack)

TopIsLeft == test = "test_threadunsafe_stack" => AtMostOneOffEach

LEMMA EndedPopsFew ==
  /\ IsFiniteSet(EndedPops)
  /\ Cardinality(EndedPops) \in Nat
  /\ Cardinality(EndedPops) < Len(UnsafeStack)
  /\ Len(UnsafeStack) \in Nat
BY TestsAssumption, FS_Subset, FS_CardinalityType, LenProperties DEF IsSequence, EndedPops

LEMMA TopIsLeftInit == ASSUME TestInit PROVE TopIsLeft
<1>1. SUFFICES ASSUME TU!Init PROVE AtMostOneOffEach
  BY DEF TestInit, TopIsLeft
<1>2. TU!Threads = Poppers
  BY DEF TU!Threads, TU!Pushers
<1>3. EndedPops = {} /\ Cardinality(EndedPops) = 0
  BY <1>1, <1>2, FS_EmptySet DEF TU!Init, EndedPops
<1>. QED
  BY <1>1, <1>2, <1>3, EndedPopsFew DEF TU!Init, PopsTyped, AtMostOneOffEach

LEMMA PopStep ==
  ASSUME AtMostOneOffEach, NEW t \in TU!Threads, TU!Step(t)
  PROVE  AtMostOneOffEach'
<1>. USE DEF PopsTyped, AtMostOneOffEach, TU!Goto
<1>1. TU!Threads = Poppers /\ t \notin TU!Pushers
  BY DEF TU!Threads, TU!Pushers
<1>2. CASE TU!Enter(t) \/ TU!TestNotEmpty(t) \/ TU!Top(t) \/ TU!Pop(t)
  <2>1. stack_pc[t] # "end" /\ EndedPops' = EndedPops /\ size' = size
    BY <1>1, <1>2 DEF TU!Enter, TU!TestNotEmpty, TU!Top, TU!Pop, EndedPops
  <2>2. PopsTyped'
    BY <1>1, <1>2 DEF TU!Enter, TU!TestNotEmpty, TU!Top, TU!Pop
  <2>. QED
    BY <1>1, <1>2, <2>1, <2>2, EndedPopsFew DEF TU!Enter, TU!TestNotEmpty, TU!Top, TU!Pop
<1>3. ~ TU!TestEmpty(t)
  BY EndedPopsFew DEF TU!TestEmpty
<1>4. CASE TU!SetSize(t)
  <2>1. EndedPops' = EndedPops \cup {t} /\ t \notin EndedPops
    BY <1>1, <1>4 DEF TU!SetSize, TU!Popped, TU!Leave, EndedPops
  <2>2. Cardinality(EndedPops') = Cardinality(EndedPops) + 1
    BY <2>1, EndedPopsFew, FS_AddElement
  <2>. QED
    BY <1>1, <1>4, <2>2, EndedPopsFew DEF TU!SetSize, TU!Popped, TU!Leave
<1>. QED
  BY <1>1, <1>2, <1>3, <1>4 DEF TU!Step

\* test_threadunsafe_stack: the main thread finds an element to look at when
\* the unsafe_pops are over, if there were more elements than pops.
THEOREM TopIsLeftInTest == TestSpec => []LeavesATop
<1>1. ASSUME TopIsLeft, [TestNext]_test_vars PROVE TopIsLeft'
  <2>1. CASE UNCHANGED ts_vars
    BY <1>1, <2>1, Steps DEF ts_vars, TopIsLeft, PopsTyped, AtMostOneOffEach, EndedPops
  <2>. QED
    BY <1>1, <2>1, Steps, PopStep DEF TopIsLeft, TU!Next
<1>2. ASSUME TopIsLeft PROVE LeavesATop
  <2>1. EndedPops \subseteq Poppers
    BY DEF EndedPops
  <2>. QED
    BY <1>2, EndedPopsFew DEF TopIsLeft, LeavesATop, TU!LeavesATop, PopsTyped, AtMostOneOffEach
<1>. QED
  BY <1>1, <1>2, TopIsLeftInit, PTL DEF TestSpec

----------------------------------------------------------------------------
(* SharedStack, with the mutex *)

Holders == {t \in TS!Threads : stack_pc[t] \notin {"call", "end"}}

StackTyped ==
  /\ stack_pc \in [TS!Threads -> {"call", "push", "test", "top", "pop", "set", "end"}]
  /\ \A t \in Poppers : stack_pc[t] # "push"
  /\ \A p \in TS!Pushers : stack_pc[p] \in {"call", "push", "end"}
  /\ DOMAIN value = Poppers
  /\ DOMAIN finish = Poppers
  /\ size \in Nat
  /\ 1 .. size \subseteq DOMAIN cells
  /\ \A t \in TS!Threads : t \in Holders <=> stack_m = t

\* The places of an item: in the stack, with a thread that has popped it, or
\* with the one that has not pushed it yet.
Inside(i, item)  == i \in 1 .. size /\ cells[i] = item
Taken(t, item)   == t \in Poppers /\ stack_pc[t] = "end" /\ value[t] = item
Waiting(p, item) == p \in TS!Pushers /\ stack_pc[p] # "end" /\ Pushed[p] = item

OnePlaceEach ==
  /\ \A i \in 1 .. size : cells[i] # 0
  /\ \A i, j \in 1 .. size : cells[i] = cells[j] => i = j
  /\ \A item \in TS!StackItems :
       /\ \A t, u : Taken(t, item) /\ Taken(u, item) => t = u
       /\ \A t, i : ~ (Taken(t, item) /\ Inside(i, item))
       /\ \A t, p : ~ (Taken(t, item) /\ Waiting(p, item))
       /\ \A i, p : ~ (Inside(i, item) /\ Waiting(p, item))
       /\ \E x : Inside(x, item) \/ Taken(x, item) \/ Waiting(x, item)

\* What a pop has copied is still the top, and it has seen the stack's size.
PopsTheTop ==
  \A t \in Poppers :
    /\ stack_pc[t] \in {"call", "test", "top"} => value[t] = 0
    /\ stack_pc[t] \in {"top", "pop", "set"} => size # 0
    /\ stack_pc[t] \in {"pop", "set"} => value[t] = cells[size]
    /\ stack_pc[t] = "set" => finish[t] = size

StackKept == StackTyped /\ OnePlaceEach /\ PopsTheTop

\* What TestsAssumption says of the items and the threads.
LEMMA StackItemsDiffer ==
  /\ 0 \notin TS!StackItems
  /\ \A i \in DOMAIN SafeStack : SafeStack[i] \in TS!StackItems
  /\ \A p \in TS!Pushers : Pushed[p] \in TS!StackItems
  /\ \A i, j \in DOMAIN SafeStack : SafeStack[i] = SafeStack[j] => i = j
  /\ \A p, q \in TS!Pushers : Pushed[p] = Pushed[q] => p = q
  /\ \A i \in DOMAIN SafeStack : \A p \in TS!Pushers : SafeStack[i] # Pushed[p]
  /\ TS!Threads = Poppers \cup TS!Pushers /\ Poppers \cap TS!Pushers = {}
  /\ TS!Nobody \notin TS!Threads
BY TestsAssumption DEF TS!StackItems, TS!Pushers, TS!Threads, TS!Nobody, Distinct

LEMMA StackKeptInit == ASSUME TS!Init PROVE StackKept
<1>. USE DEF TS!Init
<1>1. Len(SafeStack) \in Nat /\ DOMAIN SafeStack = 1 .. Len(SafeStack)
  BY TestsAssumption, LenProperties DEF IsSequence
<1>2. StackTyped
  BY <1>1, StackItemsDiffer DEF StackTyped, Holders
<1>3. PopsTheTop
  BY StackItemsDiffer DEF PopsTheTop
<1>4. \A t, item : ~ Taken(t, item)
  BY StackItemsDiffer DEF Taken
<1>5. \A i \in 1 .. size : cells[i] # 0
  BY <1>1, StackItemsDiffer
<1>6. \A i, j \in 1 .. size : cells[i] = cells[j] => i = j
  BY <1>1, StackItemsDiffer
<1>7. \A item : \A i, p : ~ (Inside(i, item) /\ Waiting(p, item))
  BY <1>1, StackItemsDiffer DEF Inside, Waiting
<1>8. ASSUME NEW item \in TS!StackItems PROVE \E x : Inside(x, item) \/ Waiting(x, item)
  BY <1>1, StackItemsDiffer DEF Inside, Waiting, TS!StackItems
<1>. QED
  BY <1>2, <1>3, <1>4, <1>5, <1>6, <1>7, <1>8 DEF StackKept, OnePlaceEach

\* A step that moves no item and none of the values.
LEMMA NoItemMoves ==
  ASSUME StackKept, UNCHANGED <<cells, size, value>>,
         \A t \in Poppers : stack_pc[t] = "end" <=> stack_pc'[t] = "end",
         \A p \in TS!Pushers : stack_pc[p] = "end" <=> stack_pc'[p] = "end"
  PROVE  OnePlaceEach'
<1>1. \A x, item : /\ Inside(x, item)' <=> Inside(x, item)
                   /\ Taken(x, item)' <=> Taken(x, item)
                   /\ Waiting(x, item)' <=> Waiting(x, item)
  BY DEF Inside, Taken, Waiting
<1>2. TS!StackItems' = TS!StackItems
  BY DEF TS!StackItems
<1>. QED
  BY <1>1, <1>2 DEF StackKept, OnePlaceEach

LEMMA StackPushStep ==
  ASSUME StackKept, NEW t \in TS!Pushers, TS!Push(t)
  PROVE  StackKept'
<1>. USE StackItemsDiffer
<1>1. /\ stack_pc[t] = "push" /\ stack_m = t /\ t \in TS!Threads /\ t \notin Poppers
      /\ stack_pc' = [stack_pc EXCEPT ![t] = "end"] /\ stack_m' = TS!Nobody
      /\ size' = size + 1 /\ size \in Nat /\ UNCHANGED <<value, finish>>
      /\ DOMAIN cells' = DOMAIN cells \cup {size + 1}
      /\ \A i \in 1 .. size : cells'[i] = cells[i]
      /\ cells'[size + 1] = Pushed[t]
  BY DEF TS!Push, TS!Leave, TS!Goto, StackKept, StackTyped, Holders
<1>2. \A u \in TS!Threads : u # t => stack_pc'[u] = stack_pc[u] /\ stack_pc[u] \in {"call", "end"}
  BY <1>1 DEF StackKept, StackTyped, Holders
<1>3. StackTyped'
  BY <1>1, <1>2 DEF StackKept, StackTyped, Holders
<1>4. PopsTheTop'
  BY <1>1, <1>2 DEF StackKept, StackTyped, PopsTheTop
<1>5. \A x, item : /\ Inside(x, item)' <=> Inside(x, item) \/ (x = size + 1 /\ item = Pushed[t])
                   /\ Taken(x, item)' <=> Taken(x, item)
                   /\ Waiting(x, item)' <=> Waiting(x, item) /\ x # t
  <2>. SUFFICES ASSUME NEW x, NEW item
                PROVE  /\ Inside(x, item)' <=> Inside(x, item) \/ (x = size + 1 /\ item = Pushed[t])
                       /\ Taken(x, item)' <=> Taken(x, item)
                       /\ Waiting(x, item)' <=> Waiting(x, item) /\ x # t
    OBVIOUS
  <2>1. Inside(x, item)' <=> Inside(x, item) \/ (x = size + 1 /\ item = Pushed[t])
    BY <1>1 DEF Inside
  <2>2. Taken(x, item)' <=> Taken(x, item)
    BY <1>1, <1>2 DEF Taken
  <2>3. Waiting(x, item)' <=> Waiting(x, item) /\ x # t
    BY <1>1, <1>2 DEF Waiting, StackKept, StackTyped
  <2>. QED
    BY <2>1, <2>2, <2>3
<1>6. Waiting(t, Pushed[t]) /\ \A p, item : Waiting(p, item) /\ p # t => item # Pushed[t]
  BY <1>1 DEF Waiting
<1>7. \A i \in 1 .. size : cells[i] # Pushed[t]
  BY <1>6 DEF StackKept, OnePlaceEach, Inside
<1>8. \A i \in 1 .. size' : cells'[i] # 0
  BY <1>1 DEF StackKept, OnePlaceEach
<1>9. \A i, j \in 1 .. size' : cells'[i] = cells'[j] => i = j
  BY <1>1, <1>7 DEF StackKept, OnePlaceEach
<1>10. ASSUME NEW item \in TS!StackItems
       PROVE  /\ \A u, v : Taken(u, item)' /\ Taken(v, item)' => u = v
              /\ \A u, i : ~ (Taken(u, item)' /\ Inside(i, item)')
              /\ \A u, p : ~ (Taken(u, item)' /\ Waiting(p, item)')
              /\ \A i, p : ~ (Inside(i, item)' /\ Waiting(p, item)')
              /\ \E x : Inside(x, item)' \/ Taken(x, item)' \/ Waiting(x, item)'
  <2>1. CASE item = Pushed[t]
    BY <2>1, <1>5, <1>6, <1>10 DEF StackKept, OnePlaceEach
  <2>2. CASE item # Pushed[t]
    <3>1. \A x : Waiting(x, item) => x # t
      BY <2>2 DEF Waiting
    <3>. QED
      BY <2>2, <3>1, <1>5, <1>10 DEF StackKept, OnePlaceEach
  <2>. QED
    BY <2>1, <2>2
<1>11. TS!StackItems' = TS!StackItems
  BY DEF TS!StackItems
<1>. QED
  BY <1>3, <1>4, <1>8, <1>9, <1>10, <1>11 DEF StackKept, OnePlaceEach

\* The item moves from the top to the thread that has copied it.
LEMMA SetSizeStep ==
  ASSUME StackKept, NEW t \in Poppers, TS!SetSize(t)
  PROVE  StackKept'
<1>. USE StackItemsDiffer
<1>1. /\ stack_pc[t] = "set" /\ stack_m = t /\ t \in TS!Threads /\ t \notin TS!Pushers
      /\ stack_pc' = [stack_pc EXCEPT ![t] = "end"] /\ stack_m' = TS!Nobody
      /\ size \in Nat \ {0} /\ size' = size - 1 /\ UNCHANGED <<cells, value, finish>>
      /\ value[t] = cells[size]
  BY DEF TS!SetSize, TS!Popped, TS!Leave, TS!Goto, StackKept, StackTyped, PopsTheTop, Holders
<1>2. \A u \in TS!Threads : u # t => stack_pc'[u] = stack_pc[u] /\ stack_pc[u] \in {"call", "end"}
  BY <1>1 DEF StackKept, StackTyped, Holders
<1>3. StackTyped'
  BY <1>1, <1>2 DEF StackKept, StackTyped, Holders
<1>4. PopsTheTop'
  BY <1>1, <1>2 DEF StackKept, StackTyped, PopsTheTop
<1>5. \A x, item : /\ Inside(x, item)' <=> Inside(x, item) /\ x # size
                   /\ Taken(x, item)' <=> Taken(x, item) \/ (x = t /\ item = cells[size])
                   /\ Waiting(x, item)' <=> Waiting(x, item)
  <2>. SUFFICES ASSUME NEW x, NEW item
                PROVE  /\ Inside(x, item)' <=> Inside(x, item) /\ x # size
                       /\ Taken(x, item)' <=> Taken(x, item) \/ (x = t /\ item = cells[size])
                       /\ Waiting(x, item)' <=> Waiting(x, item)
    OBVIOUS
  <2>1. Inside(x, item)' <=> Inside(x, item) /\ x # size
    BY <1>1 DEF Inside
  <2>2. Taken(x, item)' <=> Taken(x, item) \/ (x = t /\ item = cells[size])
    BY <1>1, <1>2 DEF Taken, StackKept, StackTyped
  <2>3. Waiting(x, item)' <=> Waiting(x, item)
    BY <1>1, <1>2 DEF Waiting, StackKept, StackTyped
  <2>. QED
    BY <2>1, <2>2, <2>3
<1>6. Inside(size, cells[size]) /\ \A i, item : Inside(i, item) /\ i # size => item # cells[size]
  BY <1>1 DEF StackKept, OnePlaceEach, Inside
<1>7. /\ \A i \in 1 .. size' : cells'[i] # 0
      /\ \A i, j \in 1 .. size' : cells'[i] = cells'[j] => i = j
  BY <1>1 DEF StackKept, OnePlaceEach
<1>8. ASSUME NEW item \in TS!StackItems
      PROVE  /\ \A u, v : Taken(u, item)' /\ Taken(v, item)' => u = v
             /\ \A u, i : ~ (Taken(u, item)' /\ Inside(i, item)')
             /\ \A u, p : ~ (Taken(u, item)' /\ Waiting(p, item)')
             /\ \A i, p : ~ (Inside(i, item)' /\ Waiting(p, item)')
             /\ \E x : Inside(x, item)' \/ Taken(x, item)' \/ Waiting(x, item)'
  <2>1. CASE item = cells[size]
    BY <2>1, <1>5, <1>6, <1>8 DEF StackKept, OnePlaceEach
  <2>2. CASE item # cells[size]
    <3>1. \A x : Inside(x, item) => x # size
      BY <2>2 DEF Inside
    <3>. QED
      BY <2>2, <3>1, <1>5, <1>8 DEF StackKept, OnePlaceEach
  <2>. QED
    BY <2>1, <2>2
<1>9. TS!StackItems' = TS!StackItems
  BY DEF TS!StackItems
<1>. QED
  BY <1>3, <1>4, <1>7, <1>8, <1>9 DEF StackKept, OnePlaceEach

LEMMA StackStep == ASSUME StackKept, NEW t \in TS!Threads, TS!Step(t) PROVE StackKept'
<1>. USE StackItemsDiffer DEF TS!Goto
<1>1. CASE TS!Enter(t)
  <2>1. /\ stack_pc[t] = "call" /\ stack_m = TS!Nobody /\ stack_m' = t
        /\ stack_pc' = [stack_pc EXCEPT ![t] = IF t \in TS!Pushers THEN "push" ELSE "test"]
        /\ UNCHANGED <<cells, size, value, finish>>
    BY <1>1 DEF TS!Enter, TS!Lock
  <2>2. \A u \in TS!Threads : stack_pc[u] \in {"call", "end"}
    BY <2>1 DEF StackKept, StackTyped, Holders
  <2>3. StackTyped'
    BY <2>1, <2>2 DEF StackKept, StackTyped, Holders
  <2>4. PopsTheTop'
    BY <2>1, <2>2 DEF StackKept, StackTyped, PopsTheTop
  <2>5. OnePlaceEach'
    BY <2>1, NoItemMoves DEF StackKept, StackTyped
  <2>. QED
    BY <2>3, <2>4, <2>5 DEF StackKept
<1>2. ASSUME t \in Poppers, TS!TestEmpty(t) PROVE StackKept'
  <2>1. /\ stack_pc[t] = "test" /\ stack_m = t /\ size = 0 /\ stack_m' = TS!Nobody
        /\ stack_pc' = [stack_pc EXCEPT ![t] = "end"]
        /\ value[t] = 0
        /\ UNCHANGED <<cells, size, value, finish>>
    BY <1>2 DEF TS!TestEmpty, TS!Leave, StackKept, StackTyped, PopsTheTop, Holders
  <2>2. \A u \in TS!Threads : u # t => stack_pc[u] \in {"call", "end"}
    BY <2>1 DEF StackKept, StackTyped, Holders
  <2>3. StackTyped'
    BY <2>1, <2>2 DEF StackKept, StackTyped, Holders
  <2>4. PopsTheTop'
    BY <2>1, <2>2 DEF StackKept, StackTyped, PopsTheTop
  <2>5. OnePlaceEach'
    <3>1. \A x : \A item \in TS!StackItems :
            /\ Inside(x, item)' <=> Inside(x, item)
            /\ Taken(x, item)' <=> Taken(x, item)
            /\ Waiting(x, item)' <=> Waiting(x, item)
      BY <1>2, <2>1 DEF Inside, Taken, Waiting, StackKept, StackTyped
    <3>2. TS!StackItems' = TS!StackItems
      BY DEF TS!StackItems
    <3>. QED
      BY <2>1, <3>1, <3>2 DEF StackKept, OnePlaceEach
  <2>. QED
    BY <2>3, <2>4, <2>5 DEF StackKept
<1>3. ASSUME t \in Poppers, TS!TestNotEmpty(t) \/ TS!Pop(t) PROVE StackKept'
  <2>1. /\ stack_pc[t] \in {"test", "pop"} /\ stack_m = t /\ size # 0
        /\ stack_pc' = [stack_pc EXCEPT ![t] = IF stack_pc[t] = "test" THEN "top" ELSE "set"]
        /\ stack_pc[t] = "test" => finish' = finish
        /\ stack_pc[t] = "pop" => finish' = [finish EXCEPT ![t] = size]
        /\ UNCHANGED <<cells, size, value, stack_m>>
    BY <1>3 DEF TS!TestNotEmpty, TS!Pop, StackKept, StackTyped, PopsTheTop, Holders
  <2>2. StackTyped'
    BY <1>3, <2>1 DEF StackKept, StackTyped, Holders
  <2>3. PopsTheTop'
    BY <1>3, <2>1 DEF StackKept, StackTyped, PopsTheTop
  <2>4. OnePlaceEach'
    BY <1>3, <2>1, NoItemMoves DEF StackKept, StackTyped
  <2>. QED
    BY <2>2, <2>3, <2>4 DEF StackKept
<1>4. ASSUME t \in Poppers, TS!Top(t) PROVE StackKept'
  <2>1. /\ stack_pc[t] = "top" /\ stack_m = t /\ size # 0
        /\ stack_pc' = [stack_pc EXCEPT ![t] = "pop"]
        /\ value' = [value EXCEPT ![t] = cells[size]]
        /\ UNCHANGED <<cells, size, finish, stack_m>>
    BY <1>4 DEF TS!Top, StackKept, StackTyped, Holders
  <2>2. StackTyped'
    BY <1>4, <2>1 DEF StackKept, StackTyped, Holders
  <2>3. PopsTheTop'
    BY <1>4, <2>1 DEF StackKept, StackTyped, PopsTheTop
  <2>4. OnePlaceEach'
    <3>1. \A x, item :
            /\ Inside(x, item)' <=> Inside(x, item)
            /\ Taken(x, item)' <=> Taken(x, item)
            /\ Waiting(x, item)' <=> Waiting(x, item)
      BY <1>4, <2>1 DEF Inside, Taken, Waiting, StackKept, StackTyped
    <3>2. TS!StackItems' = TS!StackItems
      BY DEF TS!StackItems
    <3>. QED
      BY <2>1, <3>1, <3>2 DEF StackKept, OnePlaceEach
  <2>. QED
    BY <2>2, <2>3, <2>4 DEF StackKept
<1>. QED
  BY <1>1, <1>2, <1>3, <1>4, StackPushStep, SetSizeStep DEF TS!Step

\* While nobody holds the mutex, the values are those of the finished pops.
LEMMA CountPlaces ==
  ASSUME StackKept, stack_m = TS!Nobody, NEW item \in TS!StackItems
  PROVE  TS!Places(item) = 1
<1>. USE StackItemsDiffer
<1>. DEFINE T == {t \in Poppers : value[t] = item}
            I == {i \in 1 .. size : cells[i] = item}
            P == {p \in TS!Pushers : stack_pc[p] = "call" /\ Pushed[p] = item}
<1>1. \A t \in TS!Threads : stack_pc[t] \in {"call", "end"}
  BY DEF StackKept, StackTyped, Holders
<1>2. \A x : /\ x \in T <=> Taken(x, item)
             /\ x \in I <=> Inside(x, item)
             /\ x \in P <=> Waiting(x, item)
  BY <1>1 DEF StackKept, PopsTheTop, Taken, Inside, Waiting
<1>3. PICK x : Inside(x, item) \/ Taken(x, item) \/ Waiting(x, item)
  BY DEF StackKept, OnePlaceEach
<1>4. \/ T = {x} /\ I = {} /\ P = {}
      \/ T = {} /\ I = {x} /\ P = {}
      \/ T = {} /\ I = {} /\ P = {x}
  <2>1. CASE Taken(x, item)
    BY <2>1, <1>2 DEF StackKept, OnePlaceEach
  <2>2. CASE Inside(x, item)
    <3>1. \A i : Inside(i, item) => i = x
      BY <2>2 DEF StackKept, OnePlaceEach, Inside
    <3>. QED
      BY <2>2, <3>1, <1>2 DEF StackKept, OnePlaceEach
  <2>3. CASE Waiting(x, item)
    <3>1. \A p : Waiting(p, item) => p = x
      BY <2>3 DEF Waiting
    <3>. QED
      BY <2>3, <3>1, <1>2 DEF StackKept, OnePlaceEach
  <2>. QED
    BY <1>3, <2>1, <2>2, <2>3
<1>5. Cardinality({x}) = 1 /\ Cardinality({}) = 0
  BY FS_Singleton, FS_EmptySet
<1>6. TS!Places(item) = Cardinality(T) + Cardinality(I) + Cardinality(P)
  BY Zenon DEF TS!Places, TS!Cardinality, Cardinality
<1>. HIDE DEF T, I, P
<1>. QED
  BY <1>4, <1>5, <1>6

\* test_threadsafe_stack: no element is popped twice or lost, for any threads
\* that pop and push, whichever order the mutex lets them in.
THEOREM PoppedOnceInTest == TestSpec => []PoppedOnce
<1>. DEFINE Kept == test = "test_threadsafe_stack" => StackKept
<1>1. TestInit => Kept
  BY StackKeptInit DEF TestInit
<1>2. ASSUME Kept, [TestNext]_test_vars PROVE Kept'
  <2>1. CASE UNCHANGED ts_vars /\ StackKept
    <3>1. StackTyped' /\ PopsTheTop'
      BY <2>1 DEF ts_vars, StackKept, StackTyped, Holders, PopsTheTop
    <3>2. OnePlaceEach'
      BY <2>1, NoItemMoves DEF ts_vars
    <3>. QED
      BY <3>1, <3>2 DEF StackKept
  <2>. QED
    BY <1>2, <2>1, Steps, StackStep DEF TS!Next
<1>3. Kept => PoppedOnce
  BY CountPlaces DEF PoppedOnce, TS!PoppedOnce
<1>. QED
  BY <1>1, <1>2, <1>3, PTL DEF TestSpec

----------------------------------------------------------------------------
(* StdLock *)

Swaps == {t \in SL!Threads : xx_pc[t] = "end"}

\* What x, the other one of the two XX being y, has between two swaps.
Exchanged(x, y) == IF Cardinality(Swaps) % 2 = 0 THEN Text[x] ELSE Text[y]

\* x owns a string that is there, which says text.
Says(x, text) == p_str[x] \in 1 .. Len(strings) /\ strings[p_str[x]] = text

SwapsTyped ==
  /\ xx_pc \in [SL!Threads -> {"lock", "copy", "move", "move_back", "unlock", "end"}]
  /\ xx_m \in [SL!XX -> SL!Threads \cup {SL!Nobody}]
  /\ p_str \in [SL!XX \cup SL!Threads -> Nat]
  /\ strings \in Seq({Text[x] : x \in SL!XX})
  /\ \A t \in SL!Threads : \A x \in SL!XX : xx_m[x] = t <=> xx_pc[t] \notin {"lock", "end"}

\* No swap has begun, or one has but nothing has been moved.
BetweenSwaps ==
  \A x, y \in SL!XX : x # y =>
    Says(x, Exchanged(x, y)) /\ p_str[x] # p_str[y]

Swapping(t) ==
  LET lhs == Lhs[t]
      rhs == Rhs[t]
  IN  /\ xx_pc[t] = "copy" => BetweenSwaps /\ Len(strings) = 2 + Cardinality(Swaps)
      /\ xx_pc[t] # "copy" => Len(strings) = 3 + Cardinality(Swaps)
      /\ xx_pc[t] = "move" =>
           /\ BetweenSwaps
           /\ Says(t, Exchanged(lhs, rhs))
           /\ p_str[t] \notin {p_str[lhs], p_str[rhs]}
      /\ xx_pc[t] = "move_back" =>
           /\ Says(lhs, Exchanged(rhs, lhs))
           /\ Says(t, Exchanged(lhs, rhs))
           /\ p_str[t] # p_str[lhs]
      /\ xx_pc[t] = "unlock" =>
           /\ Says(lhs, Exchanged(rhs, lhs))
           /\ Says(rhs, Exchanged(lhs, rhs))
           /\ p_str[rhs] # p_str[lhs]

StringsKept ==
  /\ SwapsTyped
  /\ (\A t \in SL!Threads : xx_pc[t] \in {"lock", "end"}) =>
       BetweenSwaps /\ Len(strings) = 2 + Cardinality(Swaps)
  /\ \A t \in SL!Threads : xx_pc[t] \notin {"lock", "end"} => Swapping(t)

\* What TestsAssumption says of the two XX and the threads.
LEMMA TwoXX ==
  /\ \E x, y \in SL!XX : x # y /\ SL!XX = {x, y}
  /\ IsFiniteSet(SL!XX) /\ Cardinality(SL!XX) = 2
  /\ IsFiniteSet(SL!Threads)
  /\ \A t \in SL!Threads : Lhs[t] # Rhs[t] /\ SL!XX = {Lhs[t], Rhs[t]}
  /\ SL!Nobody \notin SL!Threads
  /\ SL!XX \cap SL!Threads = {}
<1>1. /\ \E x, y \in SL!XX : x # y /\ SL!XX = {x, y}
      /\ IsFiniteSet(SL!Threads)
      /\ \A t \in SL!Threads : Lhs[t] # Rhs[t] /\ SL!XX = {Lhs[t], Rhs[t]}
      /\ SL!Nobody \notin SL!Threads
      /\ SL!XX \cap SL!Threads = {}
  BY TestsAssumption DEF SL!XX, SL!Threads, SL!Nobody
<1>2. PICK x, y \in SL!XX : x # y /\ SL!XX = {x, y}
  BY <1>1
<1>3. IsFiniteSet({x}) /\ Cardinality({x}) = 1 /\ y \notin {x} /\ SL!XX = {x} \cup {y}
  BY <1>2, FS_Singleton
<1>4. IsFiniteSet(SL!XX) /\ Cardinality(SL!XX) = 2
  <2>1. IsFiniteSet({x} \cup {y}) /\ Cardinality({x} \cup {y}) = Cardinality({x}) + 1
    BY <1>3, FS_AddElement
  <2>. QED
    BY <1>3, <2>1
<1>. QED
  BY <1>1, <1>4

LEMMA SameCardinality == \A S : SL!Cardinality(S) = Cardinality(S)
BY Zenon DEF SL!Cardinality, Cardinality

LEMMA SwapsCounted ==
  /\ IsFiniteSet(Swaps)
  /\ Cardinality(Swaps) \in Nat
BY TwoXX, FS_Subset, FS_CardinalityType DEF Swaps

LEMMA StringsKeptInit == ASSUME SL!Init PROVE StringsKept
<1>1. PICK a, b \in SL!XX : a # b /\ SL!XX = {a, b}
  BY TwoXX
<1>2. SL!Cardinality(SL!XX) = 2
  BY TwoXX, SameCardinality
<1>3. /\ SL!Address \in [SL!XX -> 1 .. 2]
      /\ \A x, y \in SL!XX : x # y => SL!Address[x] # SL!Address[y]
  <2>. DEFINE f == [x \in SL!XX |-> IF x = a THEN 1 ELSE 2]
  <2>1. f \in [SL!XX -> 1 .. 2] /\ \A x, y \in SL!XX : x # y => f[x] # f[y]
    BY <1>1
  <2>2. \E g \in [SL!XX -> 1 .. 2] : \A x, y \in SL!XX : x # y => g[x] # g[y]
    BY <2>1
  <2>. QED
    BY <1>2, <2>2, Zenon DEF SL!Address
<1>4. /\ strings = [i \in 1 .. 2 |-> Text[CHOOSE x \in SL!XX : SL!Address[x] = i]]
      /\ p_str = [x \in SL!XX \cup SL!Threads |-> IF x \in SL!XX THEN SL!Address[x] ELSE 0]
      /\ xx_m = [x \in SL!XX |-> SL!Nobody]
      /\ xx_pc = [t \in SL!Threads |-> "lock"]
  BY <1>2 DEF SL!Init, SL!nullptr
<1>5. ASSUME NEW i \in 1 .. 2 PROVE \E x \in SL!XX : SL!Address[x] = i
  BY <1>1, <1>3, <1>5
<1>6. \A i \in 1 .. 2 : strings[i] \in {Text[x] : x \in SL!XX}
  BY <1>4, <1>5
<1>7. strings \in Seq({Text[x] : x \in SL!XX}) /\ Len(strings) = 2
  BY <1>4, <1>6
<1>8. \A x \in SL!XX : p_str[x] = SL!Address[x] /\ strings[SL!Address[x]] = Text[x]
  <2>. TAKE x \in SL!XX
  <2>1. (CHOOSE z \in SL!XX : SL!Address[z] = SL!Address[x]) = x
    BY <1>3
  <2>. QED
    BY <1>3, <1>4, <2>1
<1>9. Swaps = {} /\ Cardinality(Swaps) = 0
  BY <1>4, FS_EmptySet DEF Swaps
<1>10. SwapsTyped
  BY <1>3, <1>4, <1>7, TwoXX DEF SwapsTyped
<1>11. BetweenSwaps
  BY <1>3, <1>7, <1>8, <1>9 DEF BetweenSwaps, Says, Exchanged
<1>. QED
  BY <1>4, <1>7, <1>9, <1>10, <1>11 DEF StringsKept

\* What a thread that is swapping finds: nobody else is, and the XX are its two.
LEMMA SwapsAlone ==
  ASSUME StringsKept, NEW t \in SL!Threads, xx_pc[t] \notin {"lock", "end"}
  PROVE  /\ Swapping(t)
         /\ \A u \in SL!Threads \ {t} : xx_pc[u] \in {"lock", "end"}
         /\ Lhs[t] \in SL!XX /\ Rhs[t] \in SL!XX /\ Lhs[t] # Rhs[t] /\ SL!XX = {Lhs[t], Rhs[t]}
         /\ t \notin SL!XX
<1>1. Lhs[t] \in SL!XX /\ Rhs[t] \in SL!XX /\ Lhs[t] # Rhs[t] /\ SL!XX = {Lhs[t], Rhs[t]}
      /\ t \notin SL!XX
  BY TwoXX
<1>2. ASSUME NEW u \in SL!Threads, xx_pc[u] \notin {"lock", "end"} PROVE u = t
  <2>1. xx_m[Lhs[t]] = t /\ xx_m[Lhs[t]] = u
    BY <1>1, <1>2 DEF StringsKept, SwapsTyped
  <2>. QED
    BY <2>1
<1>. QED
  BY <1>1, <1>2 DEF StringsKept

\* A step of the swap itself, which takes no lock and does not end it.
LEMMA SwapGoesOn ==
  ASSUME StringsKept, NEW t \in SL!Threads, xx_pc[t] \notin {"lock", "end"},
         NEW label \in {"copy", "move", "move_back", "unlock"},
         xx_pc' = [xx_pc EXCEPT ![t] = label], xx_m' = xx_m,
         p_str' \in [SL!XX \cup SL!Threads -> Nat],
         strings' \in Seq({Text[x] : x \in SL!XX}), Swapping(t)'
  PROVE  StringsKept'
<1>1. SwapsTyped'
  BY DEF StringsKept, SwapsTyped
<1>2. \A u \in SL!Threads \ {t} : xx_pc'[u] \in {"lock", "end"}
  BY SwapsAlone DEF StringsKept, SwapsTyped
<1>3. xx_pc'[t] = label
  BY DEF StringsKept, SwapsTyped
<1>. QED
  BY <1>1, <1>2, <1>3 DEF StringsKept

\* As long as no swap ends, their number stays.
LEMMA SwapsStay ==
  ASSUME SwapsTyped, NEW t \in SL!Threads, xx_pc[t] # "end", NEW label, label # "end",
         xx_pc' = [xx_pc EXCEPT ![t] = label]
  PROVE  Swaps' = Swaps /\ xx_pc'[t] = label
         /\ \A u \in SL!Threads \ {t} : xx_pc'[u] = xx_pc[u]
BY DEF SwapsTyped, Swaps

LEMMA LockStep == ASSUME StringsKept, NEW t \in SL!Threads, SL!Lock(t) PROVE StringsKept'
<1>1. /\ xx_pc[t] = "lock" /\ xx_pc' = [xx_pc EXCEPT ![t] = "copy"]
      /\ xx_m[Lhs[t]] = SL!Nobody /\ xx_m[Rhs[t]] = SL!Nobody
      /\ xx_m' = [xx_m EXCEPT ![Lhs[t]] = t, ![Rhs[t]] = t]
      /\ strings' = strings /\ p_str' = p_str
  BY DEF SL!Lock, SL!LockBoth, SL!Goto
<1>2. Lhs[t] # Rhs[t] /\ SL!XX = {Lhs[t], Rhs[t]}
  BY TwoXX
<1>3. ASSUME NEW u \in SL!Threads PROVE xx_pc[u] \in {"lock", "end"}
  <2>1. xx_m[Lhs[t]] # u
    BY <1>1, TwoXX
  <2>. QED
    BY <1>2, <2>1 DEF StringsKept, SwapsTyped
<1>4. Swaps' = Swaps /\ xx_pc'[t] = "copy" /\ \A u \in SL!Threads \ {t} : xx_pc'[u] = xx_pc[u]
  BY <1>1, SwapsStay DEF StringsKept
<1>5. \A x \in SL!XX : xx_m'[x] = t
  BY <1>1, <1>2 DEF StringsKept, SwapsTyped
<1>6. SwapsTyped'
  <2>1. xx_m' \in [SL!XX -> SL!Threads \cup {SL!Nobody}]
        /\ xx_pc' \in [SL!Threads -> {"lock", "copy", "move", "move_back", "unlock", "end"}]
    BY <1>1 DEF StringsKept, SwapsTyped
  <2>2. \A u \in SL!Threads : \A x \in SL!XX : xx_m'[x] = u <=> xx_pc'[u] \notin {"lock", "end"}
    BY <1>3, <1>4, <1>5
  <2>. QED
    BY <1>1, <2>1, <2>2 DEF StringsKept, SwapsTyped
<1>7. BetweenSwaps' /\ Len(strings') = 2 + Cardinality(Swaps')
  BY <1>1, <1>3, <1>4 DEF StringsKept, BetweenSwaps, Says, Exchanged
<1>. QED
  BY <1>3, <1>4, <1>6, <1>7 DEF StringsKept, Swapping

LEMMA CopyStep == ASSUME StringsKept, NEW t \in SL!Threads, SL!Copy(t) PROVE StringsKept'
<1>. DEFINE lhs == Lhs[t]
            rhs == Rhs[t]
            text == strings[p_str[lhs]]
<1>1. /\ xx_pc[t] = "copy" /\ xx_pc' = [xx_pc EXCEPT ![t] = "move"] /\ xx_m' = xx_m
      /\ strings' = Append(strings, text)
      /\ p_str' = [p_str EXCEPT ![t] = Len(strings')]
  BY DEF SL!Copy, SL!Goto
<1>2. BetweenSwaps /\ Len(strings) = 2 + Cardinality(Swaps)
      /\ lhs \in SL!XX /\ rhs \in SL!XX /\ lhs # rhs /\ SL!XX = {lhs, rhs} /\ t \notin SL!XX
  BY <1>1, SwapsAlone DEF Swapping
<1>3. Swaps' = Swaps /\ xx_pc'[t] = "move"
  BY <1>1, SwapsStay DEF StringsKept
<1>4. text \in {Text[x] : x \in SL!XX} /\ text = Exchanged(lhs, rhs) /\ Len(strings) \in Nat
  BY <1>2, LenProperties, ElementOfSeq DEF StringsKept, SwapsTyped, BetweenSwaps, Says
<1>5. /\ strings' \in Seq({Text[x] : x \in SL!XX})
      /\ Len(strings') = Len(strings) + 1
      /\ \A i \in 1 .. Len(strings) : strings'[i] = strings[i]
      /\ strings'[Len(strings) + 1] = text
  BY <1>1, <1>4, AppendProperties DEF StringsKept, SwapsTyped
<1>6. /\ p_str' \in [SL!XX \cup SL!Threads -> Nat]
      /\ p_str'[t] = Len(strings) + 1
      /\ \A x \in SL!XX : p_str'[x] = p_str[x]
  BY <1>1, <1>2, <1>4, <1>5 DEF StringsKept, SwapsTyped
<1>7. BetweenSwaps'
  BY <1>2, <1>3, <1>4, <1>5, <1>6 DEF BetweenSwaps, Says, Exchanged
<1>8. Says(t, Exchanged(lhs, rhs))'
  BY <1>3, <1>4, <1>5, <1>6 DEF Says, Exchanged
<1>9. p_str'[t] \notin {p_str'[lhs], p_str'[rhs]}
  BY <1>2, <1>4, <1>6 DEF BetweenSwaps, Says
<1>10. Swapping(t)'
  BY <1>2, <1>3, <1>5, <1>7, <1>8, <1>9, SwapsCounted DEF Swapping
<1>. QED
  BY <1>1, <1>5, <1>6, <1>10, SwapGoesOn

LEMMA MoveStep == ASSUME StringsKept, NEW t \in SL!Threads, SL!Move(t) PROVE StringsKept'
<1>. DEFINE lhs == Lhs[t]
            rhs == Rhs[t]
<1>1. /\ xx_pc[t] = "move" /\ xx_pc' = [xx_pc EXCEPT ![t] = "move_back"] /\ xx_m' = xx_m
      /\ strings' = strings
      /\ p_str' = [p_str EXCEPT ![lhs] = p_str[rhs], ![rhs] = 0]
  BY DEF SL!Move, SL!MoveAssign, SL!Goto, SL!nullptr
<1>2. /\ BetweenSwaps /\ Len(strings) = 3 + Cardinality(Swaps)
      /\ Says(t, Exchanged(lhs, rhs)) /\ p_str[t] # p_str[rhs]
      /\ lhs \in SL!XX /\ rhs \in SL!XX /\ lhs # rhs /\ t \notin SL!XX
  BY <1>1, SwapsAlone DEF Swapping
<1>3. Swaps' = Swaps /\ xx_pc'[t] = "move_back"
  BY <1>1, SwapsStay DEF StringsKept
<1>4. /\ p_str' \in [SL!XX \cup SL!Threads -> Nat]
      /\ p_str'[lhs] = p_str[rhs] /\ p_str'[t] = p_str[t]
  BY <1>1, <1>2 DEF StringsKept, SwapsTyped
<1>5. Says(rhs, Exchanged(rhs, lhs))
  BY <1>2 DEF BetweenSwaps
<1>6. Says(lhs, Exchanged(rhs, lhs))' /\ Says(t, Exchanged(lhs, rhs))'
  BY <1>1, <1>2, <1>3, <1>4, <1>5 DEF Says, Exchanged
<1>7. Swapping(t)'
  BY <1>1, <1>2, <1>3, <1>4, <1>6 DEF Swapping
<1>. QED
  BY <1>1, <1>4, <1>7, SwapGoesOn DEF StringsKept, SwapsTyped

LEMMA MoveBackStep == ASSUME StringsKept, NEW t \in SL!Threads, SL!MoveBack(t) PROVE StringsKept'
<1>. DEFINE lhs == Lhs[t]
            rhs == Rhs[t]
<1>1. /\ xx_pc[t] = "move_back" /\ xx_pc' = [xx_pc EXCEPT ![t] = "unlock"] /\ xx_m' = xx_m
      /\ strings' = strings
      /\ p_str' = [p_str EXCEPT ![rhs] = p_str[t], ![t] = 0]
  BY DEF SL!MoveBack, SL!MoveAssign, SL!Goto, SL!nullptr
<1>2. /\ Len(strings) = 3 + Cardinality(Swaps)
      /\ Says(lhs, Exchanged(rhs, lhs)) /\ Says(t, Exchanged(lhs, rhs)) /\ p_str[t] # p_str[lhs]
      /\ lhs \in SL!XX /\ rhs \in SL!XX /\ lhs # rhs /\ t \notin SL!XX
  BY <1>1, SwapsAlone DEF Swapping
<1>3. Swaps' = Swaps /\ xx_pc'[t] = "unlock"
  BY <1>1, SwapsStay DEF StringsKept
<1>4. /\ p_str' \in [SL!XX \cup SL!Threads -> Nat]
      /\ p_str'[rhs] = p_str[t] /\ p_str'[lhs] = p_str[lhs]
  BY <1>1, <1>2 DEF StringsKept, SwapsTyped
<1>5. Says(lhs, Exchanged(rhs, lhs))' /\ Says(rhs, Exchanged(lhs, rhs))'
  BY <1>1, <1>2, <1>3, <1>4 DEF Says, Exchanged
<1>6. Swapping(t)'
  BY <1>1, <1>2, <1>3, <1>4, <1>5 DEF Swapping
<1>. QED
  BY <1>1, <1>4, <1>6, SwapGoesOn DEF StringsKept, SwapsTyped

\* The swap that ends turns Exchanged round.
LEMMA UnlockStep == ASSUME StringsKept, NEW t \in SL!Threads, SL!Unlock(t) PROVE StringsKept'
<1>. DEFINE lhs == Lhs[t]
            rhs == Rhs[t]
<1>1. /\ xx_pc[t] = "unlock" /\ xx_pc' = [xx_pc EXCEPT ![t] = "end"]
      /\ xx_m' = [x \in SL!XX |-> IF xx_m[x] = t THEN SL!Nobody ELSE xx_m[x]]
      /\ strings' = strings /\ p_str' = p_str
  BY DEF SL!Unlock, SL!Goto
<1>2. /\ Len(strings) = 3 + Cardinality(Swaps)
      /\ Says(lhs, Exchanged(rhs, lhs)) /\ Says(rhs, Exchanged(lhs, rhs)) /\ p_str[rhs] # p_str[lhs]
      /\ lhs \in SL!XX /\ rhs \in SL!XX /\ lhs # rhs /\ SL!XX = {lhs, rhs}
  BY <1>1, SwapsAlone DEF Swapping
<1>3. \A u \in SL!Threads : u # t => xx_pc'[u] = xx_pc[u] /\ xx_pc[u] \in {"lock", "end"}
  BY <1>1, SwapsAlone DEF StringsKept, SwapsTyped
<1>4. xx_pc'[t] = "end" /\ Swaps' = Swaps \cup {t} /\ t \notin Swaps
  BY <1>1 DEF StringsKept, SwapsTyped, Swaps
<1>5. Cardinality(Swaps') = Cardinality(Swaps) + 1
  BY <1>4, SwapsCounted, FS_AddElement
<1>6. Exchanged(lhs, rhs)' = Exchanged(rhs, lhs) /\ Exchanged(rhs, lhs)' = Exchanged(lhs, rhs)
  <2>1. Cardinality(Swaps') % 2 = 0 <=> Cardinality(Swaps) % 2 # 0
    BY <1>5, SwapsCounted
  <2>. QED
    BY <2>1 DEF Exchanged
<1>7. BetweenSwaps'
  BY <1>1, <1>2, <1>6 DEF BetweenSwaps, Says
<1>8. \A x \in SL!XX : xx_m'[x] = SL!Nobody
  BY <1>1 DEF StringsKept, SwapsTyped
<1>9. SwapsTyped'
  <2>1. xx_pc' \in [SL!Threads -> {"lock", "copy", "move", "move_back", "unlock", "end"}]
        /\ xx_m' \in [SL!XX -> SL!Threads \cup {SL!Nobody}]
    BY <1>1, <1>8 DEF StringsKept, SwapsTyped
  <2>2. \A u \in SL!Threads : \A x \in SL!XX : xx_m'[x] = u <=> xx_pc'[u] \notin {"lock", "end"}
    BY <1>3, <1>4, <1>8, TwoXX
  <2>. QED
    BY <1>1, <2>1, <2>2 DEF StringsKept, SwapsTyped
<1>. QED
  BY <1>1, <1>2, <1>3, <1>4, <1>5, <1>7, <1>9, SwapsCounted DEF StringsKept

LEMMA StringsKeptStep == ASSUME StringsKept, [TestNext]_test_vars PROVE StringsKept'
<1>1. CASE UNCHANGED sl_vars
  <2>1. SwapsTyped' <=> SwapsTyped
    BY <1>1 DEF sl_vars, SwapsTyped
  <2>2. Swaps' = Swaps
    BY <1>1 DEF sl_vars, Swaps
  <2>3. \A x, text : Says(x, text)' <=> Says(x, text)
    BY <1>1 DEF sl_vars, Says
  <2>4. BetweenSwaps' <=> BetweenSwaps
    BY <1>1, <2>2, <2>3 DEF sl_vars, BetweenSwaps, Exchanged
  <2>5. \A t : Swapping(t)' <=> Swapping(t)
    BY <1>1, <2>2, <2>3, <2>4 DEF sl_vars, Swapping, Exchanged
  <2>. QED
    BY <1>1, <2>1, <2>2, <2>4, <2>5 DEF sl_vars, StringsKept
<1>. QED
  BY <1>1, Steps, LockStep, CopyStep, MoveStep, MoveBackStep, UnlockStep DEF SL!Next

\* test_stdlock: under std::lock the moves of two swaps never mix, for
\* any number of threads that swap the two XX in either order.
THEOREM SwapsExchangeInTest == TestSpec => []SwapsExchange
<1>1. TestInit => StringsKept
  BY StringsKeptInit DEF TestInit
<1>2. ASSUME StringsKept PROVE SwapsExchange
  <2>1. SUFFICES ASSUME \A x \in SL!XX : xx_m[x] = SL!Nobody
                 PROVE  /\ \A x \in SL!XX : p_str[x] # 0
                        /\ \A x, y \in SL!XX : x # y =>
                             /\ p_str[x] # p_str[y]
                             /\ strings[p_str[x]] = Exchanged(x, y)
                        /\ Len(strings) = 2 + Cardinality(Swaps)
    BY TwoXX, SameCardinality DEF SwapsExchange, SL!SwapsExchange, SL!nullptr, Exchanged, Swaps
  <2>2. \A t \in SL!Threads : xx_pc[t] \in {"lock", "end"}
    BY <1>2, <2>1, TwoXX DEF StringsKept, SwapsTyped
  <2>3. BetweenSwaps /\ Len(strings) = 2 + Cardinality(Swaps)
    BY <1>2, <2>2 DEF StringsKept
  <2>. QED
    BY <2>3, TwoXX DEF BetweenSwaps, Says
<1>. QED
  BY <1>1, <1>2, StringsKeptStep, PTL DEF TestSpec

----------------------------------------------------------------------------
(* QuickSort *)

Ways  == Seq({"lower", "higher"})
Lo(w) == QS!Lower(w)
Hi(w) == QS!Higher(w)

\* The call v is u or one that u has led to.
Under(u, v) == Len(u) <= Len(v) /\ \A i \in 1 .. Len(u) : u[i] = v[i]

LEMMA WaysBranch ==
  \A u, v \in Ways :
    /\ Lo(v) \in Ways /\ Hi(v) \in Ways /\ Lo(v) # Hi(v)
    /\ Lo(v) # <<>> /\ Hi(v) # <<>> /\ Lo(v) # v /\ Hi(v) # v
    /\ Lo(u) = Lo(v) \/ Hi(u) = Hi(v) => u = v
    /\ Lo(u) # Hi(v)
<1>. TAKE u, v \in Ways
<1>1. /\ Lo(v) \in Ways /\ Len(Lo(v)) = Len(v) + 1 /\ Lo(v)[Len(v) + 1] = "lower"
      /\ Hi(v) \in Ways /\ Len(Hi(v)) = Len(v) + 1 /\ Hi(v)[Len(v) + 1] = "higher"
      /\ Len(u) \in Nat /\ Len(v) \in Nat
  BY AppendProperties, LenProperties DEF Ways, Lo, Hi, QS!Lower, QS!Higher
<1>2. /\ Len(Lo(u)) = Len(u) + 1 /\ Lo(u)[Len(u) + 1] = "lower" /\ Len(Hi(u)) = Len(u) + 1
  BY AppendProperties, LenProperties DEF Ways, Lo, Hi, QS!Lower, QS!Higher
<1>3. Lo(v) # <<>> /\ Hi(v) # <<>>
  BY <1>1
<1>4. Lo(u) = Lo(v) \/ Hi(u) = Hi(v) => u = v
  BY AppendInjective DEF Ways, Lo, Hi, QS!Lower, QS!Higher
<1>. QED
  BY <1>1, <1>2, <1>3, <1>4

LEMMA UnderBranch ==
  \A u, v \in Ways :
    /\ Under(v, v) /\ Under(<<>>, v)
    /\ Under(u, Lo(v)) <=> Under(u, v) \/ u = Lo(v)
    /\ Under(u, Hi(v)) <=> Under(u, v) \/ u = Hi(v)
    /\ ~ Under(Lo(v), v) /\ ~ Under(Hi(v), v)
<1>. TAKE u, v \in Ways
<1>1. Len(u) \in Nat /\ Len(v) \in Nat /\ Len(<<>>) = 0
  BY LenProperties DEF Ways
<1>2. ASSUME NEW s \in {"lower", "higher"}
      PROVE  /\ Under(u, Append(v, s)) <=> Under(u, v) \/ u = Append(v, s)
             /\ ~ Under(Append(v, s), v)
  <2>1. /\ Append(v, s) \in Ways /\ Len(Append(v, s)) = Len(v) + 1
        /\ \A i \in 1 .. Len(v) : Append(v, s)[i] = v[i]
    BY AppendProperties DEF Ways
  <2>2. ASSUME Len(u) <= Len(v)
        PROVE  Under(u, Append(v, s)) <=> Under(u, v)
    BY <1>1, <2>1, <2>2 DEF Under
  <2>3. Under(Append(v, s), Append(v, s))
    BY <1>1, <2>1 DEF Under
  <2>4. ASSUME Len(u) > Len(v), Under(u, Append(v, s)) PROVE u = Append(v, s)
    <3>1. Len(u) = Len(Append(v, s)) /\ \A i \in 1 .. Len(u) : u[i] = Append(v, s)[i]
      BY <1>1, <2>1, <2>4 DEF Under
    <3>. QED
      BY <2>1, <3>1, SeqEqual DEF Ways
  <2>5. Len(u) > Len(v) => ~ Under(u, v)
    BY <1>1 DEF Under
  <2>6. ~ Under(Append(v, s), v)
    BY <1>1, <2>1 DEF Under
  <2>7. Len(u) <= Len(v) => u # Append(v, s)
    BY <1>1, <2>1
  <2>8. Len(u) <= Len(v) \/ Len(u) > Len(v)
    BY <1>1
  <2>. QED
    BY <2>2, <2>3, <2>4, <2>5, <2>6, <2>7, <2>8, Zenon
<1>3. Under(v, v) /\ Under(<<>>, v)
  BY <1>1 DEF Under
<1>. QED
  BY <1>2, <1>3 DEF Lo, Hi, QS!Lower, QS!Higher

\* Every call but the first was made by another one.
LEMMA WayBack ==
  \A v \in Ways : v # <<>> => \E u \in Ways : v \in {Lo(u), Hi(u)}
BY SequenceEmptyOrAppend DEF Ways, Lo, Hi, QS!Lower, QS!Higher

\* What u has led to, other than u, it has led to by its lower or its higher part.
LEMMA UnderPart ==
  \A u, v \in Ways : Under(u, v) /\ u # v => Under(Lo(u), v) \/ Under(Hi(u), v)
<1>. TAKE u, v \in Ways
<1>. HAVE Under(u, v) /\ u # v
<1>1. Len(u) \in Nat /\ Len(v) \in Nat
  BY LenProperties DEF Ways
<1>2. Len(u) < Len(v)
  <2>. SUFFICES ASSUME Len(u) = Len(v) PROVE FALSE
    BY <1>1 DEF Under
  <2>. QED
    BY SeqEqual DEF Under, Ways
<1>3. v[Len(u) + 1] \in {"lower", "higher"}
  BY <1>1, <1>2, ElementOfSeq DEF Ways
<1>4. ASSUME NEW s, s = v[Len(u) + 1] PROVE Under(Append(u, s), v)
  <2>1. /\ Len(Append(u, s)) = Len(u) + 1 /\ Append(u, s)[Len(u) + 1] = s
        /\ \A i \in 1 .. Len(u) : Append(u, s)[i] = u[i]
    BY <1>3, <1>4, AppendProperties DEF Ways
  <2>. QED
    BY <1>1, <1>2, <1>4, <2>1 DEF Under
<1>. QED
  BY <1>3, <1>4 DEF Lo, Hi, QS!Lower, QS!Higher

----------------------------------------------------------------------------
(* QuickSort: the invariant *)

Pc(w)   == calls[w].pc
List(w) == calls[w].list

SortTyped ==
  /\ lst \in Seq(Nat)
  /\ DOMAIN calls \subseteq Ways
  /\ calls = [w \in DOMAIN calls |-> calls[w]]
  /\ \A w \in DOMAIN calls :
       /\ calls[w] = [pc |-> Pc(w), list |-> List(w)]
       /\ Pc(w) \in {"later", "called", "parted", "returned"}
       /\ List(w) \in Seq(Nat)

\* The calls form a tree: a call is parted from the time it has two parts until
\* it returns, and what it has led to has returned before it.
CallTree ==
  /\ \A v \in DOMAIN calls, u \in Ways : Under(u, v) => u \in DOMAIN calls
  /\ \A u \in DOMAIN calls :
       /\ Lo(u) \in DOMAIN calls <=> Hi(u) \in DOMAIN calls
       /\ Pc(u) = "parted" =>
            Lo(u) \in DOMAIN calls /\ Hi(u) \in DOMAIN calls /\ Len(List(u)) = 1
       /\ Pc(u) \in {"later", "called"} => Lo(u) \notin DOMAIN calls /\ Hi(u) \notin DOMAIN calls
       /\ Pc(u) = "returned" => \A v \in DOMAIN calls : Under(u, v) => Pc(v) = "returned"

\* A call whose list is not yet part of its caller's result.
Live(v) ==
  /\ v \in DOMAIN calls
  /\ v = <<>> \/ \E u \in DOMAIN calls : Pc(u) = "parted" /\ v \in {Lo(u), Hi(u)}

Slot(v, i) == Live(v) /\ i \in 1 .. Len(List(v))

\* The pivot lies between what there is of its lower and its higher part.
Between ==
  \A u \in DOMAIN calls : Pc(u) = "parted" =>
    \A v, i : Slot(v, i) =>
      /\ Under(Lo(u), v) => List(v)[i] < List(u)[1]
      /\ Under(Hi(u), v) => List(v)[i] >= List(u)[1]

Ascends(list) == \A i, j \in 1 .. Len(list) : i <= j => list[i] <= list[j]

ReturnedAscends == \A w \in DOMAIN calls : Pc(w) = "returned" => Ascends(List(w))

\* f finds for each element of a live list its place in the list of the test.
Places(f) ==
  /\ \A v, i : Slot(v, i) => f[v][i] \in 1 .. Len(lst) /\ lst[f[v][i]] = List(v)[i]
  /\ \A v, i, u, j : Slot(v, i) /\ Slot(u, j) /\ f[v][i] = f[u][j] => v = u /\ i = j
  /\ \A k \in 1 .. Len(lst) : \E v, i : Slot(v, i) /\ f[v][i] = k

SortKept == SortTyped /\ CallTree /\ Between /\ ReturnedAscends /\ \E f : Places(f)

\* A call that has not returned is part of nothing yet.
LEMMA NotReturnedIsLive ==
  ASSUME SortTyped, CallTree, NEW w \in DOMAIN calls, Pc(w) # "returned"
  PROVE  Live(w)
<1>. SUFFICES ASSUME w # <<>>
              PROVE  \E u \in DOMAIN calls : Pc(u) = "parted" /\ w \in {Lo(u), Hi(u)}
  BY DEF Live
<1>1. PICK u \in Ways : w \in {Lo(u), Hi(u)}
  BY WayBack DEF SortTyped
<1>2. Under(u, w)
  BY <1>1, UnderBranch DEF SortTyped
<1>3. u \in DOMAIN calls /\ Pc(u) # "returned" /\ Pc(u) \notin {"later", "called"}
  BY <1>1, <1>2 DEF CallTree
<1>. QED
  BY <1>1, <1>3 DEF SortTyped

\* A call that is made, or returns an empty list, leaves the tree as it is.
LEMMA StatusStep ==
  ASSUME SortKept, NEW w \in DOMAIN calls, NEW status \in {"called", "returned"},
         Pc(w) \in {"later", "called"},
         status = "returned" => List(w) = <<>>,
         calls' = [calls EXCEPT ![w].pc = status], lst' = lst
  PROVE  SortKept'
<1>0. /\ DOMAIN calls' = DOMAIN calls
      /\ calls'[w] = [pc |-> status, list |-> List(w)]
      /\ \A v \in DOMAIN calls : v # w => calls'[v] = calls[v]
      /\ calls' = [v \in DOMAIN calls |-> calls'[v]]
  <2>1. [calls[w] EXCEPT !.pc = status] = [pc |-> status, list |-> List(w)]
    BY DEF SortKept, SortTyped
  <2>2. calls' = [v \in DOMAIN calls |-> IF v = w THEN [pc |-> status, list |-> List(w)] ELSE calls[v]]
    BY <2>1
  <2>. QED
    BY <2>2
<1>1. /\ DOMAIN calls' = DOMAIN calls
      /\ \A v \in DOMAIN calls : List(v)' = List(v)
      /\ \A v \in DOMAIN calls : v # w => Pc(v)' = Pc(v)
      /\ Pc(w)' = status
  <2>1. \A v \in DOMAIN calls : v # w => Pc(v)' = Pc(v) /\ List(v)' = List(v)
    BY <1>0, Zenon DEF Pc, List
  <2>2. Pc(w)' = status /\ List(w)' = List(w)
    <3>. DEFINE list == List(w)
    <3>1. calls'[w] = [pc |-> status, list |-> list]
      BY <1>0
    <3>. HIDE DEF list
    <3>2. calls'[w].pc = status /\ calls'[w].list = list
      BY <3>1
    <3>. QED
      BY <3>2, Zenon DEF Pc, List, list
  <2>. QED
    BY <1>0, <2>1, <2>2
<1>2. \A v \in DOMAIN calls : Pc(v)' = "parted" <=> Pc(v) = "parted"
  BY <1>1
<1>3. SortTyped'
  <2>1. \A v \in DOMAIN calls : calls'[v] = [pc |-> Pc(v)', list |-> List(v)']
    BY <1>0, <1>1 DEF SortKept, SortTyped, Pc, List
  <2>. QED
    BY <1>0, <1>1, <2>1 DEF SortKept, SortTyped
<1>4. CallTree'
  <2>1. \A v \in DOMAIN calls : Under(w, v) => v = w
    BY UnderPart, WaysBranch DEF SortKept, SortTyped, CallTree
  <2>. QED
    BY <1>1, <1>2, <2>1 DEF SortKept, CallTree
<1>5. \A v, i : Slot(v, i)' <=> Slot(v, i)
  BY <1>1, <1>2 DEF Slot, Live
<1>6. Between'
  BY <1>1, <1>2, <1>5 DEF SortKept, Between, Slot, Live
<1>7. ReturnedAscends'
  BY <1>1 DEF SortKept, ReturnedAscends, Ascends
<1>8. \A f : Places(f) => Places(f)'
  <2>. SUFFICES ASSUME NEW f, Places(f) PROVE Places(f)'
    OBVIOUS
  <2>1. \A v, i : Slot(v, i) => List(v)' = List(v)
    BY <1>1 DEF Slot, Live
  <2>. QED
    BY <1>5, <2>1 DEF Places
<1>. QED
  BY <1>3, <1>4, <1>6, <1>7, <1>8 DEF SortKept

\* The elements of the live lists are those that were, at other places.
Rearranges(way, index) ==
  /\ \A v, i : Slot(v, i)' =>
       Slot(way[v][i], index[v][i]) /\ List(v)'[i] = List(way[v][i])[index[v][i]]
  /\ \A v, i, u, j : Slot(v, i)' /\ Slot(u, j)' /\ way[v][i] = way[u][j]
                      /\ index[v][i] = index[u][j] => v = u /\ i = j
  /\ \A v, k : Slot(v, k) => \E u, i : Slot(u, i)' /\ way[u][i] = v /\ index[u][i] = k

\* Elements that only change their places in the tree keep those in lst.
LEMMA Rearranged ==
  ASSUME SortTyped', NEW f, Places(f), lst' = lst, NEW way, NEW index, Rearranges(way, index)
  PROVE  \E g : Places(g)'
<1>. DEFINE g == [v \in Ways |-> [i \in Nat |-> f[way[v][i]][index[v][i]]]]
<1>1. \A v, i : Slot(v, i)' => v \in Ways /\ i \in Nat
  BY DEF SortTyped, Slot, Live
<1>2. \A v, i : Slot(v, i)' => g[v][i] = f[way[v][i]][index[v][i]]
  BY <1>1
<1>. HIDE DEF g
<1>3. \A v, i : Slot(v, i)' => g[v][i] \in 1 .. Len(lst) /\ lst[g[v][i]] = List(v)'[i]
  BY <1>2 DEF Places, Rearranges
<1>4. \A v, i, u, j : Slot(v, i)' /\ Slot(u, j)' /\ g[v][i] = g[u][j] => v = u /\ i = j
  <2>. SUFFICES ASSUME NEW v, NEW i, NEW u, NEW j, Slot(v, i)', Slot(u, j)', g[v][i] = g[u][j]
                PROVE  v = u /\ i = j
    OBVIOUS
  <2>1. f[way[v][i]][index[v][i]] = f[way[u][j]][index[u][j]]
    BY <1>2
  <2>2. Slot(way[v][i], index[v][i]) /\ Slot(way[u][j], index[u][j])
    BY DEF Rearranges
  <2>3. \A x, k, y, l : Slot(x, k) /\ Slot(y, l) /\ f[x][k] = f[y][l] => x = y /\ k = l
    BY Zenon DEF Places
  <2>4. way[v][i] = way[u][j] /\ index[v][i] = index[u][j]
    BY <2>1, <2>2, <2>3
  <2>. QED
    BY <2>4, Zenon DEF Rearranges
<1>5. \A k \in 1 .. Len(lst) : \E v, i : Slot(v, i)' /\ g[v][i] = k
  <2>. TAKE k \in 1 .. Len(lst)
  <2>1. PICK v, i : Slot(v, i) /\ f[v][i] = k
    BY DEF Places
  <2>2. PICK u, j : Slot(u, j)' /\ way[u][j] = v /\ index[u][j] = i
    BY <2>1 DEF Rearranges
  <2>. QED
    BY <1>2, <2>1, <2>2
<1>6. Places(g)'
  BY <1>3, <1>4, <1>5 DEF Places
<1>. QED
  BY <1>6

\* The call w parts its list: order is what std::partition leaves of the n
\* elements behind the pivot, and d of them are less than that.
Parted(w, n, order, d) ==
  /\ w \in DOMAIN calls /\ Pc(w) = "called"
  /\ n \in Nat /\ Len(List(w)) = n + 1
  /\ d \in Nat /\ d <= n
  /\ \A i \in 1 .. n : order[i] \in 1 .. n
  /\ \A i, j \in 1 .. n : order[i] = order[j] => i = j
  /\ \A k \in 1 .. n : \E i \in 1 .. n : order[i] = k
  /\ \A i \in 1 .. n : List(w)[order[i] + 1] < List(w)[1] <=> i <= d
  /\ DOMAIN calls' = DOMAIN calls \cup {Lo(w), Hi(w)}
  /\ calls' = [v \in DOMAIN calls' |-> calls'[v]]
  /\ calls'[w] = [pc |-> "parted", list |-> <<List(w)[1]>>]
  /\ \E status \in {"later", "called"} :
       calls'[Lo(w)] = [pc |-> status, list |-> [i \in 1 .. d |-> List(w)[order[i] + 1]]]
  /\ \E status \in {"later", "called"} :
       calls'[Hi(w)] = [pc |-> status, list |-> [i \in 1 .. n - d |-> List(w)[order[d + i] + 1]]]
  /\ \A v \in DOMAIN calls : v # w => calls'[v] = calls[v]
  /\ lst' = lst

\* The parts that a call makes of its list take over its elements.
LEMMA PartitionStep ==
  ASSUME SortKept, NEW w, NEW n, NEW order, NEW d, Parted(w, n, order, d)
  PROVE  SortKept'
<1>. DEFINE lower  == [i \in 1 .. d |-> List(w)[order[i] + 1]]
            higher == [i \in 1 .. n - d |-> List(w)[order[d + i] + 1]]
<1>1. /\ w \in DOMAIN calls /\ Pc(w) = "called"
      /\ w \in Ways /\ Lo(w) \in Ways /\ Hi(w) \in Ways
      /\ Lo(w) # w /\ Hi(w) # w /\ Lo(w) # Hi(w)
      /\ Lo(w) \notin DOMAIN calls /\ Hi(w) \notin DOMAIN calls
  BY WaysBranch DEF Parted, SortKept, SortTyped, CallTree
<1>2. /\ DOMAIN calls' = DOMAIN calls \cup {Lo(w), Hi(w)}
      /\ calls' = [v \in DOMAIN calls' |-> calls'[v]]
      /\ calls'[w] = [pc |-> Pc(w)', list |-> List(w)']
      /\ calls'[Lo(w)] = [pc |-> Pc(Lo(w))', list |-> List(Lo(w))']
      /\ calls'[Hi(w)] = [pc |-> Pc(Hi(w))', list |-> List(Hi(w))']
      /\ \A v \in DOMAIN calls : v # w => calls'[v] = calls[v]
  <2>. HIDE DEF lower, higher
  <2>. QED
    BY DEF Parted, Pc, List, lower, higher
<1>3. /\ Pc(w)' = "parted" /\ List(w)' = <<List(w)[1]>>
      /\ Pc(Lo(w))' \in {"later", "called"} /\ List(Lo(w))' = lower
      /\ Pc(Hi(w))' \in {"later", "called"} /\ List(Hi(w))' = higher
      /\ \A v \in DOMAIN calls : v # w => Pc(v)' = Pc(v) /\ List(v)' = List(v)
  BY DEF Parted, Pc, List
<1>4. /\ n \in Nat /\ d \in Nat /\ d <= n /\ n - d \in Nat
      /\ Len(List(w)) = n + 1 /\ List(w) \in Seq(Nat)
      /\ \A k \in 1 .. n + 1 : List(w)[k] \in Nat
      /\ \A i \in 1 .. n : order[i] \in 1 .. n /\ order[i] + 1 \in 1 .. n + 1
      /\ \A i \in 1 .. n - d : d + i \in 1 .. n /\ d + i > d
      /\ \A i \in 1 .. d : i \in 1 .. n
  <2>1. n \in Nat /\ d \in Nat /\ d <= n /\ Len(List(w)) = n + 1 /\ List(w) \in Seq(Nat)
        /\ \A i \in 1 .. n : order[i] \in 1 .. n
    BY DEF Parted, SortKept, SortTyped
  <2>2. \A k \in 1 .. n + 1 : List(w)[k] \in Nat
    BY <2>1, ElementOfSeq
  <2>. QED
    BY <2>1, <2>2
<1>5. /\ Len(List(w)') = 1 /\ List(w)'[1] = List(w)[1]
      /\ Len(List(Lo(w))') = d /\ \A i \in 1 .. d : List(Lo(w))'[i] = List(w)[order[i] + 1]
      /\ Len(List(Hi(w))') = n - d
      /\ \A i \in 1 .. n - d : List(Hi(w))'[i] = List(w)[order[d + i] + 1]
  BY <1>3, <1>4
<1>6. SortTyped'
  <2>1. List(w)' \in Seq(Nat) /\ List(Lo(w))' \in Seq(Nat) /\ List(Hi(w))' \in Seq(Nat)
    <3>1. lower \in [1 .. d -> Nat]
      BY <1>4
    <3>2. higher \in [1 .. n - d -> Nat]
      BY <1>4
    <3>3. List(w)[1] \in Nat
      BY <1>4
    <3>4. \A k \in Nat : [1 .. k -> Nat] \subseteq Seq(Nat)
      BY SeqDef
    <3>5. <<List(w)[1]>> \in Seq(Nat)
      BY <3>3
    <3>. HIDE DEF lower, higher
    <3>. QED
      BY <1>3, <1>4, <3>1, <3>2, <3>4, <3>5
  <2>2. \A v \in DOMAIN calls : v # w => calls'[v] = [pc |-> Pc(v)', list |-> List(v)']
    BY <1>2, <1>3 DEF SortKept, SortTyped
  <2>. QED
    <3>1. ASSUME NEW v \in DOMAIN calls'
          PROVE  /\ v \in Ways
                 /\ calls'[v] = [pc |-> Pc(v)', list |-> List(v)']
                 /\ Pc(v)' \in {"later", "called", "parted", "returned"}
                 /\ List(v)' \in Seq(Nat)
      <4>1. CASE v \in DOMAIN calls /\ v # w
        BY <1>3, <2>2, <4>1 DEF SortKept, SortTyped
      <4>2. CASE v \in {w, Lo(w), Hi(w)}
        BY <1>1, <1>2, <1>3, <2>1, <4>2
      <4>. QED
        BY <1>2, <4>1, <4>2
    <3>2. lst' \in Seq(Nat)
      BY DEF Parted, SortKept, SortTyped
    <3>. QED
      BY <1>2, <3>1, <3>2 DEF SortTyped
<1>7. \A v \in DOMAIN calls : Under(w, v) => v = w
  BY <1>1, UnderPart DEF SortKept, SortTyped, CallTree
<1>8. \A u \in DOMAIN calls' : Under(Lo(w), u) <=> u = Lo(w)
  BY <1>1, <1>2, UnderBranch DEF SortKept, SortTyped, CallTree
<1>9. \A u \in DOMAIN calls' : Under(Hi(w), u) <=> u = Hi(w)
  BY <1>1, <1>2, UnderBranch DEF SortKept, SortTyped, CallTree
<1>10. CallTree'
  <2>1. ASSUME NEW v \in DOMAIN calls', NEW u \in Ways, Under(u, v) PROVE u \in DOMAIN calls'
    BY <1>1, <1>2, <2>1, UnderBranch DEF SortKept, CallTree
  <2>2. ASSUME NEW u \in DOMAIN calls', Pc(u)' = "parted"
        PROVE  Lo(u) \in DOMAIN calls' /\ Hi(u) \in DOMAIN calls' /\ Len(List(u)') = 1
    BY <1>2, <1>3, <1>5, <2>2 DEF SortKept, CallTree
  <2>3. ASSUME NEW u \in DOMAIN calls', Pc(u)' \in {"later", "called"}
        PROVE  Lo(u) \notin DOMAIN calls' /\ Hi(u) \notin DOMAIN calls'
    <3>1. u \in Ways /\ u # w
      BY <1>3, <1>6, <2>3 DEF SortTyped
    <3>2. Lo(u) \notin {Lo(w), Hi(w)} /\ Hi(u) \notin {Lo(w), Hi(w)}
      BY <1>1, <3>1, WaysBranch
    <3>3. Lo(u) \notin DOMAIN calls /\ Hi(u) \notin DOMAIN calls
      <4>1. CASE u \in DOMAIN calls
        BY <1>3, <2>3, <3>1, <4>1 DEF SortKept, CallTree
      <4>2. CASE u \in {Lo(w), Hi(w)}
        BY <1>1, <3>1, <4>2, UnderBranch, WaysBranch DEF SortKept, CallTree
      <4>. QED
        BY <1>2, <4>1, <4>2
    <3>. QED
      BY <1>2, <3>2, <3>3
  <2>4. ASSUME NEW u \in DOMAIN calls', Pc(u)' = "returned",
               NEW v \in DOMAIN calls', Under(u, v)
        PROVE  Pc(v)' = "returned"
    <3>1. u \in DOMAIN calls /\ u # w /\ Pc(u) = "returned" /\ u \in Ways
      BY <1>2, <1>3, <2>4 DEF SortKept, SortTyped
    <3>2. ~ Under(u, w)
      BY <1>1, <3>1 DEF SortKept, CallTree
    <3>3. v \in DOMAIN calls /\ v # w
      BY <1>1, <1>2, <2>4, <3>1, <3>2, UnderBranch
    <3>. QED
      BY <1>3, <2>4, <3>1, <3>3 DEF SortKept, CallTree
  <2>5. ASSUME NEW u \in DOMAIN calls' PROVE Lo(u) \in DOMAIN calls' <=> Hi(u) \in DOMAIN calls'
    <3>1. CASE u = w
      BY <1>2, <3>1
    <3>2. CASE u # w
      <4>1. Lo(u) \notin {Lo(w), Hi(w)} /\ Hi(u) \notin {Lo(w), Hi(w)}
        BY <1>1, <1>6, <3>2, WaysBranch DEF SortTyped
      <4>2. CASE u \in DOMAIN calls
        BY <1>2, <4>1, <4>2 DEF SortKept, CallTree
      <4>3. CASE u \in {Lo(w), Hi(w)}
        BY <1>3, <2>3, <2>5, <4>3
      <4>. QED
        BY <1>2, <4>2, <4>3
    <3>. QED
      BY <3>1, <3>2
  <2>. QED
    BY <2>1, <2>2, <2>3, <2>4, <2>5 DEF CallTree
<1>11. Live(w)
  BY <1>1, NotReturnedIsLive DEF SortKept
<1>12. \A v : Live(v)' <=> Live(v) \/ v \in {Lo(w), Hi(w)}
  <2>1. \A u \in DOMAIN calls' : Pc(u)' = "parted" <=> u \in DOMAIN calls /\ (u = w \/ Pc(u) = "parted")
    BY <1>1, <1>2, <1>3
  <2>2. \A u \in DOMAIN calls : u # w /\ Pc(u) = "parted" => Lo(u) \in DOMAIN calls /\ Hi(u) \in DOMAIN calls
    BY DEF SortKept, CallTree
  <2>. QED
    BY <1>1, <1>2, <2>1, <2>2 DEF Live
<1>13. /\ \A i : Slot(w, i) <=> i \in 1 .. n + 1
       /\ \A i : Slot(w, i)' <=> i = 1
       /\ \A i : Slot(Lo(w), i)' <=> i \in 1 .. d
       /\ \A i : Slot(Hi(w), i)' <=> i \in 1 .. n - d
       /\ \A v, i : v \notin {w, Lo(w), Hi(w)} => (Slot(v, i)' <=> Slot(v, i))
       /\ \A v, i : Slot(v, i) => v \in DOMAIN calls
  <2>1. \A i : Slot(w, i) <=> i \in 1 .. n + 1
    BY <1>4, <1>11 DEF Slot
  <2>2. \A i : i \in 1 .. 1 <=> i = 1
    OBVIOUS
  <2>3. \A i : Slot(w, i)' <=> i \in 1 .. 1
    <3>1. Live(w)'
      BY <1>11, <1>12
    <3>. QED
      BY <1>5, <3>1 DEF Slot
  <2>4. \A i : (Slot(Lo(w), i)' <=> i \in 1 .. d) /\ (Slot(Hi(w), i)' <=> i \in 1 .. n - d)
    <3>1. Live(Lo(w))' /\ Live(Hi(w))'
      BY <1>12
    <3>. QED
      BY <1>5, <3>1 DEF Slot
  <2>5. ASSUME NEW v, NEW i, v \notin {w, Lo(w), Hi(w)} PROVE Slot(v, i)' <=> Slot(v, i)
    <3>1. Live(v)' <=> Live(v)
      BY <1>12, <2>5
    <3>2. Live(v) => List(v)' = List(v)
      BY <1>3, <2>5 DEF Live
    <3>. QED
      BY <3>1, <3>2 DEF Slot
  <2>6. \A v, i : Slot(v, i) => v \in DOMAIN calls
    BY DEF Slot, Live
  <2>. QED
    BY <2>1, <2>2, <2>3, <2>4, <2>5, <2>6
\* Where an element of the new lists was.
<1>. DEFINE way   == [v \in Ways |-> [i \in Nat |-> IF v \in {Lo(w), Hi(w)} THEN w ELSE v]]
            index == [v \in Ways |-> [i \in Nat |->
                        IF v = Lo(w) THEN order[i] + 1
                        ELSE IF v = Hi(w) THEN order[d + i] + 1 ELSE i]]
<1>15. \A v, i : Slot(v, i)' => v \in Ways /\ i \in Nat
  BY <1>2, <1>6 DEF Slot, Live, SortTyped
<1>16. \A v, i : Slot(v, i)' =>
         /\ v \notin {Lo(w), Hi(w)} => way[v][i] = v /\ index[v][i] = i
         /\ v = Lo(w) => way[v][i] = w /\ index[v][i] = order[i] + 1
         /\ v = Hi(w) => way[v][i] = w /\ index[v][i] = order[d + i] + 1
  BY <1>1, <1>15
<1>. HIDE DEF way, index, lower, higher
<1>18. ASSUME NEW v, NEW i, Slot(v, i)'
       PROVE  /\ Slot(way[v][i], index[v][i])
              /\ List(v)'[i] = List(way[v][i])[index[v][i]]
  <2>1. CASE v = Lo(w)
    <3>1. i \in 1 .. d /\ order[i] + 1 \in 1 .. n + 1
      BY <1>1, <1>4, <1>13, <1>18, <2>1
    <3>. QED
      BY <1>5, <1>13, <1>16, <1>18, <2>1, <3>1
  <2>2. CASE v = Hi(w)
    <3>1. i \in 1 .. n - d /\ order[d + i] + 1 \in 1 .. n + 1
      BY <1>1, <1>4, <1>13, <1>18, <2>2
    <3>. QED
      BY <1>5, <1>13, <1>16, <1>18, <2>2, <3>1
  <2>3. CASE v = w
    <3>1. i = 1 /\ 1 \in 1 .. n + 1
      BY <1>4, <1>13, <1>18, <2>3
    <3>. QED
      BY <1>1, <1>5, <1>13, <1>16, <1>18, <2>3, <3>1
  <2>4. CASE v \notin {w, Lo(w), Hi(w)}
    <3>1. Slot(v, i) /\ v \in DOMAIN calls
      BY <1>13, <1>18, <2>4
    <3>. QED
      BY <1>3, <1>16, <1>18, <2>4, <3>1
  <2>. QED
    BY <2>1, <2>2, <2>3, <2>4
<1>19. ASSUME NEW v, NEW i, NEW u, NEW j, Slot(v, i)', Slot(u, j)',
              way[v][i] = way[u][j], index[v][i] = index[u][j]
       PROVE  v = u /\ i = j
  <2>1. ASSUME NEW x, NEW k, Slot(x, k)'
        PROVE  /\ x \notin {w, Lo(w), Hi(w)} => way[x][k] = x /\ index[x][k] = k
               /\ x = w     => way[x][k] = w /\ index[x][k] = 1 /\ k = 1
               /\ x = Lo(w) => way[x][k] = w /\ k \in 1 .. d /\ index[x][k] = order[k] + 1
               /\ x = Hi(w) => way[x][k] = w /\ k \in 1 .. n - d /\ index[x][k] = order[d + k] + 1
    BY <1>1, <1>13, <1>16, <2>1
  <2>2. \A k, l \in 1 .. n : order[k] + 1 # 1 /\ (order[k] + 1 = order[l] + 1 => k = l)
    <3>1. \A k, l \in 1 .. n : order[k] = order[l] => k = l
      BY DEF Parted
    <3>2. \A k, l \in Nat : k + 1 = l + 1 => k = l
      OBVIOUS
    <3>3. \A k \in 1 .. n : order[k] \in Nat /\ order[k] # 0
      BY <1>4
    <3>4. \A k \in Nat : k # 0 => k + 1 # 1
      OBVIOUS
    <3>. QED
      BY <3>1, <3>2, <3>3, <3>4
  <2>3. \A k \in 1 .. d : k \in 1 .. n /\ \A l \in 1 .. n - d : k # d + l
    BY <1>4
  <2>4. \A k, l \in 1 .. n - d : d + k \in 1 .. n /\ (d + k = d + l => k = l)
    BY <1>4
  <2>5. CASE v \notin {w, Lo(w), Hi(w)} \/ u \notin {w, Lo(w), Hi(w)}
    BY <1>19, <2>1, <2>5
  <2>6. ASSUME v = w, u \in {w, Lo(w), Hi(w)} PROVE v = u /\ i = j
    BY <1>19, <2>1, <2>2, <2>3, <2>4, <2>6
  <2>7. ASSUME u = w, v \in {w, Lo(w), Hi(w)} PROVE v = u /\ i = j
    BY <1>19, <2>1, <2>2, <2>3, <2>4, <2>7
  <2>8. CASE v = Lo(w) /\ u = Lo(w)
    BY <1>19, <2>1, <2>2, <2>3, <2>8
  <2>9. CASE v = Hi(w) /\ u = Hi(w)
    BY <1>19, <2>1, <2>2, <2>4, <2>9
  <2>10. CASE v = Lo(w) /\ u = Hi(w)
    BY <1>19, <2>1, <2>2, <2>3, <2>4, <2>10
  <2>11. CASE v = Hi(w) /\ u = Lo(w)
    BY <1>19, <2>1, <2>2, <2>3, <2>4, <2>11
  <2>. QED
    BY <2>5, <2>6, <2>7, <2>8, <2>9, <2>10, <2>11, Zenon
<1>20. ASSUME NEW v, NEW k, Slot(v, k)
       PROVE  \E u, i : Slot(u, i)' /\ way[u][i] = v /\ index[u][i] = k
  <2>1. CASE v # w
    <3>1. Slot(v, k)' /\ v \notin {Lo(w), Hi(w)}
      BY <1>1, <1>13, <1>20, <2>1 DEF Slot, Live
    <3>. QED
      BY <1>16, <3>1
  <2>2. CASE v = w /\ k = 1
    BY <1>1, <1>13, <1>16, <2>2
  <2>3. CASE v = w /\ k # 1
    <3>1. k \in 1 .. n + 1 /\ k - 1 \in 1 .. n
      BY <1>4, <1>20, <2>3 DEF Slot
    <3>2. PICK i \in 1 .. n : order[i] = k - 1
      BY <3>1 DEF Parted
    <3>3. CASE i <= d
      <4>1. i \in 1 .. d /\ order[i] + 1 = k
        BY <1>4, <3>1, <3>2, <3>3
      <4>2. Slot(Lo(w), i)'
        BY <1>13, <4>1
      <4>. QED
        BY <1>16, <2>3, <4>1, <4>2
    <3>4. CASE i > d
      <4>1. i - d \in 1 .. n - d /\ d + (i - d) = i /\ order[i] + 1 = k
        BY <1>4, <3>1, <3>2, <3>4
      <4>2. Slot(Hi(w), i - d)'
        BY <1>13, <4>1
      <4>. QED
        BY <1>16, <2>3, <4>1, <4>2
    <3>. QED
      BY <1>4, <3>3, <3>4
  <2>. QED
    BY <2>1, <2>2, <2>3
<1>21. \E g : Places(g)'
  <2>1. PICK f : Places(f)
    BY DEF SortKept
  <2>2. lst' = lst
    BY DEF Parted
  <2>3. Rearranges(way, index)
    BY <1>18, <1>19, <1>20 DEF Rearranges
  <2>. QED
    BY <1>6, <2>1, <2>2, <2>3, Rearranged
<1>22. Between'
  <2>. SUFFICES ASSUME NEW u \in DOMAIN calls', Pc(u)' = "parted", NEW v, NEW i, Slot(v, i)'
                PROVE  /\ Under(Lo(u), v) => List(v)'[i] < List(u)'[1]
                       /\ Under(Hi(u), v) => List(v)'[i] >= List(u)'[1]
    BY DEF Between
  <2>1. CASE u = w
    <3>1. v \in DOMAIN calls'
      BY DEF Slot, Live
    <3>2. ASSUME v = Lo(w) PROVE i \in 1 .. d /\ List(v)'[i] < List(w)'[1]
      <4>1. i \in 1 .. d /\ i \in 1 .. n /\ i <= d
        BY <1>1, <1>4, <1>13, <3>2
      <4>2. List(w)[order[i] + 1] < List(w)[1]
        BY <4>1 DEF Parted
      <4>. QED
        BY <1>5, <3>2, <4>1, <4>2
    <3>3. ASSUME v = Hi(w) PROVE List(v)'[i] >= List(w)'[1]
      <4>1. i \in 1 .. n - d /\ d + i \in 1 .. n /\ ~ (d + i <= d)
        BY <1>1, <1>4, <1>13, <3>3
      <4>2. ~ (List(w)[order[d + i] + 1] < List(w)[1])
        BY <4>1 DEF Parted
      <4>3. List(w)[order[d + i] + 1] \in Nat /\ List(w)[1] \in Nat
        <5>1. order[d + i] + 1 \in 1 .. n + 1
          BY <1>4, <4>1
        <5>. QED
          BY <1>4, <5>1
      <4>. QED
        BY <1>5, <3>3, <4>1, <4>2, <4>3
    <3>. QED
      BY <1>8, <1>9, <2>1, <3>1, <3>2, <3>3
  <2>2. CASE u # w
    <3>1. u \in DOMAIN calls /\ Pc(u) = "parted" /\ List(u)' = List(u) /\ u \in Ways
      BY <1>2, <1>3, <2>2 DEF SortKept, SortTyped
    <3>2. Lo(u) \in Ways /\ Hi(u) \in Ways /\ Lo(u) # Lo(w) /\ Hi(u) # Hi(w)
          /\ Lo(u) # Hi(w) /\ Hi(u) # Lo(w)
      BY <1>1, <2>2, <3>1, WaysBranch
    <3>3. /\ Under(Lo(u), v) => Under(Lo(u), way[v][i])
          /\ Under(Hi(u), v) => Under(Hi(u), way[v][i])
      BY <1>1, <1>16, <3>2, UnderBranch
    <3>. QED
      BY <1>18, <3>1, <3>3 DEF SortKept, Between
  <2>. QED
    BY <2>1, <2>2
<1>23. ReturnedAscends'
  BY <1>2, <1>3 DEF SortKept, ReturnedAscends, Ascends
<1>. QED
  BY <1>6, <1>10, <1>21, <1>22, <1>23 DEF SortKept

\* Lists of numbers in a row: concatenations, element by element.
LEMMA TwoInARow ==
  \A x, y \in Seq(Nat) :
    /\ x \o y \in Seq(Nat)
    /\ Len(x \o y) = Len(x) + Len(y)
    /\ \A i \in 1 .. Len(x) + Len(y) :
         (x \o y)[i] = IF i <= Len(x) THEN x[i] ELSE y[i - Len(x)]
<1>. TAKE x, y \in Seq(Nat)
<1>1. x \o y \in Seq(Nat)
  BY ConcatProperties
<1>2. Len(x \o y) = Len(x) + Len(y)
  BY ConcatProperties
<1>3. \A i \in 1 .. Len(x) + Len(y) :
        (x \o y)[i] = IF i <= Len(x) THEN x[i] ELSE y[i - Len(x)]
  BY ConcatProperties, Zenon
<1>. QED
  BY <1>1, <1>2, <1>3, Zenon

LEMMA InARow ==
  ASSUME NEW x \in Seq(Nat), NEW y \in Seq(Nat), NEW z \in Seq(Nat), Len(y) = 1
  PROVE  /\ x \o y \o z \in Seq(Nat) /\ Len(x \o y \o z) = Len(x) + 1 + Len(z)
         /\ \A i \in 1 .. Len(x) + 1 + Len(z) :
              (x \o y \o z)[i] = IF i <= Len(x) THEN x[i]
                                ELSE IF i = Len(x) + 1 THEN y[1] ELSE z[i - (Len(x) + 1)]
<1>. DEFINE a == Len(x)
            b == Len(z)
            front == x \o y
<1>1. a \in Nat /\ b \in Nat
  BY LenProperties
<1>2. /\ front \in Seq(Nat) /\ Len(front) = a + 1
      /\ \A i \in 1 .. a + 1 : front[i] = IF i <= a THEN x[i] ELSE y[i - a]
  <2>1. /\ x \o y \in Seq(Nat) /\ Len(x \o y) = Len(x) + Len(y)
        /\ \A i \in 1 .. Len(x) + Len(y) :
             (x \o y)[i] = IF i <= Len(x) THEN x[i] ELSE y[i - Len(x)]
    BY TwoInARow, Zenon
  <2>. QED
    BY <2>1
<1>3. /\ front \o z \in Seq(Nat) /\ Len(front \o z) = (a + 1) + b
      /\ \A i \in 1 .. (a + 1) + b :
           (front \o z)[i] = IF i <= a + 1 THEN front[i] ELSE z[i - (a + 1)]
  <2>. HIDE DEF front
  <2>1. /\ front \o z \in Seq(Nat) /\ Len(front \o z) = Len(front) + Len(z)
        /\ \A i \in 1 .. Len(front) + Len(z) :
             (front \o z)[i] = IF i <= Len(front) THEN front[i] ELSE z[i - Len(front)]
    BY <1>2, TwoInARow, Zenon
  <2>. QED
    BY <1>2, <2>1
<1>4. ASSUME NEW i \in 1 .. (a + 1) + b
      PROVE  (front \o z)[i] =
               IF i <= a THEN x[i] ELSE IF i = a + 1 THEN y[1] ELSE z[i - (a + 1)]
  <2>1. i \in Nat /\ (i = a + 1 => i - a = 1) /\ (i <= a \/ i = a + 1 \/ i > a + 1)
    BY <1>1
  <2>2. i <= a + 1 => i \in 1 .. a + 1
    BY <1>1
  <2>. HIDE DEF front
  <2>. QED
    BY <1>1, <1>2, <1>3, <2>1, <2>2
<1>. QED
  BY <1>1, <1>3, <1>4

\* The call w returns its lower part, its pivot and its higher part, in a row.
Returns(w) ==
  /\ w \in DOMAIN calls /\ Pc(w) = "parted"
  /\ Pc(Lo(w)) = "returned" /\ Pc(Hi(w)) = "returned"
  /\ calls' = [calls EXCEPT ![w] =
       [pc |-> "returned", list |-> List(Lo(w)) \o List(w) \o List(Hi(w))]]
  /\ lst' = lst

\* The result of a call takes over the elements of its parts and its pivot.
LEMMA ReturnStep == ASSUME SortKept, NEW w, Returns(w) PROVE SortKept'
<1>. DEFINE result == List(Lo(w)) \o List(w) \o List(Hi(w))
            a == Len(List(Lo(w)))
            b == Len(List(Hi(w)))
            pivot == List(w)[1]
<1>1. /\ w \in DOMAIN calls /\ Pc(w) = "parted"
      /\ w \in Ways /\ Lo(w) \in Ways /\ Hi(w) \in Ways
      /\ Lo(w) # w /\ Hi(w) # w /\ Lo(w) # Hi(w)
      /\ Lo(w) \in DOMAIN calls /\ Hi(w) \in DOMAIN calls
      /\ Pc(Lo(w)) = "returned" /\ Pc(Hi(w)) = "returned"
      /\ Len(List(w)) = 1
  BY WaysBranch DEF Returns, SortKept, SortTyped, CallTree
<1>2. /\ DOMAIN calls' = DOMAIN calls
      /\ calls' = [v \in DOMAIN calls' |-> calls'[v]]
      /\ calls'[w] = [pc |-> "returned", list |-> result]
      /\ \A v \in DOMAIN calls : v # w => calls'[v] = calls[v]
  <2>. HIDE DEF result
  <2>. QED
    BY <1>1 DEF Returns, SortKept, SortTyped, result
<1>3. /\ Pc(w)' = "returned" /\ List(w)' = result
      /\ \A v \in DOMAIN calls : v # w => Pc(v)' = Pc(v) /\ List(v)' = List(v)
  <2>. HIDE DEF result
  <2>. QED
    BY <1>2 DEF Pc, List
<1>4. /\ a \in Nat /\ b \in Nat /\ result \in Seq(Nat) /\ Len(result) = a + 1 + b
      /\ \A i \in 1 .. a + 1 + b :
           result[i] = IF i <= a THEN List(Lo(w))[i]
                       ELSE IF i = a + 1 THEN pivot ELSE List(Hi(w))[i - (a + 1)]
  <2>1. List(Lo(w)) \in Seq(Nat) /\ List(w) \in Seq(Nat) /\ List(Hi(w)) \in Seq(Nat)
    BY <1>1 DEF SortKept, SortTyped
  <2>2. a \in Nat /\ b \in Nat
    BY <2>1, LenProperties
  <2>. QED
    BY <1>1, <2>1, <2>2, InARow
<1>. HIDE DEF result, a, b, pivot
<1>5. SortTyped'
  <2>1. \A v \in DOMAIN calls : v # w => calls'[v] = [pc |-> Pc(v)', list |-> List(v)']
    BY <1>2, <1>3 DEF SortKept, SortTyped
  <2>2. lst' \in Seq(Nat)
    BY DEF Returns, SortKept, SortTyped
  <2>. QED
    BY <1>1, <1>2, <1>3, <1>4, <2>1, <2>2 DEF SortKept, SortTyped
<1>6. CallTree'
  <2>1. ASSUME NEW v \in DOMAIN calls, Under(w, v) PROVE Pc(v)' = "returned"
    <3>1. v = w \/ Under(Lo(w), v) \/ Under(Hi(w), v)
      BY <1>1, <2>1, UnderPart DEF SortKept, SortTyped
    <3>. QED
      BY <1>1, <1>3, <2>1, <3>1 DEF SortKept, CallTree
  <2>. QED
    BY <1>1, <1>2, <1>3, <2>1 DEF SortKept, CallTree
<1>7. Live(w) /\ Live(Lo(w)) /\ Live(Hi(w))
  <2>1. Live(w)
    BY <1>1, NotReturnedIsLive DEF SortKept
  <2>. QED
    BY <1>1, <2>1 DEF Live
<1>8. \A v : Live(v)' <=> Live(v) /\ v \notin {Lo(w), Hi(w)}
  <2>1. \A u \in DOMAIN calls : Pc(u)' = "parted" <=> Pc(u) = "parted" /\ u # w
    BY <1>1, <1>3
  <2>2. \A u \in DOMAIN calls : u # w => Lo(u) \notin {Lo(w), Hi(w)} /\ Hi(u) \notin {Lo(w), Hi(w)}
    BY <1>1, WaysBranch DEF SortKept, SortTyped
  <2>3. <<>> \notin {Lo(w), Hi(w)}
    BY <1>1, WaysBranch
  <2>. QED
    BY <1>1, <1>2, <2>1, <2>2, <2>3 DEF Live
<1>9. /\ \A i : Slot(w, i)' <=> i \in 1 .. a + 1 + b
      /\ \A i : ~ Slot(Lo(w), i)' /\ ~ Slot(Hi(w), i)'
      /\ \A v, i : v \notin {w, Lo(w), Hi(w)} => (Slot(v, i)' <=> Slot(v, i))
      /\ \A i : Slot(w, i) <=> i = 1
      /\ \A i : Slot(Lo(w), i) <=> i \in 1 .. a
      /\ \A i : Slot(Hi(w), i) <=> i \in 1 .. b
      /\ \A v, i : Slot(v, i) => v \in DOMAIN calls
  <2>1. \A i : Slot(w, i)' <=> i \in 1 .. a + 1 + b
    <3>1. Live(w)'
      BY <1>1, <1>7, <1>8
    <3>. QED
      BY <1>3, <1>4, <3>1 DEF Slot
  <2>2. \A i : ~ Slot(Lo(w), i)' /\ ~ Slot(Hi(w), i)'
    BY <1>8 DEF Slot
  <2>3. ASSUME NEW v, NEW i, v \notin {w, Lo(w), Hi(w)} PROVE Slot(v, i)' <=> Slot(v, i)
    <3>1. Live(v)' <=> Live(v)
      BY <1>8, <2>3
    <3>2. Live(v) => List(v)' = List(v)
      BY <1>3, <2>3 DEF Live
    <3>. QED
      BY <3>1, <3>2 DEF Slot
  <2>4. \A i : i \in 1 .. 1 <=> i = 1
    OBVIOUS
  <2>5. \A i : Slot(w, i) <=> i \in 1 .. 1
    BY <1>1, <1>7 DEF Slot
  <2>6. \A i : (Slot(Lo(w), i) <=> i \in 1 .. a) /\ (Slot(Hi(w), i) <=> i \in 1 .. b)
    BY <1>7 DEF Slot, a, b
  <2>7. \A v, i : Slot(v, i) => v \in DOMAIN calls
    BY DEF Slot, Live
  <2>. QED
    BY <2>1, <2>2, <2>3, <2>4, <2>5, <2>6, <2>7
\* Where an element of the result was.
<1>. DEFINE way   == [v \in Ways |-> [i \in Nat |->
                        IF v # w THEN v ELSE IF i <= a THEN Lo(w) ELSE IF i = a + 1 THEN w ELSE Hi(w)]]
            index == [v \in Ways |-> [i \in Nat |->
                        IF v # w \/ i <= a THEN i ELSE IF i = a + 1 THEN 1 ELSE i - (a + 1)]]
<1>10. \A v, i : Slot(v, i)' => v \in Ways /\ i \in Nat
  BY <1>2, <1>5 DEF Slot, Live, SortTyped
<1>11. \A v, i : Slot(v, i)' =>
         /\ v # w => way[v][i] = v /\ index[v][i] = i
         /\ v = w /\ i <= a => way[v][i] = Lo(w) /\ index[v][i] = i
         /\ v = w /\ i = a + 1 => way[v][i] = w /\ index[v][i] = 1
         /\ v = w /\ i > a + 1 => way[v][i] = Hi(w) /\ index[v][i] = i - (a + 1)
  <2>. SUFFICES ASSUME NEW v, NEW i, Slot(v, i)'
                PROVE  /\ v # w => way[v][i] = v /\ index[v][i] = i
                       /\ v = w /\ i <= a => way[v][i] = Lo(w) /\ index[v][i] = i
                       /\ v = w /\ i = a + 1 => way[v][i] = w /\ index[v][i] = 1
                       /\ v = w /\ i > a + 1 => way[v][i] = Hi(w) /\ index[v][i] = i - (a + 1)
    OBVIOUS
  <2>1. v \in Ways /\ i \in Nat
    BY <1>10
  <2>2. /\ way[v][i] = IF v # w THEN v ELSE IF i <= a THEN Lo(w) ELSE IF i = a + 1 THEN w ELSE Hi(w)
        /\ index[v][i] = IF v # w \/ i <= a THEN i ELSE IF i = a + 1 THEN 1 ELSE i - (a + 1)
    BY <2>1
  <2>. HIDE DEF way, index
  <2>. QED
    BY <1>4, <2>1, <2>2
<1>. HIDE DEF way, index
<1>12. \A i : Slot(w, i)' =>
         \/ i \in 1 .. a
         \/ i = a + 1
         \/ i > a + 1 /\ i - (a + 1) \in 1 .. b /\ i = (a + 1) + (i - (a + 1))
  <2>1. \A i \in 1 .. a + 1 + b :
         \/ i \in 1 .. a
         \/ i = a + 1
         \/ i > a + 1 /\ i - (a + 1) \in 1 .. b /\ i = (a + 1) + (i - (a + 1))
    BY <1>4
  <2>. QED
    BY <1>9, <2>1
<1>13. \A i \in 1 .. a : i \in Nat /\ i <= a /\ i # a + 1 /\ i \in 1 .. a + 1 + b
  BY <1>4
<1>14. ASSUME NEW v, NEW i, Slot(v, i)'
       PROVE  /\ Slot(way[v][i], index[v][i])
              /\ List(v)'[i] = List(way[v][i])[index[v][i]]
  <2>1. CASE v # w
    <3>1. v \notin {Lo(w), Hi(w)} /\ Slot(v, i) /\ v \in DOMAIN calls
      BY <1>9, <1>14, <2>1
    <3>. QED
      BY <1>3, <1>11, <1>14, <2>1, <3>1
  <2>2. CASE v = w
    <3>1. i \in 1 .. a + 1 + b
      BY <1>9, <1>14, <2>2
    <3>2. CASE i \in 1 .. a
      BY <1>3, <1>4, <1>9, <1>11, <1>13, <1>14, <2>2, <3>1, <3>2
    <3>3. CASE i = a + 1
      <4>1. List(w)'[i] = pivot
        BY <1>3, <1>4, <3>1, <3>3
      <4>. QED
        BY <1>9, <1>11, <1>14, <2>2, <3>3, <4>1 DEF pivot
    <3>4. CASE i > a + 1 /\ i - (a + 1) \in 1 .. b
      <4>1. List(w)'[i] = List(Hi(w))[i - (a + 1)]
        BY <1>3, <1>4, <3>1, <3>4
      <4>. QED
        BY <1>9, <1>11, <1>14, <2>2, <3>4, <4>1
    <3>. QED
      BY <1>12, <1>14, <2>2, <3>2, <3>3, <3>4
  <2>. QED
    BY <2>1, <2>2
<1>15. ASSUME NEW v, NEW i, NEW u, NEW j, Slot(v, i)', Slot(u, j)',
              way[v][i] = way[u][j], index[v][i] = index[u][j]
       PROVE  v = u /\ i = j
  <2>1. v \notin {Lo(w), Hi(w)} /\ u \notin {Lo(w), Hi(w)}
    BY <1>9, <1>15
  <2>2. CASE v # w \/ u # w
    <3>1. \A x, k : Slot(x, k)' /\ x = w => way[x][k] \in {w, Lo(w), Hi(w)}
      BY <1>11, <1>12, <1>13
    <3>. QED
      BY <1>11, <1>15, <2>1, <2>2, <3>1
  <2>3. CASE v = w /\ u = w
    <3>1. \A k : Slot(w, k)' =>
            \/ way[w][k] = Lo(w) /\ index[w][k] = k
            \/ way[w][k] = w /\ k = a + 1
            \/ way[w][k] = Hi(w) /\ k = (a + 1) + index[w][k]
      BY <1>11, <1>12, <1>13
    <3>. QED
      BY <1>1, <1>15, <2>3, <3>1
  <2>. QED
    BY <2>2, <2>3
<1>16. ASSUME NEW v, NEW k, Slot(v, k)
       PROVE  \E u, i : Slot(u, i)' /\ way[u][i] = v /\ index[u][i] = k
  <2>1. CASE v \notin {w, Lo(w), Hi(w)}
    BY <1>9, <1>11, <1>16, <2>1
  <2>2. CASE v = w
    <3>1. PICK i : i = a + 1
      OBVIOUS
    <3>2. k = 1 /\ Slot(w, i)'
      BY <1>4, <1>9, <1>16, <2>2, <3>1
    <3>. QED
      BY <1>11, <2>2, <3>1, <3>2
  <2>3. CASE v = Lo(w)
    <3>1. k \in 1 .. a /\ Slot(w, k)'
      BY <1>9, <1>13, <1>16, <2>3
    <3>. QED
      BY <1>11, <1>13, <2>3, <3>1
  <2>4. CASE v = Hi(w)
    <3>1. k \in 1 .. b
      BY <1>9, <1>16, <2>4
    <3>2. PICK i : i = (a + 1) + k
      OBVIOUS
    <3>3. i \in 1 .. a + 1 + b /\ i > a + 1 /\ i - (a + 1) = k
      BY <1>4, <3>1, <3>2
    <3>4. Slot(w, i)'
      BY <1>9, <3>3
    <3>. QED
      BY <1>11, <2>4, <3>3, <3>4
  <2>. QED
    BY <2>1, <2>2, <2>3, <2>4
<1>17. \E g : Places(g)'
  <2>1. PICK f : Places(f)
    BY DEF SortKept
  <2>2. lst' = lst
    BY DEF Returns
  <2>3. Rearranges(way, index)
    BY <1>14, <1>15, <1>16 DEF Rearranges
  <2>. QED
    BY <1>5, <2>1, <2>2, <2>3, Rearranged
<1>18. Between'
  <2>. SUFFICES ASSUME NEW u \in DOMAIN calls', Pc(u)' = "parted", NEW v, NEW i, Slot(v, i)'
                PROVE  /\ Under(Lo(u), v) => List(v)'[i] < List(u)'[1]
                       /\ Under(Hi(u), v) => List(v)'[i] >= List(u)'[1]
    BY DEF Between
  <2>1. u \in DOMAIN calls /\ Pc(u) = "parted" /\ List(u)' = List(u) /\ u \in Ways
    BY <1>2, <1>3 DEF SortKept, SortTyped
  <2>2. Lo(u) \in Ways /\ Hi(u) \in Ways
    BY <2>1, WaysBranch
  <2>3. way[v][i] = v \/ (v = w /\ way[v][i] \in {Lo(w), Hi(w)})
    <3>1. CASE v # w
      BY <1>11, <3>1
    <3>2. CASE v = w
      <4>1. i \in 1 .. a \/ i = a + 1 \/ i > a + 1
        BY <1>12, <3>2
      <4>. QED
        BY <1>11, <1>13, <3>2, <4>1
    <3>. QED
      BY <3>1, <3>2
  <2>4. /\ Under(Lo(u), v) => Under(Lo(u), way[v][i])
        /\ Under(Hi(u), v) => Under(Hi(u), way[v][i])
    BY <1>1, <2>2, <2>3, UnderBranch
  <2>. QED
    BY <1>14, <2>1, <2>4 DEF SortKept, Between
\* The lower part ascends, and so does the higher; the pivot is between them.
<1>19. Ascends(result)
  <2>1. \A i \in 1 .. a : List(Lo(w))[i] \in Nat /\ List(Lo(w))[i] < pivot
    <3>1. Under(Lo(w), Lo(w))
      BY <1>1, UnderBranch
    <3>2. \A i \in 1 .. a : List(Lo(w))[i] \in Nat
      BY <1>1, ElementOfSeq DEF SortKept, SortTyped, a
    <3>. QED
      BY <1>1, <1>9, <3>1, <3>2 DEF SortKept, Between, pivot
  <2>2. \A i \in 1 .. b : List(Hi(w))[i] \in Nat /\ List(Hi(w))[i] >= pivot
    <3>1. Under(Hi(w), Hi(w))
      BY <1>1, UnderBranch
    <3>2. \A i \in 1 .. b : List(Hi(w))[i] \in Nat
      BY <1>1, ElementOfSeq DEF SortKept, SortTyped, b
    <3>. QED
      BY <1>1, <1>9, <3>1, <3>2 DEF SortKept, Between, pivot
  <2>3. pivot \in Nat
    <3>1. List(w) \in Seq(Nat) /\ 1 \in 1 .. Len(List(w))
      BY <1>1 DEF SortKept, SortTyped
    <3>. QED
      BY <3>1, ElementOfSeq DEF pivot
  <2>4. /\ \A i, j \in 1 .. a : i <= j => List(Lo(w))[i] <= List(Lo(w))[j]
        /\ \A i, j \in 1 .. b : i <= j => List(Hi(w))[i] <= List(Hi(w))[j]
    BY <1>1 DEF SortKept, ReturnedAscends, Ascends, a, b
  <2>5. ASSUME NEW i \in 1 .. a + 1 + b
        PROVE  \/ i \in 1 .. a /\ result[i] = List(Lo(w))[i]
               \/ i = a + 1 /\ result[i] = pivot
               \/ i > a + 1 /\ i - (a + 1) \in 1 .. b /\ result[i] = List(Hi(w))[i - (a + 1)]
    BY <1>4
  <2>. SUFFICES ASSUME NEW i \in 1 .. a + 1 + b, NEW j \in 1 .. a + 1 + b, i <= j
                PROVE  result[i] <= result[j]
    BY <1>4 DEF Ascends
  <2>6. CASE i \in 1 .. a /\ result[i] = List(Lo(w))[i]
    <3>1. CASE j \in 1 .. a /\ result[j] = List(Lo(w))[j]
      BY <2>4, <2>6, <3>1
    <3>2. CASE j = a + 1 /\ result[j] = pivot
      BY <2>1, <2>3, <2>6, <3>2
    <3>3. CASE j > a + 1 /\ j - (a + 1) \in 1 .. b /\ result[j] = List(Hi(w))[j - (a + 1)]
      BY <2>1, <2>2, <2>3, <2>6, <3>3
    <3>. QED
      BY <2>5, <3>1, <3>2, <3>3
  <2>7. CASE i = a + 1 /\ result[i] = pivot
    <3>1. ~ (j \in 1 .. a)
      BY <1>4, <2>7
    <3>2. CASE j = a + 1 /\ result[j] = pivot
      BY <2>3, <2>7, <3>2
    <3>3. CASE j > a + 1 /\ j - (a + 1) \in 1 .. b /\ result[j] = List(Hi(w))[j - (a + 1)]
      BY <2>2, <2>3, <2>7, <3>3
    <3>. QED
      BY <2>5, <3>1, <3>2, <3>3
  <2>8. CASE i > a + 1 /\ i - (a + 1) \in 1 .. b /\ result[i] = List(Hi(w))[i - (a + 1)]
    <3>1. /\ j > a + 1 /\ j - (a + 1) \in 1 .. b /\ result[j] = List(Hi(w))[j - (a + 1)]
          /\ i - (a + 1) <= j - (a + 1)
      BY <1>4, <2>5, <2>8
    <3>. QED
      BY <2>4, <2>8, <3>1
  <2>. QED
    BY <2>5, <2>6, <2>7, <2>8
<1>20. ReturnedAscends'
  BY <1>2, <1>3, <1>19 DEF SortKept, ReturnedAscends, Ascends
<1>. QED
  BY <1>5, <1>6, <1>17, <1>18, <1>20 DEF SortKept

\* One of the ways to part, whichever way the parts are to be called.
PartedCalls(w, order, d, first, second) ==
  LET list  == calls[w].list
      input == Tail(list)
  IN  [v \in DOMAIN calls \cup {Lo(w), Hi(w)} |->
        CASE v = w     -> [pc |-> "parted", list |-> <<Head(list)>>]
          [] v = Lo(w) -> [pc |-> first, list |-> [i \in 1 .. d |-> input[order[i]]]]
          [] v = Hi(w) -> [pc |-> second,
                           list |-> [i \in 1 .. Len(input) - d |-> input[order[d + i]]]]
          [] OTHER     -> calls[v]]

PartedBy(w, order, d, first, second) ==
  LET input == Tail(calls[w].list)
  IN  /\ \A i, j \in DOMAIN input : order[i] = order[j] => i = j
      /\ \A k \in DOMAIN input : \E i \in DOMAIN input : order[i] = k
      /\ \A i \in DOMAIN input : input[order[i]] < Head(calls[w].list) <=> i <= d
      /\ calls' = PartedCalls(w, order, d, first, second)

AnyPartition(w) ==
  LET input == Tail(calls[w].list)
  IN  /\ calls[w].pc = "called" /\ calls[w].list # <<>> /\ lst' = lst
      /\ \E order \in [DOMAIN input -> DOMAIN input], d \in 0 .. Len(input),
            first, second \in {"later", "called"} : PartedBy(w, order, d, first, second)

LEMMA PartitionIsAny ==
  ASSUME NEW w, QS!Partition(w) \/ QS2!Partition(w)
  PROVE  AnyPartition(w)
<1>1. ASSUME NEW S, NEW f \in QS!Bijection(S, S)
      PROVE  /\ f \in [S -> S]
             /\ \A i, j \in S : f[i] = f[j] => i = j
             /\ \A k \in S : \E i \in S : f[i] = k
  BY <1>1 DEF QS!Bijection, QS!Injection, QS!Surjection, QS!IsInjective
<1>2. \A S : QS2!Bijection(S, S) = QS!Bijection(S, S)
  BY DEF QS!Bijection, QS!Injection, QS!Surjection, QS!IsInjective,
         QS2!Bijection, QS2!Injection, QS2!Surjection, QS2!IsInjective
<1>3. CASE QS!Partition(w)
  <2>. DEFINE list == calls[w].list
              input == Tail(list)
              n == Len(input)
  <2>1. PICK order \in QS!Bijection(DOMAIN input, DOMAIN input), d \in 0 .. n, made \in QS!Made :
          /\ QS!Divides(d, order, input, Head(list))
          /\ calls' = PartedCalls(w, order, d, made[1], made[2])
    BY <1>3, Zenon DEF QS!Partition, QS!Call, PartedCalls, Lo, Hi
  <2>2. made[1] \in {"later", "called"} /\ made[2] \in {"later", "called"}
    BY DEF QS!Made
  <2>3. \A i \in DOMAIN input : input[order[i]] < Head(list) <=> i <= d
    BY <2>1 DEF QS!Divides
  <2>4. calls[w].pc = "called" /\ list # <<>> /\ lst' = lst
    BY <1>3 DEF QS!Partition
  <2>6. /\ order \in [DOMAIN input -> DOMAIN input]
        /\ PartedBy(w, order, d, made[1], made[2])
    <3>1. order \in QS!Bijection(DOMAIN input, DOMAIN input)
      BY <2>1
    <3>2. /\ order \in [DOMAIN input -> DOMAIN input]
          /\ \A i, j \in DOMAIN input : order[i] = order[j] => i = j
          /\ \A k \in DOMAIN input : \E i \in DOMAIN input : order[i] = k
      <4>. HIDE DEF input
      <4>. QED
        BY <1>1, <3>1
    <3>. QED
      BY <2>1, <2>3, <3>2, Zenon DEF PartedBy
  <2>. QED
    BY <2>2, <2>4, <2>6, Zenon DEF AnyPartition
<1>4. CASE QS2!Partition(w)
  <2>. DEFINE list == calls[w].list
              input == Tail(list)
              n == Len(input)
  <2>1. PICK order \in QS2!Bijection(DOMAIN input, DOMAIN input), d \in 0 .. n, made \in QS2!Made :
          /\ QS2!Divides(d, order, input, Head(list))
          /\ calls' = PartedCalls(w, order, d, made[1], made[2])
    BY <1>4, Zenon DEF QS2!Partition, QS2!Call, QS2!Lower, QS2!Higher, PartedCalls, Lo, Hi,
                       QS!Lower, QS!Higher
  <2>2. made[1] \in {"later", "called"} /\ made[2] \in {"later", "called"}
    BY DEF QS2!Made
  <2>3. \A i \in DOMAIN input : input[order[i]] < Head(list) <=> i <= d
    BY <2>1 DEF QS2!Divides
  <2>4. calls[w].pc = "called" /\ list # <<>> /\ lst' = lst
    BY <1>4 DEF QS2!Partition
  <2>5. order \in QS!Bijection(DOMAIN input, DOMAIN input)
    BY <1>2
  <2>6. /\ order \in [DOMAIN input -> DOMAIN input]
        /\ PartedBy(w, order, d, made[1], made[2])
    <3>1. order \in QS!Bijection(DOMAIN input, DOMAIN input)
      BY <2>5
    <3>2. /\ order \in [DOMAIN input -> DOMAIN input]
          /\ \A i, j \in DOMAIN input : order[i] = order[j] => i = j
          /\ \A k \in DOMAIN input : \E i \in DOMAIN input : order[i] = k
      <4>. HIDE DEF input
      <4>. QED
        BY <1>1, <3>1
    <3>. QED
      BY <2>1, <2>3, <3>2, Zenon DEF PartedBy
  <2>. QED
    BY <2>2, <2>4, <2>6, Zenon DEF AnyPartition
<1>. QED
  BY <1>3, <1>4

LEMMA AnyPartitionStep ==
  ASSUME SortKept, NEW w \in DOMAIN calls, AnyPartition(w)
  PROVE  SortKept'
<1>. DEFINE list  == List(w)
            input == Tail(list)
            n     == Len(input)
<1>1. list \in Seq(Nat) /\ list # <<>> /\ Pc(w) = "called" /\ lst' = lst
  BY DEF AnyPartition, SortKept, SortTyped, List, Pc
<1>2. /\ input \in Seq(Nat) /\ Len(list) = n + 1 /\ n \in Nat /\ DOMAIN input = 1 .. n
      /\ Head(list) = list[1]
      /\ \A i \in 1 .. n : input[i] = list[i + 1]
  <2>1. input \in Seq(Nat) /\ n = Len(list) - 1
    BY <1>1, HeadTailProperties
  <2>2. \A i \in 1 .. n : input[i] = list[i + 1]
    BY <1>1, HeadTailProperties
  <2>3. n \in Nat /\ DOMAIN input = 1 .. n /\ Len(list) \in Nat
    BY <1>1, <2>1, LenProperties
  <2>4. Head(list) = list[1]
    BY <1>1
  <2>. HIDE DEF list, input
  <2>5. Len(list) = n + 1
    BY <2>1, <2>3
  <2>. QED
    BY <2>1, <2>2, <2>3, <2>4, <2>5, Zenon
<1>. HIDE DEF input, list
<1>3. PICK order \in [1 .. n -> 1 .. n], d \in 0 .. n, first, second \in {"later", "called"} :
        /\ \A i, j \in 1 .. n : order[i] = order[j] => i = j
        /\ \A k \in 1 .. n : \E i \in 1 .. n : order[i] = k
        /\ \A i \in 1 .. n : input[order[i]] < Head(list) <=> i <= d
        /\ calls' = PartedCalls(w, order, d, first, second)
  <2>1. PICK order \in [DOMAIN input -> DOMAIN input], d \in 0 .. n,
             first, second \in {"later", "called"} : PartedBy(w, order, d, first, second)
    BY Zenon DEF AnyPartition, List, list, input
  <2>2. /\ \A i, j \in DOMAIN input : order[i] = order[j] => i = j
        /\ \A k \in DOMAIN input : \E i \in DOMAIN input : order[i] = k
        /\ \A i \in DOMAIN input : input[order[i]] < Head(list) <=> i <= d
        /\ calls' = PartedCalls(w, order, d, first, second)
    BY <2>1, Zenon DEF PartedBy, List, list, input
  <2>. HIDE DEF n
  <2>. QED
    BY <1>2, <2>1, <2>2
<1>4. /\ w \in Ways /\ Lo(w) \notin DOMAIN calls /\ Hi(w) \notin DOMAIN calls
      /\ Lo(w) # w /\ Hi(w) # w /\ Lo(w) # Hi(w)
  BY <1>1, WaysBranch DEF SortKept, SortTyped, CallTree
<1>5. \A i \in 1 .. n : order[i] \in 1 .. n /\ input[order[i]] = list[order[i] + 1]
  BY <1>2
<1>6. [i \in 1 .. d |-> input[order[i]]] = [i \in 1 .. d |-> list[order[i] + 1]]
  <2>1. \A i \in 1 .. d : i \in 1 .. n
    BY <1>2
  <2>. QED
    BY <1>5, <2>1
<1>7. [i \in 1 .. n - d |-> input[order[d + i]]] = [i \in 1 .. n - d |-> list[order[d + i] + 1]]
  <2>1. \A i \in 1 .. n - d : d + i \in 1 .. n
    BY <1>2
  <2>. QED
    BY <1>5, <2>1
<1>. DEFINE c == calls'
<1>8. /\ DOMAIN c = DOMAIN calls \cup {Lo(w), Hi(w)}
      /\ c = [v \in DOMAIN c |-> c[v]]
      /\ c[w] = [pc |-> "parted", list |-> <<list[1]>>]
      /\ c[Lo(w)] = [pc |-> first, list |-> [i \in 1 .. d |-> list[order[i] + 1]]]
      /\ c[Hi(w)] = [pc |-> second, list |-> [i \in 1 .. n - d |-> list[order[d + i] + 1]]]
      /\ \A v \in DOMAIN calls : v # w => c[v] = calls[v]
  <2>. DEFINE lower  == [i \in 1 .. d |-> input[order[i]]]
              higher == [i \in 1 .. n - d |-> input[order[d + i]]]
  <2>1. c = [v \in DOMAIN calls \cup {Lo(w), Hi(w)} |->
              CASE v = w     -> [pc |-> "parted", list |-> <<Head(list)>>]
                [] v = Lo(w) -> [pc |-> first, list |-> lower]
                [] v = Hi(w) -> [pc |-> second, list |-> higher]
                [] OTHER     -> calls[v]]
    BY <1>3, Zenon DEF PartedCalls, List, list, input
  <2>. HIDE DEF lower, higher, c
  <2>2. /\ DOMAIN c = DOMAIN calls \cup {Lo(w), Hi(w)}
        /\ c = [v \in DOMAIN c |-> c[v]]
        /\ c[w] = [pc |-> "parted", list |-> <<Head(list)>>]
        /\ c[Lo(w)] = [pc |-> first, list |-> lower]
        /\ c[Hi(w)] = [pc |-> second, list |-> higher]
        /\ \A v \in DOMAIN calls : v # w => c[v] = calls[v]
    BY <1>4, <2>1
  <2>3. /\ Head(list) = list[1]
        /\ lower = [i \in 1 .. d |-> list[order[i] + 1]]
        /\ higher = [i \in 1 .. n - d |-> list[order[d + i] + 1]]
    BY <1>2, <1>6, <1>7, Zenon DEF lower, higher
  <2>. QED
    BY <2>2, <2>3, Zenon
<1>9. /\ d \in Nat /\ d <= n /\ \A i \in 1 .. n : list[order[i] + 1] < list[1] <=> i <= d
  <2>1. \A i \in 1 .. n : input[order[i]] < list[1] <=> i <= d
    <3>1. \A i \in 1 .. n : input[order[i]] < Head(list) <=> i <= d
      BY <1>3, Zenon
    <3>2. Head(list) = list[1]
      BY <1>2, Zenon
    <3>. HIDE DEF n
    <3>. QED
      BY <3>1, <3>2, Zenon
  <2>2. d \in Nat /\ d <= n
    BY <1>2
  <2>. QED
    BY <1>5, <2>1, <2>2
<1>10. Parted(w, n, order, d)
  BY <1>1, <1>2, <1>3, <1>5, <1>8, <1>9, Zenon DEF Parted, list
<1>. QED
  BY <1>10, PartitionStep

\* The list of the first call is the list of the test.
LEMMA SortKeptBegin ==
  ASSUME SortTyped', lst' \in Seq(Nat), DOMAIN calls' = {<<>>}, Pc(<<>>)' = "called", List(<<>>)' = lst'
  PROVE  SortKept'
<1>1. \A u \in Ways : Under(u, <<>>) => u = <<>>
  <2>. TAKE u \in Ways
  <2>1. Len(u) \in Nat /\ (Len(u) = 0 => u = <<>>)
    BY LenProperties, EmptySeq DEF Ways
  <2>. QED
    BY <2>1 DEF Under
<1>2. <<>> \in Ways /\ Lo(<<>>) # <<>> /\ Hi(<<>>) # <<>>
  BY WaysBranch, EmptySeq DEF Ways
<1>3. CallTree'
  BY <1>1, <1>2 DEF CallTree
<1>4. Between' /\ ReturnedAscends'
  BY DEF Between, ReturnedAscends
<1>5. \A v, i : Slot(v, i)' <=> v = <<>> /\ i \in 1 .. Len(lst')
  <2>1. \A v : Live(v)' <=> v = <<>>
    BY DEF Live
  <2>. QED
    BY <2>1 DEF Slot
<1>6. \E f : Places(f)'
  <2>. DEFINE f == [v \in {<<>>} |-> [i \in Nat |-> i]]
  <2>1. \A i \in 1 .. Len(lst') : i \in Nat /\ f[<<>>][i] = i
    BY LenProperties
  <2>. HIDE DEF f
  <2>2. Places(f)'
    BY <1>5, <2>1 DEF Places
  <2>. QED
    BY <2>2
<1>. QED
  BY <1>3, <1>4, <1>6 DEF SortKept

LEMMA BeginStep == ASSUME SortKept, NEW list \in Lists, QS!Begin(list) PROVE SortKept'
<1>1. list \in Seq(Nat) /\ lst' = list
  BY TestsAssumption DEF QS!Begin
<1>2. calls' = [way \in {<<>>} |-> [pc |-> "called", list |-> list]]
  BY DEF QS!Begin, QS!Call
<1>3. /\ DOMAIN calls' = {<<>>} /\ Pc(<<>>)' = "called" /\ List(<<>>)' = list
      /\ calls' = [way \in DOMAIN calls' |-> calls'[way]]
      /\ calls'[<<>>] = [pc |-> Pc(<<>>)', list |-> List(<<>>)']
  BY <1>2 DEF Pc, List
<1>4. <<>> \in Ways
  BY EmptySeq DEF Ways
<1>5. SortTyped'
  BY <1>1, <1>3, <1>4 DEF SortTyped
<1>. QED
  BY <1>1, <1>3, <1>5, SortKeptBegin

LEMMA SortKeptInit == ASSUME QS!Init PROVE SortKept
<1>1. lst = <<>> /\ calls = <<>> /\ Len(lst) = 0
  BY DEF QS!Init
<1>2. DOMAIN calls = {} /\ calls = [w \in DOMAIN calls |-> calls[w]]
  BY <1>1
<1>3. SortTyped /\ CallTree /\ Between /\ ReturnedAscends
  BY <1>1, <1>2, EmptySeq, UnderBranch DEF SortTyped, CallTree, Between, ReturnedAscends, Slot, Live
<1>4. \A v, i : ~ Slot(v, i)
  BY <1>2 DEF Slot, Live
<1>5. \A f : Places(f)
  BY <1>1, <1>4 DEF Places
<1>. QED
  BY <1>3, <1>5 DEF SortKept

LEMMA SortKeptStep == ASSUME SortKept, [TestNext]_test_vars PROVE SortKept'
<1>1. QS2!Next => \/ \E list \in Lists : QS!Begin(list)
                  \/ \E w \in DOMAIN calls :
                       QS!Empty(w) \/ QS2!Partition(w) \/ QS!Make(w) \/ QS!Return(w)
  BY DEF QS2!Next, QS2!Begin, QS!Begin, QS2!Call, QS!Call, QS2!Empty, QS!Empty, QS2!Make, QS!Make,
         QS2!Returned, QS!Returned, QS2!Return, QS!Return, QS2!GotParts, QS!GotParts,
         QS2!Lower, QS!Lower, QS2!Higher, QS!Higher
<1>2. CASE UNCHANGED qs_vars
  <2>1. SortTyped' /\ CallTree' /\ Between' /\ ReturnedAscends'
    BY <1>2 DEF qs_vars, SortKept, SortTyped, CallTree, Between, ReturnedAscends, Ascends,
                Slot, Live, Pc, List
  <2>2. \A f : Places(f) => Places(f)'
    BY <1>2 DEF qs_vars, Places, Slot, Live, Pc, List
  <2>. QED
    BY <2>1, <2>2 DEF SortKept
<1>3. ASSUME NEW w \in DOMAIN calls, QS!Empty(w) PROVE SortKept'
  <2>1. Pc(w) = "called" /\ List(w) = <<>>
    BY <1>3 DEF QS!Empty, QS!Call, Pc, List
  <2>. QED
    BY <1>3, <2>1, StatusStep DEF QS!Empty
<1>4. ASSUME NEW w \in DOMAIN calls, QS!Make(w) PROVE SortKept'
  <2>1. PICK part \in {<<Lo(w), Hi(w)>>, <<Hi(w), Lo(w)>>} :
          /\ QS!Returned(part[1]) /\ calls[part[2]].pc = "later"
          /\ calls' = [calls EXCEPT ![part[2]].pc = "called"] /\ lst' = lst
    BY <1>4, Zenon DEF QS!Make, Lo, Hi
  <2>2. part[2] \in DOMAIN calls
    <3>1. part[1] \in {Lo(w), Hi(w)} /\ part[2] \in {Lo(w), Hi(w)} /\ part[1] \in DOMAIN calls
      BY <2>1 DEF QS!Returned
    <3>. QED
      BY <3>1 DEF SortKept, CallTree
  <2>. QED
    BY <2>1, <2>2, StatusStep DEF Pc
<1>5. ASSUME NEW w \in DOMAIN calls, QS!Return(w) PROVE SortKept'
  <2>1. Returns(w)
    BY <1>5, Zenon DEF QS!Return, QS!GotParts, QS!Returned, QS!Call, Returns, Pc, List, Lo, Hi
  <2>. QED
    BY <2>1, ReturnStep
<1>6. ASSUME NEW w \in DOMAIN calls, QS!Partition(w) \/ QS2!Partition(w) PROVE SortKept'
  BY <1>6, PartitionIsAny, AnyPartitionStep
<1>. QED
  BY <1>1, <1>2, <1>3, <1>4, <1>5, <1>6, BeginStep, Steps DEF QS!Next

\* A one-to-one correspondence h, given element by element.
LEMMA SameSize ==
  ASSUME NEW S, NEW T, NEW h, IsFiniteSet(S),
         \A s \in S : h[s] \in T,
         \A s, t \in S : h[s] = h[t] => s = t,
         \A t \in T : \E s \in S : h[s] = t
  PROVE  IsFiniteSet(T) /\ Cardinality(T) = Cardinality(S)
<1>. DEFINE g == [s \in S |-> h[s]]
<1>1. g \in [S -> T]
  OBVIOUS
<1>2. \A s \in S : g[s] = h[s]
  OBVIOUS
<1>. HIDE DEF g
<1>3. ExistsBijection(S, T)
  <2>1. g \in Bijection(S, T)
    BY <1>1, <1>2 DEF Bijection, Injection, Surjection, IsInjective
  <2>. QED
    BY <2>1 DEF ExistsBijection
<1>. QED
  BY <1>3, FS_Bijection

LEMMA SameCount == \A list, t : QS!Count(list, t) = Cardinality({i \in DOMAIN list : list[i] = t})
BY Zenon DEF QS!Count, QS!Cardinality, Cardinality

\* When the first call has returned all others have, and its list alone is live.
LEMMA SortedAtEnd == ASSUME SortKept PROVE Sorts
<1>. SUFFICES ASSUME QS!Ended PROVE Sorts
  BY DEF Sorts, QS!Sorts
<1>. DEFINE result == List(<<>>)
            n == Len(result)
            m == Len(lst)
<1>1. <<>> \in DOMAIN calls /\ Pc(<<>>) = "returned" /\ <<>> \in Ways
  BY EmptySeq DEF QS!Ended, QS!Returned, Pc, Ways
<1>2. result \in Seq(Nat) /\ lst \in Seq(Nat) /\ n \in Nat /\ m \in Nat
  <2>1. result \in Seq(Nat) /\ lst \in Seq(Nat)
    BY <1>1 DEF SortKept, SortTyped
  <2>. QED
    BY <2>1, LenProperties
<1>3. \A v \in DOMAIN calls : Pc(v) = "returned"
  BY <1>1, UnderBranch DEF SortKept, SortTyped, CallTree
<1>4. \A v, i : Slot(v, i) <=> v = <<>> /\ i \in 1 .. n
  <2>1. \A v : Live(v) <=> v = <<>>
    BY <1>1, <1>3 DEF Live
  <2>. QED
    BY <2>1 DEF Slot
<1>5. PICK f : Places(f)
  BY DEF SortKept
<1>. DEFINE h == f[<<>>]
<1>6. /\ \A i \in 1 .. n : h[i] \in 1 .. m /\ lst[h[i]] = result[i]
      /\ \A i, j \in 1 .. n : h[i] = h[j] => i = j
      /\ \A k \in 1 .. m : \E i \in 1 .. n : h[i] = k
  <2>. HIDE DEF result, n, m
  <2>1. \A i \in 1 .. n : h[i] \in 1 .. m /\ lst[h[i]] = result[i]
    BY <1>4, <1>5 DEF Places, m, result
  <2>2. \A i, j \in 1 .. n : h[i] = h[j] => i = j
    BY <1>4, <1>5 DEF Places
  <2>3. \A k \in 1 .. m : \E i \in 1 .. n : h[i] = k
    BY <1>4, <1>5 DEF Places, m
  <2>. QED
    BY <2>1, <2>2, <2>3
<1>. HIDE DEF h, result, n, m
<1>7. /\ IsFiniteSet(1 .. n) /\ Cardinality(1 .. n) = n
      /\ IsFiniteSet(1 .. m) /\ Cardinality(1 .. m) = m
  <2>1. \A k \in Nat : IsFiniteSet(1 .. k) /\ Cardinality(1 .. k) = k
    <3>. TAKE k \in Nat
    <3>1. IsFiniteSet(1 .. k) /\ Cardinality(1 .. k) = IF 1 > k THEN 0 ELSE k - 1 + 1
      BY FS_Interval
    <3>. QED
      BY <3>1
  <2>. QED
    BY <1>2, <2>1
<1>8. n = m
  <2>1. Cardinality(1 .. m) = Cardinality(1 .. n)
    <3>. DEFINE S == 1 .. n
                T == 1 .. m
    <3>1. IsFiniteSet(S)
      BY <1>7
    <3>2. /\ \A i \in S : h[i] \in T
          /\ \A i, j \in S : h[i] = h[j] => i = j
          /\ \A k \in T : \E i \in S : h[i] = k
      BY <1>6
    <3>. HIDE DEF S, T
    <3>3. Cardinality(T) = Cardinality(S)
      BY <3>1, <3>2, SameSize
    <3>. QED
      BY <3>3 DEF S, T
  <2>. QED
    BY <1>7, <2>1
<1>9. \A t : Cardinality({i \in 1 .. n : result[i] = t}) = Cardinality({k \in 1 .. m : lst[k] = t})
  <2>. TAKE t
  <2>. DEFINE S == {i \in 1 .. n : result[i] = t}
              T == {k \in 1 .. m : lst[k] = t}
  <2>1. IsFiniteSet(S)
    BY <1>7, FS_Subset
  <2>2. /\ \A i \in S : h[i] \in T
        /\ \A i, j \in S : h[i] = h[j] => i = j
        /\ \A k \in T : \E i \in S : h[i] = k
    BY <1>6
  <2>. HIDE DEF S, T
  <2>3. Cardinality(T) = Cardinality(S)
    BY <2>1, <2>2, SameSize
  <2>. QED
    BY <2>3 DEF S, T
<1>10. \A t : QS!Count(result, t) = QS!Count(lst, t)
  <2>1. DOMAIN result = 1 .. n /\ DOMAIN lst = 1 .. m
    BY <1>2, LenProperties DEF n, m
  <2>. QED
    BY <1>9, <2>1, SameCount
<1>11. \A i \in 1 .. n - 1 : result[i] <= result[i + 1]
  <2>1. \A i, j \in 1 .. n : i <= j => result[i] <= result[j]
    BY <1>1 DEF SortKept, ReturnedAscends, Ascends, result, n
  <2>2. \A i \in 1 .. n - 1 : i \in 1 .. n /\ i + 1 \in 1 .. n /\ i <= i + 1
    BY <1>2
  <2>. QED
    BY <2>1, <2>2
<1>. QED
  BY <1>8, <1>10, <1>11, Zenon DEF Sorts, QS!Sorts, List, result, n, m

\* test_seq_quicksort and test_parallel_quicksort: what the first call returns
\* is its list in order, whatever std::partition does with the parts and in
\* whatever order std::async runs the calls.
THEOREM SortsInTest == TestSpec => []Sorts
<1>1. TestInit => SortKept
  BY SortKeptInit DEF TestInit
<1>. QED
  BY <1>1, SortKeptStep, SortedAtEnd, PTL DEF TestSpec
=============================================================================
