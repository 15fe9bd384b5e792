---------------------------- MODULE PackagedTask ----------------------------
(***************************************************************************)
(* packaged_task.cc: a thread posts messages as packaged_tasks, and        *)
(* gui_thread polls the deque and runs them until one of them, posted      *)
(* last, has told it to shut down.                                         *)
(***************************************************************************)
EXTENDS Sequences

CONSTANTS
  Messages,   (* the texts test_packaged_task posts, last_message behind   *)
  Last        (* the task that sets is_quit_message                        *)

VARIABLES
  todo,       (* what thread t1 has not posted yet                         *)
  tasks,
  is_quit_message,
  gui,        (* gui_thread: "test", "lock", "run", "end"                  *)
  task,       (* gui_thread's local: the task moved out of the deque       *)
  ran         (* the tasks that were run, in order                         *)

vars == <<todo, tasks, is_quit_message, gui, task, ran>>

Init ==
  /\ todo = Messages
  /\ tasks = <<>>
  /\ is_quit_message = FALSE
  /\ gui = "test"
  /\ task = <<>>
  /\ ran = <<>>

\* Mutant: push_front.
PushFront == tasks' = <<Head(todo)>> \o tasks

PushBack == tasks' = Append(tasks, Head(todo))

\* post_task_for_gui_thread.
Post ==
  /\ todo # <<>>
  /\ PushBack
  /\ todo' = Tail(todo)
  /\ UNCHANGED <<is_quit_message, gui, task, ran>>

\* The head of the loop, without the lock.
TestQuit ==
  /\ gui = "test"
  /\ gui' = IF is_quit_message THEN "end" ELSE "lock"
  /\ UNCHANGED <<todo, tasks, is_quit_message, task, ran>>

\* The block of the lock_guard; an empty deque is polled again.
TakeTask ==
  /\ gui = "lock"
  /\ tasks # <<>>
  /\ task' = <<Head(tasks)>>
  /\ tasks' = Tail(tasks)
  /\ gui' = "run"
  /\ UNCHANGED <<todo, is_quit_message, ran>>

NoTask ==
  /\ gui = "lock"
  /\ tasks = <<>>
  /\ gui' = "test"
  /\ UNCHANGED <<todo, tasks, is_quit_message, task, ran>>

\* get_future, task() and get: in gui_thread, with the mutex free.
RunTask ==
  /\ gui = "run"
  /\ ran' = ran \o task
  /\ is_quit_message' = (is_quit_message \/ task = <<Last>>)
  /\ task' = <<>>
  /\ gui' = "test"
  /\ UNCHANGED <<todo, tasks>>

Gui == TestQuit \/ TakeTask \/ NoTask \/ RunTask

Next == Post \/ Gui

Ended == todo = <<>> /\ gui = "end"

Fairness == WF_vars(Post) /\ WF_vars(Gui)

Spec == Init /\ [][Next]_vars /\ Fairness
----------------------------------------------------------------------------
(* Properties. *)

\* Every message is run once and in the order of posting, and gui_thread
\* leaves its loop with none of them unrun, though it looks at the flag
\* before it looks into the deque.
MessagesRunInOrder ==
  /\ ran \o task \o tasks \o todo = Messages
  /\ gui = "end" => ran = Messages
=============================================================================
