--------------------------- MODULE LockGuardList ---------------------------
(***************************************************************************)
(* lock_guard.cc: a detached thread adds 0, 1, 2, ... to a list, and       *)
(* test_lock_guard polls the list until a number is there.  Each access    *)
(* holds some_mutex from its first step to its last.  The model stops      *)
(* where the process exits, which may be before the thread has finished:   *)
(* what it then does to the destroyed list is undefined.                   *)
(***************************************************************************)
EXTENDS Naturals

CONSTANTS
  Numbers,    (* how many numbers the thread adds                          *)
  Sought      (* the one that the test looks for                           *)

VARIABLES
  some_list,  (* its length: element i is the number i                     *)
  main        (* "look", "end", "exit"                                     *)

vars == <<some_list, main>>

Init == some_list = 0 /\ main = "look"

\* add_to_list, in the loop of the detached thread.
Add ==
  /\ main # "exit"
  /\ some_list < Numbers
  /\ some_list' = some_list + 1
  /\ UNCHANGED main

list_contain(value_to_find) == value_to_find < some_list

Find == main = "look" /\ list_contain(Sought) /\ main' = "end" /\ UNCHANGED some_list
Miss == main = "look" /\ ~ list_contain(Sought) /\ UNCHANGED vars
Exit == main = "end" /\ main' = "exit" /\ UNCHANGED some_list

Next == Add \/ Find \/ Miss \/ Exit

Ended == main = "exit"

Spec == Init /\ [][Next]_vars /\ WF_vars(Add) /\ WF_vars(Find \/ Exit)
=============================================================================
