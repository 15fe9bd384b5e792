---------------------------- MODULE DanglingRef ----------------------------
(***************************************************************************)
(* dangling_ref.cc: run starts a detached thread that keeps reading run's  *)
(* local_state through a reference, and returns.  What a dangling          *)
(* reference reads is undefined; here it is the old value or any other.    *)
(* The process may end any time after run, and the thread with it.         *)
(***************************************************************************)
EXTENDS Naturals

CONSTANTS
  TEST_VAL,
  Others,     (* what else may be found where local_state was              *)
  Max         (* the turns of the loop                                     *)

VARIABLES
  run,        (* "running", "returned"; "exit" when the process has ended  *)
  i, pc,      (* the turn of Func::operator() and where it is in the turn  *)
  ref_i       (* what it read last                                         *)

vars == <<run, i, pc, ref_i>>

Init == run = "running" /\ i = 0 /\ pc = "trace" /\ ref_i = TEST_VAL

Return == run = "running" /\ run' = "returned" /\ UNCHANGED <<i, pc, ref_i>>
Exit   == run = "returned" /\ run' = "exit" /\ UNCHANGED <<i, pc, ref_i>>

Read == ref_i' \in {TEST_VAL} \cup IF run = "running" THEN {} ELSE Others

Goto(l) == run # "exit" /\ pc' = l /\ UNCHANGED run

\* The condition of the loop, and the trace of what is read first.
Trace == pc = "trace" /\ i < Max /\ Read /\ Goto("test") /\ UNCHANGED i

LoopEnds == pc = "trace" /\ i = Max /\ Goto("end") /\ UNCHANGED <<i, ref_i>>

\* The comparison reads it again.
Test ==
  /\ pc = "test"
  /\ Read
  /\ IF ref_i' # TEST_VAL THEN Goto("report") /\ UNCHANGED i ELSE Goto("trace") /\ i' = i + 1

\* "ref_i is dangling", with what is read then.
Report == pc = "report" /\ Read /\ Goto("end") /\ UNCHANGED i

Next == Return \/ Exit \/ Trace \/ LoopEnds \/ Test \/ Report

Ended == run = "exit"

Spec == Init /\ [][Next]_vars /\ WF_vars(Next)
=============================================================================
