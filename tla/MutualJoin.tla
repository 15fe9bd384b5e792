----------------------------- MODULE MutualJoin -----------------------------
(***************************************************************************)
(* run (deadlock_mutualjoin.cc): each of two threads joins the other one   *)
(* through a global std::thread, and main, after a sleep, returns.         *)
(* The sleeps only make some orders likely: every order is allowed here.   *)
(***************************************************************************)
VARIABLES
  pc,         (* of "main", "tx" and "ty"                                  *)
  handle,     (* handle[t]: global_tx, global_ty are "none" or "joinable"  *)
  terminated  (* std::terminate has ended the program                      *)

vars == <<pc, handle, terminated>>

Init ==
  /\ pc = [main |-> "tx", tx |-> "none", ty |-> "none"]
  /\ handle = [tx |-> "none", ty |-> "none"]
  /\ terminated = FALSE

Other(t) == IF t = "tx" THEN "ty" ELSE "tx"

Goto(t, label) == pc' = [pc EXCEPT ![t] = label]

\* std::thread tx(...), and global_tx = std::move(tx); then the same for ty.
Create(t) ==
  /\ pc["main"] = t
  /\ pc[t] = "none"
  /\ Goto(t, "run")
  /\ UNCHANGED <<handle, terminated>>

MoveHandle(t) ==
  /\ pc["main"] = t
  /\ pc[t] # "none"
  /\ handle' = [handle EXCEPT ![t] = "joinable"]
  /\ Goto("main", IF t = "tx" THEN "ty" ELSE "exit")
  /\ UNCHANGED terminated

\* Mutant: only tx joins.
JoinsTy(t) == t = "tx" /\ handle[Other(t)] = "joinable"

Joins(t) == handle[Other(t)] = "joinable"

\* The test of joinable; a thread that finds it false has nothing to do.
Test(t) ==
  /\ pc[t] = "run"
  /\ Goto(t, IF Joins(t) THEN "join" ELSE "end")
  /\ UNCHANGED <<handle, terminated>>

Join(t) ==
  /\ pc[t] = "join"
  /\ pc[Other(t)] = "end"
  /\ handle' = [handle EXCEPT ![Other(t)] = "none"]
  /\ Goto(t, "end")
  /\ UNCHANGED terminated

\* Where the library notices that both join each other, join throws, out of
\* the thread's function; elsewhere they wait.
Circle == pc["tx"] = "join" /\ pc["ty"] = "join"

JoinThrows == Circle /\ terminated' = TRUE /\ UNCHANGED <<pc, handle>>

\* main has returned: the globals are destroyed, and a joinable thread's
\* destructor terminates.
Exit ==
  /\ pc["main"] = "exit"
  /\ Goto("main", "end")
  /\ terminated' = (\E t \in DOMAIN handle : handle[t] = "joinable")
  /\ UNCHANGED handle

Next ==
  /\ ~ terminated
  /\ \/ \E t \in {"tx", "ty"} : Create(t) \/ MoveHandle(t) \/ Test(t) \/ Join(t)
     \/ JoinThrows
     \/ Exit

Ended == terminated \/ pc["main"] = "end"

Spec == Init /\ [][Next]_vars /\ WF_vars(Next)
----------------------------------------------------------------------------
(* Properties. *)

\* ty never ends before tx has, and tx never before ty has unless it came too
\* early to join it: nobody ever joins global_ty, so that the program cannot
\* end but in std::terminate, in a circle or in the destructor of global_ty.
NobodyJoinsTy ==
  /\ pc["main"] = "exit" => handle.ty = "joinable"
  /\ pc["main"] = "end" => terminated
=============================================================================
