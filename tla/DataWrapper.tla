---------------------------- MODULE DataWrapper ----------------------------
(***************************************************************************)
(* data_wrapper (blow_a_hole.cc): two threads let malicious_function carry *)
(* a pointer to the protected data out of process_data, and do_something   *)
(* with the data through it.  In test_unqiue_lock they keep the lock that  *)
(* process_data_with_lock returns; in test_mutex_hole there is none left.  *)
(***************************************************************************)
CONSTANTS
  Kept,       (* whether the threads keep the lock                         *)
  Threads     (* do_something is given t and t again by thread t           *)

Unset  == "unset"     \* a = 0, b = ""
Nobody == "nobody"
Garbled == "garbled"

VARIABLES
  a, b,       (* the members of data_: who set them                        *)
  m_,         (* the owner of the mutex                                    *)
  pc

vars == <<a, b, m_, pc>>

Init ==
  /\ a = Unset
  /\ b = Unset
  /\ m_ = Nobody
  /\ pc = [t \in Threads |-> "process"]

Goto(t, label) == pc' = [pc EXCEPT ![t] = label]

\* Mutant: process_data_with_lock returns no lock.
DropLock(t) == UNCHANGED m_

KeepLock(t) == m_' = IF Kept THEN t ELSE m_

\* process_data or process_data_with_lock, with malicious_function.
Process(t) ==
  /\ pc[t] = "process"
  /\ m_ = Nobody
  /\ KeepLock(t)
  /\ Goto(t, "test")
  /\ UNCHANGED <<a, b>>

\* The end of the thread's function, and of its unique_lock if it has one.
Leave(t) == Goto(t, "end") /\ m_' = IF m_ = t THEN Nobody ELSE m_

\* do_something: the two halves of the condition and the two assignments.
TestA(t) ==
  /\ pc[t] = "test"
  /\ IF a = Unset THEN Goto(t, "test_b") /\ UNCHANGED m_ ELSE Leave(t)
  /\ UNCHANGED <<a, b>>

TestB(t) ==
  /\ pc[t] = "test_b"
  /\ IF b = Unset THEN Goto(t, "set_a") /\ UNCHANGED m_ ELSE Leave(t)
  /\ UNCHANGED <<a, b>>

SetA(t) ==
  /\ pc[t] = "set_a"
  /\ a' = t
  /\ Goto(t, "set_b")
  /\ UNCHANGED <<b, m_>>

\* Two assignments to one std::string at a time may leave a text of neither.
SetB(t) ==
  /\ pc[t] = "set_b"
  /\ \/ b' = t
     \/ b' = Garbled /\ \E u \in Threads \ {t} : pc[u] = "set_b"
  /\ Leave(t)
  /\ UNCHANGED a

Next ==
  \E t \in Threads : Process(t) \/ TestA(t) \/ TestB(t) \/ SetA(t) \/ SetB(t)

Ended == \A t \in Threads : pc[t] = "end"

Spec == Init /\ [][Next]_vars /\ WF_vars(Next)
----------------------------------------------------------------------------
(* Properties. *)

\* With the lock kept, whoever takes it never finds one thread's number beside
\* the other one's text.
NeverMixed == Kept /\ m_ = Nobody => a = b
=============================================================================
