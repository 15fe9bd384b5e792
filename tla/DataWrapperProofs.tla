------------------------- MODULE DataWrapperProofs -------------------------
(***************************************************************************)
(* Proofs about DataWrapper: the lock that process_data_with_lock returns  *)
(* makes do_something one step, for any number of threads.                 *)
(***************************************************************************)
EXTENDS DataWrapper, TLAPS

Labels == {"process", "test", "test_b", "set_a", "set_b", "end"}

TypeOK ==
  /\ m_ \in Threads \cup {Nobody}
  /\ pc \in [Threads -> Labels]

\* Whoever is between Process and Leave has the lock.
Exclusive == \A t \in Threads : pc[t] \in {"test", "test_b", "set_a", "set_b"} => m_ = t

\* a and b differ only while the owner of the lock has set a and not yet b.
HalfSet ==
  /\ \A t \in Threads : pc[t] = "set_b" => a = t
  /\ a # b => \E t \in Threads : pc[t] = "set_b"

IInv == TypeOK /\ Exclusive /\ HalfSet

LEMMA InitIInv == ASSUME Init PROVE IInv
BY DEF Init, IInv, TypeOK, Labels, Exclusive, HalfSet

LEMMA Inductive ==
  ASSUME IInv, [Next]_vars, Kept, Nobody \notin Threads PROVE IInv'
<1>1. CASE UNCHANGED vars
  BY <1>1 DEF vars, IInv, TypeOK, Exclusive, HalfSet
<1>2. ASSUME NEW t \in Threads, Process(t) PROVE IInv'
  BY <1>2 DEF Process, KeepLock, Goto, IInv, TypeOK, Labels, Exclusive, HalfSet
<1>3. ASSUME NEW t \in Threads, TestA(t) PROVE IInv'
  BY <1>3 DEF TestA, Leave, Goto, IInv, TypeOK, Labels, Exclusive, HalfSet
<1>4. ASSUME NEW t \in Threads, TestB(t) PROVE IInv'
  BY <1>4 DEF TestB, Leave, Goto, IInv, TypeOK, Labels, Exclusive, HalfSet
<1>5. ASSUME NEW t \in Threads, SetA(t) PROVE IInv'
  BY <1>5 DEF SetA, Goto, IInv, TypeOK, Labels, Exclusive, HalfSet
<1>6. ASSUME NEW t \in Threads, SetB(t) PROVE IInv'
  <2>1. m_ = t /\ \A u \in Threads \ {t} : pc[u] \notin {"test", "test_b", "set_a", "set_b"}
    BY <1>6 DEF SetB, IInv, Exclusive
  <2>2. b' = t /\ a' = a
    BY <1>6, <2>1 DEF SetB
  <2>3. pc' = [pc EXCEPT ![t] = "end"] /\ m_' = Nobody
    BY <1>6, <2>1 DEF SetB, Leave, Goto
  <2>4. TypeOK' /\ Exclusive'
    BY <2>1, <2>3 DEF IInv, TypeOK, Labels, Exclusive
  <2>5. a = t
    BY <1>6 DEF SetB, IInv, HalfSet
  <2>6. HalfSet'
    BY <2>1, <2>2, <2>3, <2>5 DEF IInv, TypeOK, HalfSet
  <2>. QED
    BY <2>4, <2>6 DEF IInv
<1>. QED
  BY <1>1, <1>2, <1>3, <1>4, <1>5, <1>6 DEF Next

\* Where the lock is kept, nobody who takes it finds a from one thread and b
\* from another, whatever number of threads call do_something (line 60).
THEOREM KeptLockProtects ==
  ASSUME Kept, Nobody \notin Threads PROVE Spec => []NeverMixed
<1>1. Init => IInv
  BY InitIInv
<1>2. IInv /\ [Next]_vars => IInv'
  BY Inductive
<1>3. IInv => NeverMixed
  BY DEF IInv, NeverMixed, Exclusive, HalfSet
<1>. QED
  BY <1>1, <1>2, <1>3, PTL DEF Spec
=============================================================================
