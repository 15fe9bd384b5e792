----------------------- MODULE ThreadSafeQueueProofs -----------------------
(***************************************************************************)
(* Proofs that ThreadSafeQueue keeps its types and loses no wakeup, for    *)
(* any number of producers, consumers, pollers and items.                  *)
(***************************************************************************)
EXTENDS ThreadSafeQueue, SequenceTheorems, FiniteSetTheorems, TLAPS

IInv == TypeOK /\ NoLostWakeup

----------------------------------------------------------------------------
\* What a step does to pc: at most one consumer changes its place.
Moves(c, l) == c \in Consumers /\ pc' = [pc EXCEPT ![c] = l]

\* The number of woken consumers is a number, and changes with the one that moves.
LEMMA WokenCount ==
  ASSUME TypeOK
  PROVE  /\ IsFiniteSet(Woken) /\ Cardinality(Woken) \in Nat
         /\ UNCHANGED pc => Woken' = Woken /\ Sleepers' = Sleepers
         /\ \A c \in Consumers : \A l \in {"run", "wait", "end"} :
              Moves(c, l) => Woken' = Woken \ {c}
         /\ \A c \in Consumers : Moves(c, "woken") => Woken' = Woken \cup {c}
         /\ \A c \in Consumers : Cardinality(Woken \ {c}) =
              IF c \in Woken THEN Cardinality(Woken) - 1 ELSE Cardinality(Woken)
         /\ \A c \in Consumers : Cardinality(Woken \cup {c}) =
              IF c \in Woken THEN Cardinality(Woken) ELSE Cardinality(Woken) + 1
<1>1. IsFiniteSet(Woken)
  BY QueueAssumption, FS_Subset DEF Woken
<1>2. Cardinality(Woken) \in Nat
  BY <1>1, FS_CardinalityType
<1>3. UNCHANGED pc => Woken' = Woken /\ Sleepers' = Sleepers
  BY DEF Woken, Sleepers
<1>4. \A c \in Consumers : \A l \in {"run", "wait", "end"} : Moves(c, l) => Woken' = Woken \ {c}
  BY DEF TypeOK, Moves, Woken
<1>5. \A c \in Consumers : Moves(c, "woken") => Woken' = Woken \cup {c}
  BY DEF TypeOK, Moves, Woken
<1>6. \A c \in Consumers : Cardinality(Woken \ {c}) =
        IF c \in Woken THEN Cardinality(Woken) - 1 ELSE Cardinality(Woken)
  BY <1>1, FS_RemoveElement
<1>7. \A c \in Consumers : Cardinality(Woken \cup {c}) =
        IF c \in Woken THEN Cardinality(Woken) ELSE Cardinality(Woken) + 1
  BY <1>1, FS_AddElement
<1>. QED
  BY <1>1, <1>2, <1>3, <1>4, <1>5, <1>6, <1>7

\* A push adds one item, and wakes one consumer if one sleeps.
LEMMA PushStep ==
  ASSUME IInv, NEW p \in Producers, Push(p)
  PROVE  IInv'
<1>1. /\ data_queue \in Seq(Values) /\ todo[p] \in Seq(Values) /\ todo[p] # <<>>
      /\ data_queue' = Append(data_queue, Head(todo[p]))
      /\ todo' = [todo EXCEPT ![p] = Tail(todo[p])]
      /\ UNCHANGED <<polls, popped>>
  BY DEF IInv, TypeOK, Push
<1>2. Head(todo[p]) \in Values /\ Tail(todo[p]) \in Seq(Values)
  BY <1>1, HeadTailProperties
<1>3. data_queue' \in Seq(Values) /\ Len(data_queue') = Len(data_queue) + 1 /\ Len(data_queue) \in Nat
  BY <1>1, <1>2, AppendProperties
<1>4. \/ Sleepers = {} /\ UNCHANGED pc
      \/ \E c \in Sleepers : Moves(c, "woken")
  BY DEF Push, Notify, notify_one, Moves, Sleepers
<1>5. TypeOK'
  <2>1. pc' \in [Consumers -> {"run", "wait", "woken", "end"}]
    BY <1>4 DEF IInv, TypeOK, Moves
  <2>. QED
    BY <1>1, <1>2, <1>3, <2>1 DEF IInv, TypeOK
<1>6. NoLostWakeup'
  <2>1. CASE Sleepers = {} /\ UNCHANGED pc
    BY <2>1, WokenCount DEF IInv, NoLostWakeup
  <2>2. ASSUME NEW c \in Sleepers, Moves(c, "woken") PROVE NoLostWakeup'
    <3>1. c \in Consumers /\ c \notin Woken
      BY DEF Sleepers, Woken
    <3>2. Woken' = Woken \cup {c} /\ Cardinality(Woken') = Cardinality(Woken) + 1
      BY <2>2, <3>1, WokenCount DEF IInv
    <3>3. Len(data_queue) <= Cardinality(Woken) /\ Cardinality(Woken) \in Nat
      BY WokenCount DEF IInv, NoLostWakeup
    <3>. QED
      BY <1>3, <3>2, <3>3 DEF NoLostWakeup
  <2>. QED
    BY <1>4, <2>1, <2>2
<1>. QED
  BY <1>5, <1>6 DEF IInv

\* Taking the front keeps the types and leaves one item less.
LEMMA TakeFrontFacts ==
  ASSUME TypeOK, TakeFront
  PROVE  /\ data_queue' \in Seq(Values) /\ popped' \in Seq(Values)
         /\ Len(data_queue) \in Nat \ {0} /\ Len(data_queue') = Len(data_queue) - 1
<1>1. data_queue \in Seq(Values) /\ data_queue # <<>> /\ data_queue' = Tail(data_queue)
  BY DEF TypeOK, TakeFront
<1>2. Head(data_queue) \in Values /\ popped' = Append(popped, Head(data_queue))
  BY <1>1, HeadTailProperties DEF TakeFront
<1>3. popped' \in Seq(Values)
  BY <1>2, AppendProperties DEF TypeOK
<1>. QED
  BY <1>1, <1>3, HeadTailProperties, EmptySeq

\* A consumer takes an item: if it was woken, one woken consumer less.
LEMMA WaitAndPopStep ==
  ASSUME IInv, NEW c \in Consumers, WaitAndPop(c)
  PROVE  IInv'
<1>1. TakeFront /\ \E l \in {"run", "end"} : Moves(c, l)
  BY DEF WaitAndPop, Moves
<1>2. UNCHANGED <<todo, polls>> /\ pc[c] \in {"run", "woken"}
  BY DEF WaitAndPop, HasLock
<1>3. TypeOK'
  <2>1. pc' \in [Consumers -> {"run", "wait", "woken", "end"}]
    BY <1>1 DEF IInv, TypeOK, Moves
  <2>. QED
    BY <1>1, <1>2, <2>1, TakeFrontFacts DEF IInv, TypeOK
<1>4. Sleepers' = Sleepers
  BY <1>1, <1>2 DEF IInv, TypeOK, Moves, Sleepers
<1>5. Cardinality(Woken') \in {Cardinality(Woken), Cardinality(Woken) - 1}
  BY <1>1, WokenCount DEF IInv
<1>6. Len(data_queue) \in Nat \ {0} /\ Len(data_queue') = Len(data_queue) - 1
  BY <1>1, TakeFrontFacts DEF IInv
<1>7. Cardinality(Woken) \in Nat
  BY WokenCount DEF IInv
<1>8. NoLostWakeup'
  BY <1>4, <1>5, <1>6, <1>7 DEF IInv, NoLostWakeup
<1>. QED
  BY <1>3, <1>8 DEF IInv

\* A consumer falls asleep only while the queue is empty.
LEMMA WaitStep ==
  ASSUME IInv, NEW c \in Consumers, Wait(c)
  PROVE  IInv'
<1>1. data_queue' = <<>> /\ Moves(c, "wait") /\ UNCHANGED <<data_queue, todo, polls, popped>>
  BY DEF Wait, Moves
<1>2. TypeOK'
  BY <1>1 DEF IInv, TypeOK, Moves
<1>3. Len(data_queue') = 0 /\ Cardinality(Woken') \in Nat
  <2>1. Woken' = Woken \ {c} /\ IsFiniteSet(Woken)
    BY <1>1, WokenCount DEF IInv
  <2>2. Cardinality(Woken') \in Nat
    BY <2>1, FS_RemoveElement, FS_CardinalityType
  <2>. QED
    BY <1>1, <2>2
<1>. QED
  BY <1>2, <1>3 DEF IInv, NoLostWakeup

LEMMA SpuriousWakeupStep ==
  ASSUME IInv, NEW c \in Consumers, SpuriousWakeup(c)
  PROVE  IInv'
<1>1. Moves(c, "woken") /\ pc[c] = "wait" /\ UNCHANGED <<data_queue, todo, polls, popped>>
  BY DEF SpuriousWakeup, Moves
<1>2. TypeOK'
  BY <1>1 DEF IInv, TypeOK, Moves
<1>3. c \in Sleepers /\ c \notin Woken
  BY <1>1 DEF Sleepers, Woken
<1>4. Cardinality(Woken') = Cardinality(Woken) + 1 /\ Cardinality(Woken) \in Nat
  BY <1>1, <1>3, WokenCount DEF IInv
<1>5. Len(data_queue) <= Cardinality(Woken) /\ Len(data_queue) \in Nat
  BY <1>3 DEF IInv, TypeOK, NoLostWakeup
<1>6. NoLostWakeup'
  BY <1>1, <1>4, <1>5 DEF NoLostWakeup
<1>. QED
  BY <1>2, <1>6 DEF IInv

LEMMA PollStep ==
  ASSUME IInv, NEW p \in Pollers, TryPop(p) \/ TryPopEmpty(p)
  PROVE  IInv'
<1>1. UNCHANGED <<pc, todo>> /\ polls' \in [Pollers -> Nat]
  <2>1. polls[p] > 0 /\ polls' = [polls EXCEPT ![p] = polls[p] - 1] /\ UNCHANGED <<pc, todo>>
    BY DEF TryPop, TryPopEmpty, Poll
  <2>2. polls \in [Pollers -> Nat] /\ polls[p] - 1 \in Nat
    BY <2>1 DEF IInv, TypeOK
  <2>. QED
    BY <2>1, <2>2
<1>2. /\ data_queue' \in Seq(Values) /\ popped' \in Seq(Values)
      /\ Len(data_queue) \in Nat /\ Len(data_queue') \in Nat /\ Len(data_queue') <= Len(data_queue)
  <2>1. CASE TryPop(p)
    BY <2>1, TakeFrontFacts DEF IInv, TryPop
  <2>2. CASE TryPopEmpty(p)
    BY <2>2 DEF IInv, TypeOK, TryPopEmpty
  <2>. QED
    BY <2>1, <2>2
<1>3. TypeOK'
  BY <1>1, <1>2 DEF IInv, TypeOK
<1>4. NoLostWakeup'
  BY <1>1, <1>2, WokenCount DEF IInv, NoLostWakeup
<1>. QED
  BY <1>3, <1>4 DEF IInv

LEMMA InitIInv == Init => IInv
<1>. SUFFICES ASSUME Init PROVE IInv
  OBVIOUS
<1>1. TypeOK
  BY QueueAssumption DEF Init, TypeOK
<1>2. Sleepers = {}
  BY DEF Init, Sleepers
<1>. QED
  BY <1>1, <1>2 DEF IInv, NoLostWakeup

LEMMA IInvStep == IInv /\ [Next]_vars => IInv'
<1>. SUFFICES ASSUME IInv, [Next]_vars PROVE IInv'
  OBVIOUS
<1>1. CASE UNCHANGED vars
  BY <1>1 DEF vars, IInv, TypeOK, NoLostWakeup, Sleepers, Woken
<1>. QED
  BY <1>1, PushStep, WaitAndPopStep, WaitStep, SpuriousWakeupStep, PollStep DEF Next, Ended

THEOREM Invariance == Spec => []IInv
BY InitIInv, IInvStep, PTL DEF Spec

\* Every variable always holds a value of its C++ type.
THEOREM TypeCorrect == Spec => []TypeOK
BY Invariance, PTL DEF IInv

\* push's notify_one under the lock (line 27) is enough for any number of
\* consumers: whoever sleeps while there are items has been outrun by others
\* that are awake and bound to fetch them.
THEOREM NoWakeupIsLost == Spec => []NoLostWakeup
BY Invariance, PTL DEF IInv
----------------------------------------------------------------------------
(* The history: what was popped and what is in the queue, one after the    *)
(* other.  A push adds to its end, and nothing else changes it.            *)

History == popped \o data_queue

\* Items can be told apart by who pushed them, as those of the test can.
Traceable ==
  \A p \in Producers :
    /\ \A q \in Producers : p # q => Of(p) \cap Of(q) = {}
    /\ \A i \in 1 .. Len(Initial) : Initial[i] \notin Of(p)

\* The number of pushes is a number, and one more after another one.
LEMMA PushesCount ==
  ASSUME TypeOK
  PROVE  /\ IsFiniteSet(Pushes) /\ Cardinality(Pushes) \in Nat
         /\ \A p \in Producers :
              /\ todo[p] # <<>> /\ Len(todo[p]) <= Len(Items[p])
              /\ todo' = [todo EXCEPT ![p] = Tail(todo[p])]
              => Cardinality(Pushes') = Cardinality(Pushes) + 1
<1>1. \A p \in Producers : todo[p] \in Seq(Values) /\ Len(todo[p]) \in Nat /\ Len(Items[p]) \in Nat
  BY QueueAssumption, LenProperties DEF TypeOK
<1>2. IsFiniteSet(Pushes)
  <2>1. \A p \in Producers : IsFiniteSet(CallsOf(p))
    <3>. TAKE p \in Producers
    <3>. DEFINE n == Len(Items[p]) - Len(todo[p])
    <3>1. n \in Int
      BY <1>1
    <3>2. IsFiniteSet(1 .. n)
      <4>. HIDE DEF n
      <4>. QED
        BY <3>1, FS_Interval
    <3>3. IsFiniteSet({p})
      BY FS_Singleton
    <3>. QED
      BY <3>2, <3>3, FS_Product DEF CallsOf
  <2>. DEFINE T == {CallsOf(p) : p \in Producers}
              f == [p \in Producers |-> CallsOf(p)]
  <2>2. f \in Surjection(Producers, T)
    BY DEF Surjection
  <2>3. IsFiniteSet(T)
    <3>. HIDE DEF T, f
    <3>. QED
      BY <2>2, FS_Surjection, QueueAssumption
  <2>. QED
    BY <2>1, <2>3, FS_UNION DEF Pushes
<1>3. ASSUME NEW p \in Producers, todo[p] # <<>>, Len(todo[p]) <= Len(Items[p]),
             todo' = [todo EXCEPT ![p] = Tail(todo[p])]
      PROVE  Cardinality(Pushes') = Cardinality(Pushes) + 1
  <2>. DEFINE n == Len(Items[p]) - Len(todo[p])
  <2>1. n \in Nat /\ Len(Items[p]) - Len(todo'[p]) = n + 1
    <3>1. Len(Tail(todo[p])) = Len(todo[p]) - 1
      BY <1>1, <1>3, HeadTailProperties
    <3>2. todo'[p] = Tail(todo[p])
      BY <1>3 DEF TypeOK
    <3>3. \A k, m \in Nat : m <= k => k - m \in Nat /\ k - (m - 1) = (k - m) + 1
      OBVIOUS
    <3>4. Len(todo[p]) \in Nat /\ Len(Items[p]) \in Nat /\ Len(todo[p]) <= Len(Items[p])
      BY <1>1, <1>3
    <3>5. Len(todo'[p]) = Len(todo[p]) - 1
      BY <3>1, <3>2
    <3>. QED
      BY <3>3, <3>4, <3>5
  <2>2. \A q \in Producers \ {p} : CallsOf(q)' = CallsOf(q)
    BY <1>3 DEF TypeOK, CallsOf
  <2>3. 1 .. (n + 1) = (1 .. n) \cup {n + 1} /\ n + 1 \notin 1 .. n
    <3>. HIDE DEF n
    <3>. QED
      BY <2>1
  <2>4. CallsOf(p) = {p} \X (1 .. n) /\ CallsOf(p)' = {p} \X (1 .. (n + 1))
    BY <2>1 DEF CallsOf
  <2>. HIDE DEF n
  <2>5. CallsOf(p)' = CallsOf(p) \cup {<<p, n + 1>>} /\ <<p, n + 1>> \notin CallsOf(p)
    BY <2>3, <2>4
  <2>6. \A q \in Producers \ {p} : <<p, n + 1>> \notin CallsOf(q)
    BY DEF CallsOf
  <2>7. Pushes' = Pushes \cup {<<p, n + 1>>}
    BY <2>2, <2>5 DEF Pushes
  <2>8. <<p, n + 1>> \notin Pushes
    BY <2>5, <2>6 DEF Pushes
  <2>. QED
    BY <1>2, <2>7, <2>8, FS_AddElement
<1>. QED
  BY <1>2, <1>3, FS_CardinalityType

\* Another item adds one to what its producer has pushed.
LEMMA Recount ==
  ASSUME NEW all \in Seq(Values), NEW x \in Values, NEW p \in Producers
  PROVE  /\ \A i \in 0 .. Len(all) : PushedBy(p, Append(all, x), i) = PushedBy(p, all, i)
         /\ PushedBy(p, Append(all, x), Len(all) + 1) =
              PushedBy(p, all, Len(all)) + (IF x \in Of(p) THEN 1 ELSE 0)
         /\ PushedBy(p, all, Len(all)) \in Nat
<1>. DEFINE more == Append(all, x)
            n == Len(all)
<1>1. /\ Len(all) \in Nat /\ Len(more) = Len(all) + 1 /\ more[Len(all) + 1] = x
      /\ \A j \in 1 .. Len(all) : more[j] = all[j]
  BY AppendProperties, LenProperties
<1>2. \A i \in 0 .. Len(all) : PlacesOf(p, more, i) = PlacesOf(p, all, i)
  BY <1>1 DEF PlacesOf
<1>3. PlacesOf(p, more, n + 1) =
        IF x \in Of(p) THEN PlacesOf(p, all, n) \cup {n + 1} ELSE PlacesOf(p, all, n)
  BY <1>1 DEF PlacesOf
<1>4. IsFiniteSet(PlacesOf(p, all, n)) /\ n + 1 \notin PlacesOf(p, all, n)
  <2>1. PlacesOf(p, all, n) \subseteq 1 .. n /\ n + 1 \notin 1 .. n
    BY <1>1 DEF PlacesOf
  <2>2. IsFiniteSet(1 .. n)
    BY <1>1, FS_Interval
  <2>. QED
    BY <2>1, <2>2, FS_Subset
<1>5. Cardinality(PlacesOf(p, all, n)) \in Nat
  BY <1>4, FS_CardinalityType
<1>6. Cardinality(PlacesOf(p, all, n) \cup {n + 1}) = Cardinality(PlacesOf(p, all, n)) + 1
  BY <1>4, FS_AddElement
<1>7. PushedBy(p, more, n + 1) = PushedBy(p, all, n) + (IF x \in Of(p) THEN 1 ELSE 0)
  <2>. HIDE DEF more, n
  <2>. QED
    BY <1>3, <1>5, <1>6 DEF PushedBy
<1>8. \A i \in 0 .. n : PushedBy(p, more, i) = PushedBy(p, all, i)
  BY <1>2 DEF PushedBy
<1>. QED
  BY <1>5, <1>7, <1>8 DEF PushedBy

\* Popping moves the front from the one part of the history to the other.
LEMMA TakeFrontKeepsHistory == ASSUME TypeOK, TakeFront PROVE History' = History
<1>1. popped \in Seq(Values) /\ data_queue \in Seq(Values) /\ data_queue # <<>>
  BY DEF TypeOK, TakeFront
<1>2. Head(data_queue) \in Values /\ Tail(data_queue) \in Seq(Values)
      /\ data_queue = <<Head(data_queue)>> \o Tail(data_queue)
  <2>1. /\ Head(data_queue) \in Values /\ Tail(data_queue) \in Seq(Values)
        /\ Head(data_queue) = data_queue[1] /\ Len(Tail(data_queue)) = Len(data_queue) - 1
        /\ \A i \in 1 .. Len(Tail(data_queue)) : Tail(data_queue)[i] = data_queue[i + 1]
    BY <1>1, HeadTailProperties
  <2>2. <<Head(data_queue)>> \in Seq(Values) /\ Len(<<Head(data_queue)>>) = 1
    BY <2>1
  <2>. DEFINE s == <<Head(data_queue)>> \o Tail(data_queue)
  <2>3. s \in Seq(Values) /\ Len(s) = Len(data_queue) /\ Len(data_queue) \in Nat
    BY <2>1, <2>2, <1>1, ConcatProperties, LenProperties
  <2>4. \A i \in 1 .. Len(s) : s[i] = data_queue[i]
    BY <2>1, <2>2, <2>3, ConcatProperties
  <2>. QED
    BY <1>1, <2>1, <2>3, <2>4, SeqEqual
<1>3. Append(popped, Head(data_queue)) = popped \o <<Head(data_queue)>>
  BY <1>1, <1>2, AppendIsConcat
<1>4. (popped \o <<Head(data_queue)>>) \o Tail(data_queue)
        = popped \o (<<Head(data_queue)>> \o Tail(data_queue))
  BY <1>1, <1>2, ConcatAssociative
<1>. QED
  BY <1>2, <1>3, <1>4 DEF TakeFront, History

\* InOrder, as what it says of the history, what is to be pushed and the pushes.
InOrderIn(all, left, n) ==
  /\ Len(all) = Len(Initial) + n
  /\ SubSeq(all, 1, Len(Initial)) = Initial
  /\ \A p \in Producers :
       /\ \A j \in 1 .. Len(all) : all[j] \in Of(p) => all[j] = Items[p][PushedBy(p, all, j)]
       /\ left[p] = SubSeq(Items[p], PushedBy(p, all, Len(all)) + 1, Len(Items[p]))

\* Where the history and what is to be pushed stay, so does their order.
LEMMA SameHistory ==
  ASSUME InOrder, History' = History, todo' = todo PROVE InOrder'
<1>1. Pushes' = Pushes
  BY DEF Pushes, CallsOf
<1>2. InOrder <=> InOrderIn(History, todo, Cardinality(Pushes))
  BY DEF InOrder, InOrderIn, History
<1>3. InOrder' <=> InOrderIn(History', todo', Cardinality(Pushes'))
  BY DEF InOrder, InOrderIn, History
<1>. QED
  BY <1>1, <1>2, <1>3

LEMMA PushInOrder ==
  ASSUME Traceable, TypeOK, InOrder, NEW p \in Producers, Push(p)
  PROVE  InOrder'
<1>. DEFINE x == Head(todo[p])
            k == PushedBy(p, History, Len(History))
<1>0. /\ Len(History) = Len(Initial) + Cardinality(Pushes)
      /\ SubSeq(History, 1, Len(Initial)) = Initial
      /\ \A q \in Producers :
           /\ \A n \in 1 .. Len(History) :
                History[n] \in Of(q) => History[n] = Items[q][PushedBy(q, History, n)]
           /\ todo[q] = SubSeq(Items[q], PushedBy(q, History, Len(History)) + 1, Len(Items[q]))
  BY DEF InOrder, History
<1>1. /\ todo[p] \in Seq(Values) /\ todo[p] # <<>> /\ todo' = [todo EXCEPT ![p] = Tail(todo[p])]
      /\ popped' = popped /\ data_queue' = Append(data_queue, x)
      /\ popped \in Seq(Values) /\ data_queue \in Seq(Values)
  BY DEF TypeOK, Push
<1>2. x \in Values /\ x = todo[p][1]
  BY <1>1, HeadTailProperties
<1>3. History \in Seq(Values) /\ Len(History) \in Nat
  BY <1>1, ConcatProperties, LenProperties DEF History
<1>4. History' = Append(History, x)
  <2>1. Append(data_queue, x) = data_queue \o <<x>> /\ Append(History, x) = History \o <<x>>
    BY <1>1, <1>2, <1>3, AppendIsConcat
  <2>2. <<x>> \in Seq(Values) /\ popped \in Seq(Values) /\ data_queue \in Seq(Values)
    BY <1>1, <1>2
  <2>3. (popped \o data_queue) \o <<x>> = popped \o (data_queue \o <<x>>)
    BY <2>2, ConcatAssociative
  <2>. QED
    BY <1>1, <2>1, <2>3 DEF History
<1>. HIDE DEF x
<1>5. /\ Len(History') = Len(History) + 1 /\ History'[Len(History) + 1] = x
      /\ \A i \in 1 .. Len(History) : History'[i] = History[i]
  BY <1>2, <1>3, <1>4, AppendProperties
<1>6. \A q \in Producers :
        /\ \A i \in 1 .. Len(History) : PushedBy(q, History', i) = PushedBy(q, History, i)
        /\ PushedBy(q, History', Len(History) + 1) =
             PushedBy(q, History, Len(History)) + (IF x \in Of(q) THEN 1 ELSE 0)
        /\ PushedBy(q, History, Len(History)) \in Nat
  BY <1>2, <1>3, <1>4, Recount
<1>7. Items[p] \in Seq(Values) /\ Len(Items[p]) \in Nat
  BY QueueAssumption, LenProperties
<1>8. todo[p] = SubSeq(Items[p], k + 1, Len(Items[p])) /\ k \in Nat
  BY <1>0, <1>6
<1>9. /\ k + 1 <= Len(Items[p]) /\ x = Items[p][k + 1]
      /\ Tail(todo[p]) = SubSeq(Items[p], k + 2, Len(Items[p]))
  <2>1. k + 1 <= Len(Items[p])
    BY <1>1, <1>7, <1>8, SubSeqEmpty
  <2>2. x = Items[p][k + 1]
    BY <1>2, <1>7, <1>8, <2>1, SubSeqProperties
  <2>3. Tail(todo[p]) = SubSeq(Items[p], k + 2, Len(Items[p]))
    <3>1. k + 1 \in 1 .. Len(Items[p]) /\ Len(Items[p]) \in k + 1 .. Len(Items[p]) /\ k + 1 + 1 = k + 2
      BY <1>7, <1>8, <2>1
    <3>2. Tail(SubSeq(Items[p], k + 1, Len(Items[p]))) = SubSeq(Items[p], k + 1 + 1, Len(Items[p]))
      BY <1>7, <3>1, HeadTailOfSubSeq
    <3>. QED
      BY <3>1, <3>2, <1>8
  <2>. QED
    BY <2>1, <2>2, <2>3
<1>10. x \in Of(p) /\ \A q \in Producers \ {p} : x \notin Of(q)
  <2>1. x \in Of(p)
    BY <1>7, <1>8, <1>9 DEF Of
  <2>. QED
    BY <2>1 DEF Traceable
<1>11. /\ Len(History') = Len(Initial) + Cardinality(Pushes')
       /\ SubSeq(History', 1, Len(Initial)) = Initial
  <2>1. /\ Initial \in Seq(Values) /\ Len(Initial) \in Nat
        /\ Cardinality(Pushes) \in Nat /\ Len(Initial) <= Len(History)
    BY <1>0, QueueAssumption, LenProperties, PushesCount
  <2>2. \A i \in 1 .. Len(Initial) : History'[i] = History[i]
    BY <1>0, <1>3, <1>5, <2>1
  <2>3. SubSeq(History', 1, Len(Initial)) = SubSeq(History, 1, Len(Initial))
    BY <2>1, <2>2
  <2>4. Len(todo[p]) <= Len(Items[p])
    BY <1>7, <1>8, <1>9, SubSeqProperties
  <2>5. Cardinality(Pushes') = Cardinality(Pushes) + 1
    BY <1>1, <2>4, PushesCount
  <2>6. Len(History') = Len(Initial) + Cardinality(Pushes')
    BY <1>0, <1>3, <1>5, <2>1, <2>5
  <2>. QED
    BY <1>0, <2>3, <2>6
<1>12. ASSUME NEW q \in Producers, NEW n \in 1 .. Len(History'), History'[n] \in Of(q)
       PROVE  History'[n] = Items[q][PushedBy(q, History', n)]
  <2>1. CASE n \in 1 .. Len(History)
    <3>1. History'[n] = History[n] /\ PushedBy(q, History', n) = PushedBy(q, History, n)
      BY <2>1, <1>5, <1>6
    <3>2. History[n] \in Of(q)
      BY <3>1, <1>12
    <3>. QED
      BY <2>1, <3>1, <3>2, <1>0
  <2>2. CASE n = Len(History) + 1
    <3>1. q = p
      BY <2>2, <1>5, <1>10, <1>12
    <3>. QED
      BY <3>1, <2>2, <1>5, <1>6, <1>9, <1>10
  <2>. QED
    BY <2>1, <2>2, <1>3, <1>5, <1>12
<1>13. ASSUME NEW q \in Producers
       PROVE  todo'[q] = SubSeq(Items[q], PushedBy(q, History', Len(History')) + 1, Len(Items[q]))
  <2>1. CASE q = p
    <3>1. PushedBy(p, History', Len(History')) = k + 1
      BY <1>5, <1>6, <1>10
    <3>2. todo'[p] = Tail(todo[p])
      BY <1>1 DEF TypeOK
    <3>. QED
      <4>1. k + 1 + 1 = k + 2
        BY <1>8
      <4>. QED
        BY <2>1, <3>1, <3>2, <1>9, <4>1
  <2>2. CASE q # p
    <3>1. PushedBy(q, History', Len(History')) = PushedBy(q, History, Len(History))
      BY <1>5, <1>6, <1>10, <2>2
    <3>2. todo'[q] = todo[q]
      BY <1>1, <2>2 DEF TypeOK
    <3>. QED
      BY <3>1, <3>2, <1>0
  <2>. QED
    BY <2>1, <2>2
<1>. QED
  BY <1>11, <1>12, <1>13 DEF InOrder, History

LEMMA InitInOrder == ASSUME Traceable, Init PROVE InOrder
<1>1. popped \o data_queue = Initial /\ Initial \in Seq(Values) /\ Len(Initial) \in Nat
  BY QueueAssumption, ConcatEmptySeq, LenProperties DEF Init
<1>2. ASSUME NEW p \in Producers PROVE PushedBy(p, Initial, Len(Initial)) = 0
  <2>1. PlacesOf(p, Initial, Len(Initial)) = {}
    BY DEF Traceable, PlacesOf
  <2>. QED
    BY <2>1, FS_EmptySet DEF PushedBy
<1>3. ASSUME NEW p \in Producers PROVE SubSeq(Items[p], 0 + 1, Len(Items[p])) = Items[p]
  BY QueueAssumption, SubSeqFull
<1>4. SubSeq(Initial, 1, Len(Initial)) = Initial
  BY <1>1, SubSeqFull
<1>5. Cardinality(Pushes) = 0
  <2>1. \A p \in Producers : Len(Items[p]) \in Nat /\ todo[p] = Items[p]
    BY QueueAssumption, LenProperties DEF Init
  <2>2. \A p \in Producers : CallsOf(p) = {}
    <3>1. \A k \in Nat : 1 .. k - k = {}
      OBVIOUS
    <3>. QED
      BY <2>1, <3>1 DEF CallsOf
  <2>3. Pushes = {}
    BY <2>2 DEF Pushes
  <2>. QED
    BY <2>3, FS_EmptySet
<1>. QED
  BY <1>1, <1>2, <1>3, <1>4, <1>5 DEF Init, InOrder, Traceable

LEMMA InOrderStep == ASSUME Traceable, IInv, InOrder, [Next]_vars PROVE InOrder'
<1>1. CASE UNCHANGED vars
  BY <1>1, SameHistory DEF vars, History
<1>2. ASSUME NEW c \in Consumers, WaitAndPop(c) \/ Wait(c) \/ SpuriousWakeup(c) PROVE InOrder'
  BY <1>2, SameHistory, TakeFrontKeepsHistory DEF WaitAndPop, Wait, SpuriousWakeup, History, IInv
<1>3. ASSUME NEW p \in Pollers, TryPop(p) \/ TryPopEmpty(p) PROVE InOrder'
  BY <1>3, SameHistory, TakeFrontKeepsHistory DEF TryPop, TryPopEmpty, History, IInv
<1>. QED
  BY <1>1, <1>2, <1>3, PushInOrder DEF Next, Ended, IInv

\* Whatever number of threads push, wait_and_pop and try_pop: what has come out
\* and what is still in the queue is what the constructor put in, and then the
\* item of every push, each of them once, those of one producer in the order in
\* which it pushed them (lines 24-67).
THEOREM EveryItemInOrder == ASSUME Traceable PROVE Spec => []InOrder
<1>1. Init => IInv /\ InOrder
  BY InitIInv, InitInOrder
<1>2. IInv /\ InOrder /\ [Next]_vars => (IInv /\ InOrder)'
  BY IInvStep, InOrderStep
<1>. QED
  BY <1>1, <1>2, PTL DEF Spec
=============================================================================
