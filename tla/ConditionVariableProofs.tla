---------------------- MODULE ConditionVariableProofs ----------------------
(***************************************************************************)
(* Proofs about ConditionVariable, for any input that ends with its only   *)
(* last chunk, and for either consumer.                                    *)
(***************************************************************************)
EXTENDS ConditionVariable, Integers, SequenceTheorems, TLAPS

Chunk == {Input[i] : i \in DOMAIN Input}

\* What a user types: a sequence in which nothing follows "bye".
EndsWithBye ==
  /\ Input \in Seq(Chunk)
  /\ \A i \in 1 .. Len(Input) : Input[i] = Bye => i = Len(Input)

Typed ==
  /\ input \in Seq(Chunk)
  /\ data_queue \in Seq(Chunk)
  /\ processed \in Seq(Chunk)
  /\ producer \in {"push", "notify", "end"}
  /\ producer = "notify" => input # <<>>

IInv == Typed /\ ProcessedInOrder /\ SleepsOnlyBeforeNotify

\* Moving the head of one sequence to the end of the one before it.
LEMMA MoveHead ==
  ASSUME NEW S, NEW s \in Seq(S), NEW t \in Seq(S), t # <<>>
  PROVE  /\ Append(s, Head(t)) \in Seq(S)
         /\ Tail(t) \in Seq(S)
         /\ Append(s, Head(t)) \o Tail(t) = s \o t
<1>1. Head(t) \in S /\ Tail(t) \in Seq(S) /\ Len(Tail(t)) = Len(t) - 1 /\ Len(t) \in Nat \ {0}
      /\ Head(t) = t[1] /\ \A i \in 1 .. Len(Tail(t)) : Tail(t)[i] = t[i + 1]
  BY HeadTailProperties, EmptySeq
<1>2. Append(s, Head(t)) \in Seq(S) /\ Len(Append(s, Head(t))) = Len(s) + 1 /\ Len(s) \in Nat
      /\ \A i \in 1 .. Len(s) + 1 : Append(s, Head(t))[i] = IF i <= Len(s) THEN s[i] ELSE t[1]
  BY <1>1, AppendProperties, LenProperties
<1>. DEFINE u == Append(s, Head(t))
<1>3. u \o Tail(t) \in Seq(S) /\ Len(u \o Tail(t)) = Len(u) + Len(Tail(t))
      /\ \A i \in 1 .. Len(u) + Len(Tail(t)) :
           (u \o Tail(t))[i] = IF i <= Len(u) THEN u[i] ELSE Tail(t)[i - Len(u)]
  BY <1>1, <1>2, ConcatProperties
<1>4. s \o t \in Seq(S) /\ Len(s \o t) = Len(s) + Len(t)
      /\ \A i \in 1 .. Len(s) + Len(t) : (s \o t)[i] = IF i <= Len(s) THEN s[i] ELSE t[i - Len(s)]
  BY ConcatProperties
<1>5. Len(u \o Tail(t)) = Len(s \o t)
  BY <1>1, <1>2, <1>3, <1>4
<1>6. ASSUME NEW i \in 1 .. Len(u \o Tail(t)) PROVE (u \o Tail(t))[i] = (s \o t)[i]
  <2>1. CASE i <= Len(s)
    BY <2>1, <1>1, <1>2, <1>3, <1>4, <1>6
  <2>2. CASE i = Len(s) + 1
    BY <2>2, <1>1, <1>2, <1>3, <1>4, <1>6
  <2>3. CASE i > Len(s) + 1
    <3>1. i - Len(u) \in 1 .. Len(Tail(t)) /\ i - Len(u) + 1 = i - Len(s) /\ ~ (i <= Len(u))
      BY <2>3, <1>1, <1>2, <1>3, <1>6
    <3>. QED
      BY <3>1, <2>3, <1>1, <1>2, <1>3, <1>4, <1>6
  <2>. QED
    BY <2>1, <2>2, <2>3, <1>2, <1>6
<1>. QED
  BY <1>1, <1>2, <1>3, <1>4, <1>5, <1>6, SeqEqual

\* Concatenation as the equations of an associative operator.
LEMMA Associative ==
  ASSUME NEW S PROVE \A x, y, z \in Seq(S) : (x \o y) \o z = x \o (y \o z)
BY ConcatAssociative, SMTT(90)

LEMMA InitIInv == ASSUME Init, EndsWithBye PROVE IInv
<1>1. Typed /\ SleepsOnlyBeforeNotify
  BY EmptySeq DEF Init, EndsWithBye, Typed, SleepsOnlyBeforeNotify
<1>2. <<>> \o <<>> \o Input = Input
  BY ConcatEmptySeq, EmptySeq DEF EndsWithBye
<1>. QED
  BY <1>1, <1>2 DEF Init, IInv, ProcessedInOrder, OnTheWay

LEMMA PushStep == ASSUME IInv, Push PROVE IInv'
<1>1. /\ Append(data_queue, Head(input)) \in Seq(Chunk)
      /\ Tail(input) \in Seq(Chunk)
      /\ Append(data_queue, Head(input)) \o Tail(input) = data_queue \o input
  BY MoveHead DEF Push, IInv, Typed
<1>2. Typed'
  BY <1>1 DEF Push, IInv, Typed
<1>3. processed' \o data_queue' \o OnTheWay' = processed \o data_queue \o OnTheWay
  <2>. DEFINE Q == Seq(Chunk)
              F(x, y) == x \o y
              pushed == Append(data_queue, Head(input))
              rest == Tail(input)
  <2>1. processed \in Q /\ data_queue \in Q /\ input \in Q /\ pushed \in Q /\ rest \in Q
    BY <1>1 DEF Push, IInv, Typed
  <2>2. F(pushed, rest) = F(data_queue, input)
    BY <1>1
  <2>3. \A x, y, z \in Q : F(F(x, y), z) = F(x, F(y, z))
    BY Associative
  <2>4. F(F(processed, pushed), rest) = F(F(processed, data_queue), input)
    <3>. HIDE DEF Q, F, pushed, rest
    <3>. QED
      BY <2>1, <2>2, <2>3
  <2>. QED
    BY <2>4 DEF Push, OnTheWay
<1>4. consumer # "end"
  BY DEF Push, IInv, ProcessedInOrder, OnTheWay
<1>. QED
  BY <1>2, <1>3, <1>4 DEF Push, IInv, ProcessedInOrder, SleepsOnlyBeforeNotify

LEMMA NotifyStep == ASSUME IInv, Notify PROVE IInv'
<1>1. Tail(input) \in Seq(Chunk)
  BY HeadTailProperties DEF Notify, IInv, Typed
<1>2. OnTheWay' = OnTheWay
  BY DEF Notify, OnTheWay
<1>. QED
  BY <1>1, <1>2
  DEF Notify, NotifyChunk, notify_one, IInv, Typed, ProcessedInOrder, SleepsOnlyBeforeNotify

\* A consumer that ends has taken "bye", and nothing was pushed after that.
LEMMA TakeStep == ASSUME IInv, TakeFront, EndsWithBye PROVE IInv'
<1>. DEFINE chunk == Head(data_queue)
<1>1. /\ Append(processed, chunk) \in Seq(Chunk)
      /\ Tail(data_queue) \in Seq(Chunk)
      /\ Append(processed, chunk) \o Tail(data_queue) = processed \o data_queue
  BY MoveHead DEF TakeFront, IInv, Typed
<1>2. Typed' /\ OnTheWay' = OnTheWay /\ SleepsOnlyBeforeNotify'
  BY <1>1 DEF TakeFront, IInv, Typed, OnTheWay, SleepsOnlyBeforeNotify
<1>3. processed' \o data_queue' \o OnTheWay' = processed \o data_queue \o OnTheWay
  BY <1>1, <1>2 DEF TakeFront
<1>4. ASSUME consumer' = "end" PROVE data_queue' = <<>> /\ OnTheWay' = <<>>
  <2>. DEFINE rest == data_queue \o OnTheWay
              n == Len(processed)
  <2>1. chunk = Bye /\ data_queue # <<>>
    BY <1>4 DEF TakeFront
  <2>2. OnTheWay \in Seq(Chunk)
    BY HeadTailProperties DEF IInv, Typed, OnTheWay
  <2>3. Input = processed \o rest /\ rest \in Seq(Chunk)
    <3>1. processed \in Seq(Chunk) /\ data_queue \in Seq(Chunk)
      BY DEF IInv, Typed
    <3>2. (processed \o data_queue) \o OnTheWay = processed \o rest
      BY <2>2, <3>1, ConcatAssociative
    <3>. QED
      BY <2>2, <3>1, <3>2, ConcatProperties DEF IInv, ProcessedInOrder
  <2>4. n \in Nat /\ Len(data_queue) \in Nat \ {0} /\ Len(OnTheWay) \in Nat
        /\ Len(rest) = Len(data_queue) + Len(OnTheWay) /\ Len(Input) = n + Len(rest)
    BY <2>1, <2>2, <2>3, ConcatProperties, EmptySeq, LenProperties DEF IInv, Typed
  <2>5. rest[1] = chunk /\ Input[n + 1] = rest[1]
    BY <2>1, <2>2, <2>3, <2>4, ConcatProperties DEF IInv, Typed
  <2>6. n + 1 = Len(Input)
    BY <2>1, <2>4, <2>5 DEF EndsWithBye
  <2>7. Len(data_queue) = 1 /\ Len(OnTheWay) = 0
    <3>1. \A i \in Nat, j \in Nat \ {0}, k \in Nat : i + 1 = i + (j + k) => j = 1 /\ k = 0
      OBVIOUS
    <3>2. n + 1 = n + (Len(data_queue) + Len(OnTheWay))
      BY <2>4, <2>6
    <3>. QED
      BY <2>4, <3>1, <3>2
  <2>8. data_queue' = <<>>
    BY <2>1, <2>7, HeadTailProperties, EmptySeq DEF TakeFront, IInv, Typed
  <2>9. OnTheWay = <<>>
    BY <2>2, <2>7, EmptySeq
  <2>. QED
    BY <1>2, <2>8, <2>9
<1>. QED
  BY <1>2, <1>3, <1>4 DEF IInv, ProcessedInOrder

LEMMA Inductive == ASSUME IInv, [Next]_vars, EndsWithBye PROVE IInv'
<1>1. ASSUME NEW from, NEW to, ConsumerIs(from, to), to # "end",
             to = "wait" => Timed \/ data_queue = <<>>
      PROVE  IInv'
  BY <1>1 DEF ConsumerIs, IInv, Typed, ProcessedInOrder, OnTheWay, SleepsOnlyBeforeNotify
<1>2. CASE Produce
  BY <1>2, PushStep, NotifyStep DEF Produce
<1>3. CASE Consume
  BY <1>3, <1>1, TakeStep DEF Consume, Wait, Take, WaitUntil, NoTimeout, TimeoutEmpty, TimeoutTake
<1>4. CASE TimeOut \/ SpuriousWakeup
  BY <1>4, <1>1 DEF TimeOut, SpuriousWakeup
<1>5. CASE UNCHANGED vars
  BY <1>5 DEF vars, IInv, Typed, ProcessedInOrder, OnTheWay, SleepsOnlyBeforeNotify
<1>. QED
  BY <1>2, <1>3, <1>4, <1>5 DEF Next

LEMMA Invariance == ASSUME EndsWithBye PROVE Spec => []IInv
<1>1. Init => IInv
  BY InitIInv
<1>2. IInv /\ [Next]_vars => IInv'
  BY Inductive
<1>. QED
  BY <1>1, <1>2, PTL DEF Spec

\* notify_one outside the lock (condition_var.cc:41) is late at worst: nobody
\* sleeps beside a chunk once it has been called.
THEOREM NoEarlyNotify == ASSUME EndsWithBye PROVE Spec => []SleepsOnlyBeforeNotify
BY Invariance, PTL DEF IInv

\* No chunk is lost, doubled or overtaken, and none is left when the consumer
\* has ended, for any input and with or without the deadline.
THEOREM EveryChunkInOrder == ASSUME EndsWithBye PROVE Spec => []ProcessedInOrder
BY Invariance, PTL DEF IInv
=============================================================================
