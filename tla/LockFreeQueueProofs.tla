------------------------ MODULE LockFreeQueueProofs ------------------------
(***************************************************************************)
(* Proofs about lock_free_queue, for every number of threads, items, nodes *)
(* and values.  It reclaims memory safely and completely: TypeOK,          *)
(* RefCounts, MemorySafe, NoLeak and, when the pushers are joined before   *)
(* the poppers start, NoCrash follow from the inductive invariant IInv and *)
(* three conjuncts that are inductive beside it.  And it implements        *)
(* AtomicQueue, if the pushers are joined first, or else a queue that can  *)
(* lose a push: CallsInv says what the refinement mapping depends on.      *)
(***************************************************************************)
EXTENDS LockFreeQueueRefinement, FiniteSetTheorems, SequenceTheorems, WellFoundedInduction, TLAPS

\* The last dummy node and, once it is linked, the one behind it: the nodes
\* tail has still to leave.
Ahead == {tail.ptr, next[tail.ptr].ptr} \ {NULL}

Outstanding(n) ==
  count[n].external_counters > (IF TailFolders(n) = {} THEN 0 ELSE 1)

\* The nodes of the queue: head has still to leave them.
InQueue == {n \in heap \ Private : HeadFolders(n) = {} /\ Outstanding(n)}

\* The places at which a thread uses the node ptr points to, as one of its
\* holders or to delete it.
Using == {"push_data", "push_trace", "push_next", "push_help", "set_tail", "pop_tail", "pop_head",
          "pop_data", "free", "release", "crashed", "trace_delete", "delete"}

\* The places at which old is a copy of a counted pointer to that node.
Counted == {"push_data", "push_trace", "push_next", "push_help", "set_tail", "pop_tail", "pop_head",
            "pop_data", "free"}

LettingGo == {"free", "trace", "trace_delete", "delete", "release"}
PushLabels == {"push_increase", "push_data", "push_trace", "push_next", "push_help", "set_tail"}
PopLabels == {"pop_increase", "pop_tail", "pop_head", "pop_data"}

\* The places at which a pusher owns a node it has not linked.
Owning(p) ==
  \/ pc[p] \in {"push_increase", "push_data", "push_trace", "push_next", "push_help"}
  \/ pc[p] \in LettingGo \cup {"set_tail"} /\ cont[p] = "push_increase"

\* Each thread keeps to its own operation.
PlacesOK ==
  /\ \A p \in Pushers :
       /\ pc[p] \in PushLabels \cup LettingGo \cup {"idle", "return", "crashed"}
       /\ cont[p] \in {"push_increase", "return"}
       /\ pc[p] \in {"push_trace", "push_next"} => cont[p] = "return"
       /\ pc[p] = "push_help" => cont[p] = "push_increase"
       /\ pc[p] # "idle" => val[p] # NULL
  /\ \A p \in Procs \ Pushers :
       /\ pc[p] \in PopLabels \cup LettingGo \cup {"idle", "return"}
       /\ cont[p] \in {"pop_increase", "return"}
       /\ new_node[p] = NULL
  /\ \A t \in Threads : pc[t] # "idle" => todo[t] > 0

\* A node that is not linked yet is as its constructor left it, and has one owner.
NewNodesOK ==
  /\ \A p \in Pushers : pc[p] # "crashed" => (Owning(p) <=> new_node[p] # NULL)
  /\ \A p \in Procs : new_node[p] # NULL =>
       /\ new_node[p] \in heap
       /\ count[new_node[p]] = NewCount
       /\ data[new_node[p]] = NULL
       /\ next[new_node[p]] = NullPtr
  /\ \A p, q \in Procs : new_node[p] # NULL /\ new_node[p] = new_node[q] => p = q

\* A thread uses a node that is allocated and has been linked; what it has read
\* of the node's links is still so.
UsesOK ==
  /\ \A p \in Procs : pc[p] \in Using => ptr[p] \in heap \ Private
  /\ \A p \in Procs : pc[p] \in Counted => old[p].ptr = ptr[p]
  /\ \A p \in Procs : pc[p] = "set_tail" => new_tail[p] = next[ptr[p]] /\ new_tail[p].ptr # NULL
  /\ \A p \in Procs : pc[p] = "pop_head" => ptr[p] \notin Ahead

\* The nodes of the queue hold data, all but the last dummy.
DataOK ==
  /\ \A n \in InQueue : next[n].ptr # NULL => data[n] # NULL
  /\ \A p \in Procs : /\ pc[p] \in {"push_trace", "push_next", "push_help"}
                      /\ ptr[p] \in InQueue
                      => data[ptr[p]] # NULL
  /\ \A p \in Procs : pc[p] = "pop_data" => data[ptr[p]] # NULL

\* The links lead from head through distinct nodes to the last one.
ChainOK ==
  /\ head.ptr \in InQueue
  /\ Ahead \subseteq InQueue
  /\ tail.ptr # NULL
  /\ \A n \in heap \ Private :
       /\ next[n].ptr # NULL => next[n] = Link(next[n].ptr)
       /\ next[n].ptr = NULL => next[n] = NullPtr /\ n \in Ahead
  /\ \A n \in InQueue \ Ahead : next[n].ptr \in InQueue
  /\ \A m, n \in InQueue : next[m].ptr # NULL /\ next[m].ptr = next[n].ptr => m = n
  /\ \A n \in InQueue : next[n].ptr # head.ptr
  /\ \A n \in InQueue : n = next[tail.ptr].ptr => next[n].ptr = NULL /\ Holders(n) = {}

\* The two fields of a node's count: as RefCounts has them, by the sets above.
Balanced(n) ==
  \A t \in Users(tail, n, TailFolders(n)), h \in Users(head, n, HeadFolders(n)) :
    count[n].internal_count = (Cardinality(Holders(n)) - t - h) % Modulus

Accounted(n) ==
  count[n].external_counters
    = (IF TailFolders(n) = {} THEN 0 ELSE 1) + (IF HeadFolders(n) = {} THEN 0 ELSE 1)
        + (IF n \in InQueue THEN 1 ELSE 0) + (IF n \in Ahead THEN 1 ELSE 0)

\* Each of the two counted pointers that lead to a node is moved on once.
CountsOK ==
  /\ \A n \in Nodes : \A p, q \in TailFolders(n) : p = q
  /\ \A n \in Nodes : \A p, q \in HeadFolders(n) : p = q
  /\ \A n \in Ahead : TailFolders(n) = {}
  /\ \A n \in heap \ Private : Balanced(n) /\ Accounted(n)

\* Outside the queue a node's holders, then its one deleter, keep it.
ReclaimOK ==
  /\ \A n \in Nodes : Deleters(n) # {} => Holders(n) = {} /\ count[n] = Unused
  /\ \A n \in Nodes : \A p, q \in Deleters(n) : p = q
  /\ \A n \in (heap \ Private) \ InQueue : Holders(n) \cup Deleters(n) # {}

IInv == TypeOK /\ PlacesOK /\ NewNodesOK /\ UsesOK /\ DataOK /\ ChainOK /\ CountsOK /\ ReclaimOK

\* What head leads to: every set that holds its node and the successors of its
\* own nodes holds the whole queue.
Closed(C) == head.ptr \in C /\ \A m \in C \cap InQueue : next[m].ptr \in C \cup {NULL}

Reachable == \A C \in SUBSET Nodes : Closed(C) => InQueue \subseteq C

\* What a step can do to the queue: nothing, link a node behind tail, take
\* the first node off.
QueueKept ==
  InQueue' = InQueue /\ head'.ptr = head.ptr /\ \A m \in InQueue : next'[m] = next[m]

NodeLinked ==
  /\ head' = head
  /\ next[tail.ptr].ptr = NULL
  /\ \E m \in Nodes \ InQueue :
       /\ InQueue' = InQueue \cup {m}
       /\ next'[tail.ptr].ptr = m
       /\ \A n \in InQueue : n # tail.ptr => next'[n] = next[n]

HeadMoved ==
  InQueue' = InQueue \ {head.ptr} /\ head'.ptr = next[head.ptr].ptr /\ next' = next

\* Main works alone, and returns nothing only from a queue that is empty but
\* for its dummy node.
MainLast ==
  /\ pc[Main] # "idle" \/ destroyed => \A t \in Threads : Finished(t)
  /\ pc[Main] \in {"pop_tail", "pop_head"} => head = old[Main]
  /\ pc[Main] \in LettingGo \cup {"return"} /\ val[Main] = NULL => head.ptr = tail.ptr
  /\ destroyed => pc[Main] = "idle" /\ head.ptr = tail.ptr

\* Where a node is linked behind the one tail points to, a pusher is about to
\* move tail on.
TailFollowed ==
  next[tail.ptr].ptr # NULL => \E t \in Pushers : pc[t] = "set_tail" /\ ptr[t] = tail.ptr

\* The inductive invariant of the queue as a whole.
QueueInv == IInv /\ Reachable /\ TailFollowed /\ MainLast

\* Nobody takes data out of a node before the pushers are done.
PushersFirst ==
  /\ \A p \in Procs : pc[p] # "crashed"
  /\ (\E t \in Pushers : ~Finished(t)) => \A p \in Procs \ Pushers : pc[p] = "idle"
  /\ \A p \in Procs : pc[p] = "push_trace" => data[ptr[p]] # NULL

----------------------------------------------------------------------------
(* Holders are finite, and gain or lose one thread at a time. *)

LEMMA ProcsFinite == IsFiniteSet(Procs)
BY QueueAssumption, FS_AddElement DEF Procs

LEMMA HoldersFinite == \A n \in Nodes : IsFiniteSet(Holders(n))
BY ProcsFinite, FS_Subset DEF Holders

LEMMA HoldersBelowModulus ==
  ASSUME NEW S \in SUBSET Procs
  PROVE  IsFiniteSet(S) /\ Cardinality(S) \in 0 .. Modulus - 1
<1>1. IsFiniteSet(S) /\ Cardinality(S) <= Cardinality(Procs)
  BY ProcsFinite, FS_Subset
<1>2. Cardinality(S) \in Nat /\ Cardinality(Procs) \in Nat
  BY <1>1, ProcsFinite, FS_CardinalityType
<1>. QED
  BY <1>1, <1>2, QueueAssumption

LEMMA CardinalityAdd ==
  ASSUME NEW S, IsFiniteSet(S), NEW x, x \notin S
  PROVE  Cardinality(S \cup {x}) = Cardinality(S) + 1 /\ Cardinality(S) \in Nat
BY FS_AddElement, FS_CardinalityType

LEMMA CardinalityRemove ==
  ASSUME NEW S, IsFiniteSet(S), NEW x, x \in S
  PROVE  Cardinality(S \ {x}) = Cardinality(S) - 1 /\ Cardinality(S) \in Nat
BY FS_RemoveElement, FS_CardinalityType

(* The arithmetic of the bit field. *)

LEMMA ModulusRange ==
  ASSUME NEW x \in Int
  PROVE  x % Modulus \in 0 .. Modulus - 1
BY QueueAssumption

LEMMA ModulusSmall ==
  ASSUME NEW x \in 0 .. Modulus - 1
  PROVE  x % Modulus = x
BY QueueAssumption

\* Adding to a number that has wrapped around wraps around as the sum does.
LEMMA ModulusAdd ==
  ASSUME NEW x \in Int, NEW b \in Int
  PROVE  ((x % Modulus) + b) % Modulus = (x + b) % Modulus
<1>. DEFINE M == Modulus
            q == x \div M
            r == x % M
            q2 == (r + b) \div M
            r2 == (r + b) % M
<1>1. M \in Nat \ {0}
  BY QueueAssumption
<1>2. ASSUME NEW a \in Int
      PROVE  a \div M \in Int /\ a % M \in 0 .. M - 1 /\ a = (a \div M) * M + (a % M)
  BY <1>1
<1>3. ASSUME NEW k \in Int, NEW s \in 0 .. M - 1 PROVE (k * M + s) % M = s
  BY <1>1
<1>4. q \in Int /\ r \in 0 .. M - 1 /\ x = q * M + r
  BY <1>2
<1>5. r + b \in Int
  BY <1>1, <1>4
<1>6. q2 \in Int /\ r2 \in 0 .. M - 1 /\ r + b = q2 * M + r2
  BY <1>2, <1>5
<1>7. x + b = (q + q2) * M + r2
  <2>. HIDE DEF q, r, q2, r2, M
  <2>1. x + b = q * M + (r + b)
    BY <1>1, <1>4
  <2>2. x + b = q * M + (q2 * M + r2)
    BY <2>1, <1>6
  <2>. QED
    BY <2>2, <1>1, <1>4, <1>6
<1>8. (x + b) % M = r2
  <2>. HIDE DEF q, r, q2, r2, M
  <2>1. q + q2 \in Int
    BY <1>4, <1>6
  <2>. QED
    BY <1>3, <1>6, <1>7, <2>1
<1>. QED
  BY <1>8

----------------------------------------------------------------------------
THEOREM InitIInv == Init => IInv
<1>. SUFFICES ASSUME Init PROVE IInv
  OBVIOUS
<1>0. PICK n0 \in Nodes :
        /\ head = Link(n0)
        /\ tail = Link(n0)
        /\ heap = {n0}
        /\ data = [m \in Nodes |-> NULL]
        /\ count = [m \in Nodes |-> NewCount]
        /\ next = [m \in Nodes |-> NullPtr]
        /\ pc = [p \in Procs |-> "idle"]
        /\ cont = [p \in Procs |-> "return"]
        /\ old = [p \in Procs |-> NullPtr]
        /\ ptr = [p \in Procs |-> NULL]
        /\ new_node = [p \in Procs |-> NULL]
        /\ new_tail = [p \in Procs |-> NullPtr]
        /\ val = [p \in Procs |-> NULL]
        /\ todo = Size
        /\ destroyed = FALSE
  BY DEF Init
<1>1. TypeOK
  <2>1. NullPtr \in counted_node_ptr /\ Link(n0) \in counted_node_ptr
    BY DEF NullPtr, Link, counted_node_ptr
  <2>2. NewCount \in node_counter
    BY QueueAssumption DEF NewCount, node_counter
  <2>3. {head, tail} \subseteq counted_node_ptr /\ heap \subseteq Nodes /\ destroyed \in BOOLEAN
    BY <1>0, <2>1
  <2>4. /\ data \in [Nodes -> Values \cup {NULL}]
        /\ count \in [Nodes -> node_counter]
        /\ next \in [Nodes -> counted_node_ptr]
    BY <1>0, <2>1, <2>2
  <2>5. pc \in [Procs -> Labels] /\ cont \in [Procs -> {"push_increase", "pop_increase", "return"}]
    BY <1>0 DEF Labels
  <2>6. /\ old \in [Procs -> counted_node_ptr] /\ new_tail \in [Procs -> counted_node_ptr]
        /\ ptr \in [Procs -> Nodes \cup {NULL}] /\ new_node \in [Procs -> Nodes \cup {NULL}]
        /\ val \in [Procs -> Values \cup {NULL}]
    BY <1>0, <2>1
  <2>7. todo \in [Threads -> Nat]
    BY <1>0, QueueAssumption
  <2>. QED
    BY <2>3, <2>4, <2>5, <2>6, <2>7 DEF TypeOK
<1>2. /\ Private = {}
      /\ \A n : Holders(n) = {} /\ Deleters(n) = {} /\ TailFolders(n) = {} /\ HeadFolders(n) = {}
  BY <1>0 DEF Private, Holders, Deleters, TailFolders, HeadFolders, Procs, Threads
<1>3. Ahead = {n0}
  BY <1>0, QueueAssumption DEF Ahead, Link, NullPtr
<1>4. InQueue = {n0}
  BY <1>0, <1>2 DEF InQueue, Outstanding, NewCount
<1>5. PlacesOK /\ NewNodesOK /\ UsesOK /\ DataOK
  BY <1>0, <1>4 DEF PlacesOK, NewNodesOK, Owning, LettingGo, UsesOK, Using, Counted, DataOK,
                    Procs, Threads, NullPtr
<1>6. ChainOK
  BY <1>0, <1>3, <1>4, QueueAssumption DEF ChainOK, Link, NullPtr
<1>7. CountsOK
  <2>1. Cardinality({}) = 0 /\ 0 % Modulus = 0
    BY FS_EmptySet, QueueAssumption
  <2>2. /\ Users(tail, n0, TailFolders(n0)) = {0}
        /\ Users(head, n0, HeadFolders(n0)) = {0}
    BY <1>0 DEF Users, Link
  <2>3. ASSUME NEW n \in heap \ Private PROVE Balanced(n) /\ Accounted(n)
    <3>1. n = n0 /\ n \in InQueue /\ n \in Ahead
      BY <1>0, <1>3, <1>4
    <3>2. count[n].internal_count = 0 /\ count[n].external_counters = 2
      BY <1>0, <3>1 DEF NewCount
    <3>3. \A t \in Users(tail, n, TailFolders(n)), h \in Users(head, n, HeadFolders(n)) :
            t = 0 /\ h = 0
      BY <2>2, <3>1
    <3>4. Holders(n) = {} /\ TailFolders(n) = {} /\ HeadFolders(n) = {}
      BY <1>2
    <3>. QED
      BY <2>1, <3>1, <3>2, <3>3, <3>4 DEF Balanced, Accounted
  <2>. QED
    BY <1>2, <2>3 DEF CountsOK
<1>8. ReclaimOK
  BY <1>0, <1>2, <1>4 DEF ReclaimOK
<1>. QED
  BY <1>1, <1>5, <1>6, <1>7, <1>8 DEF IInv


----------------------------------------------------------------------------
(* The type invariant, one action at a time. *)

LEMMA LinkType == NullPtr \in counted_node_ptr /\ \A n \in Nodes : Link(n) \in counted_node_ptr
BY DEF NullPtr, Link, counted_node_ptr

\* What the invariant says of the nodes that threads use.
LEMMA UsedNodes ==
  ASSUME IInv
  PROVE  /\ \A q \in Procs : pc[q] \in Using =>
              ptr[q] \in Nodes /\ ptr[q] # NULL /\ ptr[q] \in heap /\ ptr[q] \notin Private
         /\ \A q \in Pushers : Owning(q) /\ pc[q] # "crashed" => new_node[q] \in Nodes
BY QueueAssumption DEF IInv, TypeOK, UsesOK, NewNodesOK, Procs, Threads

LEMMA TypeStep == IInv /\ [Next]_vars => TypeOK'
<1>. SUFFICES ASSUME IInv, [Next]_vars PROVE TypeOK'
  OBVIOUS
<1>. USE QueueAssumption, LinkType DEF TypeOK, Labels, Procs, Threads, Goto, At, links, nodes, push, client
<1>0. TypeOK
  BY DEF IInv
<1>1. CASE UNCHANGED vars
  BY <1>0, <1>1 DEF vars
<1>2. ASSUME NEW p \in Procs, PushAllocate(p) PROVE TypeOK'
  <2>1. PICK n \in Nodes \ heap, v \in Values :
          /\ heap' = heap \cup {n}
          /\ data' = [data EXCEPT ![n] = NULL]
          /\ count' = [count EXCEPT ![n] = NewCount]
          /\ new_node' = [new_node EXCEPT ![p] = n]
          /\ next' = [next EXCEPT ![n] = NullPtr]
          /\ val' = [val EXCEPT ![p] = v]
    <3>1. PICK n \in Nodes \ heap :
            /\ heap' = heap \cup {n}
            /\ data' = [data EXCEPT ![n] = NULL]
            /\ count' = [count EXCEPT ![n] = NewCount]
            /\ new_node' = [new_node EXCEPT ![p] = n]
      BY <1>2 DEF PushAllocate, NewNode
    <3>2. new_node'[p] = n
      BY <1>0, <3>1
    <3>3. next' = [next EXCEPT ![n] = NullPtr]
      BY <1>2, <3>2 DEF PushAllocate
    <3>4. PICK v \in Values : val' = [val EXCEPT ![p] = v]
      BY <1>2 DEF PushAllocate
    <3>. QED
      BY <3>1, <3>3, <3>4
  <2>2. NewCount \in node_counter
    BY DEF NewCount, node_counter
  <2>3. count' \in [Nodes -> node_counter]
    BY <1>0, <2>1, <2>2
  <2>. QED
    BY <1>0, <1>2, <2>1, <2>3 DEF PushAllocate
<1>3. ASSUME NEW p \in Procs, PushIncrease(p) PROVE TypeOK'
  <2>1. tail' = [tail EXCEPT !.external_count = @ + 1] /\ tail' \in counted_node_ptr
    BY <1>0, <1>3 DEF PushIncrease, Increase, counted_node_ptr
  <2>2. tail.ptr \in Nodes \cup {NULL}
    BY <1>0 DEF counted_node_ptr
  <2>. QED
    BY <1>0, <1>3, <2>1, <2>2 DEF PushIncrease, Increase
<1>4. ASSUME NEW p \in Procs, PushReload(p) PROVE TypeOK'
  BY <1>0, <1>4, UsedNodes DEF PushReload, Reload, Using, Owning
<1>5. ASSUME NEW p \in Procs, PushData(p) PROVE TypeOK'
  BY <1>0, <1>5, UsedNodes DEF PushData, Using, Owning
<1>6. ASSUME NEW p \in Procs, PushDataTaken(p) PROVE TypeOK'
  BY <1>0, <1>6, UsedNodes DEF PushDataTaken, Using, Owning
<1>7. ASSUME NEW p \in Procs, TraceData(p) PROVE TypeOK'
  BY <1>0, <1>7, UsedNodes DEF TraceData, Using, Owning
<1>8. ASSUME NEW p \in Procs, PushNext(p) PROVE TypeOK'
  <2>1. p \in Pushers /\ new_node[p] \in Nodes
    BY <1>0, <1>8, UsedNodes DEF PushNext, Owning, IInv, PlacesOK, PopLabels, LettingGo
  <2>. QED
    BY <1>0, <1>8, <2>1 DEF PushNext
<1>9. ASSUME NEW p \in Procs, PushNextTaken(p) PROVE TypeOK'
  BY <1>0, <1>9, UsedNodes DEF PushNextTaken, Using, Owning
<1>10. ASSUME NEW p \in Procs, HelpNext(p) PROVE TypeOK'
  <2>1. p \in Pushers /\ new_node[p] \in Nodes
    BY <1>0, <1>10, UsedNodes DEF HelpNext, Owning, IInv, PlacesOK, PopLabels, LettingGo
  <2>2. PICK n \in Nodes \ heap :
          /\ heap' = heap \cup {n}
          /\ data' = [data EXCEPT ![n] = NULL]
          /\ count' = [count EXCEPT ![n] = NewCount]
          /\ new_node' = [new_node EXCEPT ![p] = n]
          /\ next' = [next EXCEPT ![ptr[p]] = Link(new_node[p]), ![n] = NullPtr]
    BY <1>0, <1>10 DEF HelpNext, NewNode
  <2>3. NewCount \in node_counter
    BY DEF NewCount, node_counter
  <2>4. count' \in [Nodes -> node_counter]
    BY <1>0, <2>2, <2>3
  <2>. QED
    BY <1>0, <1>10, <2>1, <2>2, <2>4 DEF HelpNext
<1>11. ASSUME NEW p \in Procs, HelpNextTaken(p) PROVE TypeOK'
  BY <1>0, <1>11, UsedNodes DEF HelpNextTaken, Using, Owning
<1>12. ASSUME NEW p \in Procs, SetNewTail(p) PROVE TypeOK'
  BY <1>0, <1>12, UsedNodes DEF SetNewTail, Using, Owning
<1>13. ASSUME NEW p \in Procs, SetNewTailLost(p) PROVE TypeOK'
  BY <1>0, <1>13, UsedNodes DEF SetNewTailLost, Using, Owning
<1>14. ASSUME NEW p \in Procs, PopLoad(p) PROVE TypeOK'
  BY <1>0, <1>14, UsedNodes DEF PopLoad, Popping, Destroying, Using, Owning
<1>15. ASSUME NEW p \in Procs, PopIncrease(p) PROVE TypeOK'
  <2>1. head' = [head EXCEPT !.external_count = @ + 1] /\ head' \in counted_node_ptr
    BY <1>0, <1>15 DEF PopIncrease, Increase, counted_node_ptr
  <2>2. head.ptr \in Nodes \cup {NULL}
    BY <1>0 DEF counted_node_ptr
  <2>. QED
    BY <1>0, <1>15, <2>1, <2>2 DEF PopIncrease, Increase
<1>16. ASSUME NEW p \in Procs, PopReload(p) PROVE TypeOK'
  BY <1>0, <1>16, UsedNodes DEF PopReload, Reload, Using, Owning
<1>17. ASSUME NEW p \in Procs, PopEmpty(p) PROVE TypeOK'
  BY <1>0, <1>17, UsedNodes DEF PopEmpty, Using, Owning
<1>18. ASSUME NEW p \in Procs, PopNotEmpty(p) PROVE TypeOK'
  BY <1>0, <1>18, UsedNodes DEF PopNotEmpty, Using, Owning
<1>19. ASSUME NEW p \in Procs, PopHead(p) PROVE TypeOK'
  BY <1>0, <1>19, UsedNodes DEF PopHead, Using, Owning
<1>20. ASSUME NEW p \in Procs, PopHeadLost(p) PROVE TypeOK'
  BY <1>0, <1>20, UsedNodes DEF PopHeadLost, Using, Owning
<1>21. ASSUME NEW p \in Procs, PopData(p) PROVE TypeOK'
  BY <1>0, <1>21, UsedNodes DEF PopData, Using, Owning
<1>22. ASSUME NEW p \in Procs, ReleaseRef(p) PROVE TypeOK'
  <2>. DEFINE c == [count[ptr[p]] EXCEPT !.internal_count = (@ - 1) % Modulus]
  <2>1. ptr[p] \in Nodes
    BY <1>22, UsedNodes DEF ReleaseRef, Using
  <2>2. count[ptr[p]] \in node_counter
    BY <1>0, <2>1
  <2>3. (count[ptr[p]].internal_count - 1) % Modulus \in 0 .. Modulus - 1
    BY <2>2, ModulusRange DEF node_counter
  <2>4. c \in node_counter
    BY <2>2, <2>3 DEF node_counter
  <2>5. count' = [count EXCEPT ![ptr[p]] = c] /\ (Goto(p, "delete") \/ Goto(p, cont[p]))
    BY <1>22 DEF ReleaseRef
  <2>. HIDE DEF c
  <2>7. UNCHANGED <<links, heap, data, next, cont, old, ptr, push, val, client>>
    BY <1>22 DEF ReleaseRef
  <2>. QED
    BY <1>0, <2>4, <2>5, <2>7
<1>23. ASSUME NEW p \in Procs, FreeExternalCounter(p) PROVE TypeOK'
  <2>. DEFINE c == [count[ptr[p]] EXCEPT !.external_counters = (@ - 1) % 4,
                                         !.internal_count = (@ + CountIncrease(p)) % Modulus]
  <2>1. ptr[p] \in Nodes
    BY <1>23, UsedNodes DEF FreeExternalCounter, Using
  <2>2. count[ptr[p]] \in node_counter /\ old[p].external_count \in Nat
    BY <1>0, <2>1 DEF counted_node_ptr
  <2>3. (count[ptr[p]].internal_count + CountIncrease(p)) % Modulus \in 0 .. Modulus - 1
    <3>1. count[ptr[p]].internal_count \in Int /\ CountIncrease(p) \in Int
      BY <2>2 DEF node_counter, CountIncrease
    <3>2. count[ptr[p]].internal_count + CountIncrease(p) \in Int
      BY <3>1
    <3>. QED
      BY <3>2, ModulusRange
  <2>4. (count[ptr[p]].external_counters - 1) % 4 \in 0 .. 3
    BY <2>2 DEF node_counter
  <2>5. c \in node_counter
    BY <2>2, <2>3, <2>4 DEF node_counter
  <2>6. count' = [count EXCEPT ![ptr[p]] = c] /\ (Goto(p, "trace") \/ Goto(p, "trace_delete"))
    BY <1>23 DEF FreeExternalCounter
  <2>. HIDE DEF c
  <2>7. UNCHANGED <<links, heap, data, next, cont, old, ptr, push, val, client>>
    BY <1>23 DEF FreeExternalCounter
  <2>. QED
    BY <1>0, <2>5, <2>6, <2>7
<1>24. ASSUME NEW p \in Procs, TraceCount(p) PROVE TypeOK'
  BY <1>0, <1>24, UsedNodes DEF TraceCount, Using, Owning
<1>25. ASSUME NEW p \in Procs, DeleteNode(p) PROVE TypeOK'
  BY <1>0, <1>25, UsedNodes DEF DeleteNode, Using, Owning
<1>26. ASSUME NEW p \in Procs, Return(p) PROVE TypeOK'
  <2>1. p \in Threads => todo[p] \in Nat /\ todo[p] > 0
    BY <1>0, <1>26 DEF Return, IInv, PlacesOK
  <2>2. todo' \in [Threads -> Nat]
    BY <1>0, <1>26, <2>1 DEF Return
  <2>. QED
    BY <1>0, <1>26, <2>2 DEF Return
<1>. QED
  BY <1>1, <1>2, <1>3, <1>4, <1>5, <1>6, <1>7, <1>8, <1>9, <1>10, <1>11, <1>12, <1>13, <1>14, <1>15, <1>16, <1>17, <1>18, <1>19, <1>20, <1>21, <1>22, <1>23, <1>24, <1>25, <1>26
     DEF Next, Step, Push, Pop, LetGo, Terminated, OutOfMemory, CountedOut

----------------------------------------------------------------------------
(* Each thread keeps to its own operation. *)

LEMMA PlacesStep ==
  ASSUME IInv, TypeOK', NEW p \in Procs, Step(p)
  PROVE  PlacesOK'
<1>. USE QueueAssumption DEF PlacesOK, PushLabels, PopLabels, LettingGo, Procs, Threads, Goto, At,
         links, nodes, push, client
<1>0. TypeOK /\ PlacesOK
  BY DEF IInv
<1>. USE <1>0 DEF TypeOK
<1>1. CASE PushAllocate(p)
  <2>1. /\ \A q \in Procs \ {p} : new_node'[q] = new_node[q] /\ val'[q] = val[q]
        /\ p \in Pushers /\ val'[p] # NULL
    BY <1>1 DEF PushAllocate, NewNode, Pushing
  <2>. QED
    BY <1>1, <2>1 DEF PushAllocate, Pushing
<1>2. CASE PushIncrease(p)
  BY <1>2 DEF PushIncrease, Increase
<1>3. CASE PushReload(p)
  BY <1>3 DEF PushReload, Reload
<1>4. CASE PushData(p)
  BY <1>4 DEF PushData
<1>5. CASE PushDataTaken(p)
  BY <1>5 DEF PushDataTaken
<1>6. CASE TraceData(p)
  BY <1>6 DEF TraceData
<1>7. CASE PushNext(p)
  BY <1>7 DEF PushNext
<1>8. CASE PushNextTaken(p)
  BY <1>8 DEF PushNextTaken
<1>9. CASE HelpNext(p)
  <2>1. /\ \A q \in Procs \ {p} : new_node'[q] = new_node[q]
        /\ p \in Pushers
    BY <1>9 DEF HelpNext, NewNode
  <2>. QED
    BY <1>9, <2>1 DEF HelpNext
<1>10. CASE HelpNextTaken(p)
  BY <1>10 DEF HelpNextTaken
<1>11. CASE SetNewTail(p)
  BY <1>11 DEF SetNewTail
<1>12. CASE SetNewTailLost(p)
  BY <1>12 DEF SetNewTailLost
<1>13. CASE PopLoad(p)
  BY <1>13 DEF PopLoad, Popping, Destroying
<1>14. CASE PopIncrease(p)
  BY <1>14 DEF PopIncrease, Increase
<1>15. CASE PopReload(p)
  BY <1>15 DEF PopReload, Reload
<1>16. CASE PopEmpty(p)
  BY <1>16 DEF PopEmpty
<1>17. CASE PopNotEmpty(p)
  BY <1>17 DEF PopNotEmpty
<1>18. CASE PopHead(p)
  BY <1>18 DEF PopHead
<1>19. CASE PopHeadLost(p)
  BY <1>19 DEF PopHeadLost
<1>20. CASE PopData(p)
  BY <1>20 DEF PopData
<1>21. CASE ReleaseRef(p)
  BY <1>21 DEF ReleaseRef
<1>22. CASE FreeExternalCounter(p)
  BY <1>22 DEF FreeExternalCounter
<1>23. CASE TraceCount(p)
  BY <1>23 DEF TraceCount
<1>24. CASE DeleteNode(p)
  BY <1>24 DEF DeleteNode
<1>25. CASE Return(p)
  BY <1>25 DEF Return
<1>. QED
  BY <1>1, <1>2, <1>3, <1>4, <1>5, <1>6, <1>7, <1>8, <1>9, <1>10, <1>11, <1>12, <1>13, <1>14, <1>15, <1>16, <1>17, <1>18, <1>19, <1>20, <1>21, <1>22, <1>23, <1>24, <1>25 DEF Step, Push, Pop, LetGo

----------------------------------------------------------------------------
(* The rest of the invariant.  Most steps leave the two counted pointers, the *)
(* linked nodes and their counts alone.                                       *)

LEMMA SameStructure ==
  ASSUME IInv, head' = head, tail' = tail, heap' \ Private' = heap \ Private,
         \A n \in heap \ Private : count'[n] = count[n] /\ next'[n] = next[n],
         \A n \in Nodes : /\ Holders(n)' = Holders(n)
                          /\ Deleters(n)' = Deleters(n)
                          /\ TailFolders(n)' = TailFolders(n)
                          /\ HeadFolders(n)' = HeadFolders(n)
                          /\ Deleters(n) # {} => n \in heap \ Private,
         \A n \in Nodes : \A q \in TailFolders(n) \cup HeadFolders(n) : old'[q] = old[q]
  PROVE  Ahead' = Ahead /\ InQueue' = InQueue /\ ChainOK' /\ CountsOK' /\ ReclaimOK'
<1>. USE DEF IInv
<1>1. heap \ Private \subseteq Nodes /\ InQueue \subseteq heap \ Private /\ tail.ptr \in InQueue
  BY DEF TypeOK, InQueue, ChainOK, Ahead
<1>2. Ahead' = Ahead
  BY <1>1 DEF Ahead
<1>3. InQueue' = InQueue
  BY <1>1 DEF InQueue, Outstanding
<1>4. ChainOK'
  <2>1. next'[tail.ptr] = next[tail.ptr]
    BY <1>1
  <2>2. next[tail.ptr].ptr # NULL => next[tail.ptr].ptr \in InQueue
    BY DEF ChainOK, Ahead
  <2>. QED
    BY <1>1, <1>2, <1>3, <2>1, <2>2 DEF ChainOK
<1>5. CountsOK'
  <2>1. ASSUME NEW n \in heap \ Private PROVE Balanced(n)' /\ Accounted(n)'
    <3>1. n \in Nodes /\ count'[n] = count[n]
      BY <1>1
    <3>2. Users(tail, n, TailFolders(n))' = Users(tail, n, TailFolders(n))
      <4>1. {old'[q].external_count - 1 : q \in TailFolders(n)'}
              = {old[q].external_count - 1 : q \in TailFolders(n)}
        BY <3>1
      <4>. QED
        BY <3>1, <4>1 DEF Users
    <3>3. Users(head, n, HeadFolders(n))' = Users(head, n, HeadFolders(n))
      <4>1. {old'[q].external_count - 1 : q \in HeadFolders(n)'}
              = {old[q].external_count - 1 : q \in HeadFolders(n)}
        BY <3>1
      <4>. QED
        BY <3>1, <4>1 DEF Users
    <3>4. Balanced(n) /\ Accounted(n)
      BY DEF CountsOK
    <3>. QED
      BY <1>2, <1>3, <3>1, <3>2, <3>3, <3>4 DEF Balanced, Accounted
  <2>2. Ahead \subseteq Nodes
    BY <1>1 DEF ChainOK
  <2>. QED
    BY <1>2, <2>1, <2>2 DEF CountsOK
<1>6. ReclaimOK'
  BY <1>1, <1>3 DEF ReclaimOK
<1>. QED
  BY <1>2, <1>3, <1>4, <1>5, <1>6

\* A step of p between places where it uses no node.
LEMMA QuietStep ==
  ASSUME IInv, TypeOK', PlacesOK', NEW p \in Procs,
         PushReload(p) \/ PopLoad(p) \/ PopReload(p) \/ TraceCount(p) \/ Return(p)
  PROVE  IInv' /\ QueueKept
<1>. USE DEF IInv, TypeOK
<1>1. /\ UNCHANGED <<head, tail, heap, data, count, next>>
      /\ \A q \in Procs \ {p} : /\ pc'[q] = pc[q]
                                /\ cont'[q] = cont[q]
                                /\ old'[q] = old[q]
                                /\ ptr'[q] = ptr[q]
                                /\ new_node'[q] = new_node[q]
                                /\ new_tail'[q] = new_tail[q]
  BY DEF PushReload, PopLoad, PopReload, TraceCount, Return, Reload, Goto, links, nodes, push
<1>2. \/ /\ pc[p] \notin Using \cup LettingGo /\ pc'[p] \notin Using \cup LettingGo
      \/ /\ pc[p] = "trace" /\ pc'[p] = cont[p] /\ cont'[p] = cont[p]
      \/ /\ pc[p] = "trace_delete" /\ pc'[p] = "delete" /\ cont'[p] = cont[p] /\ ptr'[p] = ptr[p]
  BY DEF PushReload, PopLoad, PopReload, TraceCount, Return, Reload, Goto, links, nodes, push,
         At, Using, LettingGo, Popping, Destroying
<1>3. new_node'[p] = new_node[p] /\ (p \in Pushers => (Owning(p)' <=> Owning(p)))
  <2>1. CASE Return(p)
    BY <2>1 DEF Return, At, Goto, PlacesOK, NewNodesOK, Owning, LettingGo
  <2>2. CASE PushReload(p) \/ PopLoad(p) \/ PopReload(p) \/ TraceCount(p)
    <3>1. new_node' = new_node
      BY <2>2 DEF PushReload, PopLoad, PopReload, TraceCount, Reload, push
    <3>2. p \in Pushers => (Owning(p)' <=> Owning(p))
      BY <2>2, QueueAssumption DEF PushReload, PopLoad, PopReload, TraceCount, Reload, Goto, nodes,
            push, At, PlacesOK, Owning, LettingGo, Popping, Destroying, Threads, PushLabels
    <3>. QED
      BY <3>1, <3>2
  <2>. QED
    BY <2>1, <2>2
<1>4. new_node' = new_node /\ Private' = Private
  BY <1>1, <1>3 DEF Private
<1>5. \A n : /\ Holders(n)' = Holders(n) /\ Deleters(n)' = Deleters(n)
             /\ TailFolders(n)' = TailFolders(n) /\ HeadFolders(n)' = HeadFolders(n)
  BY <1>1, <1>2, QueueAssumption
     DEF Holders, Deleters, TailFolders, HeadFolders, Using, LettingGo, PlacesOK, Procs, Threads
<1>6. \A q \in Procs : pc'[q] \in Using =>
        pc[q] \in Using /\ ptr'[q] = ptr[q]
  BY <1>1, <1>2 DEF Using, LettingGo, PlacesOK
<1>7. \A q \in Procs : pc[q] \in Counted \/ pc'[q] \in Counted =>
        pc'[q] = pc[q] /\ ptr'[q] = ptr[q] /\ old'[q] = old[q] /\ new_tail'[q] = new_tail[q]
  BY <1>1, <1>2 DEF Using, Counted, LettingGo, PlacesOK
<1>8. Ahead' = Ahead /\ InQueue' = InQueue /\ ChainOK' /\ CountsOK' /\ ReclaimOK'
  <2>1. \A n \in Nodes : Deleters(n) # {} => n \in heap \ Private
    BY DEF UsesOK, Using, Deleters
  <2>2. \A n \in Nodes : \A q \in TailFolders(n) \cup HeadFolders(n) : old'[q] = old[q]
    BY <1>7 DEF TailFolders, HeadFolders, Counted, Procs, Threads
  <2>. QED
    BY <1>1, <1>4, <1>5, <2>1, <2>2, SameStructure
<1>9. NewNodesOK'
  <2>1. \A q \in Pushers : q # p => (Owning(q)' <=> Owning(q)) /\ pc'[q] = pc[q]
    BY <1>1 DEF Owning, Procs, Threads
  <2>2. p \in Pushers => (pc'[p] # "crashed" /\ pc[p] # "crashed")
    BY <1>2 DEF Using, PlacesOK
  <2>. QED
    BY <1>1, <1>3, <1>4, <2>1, <2>2 DEF NewNodesOK
<1>10. UsesOK'
  BY <1>1, <1>4, <1>6, <1>7, <1>8 DEF UsesOK, Counted
<1>11. DataOK'
  BY <1>1, <1>7, <1>8 DEF DataOK, Counted
<1>20. QueueKept
  BY <1>1, <1>8 DEF QueueKept
<1>. QED
  BY <1>8, <1>9, <1>10, <1>11, <1>20

\* A thread moves from one use of its node to another.
LEMMA MoveStep ==
  ASSUME IInv, TypeOK', PlacesOK', NEW p \in Procs,
         \/ PushDataTaken(p) \/ TraceData(p) \/ HelpNextTaken(p) \/ SetNewTailLost(p)
         \/ PopEmpty(p) \/ PopNotEmpty(p) \/ PopHeadLost(p)
  PROVE  IInv' /\ QueueKept
<1>. USE DEF IInv, TypeOK
<1>1. /\ UNCHANGED <<head, tail, heap, data, count, next, ptr, new_node>>
      /\ \A q \in Procs \ {p} : /\ pc'[q] = pc[q]
                                /\ cont'[q] = cont[q]
                                /\ old'[q] = old[q]
                                /\ new_tail'[q] = new_tail[q]
  BY DEF PushDataTaken, TraceData, HelpNextTaken, SetNewTailLost, PopEmpty, PopNotEmpty,
         PopHeadLost, Goto, links, nodes, push
<1>2. /\ pc[p] \in {"push_data", "push_trace", "push_help", "set_tail", "pop_tail", "pop_head"}
      /\ pc'[p] \in {"push_help", "push_next", "crashed", "set_tail", "release", "pop_head"}
  BY DEF PushDataTaken, TraceData, HelpNextTaken, SetNewTailLost, PopEmpty, PopNotEmpty,
         PopHeadLost, Goto, At
<1>3. ptr[p] \in Nodes /\ p \in Holders(ptr[p]) /\ ptr[p] \in heap \ Private
  BY <1>2 DEF UsesOK, Using, Holders
<1>4. Private' = Private
  BY <1>1 DEF Private
<1>5. \A n : /\ Holders(n)' = Holders(n) /\ Deleters(n)' = Deleters(n)
             /\ TailFolders(n)' = TailFolders(n) /\ HeadFolders(n)' = HeadFolders(n)
  BY <1>1, <1>2 DEF Holders, Deleters, TailFolders, HeadFolders, Procs, Threads
<1>6. Ahead' = Ahead /\ InQueue' = InQueue /\ ChainOK' /\ CountsOK' /\ ReclaimOK'
  <2>1. \A n \in Nodes : Deleters(n) # {} => n \in heap \ Private
    BY DEF UsesOK, Using, Deleters
  <2>2. \A n \in Nodes : \A q \in TailFolders(n) \cup HeadFolders(n) : old'[q] = old[q]
    BY <1>1, <1>2 DEF TailFolders, HeadFolders, Procs, Threads
  <2>. QED
    BY <1>1, <1>4, <1>5, <2>1, <2>2, SameStructure
<1>7. NewNodesOK'
  <2>1. \A q \in Pushers : q # p => (Owning(q)' <=> Owning(q)) /\ pc'[q] = pc[q]
    BY <1>1 DEF Owning, Procs, Threads
  <2>2. p \in Pushers /\ pc'[p] # "crashed" => (Owning(p)' <=> Owning(p))
    <3>1. CASE PushDataTaken(p) \/ TraceData(p)
      BY <3>1 DEF PushDataTaken, TraceData, Goto, At, Owning
    <3>2. CASE HelpNextTaken(p) \/ SetNewTailLost(p)
      BY <3>2 DEF HelpNextTaken, SetNewTailLost, Goto, At, Owning, LettingGo, PlacesOK
    <3>3. CASE PopEmpty(p) \/ PopNotEmpty(p) \/ PopHeadLost(p)
      BY <3>3 DEF PopEmpty, PopNotEmpty, PopHeadLost, At, PlacesOK, PushLabels, LettingGo
    <3>. QED
      BY <3>1, <3>2, <3>3
  <2>3. pc[p] # "crashed"
    BY <1>2
  <2>. QED
    BY <1>1, <1>4, <2>1, <2>2, <2>3 DEF NewNodesOK
<1>8. UsesOK'
  <2>1. pc'[p] \in Counted => old'[p].ptr = ptr[p]
    <3>1. CASE SetNewTailLost(p)
      BY <3>1 DEF SetNewTailLost, Goto, Counted
    <3>2. CASE PopHeadLost(p)
      BY <3>2 DEF PopHeadLost, Goto, Counted
    <3>3. CASE ~SetNewTailLost(p) /\ ~PopHeadLost(p)
      <4>1. old'[p] = old[p]
        BY <3>3 DEF PushDataTaken, TraceData, HelpNextTaken, PopEmpty, PopNotEmpty
      <4>2. pc[p] \in Counted
        BY <1>2 DEF Counted
      <4>. QED
        BY <4>1, <4>2 DEF UsesOK
    <3>. QED
      BY <3>1, <3>2, <3>3
  <2>2. pc'[p] = "set_tail" => new_tail'[p] = next[ptr[p]] /\ new_tail'[p].ptr # NULL
    <3>1. CASE HelpNextTaken(p)
      <4>1. next[ptr[p]] # NullPtr => next[ptr[p]].ptr # NULL
        BY <1>3 DEF ChainOK
      <4>2. next[ptr[p]] # NullPtr /\ new_tail'[p] = next[ptr[p]]
        BY <3>1 DEF HelpNextTaken
      <4>. QED
        BY <4>1, <4>2
    <3>2. CASE ~HelpNextTaken(p)
      BY <3>2 DEF PushDataTaken, TraceData, SetNewTailLost, PopEmpty, PopNotEmpty,
           PopHeadLost, Goto, At, UsesOK, push
    <3>. QED
      BY <3>1, <3>2
  <2>3. pc'[p] = "pop_head" => ptr[p] \notin Ahead
    <3>1. pc'[p] = "pop_head" => ptr[p] # tail.ptr
      BY DEF PushDataTaken, TraceData, HelpNextTaken, SetNewTailLost, PopEmpty, PopNotEmpty,
             PopHeadLost, Goto, At
    <3>2. ptr[p] # next[tail.ptr].ptr
      BY <1>3, QueueAssumption DEF ChainOK, Ahead
    <3>. QED
      BY <3>1, <3>2 DEF Ahead
  <2>4. \A q \in Procs : pc'[q] \in Using => ptr[q] \in heap \ Private
    BY <1>1, <1>3 DEF UsesOK
  <2>. QED
    BY <1>1, <1>4, <1>6, <2>1, <2>2, <2>3, <2>4 DEF UsesOK
<1>9. DataOK'
  <2>1. pc'[p] \in {"push_trace", "push_next", "push_help"} /\ ptr[p] \in InQueue => data[ptr[p]] # NULL
    BY DEF PushDataTaken, TraceData, HelpNextTaken, SetNewTailLost, PopEmpty, PopNotEmpty,
           PopHeadLost, Goto, At, DataIsFree
  <2>2. pc'[p] # "pop_data"
    BY <1>2
  <2>. QED
    BY <1>1, <1>6, <2>1, <2>2 DEF DataOK
<1>20. QueueKept
  BY <1>1, <1>6 DEF QueueKept
<1>. QED
  BY <1>6, <1>7, <1>8, <1>9, <1>20

\* A pusher puts its data into the node it holds, or the popper that has moved
\* head on takes it out.
LEMMA DataStep ==
  ASSUME IInv, TypeOK', PlacesOK', NEW p \in Procs, PushData(p) \/ PopData(p)
  PROVE  IInv' /\ QueueKept
<1>. USE DEF IInv, TypeOK
<1>1. /\ UNCHANGED <<head, tail, heap, count, next, ptr, new_node, old, new_tail>>
      /\ \A q \in Procs \ {p} : pc'[q] = pc[q] /\ cont'[q] = cont[q]
      /\ \A n \in Nodes : n # ptr[p] => data'[n] = data[n]
  BY DEF PushData, PopData, Goto, links, push
<1>2. \/ /\ PushData(p) /\ pc[p] = "push_data" /\ pc'[p] = "push_trace"
         /\ p \in Pushers /\ data'[ptr[p]] # NULL
      \/ /\ PopData(p) /\ pc[p] = "pop_data" /\ pc'[p] = "free"
         /\ p \notin Pushers /\ data'[ptr[p]] = NULL
  <2>1. ptr[p] \in Nodes
    BY UsedNodes DEF PushData, PopData, At, Using
  <2>. QED
    BY <2>1 DEF PushData, PopData, Goto, At, PlacesOK, PopLabels, PushLabels, LettingGo
<1>3. ptr[p] \in Nodes /\ p \in Holders(ptr[p]) /\ ptr[p] \in heap \ Private
  BY <1>2 DEF UsesOK, Using, Holders
<1>4. Private' = Private
  BY <1>1 DEF Private
<1>5. \A n : /\ Holders(n)' = Holders(n) /\ Deleters(n)' = Deleters(n)
             /\ TailFolders(n)' = TailFolders(n) /\ HeadFolders(n)' = HeadFolders(n)
  BY <1>1, <1>2 DEF Holders, Deleters, TailFolders, HeadFolders, Procs, Threads
<1>6. Ahead' = Ahead /\ InQueue' = InQueue /\ ChainOK' /\ CountsOK' /\ ReclaimOK'
  <2>1. \A n \in Nodes : Deleters(n) # {} => n \in heap \ Private
    BY DEF UsesOK, Using, Deleters
  <2>2. \A n \in Nodes : \A q \in TailFolders(n) \cup HeadFolders(n) : old'[q] = old[q]
    BY <1>1
  <2>. QED
    BY <1>1, <1>4, <1>5, <2>1, <2>2, SameStructure
<1>7. NewNodesOK'
  <2>1. \A q \in Pushers : q # p => (Owning(q)' <=> Owning(q)) /\ pc'[q] = pc[q]
    BY <1>1 DEF Owning, Procs, Threads
  <2>2. p \in Pushers => (Owning(p)' <=> Owning(p)) /\ pc[p] # "crashed" /\ pc'[p] # "crashed"
    BY <1>2 DEF Owning
  <2>3. \A q \in Procs : new_node[q] # NULL => new_node[q] # ptr[p]
    BY <1>3 DEF Private
  <2>. QED
    BY <1>1, <1>4, <2>1, <2>2, <2>3 DEF NewNodesOK
<1>8. UsesOK'
  BY <1>1, <1>2, <1>3, <1>4, <1>6 DEF UsesOK, Counted, Using
<1>9. DataOK'
  <2>1. CASE PushData(p)
    <3>1. pc'[p] = "push_trace" /\ data'[ptr[p]] # NULL
      BY <1>2, <2>1 DEF PushData, PopData, At
    <3>2. \A n \in Nodes : data[n] # NULL => data'[n] # NULL
      BY <1>1, <3>1
    <3>3. InQueue \subseteq Nodes
      BY DEF InQueue
    <3>4. \A q \in Procs : pc'[q] \in {"push_trace", "push_next", "push_help", "pop_data"} =>
            ptr[q] \in Nodes /\ (q = p \/ pc'[q] = pc[q])
      BY <1>1, <1>3, UsedNodes DEF Using
    <3>. QED
      BY <1>1, <1>6, <3>1, <3>2, <3>3, <3>4 DEF DataOK
  <2>2. CASE PopData(p)
    <3>1. p \in HeadFolders(ptr[p]) /\ pc[p] = "pop_data" /\ pc'[p] = "free"
      BY <1>2, <2>2 DEF HeadFolders, PushData, PopData, At
    <3>2. ptr[p] \notin InQueue
      BY <3>1 DEF InQueue
    <3>3. \A q \in Procs : pc[q] = "pop_data" /\ ptr[q] = ptr[p] => q = p
      <4>1. \A q \in Procs : pc[q] = "pop_data" => q \notin Pushers
        BY DEF PlacesOK, PushLabels, LettingGo
      <4>. QED
        BY <1>3, <3>1, <4>1 DEF CountsOK, HeadFolders
    <3>. QED
      BY <1>1, <1>3, <1>6, <3>1, <3>2, <3>3, UsedNodes DEF DataOK, Using, InQueue
  <2>. QED
    BY <2>1, <2>2
<1>20. QueueKept
  BY <1>1, <1>6 DEF QueueKept
<1>. QED
  BY <1>6, <1>7, <1>8, <1>9, <1>20

\* A pusher's new node is nobody else's; the linked nodes stay as they are.
LEMMA PushAllocateStep ==
  ASSUME IInv, TypeOK', PlacesOK', NEW p \in Procs, PushAllocate(p)
  PROVE  IInv' /\ QueueKept
<1>. USE DEF IInv, TypeOK
<1>1. PICK n \in Nodes \ heap :
        /\ heap' = heap \cup {n}
        /\ data' = [data EXCEPT ![n] = NULL]
        /\ count' = [count EXCEPT ![n] = NewCount]
        /\ new_node' = [new_node EXCEPT ![p] = n]
        /\ next' = [next EXCEPT ![n] = NullPtr]
  <2>1. PICK n \in Nodes \ heap :
          /\ heap' = heap \cup {n}
          /\ data' = [data EXCEPT ![n] = NULL]
          /\ count' = [count EXCEPT ![n] = NewCount]
          /\ new_node' = [new_node EXCEPT ![p] = n]
    BY DEF PushAllocate, NewNode
  <2>2. new_node'[p] = n
    BY <2>1
  <2>3. next' = [next EXCEPT ![n] = NullPtr]
    BY <2>2 DEF PushAllocate
  <2>. QED
    BY <2>1, <2>3
<1>2. /\ UNCHANGED <<head, tail, cont, ptr, new_tail>>
      /\ \A q \in Procs \ {p} : pc'[q] = pc[q] /\ old'[q] = old[q]
      /\ p \in Pushers /\ pc[p] = "idle" /\ pc'[p] = "push_increase"
  BY DEF PushAllocate, Pushing, At, Goto, links
<1>3. new_node[p] = NULL /\ \A q \in Procs : new_node[q] # n
  <2>1. ~ Owning(p)
    BY <1>2 DEF Owning, LettingGo
  <2>2. new_node[p] = NULL
    BY <1>2, <2>1 DEF NewNodesOK
  <2>3. \A q \in Procs : new_node[q] # n
    BY <1>1, QueueAssumption DEF NewNodesOK
  <2>. QED
    BY <2>2, <2>3
<1>4. Private' = Private \cup {n} /\ Private \subseteq heap
  <2>1. Private \subseteq heap
    BY DEF Private, NewNodesOK
  <2>. QED
    BY <1>1, <1>3, <2>1, QueueAssumption DEF Private
<1>5. \A m : /\ Holders(m)' = Holders(m) /\ Deleters(m)' = Deleters(m)
             /\ TailFolders(m)' = TailFolders(m) /\ HeadFolders(m)' = HeadFolders(m)
  BY <1>2 DEF Holders, Deleters, TailFolders, HeadFolders, Procs, Threads
<1>6. heap' \ Private' = heap \ Private /\ n \notin heap
  BY <1>1, <1>4
<1>7. Ahead' = Ahead /\ InQueue' = InQueue /\ ChainOK' /\ CountsOK' /\ ReclaimOK'
  <2>1. \A m \in Nodes : Deleters(m) # {} => m \in heap \ Private
    BY DEF UsesOK, Using, Deleters
  <2>2. \A m \in Nodes : \A q \in TailFolders(m) \cup HeadFolders(m) : old'[q] = old[q]
    BY <1>2 DEF TailFolders, HeadFolders, Procs, Threads
  <2>3. \A m \in heap \ Private : count'[m] = count[m] /\ next'[m] = next[m]
    BY <1>1
  <2>. QED
    BY <1>2, <1>5, <1>6, <2>1, <2>2, <2>3, SameStructure
<1>8. NewNodesOK'
  <2>1. \A q \in Pushers : q # p => (Owning(q)' <=> Owning(q)) /\ pc'[q] = pc[q]
    BY <1>2 DEF Owning, Procs, Threads
  <2>2. Owning(p)' /\ new_node'[p] # NULL
    BY <1>1, <1>2, QueueAssumption DEF Owning
  <2>3. \A q \in Pushers : pc'[q] # "crashed" => (Owning(q)' <=> new_node'[q] # NULL)
    BY <1>1, <2>1, <2>2 DEF NewNodesOK
  <2>4. \A q \in Procs : new_node'[q] # NULL =>
          /\ new_node'[q] \in heap'
          /\ count'[new_node'[q]] = NewCount
          /\ data'[new_node'[q]] = NULL
          /\ next'[new_node'[q]] = NullPtr
    BY <1>1, <1>3 DEF NewNodesOK
  <2>5. \A q, r \in Procs : new_node'[q] # NULL /\ new_node'[q] = new_node'[r] => q = r
    BY <1>1, <1>3 DEF NewNodesOK
  <2>. QED
    BY <2>3, <2>4, <2>5 DEF NewNodesOK
<1>9. UsesOK'
  <2>1. \A q \in Procs : pc'[q] \in Using \cup Counted =>
          q # p /\ pc'[q] = pc[q] /\ ptr[q] \in heap \ Private
    BY <1>2 DEF Using, Counted, UsesOK
  <2>. QED
    BY <1>1, <1>2, <1>6, <1>7, <2>1 DEF UsesOK, Using, Counted
<1>10. DataOK'
  <2>1. \A q \in Procs : pc'[q] \in {"push_trace", "push_next", "push_help", "pop_data"} =>
          q # p /\ pc'[q] = pc[q] /\ ptr[q] \in heap
    BY <1>2 DEF Using, UsesOK
  <2>2. InQueue \subseteq heap
    BY DEF InQueue
  <2>. QED
    BY <1>1, <1>2, <1>7, <2>1, <2>2 DEF DataOK
<1>20. QueueKept
  <2>1. InQueue \subseteq heap
    BY DEF InQueue
  <2>. QED
    BY <1>1, <1>2, <1>7, <2>1 DEF QueueKept
<1>. QED
  BY <1>7, <1>8, <1>9, <1>10, <1>20

\* A helper has linked its node first: the pusher frees its own.
LEMMA PushNextTakenStep ==
  ASSUME IInv, TypeOK', PlacesOK', NEW p \in Procs, PushNextTaken(p)
  PROVE  IInv' /\ QueueKept
<1>. USE DEF IInv, TypeOK
<1>1. /\ UNCHANGED <<head, tail, data, count, next, cont, old, ptr>>
      /\ \A q \in Procs \ {p} : /\ pc'[q] = pc[q]
                                /\ new_node'[q] = new_node[q]
                                /\ new_tail'[q] = new_tail[q]
      /\ pc[p] = "push_next" /\ pc'[p] = "set_tail"
      /\ heap' = heap \ {new_node[p]}
      /\ new_node'[p] = NULL
      /\ new_tail'[p] = next[ptr[p]] /\ next[ptr[p]] # NullPtr
  BY DEF PushNextTaken, At, Goto, links
<1>2. p \in Pushers /\ cont[p] = "return"
  BY <1>1 DEF PlacesOK, PopLabels, LettingGo
<1>3. new_node[p] \in Private /\ new_node[p] # NULL
  BY <1>1, <1>2 DEF NewNodesOK, Owning, Private
<1>4. ptr[p] \in Nodes /\ ptr[p] \in heap \ Private
  BY <1>1, UsedNodes DEF Using
<1>5. Private' = Private \ {new_node[p]}
  BY <1>1, <1>3 DEF Private, NewNodesOK
<1>6. heap' \ Private' = heap \ Private
  BY <1>1, <1>3, <1>5
<1>7. \A m : /\ Holders(m)' = Holders(m) /\ Deleters(m)' = Deleters(m)
             /\ TailFolders(m)' = TailFolders(m) /\ HeadFolders(m)' = HeadFolders(m)
  BY <1>1 DEF Holders, Deleters, TailFolders, HeadFolders, Procs, Threads
<1>8. Ahead' = Ahead /\ InQueue' = InQueue /\ ChainOK' /\ CountsOK' /\ ReclaimOK'
  <2>1. \A m \in Nodes : Deleters(m) # {} => m \in heap \ Private
    BY DEF UsesOK, Using, Deleters
  <2>. QED
    BY <1>1, <1>6, <1>7, <2>1, SameStructure
<1>9. NewNodesOK'
  <2>1. \A q \in Pushers : q # p => (Owning(q)' <=> Owning(q)) /\ pc'[q] = pc[q]
    BY <1>1 DEF Owning, Procs, Threads
  <2>2. ~ Owning(p)'
    BY <1>1, <1>2 DEF Owning
  <2>3. \A q \in Pushers : pc'[q] # "crashed" => (Owning(q)' <=> new_node'[q] # NULL)
    <3>1. Pushers \subseteq Procs
      BY DEF Procs, Threads
    <3>. QED
      BY <1>1, <2>1, <2>2, <3>1 DEF NewNodesOK
  <2>4. \A q \in Procs : new_node'[q] # NULL => q # p /\ new_node'[q] = new_node[q]
    BY <1>1
  <2>. QED
    BY <1>1, <1>3, <2>3, <2>4 DEF NewNodesOK
<1>10. UsesOK'
  <2>1. new_tail'[p].ptr # NULL
    BY <1>1, <1>4 DEF ChainOK
  <2>2. old[p].ptr = ptr[p]
    BY <1>1 DEF UsesOK, Counted
  <2>3. \A q \in Procs : pc'[q] \in Using => ptr[q] \in heap \ Private
    BY <1>1, <1>4 DEF UsesOK
  <2>. QED
    BY <1>1, <1>6, <1>8, <2>1, <2>2, <2>3 DEF UsesOK
<1>11. DataOK'
  BY <1>1, <1>8 DEF DataOK
<1>20. QueueKept
  BY <1>1, <1>8 DEF QueueKept
<1>. QED
  BY <1>8, <1>9, <1>10, <1>11, <1>20

----------------------------------------------------------------------------
(* The steps that change a counted pointer, a link or a count. *)

\* Where the nodes named by the two counted pointers and the links are, and that
\* a node somebody is about to delete is none of them.
LEMMA Shape ==
  ASSUME IInv
  PROVE  /\ heap \ Private \subseteq Nodes
         /\ InQueue \subseteq heap \ Private
         /\ head.ptr \in InQueue /\ tail.ptr \in InQueue /\ tail.ptr \in Ahead
         /\ next[tail.ptr].ptr # NULL => next[tail.ptr].ptr \in InQueue \cap Ahead
         /\ \A n \in Nodes : Deleters(n) # {} => n \in (heap \ Private) \ InQueue
<1>. USE DEF IInv, TypeOK
<1>1. heap \ Private \subseteq Nodes /\ InQueue \subseteq heap \ Private
  BY DEF InQueue
<1>2. head.ptr \in InQueue /\ tail.ptr \in InQueue /\ tail.ptr \in Ahead
  BY DEF ChainOK, Ahead
<1>3. next[tail.ptr].ptr # NULL => next[tail.ptr].ptr \in InQueue \cap Ahead
  BY DEF ChainOK, Ahead
<1>4. ASSUME NEW n \in Nodes, Deleters(n) # {} PROVE n \in (heap \ Private) \ InQueue
  <2>1. n \in heap \ Private
    BY <1>4 DEF UsesOK, Using, Deleters
  <2>2. count[n].external_counters = 0
    BY <1>4 DEF ReclaimOK, Unused
  <2>3. n \notin InQueue
    BY <2>2 DEF InQueue, Outstanding
  <2>. QED
    BY <2>1, <2>3
<1>. QED
  BY <1>1, <1>2, <1>3, <1>4

LEMMA UsersInt ==
  ASSUME TypeOK, NEW n \in Nodes
  PROVE  /\ Users(tail, n, TailFolders(n)) \subseteq Int
         /\ Users(head, n, HeadFolders(n)) \subseteq Int
BY DEF TypeOK, counted_node_ptr, Users, TailFolders, HeadFolders, Procs, Threads

LEMMA SameUsers ==
  ASSUME NEW n,
         tail.ptr = n \/ tail'.ptr = n => tail' = tail,
         head.ptr = n \/ head'.ptr = n => head' = head,
         TailFolders(n)' = TailFolders(n), HeadFolders(n)' = HeadFolders(n),
         \A q \in TailFolders(n) \cup HeadFolders(n) : old'[q] = old[q]
  PROVE  /\ Users(tail, n, TailFolders(n))' = Users(tail, n, TailFolders(n))
         /\ Users(head, n, HeadFolders(n))' = Users(head, n, HeadFolders(n))
<1>1. {old'[q].external_count - 1 : q \in TailFolders(n)'} = {old[q].external_count - 1 : q \in TailFolders(n)}
  OBVIOUS
<1>2. {old'[q].external_count - 1 : q \in HeadFolders(n)'} = {old[q].external_count - 1 : q \in HeadFolders(n)}
  OBVIOUS
<1>. QED
  BY <1>1, <1>2 DEF Users

\* A new holder of the node tail or head leads to, counted in there.
LEMMA IncreaseStep ==
  ASSUME IInv, TypeOK', PlacesOK', NEW p \in Procs, PushIncrease(p) \/ PopIncrease(p)
  PROVE  IInv' /\ QueueKept
<1>. USE DEF IInv, TypeOK
<1>. PICK n : n = ptr'[p]
  OBVIOUS
<1>1. /\ UNCHANGED <<heap, data, count, next, new_node, new_tail, cont>>
      /\ \A q \in Procs \ {p} : pc'[q] = pc[q] /\ old'[q] = old[q] /\ ptr'[q] = ptr[q]
      /\ pc[p] \in {"push_increase", "pop_increase"}
      /\ pc'[p] \in {"push_data", "pop_tail"}
      /\ old'[p].ptr = n
  BY DEF PushIncrease, PopIncrease, Increase, Goto, At, nodes, push, counted_node_ptr
<1>2. \/ /\ n = tail.ptr /\ head' = head
         /\ tail'.ptr = tail.ptr /\ tail'.external_count = tail.external_count + 1
      \/ /\ n = head.ptr /\ tail' = tail
         /\ head'.ptr = head.ptr /\ head'.external_count = head.external_count + 1
  BY DEF PushIncrease, PopIncrease, Increase, counted_node_ptr
<1>3. n \in InQueue /\ n \in Nodes /\ n # NULL /\ n \in heap \ Private
  BY <1>2, Shape, QueueAssumption
<1>4. next[tail.ptr].ptr # NULL => n # next[tail.ptr].ptr
  <2>1. tail.ptr # next[tail.ptr].ptr
    BY Shape, QueueAssumption DEF ChainOK
  <2>2. head.ptr # next[tail.ptr].ptr
    BY Shape DEF ChainOK
  <2>. QED
    BY <1>2, <2>1, <2>2
<1>5. ptr'[p] = n
  OBVIOUS
<1>6. \A m : /\ m # n => Holders(m)' = Holders(m)
             /\ Deleters(m)' = Deleters(m)
             /\ TailFolders(m)' = TailFolders(m) /\ HeadFolders(m)' = HeadFolders(m)
  BY <1>1, <1>5 DEF Holders, Deleters, TailFolders, HeadFolders, Procs, Threads
<1>7. Holders(n)' = Holders(n) \cup {p} /\ p \notin Holders(n)
  BY <1>1, <1>5 DEF Holders
<1>8. Private' = Private
  BY <1>1 DEF Private
<1>9. Ahead' = Ahead /\ InQueue' = InQueue
  BY <1>1, <1>2, <1>6, <1>8, Shape DEF Ahead, InQueue, Outstanding
<1>10. ChainOK'
  BY <1>1, <1>2, <1>4, <1>6, <1>8, <1>9 DEF ChainOK
<1>11. ASSUME NEW m \in heap \ Private PROVE Balanced(m)'
  <2>1. m \in Nodes
    OBVIOUS
  <2>2. \A q \in TailFolders(m) \cup HeadFolders(m) : old'[q] = old[q]
    BY <1>1 DEF TailFolders, HeadFolders, Procs, Threads
  <2>3. ASSUME m # n PROVE Balanced(m)'
    <3>1. /\ Users(tail, m, TailFolders(m))' = Users(tail, m, TailFolders(m))
          /\ Users(head, m, HeadFolders(m))' = Users(head, m, HeadFolders(m))
      <4>1. /\ tail.ptr = m \/ tail'.ptr = m => tail' = tail
            /\ head.ptr = m \/ head'.ptr = m => head' = head
        BY <1>2, <2>3
      <4>. QED
        BY <1>6, <2>2, <4>1, SameUsers
    <3>. QED
      BY <1>1, <1>6, <2>3, <3>1 DEF Balanced, CountsOK
  <2>4. ASSUME m = n PROVE Balanced(m)'
    <3>. SUFFICES ASSUME NEW t \in Users(tail, n, TailFolders(n))',
                         NEW h \in Users(head, n, HeadFolders(n))'
                  PROVE  count'[n].internal_count = (Cardinality(Holders(n)') - t - h) % Modulus
      BY <2>4 DEF Balanced
    <3>1. /\ Cardinality(Holders(n)') = Cardinality(Holders(n)) + 1
          /\ Cardinality(Holders(n)) \in Nat
      BY <1>3, <1>7, HoldersFinite, CardinalityAdd
    <3>2. \/ /\ t - 1 \in Users(tail, n, TailFolders(n)) /\ t \in Int
             /\ h \in Users(head, n, HeadFolders(n))
          \/ /\ h - 1 \in Users(head, n, HeadFolders(n)) /\ h \in Int
             /\ t \in Users(tail, n, TailFolders(n))
      BY <1>2, <1>6, <2>2, <2>4 DEF Users, counted_node_ptr
    <3>3. \A a \in Users(tail, n, TailFolders(n)), b \in Users(head, n, HeadFolders(n)) :
            /\ count[n].internal_count = (Cardinality(Holders(n)) - a - b) % Modulus
            /\ a \in Int /\ b \in Int
      BY <1>3, UsersInt DEF CountsOK, Balanced
    <3>4. CASE t - 1 \in Users(tail, n, TailFolders(n)) /\ t \in Int /\ h \in Users(head, n, HeadFolders(n))
      <4>1. /\ count[n].internal_count = (Cardinality(Holders(n)) - (t - 1) - h) % Modulus
            /\ h \in Int
        BY <3>3, <3>4
      <4>2. Cardinality(Holders(n)) - (t - 1) - h = Cardinality(Holders(n)') - t - h
        BY <3>1, <3>4, <4>1
      <4>. QED
        BY <1>1, <4>1, <4>2
    <3>5. CASE h - 1 \in Users(head, n, HeadFolders(n)) /\ h \in Int /\ t \in Users(tail, n, TailFolders(n))
      <4>1. /\ count[n].internal_count = (Cardinality(Holders(n)) - t - (h - 1)) % Modulus
            /\ t \in Int
        BY <3>3, <3>5
      <4>2. Cardinality(Holders(n)) - t - (h - 1) = Cardinality(Holders(n)') - t - h
        BY <3>1, <3>5, <4>1
      <4>. QED
        BY <1>1, <4>1, <4>2
    <3>. QED
      BY <3>2, <3>4, <3>5
  <2>. QED
    BY <2>3, <2>4
<1>12. CountsOK'
  <2>1. \A m \in heap \ Private : Accounted(m)'
    BY <1>1, <1>6, <1>9 DEF CountsOK, Accounted
  <2>. QED
    BY <1>1, <1>6, <1>8, <1>9, <1>11, <2>1 DEF CountsOK
<1>13. ReclaimOK'
  <2>1. Deleters(n) = {}
    BY <1>3, Shape
  <2>. QED
    BY <1>1, <1>3, <1>6, <1>8, <1>9, <2>1 DEF ReclaimOK
<1>14. NewNodesOK'
  <2>1. \A q \in Pushers : (Owning(q)' <=> Owning(q)) /\ (pc'[q] = "crashed" <=> pc[q] = "crashed")
    BY <1>1 DEF Owning, Procs, Threads, PlacesOK, LettingGo, PushLabels
  <2>. QED
    BY <1>1, <2>1 DEF NewNodesOK
<1>15. UsesOK'
  BY <1>1, <1>3, <1>5, <1>8, <1>9 DEF UsesOK
<1>16. DataOK'
  BY <1>1, <1>9 DEF DataOK
<1>20. QueueKept
  BY <1>1, <1>2, <1>9 DEF QueueKept
<1>. QED
  BY <1>10, <1>12, <1>13, <1>14, <1>15, <1>16, <1>20

\* A pusher links the node it owns, or helps with it, behind the last one.
LEMMA LinkFacts ==
  ASSUME IInv, NEW p \in Procs, PushNext(p) \/ HelpNext(p)
  PROVE  /\ p \in Pushers /\ pc[p] \in {"push_next", "push_help"} /\ pc'[p] = "set_tail"
         /\ ptr[p] = tail.ptr /\ ptr[p] \in Nodes /\ next[ptr[p]] = NullPtr
         /\ Ahead = {ptr[p]} /\ data[ptr[p]] # NULL
         /\ new_node[p] \in Nodes /\ new_node[p] # NULL /\ new_node[p] \in heap \cap Private
         /\ Holders(new_node[p]) = {} /\ Deleters(new_node[p]) = {}
         /\ TailFolders(new_node[p]) = {} /\ HeadFolders(new_node[p]) = {}
<1>. USE DEF IInv, TypeOK
<1>1. /\ pc[p] \in {"push_next", "push_help"} /\ pc'[p] = "set_tail"
      /\ next[ptr[p]] = NullPtr
  BY DEF PushNext, HelpNext, At, Goto
<1>2. p \in Pushers
  BY <1>1 DEF PlacesOK, PopLabels, LettingGo
<1>3. ptr[p] \in Nodes /\ ptr[p] \in heap \ Private /\ p \in Holders(ptr[p]) /\ ptr[p] # NULL
  BY <1>1, UsedNodes DEF Using, Holders
<1>4. ptr[p] = tail.ptr
  <2>1. ptr[p] \in Ahead
    BY <1>1, <1>3 DEF ChainOK, NullPtr
  <2>2. ptr[p] # next[tail.ptr].ptr
    BY <1>3, Shape DEF ChainOK
  <2>. QED
    BY <2>1, <2>2 DEF Ahead
<1>5. Ahead = {ptr[p]}
  BY <1>1, <1>3, <1>4 DEF Ahead, NullPtr
<1>6. data[ptr[p]] # NULL
  BY <1>1, <1>4, Shape DEF DataOK
<1>7. new_node[p] \in Nodes /\ new_node[p] # NULL /\ new_node[p] \in heap \cap Private
  BY <1>1, <1>2 DEF NewNodesOK, Owning, Private
<1>8. \A q \in Procs : pc[q] \in Using => ptr[q] # new_node[p]
  BY <1>7, UsedNodes
<1>9. /\ Holders(new_node[p]) = {} /\ Deleters(new_node[p]) = {}
      /\ TailFolders(new_node[p]) = {} /\ HeadFolders(new_node[p]) = {}
  BY <1>8 DEF Using, Holders, Deleters, TailFolders, HeadFolders, Procs, Threads
<1>. QED
  BY <1>1, <1>2, <1>3, <1>4, <1>5, <1>6, <1>7, <1>9

LEMMA LinkStructure ==
  ASSUME IInv, NEW u \in Nodes, NEW m \in Nodes, NEW p \in Procs,
         u = tail.ptr, Ahead = {u}, next[u] = NullPtr, m \in Private,
         count[m] = NewCount, next[m] = NullPtr,
         Holders(m) = {}, Deleters(m) = {}, TailFolders(m) = {}, HeadFolders(m) = {},
         head' = head, tail' = tail, old' = old, heap' \ Private' = (heap \ Private) \cup {m},
         \A n \in (heap \ Private) \cup {m} :
           count'[n] = count[n] /\ next'[n] = IF n = u THEN Link(m) ELSE next[n],
         \A n \in Nodes : /\ Holders(n)' = Holders(n)
                          /\ Deleters(n)' = Deleters(n)
                          /\ TailFolders(n)' = TailFolders(n)
                          /\ HeadFolders(n)' = HeadFolders(n)
  PROVE  Ahead' = {u, m} /\ InQueue' = InQueue \cup {m} /\ ChainOK' /\ CountsOK' /\ ReclaimOK'
<1>. USE DEF IInv
<1>1. m \notin heap \ Private /\ m # NULL /\ m # u /\ u # NULL /\ u \in heap \ Private
  BY Shape, QueueAssumption
<1>2. next'[u].ptr = m /\ next'[m].ptr = NULL
  BY <1>1, Shape DEF Link, NullPtr
<1>3. Ahead' = {u, m}
  BY <1>1, <1>2 DEF Ahead
<1>4. InQueue' = InQueue \cup {m}
  <2>1. count'[m].external_counters = 2
    BY DEF NewCount
  <2>2. m \in InQueue'
    BY <2>1 DEF InQueue, Outstanding
  <2>3. \A n \in heap \ Private : n \in InQueue' <=> n \in InQueue
    BY Shape DEF InQueue, Outstanding
  <2>4. InQueue' \subseteq (heap \ Private) \cup {m}
    BY DEF InQueue
  <2>. QED
    BY <2>2, <2>3, <2>4, Shape
<1>5. ChainOK'
  <2>1. head'.ptr \in InQueue' /\ Ahead' \subseteq InQueue' /\ tail'.ptr # NULL
    BY <1>1, <1>3, <1>4, Shape
  <2>2. ASSUME NEW n \in heap' \ Private'
        PROVE  /\ next'[n].ptr # NULL => next'[n] = Link(next'[n].ptr)
               /\ next'[n].ptr = NULL => next'[n] = NullPtr /\ n \in Ahead'
    <3>1. CASE n = u
      BY <1>1, <1>2, <3>1
    <3>2. CASE n = m
      BY <1>1, <1>2, <1>3, <3>2 DEF NullPtr
    <3>3. CASE n \in heap \ Private /\ n # u
      BY <1>1, <3>3 DEF ChainOK
    <3>. QED
      BY <3>1, <3>2, <3>3
  <2>3. \A n \in InQueue' \ Ahead' : n \in InQueue \ Ahead /\ next'[n] = next[n]
    BY <1>1, <1>3, <1>4, Shape
  <2>4. \A n \in InQueue' : n = u \/ n = m \/ (n \in InQueue \ Ahead /\ next'[n] = next[n])
    BY <1>3, <2>3
  <2>5. \A n \in InQueue \ Ahead : next[n].ptr \in InQueue /\ next[n].ptr # m
    BY <1>1, Shape DEF ChainOK
  <2>6. \A n1, n2 \in InQueue' : next'[n1].ptr # NULL /\ next'[n1].ptr = next'[n2].ptr => n1 = n2
    BY <1>1, <1>2, <2>4, <2>5 DEF ChainOK
  <2>7. \A n \in InQueue' : next'[n].ptr # head'.ptr
    BY <1>1, <1>2, <2>4, Shape DEF ChainOK
  <2>8. \A n \in InQueue' : n = next'[tail'.ptr].ptr => next'[n].ptr = NULL /\ Holders(n)' = {}
    BY <1>2
  <2>. QED
    BY <1>4, <2>1, <2>2, <2>3, <2>5, <2>6, <2>7, <2>8 DEF ChainOK
<1>6. ASSUME NEW n \in heap' \ Private' PROVE Balanced(n)' /\ Accounted(n)'
  <2>1. n \in Nodes /\ count'[n] = count[n]
    BY Shape
  <2>2. /\ Users(tail, n, TailFolders(n))' = Users(tail, n, TailFolders(n))
        /\ Users(head, n, HeadFolders(n))' = Users(head, n, HeadFolders(n))
    BY <2>1, SameUsers
  <2>3. CASE n \in heap \ Private
    <3>1. Balanced(n) /\ Accounted(n)
      BY <2>3 DEF CountsOK
    <3>2. n \in InQueue' <=> n \in InQueue
      BY <1>1, <1>4, <2>3
    <3>3. n \in Ahead' <=> n \in Ahead
      BY <1>1, <1>3, <2>3
    <3>. QED
      BY <2>1, <2>2, <3>1, <3>2, <3>3 DEF Balanced, Accounted
  <2>4. CASE n = m
    <3>1. tail.ptr # m /\ head.ptr # m
      BY <1>1, Shape
    <3>2. /\ Users(tail, n, TailFolders(n)) = {0}
          /\ Users(head, n, HeadFolders(n)) = {0}
      BY <2>4, <3>1 DEF Users
    <3>3. Cardinality({}) = 0 /\ 0 % Modulus = 0
      BY FS_EmptySet, QueueAssumption
    <3>4. count'[n].internal_count = 0 /\ count'[n].external_counters = 2
      BY <2>1, <2>4 DEF NewCount
    <3>5. Holders(n)' = {} /\ TailFolders(n)' = {} /\ HeadFolders(n)' = {}
      BY <2>1, <2>4
    <3>6. Balanced(n)'
      <4>1. \A t \in Users(tail, n, TailFolders(n))', h \in Users(head, n, HeadFolders(n))' :
              t = 0 /\ h = 0
        BY <2>2, <3>2
      <4>. QED
        BY <3>3, <3>4, <3>5, <4>1 DEF Balanced
    <3>7. Accounted(n)'
      BY <1>3, <1>4, <2>4, <3>4, <3>5 DEF Accounted
    <3>. QED
      BY <3>6, <3>7
  <2>. QED
    BY <2>3, <2>4
<1>7. CountsOK'
  <2>1. \A n \in Ahead' : TailFolders(n)' = {}
    BY <1>3 DEF CountsOK
  <2>. QED
    BY <1>6, <2>1 DEF CountsOK
<1>8. ReclaimOK'
  BY <1>1, <1>4, Shape DEF ReclaimOK
<1>. QED
  BY <1>3, <1>4, <1>5, <1>7, <1>8

LEMMA PushNextStep ==
  ASSUME IInv, TypeOK', PlacesOK', NEW p \in Procs, PushNext(p)
  PROVE  IInv' /\ NodeLinked
<1>. USE DEF IInv, TypeOK
<1>. PICK u, m : u = ptr[p] /\ m = new_node[p]
  OBVIOUS
<1>1. /\ p \in Pushers /\ pc[p] = "push_next" /\ pc'[p] = "set_tail"
      /\ u = tail.ptr /\ u \in Nodes /\ next[u] = NullPtr
      /\ Ahead = {u} /\ data[u] # NULL
      /\ m \in Nodes /\ m # NULL /\ m \in heap \cap Private
      /\ Holders(m) = {} /\ Deleters(m) = {}
      /\ TailFolders(m) = {} /\ HeadFolders(m) = {}
  BY LinkFacts DEF PushNext, At
<1>2. /\ UNCHANGED <<head, tail, heap, data, count, cont, old, ptr>>
      /\ \A q \in Procs \ {p} : /\ pc'[q] = pc[q]
                                /\ new_node'[q] = new_node[q]
                                /\ new_tail'[q] = new_tail[q]
      /\ new_node'[p] = NULL
      /\ new_tail'[p] = Link(m)
      /\ next' = [next EXCEPT ![u] = Link(m)]
  BY DEF PushNext, Goto, links
<1>3. Private' = Private \ {m}
  BY <1>1, <1>2 DEF Private, NewNodesOK
<1>4. count[m] = NewCount /\ next[m] = NullPtr /\ data[m] = NULL
  BY <1>1 DEF NewNodesOK
<1>5. heap' \ Private' = (heap \ Private) \cup {m}
  BY <1>1, <1>2, <1>3
<1>6. \A n : /\ Holders(n)' = Holders(n) /\ Deleters(n)' = Deleters(n)
             /\ TailFolders(n)' = TailFolders(n) /\ HeadFolders(n)' = HeadFolders(n)
  BY <1>1, <1>2 DEF Holders, Deleters, TailFolders, HeadFolders, Procs, Threads
<1>7. Ahead' = {u, m} /\ InQueue' = InQueue \cup {m} /\ ChainOK' /\ CountsOK' /\ ReclaimOK'
  <2>1. \A n \in (heap \ Private) \cup {m} :
          count'[n] = count[n] /\ next'[n] = IF n = u THEN Link(m) ELSE next[n]
    BY <1>1, <1>2, Shape
  <2>. QED
    BY <1>1, <1>2, <1>4, <1>5, <1>6, <2>1, LinkStructure
<1>8. \A q \in Procs : pc'[q] \in Using =>
        ptr[q] \in heap \ Private /\ ptr[q] # m /\ (q = p \/ pc'[q] = pc[q])
  BY <1>1, <1>2 DEF UsesOK, Using
<1>9. NewNodesOK'
  <2>1. \A q \in Pushers : q # p => (Owning(q)' <=> Owning(q)) /\ pc'[q] = pc[q]
    BY <1>2 DEF Owning, Procs, Threads
  <2>2. ~ Owning(p)' /\ pc'[p] # "crashed"
    BY <1>1, <1>2 DEF Owning, PlacesOK
  <2>3. \A q \in Pushers : pc'[q] # "crashed" => (Owning(q)' <=> new_node'[q] # NULL)
    <3>1. Pushers \subseteq Procs
      BY DEF Procs, Threads
    <3>. QED
      BY <1>2, <2>1, <2>2, <3>1 DEF NewNodesOK
  <2>4. \A q \in Procs : new_node'[q] # NULL =>
          q # p /\ new_node'[q] = new_node[q] /\ new_node[q] # u
    <3>1. \A q \in Procs : new_node[q] # NULL => new_node[q] \in Private
      BY DEF Private
    <3>2. u \notin Private
      BY <1>1, Shape
    <3>. QED
      BY <1>2, <3>1, <3>2
  <2>5. \A q \in Procs : new_node'[q] # NULL => next'[new_node'[q]] = next[new_node[q]]
    BY <1>2, <2>4
  <2>. QED
    BY <1>2, <2>3, <2>4, <2>5 DEF NewNodesOK
<1>10. UsesOK'
  <2>1. \A q \in Procs : pc'[q] = "set_tail" => new_tail'[q] = next'[ptr[q]] /\ new_tail'[q].ptr # NULL
    <3>1. CASE \A q \in Procs : pc[q] = "set_tail" => ptr[q] # u
      <4>1. next'[u] = Link(m) /\ Link(m).ptr = m
        BY <1>1, <1>2, Shape DEF Link
      <4>2. new_tail'[p] = next'[ptr[p]] /\ new_tail'[p].ptr # NULL
        BY <1>1, <1>2, <4>1
      <4>3. ASSUME NEW q \in Procs, q # p, pc'[q] = "set_tail"
            PROVE  new_tail'[q] = next'[ptr[q]] /\ new_tail'[q].ptr # NULL
        <5>1. /\ pc[q] = "set_tail" /\ new_tail'[q] = new_tail[q] /\ ptr[q] # u
              /\ ptr[q] \in heap
          BY <1>2, <3>1, <4>3, UsedNodes DEF Using
        <5>2. next'[ptr[q]] = next[ptr[q]]
          BY <1>2, <5>1
        <5>. QED
          BY <5>1, <5>2 DEF UsesOK
      <4>. QED
        BY <4>2, <4>3
    <3>2. ASSUME NEW q \in Procs, pc[q] = "set_tail", ptr[q] = u PROVE FALSE
      BY <1>1, <3>2 DEF UsesOK, NullPtr
    <3>. QED
      BY <3>1, <3>2
  <2>2. \A q \in Procs : pc'[q] = "pop_head" => ptr[q] \notin {u, m}
    BY <1>1, <1>2, <1>8 DEF UsesOK, Using
  <2>3. \A q \in Procs : pc'[q] \in Counted => old[q].ptr = ptr[q]
    BY <1>1, <1>2 DEF UsesOK, Counted
  <2>. QED
    BY <1>2, <1>5, <1>7, <1>8, <2>1, <2>2, <2>3 DEF UsesOK
<1>11. DataOK'
  <2>1. \A n \in InQueue : next'[n].ptr # NULL => data[n] # NULL
    BY <1>1, <1>2, Shape DEF DataOK
  <2>2. next'[m].ptr = NULL
    BY <1>1, <1>2, <1>4, Shape DEF NullPtr
  <2>3. \A q \in Procs : pc'[q] \in {"push_trace", "push_next", "push_help", "pop_data"} =>
          ptr[q] # m /\ pc'[q] = pc[q]
    BY <1>1, <1>2, <1>8 DEF Using
  <2>. QED
    BY <1>2, <1>7, <2>1, <2>2, <2>3 DEF DataOK
<1>20. NodeLinked
  BY <1>1, <1>2, <1>7, Shape DEF NodeLinked, NullPtr, Link
<1>. QED
  BY <1>7, <1>9, <1>10, <1>11, <1>20

LEMMA HelpNextStep ==
  ASSUME IInv, TypeOK', PlacesOK', NEW p \in Procs, HelpNext(p)
  PROVE  IInv' /\ NodeLinked
<1>. USE DEF IInv, TypeOK
<1>. PICK u, m : u = ptr[p] /\ m = new_node[p]
  OBVIOUS
<1>1. /\ p \in Pushers /\ pc[p] = "push_help" /\ pc'[p] = "set_tail"
      /\ u = tail.ptr /\ u \in Nodes /\ next[u] = NullPtr
      /\ Ahead = {u} /\ data[u] # NULL
      /\ m \in Nodes /\ m # NULL /\ m \in heap \cap Private
      /\ Holders(m) = {} /\ Deleters(m) = {}
      /\ TailFolders(m) = {} /\ HeadFolders(m) = {}
  BY LinkFacts DEF HelpNext, At
<1>2. PICK k \in Nodes \ heap :
        /\ heap' = heap \cup {k}
        /\ data' = [data EXCEPT ![k] = NULL]
        /\ count' = [count EXCEPT ![k] = NewCount]
        /\ new_node' = [new_node EXCEPT ![p] = k]
        /\ next' = [next EXCEPT ![u] = Link(m), ![k] = NullPtr]
  <2>1. PICK k \in Nodes \ heap :
          /\ heap' = heap \cup {k}
          /\ data' = [data EXCEPT ![k] = NULL]
          /\ count' = [count EXCEPT ![k] = NewCount]
          /\ new_node' = [new_node EXCEPT ![p] = k]
    BY DEF HelpNext, NewNode
  <2>2. new_node'[p] = k
    BY <2>1
  <2>3. next' = [next EXCEPT ![u] = Link(m), ![k] = NullPtr]
    BY <2>2 DEF HelpNext
  <2>. QED
    BY <2>1, <2>3
<1>12. /\ UNCHANGED <<head, tail, cont, old, ptr>>
       /\ \A q \in Procs \ {p} : pc'[q] = pc[q] /\ new_tail'[q] = new_tail[q]
       /\ new_tail'[p] = Link(m)
  BY DEF HelpNext, Goto, links
<1>13. /\ \A q \in Procs : new_node[q] # k
       /\ Private \subseteq heap /\ k # u /\ k # m /\ k # NULL
  BY <1>1, Shape, QueueAssumption DEF NewNodesOK, Private
<1>3. Private' = (Private \ {m}) \cup {k}
  BY <1>1, <1>2, <1>13 DEF Private, NewNodesOK
<1>4. count[m] = NewCount /\ next[m] = NullPtr /\ data[m] = NULL
  BY <1>1 DEF NewNodesOK
<1>5. heap' \ Private' = (heap \ Private) \cup {m}
  BY <1>1, <1>2, <1>12, <1>13, <1>3
<1>6. \A n : /\ Holders(n)' = Holders(n) /\ Deleters(n)' = Deleters(n)
             /\ TailFolders(n)' = TailFolders(n) /\ HeadFolders(n)' = HeadFolders(n)
  BY <1>1, <1>2, <1>12, <1>13 DEF Holders, Deleters, TailFolders, HeadFolders, Procs, Threads
<1>7. Ahead' = {u, m} /\ InQueue' = InQueue \cup {m} /\ ChainOK' /\ CountsOK' /\ ReclaimOK'
  <2>1. \A n \in (heap \ Private) \cup {m} :
          count'[n] = count[n] /\ next'[n] = IF n = u THEN Link(m) ELSE next[n]
    BY <1>1, <1>13, <1>2, <1>12, <1>13, Shape
  <2>2. \A n \in Nodes : /\ Holders(n)' = Holders(n)
                         /\ Deleters(n)' = Deleters(n)
                         /\ TailFolders(n)' = TailFolders(n)
                         /\ HeadFolders(n)' = HeadFolders(n)
    BY <1>6
  <2>3. /\ m \in Private /\ head' = head /\ tail' = tail /\ old' = old
        /\ u = tail.ptr /\ Ahead = {u} /\ next[u] = NullPtr
        /\ Holders(m) = {} /\ Deleters(m) = {} /\ TailFolders(m) = {} /\ HeadFolders(m) = {}
    BY <1>1, <1>12
  <2>. QED
    BY <1>1, <1>4, <1>5, <2>1, <2>2, <2>3, LinkStructure
<1>8. \A q \in Procs : pc'[q] \in Using =>
        ptr[q] \in heap \ Private /\ ptr[q] # m /\ (q = p \/ pc'[q] = pc[q])
  BY <1>1, <1>2, <1>12, <1>13 DEF UsesOK, Using
<1>9. NewNodesOK'
  <2>1. \A q \in Pushers : q # p => (Owning(q)' <=> Owning(q)) /\ pc'[q] = pc[q]
    BY <1>12 DEF Owning, Procs, Threads
  <2>2. Owning(p)' /\ new_node'[p] # NULL
    BY <1>1, <1>2, <1>12, <1>13 DEF Owning, PlacesOK
  <2>3. \A q \in Pushers : pc'[q] # "crashed" => (Owning(q)' <=> new_node'[q] # NULL)
    <3>1. Pushers \subseteq Procs
      BY DEF Procs, Threads
    <3>. QED
      BY <1>2, <2>1, <2>2, <3>1 DEF NewNodesOK
  <2>4. \A q \in Procs \ {p} : new_node'[q] # NULL =>
          new_node'[q] = new_node[q] /\ new_node[q] # u /\ new_node[q] # k
    <3>1. \A q \in Procs : new_node[q] # NULL => new_node[q] \in Private
      BY DEF Private
    <3>2. u \notin Private
      BY <1>1, Shape
    <3>. QED
      BY <1>2, <1>13, <3>1, <3>2
  <2>5. /\ new_node'[p] = k /\ k \in heap' /\ count'[k] = NewCount
        /\ data'[k] = NULL /\ next'[k] = NullPtr
    BY <1>2, <1>13
  <2>6. \A q \in Procs : new_node'[q] # NULL =>
          /\ new_node'[q] \in heap'
          /\ count'[new_node'[q]] = NewCount
          /\ data'[new_node'[q]] = NULL
          /\ next'[new_node'[q]] = NullPtr
    BY <1>2, <2>4, <2>5 DEF NewNodesOK
  <2>7. \A q, r \in Procs : new_node'[q] # NULL /\ new_node'[q] = new_node'[r] => q = r
    BY <1>2, <1>13 DEF NewNodesOK
  <2>. QED
    BY <2>3, <2>6, <2>7 DEF NewNodesOK
<1>10. UsesOK'
  <2>1. \A q \in Procs : pc'[q] = "set_tail" => new_tail'[q] = next'[ptr[q]] /\ new_tail'[q].ptr # NULL
    <3>1. CASE \A q \in Procs : pc[q] = "set_tail" => ptr[q] # u
      <4>1. next'[u] = Link(m) /\ Link(m).ptr = m
        BY <1>1, <1>2, <1>12, <1>13, Shape DEF Link
      <4>2. new_tail'[p] = next'[ptr[p]] /\ new_tail'[p].ptr # NULL
        BY <1>1, <1>2, <1>12, <1>13, <4>1
      <4>3. ASSUME NEW q \in Procs, q # p, pc'[q] = "set_tail"
            PROVE  new_tail'[q] = next'[ptr[q]] /\ new_tail'[q].ptr # NULL
        <5>1. /\ pc[q] = "set_tail" /\ new_tail'[q] = new_tail[q] /\ ptr[q] # u
              /\ ptr[q] \in heap
          BY <1>2, <1>12, <1>13, <3>1, <4>3, UsedNodes DEF Using
        <5>2. next'[ptr[q]] = next[ptr[q]]
          BY <1>2, <1>12, <1>13, <5>1
        <5>. QED
          BY <5>1, <5>2 DEF UsesOK
      <4>. QED
        BY <4>2, <4>3
    <3>2. ASSUME NEW q \in Procs, pc[q] = "set_tail", ptr[q] = u PROVE FALSE
      BY <1>1, <3>2 DEF UsesOK, NullPtr
    <3>. QED
      BY <3>1, <3>2
  <2>2. \A q \in Procs : pc'[q] = "pop_head" => ptr[q] \notin {u, m}
    BY <1>1, <1>2, <1>12, <1>13, <1>8 DEF UsesOK, Using
  <2>3. \A q \in Procs : pc'[q] \in Counted => old[q].ptr = ptr[q]
    BY <1>1, <1>2, <1>12, <1>13 DEF UsesOK, Counted
  <2>4. \A q \in Procs : pc'[q] \in Using => ptr'[q] \in heap' \ Private'
    BY <1>5, <1>8, <1>12
  <2>5. ptr' = ptr /\ old' = old
    BY <1>12
  <2>. QED
    BY <1>7, <2>1, <2>2, <2>3, <2>4, <2>5 DEF UsesOK
<1>11. DataOK'
  <2>1. \A n \in InQueue : n \in heap /\ (next'[n].ptr # NULL => data'[n] # NULL)
    BY <1>1, <1>2, <1>13, Shape DEF DataOK
  <2>2. next'[m].ptr = NULL
    BY <1>1, <1>2, <1>4, <1>13, Shape DEF NullPtr
  <2>3. \A q \in Procs : pc'[q] \in {"push_trace", "push_next", "push_help", "pop_data"} =>
          ptr[q] # m /\ ptr[q] # k /\ pc'[q] = pc[q]
    BY <1>1, <1>2, <1>12, <1>8 DEF Using
  <2>4. \A n : n # k => data'[n] = data[n]
    BY <1>2
  <2>. QED
    BY <1>7, <1>12, <2>1, <2>2, <2>3, <2>4 DEF DataOK
<1>20. NodeLinked
  BY <1>1, <1>2, <1>7, <1>12, <1>13, Shape DEF NodeLinked, NullPtr, Link
<1>. QED
  BY <1>7, <1>9, <1>10, <1>11, <1>20

\* Swinging tail: the pusher takes over what tail counted.
LEMMA SetNewTailStep ==
  ASSUME IInv, TypeOK', PlacesOK', NEW p \in Procs, SetNewTail(p)
  PROVE  IInv' /\ QueueKept
<1>. USE DEF IInv, TypeOK
<1>. PICK u, m : u = ptr[p] /\ m = next[ptr[p]].ptr
  OBVIOUS
<1>1. /\ UNCHANGED <<head, heap, data, count, next, cont, old, ptr, new_node, new_tail>>
      /\ \A q \in Procs \ {p} : pc'[q] = pc[q]
      /\ pc[p] = "set_tail" /\ pc'[p] = "free"
      /\ tail = old[p] /\ tail' = new_tail[p]
  BY DEF SetNewTail, At, Goto, nodes, push
<1>2. p \in Pushers
  BY <1>1 DEF PlacesOK, PopLabels, LettingGo
<1>3. u \in Nodes /\ u \in heap \ Private /\ p \in Holders(u)
  BY <1>1, UsedNodes DEF Using, Holders
<1>4. u = tail.ptr /\ m # NULL /\ tail' = next[u]
  BY <1>1 DEF UsesOK, Counted
<1>5. /\ m \in InQueue /\ m \in Nodes /\ Holders(m) = {} /\ next[m].ptr = NULL
      /\ m # u /\ Ahead = {u, m} /\ tail' = Link(m)
  <2>1. m \in InQueue /\ m \in Nodes
    BY <1>4, Shape
  <2>2. Holders(m) = {} /\ next[m].ptr = NULL
    BY <1>4, <2>1 DEF ChainOK
  <2>3. m # u /\ tail' = Link(m)
    BY <1>3, <1>4, <2>2 DEF ChainOK
  <2>4. Ahead = {u, m}
    BY <1>3, <1>4, QueueAssumption DEF Ahead
  <2>. QED
    BY <2>1, <2>2, <2>3, <2>4
<1>6. tail'.ptr = m /\ tail'.external_count = 1
  BY <1>5 DEF Link
<1>7. \A n : /\ Holders(n)' = Holders(n) /\ Deleters(n)' = Deleters(n)
             /\ HeadFolders(n)' = HeadFolders(n)
             /\ n # u => TailFolders(n)' = TailFolders(n)
  BY <1>1, <1>2 DEF Holders, Deleters, TailFolders, HeadFolders, Procs, Threads
<1>8. TailFolders(u)' = {p} /\ TailFolders(u) = {}
  <2>1. TailFolders(u) = {}
    BY <1>5 DEF CountsOK
  <2>. QED
    BY <1>1, <1>2, <2>1 DEF TailFolders, Procs, Threads
<1>9. TailFolders(m) = {}
  BY <1>5 DEF CountsOK
<1>10. Private' = Private /\ Ahead' = {m}
  BY <1>1, <1>5, <1>6, QueueAssumption DEF Private, Ahead
<1>11. count[u].external_counters = 2 /\ u \in InQueue /\ HeadFolders(u) = {}
  <2>1. u \in InQueue /\ HeadFolders(u) = {}
    BY <1>4, Shape DEF InQueue
  <2>. QED
    BY <1>3, <1>5, <1>8, <2>1 DEF CountsOK, Accounted
<1>12. InQueue' = InQueue
  <2>1. \A n \in heap \ Private : n # u => (n \in InQueue' <=> n \in InQueue)
    BY <1>1, <1>7, <1>10 DEF InQueue, Outstanding
  <2>2. u \in InQueue'
    BY <1>1, <1>3, <1>7, <1>8, <1>10, <1>11 DEF InQueue, Outstanding
  <2>. QED
    BY <1>1, <1>10, <1>11, <2>1, <2>2 DEF InQueue
<1>13. ChainOK'
  <2>1. \A n \in InQueue \ {m} : next[n].ptr \in InQueue
    BY <1>4, <1>5 DEF ChainOK
  <2>2. \A n \in heap \ Private : next[n].ptr = NULL => next[n] = NullPtr /\ n = m
    BY <1>4, <1>5 DEF ChainOK
  <2>3. \A n \in InQueue : n # next[m].ptr
    BY <1>5, Shape, QueueAssumption
  <2>. QED
    BY <1>1, <1>5, <1>6, <1>10, <1>12, <2>1, <2>2, <2>3, QueueAssumption DEF ChainOK
<1>14. ASSUME NEW n \in heap \ Private PROVE Balanced(n)' /\ Accounted(n)'
  <2>1. n \in Nodes /\ Balanced(n) /\ Accounted(n)
    BY Shape DEF CountsOK
  <2>2. /\ Users(tail, n, TailFolders(n))' = Users(tail, n, TailFolders(n))
        /\ Users(head, n, HeadFolders(n))' = Users(head, n, HeadFolders(n))
    <3>1. CASE n # u /\ n # m
      BY <1>1, <1>4, <1>6, <1>7, <3>1, SameUsers
    <3>2. Users(head, n, HeadFolders(n))' = Users(head, n, HeadFolders(n))
      <4>1. {old'[q].external_count - 1 : q \in HeadFolders(n)'}
              = {old[q].external_count - 1 : q \in HeadFolders(n)}
        BY <1>1, <1>7
      <4>. QED
        BY <1>1, <1>7, <4>1 DEF Users
    <3>3. CASE n = u
      <4>1. Users(tail, n, TailFolders(n)) = {tail.external_count - 1}
        BY <1>4, <3>3 DEF Users
      <4>2. TailFolders(n)' = {p} /\ tail'.ptr # n
        BY <1>5, <1>6, <1>8, <3>3
      <4>3. Users(tail, n, TailFolders(n))' = {old'[p].external_count - 1}
        BY <4>2 DEF Users
      <4>. QED
        BY <1>1, <3>2, <4>1, <4>3
    <3>4. CASE n = m
      <4>1. Users(tail, n, TailFolders(n)) = {0}
        BY <1>4, <1>5, <1>9, <3>4 DEF Users
      <4>2. Users(tail, n, TailFolders(n))' = {0}
        BY <1>6, <3>4 DEF Users
      <4>. QED
        BY <3>2, <4>1, <4>2
    <3>. QED
      BY <3>1, <3>3, <3>4
  <2>3. Balanced(n)'
    BY <1>1, <1>7, <2>1, <2>2 DEF Balanced
  <2>4. Accounted(n)'
    <3>1. CASE n = u
      <4>1. count'[n].external_counters = 2 /\ n \in InQueue' /\ n \notin Ahead'
        BY <1>1, <1>5, <1>10, <1>11, <1>12, <3>1
      <4>2. TailFolders(n)' # {} /\ HeadFolders(n)' = {}
        BY <1>7, <1>8, <1>11, <3>1
      <4>. QED
        BY <4>1, <4>2 DEF Accounted
    <3>2. CASE n # u
      BY <1>1, <1>5, <1>7, <1>10, <1>12, <2>1, <3>2 DEF Accounted
    <3>. QED
      BY <3>1, <3>2
  <2>. QED
    BY <2>3, <2>4
<1>15. CountsOK'
  <2>1. \A n \in Nodes : \A q, r \in TailFolders(n)' : q = r
    BY <1>7, <1>8 DEF CountsOK
  <2>2. TailFolders(m)' = {}
    BY <1>5, <1>7, <1>9
  <2>. QED
    BY <1>1, <1>7, <1>10, <1>14, <2>1, <2>2 DEF CountsOK
<1>16. ReclaimOK'
  BY <1>1, <1>7, <1>10, <1>12 DEF ReclaimOK
<1>17. NewNodesOK'
  <2>1. \A q \in Pushers : (Owning(q)' <=> Owning(q)) /\ (pc'[q] = "crashed" <=> pc[q] = "crashed")
    BY <1>1 DEF Owning, LettingGo, Procs, Threads
  <2>. QED
    BY <1>1, <2>1 DEF NewNodesOK
<1>18. UsesOK'
  <2>1. \A q \in Procs : pc'[q] \in Using => ptr[q] \in heap \ Private
    BY <1>1, <1>3 DEF UsesOK
  <2>2. \A q \in Procs : pc'[q] \in Counted => old[q].ptr = ptr[q]
    BY <1>1 DEF UsesOK, Counted
  <2>3. \A q \in Procs : pc'[q] \in {"set_tail", "pop_head"} => pc'[q] = pc[q]
    BY <1>1
  <2>. QED
    BY <1>1, <1>5, <1>10, <2>1, <2>2, <2>3 DEF UsesOK
<1>19. DataOK'
  BY <1>1, <1>12 DEF DataOK
<1>20. QueueKept
  BY <1>1, <1>12 DEF QueueKept
<1>. QED
  BY <1>13, <1>15, <1>16, <1>17, <1>18, <1>19, <1>20

\* Moving head on: the popper takes over what head counted, and the node's data.
LEMMA PopHeadStep ==
  ASSUME IInv, TypeOK', PlacesOK', NEW p \in Procs, PopHead(p)
  PROVE  IInv' /\ HeadMoved
<1>. USE DEF IInv, TypeOK
<1>. PICK u, m : u = ptr[p] /\ m = next[ptr[p]].ptr
  OBVIOUS
<1>1. /\ UNCHANGED <<tail, heap, data, count, next, old, ptr, new_node, new_tail>>
      /\ \A q \in Procs \ {p} : pc'[q] = pc[q] /\ cont'[q] = cont[q]
      /\ pc[p] = "pop_head" /\ pc'[p] = "pop_data"
      /\ head = old[p] /\ head' = next[u]
  BY DEF PopHead, At, Goto, nodes, push
<1>2. p \notin Pushers
  BY <1>1 DEF PlacesOK, PushLabels, LettingGo
<1>3. u \in Nodes /\ u \in heap \ Private /\ p \in Holders(u)
  BY <1>1, UsedNodes DEF Using, Holders
<1>4. u = head.ptr /\ u \in InQueue /\ u \notin Ahead
  BY <1>1, Shape DEF UsesOK, Counted
<1>5. m \in InQueue /\ m \in Nodes /\ m # NULL /\ m # u /\ head' = Link(m)
  <2>1. m \in InQueue /\ m \in Nodes /\ m # NULL
    BY <1>4, Shape, QueueAssumption DEF ChainOK
  <2>2. m # u
    BY <1>4 DEF ChainOK
  <2>3. head' = Link(m)
    BY <1>1, <1>3, <2>1 DEF ChainOK
  <2>. QED
    BY <2>1, <2>2, <2>3
<1>6. head'.ptr = m /\ head'.external_count = 1
  BY <1>5 DEF Link
<1>7. \A n : /\ Holders(n)' = Holders(n) /\ Deleters(n)' = Deleters(n)
             /\ TailFolders(n)' = TailFolders(n)
             /\ n # u => HeadFolders(n)' = HeadFolders(n)
  BY <1>1, <1>2 DEF Holders, Deleters, TailFolders, HeadFolders, Procs, Threads
<1>8. HeadFolders(u)' = {p} /\ HeadFolders(u) = {} /\ HeadFolders(m) = {}
  <2>1. HeadFolders(u) = {} /\ HeadFolders(m) = {}
    BY <1>4, <1>5 DEF InQueue
  <2>. QED
    BY <1>1, <1>2, <2>1 DEF HeadFolders
<1>9. Private' = Private /\ Ahead' = Ahead
  BY <1>1 DEF Private, Ahead
<1>10. InQueue' = InQueue \ {u}
  <2>1. \A n \in heap \ Private : n # u => (n \in InQueue' <=> n \in InQueue)
    BY <1>1, <1>7, <1>9 DEF InQueue, Outstanding
  <2>2. u \notin InQueue'
    BY <1>8 DEF InQueue
  <2>. QED
    BY <1>1, <1>9, <2>1, <2>2 DEF InQueue
<1>11. ChainOK'
  <2>1. \A n \in InQueue : next[n].ptr # u
    BY <1>4 DEF ChainOK
  <2>2. \A n \in InQueue \ {u} : next[n].ptr # m
    BY <1>4, <1>5 DEF ChainOK
  <2>3. m \in InQueue \ {u} /\ Ahead \subseteq InQueue \ {u}
    BY <1>4, <1>5 DEF ChainOK
  <2>. QED
    BY <1>1, <1>6, <1>7, <1>9, <1>10, <2>1, <2>2, <2>3 DEF ChainOK
<1>12. ASSUME NEW n \in heap \ Private PROVE Balanced(n)' /\ Accounted(n)'
  <2>1. n \in Nodes /\ Balanced(n) /\ Accounted(n)
    BY Shape DEF CountsOK
  <2>2. /\ Users(tail, n, TailFolders(n))' = Users(tail, n, TailFolders(n))
        /\ Users(head, n, HeadFolders(n))' = Users(head, n, HeadFolders(n))
    <3>1. CASE n # u /\ n # m
      BY <1>1, <1>4, <1>6, <1>7, <3>1, SameUsers
    <3>2. Users(tail, n, TailFolders(n))' = Users(tail, n, TailFolders(n))
      <4>1. {old'[q].external_count - 1 : q \in TailFolders(n)'}
              = {old[q].external_count - 1 : q \in TailFolders(n)}
        BY <1>1, <1>7
      <4>. QED
        BY <1>1, <1>7, <4>1 DEF Users
    <3>3. CASE n = u
      <4>1. Users(head, n, HeadFolders(n)) = {head.external_count - 1}
        BY <1>4, <3>3 DEF Users
      <4>2. HeadFolders(n)' = {p} /\ head'.ptr # n
        BY <1>5, <1>6, <1>8, <3>3
      <4>3. Users(head, n, HeadFolders(n))' = {old'[p].external_count - 1}
        BY <4>2 DEF Users
      <4>. QED
        BY <1>1, <3>2, <4>1, <4>3
    <3>4. CASE n = m
      <4>1. Users(head, n, HeadFolders(n)) = {0}
        BY <1>4, <1>5, <1>8, <3>4 DEF Users
      <4>2. Users(head, n, HeadFolders(n))' = {0}
        BY <1>6, <3>4 DEF Users
      <4>. QED
        BY <3>2, <4>1, <4>2
    <3>. QED
      BY <3>1, <3>3, <3>4
  <2>3. Balanced(n)'
    BY <1>1, <1>7, <2>1, <2>2 DEF Balanced
  <2>4. Accounted(n)'
    <3>1. CASE n = u
      <4>1. /\ count'[n].external_counters = count[n].external_counters
            /\ n \in InQueue /\ n \notin Ahead /\ n \notin InQueue' /\ n \notin Ahead'
        BY <1>1, <1>4, <1>9, <1>10, <3>1
      <4>2. /\ TailFolders(n)' = TailFolders(n)
            /\ HeadFolders(n) = {} /\ HeadFolders(n)' # {}
        BY <1>7, <1>8, <3>1
      <4>. QED
        BY <2>1, <4>1, <4>2 DEF Accounted, node_counter
    <3>2. CASE n # u
      BY <1>1, <1>7, <1>9, <1>10, <2>1, <3>2 DEF Accounted
    <3>. QED
      BY <3>1, <3>2
  <2>. QED
    BY <2>3, <2>4
<1>13. CountsOK'
  <2>1. \A n \in Nodes : \A q, r \in HeadFolders(n)' : q = r
    BY <1>7, <1>8 DEF CountsOK
  <2>. QED
    BY <1>1, <1>7, <1>9, <1>12, <2>1 DEF CountsOK
<1>14. ReclaimOK'
  BY <1>1, <1>3, <1>7, <1>9, <1>10 DEF ReclaimOK
<1>15. NewNodesOK'
  <2>1. \A q \in Pushers : (Owning(q)' <=> Owning(q)) /\ (pc'[q] = "crashed" <=> pc[q] = "crashed")
    BY <1>1, <1>2 DEF Owning, Procs, Threads
  <2>. QED
    BY <1>1, <2>1 DEF NewNodesOK
<1>16. UsesOK'
  <2>1. \A q \in Procs : pc'[q] \in Using => ptr[q] \in heap \ Private
    BY <1>1, <1>3 DEF UsesOK
  <2>2. \A q \in Procs : pc'[q] \in Counted => old[q].ptr = ptr[q]
    BY <1>1 DEF UsesOK, Counted
  <2>3. \A q \in Procs : pc'[q] \in {"set_tail", "pop_head"} => pc'[q] = pc[q]
    BY <1>1
  <2>. QED
    BY <1>1, <1>9, <2>1, <2>2, <2>3 DEF UsesOK
<1>17. DataOK'
  <2>1. data[u] # NULL
    BY <1>4, <1>5 DEF DataOK
  <2>. QED
    BY <1>1, <1>10, <2>1 DEF DataOK
<1>20. HeadMoved
  BY <1>1, <1>4, <1>5, <1>6, <1>10 DEF HeadMoved
<1>. QED
  BY <1>11, <1>13, <1>14, <1>15, <1>16, <1>17, <1>20

\* With nothing left to fold, the internal count is zero only without holders.
LEMMA NoHolders ==
  ASSUME NEW S \in SUBSET Procs
  PROVE  (Cardinality(S) - 0 - 0) % Modulus = 0 <=> S = {}
<1>1. IsFiniteSet(S) /\ Cardinality(S) \in 0 .. Modulus - 1
  BY HoldersBelowModulus
<1>2. Cardinality(S) - 0 - 0 = Cardinality(S) /\ Cardinality(S) % Modulus = Cardinality(S)
  BY <1>1, ModulusSmall
<1>3. Cardinality(S) = 0 <=> S = {}
  BY <1>1, FS_EmptySet
<1>. QED
  BY <1>2, <1>3

\* A holder of n lets go of it.  If it was the last, and the counts show it, it
\* will delete n; if they do not, somebody else still holds n.
LEMMA LetGoStructure ==
  ASSUME IInv, TypeOK', NEW p \in Procs, NEW n \in Nodes,
         n \in heap \ Private, p \in Holders(n),
         UNCHANGED <<head, tail, heap, next, new_node, old, ptr>>,
         \A m \in Nodes : /\ m # n => count'[m] = count[m]
                          /\ m # n => Holders(m)' = Holders(m)
                          /\ m # n => Deleters(m)' = Deleters(m)
                          /\ m # n => TailFolders(m)' = TailFolders(m)
                          /\ m # n => HeadFolders(m)' = HeadFolders(m),
         Holders(n)' = Holders(n) \ {p},
         Deleters(n)' = Deleters(n) \cup (IF count'[n] = Unused THEN {p} ELSE {}),
         TailFolders(n)' \subseteq TailFolders(n), HeadFolders(n)' \subseteq HeadFolders(n),
         n \in InQueue' <=> n \in InQueue, Balanced(n)', Accounted(n)'
  PROVE  Private' = Private /\ Ahead' = Ahead /\ InQueue' = InQueue /\ ChainOK' /\ CountsOK' /\ ReclaimOK'
<1>. USE DEF IInv
<1>1. Private' = Private /\ Ahead' = Ahead
  BY DEF Private, Ahead
<1>2. InQueue' = InQueue
  <2>1. \A m \in heap \ Private : m # n => (m \in InQueue' <=> m \in InQueue)
    BY <1>1, Shape DEF InQueue, Outstanding
  <2>. QED
    BY <1>1, <2>1 DEF InQueue
<1>3. ChainOK'
  <2>1. \A m \in InQueue : m = next[tail.ptr].ptr => Holders(m)' = {}
    BY Shape DEF ChainOK
  <2>. QED
    BY <1>1, <1>2, <2>1 DEF ChainOK
<1>4. CountsOK'
  <2>1. ASSUME NEW m \in heap \ Private, m # n PROVE Balanced(m)' /\ Accounted(m)'
    <3>1. m \in Nodes /\ Balanced(m) /\ Accounted(m)
      BY Shape DEF CountsOK
    <3>2. /\ Users(tail, m, TailFolders(m))' = Users(tail, m, TailFolders(m))
          /\ Users(head, m, HeadFolders(m))' = Users(head, m, HeadFolders(m))
      BY <2>1, <3>1, SameUsers
    <3>. QED
      BY <1>1, <1>2, <2>1, <3>1, <3>2 DEF Balanced, Accounted
  <2>2. \A m \in Nodes : TailFolders(m)' \subseteq TailFolders(m) /\ HeadFolders(m)' \subseteq HeadFolders(m)
    OBVIOUS
  <2>3. Ahead \subseteq Nodes
    BY Shape DEF ChainOK
  <2>. QED
    BY <1>1, <2>1, <2>2, <2>3 DEF CountsOK
<1>5. Deleters(n) = {}
  BY DEF ReclaimOK
<1>6. ASSUME n \notin InQueue, count'[n].external_counters = 0
      PROVE  count'[n].internal_count = 0 <=> Holders(n)' = {}
  <2>1. TailFolders(n)' = {} /\ HeadFolders(n)' = {}
    BY <1>6 DEF Accounted
  <2>2. tail'.ptr # n /\ head'.ptr # n
    BY <1>6, Shape
  <2>3. 0 \in Users(tail, n, TailFolders(n))' /\ 0 \in Users(head, n, HeadFolders(n))'
    BY <2>1, <2>2 DEF Users
  <2>4. count'[n].internal_count = (Cardinality(Holders(n)') - 0 - 0) % Modulus
    BY <2>3 DEF Balanced
  <2>5. Holders(n)' \in SUBSET Procs
    BY DEF Holders
  <2>. QED
    BY <2>4, <2>5, NoHolders
<1>7. ASSUME count'[n] = Unused PROVE n \notin InQueue /\ Holders(n)' = {}
  <2>1. count'[n].external_counters = 0 /\ count'[n].internal_count = 0
    BY <1>7 DEF Unused
  <2>2. n \notin InQueue
    BY <1>2, <2>1 DEF InQueue, Outstanding
  <2>. QED
    BY <1>6, <2>1, <2>2
<1>8. ASSUME count'[n] # Unused, n \notin InQueue PROVE Holders(n)' # {}
  <2>1. CASE count'[n].external_counters = 0
    <3>1. count'[n].internal_count # 0
      BY <1>8, <2>1 DEF TypeOK, node_counter, Unused
    <3>. QED
      BY <1>6, <1>8, <2>1, <3>1
  <2>2. CASE count'[n].external_counters # 0
    <3>1. n \notin Ahead
      BY <1>8 DEF ChainOK
    <3>2. TailFolders(n)' # {} \/ HeadFolders(n)' # {}
      BY <1>1, <1>2, <1>8, <2>2, <3>1 DEF Accounted
    <3>. QED
      BY <3>2 DEF TailFolders, HeadFolders, Holders, Procs, Threads
  <2>. QED
    BY <2>1, <2>2
<1>9. ReclaimOK'
  <2>1. \A m \in Nodes : Deleters(m)' # {} => Holders(m)' = {} /\ count'[m] = Unused
    BY <1>5, <1>7 DEF ReclaimOK
  <2>2. \A m \in Nodes : \A q, r \in Deleters(m)' : q = r
    BY <1>5 DEF ReclaimOK
  <2>3. \A m \in (heap \ Private) \ InQueue : Holders(m)' \cup Deleters(m)' # {}
    BY <1>8, Shape DEF ReclaimOK
  <2>. QED
    BY <1>1, <1>2, <2>1, <2>2, <2>3 DEF ReclaimOK
<1>. QED
  BY <1>1, <1>2, <1>3, <1>4, <1>9

\* release_ref takes one off the internal count.
LEMMA ReleaseRefStep ==
  ASSUME IInv, TypeOK', PlacesOK', NEW p \in Procs, ReleaseRef(p)
  PROVE  IInv' /\ QueueKept
<1>. USE DEF IInv, TypeOK
<1>. PICK n, c : n = ptr[p] /\ c = [count[n] EXCEPT !.internal_count = (@ - 1) % Modulus]
  OBVIOUS
<1>1. /\ UNCHANGED <<head, tail, heap, data, next, cont, old, ptr, new_node, new_tail>>
      /\ \A q \in Procs \ {p} : pc'[q] = pc[q]
      /\ pc[p] = "release" /\ pc'[p] = IF c = Unused THEN "delete" ELSE cont[p]
      /\ count' = [count EXCEPT ![n] = c]
  BY DEF ReleaseRef, At, Goto, links, push, LastUse
<1>2. cont[p] \in {"push_increase", "pop_increase", "return"}
  BY DEF PlacesOK
<1>3. n \in Nodes /\ n \in heap \ Private /\ p \in Holders(n)
  BY <1>1, UsedNodes DEF Using, Holders
<1>4. /\ count'[n] = c /\ count[n] \in node_counter
      /\ c.external_counters = count[n].external_counters
      /\ c.internal_count = (count[n].internal_count - 1) % Modulus
      /\ \A m \in Nodes : m # n => count'[m] = count[m]
  BY <1>1, <1>3 DEF node_counter
<1>5. /\ \A m : /\ m # n => Holders(m)' = Holders(m) /\ Deleters(m)' = Deleters(m)
                /\ TailFolders(m)' = TailFolders(m) /\ HeadFolders(m)' = HeadFolders(m)
      /\ Holders(n)' = Holders(n) \ {p}
      /\ Deleters(n)' = Deleters(n) \cup (IF count'[n] = Unused THEN {p} ELSE {})
  BY <1>1, <1>2, <1>4 DEF Holders, Deleters, TailFolders, HeadFolders, Procs, Threads
<1>6. n \in InQueue' <=> n \in InQueue
  <2>1. Private' = Private
    BY <1>1 DEF Private
  <2>. QED
    BY <1>1, <1>3, <1>4, <1>5, <2>1 DEF InQueue, Outstanding
<1>7. Balanced(n)' /\ Accounted(n)'
  <2>1. Balanced(n) /\ Accounted(n)
    BY <1>3 DEF CountsOK
  <2>2. /\ Users(tail, n, TailFolders(n))' = Users(tail, n, TailFolders(n))
        /\ Users(head, n, HeadFolders(n))' = Users(head, n, HeadFolders(n))
    BY <1>1, <1>5, SameUsers
  <2>3. /\ Cardinality(Holders(n)') = Cardinality(Holders(n)) - 1
        /\ Cardinality(Holders(n)) \in Nat
    BY <1>3, <1>5, HoldersFinite, CardinalityRemove
  <2>4. ASSUME NEW t \in Users(tail, n, TailFolders(n)), NEW h \in Users(head, n, HeadFolders(n))
        PROVE  c.internal_count = (Cardinality(Holders(n)') - t - h) % Modulus
    <3>1. t \in Int /\ h \in Int
      BY <1>3, UsersInt
    <3>2. count[n].internal_count = (Cardinality(Holders(n)) - t - h) % Modulus
      BY <2>1 DEF Balanced
    <3>3. (((Cardinality(Holders(n)) - t - h) % Modulus) + (-1)) % Modulus
            = (Cardinality(Holders(n)) - t - h + (-1)) % Modulus
      BY <2>3, <3>1, ModulusAdd
    <3>4. count[n].internal_count - 1 = ((Cardinality(Holders(n)) - t - h) % Modulus) + (-1)
      BY <1>4, <3>2 DEF node_counter
    <3>5. Cardinality(Holders(n)) - t - h + (-1) = Cardinality(Holders(n)') - t - h
      BY <2>3, <3>1
    <3>. QED
      BY <1>4, <3>3, <3>4, <3>5
  <2>5. Balanced(n)'
    BY <1>4, <2>2, <2>4 DEF Balanced
  <2>6. Accounted(n)'
    BY <1>1, <1>4, <1>5, <1>6, <2>1 DEF Accounted, Ahead
  <2>. QED
    BY <2>5, <2>6
<1>8. Private' = Private /\ Ahead' = Ahead /\ InQueue' = InQueue /\ ChainOK' /\ CountsOK' /\ ReclaimOK'
  <2>1. \A m \in Nodes : /\ m # n => count'[m] = count[m]
                         /\ m # n => Holders(m)' = Holders(m)
                         /\ m # n => Deleters(m)' = Deleters(m)
                         /\ m # n => TailFolders(m)' = TailFolders(m)
                         /\ m # n => HeadFolders(m)' = HeadFolders(m)
    BY <1>4, <1>5
  <2>2. TailFolders(n)' \subseteq TailFolders(n) /\ HeadFolders(n)' \subseteq HeadFolders(n)
    BY <1>5
  <2>3. /\ Holders(n)' = Holders(n) \ {p}
        /\ Deleters(n)' = Deleters(n) \cup (IF count'[n] = Unused THEN {p} ELSE {})
    BY <1>5
  <2>4. UNCHANGED <<head, tail, heap, next, new_node, old, ptr>>
    BY <1>1
  <2>. QED
    BY <1>3, <1>6, <1>7, <2>1, <2>2, <2>3, <2>4, LetGoStructure
<1>9. NewNodesOK'
  <2>1. \A q \in Pushers : q # p => (Owning(q)' <=> Owning(q)) /\ pc'[q] = pc[q]
    BY <1>1 DEF Owning, Procs, Threads
  <2>2. p \in Pushers => (Owning(p)' <=> Owning(p)) /\ pc[p] # "crashed" /\ pc'[p] # "crashed"
    BY <1>1, <1>2 DEF Owning, LettingGo, PlacesOK
  <2>3. \A q \in Procs : new_node[q] # NULL => new_node[q] # n
    BY <1>3 DEF Private
  <2>. QED
    BY <1>1, <1>4, <1>8, <2>1, <2>2, <2>3 DEF NewNodesOK
<1>10. UsesOK'
  <2>1. \A q \in Procs : pc'[q] \in Using => ptr[q] \in heap \ Private
    BY <1>1, <1>3 DEF UsesOK
  <2>2. \A q \in Procs : pc'[q] \in Counted => pc'[q] = pc[q]
    BY <1>1, <1>2 DEF Counted
  <2>. QED
    BY <1>1, <1>8, <2>1, <2>2 DEF UsesOK, Counted
<1>11. DataOK'
  <2>1. \A q \in Procs : pc'[q] \in {"push_trace", "push_next", "push_help", "pop_data"} => pc'[q] = pc[q]
    BY <1>1, <1>2
  <2>. QED
    BY <1>1, <1>8, <2>1 DEF DataOK
<1>20. QueueKept
  BY <1>1, <1>8 DEF QueueKept
<1>. QED
  BY <1>8, <1>9, <1>10, <1>11, <1>20

\* free_external_counter folds the external count the thread has taken over.
LEMMA FreeExternalCounterStep ==
  ASSUME IInv, TypeOK', PlacesOK', NEW p \in Procs, FreeExternalCounter(p)
  PROVE  IInv' /\ QueueKept
<1>. USE DEF IInv, TypeOK
<1>. PICK n, c : /\ n = ptr[p]
                 /\ c = [count[n] EXCEPT !.external_counters = (@ - 1) % 4,
                                         !.internal_count = (@ + CountIncrease(p)) % Modulus]
  OBVIOUS
<1>1. /\ UNCHANGED <<head, tail, heap, data, next, cont, old, ptr, new_node, new_tail>>
      /\ \A q \in Procs \ {p} : pc'[q] = pc[q]
      /\ pc[p] = "free" /\ pc'[p] = IF c = Unused THEN "trace_delete" ELSE "trace"
      /\ count' = [count EXCEPT ![n] = c]
  BY DEF FreeExternalCounter, At, Goto, links, push, LastUse
<1>2. pc'[p] \in {"trace", "trace_delete"}
  BY <1>1
<1>3. n \in Nodes /\ n \in heap \ Private /\ p \in Holders(n)
  BY <1>1, UsedNodes DEF Using, Holders
<1>4. /\ count'[n] = c /\ count[n] \in node_counter /\ old[p].external_count \in Nat
      /\ c.external_counters = (count[n].external_counters - 1) % 4
      /\ c.internal_count = (count[n].internal_count + (old[p].external_count - 2)) % Modulus
      /\ \A m \in Nodes : m # n => count'[m] = count[m]
  BY <1>1, <1>3 DEF node_counter, counted_node_ptr, CountIncrease
<1>5. /\ \A m : /\ m # n => Holders(m)' = Holders(m) /\ Deleters(m)' = Deleters(m)
                /\ m # n => TailFolders(m)' = TailFolders(m) /\ HeadFolders(m)' = HeadFolders(m)
      /\ Holders(n)' = Holders(n) \ {p}
      /\ Deleters(n)' = Deleters(n) \cup (IF count'[n] = Unused THEN {p} ELSE {})
  <2>1. \A m : /\ m # n => Holders(m)' = Holders(m) /\ Deleters(m)' = Deleters(m)
               /\ m # n => TailFolders(m)' = TailFolders(m) /\ HeadFolders(m)' = HeadFolders(m)
    <3>1. ASSUME NEW m, m # n
          PROVE  /\ Holders(m)' = Holders(m) /\ Deleters(m)' = Deleters(m)
                 /\ TailFolders(m)' = TailFolders(m) /\ HeadFolders(m)' = HeadFolders(m)
      BY <1>1, <1>2, <3>1 DEF Holders, Deleters, TailFolders, HeadFolders, Procs, Threads
    <3>. QED
      BY <3>1
  <2>3. Holders(n)' = Holders(n) \ {p}
    BY <1>1, <1>2 DEF Holders
  <2>4. Deleters(n)' = Deleters(n) \cup (IF count'[n] = Unused THEN {p} ELSE {})
    BY <1>1, <1>4 DEF Deleters
  <2>. HIDE DEF IInv, TypeOK
  <2>. QED
    BY <2>1, <2>3, <2>4
<1>12. Balanced(n) /\ Accounted(n) /\ Private' = Private /\ Ahead' = Ahead
  BY <1>1, <1>3 DEF CountsOK, Private, Ahead
<1>13. \/ /\ TailFolders(n) = {p} /\ TailFolders(n)' = {} /\ HeadFolders(n)' = HeadFolders(n)
          /\ n \notin Ahead
       \/ /\ HeadFolders(n) = {p} /\ HeadFolders(n)' = {} /\ TailFolders(n)' = TailFolders(n)
          /\ n \notin InQueue
  <2>1. CASE p \in Pushers
    <3>1. p \in TailFolders(n)
      BY <1>1, <2>1 DEF TailFolders
    <3>2. TailFolders(n) = {p} /\ n \notin Ahead
      BY <1>3, <3>1 DEF CountsOK
    <3>3. TailFolders(n)' = TailFolders(n) \ {p} /\ HeadFolders(n)' = HeadFolders(n)
      BY <1>1, <1>2, <2>1 DEF TailFolders, HeadFolders, Procs, Threads
    <3>. QED
      BY <3>2, <3>3
  <2>2. CASE p \notin Pushers
    <3>1. p \in HeadFolders(n)
      BY <1>1, <2>2 DEF HeadFolders
    <3>2. HeadFolders(n) = {p} /\ n \notin InQueue
      BY <1>3, <3>1 DEF CountsOK, InQueue
    <3>3. HeadFolders(n)' = HeadFolders(n) \ {p} /\ TailFolders(n)' = TailFolders(n)
      BY <1>1, <1>2, <2>2 DEF TailFolders, HeadFolders, Procs, Threads
    <3>. QED
      BY <3>2, <3>3
  <2>. QED
    BY <2>1, <2>2
<1>14. Ahead \subseteq InQueue
  BY DEF ChainOK
<1>15. /\ count[n].external_counters > 0
       /\ c.external_counters = count[n].external_counters - 1
  <2>1. count[n].external_counters \in 1 .. 3
    <3>1. count[n].external_counters \in 0 .. 3
      BY <1>4 DEF node_counter
    <3>2. TailFolders(n) # {} \/ HeadFolders(n) # {}
      BY <1>13
    <3>3. count[n].external_counters # 0
      BY <1>12, <3>2 DEF Accounted
    <3>. QED
      BY <3>1, <3>3
  <2>. QED
    BY <1>4, <2>1
<1>6. n \in InQueue' <=> n \in InQueue
  <2>1. CASE TailFolders(n) = {p} /\ TailFolders(n)' = {} /\ HeadFolders(n)' = HeadFolders(n)
    <3>1. count[n].external_counters \in Int
      BY <1>4 DEF node_counter
    <3>2. Outstanding(n)' <=> Outstanding(n)
      BY <1>4, <1>15, <2>1, <3>1 DEF Outstanding
    <3>3. heap' \ Private' = heap \ Private
      BY <1>1, <1>12
    <3>. QED
      BY <1>3, <2>1, <3>2, <3>3 DEF InQueue
  <2>2. CASE /\ HeadFolders(n) = {p} /\ HeadFolders(n)' = {} /\ TailFolders(n)' = TailFolders(n)
             /\ n \notin InQueue
    <3>1. count[n].external_counters = (IF TailFolders(n) = {} THEN 0 ELSE 1) + 1
      BY <1>12, <1>14, <2>2 DEF Accounted
    <3>2. ~ Outstanding(n)'
      BY <1>4, <1>15, <2>2, <3>1 DEF Outstanding
    <3>. QED
      BY <2>2, <3>2 DEF InQueue
  <2>. QED
    BY <1>13, <2>1, <2>2
<1>16. Accounted(n)'
  <2>1. /\ count'[n].external_counters = count[n].external_counters - 1
        /\ count[n].external_counters \in 0 .. 3
    BY <1>4, <1>15 DEF node_counter
  <2>2. /\ n \in InQueue' <=> n \in InQueue
        /\ n \in Ahead' <=> n \in Ahead
    BY <1>6, <1>12
  <2>3. CASE TailFolders(n) = {p} /\ TailFolders(n)' = {} /\ HeadFolders(n)' = HeadFolders(n)
    BY <1>12, <2>1, <2>2, <2>3 DEF Accounted
  <2>4. CASE HeadFolders(n) = {p} /\ HeadFolders(n)' = {} /\ TailFolders(n)' = TailFolders(n)
    BY <1>12, <2>1, <2>2, <2>4 DEF Accounted
  <2>. QED
    BY <1>13, <2>3, <2>4
<1>17. \A t, h : t \in Users(tail, n, TailFolders(n))' /\ h \in Users(head, n, HeadFolders(n))' =>
         \/ /\ t = 0 /\ old[p].external_count - 1 \in Users(tail, n, TailFolders(n))
            /\ h \in Users(head, n, HeadFolders(n))
         \/ /\ h = 0 /\ old[p].external_count - 1 \in Users(head, n, HeadFolders(n))
            /\ t \in Users(tail, n, TailFolders(n))
  <2>1. CASE /\ TailFolders(n) = {p} /\ TailFolders(n)' = {} /\ HeadFolders(n)' = HeadFolders(n)
             /\ n \notin Ahead
    <3>1. tail.ptr # n
      BY <2>1, Shape
    <3>2. /\ Users(tail, n, TailFolders(n))' = {0}
          /\ old[p].external_count - 1 \in Users(tail, n, TailFolders(n))
      BY <1>1, <2>1, <3>1 DEF Users
    <3>3. Users(head, n, HeadFolders(n))' = Users(head, n, HeadFolders(n))
      <4>1. {old'[q].external_count - 1 : q \in HeadFolders(n)'}
              = {old[q].external_count - 1 : q \in HeadFolders(n)}
        BY <1>1, <2>1
      <4>. QED
        BY <1>1, <2>1, <4>1 DEF Users
    <3>. QED
      BY <3>2, <3>3
  <2>2. CASE /\ HeadFolders(n) = {p} /\ HeadFolders(n)' = {} /\ TailFolders(n)' = TailFolders(n)
             /\ n \notin InQueue
    <3>1. head.ptr # n
      BY <2>2, Shape
    <3>2. /\ Users(head, n, HeadFolders(n))' = {0}
          /\ old[p].external_count - 1 \in Users(head, n, HeadFolders(n))
      BY <1>1, <2>2, <3>1 DEF Users
    <3>3. Users(tail, n, TailFolders(n))' = Users(tail, n, TailFolders(n))
      <4>1. {old'[q].external_count - 1 : q \in TailFolders(n)'}
              = {old[q].external_count - 1 : q \in TailFolders(n)}
        BY <1>1, <2>2
      <4>. QED
        BY <1>1, <2>2, <4>1 DEF Users
    <3>. QED
      BY <3>2, <3>3
  <2>. QED
    BY <1>13, <2>1, <2>2
<1>18. /\ Cardinality(Holders(n)') = Cardinality(Holders(n)) - 1
       /\ Cardinality(Holders(n)) \in Nat
  BY <1>3, <1>5, HoldersFinite, CardinalityRemove
\* Folding the count o, one of the two shares of n, moves it into internal_count.
<1>19. ASSUME NEW a \in Users(tail, n, TailFolders(n)), NEW b \in Users(head, n, HeadFolders(n)),
              NEW s \in Int, a + b = s + (old[p].external_count - 1)
       PROVE  c.internal_count = (Cardinality(Holders(n)') - s) % Modulus
  <2>. DEFINE x == Cardinality(Holders(n)) - a - b
              k == old[p].external_count - 2
  <2>1. a \in Int /\ b \in Int
    BY <1>3, UsersInt
  <2>2. x \in Int /\ k \in Int /\ x + k = Cardinality(Holders(n)') - s
    BY <1>4, <1>18, <1>19, <2>1
  <2>3. count[n].internal_count = x % Modulus
    BY <1>12 DEF Balanced
  <2>. HIDE DEF x
  <2>4. ((x % Modulus) + k) % Modulus = (x + k) % Modulus
    BY <2>2, ModulusAdd
  <2>. QED
    BY <1>4, <2>2, <2>3, <2>4
<1>20. Balanced(n)'
  <2>. SUFFICES ASSUME NEW t \in Users(tail, n, TailFolders(n))',
                       NEW h \in Users(head, n, HeadFolders(n))'
                PROVE  count'[n].internal_count = (Cardinality(Holders(n)') - t - h) % Modulus
    BY DEF Balanced
  <2>1. old[p].external_count - 1 \in Int
    BY <1>4
  <2>2. CASE /\ t = 0 /\ old[p].external_count - 1 \in Users(tail, n, TailFolders(n))
             /\ h \in Users(head, n, HeadFolders(n))
    <3>1. h \in Int /\ (old[p].external_count - 1) + h = h + (old[p].external_count - 1)
      BY <1>3, <2>1, <2>2, UsersInt
    <3>2. c.internal_count = (Cardinality(Holders(n)') - h) % Modulus
      BY <1>19, <2>2, <3>1
    <3>3. Cardinality(Holders(n)') - t - h = Cardinality(Holders(n)') - h
      BY <1>18, <2>2, <3>1
    <3>. QED
      BY <1>4, <3>2, <3>3
  <2>3. CASE /\ h = 0 /\ old[p].external_count - 1 \in Users(head, n, HeadFolders(n))
             /\ t \in Users(tail, n, TailFolders(n))
    <3>1. t \in Int /\ t + (old[p].external_count - 1) = t + (old[p].external_count - 1)
      BY <1>3, <2>3, UsersInt
    <3>2. c.internal_count = (Cardinality(Holders(n)') - t) % Modulus
      BY <1>19, <2>3, <3>1
    <3>3. Cardinality(Holders(n)') - t - h = Cardinality(Holders(n)') - t
      BY <1>18, <2>3, <3>1
    <3>. QED
      BY <1>4, <3>2, <3>3
  <2>. QED
    BY <1>17, <2>2, <2>3
<1>7. TailFolders(n)' \subseteq TailFolders(n) /\ HeadFolders(n)' \subseteq HeadFolders(n)
  BY <1>13
<1>8. Private' = Private /\ Ahead' = Ahead /\ InQueue' = InQueue /\ ChainOK' /\ CountsOK' /\ ReclaimOK'
  <2>1. \A m \in Nodes : /\ m # n => count'[m] = count[m]
                         /\ m # n => Holders(m)' = Holders(m)
                         /\ m # n => Deleters(m)' = Deleters(m)
                         /\ m # n => TailFolders(m)' = TailFolders(m)
                         /\ m # n => HeadFolders(m)' = HeadFolders(m)
    BY <1>4, <1>5
  <2>2. TailFolders(n)' \subseteq TailFolders(n) /\ HeadFolders(n)' \subseteq HeadFolders(n)
    BY <1>7
  <2>3. /\ Holders(n)' = Holders(n) \ {p}
        /\ Deleters(n)' = Deleters(n) \cup (IF count'[n] = Unused THEN {p} ELSE {})
    BY <1>5
  <2>4. UNCHANGED <<head, tail, heap, next, new_node, old, ptr>>
    BY <1>1
  <2>. QED
    BY <1>3, <1>6, <1>7, <1>16, <1>20, <2>1, <2>2, <2>3, <2>4, LetGoStructure
<1>9. NewNodesOK'
  <2>1. \A q \in Pushers : q # p => (Owning(q)' <=> Owning(q)) /\ pc'[q] = pc[q]
    BY <1>1 DEF Owning, Procs, Threads
  <2>2. p \in Pushers => (Owning(p)' <=> Owning(p)) /\ pc[p] # "crashed" /\ pc'[p] # "crashed"
    BY <1>1, <1>2 DEF Owning, LettingGo, PlacesOK
  <2>3. \A q \in Procs : new_node[q] # NULL => new_node[q] # n
    BY <1>3 DEF Private
  <2>4. NewNodesOK /\ ptr[p] = n /\ Pushers \subseteq Procs
    BY DEF Procs, Threads
  <2>5. UNCHANGED <<heap, data, next, new_node>>
    BY <1>1
  <2>6. \A m : m # n => count'[m] = count[m]
    BY <1>1
  <2>. HIDE DEF IInv, TypeOK
  <2>. QED
    BY <2>1, <2>2, <2>3, <2>4, <2>5, <2>6 DEF NewNodesOK
<1>10. UsesOK'
  <2>1. \A q \in Procs : pc'[q] \in Using => ptr[q] \in heap \ Private
    BY <1>1, <1>3 DEF UsesOK
  <2>2. \A q \in Procs : pc'[q] \in Counted => q # p /\ pc'[q] = pc[q]
    BY <1>1, <1>2 DEF Counted
  <2>. QED
    BY <1>1, <1>8, <2>1, <2>2 DEF UsesOK, Counted
<1>11. DataOK'
  <2>1. \A q \in Procs : pc'[q] \in {"push_trace", "push_next", "push_help", "pop_data"} => pc'[q] = pc[q]
    BY <1>1, <1>2
  <2>. QED
    BY <1>1, <1>8, <2>1 DEF DataOK
<1>30. QueueKept
  BY <1>1, <1>8 DEF QueueKept
<1>. QED
  BY <1>8, <1>9, <1>10, <1>11, <1>30

\* The delete, by the one thread that has decided it.
LEMMA DeleteNodeStep ==
  ASSUME IInv, TypeOK', PlacesOK', NEW p \in Procs, DeleteNode(p)
  PROVE  IInv' /\ QueueKept
<1>. USE DEF IInv, TypeOK
<1>. PICK n : n = ptr[p]
  OBVIOUS
<1>1. /\ UNCHANGED <<head, tail, data, count, next, cont, old, ptr, new_node, new_tail>>
      /\ \A q \in Procs \ {p} : pc'[q] = pc[q]
      /\ pc[p] = "delete" /\ pc'[p] = cont[p]
      /\ heap' = heap \ {n}
  BY DEF DeleteNode, At, Goto, links, push
<1>2. cont[p] \in {"push_increase", "pop_increase", "return"}
  BY DEF PlacesOK
<1>3. n \in Nodes /\ n \in heap \ Private /\ p \in Deleters(n)
  BY <1>1, UsedNodes DEF Using, Deleters
<1>4. Deleters(n) = {p} /\ Holders(n) = {} /\ n \notin InQueue
  BY <1>3, Shape DEF ReclaimOK
<1>5. /\ \A m : Holders(m)' = Holders(m)
      /\ \A m : TailFolders(m)' = TailFolders(m) /\ HeadFolders(m)' = HeadFolders(m)
      /\ \A m : m # n => Deleters(m)' = Deleters(m)
      /\ Deleters(n)' = {}
  BY <1>1, <1>2, <1>4 DEF Holders, Deleters, TailFolders, HeadFolders, Procs, Threads
<1>6. Private' = Private /\ Ahead' = Ahead /\ heap' \ Private' = (heap \ Private) \ {n}
  BY <1>1 DEF Private, Ahead
<1>7. InQueue' = InQueue
  BY <1>1, <1>4, <1>5, <1>6 DEF InQueue, Outstanding
<1>8. ChainOK'
  BY <1>1, <1>5, <1>6, <1>7 DEF ChainOK
<1>9. CountsOK'
  <2>1. ASSUME NEW m \in heap' \ Private' PROVE Balanced(m)' /\ Accounted(m)'
    <3>1. m \in Nodes /\ Balanced(m) /\ Accounted(m)
      BY <1>6, Shape DEF CountsOK
    <3>2. /\ Users(tail, m, TailFolders(m))' = Users(tail, m, TailFolders(m))
          /\ Users(head, m, HeadFolders(m))' = Users(head, m, HeadFolders(m))
      BY <1>1, <1>5, SameUsers
    <3>. QED
      BY <1>1, <1>5, <1>6, <1>7, <3>1, <3>2 DEF Balanced, Accounted
  <2>. QED
    BY <1>5, <1>6, <2>1 DEF CountsOK
<1>10. ReclaimOK'
  BY <1>1, <1>5, <1>6, <1>7 DEF ReclaimOK
<1>11. NewNodesOK'
  <2>1. \A q \in Pushers : q # p => (Owning(q)' <=> Owning(q)) /\ pc'[q] = pc[q]
    BY <1>1 DEF Owning, Procs, Threads
  <2>2. p \in Pushers => (Owning(p)' <=> Owning(p)) /\ pc[p] # "crashed" /\ pc'[p] # "crashed"
    BY <1>1, <1>2 DEF Owning, LettingGo, PlacesOK
  <2>3. \A q \in Procs : new_node[q] # NULL => new_node[q] # n
    BY <1>3 DEF Private
  <2>. QED
    BY <1>1, <2>1, <2>2, <2>3 DEF NewNodesOK
<1>12. UsesOK'
  <2>1. \A q \in Procs : pc'[q] \in Using => q # p /\ pc'[q] = pc[q] /\ ptr[q] # n
    <3>1. \A q \in Procs : pc[q] \in Using => q \in Holders(ptr[q]) \cup Deleters(ptr[q])
      BY DEF Using, Holders, Deleters
    <3>2. \A q \in Procs : pc'[q] \in Using => q # p /\ pc'[q] = pc[q]
      BY <1>1, <1>2 DEF Using
    <3>. QED
      BY <1>4, <3>1, <3>2
  <2>2. \A q \in Procs : pc'[q] \in Counted => pc'[q] = pc[q]
    BY <1>1, <1>2 DEF Counted
  <2>. QED
    BY <1>1, <1>6, <2>1, <2>2 DEF UsesOK, Counted
<1>13. DataOK'
  <2>1. \A q \in Procs : pc'[q] \in {"push_trace", "push_next", "push_help", "pop_data"} => pc'[q] = pc[q]
    BY <1>1, <1>2
  <2>. QED
    BY <1>1, <1>7, <2>1 DEF DataOK
<1>20. QueueKept
  BY <1>1, <1>7 DEF QueueKept
<1>. QED
  BY <1>8, <1>9, <1>10, <1>11, <1>12, <1>13, <1>20

----------------------------------------------------------------------------
(* Every step. *)

LEMMA QueueStep ==
  ASSUME IInv, TypeOK', NEW p \in Procs, Step(p)
  PROVE  IInv' /\ (QueueKept \/ NodeLinked \/ HeadMoved)
<1>1. PlacesOK'
  BY PlacesStep
<1>. QED
  BY <1>1, QuietStep, MoveStep, DataStep, PushAllocateStep, PushNextTakenStep,
     IncreaseStep, PushNextStep, HelpNextStep, SetNewTailStep, PopHeadStep, ReleaseRefStep,
     FreeExternalCounterStep, DeleteNodeStep
     DEF Step, Push, Pop, LetGo

LEMMA IInvStep == IInv /\ [Next]_vars => IInv'
<1>. SUFFICES ASSUME IInv, [Next]_vars PROVE IInv'
  OBVIOUS
<1>1. TypeOK'
  BY TypeStep
<1>2. CASE UNCHANGED vars
  <2>1. PlacesOK' /\ NewNodesOK'
    BY <1>2 DEF vars, links, nodes, push, client, IInv, PlacesOK, NewNodesOK, Owning
  <2>2. \A n : /\ Holders(n)' = Holders(n) /\ Deleters(n)' = Deleters(n)
               /\ TailFolders(n)' = TailFolders(n) /\ HeadFolders(n)' = HeadFolders(n)
    BY <1>2 DEF vars, Holders, Deleters, TailFolders, HeadFolders
  <2>3. Private' = Private
    BY <1>2 DEF vars, push, Private
  <2>4. \A n \in Nodes : Deleters(n) # {} => n \in heap \ Private
    BY DEF IInv, UsesOK, Using, Deleters
  <2>5. Ahead' = Ahead /\ InQueue' = InQueue /\ ChainOK' /\ CountsOK' /\ ReclaimOK'
    BY <1>2, <2>2, <2>3, <2>4, SameStructure DEF vars, links, nodes
  <2>6. UsesOK' /\ DataOK'
    BY <1>2, <2>3, <2>5 DEF vars, links, nodes, push, IInv, UsesOK, DataOK
  <2>. QED
    BY <1>1, <2>1, <2>5, <2>6 DEF IInv
<1>3. ASSUME NEW p \in Procs, Step(p) PROVE IInv'
  BY <1>1, <1>3, QueueStep
<1>. QED
  BY <1>2, <1>3 DEF Next, Terminated, OutOfMemory, CountedOut

\* The inductive invariant holds in every reachable state.
THEOREM Invariance == Spec => []IInv
<1>1. Init => IInv
  BY InitIInv
<1>. QED
  BY <1>1, IInvStep, PTL DEF Spec

\* Every variable keeps a value of its C++ type; in particular internal_count
\* and external_counters stay within their bit fields.
THEOREM TypeCorrect == Spec => []TypeOK
<1>1. IInv => TypeOK
  BY DEF IInv
<1>. QED
  BY <1>1, Invariance, PTL

----------------------------------------------------------------------------
(* IInv leaves open whether a node of the queue can be cut off from head,  *)
(* who moves tail on, and what Main has seen; three conjuncts settle that, *)
(* and are inductive beside IInv.                                          *)

LEMMA ReachableStep ==
  ASSUME IInv, TypeOK', Reachable, NEW p \in Procs, Step(p)
  PROVE  Reachable'
<1>. SUFFICES ASSUME NEW C \in SUBSET Nodes, Closed(C)' PROVE InQueue' \subseteq C
  BY DEF Reachable
<1>1. CASE QueueKept
  <2>1. Closed(C)
    BY <1>1 DEF QueueKept, Closed
  <2>. QED
    BY <1>1, <2>1 DEF QueueKept, Reachable
<1>2. CASE NodeLinked
  <2>1. PICK m \in Nodes : /\ InQueue' = InQueue \cup {m}
                           /\ next'[tail.ptr].ptr = m
                           /\ \A n \in InQueue : n # tail.ptr => next'[n] = next[n]
    BY <1>2 DEF NodeLinked
  <2>2. head' = head /\ next[tail.ptr].ptr = NULL
    BY <1>2 DEF NodeLinked
  <2>3. Closed(C)
    BY <2>1, <2>2 DEF Closed
  <2>4. InQueue \subseteq C /\ tail.ptr \in InQueue
    BY <2>3, Shape DEF Reachable
  <2>5. m \in C
    BY <2>1, <2>4, QueueAssumption DEF Closed
  <2>. QED
    BY <2>1, <2>4, <2>5
<1>3. CASE HeadMoved
  <2>1. head.ptr \in Nodes
    BY Shape
  <2>2. Closed(C \cup {head.ptr})
    BY <1>3 DEF HeadMoved, Closed
  <2>3. InQueue \subseteq C \cup {head.ptr}
    BY <2>1, <2>2 DEF Reachable
  <2>. QED
    BY <1>3, <2>3 DEF HeadMoved
<1>. QED
  BY <1>1, <1>2, <1>3, QueueStep

LEMMA TailFollowedStep ==
  ASSUME IInv, TypeOK', TailFollowed, NEW p \in Procs, Step(p)
  PROVE  TailFollowed'
<1>. USE DEF IInv, TypeOK
<1>1. CASE PushNext(p) \/ HelpNext(p)
  <2>1. p \in Pushers /\ pc'[p] = "set_tail" /\ ptr[p] = tail.ptr
    BY <1>1, LinkFacts
  <2>2. tail' = tail /\ ptr' = ptr
    BY <1>1 DEF PushNext, HelpNext, links
  <2>. QED
    BY <2>1, <2>2 DEF TailFollowed
<1>2. CASE SetNewTail(p)
  <2>1. pc[p] = "set_tail" /\ tail = old[p] /\ tail' = new_tail[p] /\ next' = next
    BY <1>2 DEF SetNewTail, At, nodes
  <2>2. tail' = next[tail.ptr] /\ next[tail.ptr].ptr # NULL
    BY <2>1 DEF UsesOK, Counted
  <2>3. next'[tail'.ptr].ptr = NULL
    BY <2>1, <2>2, Shape DEF ChainOK
  <2>. QED
    BY <2>3 DEF TailFollowed
<1>3. CASE ~ PushNext(p) /\ ~ HelpNext(p) /\ ~ SetNewTail(p)
  <2>1. tail'.ptr = tail.ptr
    BY <1>3 DEF Step, Push, Pop, LetGo, PushAllocate, PushIncrease, PushReload, PushData,
          PushDataTaken, TraceData, PushNextTaken, HelpNextTaken, SetNewTailLost, PopLoad,
          PopIncrease, PopReload, PopEmpty, PopNotEmpty, PopHead, PopHeadLost, PopData,
          ReleaseRef, FreeExternalCounter, TraceCount, DeleteNode, Return, Increase, Reload,
          counted_node_ptr, links
  <2>2. next'[tail.ptr] = next[tail.ptr]
    <3>1. CASE PushAllocate(p)
      BY <3>1, Shape DEF PushAllocate, NewNode
    <3>2. CASE ~ PushAllocate(p)
      BY <1>3, <3>2 DEF Step, Push, Pop, LetGo, PushIncrease, PushReload, PushData,
            PushDataTaken, TraceData, PushNextTaken, HelpNextTaken, SetNewTailLost, PopLoad,
            PopIncrease, PopReload, PopEmpty, PopNotEmpty, PopHead, PopHeadLost, PopData,
            ReleaseRef, FreeExternalCounter, TraceCount, DeleteNode, Return, Reload, nodes
    <3>. QED
      BY <3>1, <3>2
  <2>3. ASSUME NEW t \in Pushers, pc[t] = "set_tail", ptr[t] = tail.ptr
        PROVE  pc'[t] = "set_tail" /\ ptr'[t] = ptr[t]
    <3>0. t \in Procs
      BY DEF Procs, Threads
    <3>1. CASE SetNewTailLost(p)
      BY <2>3, <3>0, <3>1 DEF SetNewTailLost, Goto
    <3>2. CASE ~ SetNewTailLost(p)
      <4>1. t # p
        BY <1>3, <2>3, <3>2, QueueAssumption
           DEF Step, Push, Pop, LetGo, PushAllocate, PushIncrease, PushReload, PushData,
            PushDataTaken, TraceData, PushNextTaken, HelpNextTaken, PopLoad,
            PopIncrease, PopReload, PopEmpty, PopNotEmpty, PopHead, PopHeadLost, PopData,
            ReleaseRef, FreeExternalCounter, TraceCount, DeleteNode, Return, At, Pushing,
            Popping, Destroying
      <4>2. pc'[t] = pc[t]
        BY <1>3, <3>0, <3>2, <4>1
           DEF Step, Push, Pop, LetGo, PushAllocate, PushIncrease, PushReload, PushData,
            PushDataTaken, TraceData, PushNextTaken, HelpNextTaken, PopLoad,
            PopIncrease, PopReload, PopEmpty, PopNotEmpty, PopHead, PopHeadLost, PopData,
            ReleaseRef, FreeExternalCounter, TraceCount, DeleteNode, Return, Reload, Goto
      <4>3. ptr'[t] = ptr[t]
        BY <1>3, <3>0, <3>2, <4>1
           DEF Step, Push, Pop, LetGo, PushAllocate, PushIncrease, PushReload, PushData,
            PushDataTaken, TraceData, PushNextTaken, HelpNextTaken, PopLoad,
            PopIncrease, PopReload, PopEmpty, PopNotEmpty, PopHead, PopHeadLost, PopData,
            ReleaseRef, FreeExternalCounter, TraceCount, DeleteNode, Return, Increase, Reload
      <4>. QED
        BY <2>3, <4>2, <4>3
    <3>. QED
      BY <3>1, <3>2
  <2>. QED
    BY <2>1, <2>2, <2>3 DEF TailFollowed
<1>. QED
  BY <1>1, <1>2, <1>3

LEMMA MainLastStep ==
  ASSUME IInv, TypeOK', MainLast, NEW p \in Procs, Step(p)
  PROVE  MainLast'
<1>. USE DEF IInv, TypeOK
<1>1. Main \in Procs /\ Main \notin Threads /\ Main \notin Pushers /\ Pushers \subseteq Procs
  BY QueueAssumption DEF Procs, Threads
<1>2. ASSUME p \in Threads PROVE MainLast'
  <2>0. p # Main
    BY <1>1, <1>2
  <2>1. ~ Finished(p)
    BY <1>2, <2>0, QueueAssumption DEF Step, Push, Pop, LetGo, PushAllocate, PushIncrease,
          PushReload, PushData, PushDataTaken, TraceData, PushNext, PushNextTaken, HelpNext,
          HelpNextTaken, SetNewTail, SetNewTailLost, PopLoad, PopIncrease, PopReload, PopEmpty,
          PopNotEmpty, PopHead, PopHeadLost, PopData, ReleaseRef, FreeExternalCounter,
          TraceCount, DeleteNode, Return, At, Pushing, Popping, Destroying, Finished
  <2>2. pc[Main] = "idle" /\ ~ destroyed
    BY <1>2, <2>1 DEF MainLast
  <2>3. pc'[Main] = "idle"
    BY <1>1, <2>0, <2>2 DEF Step, Push, Pop, LetGo, PushAllocate, PushIncrease,
          PushReload, PushData, PushDataTaken, TraceData, PushNext, PushNextTaken, HelpNext,
          HelpNextTaken, SetNewTail, SetNewTailLost, PopLoad, PopIncrease, PopReload, PopEmpty,
          PopNotEmpty, PopHead, PopHeadLost, PopData, ReleaseRef, FreeExternalCounter,
          TraceCount, DeleteNode, Return, Reload, Goto
  <2>4. ~ destroyed'
    BY <2>0, <2>2 DEF Step, Push, Pop, LetGo, PushAllocate, PushIncrease,
          PushReload, PushData, PushDataTaken, TraceData, PushNext, PushNextTaken, HelpNext,
          HelpNextTaken, SetNewTail, SetNewTailLost, PopLoad, PopIncrease, PopReload, PopEmpty,
          PopNotEmpty, PopHead, PopHeadLost, PopData, ReleaseRef, FreeExternalCounter,
          TraceCount, DeleteNode, Return, Reload, client
  <2>. QED
    BY <2>3, <2>4 DEF MainLast, LettingGo
<1>3. ASSUME p = Main PROVE MainLast'
  <2>1. \A t \in Threads : Finished(t)
    <3>1. CASE PopLoad(p)
      BY <1>1, <1>3, <3>1 DEF PopLoad, Popping, Destroying, Threads
    <3>2. CASE ~ PopLoad(p)
      <4>1. pc[Main] # "idle"
        BY <1>1, <1>3, <3>2 DEF Step, Push, Pop, LetGo, PushAllocate, PushIncrease,
          PushReload, PushData, PushDataTaken, TraceData, PushNext, PushNextTaken, HelpNext,
          HelpNextTaken, SetNewTail, SetNewTailLost, PopIncrease, PopReload, PopEmpty,
          PopNotEmpty, PopHead, PopHeadLost, PopData, ReleaseRef, FreeExternalCounter,
          TraceCount, DeleteNode, Return, At, Pushing
      <4>. QED
        BY <4>1 DEF MainLast
    <3>. QED
      BY <3>1, <3>2
  <2>2. ~ Push(p)
    <3>1. pc[p] \notin PushLabels
      BY <1>1, <1>3, QueueAssumption DEF PlacesOK, PushLabels, PopLabels, LettingGo
    <3>. QED
      BY <1>1, <1>3, <3>1 DEF PushLabels, Push, PushAllocate, PushIncrease, PushReload, PushData,
          PushDataTaken, TraceData, PushNext, PushNextTaken, HelpNext, HelpNextTaken, SetNewTail,
          SetNewTailLost, At, Pushing
  <2>3. todo' = todo
    BY <1>1, <1>3, <2>2 DEF Step, Pop, LetGo, PopLoad, PopIncrease, PopReload, PopEmpty,
          PopNotEmpty, PopHead, PopHeadLost, PopData, ReleaseRef, FreeExternalCounter,
          TraceCount, DeleteNode, Return, Reload, client
  <2>4. \A q \in Procs \ {Main} : pc'[q] = pc[q]
    BY <1>3, <2>2 DEF Step, Pop, LetGo, PopLoad, PopIncrease, PopReload, PopEmpty,
          PopNotEmpty, PopHead, PopHeadLost, PopData, ReleaseRef, FreeExternalCounter,
          TraceCount, DeleteNode, Return, Reload, Goto
  <2>5. \A t \in Threads : Finished(t)'
    BY <1>1, <2>1, <2>3, <2>4 DEF Finished, Procs
  <2>6. CASE Return(p)
    BY <1>1, <1>3, <2>5, <2>6 DEF Return, At, Goto, links, MainLast, LettingGo
  <2>7. CASE PopLoad(p) \/ PopReload(p)
    <3>1. ~ destroyed' /\ pc'[Main] = "pop_increase"
      BY <1>1, <1>3, <2>7 DEF MainLast, PopLoad, PopReload, Reload, At, Goto, Popping, Destroying,
            client, Threads
    <3>. QED
      BY <2>5, <3>1 DEF MainLast, LettingGo
  <2>8. CASE PopIncrease(p)
    <3>1. ~ destroyed' /\ pc'[Main] = "pop_tail" /\ head' = old'[Main]
      BY <1>1, <1>3, <2>8 DEF MainLast, PopIncrease, Increase, At, Goto, client
    <3>. QED
      BY <2>5, <3>1 DEF MainLast, LettingGo
  <2>9. CASE PopEmpty(p)
    <3>1. /\ ~ destroyed' /\ pc'[Main] = "release" /\ UNCHANGED <<head, tail>>
          /\ pc[Main] = "pop_tail" /\ ptr[Main] = tail.ptr
      BY <1>1, <1>3, <2>9 DEF MainLast, PopEmpty, At, Goto, client, links
    <3>2. head.ptr = ptr[Main]
      BY <1>1, <3>1 DEF MainLast, UsesOK, Counted
    <3>. QED
      BY <2>5, <3>1, <3>2 DEF MainLast
  <2>10. CASE PopNotEmpty(p)
    <3>1. /\ ~ destroyed' /\ pc'[Main] = "pop_head" /\ UNCHANGED <<head, old>>
          /\ pc[Main] = "pop_tail"
      BY <1>1, <1>3, <2>10 DEF MainLast, PopNotEmpty, At, Goto, client, links
    <3>. QED
      BY <2>5, <3>1 DEF MainLast, LettingGo
  <2>11. CASE PopHead(p)
    <3>1. ~ destroyed' /\ pc'[Main] = "pop_data"
      BY <1>1, <1>3, <2>11 DEF MainLast, PopHead, At, Goto, client
    <3>. QED
      BY <2>5, <3>1 DEF MainLast, LettingGo
  <2>12. ~ PopHeadLost(p)
    BY <1>3 DEF PopHeadLost, At, MainLast
  <2>13. CASE PopData(p)
    <3>1. ~ destroyed' /\ pc'[Main] = "free" /\ val'[Main] = data[ptr[Main]] /\ pc[Main] = "pop_data"
      BY <1>1, <1>3, <2>13 DEF MainLast, PopData, At, Goto, client
    <3>2. val'[Main] # NULL
      BY <1>1, <3>1 DEF DataOK
    <3>. QED
      BY <2>5, <3>1, <3>2 DEF MainLast, LettingGo
  <2>14. CASE ReleaseRef(p) \/ FreeExternalCounter(p) \/ TraceCount(p) \/ DeleteNode(p)
    <3>1. /\ ~ destroyed' /\ UNCHANGED <<head, tail, val>> /\ pc[Main] \in LettingGo
          /\ pc'[Main] \in LettingGo \cup {cont[Main]}
      BY <1>1, <1>3, <2>14 DEF MainLast, ReleaseRef, FreeExternalCounter, TraceCount, DeleteNode,
            At, Goto, client, links, LettingGo
    <3>2. cont[Main] \in {"pop_increase", "return"}
      BY <1>1 DEF PlacesOK
    <3>. QED
      BY <2>5, <3>1, <3>2 DEF MainLast, LettingGo
  <2>. QED
    BY <2>2, <2>6, <2>7, <2>8, <2>9, <2>10, <2>11, <2>12, <2>13, <2>14 DEF Step, Pop, LetGo
<1>. QED
  BY <1>2, <1>3 DEF Procs

LEMMA QueueInvStep == QueueInv /\ [Next]_vars => QueueInv'
<1>. SUFFICES ASSUME QueueInv, [Next]_vars PROVE QueueInv'
  OBVIOUS
<1>1. IInv' /\ TypeOK'
  BY IInvStep DEF QueueInv, IInv
<1>2. CASE UNCHANGED vars
  <2>1. Reachable' /\ TailFollowed'
    <3>1. Private' = Private /\ \A n : TailFolders(n)' = TailFolders(n) /\ HeadFolders(n)' = HeadFolders(n)
      BY <1>2 DEF vars, push, Private, TailFolders, HeadFolders
    <3>2. InQueue' = InQueue
      BY <1>2, <3>1 DEF vars, nodes, InQueue, Outstanding
    <3>. QED
      BY <1>2, <3>2 DEF vars, links, nodes, QueueInv, Reachable, Closed, TailFollowed
  <2>2. MainLast'
    BY <1>2 DEF vars, links, client, QueueInv, MainLast, Finished
  <2>. QED
    BY <1>1, <2>1, <2>2 DEF QueueInv
<1>3. ASSUME NEW p \in Procs, Step(p) PROVE QueueInv'
  BY <1>1, <1>3, ReachableStep, TailFollowedStep, MainLastStep DEF QueueInv
<1>. QED
  BY <1>2, <1>3 DEF Next, Terminated, OutOfMemory, CountedOut

LEMMA InitQueueInv == Init => QueueInv
<1>. SUFFICES ASSUME Init PROVE QueueInv
  OBVIOUS
<1>1. IInv
  BY InitIInv
<1>2. heap = {head.ptr} /\ next[tail.ptr].ptr = NULL
  BY DEF Init, Link, NullPtr
<1>3. Reachable /\ TailFollowed
  BY <1>2 DEF Reachable, Closed, InQueue, TailFollowed
<1>4. MainLast
  BY DEF Init, MainLast, Procs, LettingGo
<1>. QED
  BY <1>1, <1>3, <1>4 DEF QueueInv

\* The queue is connected, tail is moved on, and Main is alone when it pops.
THEOREM Connected == Spec => []QueueInv
BY InitQueueInv, QueueInvStep, PTL DEF Spec

\* What head and tail lead to, following the links.
LEMMA ChainIsQueue ==
  ASSUME QueueInv
  PROVE  Linked = InQueue /\ From(tail.ptr) = Ahead
<1>. USE DEF QueueInv, IInv
<1>1. InQueue \subseteq Nodes /\ NULL \notin InQueue
  BY Shape, QueueAssumption
<1>2. Linked \subseteq InQueue
  <2>1. \A m \in InQueue : next[m].ptr \in InQueue \cup {NULL}
    <3>1. \A m \in Ahead : next[m].ptr \in InQueue \cup {NULL}
      BY Shape DEF ChainOK, Ahead
    <3>. QED
      BY <3>1 DEF ChainOK
  <2>2. head.ptr \in InQueue
    BY Shape
  <2>. QED
    BY <1>1, <2>1, <2>2 DEF Linked, From
<1>3. InQueue \subseteq Linked
  <2>1. ASSUME NEW C \in SUBSET Nodes, head.ptr \in C \cup {NULL},
               \A m \in C : next[m].ptr \in C \cup {NULL}
        PROVE  InQueue \subseteq C
    <3>1. Closed(C)
      BY <1>1, <2>1, Shape DEF Closed
    <3>. QED
      BY <3>1 DEF Reachable
  <2>. QED
    BY <1>1, <2>1 DEF Linked, From
<1>4. From(tail.ptr) \subseteq Ahead
  <2>1. Ahead \subseteq Nodes /\ tail.ptr \in Ahead
    BY <1>1, Shape DEF ChainOK
  <2>2. \A m \in Ahead : next[m].ptr \in Ahead \cup {NULL}
    BY Shape DEF ChainOK, Ahead
  <2>. QED
    BY <2>1, <2>2 DEF From
<1>5. Ahead \subseteq From(tail.ptr)
  <2>1. ASSUME NEW C \in SUBSET Nodes, tail.ptr \in C \cup {NULL},
               \A m \in C : next[m].ptr \in C \cup {NULL}
        PROVE  Ahead \subseteq C
    BY <2>1 DEF ChainOK, Ahead
  <2>2. Ahead \subseteq Nodes
    BY <1>1 DEF ChainOK
  <2>. QED
    BY <2>1, <2>2 DEF From
<1>. QED
  BY <1>2, <1>3, <1>4, <1>5

\* The cardinality of a set of at most one element.
LEMMA CardinalityAtMostOne ==
  ASSUME NEW S, \A x, y \in S : x = y
  PROVE  Cardinality(S) = IF S = {} THEN 0 ELSE 1
<1>1. CASE S = {}
  BY <1>1, FS_EmptySet
<1>2. CASE S # {}
  <2>1. PICK x : S = {x}
    BY <1>2
  <2>. QED
    BY <2>1, FS_Singleton
<1>. QED
  BY <1>1, <1>2

\* The counts of increase_external_count, release_ref, free_external_counter and
\* set_new_tail balance: between them the two fields of a node's count and the
\* two counted pointers that lead to it know its number of users exactly.
THEOREM CountsBalance == Spec => []RefCounts
<1>1. QueueInv => RefCounts
  <2>. SUFFICES ASSUME QueueInv, NEW n \in heap \ Private
                PROVE  /\ Balanced(n)
                       /\ count[n].external_counters
                            = Cardinality(TailFolders(n)) + Cardinality(HeadFolders(n))
                                + (IF n \in Linked THEN 1 ELSE 0)
                                + (IF n \in From(tail.ptr) THEN 1 ELSE 0)
    BY DEF RefCounts, Balanced
  <2>. USE DEF QueueInv, IInv
  <2>1. n \in Nodes /\ Balanced(n) /\ Accounted(n)
    BY Shape DEF CountsOK
  <2>2. /\ \A p, q \in TailFolders(n) : p = q
        /\ \A p, q \in HeadFolders(n) : p = q
    BY <2>1 DEF CountsOK
  <2>3. Cardinality(TailFolders(n)) = IF TailFolders(n) = {} THEN 0 ELSE 1
    BY <2>2, CardinalityAtMostOne
  <2>4. Cardinality(HeadFolders(n)) = IF HeadFolders(n) = {} THEN 0 ELSE 1
    BY <2>2, CardinalityAtMostOne
  <2>. QED
    BY <2>1, <2>3, <2>4, ChainIsQueue DEF Accounted
<1>. QED
  BY <1>1, Connected, PTL

\* No push and no pop touches a node that has been deleted, and each removed
\* node is deleted by one thread, after everybody else has let go of it.
THEOREM SafeReclamation == Spec => []MemorySafe
<1>1. QueueInv => MemorySafe
  <2>. SUFFICES ASSUME QueueInv PROVE MemorySafe
    OBVIOUS
  <2>. USE DEF QueueInv, IInv
  <2>1. \A n \in Nodes : Holders(n) \cup Deleters(n) # {} => n \in heap
    BY UsedNodes DEF Holders, Deleters, Using
  <2>2. ASSUME NEW n \in Nodes, Deleters(n) # {}
        PROVE  Cardinality(Deleters(n)) = 1 /\ Holders(n) = {} /\ n \notin Linked \cup Private
    <3>1. Holders(n) = {} /\ \A p, q \in Deleters(n) : p = q
      BY <2>2 DEF ReclaimOK
    <3>2. Cardinality(Deleters(n)) = 1
      BY <2>2, <3>1, CardinalityAtMostOne
    <3>. QED
      BY <2>2, <3>1, <3>2, Shape, ChainIsQueue
  <2>3. Linked \cup Private \subseteq heap /\ tail.ptr \in Linked
    BY Shape, ChainIsQueue DEF Private, NewNodesOK
  <2>. QED
    BY <2>1, <2>2, <2>3 DEF MemorySafe
<1>. QED
  BY <1>1, Connected, PTL

\* No node is forgotten while the queue is used, and ~lock_free_queue frees every
\* node but the last dummy (line 170 only pops).
THEOREM NothingLeaks == Spec => []NoLeak
<1>1. QueueInv => NoLeak
  <2>. SUFFICES ASSUME QueueInv PROVE NoLeak
    OBVIOUS
  <2>. USE DEF QueueInv, IInv
  <2>1. \A n \in heap \ (Linked \cup Private) : Holders(n) \cup Deleters(n) # {}
    BY ChainIsQueue DEF ReclaimOK
  <2>2. ASSUME destroyed PROVE heap = {head.ptr}
    <3>1. \A p \in Procs : pc[p] = "idle"
      BY <2>2 DEF MainLast, Finished, Procs
    <3>2. \A n : Holders(n) = {} /\ Deleters(n) = {}
      BY <3>1 DEF Holders, Deleters
    <3>3. Private = {}
      <4>1. \A p \in Procs : new_node[p] = NULL
        BY <3>1, QueueAssumption DEF NewNodesOK, PlacesOK, Owning, LettingGo, Procs, Threads
      <4>. QED
        BY <4>1 DEF Private
    <3>4. heap \subseteq InQueue
      BY <3>2, <3>3 DEF ReclaimOK
    <3>5. head.ptr = tail.ptr
      BY <2>2 DEF MainLast
    <3>6. next[tail.ptr].ptr = NULL
      BY <3>1 DEF TailFollowed, Procs, Threads
    <3>7. Closed({head.ptr}) /\ head.ptr \in Nodes
      BY <3>5, <3>6, Shape DEF Closed
    <3>8. InQueue \subseteq {head.ptr}
      BY <3>7 DEF Reachable
    <3>. QED
      BY <3>4, <3>8, Shape
  <2>. QED
    BY <2>1, <2>2 DEF NoLeak
<1>. QED
  BY <1>1, Connected, PTL

----------------------------------------------------------------------------
(* The callers' order: the tests join the pushers before they start the    *)
(* poppers.                                                                *)

LEMMA PushersFirstStep ==
  ASSUME Phased, IInv, IInv', PushersFirst, NEW p \in Procs, Step(p)
  PROVE  PushersFirst'
<1>. USE DEF IInv, TypeOK
<1>0. Pushers \subseteq Procs /\ Main \notin Pushers /\ Poppers \cap Pushers = {}
  BY QueueAssumption DEF Procs, Threads
<1>1. \A q \in Procs : pc'[q] # "crashed"
  <2>1. \A q \in Procs : q # p => pc'[q] = pc[q]
    BY DEF Step, Push, Pop, LetGo, PushAllocate, PushIncrease,
          PushReload, PushData, PushDataTaken, TraceData, PushNext, PushNextTaken, HelpNext,
          HelpNextTaken, SetNewTail, SetNewTailLost, PopLoad, PopIncrease, PopReload, PopEmpty,
          PopNotEmpty, PopHead, PopHeadLost, PopData, ReleaseRef, FreeExternalCounter,
          TraceCount, DeleteNode, Return, Reload, Goto
  <2>2. pc'[p] # "crashed"
    <3>1. CASE TraceData(p)
      BY <3>1 DEF TraceData, At, Goto, PushersFirst
    <3>2. CASE ~ TraceData(p)
      <4>1. cont[p] # "crashed"
        OBVIOUS
      <4>. QED
        BY <3>2, <4>1 DEF Step, Push, Pop, LetGo, PushAllocate, PushIncrease,
          PushReload, PushData, PushDataTaken, PushNext, PushNextTaken, HelpNext,
          HelpNextTaken, SetNewTail, SetNewTailLost, PopLoad, PopIncrease, PopReload, PopEmpty,
          PopNotEmpty, PopHead, PopHeadLost, PopData, ReleaseRef, FreeExternalCounter,
          TraceCount, DeleteNode, Return, Reload, Goto, At
    <3>. QED
      BY <3>1, <3>2
  <2>. QED
    BY <2>1, <2>2 DEF PushersFirst
<1>2. ASSUME NEW t \in Pushers, ~ Finished(t)', NEW q \in Procs \ Pushers PROVE pc'[q] = "idle"
  <2>1. CASE Finished(t)
    <3>1. p # t
      BY <1>0, <2>1 DEF Finished, Step, Push, Pop, LetGo, PushAllocate, PushIncrease,
          PushReload, PushData, PushDataTaken, TraceData, PushNext, PushNextTaken, HelpNext,
          HelpNextTaken, SetNewTail, SetNewTailLost, PopLoad, PopIncrease, PopReload, PopEmpty,
          PopNotEmpty, PopHead, PopHeadLost, PopData, ReleaseRef, FreeExternalCounter,
          TraceCount, DeleteNode, Return, At, Pushing, Popping, Destroying
    <3>2. pc'[t] = pc[t]
      BY <1>0, <3>1 DEF Step, Push, Pop, LetGo, PushAllocate, PushIncrease,
          PushReload, PushData, PushDataTaken, TraceData, PushNext, PushNextTaken, HelpNext,
          HelpNextTaken, SetNewTail, SetNewTailLost, PopLoad, PopIncrease, PopReload, PopEmpty,
          PopNotEmpty, PopHead, PopHeadLost, PopData, ReleaseRef, FreeExternalCounter,
          TraceCount, DeleteNode, Return, Reload, Goto
    <3>3. todo'[t] = todo[t]
      BY <3>1 DEF Threads, Step, Push, Pop, LetGo, PushAllocate, PushIncrease,
          PushReload, PushData, PushDataTaken, TraceData, PushNext, PushNextTaken, HelpNext,
          HelpNextTaken, SetNewTail, SetNewTailLost, PopLoad, PopIncrease, PopReload, PopEmpty,
          PopNotEmpty, PopHead, PopHeadLost, PopData, ReleaseRef, FreeExternalCounter,
          TraceCount, DeleteNode, Return, Reload, client
    <3>. QED
      BY <1>2, <2>1, <3>2, <3>3 DEF Finished
  <2>2. CASE ~ Finished(t)
    <3>1. pc[q] = "idle"
      BY <1>2, <2>2 DEF PushersFirst
    <3>2. CASE p = q
      <4>1. ~ Popping(q) /\ ~ Destroying(q) /\ ~ Pushing(q)
        BY <1>2, <2>2 DEF Popping, Destroying, Pushing, Threads
      <4>. QED
        BY <3>1, <3>2, <4>1 DEF Step, Push, Pop, LetGo, PushAllocate, PushIncrease,
          PushReload, PushData, PushDataTaken, TraceData, PushNext, PushNextTaken, HelpNext,
          HelpNextTaken, SetNewTail, SetNewTailLost, PopLoad, PopIncrease, PopReload, PopEmpty,
          PopNotEmpty, PopHead, PopHeadLost, PopData, ReleaseRef, FreeExternalCounter,
          TraceCount, DeleteNode, Return, At
    <3>3. CASE p # q
      BY <3>1, <3>3 DEF Step, Push, Pop, LetGo, PushAllocate, PushIncrease,
          PushReload, PushData, PushDataTaken, TraceData, PushNext, PushNextTaken, HelpNext,
          HelpNextTaken, SetNewTail, SetNewTailLost, PopLoad, PopIncrease, PopReload, PopEmpty,
          PopNotEmpty, PopHead, PopHeadLost, PopData, ReleaseRef, FreeExternalCounter,
          TraceCount, DeleteNode, Return, Reload, Goto
    <3>. QED
      BY <3>2, <3>3
  <2>. QED
    BY <2>1, <2>2
<1>3. ASSUME NEW q \in Procs, pc'[q] = "push_trace" PROVE data'[ptr'[q]] # NULL
  <2>1. CASE PushData(p)
    <3>1. /\ p \in Pushers /\ pc[p] = "push_data" /\ ptr' = ptr
          /\ \A r \in Procs \ {p} : pc'[r] = pc[r]
          /\ data' = [data EXCEPT ![ptr[p]] = val[p]]
      BY <2>1 DEF PushData, At, Goto, PlacesOK, PopLabels, LettingGo
    <3>2. val[p] # NULL
      BY <3>1 DEF PlacesOK
    <3>3. ptr[q] \in Nodes
      BY <1>3, <3>1, UsedNodes DEF Using
    <3>. QED
      BY <1>3, <3>1, <3>2, <3>3 DEF PushersFirst
  <2>2. CASE ~ PushData(p)
    <3>1. q # p
      BY <1>3, <2>2 DEF Step, Push, Pop, LetGo, PushAllocate, PushIncrease,
          PushReload, PushDataTaken, TraceData, PushNext, PushNextTaken, HelpNext,
          HelpNextTaken, SetNewTail, SetNewTailLost, PopLoad, PopIncrease, PopReload, PopEmpty,
          PopNotEmpty, PopHead, PopHeadLost, PopData, ReleaseRef, FreeExternalCounter,
          TraceCount, DeleteNode, Return, Reload, Goto, At
    <3>2. pc[q] = "push_trace"
      BY <1>3, <3>1 DEF Step, Push, Pop, LetGo, PushAllocate, PushIncrease,
          PushReload, PushData, PushDataTaken, TraceData, PushNext, PushNextTaken, HelpNext,
          HelpNextTaken, SetNewTail, SetNewTailLost, PopLoad, PopIncrease, PopReload, PopEmpty,
          PopNotEmpty, PopHead, PopHeadLost, PopData, ReleaseRef, FreeExternalCounter,
          TraceCount, DeleteNode, Return, Reload, Goto
    <3>3. ptr'[q] = ptr[q]
      BY <3>1 DEF Step, Push, Pop, LetGo, PushAllocate, PushIncrease,
          PushReload, PushData, PushDataTaken, TraceData, PushNext, PushNextTaken, HelpNext,
          HelpNextTaken, SetNewTail, SetNewTailLost, PopLoad, PopIncrease, PopReload, PopEmpty,
          PopNotEmpty, PopHead, PopHeadLost, PopData, ReleaseRef, FreeExternalCounter,
          TraceCount, DeleteNode, Return, Increase, Reload
    <3>4. q \in Pushers /\ ptr[q] \in heap /\ data[ptr[q]] # NULL
      BY <3>2, UsedNodes DEF Using, PushersFirst, PlacesOK, PopLabels, LettingGo
    <3>5. ~ PopData(p)
      <4>1. pc[p] = "pop_data" => p \notin Pushers
        BY DEF PlacesOK, PushLabels, LettingGo
      <4>. QED
        BY <3>2, <3>4, <4>1 DEF PopData, At, PushersFirst, Finished
    <3>6. data'[ptr[q]] = data[ptr[q]]
      BY <2>2, <3>4, <3>5 DEF Step, Push, Pop, LetGo, PushAllocate, NewNode, PushIncrease,
          PushReload, PushDataTaken, TraceData, PushNext, PushNextTaken, HelpNext,
          HelpNextTaken, SetNewTail, SetNewTailLost, PopLoad, PopIncrease, PopReload, PopEmpty,
          PopNotEmpty, PopHead, PopHeadLost, ReleaseRef, FreeExternalCounter,
          TraceCount, DeleteNode, Return, Reload, nodes
    <3>. QED
      BY <3>3, <3>4, <3>6
  <2>. QED
    BY <2>1, <2>2
<1>. QED
  BY <1>1, <1>2, <1>3 DEF PushersFirst

\* It holds throughout when the poppers are started after the joins.
LEMMA PushersAreFirst ==
  ASSUME Phased
  PROVE  Spec => []PushersFirst
<1>1. Init => PushersFirst
  BY DEF Init, PushersFirst
<1>2. IInv /\ IInv' /\ PushersFirst /\ [Next]_vars => PushersFirst'
  <2>. SUFFICES ASSUME IInv, IInv', PushersFirst, [Next]_vars PROVE PushersFirst'
    OBVIOUS
  <2>1. CASE UNCHANGED vars
    BY <2>1 DEF vars, nodes, client, PushersFirst, Finished
  <2>2. ASSUME NEW p \in Procs, Step(p) PROVE PushersFirst'
    BY <2>2, PushersFirstStep
  <2>. QED
    BY <2>1, <2>2 DEF Next, Terminated, OutOfMemory, CountedOut
<1>. QED
  BY <1>1, <1>2, Invariance, PTL DEF Spec

\* When every push has returned before the first pop starts, as in
\* test_threadsafe_lockfree_queue_v2, line 228 never prints through a null
\* pointer; TLC shows that it may when pushes and pops overlap.
THEOREM NoCrashWhenPhased ==
  ASSUME Phased
  PROVE  Spec => []NoCrash
<1>1. PushersFirst => NoCrash
  BY DEF PushersFirst, NoCrash, Crashed
<1>. QED
  BY <1>1, PushersAreFirst, PTL
----------------------------------------------------------------------------
(* The refinement. *)

\* The pusher whose data is in the node tail points to.
Owners == {p \in Pushers : /\ pc[p] \in {"push_trace", "push_next", "set_tail"}
                           /\ cont[p] = "return"
                           /\ ptr[p] = tail.ptr}

\* Exactly one push has put its data into tail's node, if there is any in it;
\* the dummy linked behind it is empty.
PushesOK ==
  /\ next[tail.ptr].ptr # NULL => data[next[tail.ptr].ptr] = NULL
  /\ \A p, q \in Owners : p = q
  /\ \A p \in Owners : val[p] = data[tail.ptr]
  /\ data[tail.ptr] # NULL => Owners # {}

\* A pop has no result before it takes one, and it reads head's node, or one
\* that has left the queue since.
PopsOK ==
  /\ \A p \in Procs : pc[p] \in {"return", "pop_data"} => cont[p] = "return"
  /\ \A p \in Procs \ Pushers :
       pc[p] \in {"idle"} \cup PopLabels \/ cont[p] = "pop_increase" => val[p] = NULL
  /\ \A p \in Procs \ Pushers :
       pc[p] \in {"pop_tail", "pop_head"} /\ ptr[p] \in InQueue => ptr[p] = head.ptr

\* Before the pushers are joined, no pusher comes to a node that has left the queue.
PushersStay == \A p \in Pushers : pc[p] = "push_data" => ptr[p] \in InQueue

----------------------------------------------------------------------------
(* The nodes that hold items form a sequence, the abstract queue's. *)

\* A set of numbers has a least one.
LEMMA LeastNumber ==
  ASSUME NEW W, W \subseteq Nat, W # {}
  PROVE  \E j \in W : \A k \in W : j <= k
<1>. DEFINE below == {jk \in Nat \X Nat : jk[1] < jk[2]}
<1>1. IsWellFoundedOn(below, Nat)
  BY NatLessThanWellFounded DEF OpToRel
<1>2. PICK j \in W : \A k \in W : <<k, j>> \notin below
  BY <1>1, WFMin
<1>3. ASSUME NEW k \in W PROVE j <= k
  <2>1. <<k, j>> \in Nat \X Nat /\ ~ (k < j)
    BY <1>2
  <2>. QED
    BY <2>1
<1>. QED
  BY <1>3

\* What follows the first i - 1 nodes of s.
After(s, i) == IF i <= Len(s) THEN s[i] ELSE tail.ptr

\* The pointers lead from head to tail through the nodes of s, which are those
\* that hold items.
Chain(s) ==
  /\ \A i \in 1 .. Len(s) : s[i] \in InQueue \ Ahead
  /\ \A n \in InQueue \ Ahead : \E i \in 1 .. Len(s) : s[i] = n
  /\ \A i, j \in 1 .. Len(s) : s[i] = s[j] => i = j
  /\ head.ptr = After(s, 1)
  /\ \A i \in 1 .. Len(s) : next[s[i]].ptr = After(s, i + 1)

\* Following the next pointers from head leads through the nodes of the chain.
LEMMA NodeAtIs ==
  ASSUME IInv, NEW s \in Seq(Nodes), Chain(s)
  PROVE  \A i \in Nat : NodeAt[i] = After(s, i + 1)
<1>. DEFINE f == [i \in Nat |-> After(s, i + 1)]
            F(g) == [i \in Nat |-> IF i = 0 THEN head.ptr
                                   ELSE IF g[i - 1] = tail.ptr THEN tail.ptr
                                   ELSE next[g[i - 1]].ptr]
<1>1. f = F(f)
  <2>. SUFFICES ASSUME NEW i \in Nat PROVE f[i] = F(f)[i]
    OBVIOUS
  <2>. Len(s) \in Nat /\ \A j \in 1 .. Len(s) : s[j] # tail.ptr
    BY Shape, LenProperties DEF Chain
  <2>1. CASE i = 0
    BY <2>1 DEF Chain
  <2>2. CASE i # 0 /\ i <= Len(s)
    <3>1. f[i - 1] = s[i] /\ i \in 1 .. Len(s)
      BY <2>2 DEF After
    <3>. QED
      BY <2>2, <3>1 DEF Chain
  <2>3. CASE i > Len(s) /\ i # 0
    BY <2>3 DEF After
  <2>. QED
    BY <2>1, <2>2, <2>3
<1>2. NodeAt = F(NodeAt)
  BY <1>1 DEF NodeAt
<1>. DEFINE W == {j \in Nat : NodeAt[j] # f[j]}
<1>3. W = {}
  <2>. SUFFICES ASSUME W # {} PROVE FALSE
    OBVIOUS
  <2>1. PICK j \in W : \A k \in W : j <= k
    <3>. HIDE DEF f
    <3>1. W \subseteq Nat
      OBVIOUS
    <3>. HIDE DEF W
    <3>. QED
      BY <3>1, LeastNumber
  <2>2. j = 0 \/ (j - 1 \in Nat /\ NodeAt[j - 1] = f[j - 1])
    BY <2>1
  <2>3. NodeAt[j] = F(NodeAt)[j] /\ f[j] = F(f)[j]
    BY <1>1, <1>2
  <2>4. NodeAt[j] = f[j]
    BY <2>2, <2>3
  <2>. QED
    BY <2>1, <2>4
<1>. QED
  BY <1>3

\* The data the nodes of s hold.
Items(s) == [i \in 1 .. Len(s) |-> data[s[i]]]

\* The refinement mapping's contents are the items of the chain.
LEMMA ContentsIs ==
  QueueInv => \A s \in Seq(Nodes) : Chain(s) => Contents = Items(s)
<1>. SUFFICES ASSUME QueueInv, NEW s \in Seq(Nodes), Chain(s) PROVE Contents = Items(s)
  OBVIOUS
<1>. USE DEF QueueInv
<1>. DEFINE n == Len(s)
            S == InQueue \ Ahead
<1>1. n \in Nat /\ s \in [1 .. n -> Nodes]
  BY LenProperties
<1>2. Length = n
  <2>1. S = Linked \ From(tail.ptr)
    BY ChainIsQueue
  <2>2. s \in Bijection(1 .. n, S)
    <3>1. s \in [1 .. n -> S]
      BY <1>1 DEF Chain
    <3>. QED
      BY <3>1 DEF Chain, Bijection, Injection, Surjection, IsInjective
  <2>3. Cardinality(S) = n
    BY <1>1, <2>2, FS_CountingElements DEF ExistsBijection
  <2>. QED
    BY <2>1, <2>3 DEF Length
<1>3. \A i \in 1 .. n : NodeAt[i - 1] = s[i]
  <2>. TAKE i \in 1 .. n
  <2>1. i - 1 \in Nat /\ i - 1 + 1 = i /\ i <= n
    BY <1>1
  <2>2. NodeAt[i - 1] = After(s, i - 1 + 1)
    BY <2>1, NodeAtIs
  <2>. QED
    BY <2>1, <2>2 DEF After
<1>. QED
  BY <1>2, <1>3 DEF Contents, Items

\* The same after a step.
LEMMA ContentsIsNext == QueueInv' => \A s \in Seq(Nodes) : Chain(s)' => Contents' = Items(s)'
<1>1. (QueueInv => \A s \in Seq(Nodes) : Chain(s) => Contents = Items(s))'
  BY ContentsIs, PTL
<1>. QED
  BY <1>1

----------------------------------------------------------------------------
\* The pointers lead from head to tail.
ChainExists == \E s \in Seq(Nodes) : Chain(s)

\* What the steps that move neither head nor tail do to the nodes of the chain.
LEMMA SameChain ==
  ASSUME IInv, TypeOK', NEW p \in Procs, Step(p), ~ SetNewTail(p), ~ PopHead(p)
  PROVE  /\ head'.ptr = head.ptr /\ tail'.ptr = tail.ptr
         /\ InQueue' \ Ahead' = InQueue \ Ahead
         /\ \A n \in InQueue \ Ahead : next'[n] = next[n]
<1>. USE DEF IInv, TypeOK
<1>1. head'.ptr = head.ptr /\ tail'.ptr = tail.ptr
  BY DEF Step, Push, Pop, LetGo, PushAllocate, PushIncrease, PushReload, PushData, PushDataTaken,
         TraceData, PushNext, PushNextTaken, HelpNext, HelpNextTaken, SetNewTailLost, PopLoad,
         PopIncrease, PopReload, PopEmpty, PopNotEmpty, PopHeadLost, PopData,
         ReleaseRef, FreeExternalCounter, TraceCount, DeleteNode, Return, Increase, Reload,
         counted_node_ptr, links
<1>2. ~ HeadMoved
  BY <1>1, Shape DEF HeadMoved, ChainOK
<1>3. CASE QueueKept
  <2>1. Ahead' = Ahead
    BY <1>1, <1>3, Shape DEF QueueKept, Ahead
  <2>. QED
    BY <1>1, <1>3, <2>1 DEF QueueKept
<1>4. CASE NodeLinked
  <2>1. PICK m \in Nodes \ InQueue : /\ InQueue' = InQueue \cup {m}
                                     /\ next'[tail.ptr].ptr = m
                                     /\ \A n \in InQueue : n # tail.ptr => next'[n] = next[n]
    BY <1>4 DEF NodeLinked
  <2>5. tail.ptr # NULL /\ m # NULL /\ next[tail.ptr].ptr = NULL
    BY <1>4, QueueAssumption DEF NodeLinked, ChainOK
  <2>. HIDE DEF IInv, TypeOK
  <2>6. Ahead = {tail.ptr}
    BY <2>5 DEF Ahead
  <2>7. Ahead' = {tail'.ptr, next'[tail'.ptr].ptr} \ {NULL}
    BY DEF Ahead
  <2>2. Ahead = {tail.ptr} /\ Ahead' = {tail.ptr, m}
    BY <1>1, <2>1, <2>5, <2>6, <2>7
  <2>3. InQueue' \ Ahead' = InQueue \ Ahead
    BY <2>1, <2>2
  <2>4. \A n \in InQueue \ Ahead : next'[n] = next[n]
    BY <2>1, <2>2
  <2>. QED
    BY <1>1, <2>3, <2>4
<1>. QED
  BY <1>2, <1>3, <1>4, QueueStep

\* tail moves on to the dummy behind its node, which then holds an item.
LEMMA TailSwung ==
  ASSUME IInv, TypeOK', NEW p \in Procs, SetNewTail(p)
  PROVE  /\ head' = head /\ tail' = next[tail.ptr] /\ next' = next /\ data' = data
         /\ tail.ptr = ptr[p] /\ pc[p] = "set_tail" /\ p \in Pushers
         /\ tail'.ptr \in InQueue \cap Ahead /\ tail'.ptr # tail.ptr /\ next[tail'.ptr].ptr = NULL
         /\ tail.ptr \notin InQueue \ Ahead
         /\ InQueue' \ Ahead' = (InQueue \ Ahead) \cup {tail.ptr}
<1>. USE DEF IInv, TypeOK
<1>1. /\ pc[p] = "set_tail" /\ tail = old[p] /\ tail' = new_tail[p]
      /\ head' = head /\ next' = next /\ data' = data
  BY DEF SetNewTail, At, nodes
<1>2. tail.ptr = ptr[p] /\ tail' = next[tail.ptr] /\ next[tail.ptr].ptr # NULL
  BY <1>1 DEF UsesOK, Counted
<1>3. p \in Pushers
  BY <1>1 DEF PlacesOK, PopLabels, LettingGo
<1>4. tail'.ptr \in InQueue \cap Ahead /\ next[tail'.ptr].ptr = NULL
  BY <1>2, Shape DEF ChainOK
<1>5. tail'.ptr # tail.ptr
  BY <1>2, <1>4
<1>6. QueueKept
  <2>1. ~ HeadMoved /\ ~ NodeLinked
    BY <1>1, <1>2, Shape DEF HeadMoved, NodeLinked, ChainOK
  <2>2. Step(p)
    BY DEF Step, Push
  <2>. QED
    BY <2>1, <2>2, QueueStep
<1>7. Ahead = {tail.ptr, tail'.ptr} /\ Ahead' = {tail'.ptr}
  BY <1>1, <1>2, <1>4, Shape DEF Ahead, ChainOK
<1>. QED
  BY <1>1, <1>2, <1>3, <1>4, <1>5, <1>6, <1>7, Shape DEF QueueKept

\* head moves on from a node that holds an item.
LEMMA HeadTaken ==
  ASSUME IInv, TypeOK', NEW p \in Procs, PopHead(p)
  PROVE  /\ head.ptr = ptr[p] /\ head.ptr \in InQueue \ Ahead /\ pc[p] = "pop_head"
         /\ head'.ptr = next[head.ptr].ptr /\ tail' = tail /\ next' = next /\ data' = data
         /\ InQueue' \ Ahead' = (InQueue \ Ahead) \ {head.ptr}
<1>. USE DEF IInv, TypeOK
<1>1. /\ pc[p] = "pop_head" /\ head = old[p] /\ head' = next[ptr[p]]
      /\ tail' = tail /\ next' = next /\ data' = data
  BY DEF PopHead, At, nodes
<1>2. head.ptr = ptr[p] /\ ptr[p] \notin Ahead
  BY <1>1 DEF UsesOK, Counted
<1>3. head'.ptr # head.ptr
  BY <1>1, <1>2, Shape DEF ChainOK
<1>4. HeadMoved
  <2>1. ~ QueueKept /\ ~ NodeLinked
    BY <1>3 DEF QueueKept, NodeLinked
  <2>2. Step(p)
    BY DEF Step, Pop
  <2>. QED
    BY <2>1, <2>2, QueueStep
<1>5. Ahead' = Ahead
  BY <1>1 DEF Ahead
<1>. QED
  BY <1>1, <1>2, <1>4, <1>5, Shape DEF HeadMoved

\* The chain stays, gains its last node, loses its first.
LEMMA ChainKept ==
  ASSUME NEW s \in Seq(Nodes), Chain(s),
         head'.ptr = head.ptr, tail'.ptr = tail.ptr, InQueue' \ Ahead' = InQueue \ Ahead,
         \A n \in InQueue \ Ahead : next'[n] = next[n]
  PROVE  Chain(s)'
<1>1. \A i : After(s, i)' = After(s, i)
  BY DEF After
<1>. QED
  BY <1>1 DEF Chain

LEMMA ChainAppend ==
  ASSUME NEW s \in Seq(Nodes), Chain(s), NEW n \in Nodes, n = tail.ptr, n \notin InQueue \ Ahead,
         InQueue' \ Ahead' = (InQueue \ Ahead) \cup {n},
         head' = head, tail' = next[n], next' = next
  PROVE  Append(s, n) \in Seq(Nodes) /\ Chain(Append(s, n))'
<1>. DEFINE t == Append(s, n)
<1>1. /\ t \in Seq(Nodes) /\ Len(t) = Len(s) + 1 /\ Len(s) \in Nat
      /\ \A i \in 1 .. Len(s) : t[i] = s[i]
      /\ t[Len(t)] = n
  BY AppendProperties, LenProperties
<1>. HIDE DEF t
<1>2. \A i \in 1 .. Len(t) : i = Len(t) \/ (i \in 1 .. Len(s) /\ t[i] = s[i])
  BY <1>1
<1>3. \A i \in 1 .. Len(t) : t[i] \in InQueue' \ Ahead'
  BY <1>1, <1>2 DEF Chain
<1>4. \A m \in InQueue' \ Ahead' : \E i \in 1 .. Len(t) : t[i] = m
  <2>. TAKE m \in InQueue' \ Ahead'
  <2>1. CASE m = n
    BY <1>1, <2>1
  <2>2. CASE m # n
    <3>1. PICK i \in 1 .. Len(s) : s[i] = m
      BY <2>2 DEF Chain
    <3>. QED
      BY <1>1, <3>1
  <2>. QED
    BY <2>1, <2>2
<1>5. \A i, j \in 1 .. Len(t) : t[i] = t[j] => i = j
  <2>. TAKE i, j \in 1 .. Len(t)
  <2>1. \A k \in 1 .. Len(s) : s[k] # n
    BY DEF Chain
  <2>2. i \in 1 .. Len(s) /\ j \in 1 .. Len(s) /\ t[i] = t[j] => i = j
    BY <1>1 DEF Chain
  <2>. QED
    BY <1>1, <1>2, <2>1, <2>2
<1>6. \A i \in 1 .. Len(s) + 1 : After(t, i)' = After(s, i)
  <2>. TAKE i \in 1 .. Len(s) + 1
  <2>1. CASE i <= Len(s)
    BY <1>1, <2>1 DEF After
  <2>2. CASE i = Len(s) + 1
    BY <1>1, <2>2 DEF After
  <2>. QED
    BY <1>1, <2>1, <2>2
<1>7. head'.ptr = After(t, 1)'
  BY <1>1, <1>6 DEF Chain
<1>8. \A i \in 1 .. Len(t) : next'[t[i]].ptr = After(t, i + 1)'
  <2>. TAKE i \in 1 .. Len(t)
  <2>1. CASE i \in 1 .. Len(s)
    <3>1. i + 1 \in 1 .. Len(s) + 1
      BY <1>1, <2>1
    <3>. QED
      BY <1>1, <1>6, <2>1, <3>1 DEF Chain
  <2>2. CASE i = Len(t)
    BY <1>1, <2>2 DEF After
  <2>. QED
    BY <1>2, <2>1, <2>2
<1>. QED
  BY <1>1, <1>3, <1>4, <1>5, <1>7, <1>8 DEF Chain, t

LEMMA ChainTail ==
  ASSUME NEW s \in Seq(Nodes), Chain(s), head.ptr \in InQueue \ Ahead, tail.ptr \in Ahead,
         InQueue' \ Ahead' = (InQueue \ Ahead) \ {head.ptr},
         head'.ptr = next[head.ptr].ptr, tail' = tail, next' = next
  PROVE  s # <<>> /\ s[1] = head.ptr /\ Tail(s) \in Seq(Nodes) /\ Chain(Tail(s))'
<1>. DEFINE t == Tail(s)
<1>1. s # <<>> /\ Len(s) \in Nat \ {0} /\ s[1] = head.ptr
  <2>1. Len(s) \in Nat
    BY LenProperties
  <2>2. Len(s) # 0
    BY <2>1 DEF Chain, After
  <2>. QED
    BY <2>1, <2>2, EmptySeq DEF Chain, After
<1>2. /\ t \in Seq(Nodes) /\ Len(t) = Len(s) - 1
      /\ \A i \in 1 .. Len(t) : t[i] = s[i + 1]
  BY <1>1, HeadTailProperties
<1>. HIDE DEF t
<1>3. \A i \in 1 .. Len(t) : i + 1 \in 1 .. Len(s) /\ i + 1 # 1 /\ t[i] = s[i + 1]
  BY <1>1, <1>2
<1>4. 1 \in 1 .. Len(s)
  BY <1>1
<1>5. \A i \in 1 .. Len(t) : t[i] \in InQueue' \ Ahead'
  <2>. TAKE i \in 1 .. Len(t)
  <2>1. s[i + 1] \in InQueue \ Ahead /\ s[i + 1] # s[1]
    BY <1>3, <1>4 DEF Chain
  <2>. QED
    BY <1>1, <1>3, <2>1
<1>6. \A m \in InQueue' \ Ahead' : \E i \in 1 .. Len(t) : t[i] = m
  <2>. TAKE m \in InQueue' \ Ahead'
  <2>1. PICK j \in 1 .. Len(s) : s[j] = m
    BY DEF Chain
  <2>2. j # 1
    BY <1>1, <2>1
  <2>3. j - 1 \in 1 .. Len(t) /\ t[j - 1] = s[j]
    BY <1>1, <1>2, <2>2
  <2>. QED
    BY <2>1, <2>3
<1>7. \A i, j \in 1 .. Len(t) : t[i] = t[j] => i = j
  <2>. TAKE i, j \in 1 .. Len(t)
  <2>1. s[i + 1] = s[j + 1] => i + 1 = j + 1
    BY <1>3 DEF Chain
  <2>. QED
    BY <1>3, <2>1
<1>8. \A i \in 1 .. Len(s) : After(t, i)' = After(s, i + 1)
  <2>. TAKE i \in 1 .. Len(s)
  <2>1. i <= Len(t) <=> i + 1 <= Len(s)
    BY <1>1, <1>2
  <2>2. i <= Len(t) => t[i] = s[i + 1]
    BY <1>2
  <2>. QED
    BY <2>1, <2>2 DEF After
<1>9. head'.ptr = After(t, 1)'
  BY <1>1, <1>4, <1>8 DEF Chain
<1>10. \A i \in 1 .. Len(t) : next'[t[i]].ptr = After(t, i + 1)'
  <2>. TAKE i \in 1 .. Len(t)
  <2>1. i + 1 \in 1 .. Len(s) /\ t[i] = s[i + 1] /\ After(t, i + 1)' = After(s, i + 1 + 1)
    BY <1>3, <1>8
  <2>. QED
    BY <2>1 DEF Chain
<1>. QED
  BY <1>1, <1>2, <1>5, <1>6, <1>7, <1>9, <1>10 DEF Chain, t

\* There is a chain after every step.
LEMMA ChainStep ==
  ASSUME IInv, TypeOK', ChainExists, NEW p \in Procs, Step(p)
  PROVE  ChainExists'
<1>1. PICK s \in Seq(Nodes) : Chain(s)
  BY DEF ChainExists
<1>2. CASE SetNewTail(p)
  <2>. PICK n : n = tail.ptr
    OBVIOUS
  <2>1. n \in Nodes
    BY Shape DEF IInv
  <2>. QED
    BY <1>1, <1>2, <2>1, TailSwung, ChainAppend DEF ChainExists
<1>3. CASE PopHead(p)
  BY <1>1, <1>3, HeadTaken, ChainTail, Shape DEF ChainExists
<1>4. CASE ~ SetNewTail(p) /\ ~ PopHead(p)
  BY <1>1, <1>4, SameChain, ChainKept DEF ChainExists
<1>. QED
  BY <1>2, <1>3, <1>4

----------------------------------------------------------------------------
(* What else the calls depend on: whose data is in tail, and what the poppers have seen. *)

\* A step changes the local variables of its own thread only.
LEMMA OthersLocals ==
  ASSUME IInv, NEW p \in Procs, Step(p), NEW q \in Procs \ {p}
  PROVE  pc'[q] = pc[q] /\ cont'[q] = cont[q] /\ ptr'[q] = ptr[q] /\ val'[q] = val[q]
<1>. USE DEF IInv, TypeOK
<1>1. pc'[q] = pc[q]
  BY DEF Step, Push, Pop, LetGo, PushAllocate, PushIncrease, PushReload, PushData,
          PushDataTaken, TraceData, PushNext, PushNextTaken, HelpNext, HelpNextTaken,
          SetNewTail, SetNewTailLost, PopLoad, PopIncrease, PopReload, PopEmpty,
          PopNotEmpty, PopHead, PopHeadLost, PopData, ReleaseRef, FreeExternalCounter,
          TraceCount, DeleteNode, Return, Reload, Goto
<1>2. cont'[q] = cont[q]
  BY DEF Step, Push, Pop, LetGo, PushAllocate, PushIncrease, PushReload, PushData,
          PushDataTaken, TraceData, PushNext, PushNextTaken, HelpNext, HelpNextTaken,
          SetNewTail, SetNewTailLost, PopLoad, PopIncrease, PopReload, PopEmpty,
          PopNotEmpty, PopHead, PopHeadLost, PopData, ReleaseRef, FreeExternalCounter,
          TraceCount, DeleteNode, Return, Reload
<1>3. ptr'[q] = ptr[q]
  BY DEF Step, Push, Pop, LetGo, PushAllocate, PushIncrease, PushReload, PushData,
          PushDataTaken, TraceData, PushNext, PushNextTaken, HelpNext, HelpNextTaken,
          SetNewTail, SetNewTailLost, PopLoad, PopIncrease, PopReload, PopEmpty,
          PopNotEmpty, PopHead, PopHeadLost, PopData, ReleaseRef, FreeExternalCounter,
          TraceCount, DeleteNode, Return, Reload, Increase
<1>4. val'[q] = val[q]
  <2>1. CASE PushAllocate(p)
    BY <2>1 DEF PushAllocate
  <2>2. CASE ~ PushAllocate(p)
    BY <2>2 DEF Step, Push, Pop, LetGo, PushIncrease, PushReload, PushData, PushDataTaken,
          TraceData, PushNext, PushNextTaken, HelpNext, HelpNextTaken, SetNewTail,
          SetNewTailLost, PopLoad, PopIncrease, PopReload, PopEmpty, PopNotEmpty,
          PopHead, PopHeadLost, PopData, ReleaseRef, FreeExternalCounter, TraceCount,
          DeleteNode, Return, Reload
  <2>. QED
    BY <2>1, <2>2
<1>. QED
  BY <1>1, <1>2, <1>3, <1>4

\* The data of the nodes in or next to the queue: only a push changes it, in
\* the last node.
LEMMA DataKept ==
  ASSUME IInv, NEW p \in Procs, Step(p)
  PROVE  \A n \in InQueue : n # tail.ptr \/ ~ PushData(p) => data'[n] = data[n]
<1>. USE DEF IInv, TypeOK
<1>. SUFFICES ASSUME NEW n \in InQueue, n # tail.ptr \/ ~ PushData(p) PROVE data'[n] = data[n]
  OBVIOUS
<1>0. n \in heap /\ n \in Nodes
  BY Shape
<1>1. CASE PushAllocate(p) \/ HelpNext(p)
  BY <1>0, <1>1 DEF PushAllocate, HelpNext, NewNode
<1>2. CASE PushData(p)
  <2>1. pc[p] = "push_data" /\ data[ptr[p]] = NULL /\ data' = [data EXCEPT ![ptr[p]] = val[p]]
    BY <1>2 DEF PushData, DataIsFree, At
  <2>2. p \in Holders(ptr[p]) /\ ptr[p] \in Nodes
    BY <2>1, UsedNodes DEF Using, Holders
  <2>3. CASE n \in Ahead
    <3>1. n = next[tail.ptr].ptr
      BY <1>2, <2>3 DEF Ahead
    <3>2. Holders(n) = {}
      BY <3>1 DEF ChainOK
    <3>. QED
      BY <1>0, <2>1, <2>2, <3>2
  <2>4. CASE n \notin Ahead
    <3>1. data[n] # NULL
      BY <2>4, Shape DEF ChainOK, DataOK
    <3>. QED
      BY <1>0, <2>1, <2>2, <3>1
  <2>. QED
    BY <2>3, <2>4
<1>3. CASE PopData(p)
  <2>1. pc[p] = "pop_data" /\ data' = [data EXCEPT ![ptr[p]] = NULL]
    BY <1>3 DEF PopData, At
  <2>2. ptr[p] \in Nodes /\ p \in HeadFolders(ptr[p])
    BY <2>1, UsedNodes DEF Using, HeadFolders, PlacesOK, PushLabels, LettingGo
  <2>3. ptr[p] \notin InQueue
    BY <2>2 DEF InQueue
  <2>. QED
    BY <1>0, <2>1, <2>3
<1>4. CASE ~ PushAllocate(p) /\ ~ HelpNext(p) /\ ~ PushData(p) /\ ~ PopData(p)
  BY <1>4 DEF Step, Push, Pop, LetGo, PushIncrease, PushReload, PushDataTaken, TraceData,
          PushNext, PushNextTaken, HelpNextTaken, SetNewTail, SetNewTailLost, PopLoad,
          PopIncrease, PopReload, PopEmpty, PopNotEmpty, PopHead, PopHeadLost,
          ReleaseRef, FreeExternalCounter, TraceCount, DeleteNode, Return, Reload, nodes
<1>. QED
  BY <1>1, <1>2, <1>3, <1>4

\* The two invariants are inductive beside IInv.
LEMMA PopsStep ==
  ASSUME IInv, IInv', PopsOK, NEW p \in Procs, Step(p)
  PROVE  PopsOK'
<1>. USE DEF IInv, TypeOK
<1>1. \A q \in Procs \ {p} :
        pc'[q] = pc[q] /\ cont'[q] = cont[q] /\ ptr'[q] = ptr[q] /\ val'[q] = val[q]
  BY OthersLocals
<1>2. pc'[p] \in {"return", "pop_data"} => cont'[p] = "return"
  BY DEF Step, Push, Pop, LetGo, PushAllocate, PushIncrease, PushReload, PushData,
          PushDataTaken, TraceData, PushNext, PushNextTaken, HelpNext, HelpNextTaken,
          SetNewTail, SetNewTailLost, PopLoad, PopIncrease, PopReload, PopEmpty,
          PopNotEmpty, PopHead, PopHeadLost, PopData, ReleaseRef, FreeExternalCounter,
          TraceCount, DeleteNode, Return, Reload, Goto, At, PopsOK
<1>3. ASSUME p \notin Pushers
      PROVE  pc'[p] \in {"idle"} \cup PopLabels \/ cont'[p] = "pop_increase" => val'[p] = NULL
  <2>1. ~ Push(p)
    <3>1. pc[p] \notin PushLabels
      BY <1>3 DEF PlacesOK, PushLabels, PopLabels, LettingGo
    <3>. QED
      BY <1>3, <3>1 DEF PushLabels, Push, PushAllocate, PushIncrease, PushReload, PushData,
          PushDataTaken, TraceData, PushNext, PushNextTaken, HelpNext, HelpNextTaken, SetNewTail,
          SetNewTailLost, At, Pushing
  <2>2. CASE Return(p)
    BY <2>2 DEF Return
  <2>3. CASE PopData(p)
    <3>1. pc'[p] = "free" /\ cont'[p] = "return"
      BY <2>3 DEF PopData, At, Goto, PopsOK
    <3>. QED
      BY <3>1 DEF PopLabels
  <2>4. CASE ~ Return(p) /\ ~ PopData(p)
    <3>1. val' = val
      BY <2>1, <2>4 DEF Step, Pop, LetGo, PopLoad, PopIncrease, PopReload, PopEmpty, PopNotEmpty,
          PopHead, PopHeadLost, ReleaseRef, FreeExternalCounter, TraceCount, DeleteNode, Reload
    <3>2. CASE Pop(p)
      <4>1. pc[p] \in {"idle"} \cup PopLabels
        BY <2>4, <3>2 DEF Pop, PopLoad, PopIncrease, PopReload, PopEmpty, PopNotEmpty,
          PopHead, PopHeadLost, At, Popping, Destroying, PopLabels
      <4>. QED
        BY <1>3, <3>1, <4>1 DEF PopsOK
    <3>3. CASE LetGo(p)
      <4>1. cont' = cont /\ (pc'[p] = cont[p] \/ pc'[p] \in LettingGo)
        BY <2>4, <3>3 DEF LetGo, ReleaseRef, FreeExternalCounter, TraceCount, DeleteNode, Goto,
          LettingGo
      <4>2. pc'[p] \in {"idle"} \cup PopLabels => cont[p] = "pop_increase"
        BY <1>3, <4>1 DEF PlacesOK, LettingGo, PopLabels
      <4>. QED
        BY <1>3, <3>1, <4>1, <4>2 DEF PopsOK
    <3>. QED
      BY <2>1, <3>2, <3>3 DEF Step
  <2>. QED
    BY <2>2, <2>3, <2>4
<1>4. ASSUME NEW q \in Procs \ Pushers, pc'[q] \in {"pop_tail", "pop_head"}, ptr'[q] \in InQueue'
      PROVE  ptr'[q] = head'.ptr
  <2>1. CASE q = p /\ pc[p] \notin {"pop_tail", "pop_head"}
    <3>1. PopIncrease(p)
      BY <1>4, <2>1 DEF Step, Push, Pop, LetGo, PushAllocate, PushIncrease, PushReload, PushData,
          PushDataTaken, TraceData, PushNext, PushNextTaken, HelpNext, HelpNextTaken,
          SetNewTail, SetNewTailLost, PopLoad, PopReload, PopEmpty, PopNotEmpty, PopHead,
          PopHeadLost, PopData, ReleaseRef, FreeExternalCounter, TraceCount, DeleteNode,
          Return, Reload, Goto, At
    <3>. QED
      BY <2>1, <3>1 DEF PopIncrease, Increase, counted_node_ptr
  <2>2. CASE q # p \/ pc[p] \in {"pop_tail", "pop_head"}
    <3>1. pc[q] \in {"pop_tail", "pop_head"} /\ ptr'[q] = ptr[q]
      <4>1. CASE q # p
        BY <1>1, <1>4, <4>1
      <4>2. CASE q = p
        BY <2>2, <4>2 DEF Step, Push, Pop, LetGo, PushAllocate, PushIncrease, PushReload, PushData,
          PushDataTaken, TraceData, PushNext, PushNextTaken, HelpNext, HelpNextTaken,
          SetNewTail, SetNewTailLost, PopLoad, PopIncrease, PopReload, PopEmpty,
          PopNotEmpty, PopHead, PopHeadLost, PopData, ReleaseRef, FreeExternalCounter,
          TraceCount, DeleteNode, Return, Increase, Reload, At, Pushing, Popping,
          Destroying
      <4>. QED
        BY <4>1, <4>2
    <3>2. q \in Holders(ptr[q]) /\ ptr[q] \in heap \ Private
      BY <3>1, UsedNodes DEF Holders, Using
    <3>3. CASE HeadMoved
      <4>1. ptr[q] \in InQueue /\ ptr[q] # head.ptr
        BY <1>4, <3>1, <3>3 DEF HeadMoved
      <4>. QED
        BY <3>1, <4>1 DEF PopsOK
    <3>4. CASE QueueKept
      BY <1>4, <3>1, <3>4 DEF QueueKept, PopsOK
    <3>5. CASE NodeLinked
      <4>1. PICK m \in Nodes \ InQueue : InQueue' = InQueue \cup {m} /\ next'[tail.ptr].ptr = m
        BY <3>5 DEF NodeLinked
      <4>2. ptr[q] \in InQueue
        <5>1. tail'.ptr = tail.ptr
          <6>1. CASE SetNewTail(p)
            BY <3>5, <6>1, TailSwung, QueueAssumption DEF NodeLinked
          <6>2. CASE PopHead(p)
            BY <6>2, HeadTaken
          <6>. QED
            BY <6>1, <6>2, SameChain
        <5>2. Holders(m)' = {}
          BY <4>1, <5>1 DEF ChainOK
        <5>3. q \in Holders(ptr[q])'
          BY <1>4, <3>1 DEF Holders
        <5>. QED
          BY <1>4, <3>1, <4>1, <5>2, <5>3
      <4>. QED
        BY <3>1, <3>5, <4>2 DEF NodeLinked, PopsOK
    <3>. QED
      BY <3>3, <3>4, <3>5, QueueStep
  <2>. QED
    BY <2>1, <2>2
<1>. QED
  BY <1>1, <1>2, <1>3, <1>4 DEF PopsOK

LEMMA PushesStep ==
  ASSUME IInv, IInv', PushesOK, NEW p \in Procs, Step(p)
  PROVE  PushesOK'
<1>. USE DEF IInv, TypeOK
<1>1. \A q \in Procs \ {p} :
        pc'[q] = pc[q] /\ cont'[q] = cont[q] /\ ptr'[q] = ptr[q] /\ val'[q] = val[q]
  BY OthersLocals
<1>2. Pushers \subseteq Procs
  BY DEF Procs, Threads
<1>3. CASE SetNewTail(p)
  <2>1. /\ data' = data /\ next' = next /\ tail' = next[tail.ptr] /\ tail'.ptr # NULL
        /\ next[tail'.ptr].ptr = NULL /\ Holders(tail'.ptr) = {}
    BY <1>3, TailSwung, Shape, QueueAssumption DEF ChainOK
  <2>2. pc'[p] = "free"
    BY <1>3 DEF SetNewTail, Goto
  <2>3. Owners' = {}
    BY <1>1, <1>2, <2>1, <2>2 DEF Owners, Holders
  <2>. QED
    BY <2>1, <2>3 DEF PushesOK
<1>4. CASE PushData(p) /\ ptr[p] = tail.ptr
  <2>1. /\ pc[p] = "push_data" /\ data[tail.ptr] = NULL /\ tail' = tail /\ next' = next
        /\ data' = [data EXCEPT ![ptr[p]] = val[p]] /\ ptr' = ptr /\ val' = val
        /\ pc'[p] = "push_trace" /\ cont'[p] = "return"
    BY <1>4 DEF PushData, DataIsFree, At, Goto, links
  <2>2. p \in Pushers /\ ptr[p] \in Nodes
    BY <2>1, UsedNodes DEF Using, PlacesOK, PopLabels, LettingGo
  <2>3. Owners = {}
    <3>1. \A q \in Owners : val[q] # NULL
      BY <1>2 DEF Owners, PlacesOK
    <3>. QED
      BY <2>1, <3>1 DEF PushesOK
  <2>4. Owners' = {p}
    <3>1. p \in Owners'
      BY <1>4, <2>1, <2>2 DEF Owners
    <3>2. \A q \in Pushers \ {p} : q \in Owners' => q \in Owners
      BY <1>1, <1>2, <2>1 DEF Owners
    <3>3. Owners' \subseteq Pushers
      BY DEF Owners
    <3>. QED
      BY <2>3, <3>1, <3>2, <3>3
  <2>5. val'[p] = data'[tail.ptr]
    BY <1>4, <2>1, <2>2
  <2>6. next[tail.ptr].ptr # NULL => data'[next[tail.ptr].ptr] = data[next[tail.ptr].ptr]
    <3>1. next[tail.ptr].ptr # tail.ptr \/ next[tail.ptr].ptr = NULL
      BY <2>1, <2>2, Shape DEF ChainOK
    <3>. QED
      BY <1>4, <2>1, <2>2, <3>1, Shape
  <2>. QED
    BY <2>1, <2>4, <2>5, <2>6 DEF PushesOK
<1>5. ASSUME ~ SetNewTail(p), ~ (PushData(p) /\ ptr[p] = tail.ptr)
      PROVE  Owners' = Owners /\ tail'.ptr = tail.ptr /\ data'[tail.ptr] = data[tail.ptr]
  <2>1. tail'.ptr = tail.ptr
    BY <1>5, SameChain, HeadTaken
  <2>2. data'[tail.ptr] = data[tail.ptr]
    <3>1. CASE PushData(p)
      <4>1. ptr[p] # tail.ptr /\ data' = [data EXCEPT ![ptr[p]] = val[p]]
        BY <1>5, <3>1 DEF PushData
      <4>. QED
        BY <4>1, Shape
    <3>2. CASE ~ PushData(p)
      BY <3>2, DataKept, Shape
    <3>. QED
      BY <3>1, <3>2
  <2>3. ASSUME NEW q \in Pushers, q # p PROVE q \in Owners' <=> q \in Owners
    BY <1>1, <1>2, <2>1, <2>3 DEF Owners
  <2>4. ASSUME p \in Pushers PROVE p \in Owners' <=> p \in Owners
    <3>1. CASE TraceData(p)
      <4>1. /\ pc[p] = "push_trace" /\ cont' = cont /\ ptr' = ptr
            /\ pc'[p] = IF data[ptr[p]] = NULL THEN "crashed" ELSE "push_next"
        BY <3>1 DEF TraceData, At, Goto
      <4>2. ptr[p] = tail.ptr => data[ptr[p]] # NULL
        BY <4>1, Shape DEF DataOK
      <4>. QED
        BY <2>1, <2>4, <4>1, <4>2 DEF Owners
    <3>2. CASE PushData(p)
      BY <1>5, <2>1, <3>2 DEF PushData, At, Owners
    <3>3. CASE PushNext(p) \/ PushNextTaken(p)
      BY <2>1, <2>4, <3>3 DEF PushNext, PushNextTaken, At, Goto, Owners, PlacesOK
    <3>4. CASE HelpNext(p) \/ HelpNextTaken(p)
      <4>1. pc[p] = "push_help" /\ cont'[p] = "push_increase"
        BY <2>4, <3>4 DEF HelpNext, HelpNextTaken, At, PlacesOK
      <4>. QED
        BY <4>1 DEF Owners
    <3>5. CASE SetNewTailLost(p)
      BY <2>1, <2>4, <3>5 DEF SetNewTailLost, At, Goto, Owners
    <3>6. CASE ~ TraceData(p) /\ ~ PushData(p) /\ ~ PushNext(p) /\ ~ PushNextTaken(p)
               /\ ~ HelpNext(p) /\ ~ HelpNextTaken(p) /\ ~ SetNewTailLost(p)
      <4>1. pc[p] \notin {"push_trace", "push_next", "set_tail"}
        BY <1>5, <3>6 DEF Step, Push, Pop, LetGo, PushAllocate, PushIncrease, PushReload,
          PushDataTaken, SetNewTail, PopLoad, PopIncrease, PopReload, PopEmpty, PopNotEmpty, PopHead,
          PopHeadLost, PopData, ReleaseRef, FreeExternalCounter, TraceCount, DeleteNode,
          Return, At, Pushing, Popping, Destroying
      <4>2. pc'[p] \notin {"push_trace", "push_next", "set_tail"}
        BY <1>5, <3>6, <4>1 DEF Step, Push, Pop, LetGo, PushAllocate, PushIncrease, PushReload,
          PushDataTaken, SetNewTail, PopLoad, PopIncrease, PopReload, PopEmpty, PopNotEmpty, PopHead,
          PopHeadLost, PopData, ReleaseRef, FreeExternalCounter, TraceCount, DeleteNode,
          Return, Reload, Goto
      <4>. QED
        BY <4>1, <4>2 DEF Owners
    <3>. QED
      BY <3>1, <3>2, <3>3, <3>4, <3>5, <3>6
  <2>5. Owners \subseteq Pushers /\ Owners' \subseteq Pushers
    BY DEF Owners
  <2>6. Owners' = Owners
    <3>1. \A q \in Pushers : q \in Owners' <=> q \in Owners
      BY <2>3, <2>4
    <3>. QED
      BY <2>5, <3>1
  <2>. QED
    BY <2>1, <2>2, <2>6
<1>6. ASSUME ~ SetNewTail(p), ~ (PushData(p) /\ ptr[p] = tail.ptr) PROVE PushesOK'
  <2>1. \A q \in Owners : val'[q] = val[q]
    <3>1. p \in Owners => val'[p] = val[p]
      <4>1. p \in Owners => pc[p] \in {"push_trace", "push_next", "set_tail"}
        BY DEF Owners
      <4>2. pc[p] \in {"push_trace", "push_next", "set_tail"} => val'[p] = val[p]
        BY DEF Step, Push, Pop, LetGo, PushAllocate, PushIncrease, PushReload, PushData,
          PushDataTaken, TraceData, PushNext, PushNextTaken, HelpNext, HelpNextTaken,
          SetNewTail, SetNewTailLost, PopLoad, PopIncrease, PopReload, PopEmpty,
          PopNotEmpty, PopHead, PopHeadLost, PopData, ReleaseRef, FreeExternalCounter,
          TraceCount, DeleteNode, Return, At, Reload, Pushing, Popping, Destroying
      <4>. QED
        BY <4>1, <4>2
    <3>2. Owners \subseteq Procs
      BY <1>2 DEF Owners
    <3>. QED
      BY <1>1, <3>1, <3>2
  <2>2. next'[tail.ptr].ptr # NULL => data'[next'[tail.ptr].ptr] = NULL
    <3>1. CASE QueueKept
      <4>1. next'[tail.ptr] = next[tail.ptr]
        BY <3>1, Shape DEF QueueKept
      <4>2. next[tail.ptr].ptr # NULL =>
              next[tail.ptr].ptr \in InQueue /\ next[tail.ptr].ptr # tail.ptr
        BY Shape DEF ChainOK
      <4>3. next[tail.ptr].ptr # NULL => data'[next[tail.ptr].ptr] = data[next[tail.ptr].ptr]
        BY <4>2, DataKept
      <4>. QED
        BY <4>1, <4>3 DEF PushesOK
    <3>2. CASE HeadMoved
      <4>1. PopHead(p)
        BY <1>6, <3>2, SameChain, Shape DEF HeadMoved, ChainOK
      <4>2. next' = next /\ data' = data
        BY <4>1, HeadTaken
      <4>. QED
        BY <4>2 DEF PushesOK
    <3>3. CASE NodeLinked
      <4>1. PushNext(p) \/ HelpNext(p)
        <5>1. next'[tail.ptr] # next[tail.ptr]
          BY <3>3, QueueAssumption DEF NodeLinked
        <5>2. CASE PushAllocate(p)
          <6>1. tail.ptr \in heap
            BY Shape
          <6>2. PICK n \in Nodes \ heap : new_node'[p] = n
            BY <5>2 DEF PushAllocate, NewNode
          <6>. QED
            BY <5>1, <5>2, <6>1, <6>2 DEF PushAllocate
        <5>3. CASE ~ PushAllocate(p) /\ ~ PushNext(p) /\ ~ HelpNext(p)
          <6>1. next' = next
            BY <5>3 DEF Step, Push, Pop, LetGo, PushIncrease, PushReload, PushData, PushDataTaken,
          TraceData, PushNextTaken, HelpNextTaken, SetNewTail, SetNewTailLost, PopLoad,
          PopIncrease, PopReload, PopEmpty, PopNotEmpty, PopHead, PopHeadLost, PopData,
          ReleaseRef, FreeExternalCounter, TraceCount, DeleteNode, Return, Reload, nodes
          <6>. QED
            BY <5>1, <6>1
        <5>. QED
          BY <5>2, <5>3
      <4>2. /\ ptr[p] = tail.ptr /\ ptr[p] \in Nodes
            /\ new_node[p] \in Nodes /\ new_node[p] # NULL /\ new_node[p] \in heap
            /\ new_node[p] # ptr[p]
        BY <4>1, LinkFacts, Shape
      <4>3. next'[tail.ptr].ptr = new_node[p]
        <5>1. CASE PushNext(p)
          BY <4>2, <5>1 DEF PushNext, Link
        <5>2. CASE HelpNext(p)
          <6>3. PICK n \in Nodes \ heap : new_node' = [new_node EXCEPT ![p] = n]
            BY <5>2 DEF HelpNext, NewNode
          <6>4. new_node'[p] = n
            BY <6>3
          <6>1. next' = [next EXCEPT ![ptr[p]] = Link(new_node[p]), ![n] = NullPtr]
            BY <5>2, <6>4 DEF HelpNext
          <6>2. n # ptr[p]
            BY <4>2, Shape
          <6>. QED
            BY <4>2, <6>1, <6>2 DEF Link
        <5>. QED
          BY <4>1, <5>1, <5>2
      <4>4. data'[new_node[p]] = NULL
        <5>1. data[new_node[p]] = NULL
          BY <4>2 DEF NewNodesOK
        <5>. QED
          BY <4>1, <4>2, <5>1 DEF PushNext, HelpNext, NewNode
      <4>. QED
        BY <4>3, <4>4
    <3>. QED
      BY <3>1, <3>2, <3>3, QueueStep
  <2>. QED
    BY <1>5, <1>6, <2>1, <2>2 DEF PushesOK
<1>. QED
  BY <1>3, <1>4, <1>6

\* Nobody takes a node off the queue while a pusher holds one.
LEMMA PushersStayStep ==
  ASSUME IInv, TypeOK', PushersFirst, PushersStay, Phased, NEW p \in Procs, Step(p)
  PROVE  PushersStay'
<1>. USE DEF IInv, TypeOK
<1>. SUFFICES ASSUME NEW q \in Pushers, pc'[q] = "push_data" PROVE ptr'[q] \in InQueue'
  BY DEF PushersStay
<1>0. q \in Procs
  BY DEF Procs, Threads
<1>1. CASE q = p
  <2>1. PushIncrease(p) \/ PopIncrease(p)
    BY <1>1 DEF Step, Push, Pop, LetGo, PushAllocate, PushReload, PushData, PushDataTaken,
          TraceData, PushNext, PushNextTaken, HelpNext, HelpNextTaken, SetNewTail,
          SetNewTailLost, PopLoad, PopReload, PopEmpty, PopNotEmpty, PopHead,
          PopHeadLost, PopData, ReleaseRef, FreeExternalCounter, TraceCount, DeleteNode,
          Return, Reload, Goto, At, Increase, PopsOK, counted_node_ptr
  <2>2. PushIncrease(p)
    BY <1>1, <2>1 DEF PopIncrease, Goto
  <2>3. ptr'[q] = tail.ptr
    BY <1>1, <2>2 DEF PushIncrease, Increase
  <2>4. InQueue \subseteq InQueue'
    <3>1. ~ HeadMoved
      BY <2>2, SameChain, Shape DEF HeadMoved, ChainOK, PushIncrease, SetNewTail, PopHead, At
    <3>. QED
      BY <3>1, QueueStep DEF QueueKept, NodeLinked
  <2>. QED
    BY <2>3, <2>4, Shape
<1>2. CASE q # p
  <2>1. pc[q] = "push_data" /\ ptr'[q] = ptr[q]
    BY <1>0, <1>2, OthersLocals
  <2>2. ~ PopHead(p)
    BY <2>1 DEF PopHead, At, PushersFirst, Finished, PlacesOK, PushLabels, LettingGo
  <2>3. InQueue \subseteq InQueue'
    <3>1. ~ HeadMoved
      BY <2>2, SameChain, TailSwung, Shape DEF HeadMoved, ChainOK
    <3>. QED
      BY <3>1, QueueStep DEF QueueKept, NodeLinked
  <2>. QED
    BY <2>1, <2>3 DEF PushersStay
<1>. QED
  BY <1>1, <1>2

----------------------------------------------------------------------------
(* What each step does to the two variables of AtomicQueue. *)

\* The contents stay, gain the data in tail's node at the end, lose the first.
LEMMA SameContents ==
  ASSUME QueueInv, QueueInv', ChainExists, NEW p \in Procs, Step(p), ~ SetNewTail(p), ~ PopHead(p)
  PROVE  Contents' = Contents
<1>. IInv /\ TypeOK'
  BY DEF QueueInv, IInv
<1>1. PICK s \in Seq(Nodes) : Chain(s)
  BY DEF ChainExists
<1>2. Chain(s)'
  BY <1>1, SameChain, ChainKept
<1>3. Contents = Items(s) /\ Contents' = Items(s)'
  BY <1>1, <1>2, ContentsIs, ContentsIsNext
<1>4. \A n \in InQueue \ Ahead : data'[n] = data[n]
  BY DataKept, Shape
<1>5. Items(s)' = Items(s)
  BY <1>1, <1>4 DEF Items, Chain
<1>. QED
  BY <1>3, <1>5

LEMMA AppendedContents ==
  ASSUME QueueInv, QueueInv', ChainExists, NEW p \in Procs, SetNewTail(p)
  PROVE  Contents' = Append(Contents, data[tail.ptr])
<1>. IInv /\ TypeOK'
  BY DEF QueueInv, IInv
<1>. PICK n : n = tail.ptr
  OBVIOUS
<1>1. PICK s \in Seq(Nodes) : Chain(s)
  BY DEF ChainExists
<1>. DEFINE t == Append(s, n)
            u == Items(s)
<1>2. n \in Nodes /\ t \in Seq(Nodes) /\ Chain(t)'
  BY <1>1, TailSwung, ChainAppend, Shape
<1>3. Contents = u /\ Contents' = Items(t)'
  BY <1>1, <1>2, ContentsIs, ContentsIsNext
<1>4. data' = data
  BY TailSwung
<1>5. Items(t)' = [i \in 1 .. Len(t) |-> data[t[i]]]
  BY <1>4 DEF Items
<1>6. /\ Len(s) \in Nat /\ Len(t) = Len(s) + 1
      /\ t[Len(s) + 1] = n /\ \A i \in 1 .. Len(s) : t[i] = s[i]
  BY <1>2, AppendProperties, LenProperties
<1>7. Len(u) = Len(s) /\ \A i \in 1 .. Len(s) : u[i] = data[s[i]]
  BY <1>6 DEF Items
<1>8. Append(u, data[n]) = [i \in 1 .. Len(s) + 1 |-> IF i = Len(s) + 1 THEN data[n] ELSE u[i]]
  BY <1>6, <1>7
<1>. HIDE DEF t, u
<1>9. \A i \in 1 .. Len(s) + 1 : data[t[i]] = IF i = Len(s) + 1 THEN data[n] ELSE u[i]
  BY <1>6, <1>7
<1>. QED
  BY <1>3, <1>5, <1>6, <1>8, <1>9

LEMMA TailContents ==
  ASSUME QueueInv, QueueInv', ChainExists, NEW p \in Procs, PopHead(p)
  PROVE  /\ Contents # <<>>
         /\ Head(Contents) = data[ptr[p]]
         /\ Contents' = Tail(Contents)
<1>. IInv /\ TypeOK'
  BY DEF QueueInv, IInv
<1>1. PICK s \in Seq(Nodes) : Chain(s)
  BY DEF ChainExists
<1>. DEFINE t == Tail(s)
            u == Items(s)
<1>2. s # <<>> /\ s[1] = ptr[p] /\ t \in Seq(Nodes) /\ Chain(t)'
  BY <1>1, HeadTaken, ChainTail, Shape
<1>3. Contents = u /\ Contents' = Items(t)'
  BY <1>1, <1>2, ContentsIs, ContentsIsNext
<1>4. data' = data
  BY HeadTaken
<1>5. Items(t)' = [i \in 1 .. Len(t) |-> data[t[i]]]
  BY <1>4 DEF Items
<1>6. /\ Len(s) \in Nat \ {0} /\ Len(t) = Len(s) - 1
      /\ \A i \in 1 .. Len(t) : t[i] = s[i + 1]
  BY <1>2
<1>7. Len(u) = Len(s) /\ \A i \in 1 .. Len(s) : u[i] = data[s[i]]
  BY <1>6 DEF Items
<1>. QED
  BY <1>2, <1>3, <1>5, <1>6, <1>7

\* Where head meets tail there are no items.
LEMMA EmptyContents ==
  ASSUME QueueInv, ChainExists, head.ptr = tail.ptr
  PROVE  Contents = <<>>
<1>1. PICK s \in Seq(Nodes) : Chain(s)
  BY DEF ChainExists
<1>2. Len(s) = 0
  <2>1. Len(s) \in Nat
    BY LenProperties
  <2>2. 1 \notin 1 .. Len(s)
    BY <1>1, Shape DEF Chain, After, QueueInv
  <2>. QED
    BY <2>1, <2>2
<1>3. Contents = Items(s)
  BY <1>1, ContentsIs
<1>. QED
  BY <1>2, <1>3 DEF Items

\* A thread that does not step keeps its call, unless tail leaves the node its
\* data is in.
LEMMA OthersCalls ==
  ASSUME IInv, IInv', NEW p \in Procs, Step(p), NEW q \in Procs \ {p},
         SetNewTail(p) => q \notin Owners
  PROVE  Call(q)' = Call(q)
<1>. USE DEF IInv, TypeOK
<1>1. pc'[q] = pc[q] /\ cont'[q] = cont[q] /\ ptr'[q] = ptr[q] /\ val'[q] = val[q]
  BY OthersLocals
<1>2. ASSUME q \in Pushers PROVE PushCall(q)' = PushCall(q)
  <2>1. CASE SetNewTail(p) /\ cont[q] = "return"
    <3>1. ~ Pending(q)
      BY <1>2, <2>1 DEF Pending, Owners
    <3>2. ~ Pending(q)'
      <4>1. Holders(tail'.ptr) = {}
        BY <2>1, TailSwung, Shape, QueueAssumption DEF ChainOK
      <4>. QED
        BY <1>1, <4>1 DEF Pending, Holders
    <3>. QED
      BY <1>1, <3>1, <3>2 DEF PushCall
  <2>2. CASE SetNewTail(p) /\ cont[q] # "return"
    BY <1>1, <1>2, <2>2 DEF PushCall, PlacesOK
  <2>3. CASE ~ SetNewTail(p)
    <3>1. tail'.ptr = tail.ptr
      BY <2>3, SameChain, HeadTaken
    <3>. QED
      BY <1>1, <3>1 DEF PushCall, Pending
  <2>. QED
    BY <2>1, <2>2, <2>3
<1>3. ASSUME q \notin Pushers PROVE PopCall(q)' = PopCall(q)
  <2>1. ASSUME pc[q] = "pop_data" PROVE data'[ptr[q]] = data[ptr[q]]
    <3>1. /\ ptr[q] \in Nodes /\ ptr[q] \in heap /\ data[ptr[q]] # NULL
          /\ q \in HeadFolders(ptr[q])
      BY <1>3, <2>1, UsedNodes DEF Using, DataOK, HeadFolders
    <3>2. CASE PushAllocate(p) \/ HelpNext(p)
      BY <3>1, <3>2 DEF PushAllocate, HelpNext, NewNode
    <3>3. CASE PushData(p)
      BY <3>1, <3>3 DEF PushData, DataIsFree
    <3>4. CASE PopData(p)
      <4>1. pc[p] = "pop_data" /\ data' = [data EXCEPT ![ptr[p]] = NULL]
        BY <3>4 DEF PopData, At
      <4>2. p \in HeadFolders(ptr[p])
        BY <4>1 DEF HeadFolders, PlacesOK, PushLabels, LettingGo
      <4>3. ptr[p] # ptr[q]
        BY <3>1, <4>2 DEF CountsOK
      <4>. QED
        BY <3>1, <4>1, <4>3
    <3>5. CASE ~ PushAllocate(p) /\ ~ HelpNext(p) /\ ~ PushData(p) /\ ~ PopData(p)
      BY <3>5 DEF Step, Push, Pop, LetGo, PushIncrease, PushReload, PushDataTaken, TraceData,
          PushNext, PushNextTaken, HelpNextTaken, SetNewTail, SetNewTailLost, PopLoad,
          PopIncrease, PopReload, PopEmpty, PopNotEmpty, PopHead, PopHeadLost,
          ReleaseRef, FreeExternalCounter, TraceCount, DeleteNode, Return, Reload, nodes
    <3>. QED
      BY <3>2, <3>3, <3>4, <3>5
  <2>. QED
    BY <1>1, <2>1 DEF PopCall
<1>. QED
  BY <1>1, <1>2, <1>3 DEF Call

\* One call changes, or none.
LEMMA AdvanceIs ==
  ASSUME NEW p \in Procs, NEW from, NEW to, Call(p) = from, Call(p)' = to,
         \A q \in Procs \ {p} : Call(q)' = Call(q)
  PROVE  LossyQueue!Advance(p, from, to)
BY DEF LossyQueue!Advance, Calls

LEMMA NoCall ==
  ASSUME \A q \in Procs : Call(q)' = Call(q), Contents' = Contents
  PROVE  UNCHANGED LossyQueue!vars
BY DEF LossyQueue!vars, Calls

\* What a pusher's step does to its own call, but for the one that swings tail.
LEMMA OwnPush ==
  ASSUME QueueInv, QueueInv', PushesOK, PopsOK, NEW p \in Pushers, Step(p), ~ SetNewTail(p)
  PROVE  /\ PushAllocate(p) => \E v \in Values : /\ Call(p) = LossyQueue!Idle
                                                 /\ Call(p)' = LossyQueue!Pushing(v)
         /\ PushData(p) /\ ptr[p] # tail.ptr => /\ Call(p) = LossyQueue!Pushing(val[p])
                                                /\ Call(p)' = LossyQueue!Pushed
         /\ Return(p) => Call(p) = LossyQueue!Pushed /\ Call(p)' = LossyQueue!Idle
         /\ \/ PushAllocate(p) \/ Return(p) \/ (PushData(p) /\ ptr[p] # tail.ptr)
            \/ Call(p)' = Call(p)
<1>. USE DEF QueueInv, IInv, TypeOK, Goto, At,
             LossyQueue!Idle, LossyQueue!Pushing, LossyQueue!Pushed
<1>1. p \in Procs /\ p \notin Poppers /\ p # Main
  BY QueueAssumption DEF Procs, Threads
<1>2. /\ pc[p] \in PushLabels \cup LettingGo \cup {"idle", "return", "crashed"}
      /\ cont[p] \in {"push_increase", "return"}
      /\ pc[p] \in {"push_trace", "push_next"} => cont[p] = "return"
      /\ pc[p] = "push_help" => cont[p] = "push_increase"
      /\ pc[p] = "return" => cont[p] = "return"
  BY <1>1 DEF PlacesOK, PopsOK
<1>3. ASSUME PushAllocate(p)
      PROVE  \E v \in Values : /\ Call(p) = LossyQueue!Idle
                               /\ Call(p)' = LossyQueue!Pushing(v)
  <2>1. PICK v \in Values : val' = [val EXCEPT ![p] = v]
    BY <1>3 DEF PushAllocate
  <2>2. pc[p] = "idle" /\ pc'[p] = "push_increase" /\ val'[p] = v
    BY <1>1, <1>3, <2>1 DEF PushAllocate, Pushing
  <2>. QED
    BY <2>2 DEF Call, PushCall
<1>4. ASSUME PushData(p)
      PROVE  /\ Call(p) = LossyQueue!Pushing(val[p])
             /\ Call(p)' = IF ptr[p] = tail.ptr THEN LossyQueue!Pushing(val[p])
                           ELSE LossyQueue!Pushed
  <2>1. /\ pc[p] = "push_data" /\ pc'[p] = "push_trace" /\ cont'[p] = "return"
        /\ val'[p] = val[p] /\ ptr'[p] = ptr[p] /\ tail' = tail
    BY <1>1, <1>4 DEF PushData, links, push
  <2>. QED
    BY <2>1 DEF Call, PushCall, Pending
<1>5. ASSUME Return(p) PROVE Call(p) = LossyQueue!Pushed /\ Call(p)' = LossyQueue!Idle
  <2>1. pc[p] = "return" /\ pc'[p] = "idle"
    BY <1>1, <1>5 DEF Return
  <2>. QED
    BY <1>2, <2>1 DEF Call, PushCall, Pending
<1>6. ASSUME ~ PushAllocate(p), ~ PushData(p), ~ Return(p) PROVE Call(p)' = Call(p)
  <2>1. tail'.ptr = tail.ptr /\ val'[p] = val[p]
    <3>1. tail'.ptr = tail.ptr
      BY <1>1, SameChain, HeadTaken
    <3>2. ~ PopData(p)
      BY <1>2 DEF PopData, PushLabels, LettingGo
    <3>3. val' = val
      BY <1>6, <3>2 DEF Step, Push, Pop, LetGo, PushIncrease, PushReload, PushDataTaken, TraceData,
          PushNext, PushNextTaken, HelpNext, HelpNextTaken, SetNewTail, SetNewTailLost, PopLoad,
          PopIncrease, PopReload, PopEmpty, PopNotEmpty, PopHead, PopHeadLost,
          ReleaseRef, FreeExternalCounter, TraceCount, DeleteNode, Reload
    <3>. QED
      BY <3>1, <3>3
  <2>2. ASSUME PushIncrease(p) \/ PushReload(p) \/ PushDataTaken(p) PROVE Call(p)' = Call(p)
    <3>1. /\ pc[p] \in {"push_increase", "push_data"}
          /\ pc'[p] \in {"push_increase", "push_data", "push_help"}
      BY <1>1, <2>2 DEF PushIncrease, PushReload, PushDataTaken, Reload
    <3>. QED
      BY <2>1, <3>1 DEF Call, PushCall
  <2>3. ASSUME TraceData(p) PROVE Call(p)' = Call(p)
    <3>1. /\ pc[p] = "push_trace" /\ cont'[p] = cont[p] /\ ptr'[p] = ptr[p]
          /\ pc'[p] = IF data[ptr[p]] = NULL THEN "crashed" ELSE "push_next"
      BY <1>1, <2>3 DEF TraceData, push
    <3>2. ptr[p] = tail.ptr => data[ptr[p]] # NULL
      BY <1>1, <3>1, Shape DEF DataOK
    <3>. QED
      BY <1>2, <2>1, <3>1, <3>2 DEF Call, PushCall, Pending
  <2>4. ASSUME PushNext(p) \/ PushNextTaken(p) PROVE Call(p)' = Call(p)
    <3>1. /\ pc[p] = "push_next" /\ cont'[p] = cont[p] /\ ptr'[p] = ptr[p]
          /\ pc'[p] = "set_tail"
      BY <1>1, <2>4 DEF PushNext, PushNextTaken
    <3>. QED
      BY <1>2, <2>1, <3>1 DEF Call, PushCall, Pending
  <2>5. ASSUME HelpNext(p) \/ HelpNextTaken(p) PROVE Call(p)' = Call(p)
    <3>1. /\ pc[p] = "push_help" /\ cont'[p] = cont[p] /\ pc'[p] = "set_tail"
      BY <1>1, <2>5 DEF HelpNext, HelpNextTaken
    <3>. QED
      BY <1>2, <2>1, <3>1 DEF Call, PushCall
  <2>6. ASSUME SetNewTailLost(p) PROVE Call(p)' = Call(p)
    <3>1. /\ pc[p] = "set_tail" /\ cont'[p] = cont[p] /\ ptr'[p] = ptr[p]
          /\ pc'[p] = IF tail.ptr = ptr[p] THEN "set_tail" ELSE "release"
      BY <1>1, <2>6 DEF SetNewTailLost, push
    <3>. QED
      BY <1>2, <2>1, <3>1 DEF Call, PushCall, Pending
  <2>7. ASSUME ReleaseRef(p) \/ FreeExternalCounter(p) \/ TraceCount(p) \/ DeleteNode(p)
        PROVE  Call(p)' = Call(p)
    <3>1. /\ pc[p] \in LettingGo /\ cont'[p] = cont[p]
          /\ pc'[p] \in LettingGo \cup {cont[p]}
      BY <1>1, <2>7 DEF ReleaseRef, FreeExternalCounter, TraceCount, DeleteNode, LettingGo
    <3>. QED
      BY <1>2, <2>1, <3>1 DEF Call, PushCall, Pending, LettingGo
  <2>8. ~ Pop(p)
    BY <1>1, <1>2 DEF Pop, PopLoad, PopIncrease, PopReload, PopEmpty, PopNotEmpty, PopHead,
                      PopHeadLost, PopData, Popping, Destroying, PushLabels, LettingGo
  <2>. QED
    BY <1>6, <2>2, <2>3, <2>4, <2>5, <2>6, <2>7, <2>8 DEF Step, Push, LetGo
<1>. HIDE DEF QueueInv, IInv, TypeOK, Goto, At,
              LossyQueue!Idle, LossyQueue!Pushing, LossyQueue!Pushed
<1>7. PushData(p) /\ ptr[p] = tail.ptr => Call(p)' = Call(p)
  BY <1>4
<1>8. PushData(p) /\ ptr[p] # tail.ptr => /\ Call(p) = LossyQueue!Pushing(val[p])
                                          /\ Call(p)' = LossyQueue!Pushed
  BY <1>4
<1>. QED
  BY <1>3, <1>5, <1>6, <1>7, <1>8

\* What a step of the other threads does to their own call.
LEMMA OwnPop ==
  ASSUME QueueInv, QueueInv', PopsOK, NEW p \in Procs \ Pushers, Step(p)
  PROVE  /\ PopLoad(p) => Call(p) = LossyQueue!Idle /\ Call(p)' = LossyQueue!Popping
         /\ PopEmpty(p) => /\ Call(p) = LossyQueue!Popping
                           /\ Call(p)' = LossyQueue!Popped(NULL)
         /\ PopHead(p) => /\ Call(p) = LossyQueue!Popping
                          /\ Call(p)' = LossyQueue!Popped(data[ptr[p]])
         /\ Return(p) => Call(p) = LossyQueue!Popped(val[p]) /\ Call(p)' = LossyQueue!Idle
         /\ \/ PopLoad(p) \/ PopEmpty(p) \/ PopHead(p) \/ Return(p)
            \/ Call(p)' = Call(p)
<1>. USE DEF QueueInv, IInv, TypeOK, Goto, At,
             LossyQueue!Idle, LossyQueue!Popping, LossyQueue!Popped
<1>2. /\ pc[p] \in PopLabels \cup LettingGo \cup {"idle", "return"}
      /\ cont[p] \in {"pop_increase", "return"}
      /\ pc[p] \in {"return", "pop_data"} => cont[p] = "return"
      /\ pc[p] \in {"idle"} \cup PopLabels \/ cont[p] = "pop_increase" => val[p] = NULL
  BY DEF PlacesOK, PopsOK
<1>3. ASSUME PopLoad(p) PROVE Call(p) = LossyQueue!Idle /\ Call(p)' = LossyQueue!Popping
  <2>1. pc[p] = "idle" /\ pc'[p] = "pop_increase"
    BY <1>3 DEF PopLoad, Popping, Destroying
  <2>. QED
    BY <2>1 DEF Call, PopCall
<1>4. ASSUME PopEmpty(p)
      PROVE  Call(p) = LossyQueue!Popping /\ Call(p)' = LossyQueue!Popped(NULL)
  <2>1. /\ pc[p] = "pop_tail" /\ pc'[p] = "release" /\ cont'[p] = "return" /\ val'[p] = val[p]
    BY <1>4 DEF PopEmpty
  <2>. QED
    BY <1>2, <2>1 DEF Call, PopCall, PopLabels
<1>5. ASSUME PopHead(p)
      PROVE  Call(p) = LossyQueue!Popping /\ Call(p)' = LossyQueue!Popped(data[ptr[p]])
  <2>1. /\ pc[p] = "pop_head" /\ pc'[p] = "pop_data" /\ ptr'[p] = ptr[p] /\ data' = data
    BY <1>5 DEF PopHead, nodes
  <2>. QED
    BY <2>1 DEF Call, PopCall
<1>6. ASSUME Return(p) PROVE Call(p) = LossyQueue!Popped(val[p]) /\ Call(p)' = LossyQueue!Idle
  <2>1. pc[p] = "return" /\ pc'[p] = "idle"
    BY <1>6 DEF Return
  <2>. QED
    BY <1>2, <2>1 DEF Call, PopCall
<1>7. ASSUME PopIncrease(p) \/ PopReload(p) \/ PopNotEmpty(p) PROVE Call(p)' = Call(p)
  <2>1. /\ pc[p] \in {"pop_increase", "pop_tail"}
        /\ pc'[p] \in {"pop_increase", "pop_tail", "pop_head"}
    BY <1>7 DEF PopIncrease, PopReload, PopNotEmpty, Reload
  <2>. QED
    BY <2>1 DEF Call, PopCall
<1>8. ASSUME PopHeadLost(p) PROVE Call(p)' = Call(p)
  <2>1. pc[p] = "pop_head" /\ pc'[p] = "release" /\ cont'[p] = "pop_increase"
    BY <1>8 DEF PopHeadLost
  <2>. QED
    BY <2>1 DEF Call, PopCall
<1>9. ASSUME PopData(p) PROVE Call(p)' = Call(p)
  <2>1. /\ pc[p] = "pop_data" /\ pc'[p] = "free" /\ cont'[p] = cont[p] /\ val'[p] = data[ptr[p]]
    BY <1>9 DEF PopData
  <2>. QED
    BY <1>2, <2>1 DEF Call, PopCall
<1>10. ASSUME ReleaseRef(p) \/ FreeExternalCounter(p) \/ TraceCount(p) \/ DeleteNode(p)
       PROVE  Call(p)' = Call(p)
  <2>1. /\ pc[p] \in LettingGo /\ cont'[p] = cont[p] /\ val'[p] = val[p]
        /\ pc'[p] \in LettingGo \cup {cont[p]}
    BY <1>10 DEF ReleaseRef, FreeExternalCounter, TraceCount, DeleteNode, LettingGo
  <2>. QED
    BY <1>2, <2>1 DEF Call, PopCall, LettingGo
<1>11. ~ Push(p)
  BY <1>2 DEF PopLabels, LettingGo, Push, PushAllocate, PushIncrease, PushReload, PushData,
          PushDataTaken, TraceData, PushNext, PushNextTaken, HelpNext, HelpNextTaken, SetNewTail,
          SetNewTailLost, Pushing
<1>. HIDE DEF QueueInv, IInv, TypeOK, Goto, At,
              LossyQueue!Idle, LossyQueue!Popping, LossyQueue!Popped
<1>. QED
  BY <1>3, <1>4, <1>5, <1>6, <1>7, <1>8, <1>9, <1>10, <1>11 DEF Step, Pop, LetGo

\* Swinging tail ends the push whose data is in the node, and no other.
LEMMA OwnerPushes ==
  ASSUME QueueInv, QueueInv', PushesOK, PopsOK, NEW p \in Procs, SetNewTail(p)
  PROVE  \E q \in Pushers :
           /\ data[tail.ptr] \in Values
           /\ Call(q) = LossyQueue!Pushing(data[tail.ptr])
           /\ Call(q)' = LossyQueue!Pushed
           /\ \A r \in Procs \ {q} : Call(r)' = Call(r)
<1>. USE DEF QueueInv, IInv, TypeOK
<1>1. Step(p)
  BY DEF Step, Push
<1>2. /\ tail.ptr = ptr[p] /\ pc[p] = "set_tail" /\ p \in Pushers /\ tail' = next[tail.ptr]
      /\ tail'.ptr # tail.ptr
  BY TailSwung
<1>3. pc'[p] = "free" /\ cont' = cont /\ ptr' = ptr /\ val' = val
  BY DEF SetNewTail, Goto, push
<1>4. next[tail.ptr].ptr # NULL
  BY <1>2, TailSwung, Shape, QueueAssumption
<1>5. data[tail.ptr] \in Values
  BY <1>4, Shape DEF DataOK
<1>6. PICK q \in Owners : val[q] = data[tail.ptr]
  BY <1>5, QueueAssumption DEF PushesOK
<1>7. /\ q \in Pushers /\ q \in Procs /\ ptr[q] = tail.ptr /\ cont[q] = "return"
      /\ pc[q] \in {"push_trace", "push_next", "set_tail"}
      /\ \A r \in Owners : r = q
  BY <1>6 DEF Owners, PushesOK, Procs, Threads
<1>8. Call(q) = LossyQueue!Pushing(data[tail.ptr])
  BY <1>6, <1>7 DEF Call, PushCall, Pending, LossyQueue!Pushing
<1>9. Call(q)' = LossyQueue!Pushed
  <2>1. pc'[q] \in {"push_trace", "push_next", "set_tail", "free"}
    BY <1>1, <1>3, <1>7, OthersLocals
  <2>. QED
    BY <1>2, <1>3, <1>7, <2>1 DEF Call, PushCall, Pending, LossyQueue!Pushed
<1>10. ASSUME NEW r \in Procs \ {q} PROVE Call(r)' = Call(r)
  <2>1. CASE r = p
    <3>1. cont[p] = "push_increase"
      BY <1>2, <1>7, <1>10, <2>1 DEF Owners, PlacesOK
    <3>. QED
      BY <1>2, <1>3, <2>1, <3>1 DEF Call, PushCall
  <2>2. CASE r # p
    BY <1>1, <1>7, <1>10, <2>2, OthersCalls
  <2>. QED
    BY <2>1, <2>2
<1>. QED
  BY <1>5, <1>7, <1>8, <1>9, <1>10

\* The steps of AtomicQueue that lose nothing.
Lossless ==
  \E p \in Procs :
    \/ \E v \in Values : LossyQueue!CallPush(p, v) \/ LossyQueue!Push(p, v)
    \/ LossyQueue!CallPop(p) \/ LossyQueue!PopFront(p) \/ LossyQueue!PopEmpty(p)
    \/ LossyQueue!Return(p)

\* The abstract step each concrete one is.
LEMMA PusherEffect ==
  ASSUME QueueInv, QueueInv', ChainExists, PushesOK, PopsOK,
         NEW p \in Pushers, Step(p), ~ SetNewTail(p)
  PROVE  \/ Lossless
         \/ UNCHANGED LossyQueue!vars
         \/ PushData(p) /\ ptr[p] # tail.ptr /\ LossyQueue!Next
<1>. p \in Procs /\ IInv /\ IInv'
  BY DEF Procs, Threads, QueueInv
<1>1. \A q \in Procs \ {p} : Call(q)' = Call(q)
  BY OthersCalls
<1>2. Contents' = Contents
  <2>1. ~ PopHead(p)
    BY DEF PopHead, At, IInv, PlacesOK, PushLabels, LettingGo
  <2>. QED
    BY <2>1, SameContents
<1>3. CASE PushAllocate(p)
  <2>1. PICK v \in Values : Call(p) = LossyQueue!Idle /\ Call(p)' = LossyQueue!Pushing(v)
    BY <1>3, OwnPush
  <2>2. LossyQueue!CallPush(p, v)
    BY <1>1, <1>2, <2>1, AdvanceIs DEF LossyQueue!CallPush
  <2>. QED
    BY <2>2 DEF Lossless
<1>4. CASE PushData(p) /\ ptr[p] # tail.ptr
  <2>1. Call(p) = LossyQueue!Pushing(val[p]) /\ Call(p)' = LossyQueue!Pushed
    BY <1>4, OwnPush
  <2>2. val[p] \in Values
    BY <1>4 DEF PushData, At, IInv, TypeOK, PlacesOK
  <2>3. LossyQueue!Lose(p, val[p])
    BY <1>1, <1>2, <2>1, AdvanceIs DEF LossyQueue!Lose
  <2>. QED
    BY <1>4, <2>2, <2>3 DEF LossyQueue!Next
<1>5. CASE Return(p)
  <2>1. Call(p) = LossyQueue!Pushed /\ Call(p)' = LossyQueue!Idle
    BY <1>5, OwnPush
  <2>2. LossyQueue!Advance(p, LossyQueue!Pushed, LossyQueue!Idle)
    BY <1>1, <2>1, AdvanceIs
  <2>3. LossyQueue!Return(p)
    BY <1>2, <2>2 DEF LossyQueue!Return
  <2>. QED
    BY <2>3 DEF Lossless
<1>6. CASE Call(p)' = Call(p)
  BY <1>1, <1>2, <1>6, NoCall
<1>. QED
  BY <1>3, <1>4, <1>5, <1>6, OwnPush

LEMMA PopperEffect ==
  ASSUME QueueInv, QueueInv', ChainExists, PopsOK, NEW p \in Procs \ Pushers, Step(p)
  PROVE  Lossless \/ UNCHANGED LossyQueue!vars
<1>. IInv /\ IInv'
  BY DEF QueueInv
<1>0. ~ SetNewTail(p)
  BY DEF SetNewTail, At, IInv, PlacesOK, PopLabels, LettingGo
<1>1. \A q \in Procs \ {p} : Call(q)' = Call(q)
  BY <1>0, OthersCalls
<1>2. CASE PopHead(p)
  <2>1. /\ Call(p) = LossyQueue!Popping
        /\ Call(p)' = LossyQueue!Popped(Head(Contents))
        /\ Contents # <<>> /\ Contents' = Tail(Contents)
    BY <1>2, OwnPop, TailContents
  <2>2. LossyQueue!PopFront(p)
    BY <1>1, <2>1, AdvanceIs DEF LossyQueue!PopFront
  <2>. QED
    BY <2>2 DEF Lossless
<1>3. CASE ~ PopHead(p)
  <2>1. Contents' = Contents
    BY <1>0, <1>3, SameContents
  <2>2. CASE PopLoad(p)
    <3>1. Call(p) = LossyQueue!Idle /\ Call(p)' = LossyQueue!Popping
      BY <2>2, OwnPop
    <3>2. LossyQueue!CallPop(p)
      BY <1>1, <2>1, <3>1, AdvanceIs DEF LossyQueue!CallPop
    <3>. QED
      BY <3>2 DEF Lossless
  <2>3. CASE PopEmpty(p)
    <3>1. Call(p) = LossyQueue!Popping /\ Call(p)' = LossyQueue!Popped(NULL)
      BY <2>3, OwnPop
    <3>2. head.ptr = tail.ptr
      BY <2>3, Shape DEF PopEmpty, At, PopsOK
    <3>3. Contents = <<>>
      BY <3>2, EmptyContents
    <3>4. LossyQueue!PopEmpty(p)
      BY <1>1, <2>1, <3>1, <3>3, AdvanceIs DEF LossyQueue!PopEmpty
    <3>. QED
      BY <3>4 DEF Lossless
  <2>4. CASE Return(p)
    <3>1. Call(p) = LossyQueue!Popped(val[p]) /\ Call(p)' = LossyQueue!Idle
      BY <2>4, OwnPop
    <3>2. val[p] \in Values \cup {NULL}
      BY DEF IInv, TypeOK
    <3>3. LossyQueue!Advance(p, LossyQueue!Popped(val[p]), LossyQueue!Idle)
      BY <1>1, <3>1, AdvanceIs
    <3>4. LossyQueue!Return(p)
      BY <2>1, <3>2, <3>3 DEF LossyQueue!Return
    <3>. QED
      BY <3>4 DEF Lossless
  <2>5. CASE Call(p)' = Call(p)
    BY <1>1, <2>1, <2>5, NoCall
  <2>. QED
    BY <1>3, <2>2, <2>3, <2>4, <2>5, OwnPop
<1>. QED
  BY <1>2, <1>3

LEMMA SwingEffect ==
  ASSUME QueueInv, QueueInv', ChainExists, PushesOK, PopsOK, NEW p \in Procs, SetNewTail(p)
  PROVE  Lossless
<1>. DEFINE v == data[tail.ptr]
<1>1. PICK q \in Procs : /\ v \in Values
                         /\ Call(q) = LossyQueue!Pushing(v)
                         /\ Call(q)' = LossyQueue!Pushed
                         /\ \A r \in Procs \ {q} : Call(r)' = Call(r)
  <2>1. PICK q \in Pushers : /\ v \in Values
                             /\ Call(q) = LossyQueue!Pushing(v)
                             /\ Call(q)' = LossyQueue!Pushed
                             /\ \A r \in Procs \ {q} : Call(r)' = Call(r)
    BY OwnerPushes
  <2>. QED
    BY <2>1 DEF Procs, Threads
<1>2. Contents' = Append(Contents, v)
  BY AppendedContents
<1>3. LossyQueue!Push(q, v)
  BY <1>1, <1>2, AdvanceIs DEF LossyQueue!Push
<1>. QED
  BY <1>1, <1>3 DEF Lossless

\* Each step takes effect as a step of AtomicQueue or not at all; what loses an
\* item is a push into a node tail does not point to.
LEMMA Effect ==
  ASSUME QueueInv, QueueInv', ChainExists, PushesOK, PopsOK, NEW p \in Procs, Step(p)
  PROVE  \/ Lossless
         \/ UNCHANGED LossyQueue!vars
         \/ p \in Pushers /\ PushData(p) /\ ptr[p] # tail.ptr /\ LossyQueue!Next
<1>1. CASE SetNewTail(p)
  BY <1>1, SwingEffect
<1>2. CASE ~ SetNewTail(p) /\ p \in Pushers
  BY <1>2, PusherEffect
<1>3. CASE p \notin Pushers
  BY <1>3, PopperEffect
<1>. QED
  BY <1>1, <1>2, <1>3

\* Lossless steps are steps of both abstract queues.
LEMMA LosslessIsNext == Lossless => LossyQueue!Next /\ Queue!Next
<1>1. Lossless => LossyQueue!Next
  BY DEF Lossless, LossyQueue!Next
<1>2. Lossless => Queue!Next
  BY DEF Lossless, Queue!Next, LossyQueue!CallPush, LossyQueue!Push, LossyQueue!CallPop,
         LossyQueue!PopFront, LossyQueue!PopEmpty, LossyQueue!Return, LossyQueue!Advance,
         Queue!CallPush, Queue!Push, Queue!CallPop, Queue!PopFront, Queue!PopEmpty, Queue!Return,
         Queue!Advance, LossyQueue!Idle, LossyQueue!Pushing, LossyQueue!Pushed,
         LossyQueue!Popping, LossyQueue!Popped, Queue!Idle, Queue!Pushing, Queue!Pushed,
         Queue!Popping, Queue!Popped
<1>. QED
  BY <1>1, <1>2

\* While the pushers work nobody takes a node off the queue, so the node a
\* push finds without data is the one tail points to.
LEMMA NothingLost ==
  ASSUME IInv, PushersStay, NEW p \in Pushers, PushData(p)
  PROVE  ptr[p] = tail.ptr
<1>. USE DEF IInv, TypeOK
<1>1. pc[p] = "push_data" /\ data[ptr[p]] = NULL /\ p \in Procs
  BY DEF PushData, DataIsFree, At, Procs, Threads
<1>2. ptr[p] \in InQueue /\ p \in Holders(ptr[p])
  BY <1>1 DEF PushersStay, Holders
<1>3. ptr[p] \in Ahead
  BY <1>1, <1>2, Shape DEF DataOK, ChainOK
<1>4. ptr[p] # next[tail.ptr].ptr
  BY <1>2 DEF ChainOK
<1>. QED
  BY <1>3, <1>4 DEF Ahead

\* What the calls depend on beside QueueInv.
CallsInv == ChainExists /\ PushesOK /\ PopsOK

\* The initial states map to the abstract ones.
LEMMA CallsInit == Init => CallsInv /\ PushersStay /\ LossyQueue!Init /\ Queue!Init
<1>. SUFFICES ASSUME Init PROVE CallsInv /\ PushersStay /\ LossyQueue!Init /\ Queue!Init
  OBVIOUS
<1>1. QueueInv
  BY InitQueueInv
<1>2. head.ptr = tail.ptr /\ next[tail.ptr].ptr = NULL /\ data[tail.ptr] = NULL
  BY DEF Init, Link, NullPtr
<1>3. ChainExists
  <2>1. InQueue \subseteq heap /\ heap = {tail.ptr}
    BY DEF InQueue, Init, Link
  <2>2. tail.ptr \in Ahead
    BY <1>1 DEF QueueInv, IInv, ChainOK, Ahead
  <2>3. <<>> \in Seq(Nodes) /\ Chain(<<>>)
    BY <1>2, <2>1, <2>2 DEF Chain, After
  <2>. QED
    BY <2>3 DEF ChainExists
<1>4. PushesOK
  BY <1>2 DEF Init, PushesOK, Owners, Procs, Threads
<1>5. PopsOK
  BY DEF Init, PopsOK
<1>6. PushersStay
  BY DEF Init, PushersStay, Procs, Threads
<1>7. Contents = <<>>
  BY <1>1, <1>2, <1>3, EmptyContents
<1>8. Calls = [p \in Procs |-> LossyQueue!Idle] /\ LossyQueue!Idle = Queue!Idle
  BY DEF Init, Calls, Call, LossyQueue!Idle, Queue!Idle
<1>. QED
  BY <1>3, <1>4, <1>5, <1>6, <1>7, <1>8 DEF CallsInv, LossyQueue!Init, Queue!Init

\* A step that changes nothing changes no abstract variable.
LEMMA CallsStutter ==
  ASSUME QueueInv, QueueInv', CallsInv, UNCHANGED vars
  PROVE  /\ CallsInv' /\ (PushersStay => PushersStay')
         /\ UNCHANGED LossyQueue!vars /\ UNCHANGED Queue!vars
<1>. USE DEF vars, links, nodes, push, client
<1>1. Ahead' = Ahead /\ InQueue' = InQueue
  BY DEF Ahead, InQueue, HeadFolders, Private, Outstanding, TailFolders
<1>2. PICK s \in Seq(Nodes) : Chain(s)
  BY DEF CallsInv, ChainExists
<1>3. Chain(s)'
  BY <1>1, <1>2, ChainKept
<1>4. Items(s)' = Items(s)
  BY DEF Items
<1>5. Contents' = Contents
  BY <1>2, <1>3, <1>4, ContentsIs, ContentsIsNext
<1>6. Calls' = Calls
  BY DEF Calls, Call, PushCall, PopCall, Pending
<1>7. PushesOK' /\ PopsOK'
  BY <1>1 DEF CallsInv, PushesOK, Owners, PopsOK
<1>8. PushersStay => PushersStay'
  BY <1>1 DEF PushersStay
<1>. QED
  BY <1>3, <1>5, <1>6, <1>7, <1>8 DEF CallsInv, ChainExists, LossyQueue!vars, Queue!vars

\* Whatever the threads interleave, what the callers of push and pop see is a
\* FIFO queue: a push takes effect where tail leaves the node its data is in
\* (line 204, whichever thread runs it), a pop where head does (line 309), an
\* empty pop where it reads tail; but a push can vanish altogether.
THEOREM LinearizesButLoses == Spec => LinearizableButLossy
<1>1. Init => CallsInv /\ LossyQueue!Init
  BY CallsInit
<1>2. QueueInv /\ QueueInv' /\ CallsInv /\ [Next]_vars
      => CallsInv' /\ [LossyQueue!Next]_(LossyQueue!vars)
  <2>. SUFFICES ASSUME QueueInv, QueueInv', CallsInv, [Next]_vars
                PROVE  CallsInv' /\ [LossyQueue!Next]_(LossyQueue!vars)
    OBVIOUS
  <2>1. CASE UNCHANGED vars
    BY <2>1, CallsStutter
  <2>2. ASSUME NEW p \in Procs, Step(p)
        PROVE  CallsInv' /\ [LossyQueue!Next]_(LossyQueue!vars)
    <3>. IInv /\ IInv' /\ TypeOK'
      BY DEF QueueInv, IInv
    <3>1. CallsInv'
      BY <2>2, ChainStep, PushesStep, PopsStep DEF CallsInv
    <3>2. [LossyQueue!Next]_(LossyQueue!vars)
      BY <2>2, Effect, LosslessIsNext DEF CallsInv
    <3>. QED
      BY <3>1, <3>2
  <2>. QED
    BY <2>1, <2>2 DEF Next, Terminated, OutOfMemory, CountedOut
<1>. QED
  BY <1>1, <1>2, Connected, PTL DEF Spec, LinearizableButLossy, LossyQueue!Spec

\* When the poppers are started after the pushers are joined, no push vanishes:
\* lock_free_queue is a FIFO queue whose push and pop are atomic.
THEOREM LinearizesWhenPhased ==
  ASSUME Phased
  PROVE  Spec => Linearizable
<1>1. Init => CallsInv /\ PushersStay /\ Queue!Init
  BY CallsInit
<1>2. QueueInv /\ QueueInv' /\ CallsInv /\ PushersFirst /\ PushersStay /\ [Next]_vars
      => CallsInv' /\ PushersStay' /\ [Queue!Next]_(Queue!vars)
  <2>. SUFFICES ASSUME QueueInv, QueueInv', CallsInv, PushersFirst, PushersStay, [Next]_vars
                PROVE  CallsInv' /\ PushersStay' /\ [Queue!Next]_(Queue!vars)
    OBVIOUS
  <2>. IInv /\ IInv' /\ TypeOK'
    BY DEF QueueInv, IInv
  <2>1. CASE UNCHANGED vars
    BY <2>1, CallsStutter
  <2>2. ASSUME NEW p \in Procs, Step(p)
        PROVE  CallsInv' /\ PushersStay' /\ [Queue!Next]_(Queue!vars)
    <3>1. CallsInv' /\ PushersStay'
      BY <2>2, ChainStep, PushesStep, PopsStep, PushersStayStep DEF CallsInv
    <3>2. Lossless \/ UNCHANGED LossyQueue!vars
      BY <2>2, Effect, NothingLost DEF CallsInv
    <3>3. UNCHANGED LossyQueue!vars => UNCHANGED Queue!vars
      BY DEF LossyQueue!vars, Queue!vars
    <3>. QED
      BY <3>1, <3>2, <3>3, LosslessIsNext
  <2>. QED
    BY <2>1, <2>2 DEF Next, Terminated, OutOfMemory, CountedOut
<1>. QED
  BY <1>1, <1>2, Connected, PushersAreFirst, PTL DEF Spec, Linearizable, Queue!Spec
=============================================================================
