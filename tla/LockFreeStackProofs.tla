------------------------ MODULE LockFreeStackProofs ------------------------
(***************************************************************************)
(* Proofs that lock_free_stack reclaims memory safely, for every number of *)
(* threads, items, nodes and values (the type invariant, SplitCount,       *)
(* MemorySafe and NoLeak), and that it is linearizable: it implements      *)
(* AtomicStack.  All follow from the inductive invariant IInv.             *)
(***************************************************************************)
EXTENDS LockFreeStackRefinement, FiniteSetTheorems, SequenceTheorems, WellFoundedInduction, TLAPS

\* The poppers that have unlinked n and not yet folded its counts.
Winners(n) == {p \in Procs : pc[p] \in {"swap", "fold"} /\ ptr[p] = n}

\* The places at which a popper uses the node ptr points to.
Using == {"next", "unlink", "swap", "fold", "release", "delete", "delete_retry"}

\* A pusher owns its new node; a popper uses a node that is allocated and was
\* published, and whose next has not changed since it was read.
LocalsOK ==
  /\ \A t \in Threads : pc[t] # "idle" => todo[t] > 0
  /\ \A p \in Procs : pc[p] = "push" =>
       /\ p \in Threads
       /\ new_node[p] \in heap
       /\ data[new_node[p]] # NULL
       /\ internal_count[new_node[p]] = 0
  /\ \A p, q \in Procs :
       pc[p] = "push" /\ pc[q] = "push" /\ new_node[p] = new_node[q] => p = q
  /\ \A p \in Procs : pc[p] \in Using => ptr[p] \in heap \ Private
  /\ \A p \in Procs : pc[p] \in {"next", "unlink", "swap", "fold"} => old_head[p].ptr = ptr[p]
  /\ \A p \in Procs : pc[p] = "unlink" => ptr_next[p] = next[ptr[p]]
  /\ \A p \in Procs : pc[p] = "swap" => data[ptr[p]] # NULL
  /\ \A p \in Procs : pc[p] = "fold" => data[ptr[p]] = NULL

\* The links lead from head through distinct nodes of the stack.
ChainOK ==
  /\ head.ptr # NULL => head.ptr \in Linked
  /\ \A m \in Linked : next[m].ptr # NULL =>
       next[m].ptr \in Linked /\ next[m].ptr # head.ptr
  /\ \A m1, m2 \in Linked :
       next[m1].ptr # NULL /\ next[m1].ptr = next[m2].ptr => m1 = m2

\* A node's counts add up to its holders, and until they are folded the
\* internal one alone is never positive: no loser can take itself for the last.
CountsOK ==
  /\ head.ptr # NULL =>
       head.external_count - 1 + internal_count[head.ptr] = Cardinality(Holders(head.ptr))
  /\ \A m \in Linked : next[m].ptr # NULL =>
       next[m].external_count - 1 + internal_count[next[m].ptr]
         = Cardinality(Holders(next[m].ptr))
  /\ \A p \in Procs : pc[p] \in {"swap", "fold"} =>
       old_head[p].external_count - 1 + internal_count[ptr[p]]
         = Cardinality(Holders(ptr[p]))
  /\ \A n \in Linked : internal_count[n] <= 0
  /\ \A p \in Procs : pc[p] \in {"swap", "fold"} => internal_count[ptr[p]] <= 0

\* One popper unlinks a node; afterwards its holders, then its one deleter,
\* are all that keeps it.
ReclaimOK ==
  /\ \A p, q \in Procs :
       /\ pc[p] \in {"swap", "fold"}
       /\ pc[q] \in {"swap", "fold"}
       /\ ptr[p] = ptr[q]
       => p = q
  /\ \A n \in heap \ (Linked \cup Private) : Winners(n) = {} =>
       internal_count[n] = Cardinality(Holders(n))
  /\ \A p \in Procs : pc[p] \in {"delete", "delete_retry"} =>
       ptr[p] \notin Linked /\ Holders(ptr[p]) = {}
  /\ \A p, q \in Procs :
       /\ pc[p] \in {"delete", "delete_retry"}
       /\ pc[q] \in {"delete", "delete_retry"}
       /\ ptr[p] = ptr[q]
       => p = q
  /\ \A n \in heap \ (Linked \cup Private) : Holders(n) \cup Deleters(n) # {}

IInv == TypeOK /\ LocalsOK /\ ChainOK /\ CountsOK /\ ReclaimOK

----------------------------------------------------------------------------
(* Holders are finite, and gain or lose one thread at a time. *)

LEMMA ProcsFinite == IsFiniteSet(Procs)
BY StackAssumption, FS_AddElement DEF Procs

LEMMA HoldersFinite == \A n \in Nodes : IsFiniteSet(Holders(n))
BY ProcsFinite, FS_Subset DEF Holders

LEMMA CardinalityAdd ==
  ASSUME NEW S, IsFiniteSet(S), NEW x, x \notin S
  PROVE  Cardinality(S \cup {x}) = Cardinality(S) + 1 /\ Cardinality(S) \in Nat
BY FS_AddElement, FS_CardinalityType

LEMMA CardinalityRemove ==
  ASSUME NEW S, IsFiniteSet(S), NEW x, x \in S
  PROVE  Cardinality(S \ {x}) = Cardinality(S) - 1 /\ Cardinality(S) \in Nat
BY FS_RemoveElement, FS_CardinalityType

LEMMA CardinalityZero ==
  ASSUME NEW S, IsFiniteSet(S)
  PROVE  (Cardinality(S) = 0) <=> S = {}
BY FS_EmptySet

----------------------------------------------------------------------------
THEOREM InitIInv == Init => IInv
<1>. SUFFICES ASSUME Init PROVE IInv
  OBVIOUS
<1>0. NullPtr \in counted_node_ptr
  BY DEF NullPtr, counted_node_ptr
<1>1. TypeOK
  <2>. USE <1>0 DEF Init
  <2>1. head \in counted_node_ptr /\ heap \subseteq Nodes /\ destroyed \in BOOLEAN
    OBVIOUS
  <2>2. data \in [Nodes -> Values \cup {NULL}] /\ internal_count \in [Nodes -> Int]
    OBVIOUS
  <2>3. /\ next \in [Nodes -> counted_node_ptr] /\ old_head \in [Procs -> counted_node_ptr]
        /\ ptr_next \in [Procs -> counted_node_ptr]
    OBVIOUS
  <2>4. pc \in [Procs -> Labels]
    BY DEF Labels
  <2>5. new_node \in [Procs -> Nodes \cup {NULL}] /\ ptr \in [Procs -> Nodes \cup {NULL}]
    OBVIOUS
  <2>6. res \in [Procs -> Values \cup {NULL}] /\ todo \in [Threads -> Nat]
    BY StackAssumption
  <2>. QED
    BY <2>1, <2>2, <2>3, <2>4, <2>5, <2>6 DEF TypeOK
<1>2. LocalsOK
  BY DEF Init, LocalsOK, Using, Procs
<1>3. Linked = {}
  BY DEF Init, Linked
<1>4. ChainOK /\ CountsOK
  BY <1>3 DEF Init, ChainOK, CountsOK, NullPtr
<1>5. ReclaimOK
  BY DEF Init, ReclaimOK
<1>. QED
  BY <1>1, <1>2, <1>4, <1>5 DEF IInv

----------------------------------------------------------------------------
(* The type invariant, one action at a time. *)

LEMMA TypeStep == IInv /\ [Next]_vars => TypeOK'
<1>. SUFFICES ASSUME IInv, [Next]_vars PROVE TypeOK'
  OBVIOUS
<1>. USE StackAssumption DEF IInv, TypeOK, LocalsOK, counted_node_ptr, NullPtr, Labels, Using,
         Procs, Goto, shared, local, client
<1>1. CASE UNCHANGED vars
  BY <1>1 DEF vars
<1>2. ASSUME NEW p \in Procs, PushAllocate(p) PROVE TypeOK'
  BY <1>2 DEF PushAllocate
<1>3. ASSUME NEW p \in Procs, PushLink(p) PROVE TypeOK'
  BY <1>3 DEF PushLink
<1>4. ASSUME NEW p \in Procs, PushReload(p) PROVE TypeOK'
  BY <1>4 DEF PushReload
<1>5. ASSUME NEW p \in Procs, PopLoad(p) PROVE TypeOK'
  BY <1>5 DEF PopLoad
<1>6. ASSUME NEW p \in Procs, IncreaseHeadCount(p) PROVE TypeOK'
  BY <1>6 DEF IncreaseHeadCount
<1>7. ASSUME NEW p \in Procs, IncreaseReload(p) PROVE TypeOK'
  BY <1>7 DEF IncreaseReload
<1>15. ASSUME NEW p \in Procs, ReadNext(p) PROVE TypeOK'
  BY <1>15 DEF ReadNext
<1>8. ASSUME NEW p \in Procs, PopUnlink(p) PROVE TypeOK'
  BY <1>8 DEF PopUnlink
<1>9. ASSUME NEW p \in Procs, PopLose(p) PROVE TypeOK'
  BY <1>9 DEF PopLose
<1>10. ASSUME NEW p \in Procs, SwapData(p) PROVE TypeOK'
  BY <1>10 DEF SwapData
<1>11. ASSUME NEW p \in Procs, FoldCount(p) PROVE TypeOK'
  BY <1>11 DEF FoldCount, CountIncrease
<1>12. ASSUME NEW p \in Procs, ReleaseRef(p) PROVE TypeOK'
  BY <1>12 DEF ReleaseRef
<1>13. ASSUME NEW p \in Procs, DeleteNode(p) PROVE TypeOK'
  BY <1>13 DEF DeleteNode
<1>14. ASSUME NEW p \in Procs, PopReturn(p) PROVE TypeOK'
  BY <1>14 DEF PopReturn
<1>. QED
  BY <1>1, <1>2, <1>3, <1>4, <1>5, <1>6, <1>7, <1>8, <1>9, <1>10, <1>11, <1>12, <1>13, <1>14, <1>15
     DEF Next, Step, Push, Pop, Terminated, OutOfMemory, Overflow

----------------------------------------------------------------------------
(* The rest of the invariant.  Each lemma first says what its action does to *)
(* the sets of holders, winners, deleters, private and linked nodes.         *)

\* What the invariant says of the nodes that threads use.
LEMMA UsedNodes ==
  ASSUME IInv
  PROVE  \A q \in Procs :
           /\ pc[q] \in Using => ptr[q] \in Nodes /\ ptr[q] # NULL /\ ptr[q] \in heap \ Private
           /\ pc[q] \in {"swap", "fold", "delete", "delete_retry"} => ptr[q] \notin Linked
           /\ pc[q] = "push" => new_node[q] \in Nodes /\ new_node[q] \in Private
<1>1. \A q \in Procs : pc[q] \in {"swap", "fold", "delete", "delete_retry"} => ptr[q] \notin Linked
  BY DEF IInv, LocalsOK, ReclaimOK, Linked, Holders
<1>2. \A q \in Procs : pc[q] \in Using => ptr[q] \in Nodes /\ ptr[q] # NULL /\ ptr[q] \in heap \ Private
  BY StackAssumption DEF IInv, TypeOK, LocalsOK
<1>3. \A q \in Procs : pc[q] = "push" => new_node[q] \in Nodes /\ new_node[q] \in Private
  BY DEF IInv, TypeOK, LocalsOK, Private
<1>. QED
  BY <1>1, <1>2, <1>3

\* A step of p between places where it neither owns nor uses a node.
LEMMA QuietStep ==
  ASSUME IInv, TypeOK', NEW p \in Procs,
         PopLoad(p) \/ IncreaseReload(p) \/ PopReturn(p)
  PROVE  IInv'
<1>. USE DEF IInv, TypeOK
<1>1. UNCHANGED <<head, heap, data, internal_count, next, new_node, ptr_next>>
  BY DEF PopLoad, IncreaseReload, PopReturn, shared, local
<1>2. /\ \A q \in Procs \ {p} : /\ pc'[q] = pc[q]
                                /\ ptr'[q] = ptr[q]
                                /\ old_head'[q] = old_head[q]
      /\ pc[p] \notin Using \cup {"push"}
      /\ pc'[p] \notin Using \cup {"push"}
  BY DEF PopLoad, IncreaseReload, PopReturn, Goto, local, shared, Using, Popping, Destroying
<1>3. \A q \in Procs : pc'[q] \in Using \cup {"push"} =>
        pc'[q] = pc[q] /\ ptr'[q] = ptr[q] /\ old_head'[q] = old_head[q]
  BY <1>2
<1>4. \A q \in Procs : pc[q] \in Using \cup {"push"} =>
        pc'[q] = pc[q] /\ ptr'[q] = ptr[q] /\ old_head'[q] = old_head[q]
  BY <1>2
<1>5. \A n : Holders(n)' = Holders(n) /\ Deleters(n)' = Deleters(n) /\ Winners(n)' = Winners(n)
  BY <1>3, <1>4 DEF Holders, Deleters, Winners, Using
<1>6. Private' = Private
  BY <1>1, <1>3, <1>4 DEF Private
<1>7. Linked' = Linked
  BY <1>1, <1>3, <1>4, <1>5, <1>6 DEF Linked, Holders, Using
<1>8. LocalsOK'
  <2>1. \A t \in Threads : pc'[t] # "idle" => todo'[t] > 0
    BY StackAssumption DEF LocalsOK, PopLoad, IncreaseReload, PopReturn, Goto, client, Popping, Destroying, Procs
  <2>. QED
    BY <2>1, <1>1, <1>3, <1>6 DEF LocalsOK, Using
<1>9. ChainOK'
  BY <1>1, <1>7 DEF ChainOK
<1>10. CountsOK'
  BY <1>1, <1>3, <1>5, <1>7 DEF CountsOK, Using
<1>11. ReclaimOK'
  BY <1>1, <1>3, <1>5, <1>6, <1>7 DEF ReclaimOK, Using
<1>. QED
  BY <1>8, <1>9, <1>10, <1>11

\* Losing the race moves a holder from one use of its node to another.
LEMMA PopLoseStep ==
  ASSUME IInv, TypeOK', NEW p \in Procs, PopLose(p)
  PROVE  IInv'
<1>. USE DEF IInv, TypeOK
<1>1. /\ UNCHANGED <<head, heap, data, internal_count, next, new_node, ptr, todo>>
      /\ \A q \in Procs \ {p} : /\ pc'[q] = pc[q]
                                /\ old_head'[q] = old_head[q]
                                /\ ptr_next'[q] = ptr_next[q]
      /\ pc[p] = "unlink" /\ pc'[p] = "release"
  BY DEF PopLose, shared, client, Goto
<1>2. \A n : Holders(n)' = Holders(n) /\ Deleters(n)' = Deleters(n) /\ Winners(n)' = Winners(n)
  BY <1>1 DEF Holders, Deleters, Winners
<1>3. Private' = Private
  BY <1>1 DEF Private
<1>4. Linked' = Linked
  BY <1>1, <1>2, <1>3 DEF Linked, Holders
<1>5. LocalsOK'
  BY <1>1, <1>3 DEF LocalsOK, Using, Procs
<1>6. ChainOK'
  BY <1>1, <1>4 DEF ChainOK
<1>7. CountsOK'
  BY <1>1, <1>2, <1>4 DEF CountsOK
<1>8. ReclaimOK'
  BY <1>1, <1>2, <1>3, <1>4 DEF ReclaimOK
<1>. QED
  BY <1>5, <1>6, <1>7, <1>8

\* Reading next: it stays what it is as long as the popper holds the node.
LEMMA ReadNextStep ==
  ASSUME IInv, TypeOK', NEW p \in Procs, ReadNext(p)
  PROVE  IInv'
<1>. USE DEF IInv, TypeOK
<1>1. /\ UNCHANGED <<head, heap, data, internal_count, next, new_node, old_head, ptr, todo>>
      /\ \A q \in Procs \ {p} : pc'[q] = pc[q] /\ ptr_next'[q] = ptr_next[q]
      /\ pc[p] = "next" /\ pc'[p] = "unlink"
      /\ ptr_next'[p] = next[ptr[p]]
  BY DEF ReadNext, shared, client, Goto
<1>2. \A n : Holders(n)' = Holders(n) /\ Deleters(n)' = Deleters(n) /\ Winners(n)' = Winners(n)
  BY <1>1 DEF Holders, Deleters, Winners
<1>3. Private' = Private
  BY <1>1 DEF Private
<1>4. Linked' = Linked
  BY <1>1, <1>2, <1>3 DEF Linked, Holders
<1>5. LocalsOK'
  BY <1>1, <1>3 DEF LocalsOK, Using, Procs
<1>6. ChainOK'
  BY <1>1, <1>4 DEF ChainOK
<1>7. CountsOK'
  BY <1>1, <1>2, <1>4 DEF CountsOK
<1>8. ReclaimOK'
  BY <1>1, <1>2, <1>3, <1>4 DEF ReclaimOK
<1>. QED
  BY <1>5, <1>6, <1>7, <1>8

\* Taking the data out of a node that is already unlinked.
LEMMA SwapDataStep ==
  ASSUME IInv, TypeOK', NEW p \in Procs, SwapData(p)
  PROVE  IInv'
<1>. USE DEF IInv, TypeOK
<1>1. /\ UNCHANGED <<head, heap, internal_count, next, new_node, old_head, ptr, ptr_next, todo>>
      /\ \A q \in Procs \ {p} : pc'[q] = pc[q]
      /\ pc[p] = "swap" /\ pc'[p] = "fold"
      /\ data' = [data EXCEPT ![ptr[p]] = NULL]
  BY DEF SwapData, client, Goto
<1>2. \A n : Holders(n)' = Holders(n) /\ Deleters(n)' = Deleters(n) /\ Winners(n)' = Winners(n)
  BY <1>1 DEF Holders, Deleters, Winners
<1>3. Private' = Private
  BY <1>1 DEF Private
<1>4. ptr[p] \in heap \ Private /\ ptr[p] \notin Linked
  BY <1>1 DEF LocalsOK, Using, Linked, Holders
<1>5. Linked' = Linked
  BY <1>1, <1>3, <1>4 DEF Linked, Holders
<1>6. LocalsOK'
  <2>1. \A q \in Procs : pc[q] = "swap" /\ ptr[q] = ptr[p] => q = p
    BY <1>1 DEF ReclaimOK
  <2>2. \A q \in Procs : pc[q] = "push" => new_node[q] # ptr[p]
    BY <1>4 DEF Private
  <2>. QED
    BY <1>1, <1>3, <1>4, <2>1, <2>2 DEF LocalsOK, Using, Procs
<1>7. ChainOK'
  BY <1>1, <1>5 DEF ChainOK
<1>8. CountsOK'
  BY <1>1, <1>2, <1>5 DEF CountsOK
<1>9. ReclaimOK'
  BY <1>1, <1>2, <1>3, <1>5 DEF ReclaimOK
<1>. QED
  BY <1>6, <1>7, <1>8, <1>9

\* A new holder of the node at head, and one more on its external count.
LEMMA IncreaseHeadCountStep ==
  ASSUME IInv, TypeOK', NEW p \in Procs, IncreaseHeadCount(p)
  PROVE  IInv'
<1>. USE DEF IInv, TypeOK
<1>1. /\ UNCHANGED <<heap, data, internal_count, next, new_node, ptr_next, todo>>
      /\ \A q \in Procs \ {p} : /\ pc'[q] = pc[q]
                                /\ ptr'[q] = ptr[q]
                                /\ old_head'[q] = old_head[q]
      /\ pc[p] = "increase"
      /\ pc'[p] = IF head.ptr = NULL THEN "return" ELSE "next"
      /\ ptr'[p] = head.ptr
      /\ old_head'[p] = head'
      /\ head' = [head EXCEPT !.external_count = @ + 1]
  BY DEF IncreaseHeadCount, client, Goto
<1>2. head'.ptr = head.ptr /\ head'.external_count = head.external_count + 1
  BY <1>1 DEF counted_node_ptr
<1>3. \A n \in Nodes : Holders(n)' = IF n = head.ptr THEN Holders(n) \cup {p} ELSE Holders(n)
  BY <1>1, StackAssumption DEF Holders
<1>4. \A n \in Nodes : p \notin Holders(n)
  BY <1>1 DEF Holders
<1>5. \A n : Deleters(n)' = Deleters(n) /\ Winners(n)' = Winners(n)
  BY <1>1 DEF Deleters, Winners
<1>6. Private' = Private
  BY <1>1 DEF Private
<1>7. Linked' = Linked
  BY <1>1, <1>3, <1>6 DEF Linked, Holders
<1>8. head.ptr # NULL => head.ptr \in Linked
  BY DEF ChainOK
<1>9. LocalsOK'
  <2>1. head.ptr # NULL => head.ptr \in heap \ Private
    BY <1>8 DEF Linked
  <2>2. \A q \in Procs : pc'[q] \in Using => ptr'[q] \in heap' \ Private'
    BY <1>1, <1>6, <2>1 DEF LocalsOK, Using
  <2>3. \A q \in Procs : pc'[q] \in {"next", "unlink", "swap", "fold"} => old_head'[q].ptr = ptr'[q]
    <3>1. ASSUME NEW q \in Procs \ {p}, pc'[q] \in {"next", "unlink", "swap", "fold"}
          PROVE  old_head'[q].ptr = ptr'[q]
      BY <1>1, <3>1 DEF LocalsOK
    <3>2. old_head'[p].ptr = ptr'[p]
      BY <1>1, <1>2
    <3>. QED
      BY <3>1, <3>2
  <2>. QED
    BY <1>1, <2>2, <2>3 DEF LocalsOK, Using, Procs
<1>10. ChainOK'
  BY <1>1, <1>2, <1>7 DEF ChainOK
<1>11. \A n \in Nodes : Cardinality(Holders(n))' = Cardinality(Holders(n)) + (IF n = head.ptr THEN 1 ELSE 0)
  <2>. SUFFICES ASSUME NEW n \in Nodes
               PROVE  Cardinality(Holders(n)') = Cardinality(Holders(n)) + (IF n = head.ptr THEN 1 ELSE 0)
    OBVIOUS
  <2>1. IsFiniteSet(Holders(n)) /\ p \notin Holders(n)
    BY <1>4, HoldersFinite
  <2>2. CASE n = head.ptr
    BY <1>3, <2>1, <2>2, CardinalityAdd
  <2>3. CASE n # head.ptr
    BY <1>3, <2>1, <2>3, FS_CardinalityType
  <2>. QED
    BY <2>2, <2>3
<1>12. \A n \in Nodes : Cardinality(Holders(n)) \in Nat
  BY HoldersFinite, FS_CardinalityType
<1>13. CountsOK'
  <2>1. (head.ptr # NULL =>
          head.external_count - 1 + internal_count[head.ptr] = Cardinality(Holders(head.ptr)))'
    BY <1>1, <1>2, <1>11, <1>12 DEF CountsOK, counted_node_ptr
  <2>2. \A m \in Linked : next[m].ptr # NULL =>
          next[m].ptr \in Nodes /\ next[m].ptr # head.ptr
    BY DEF ChainOK, counted_node_ptr, Linked
  <2>3. \A q \in Procs : pc[q] \in {"swap", "fold"} => ptr[q] \in Nodes /\ ptr[q] # head.ptr
    BY <1>8, UsedNodes DEF Using
  <2>4. (\A m \in Linked : next[m].ptr # NULL =>
          next[m].external_count - 1 + internal_count[next[m].ptr]
            = Cardinality(Holders(next[m].ptr)))'
    BY <1>1, <1>7, <1>11, <1>12, <2>2 DEF CountsOK
  <2>5. (\A q \in Procs : pc[q] \in {"swap", "fold"} =>
          old_head[q].external_count - 1 + internal_count[ptr[q]]
            = Cardinality(Holders(ptr[q])))'
    BY <1>1, <1>11, <1>12, <2>3 DEF CountsOK
  <2>. QED
    BY <1>1, <1>7, <2>1, <2>4, <2>5 DEF CountsOK
<1>14. ReclaimOK'
  <2>1. \A n \in heap \ (Linked \cup Private) : n \in Nodes /\ n # head.ptr
    BY <1>8, StackAssumption
  <2>2. \A q \in Procs : pc[q] \in {"delete", "delete_retry"} => ptr[q] \in Nodes /\ ptr[q] # head.ptr
    BY <1>8, UsedNodes DEF Using
  <2>3. \A q \in Procs : pc'[q] \in {"swap", "fold", "delete", "delete_retry"} =>
          q # p /\ pc'[q] = pc[q] /\ ptr'[q] = ptr[q]
    BY <1>1
  <2>4. (\A n \in heap \ (Linked \cup Private) : Winners(n) = {} =>
           internal_count[n] = Cardinality(Holders(n)))'
    BY <1>1, <1>3, <1>5, <1>6, <1>7, <2>1 DEF ReclaimOK
  <2>5. (\A q \in Procs : pc[q] \in {"delete", "delete_retry"} =>
           ptr[q] \notin Linked /\ Holders(ptr[q]) = {})'
    BY <1>3, <1>7, <2>2, <2>3, SMTT(30) DEF ReclaimOK
  <2>6. (\A n \in heap \ (Linked \cup Private) : Holders(n) \cup Deleters(n) # {})'
    BY <1>1, <1>3, <1>5, <1>6, <1>7, <2>1 DEF ReclaimOK
  <2>. QED
    BY <2>3, <2>4, <2>5, <2>6 DEF ReclaimOK
<1>. QED
  BY <1>9, <1>10, <1>13, <1>14

\* Losing the last use of a node, or one of several: fold and release both
\* take p out of the holders of its node.
LEMMA LeaveNode ==
  ASSUME IInv, NEW p \in Procs, pc[p] \in {"fold", "release"}, ptr' = ptr,
         \A q \in Procs \ {p} : pc'[q] = pc[q],
         pc'[p] \in {"delete", "delete_retry", "return", "increase"}
  PROVE  /\ \A n \in Nodes : Holders(n)' = IF n = ptr[p] THEN Holders(n) \ {p} ELSE Holders(n)
         /\ \A n \in Nodes : Cardinality(Holders(n)') \in Nat
         /\ \A n \in Nodes :
              Cardinality(Holders(n)') = Cardinality(Holders(n)) - (IF n = ptr[p] THEN 1 ELSE 0)
         /\ \A n \in Nodes : Cardinality(Holders(n)') = 0 <=> Holders(n)' = {}
<1>. USE DEF IInv, TypeOK
<1>1. \A n \in Nodes : Holders(n)' = IF n = ptr[p] THEN Holders(n) \ {p} ELSE Holders(n)
  BY DEF Holders
<1>. SUFFICES ASSUME NEW n \in Nodes
              PROVE  /\ Cardinality(Holders(n)') \in Nat
                     /\ Cardinality(Holders(n)')
                          = Cardinality(Holders(n)) - (IF n = ptr[p] THEN 1 ELSE 0)
                     /\ Cardinality(Holders(n)') = 0 <=> Holders(n)' = {}
  BY <1>1
<1>2. IsFiniteSet(Holders(n)) /\ IsFiniteSet(Holders(n)')
  BY <1>1, HoldersFinite, FS_Subset
<1>3. Cardinality(Holders(n)') \in Nat /\ (Cardinality(Holders(n)') = 0 <=> Holders(n)' = {})
  BY <1>2, CardinalityZero, FS_CardinalityType
<1>4. CASE n = ptr[p]
  <2>1. p \in Holders(n)
    BY <1>4 DEF Holders
  <2>. QED
    BY <1>1, <1>2, <1>3, <1>4, <2>1, CardinalityRemove
<1>5. CASE n # ptr[p]
  BY <1>1, <1>2, <1>3, <1>5, FS_CardinalityType
<1>. QED
  BY <1>3, <1>4, <1>5

\* The winner folds its copy of the external count into the internal one.
LEMMA FoldCountStep ==
  ASSUME IInv, TypeOK', NEW p \in Procs, FoldCount(p)
  PROVE  IInv'
<1>. USE DEF IInv, TypeOK
<1>. DEFINE w == ptr[p]
<1>1. /\ UNCHANGED <<head, heap, data, next, new_node, old_head, ptr, ptr_next, todo>>
      /\ \A q \in Procs \ {p} : pc'[q] = pc[q]
      /\ pc[p] = "fold"
      /\ pc'[p] = IF LastAtFold(p) THEN "delete" ELSE "return"
      /\ internal_count' = [internal_count EXCEPT ![w] = @ + (old_head[p].external_count - 2)]
  BY DEF FoldCount, client, local, Goto, CountIncrease
<1>2. w \in Nodes /\ w \in heap \ Private /\ w \notin Linked
  BY <1>1, UsedNodes DEF Using
<1>3. \A n \in Nodes : Holders(n)' = IF n = w THEN Holders(n) \ {p} ELSE Holders(n)
  BY <1>1, LeaveNode
<1>4. \A n \in Nodes : Cardinality(Holders(n)) \in Nat /\ Cardinality(Holders(n)') \in Nat
  BY <1>1, LeaveNode, HoldersFinite, FS_CardinalityType
<1>5. \A n \in Nodes : n # w => Cardinality(Holders(n)') = Cardinality(Holders(n))
  BY <1>3
<1>6. /\ internal_count'[w] = Cardinality(Holders(w)')
      /\ LastAtFold(p) <=> Holders(w)' = {}
  <2>1. Cardinality(Holders(w)') = Cardinality(Holders(w)) - 1
    BY <1>1, <1>2, LeaveNode
  <2>2. Cardinality(Holders(w)') = 0 <=> Holders(w)' = {}
    BY <1>1, <1>2, LeaveNode
  <2>3. old_head[p].external_count - 1 + internal_count[w] = Cardinality(Holders(w))
    BY <1>1 DEF CountsOK
  <2>4. old_head[p].external_count \in Int /\ internal_count[w] \in Int
    BY <1>2 DEF counted_node_ptr
  <2>. QED
    BY <1>1, <1>2, <1>4, <2>1, <2>2, <2>3, <2>4 DEF LastAtFold, CountIncrease
<1>7. /\ \A q \in Procs \ {p} : pc[q] \in {"swap", "fold"} => ptr[q] # w
      /\ \A q \in Procs : pc[q] \in {"delete", "delete_retry"} => ptr[q] # w
  <2>1. p \in Holders(w)
    BY <1>1 DEF Holders
  <2>. QED
    BY <1>1, <2>1 DEF ReclaimOK
<1>8. Private' = Private
  BY <1>1 DEF Private
<1>9. Linked' = Linked
  BY <1>1, <1>8 DEF Linked, Holders
<1>10. LocalsOK'
  <2>1. \A q \in Procs : pc[q] = "push" => new_node[q] # w
    BY <1>2, UsedNodes
  <2>. QED
    BY <1>1, <1>8, <2>1 DEF LocalsOK, Using, Procs
<1>11. ChainOK'
  BY <1>1, <1>9 DEF ChainOK
<1>12. CountsOK'
  <2>1. \A n \in Nodes : n # w => internal_count'[n] = internal_count[n]
    BY <1>1
  <2>2. head.ptr # NULL => head.ptr \in Nodes /\ head.ptr # w
    BY <1>2 DEF ChainOK, Linked
  <2>3. \A m \in Linked : next[m].ptr # NULL => next[m].ptr \in Nodes /\ next[m].ptr # w
    BY <1>2 DEF ChainOK, Linked
  <2>4. \A q \in Procs : pc'[q] \in {"swap", "fold"} => ptr[q] \in Nodes /\ ptr[q] # w
    BY <1>1, <1>7, UsedNodes DEF Using
  <2>5. \A n \in Linked : n \in Nodes /\ n # w
    BY <1>2 DEF Linked
  <2>. QED
    BY <1>1, <1>5, <1>9, <2>1, <2>2, <2>3, <2>4, <2>5 DEF CountsOK
<1>13. ReclaimOK'
  <2>1. \A n \in Nodes : n # w =>
          /\ Holders(n)' = Holders(n) /\ Winners(n)' = Winners(n) /\ Deleters(n)' = Deleters(n)
          /\ internal_count'[n] = internal_count[n]
    BY <1>1, <1>3 DEF Winners, Deleters
  <2>2. (\A n \in heap \ (Linked \cup Private) : Winners(n) = {} =>
           internal_count[n] = Cardinality(Holders(n)))'
    BY <1>1, <1>6, <1>8, <1>9, <2>1 DEF ReclaimOK
  <2>3. (\A q \in Procs : pc[q] \in {"delete", "delete_retry"} =>
           ptr[q] \notin Linked /\ Holders(ptr[q]) = {})'
    <3>1. pc'[p] \in {"delete", "delete_retry"} => Holders(w)' = {}
      BY <1>1, <1>6
    <3>2. \A q \in Procs \ {p} : pc[q] \in {"delete", "delete_retry"} => Holders(ptr[q])' = {}
      BY <1>1, <1>7, <2>1, UsedNodes DEF Using, ReclaimOK
    <3>. QED
      BY <1>1, <1>2, <1>9, <3>1, <3>2 DEF ReclaimOK
  <2>4. (\A n \in heap \ (Linked \cup Private) : Holders(n) \cup Deleters(n) # {})'
    <3>1. Holders(w)' \cup Deleters(w)' # {}
      BY <1>1, <1>2, <1>6 DEF Deleters
    <3>. QED
      BY <1>1, <1>8, <1>9, <2>1, <3>1 DEF ReclaimOK
  <2>. QED
    BY <1>1, <1>7, <2>2, <2>3, <2>4 DEF ReclaimOK
<1>. QED
  BY <1>10, <1>11, <1>12, <1>13

\* A loser gives its reference back; only the last one, of a node that the
\* winner has folded, goes on to delete it.
LEMMA ReleaseRefStep ==
  ASSUME IInv, TypeOK', NEW p \in Procs, ReleaseRef(p)
  PROVE  IInv'
<1>. USE DEF IInv, TypeOK
<1>. DEFINE w == ptr[p]
            last == internal_count[w] = 1
<1>1. /\ UNCHANGED <<head, heap, data, next, new_node, old_head, ptr, ptr_next, todo>>
      /\ \A q \in Procs \ {p} : pc'[q] = pc[q]
      /\ pc[p] = "release"
      /\ pc'[p] = IF last THEN "delete_retry" ELSE "increase"
      /\ internal_count' = [internal_count EXCEPT ![w] = @ - 1]
  BY DEF ReleaseRef, client, local, Goto
<1>2. w \in Nodes /\ w \in heap \ Private /\ internal_count[w] \in Int
  BY <1>1, UsedNodes DEF Using
<1>3. \A n \in Nodes : Holders(n)' = IF n = w THEN Holders(n) \ {p} ELSE Holders(n)
  BY <1>1, LeaveNode
<1>4. \A n \in Nodes : Cardinality(Holders(n)) \in Nat /\ Cardinality(Holders(n)') \in Nat
  BY <1>1, LeaveNode, HoldersFinite, FS_CardinalityType
<1>5. \A n \in Nodes : /\ Cardinality(Holders(n)') - internal_count'[n]
                            = Cardinality(Holders(n)) - internal_count[n]
                       /\ n # w => Holders(n)' = Holders(n)
                       /\ internal_count'[n] <= internal_count[n]
                       /\ internal_count'[n] \in Int
  BY <1>1, <1>2, <1>3, <1>4, LeaveNode
<1>6. \A q \in Procs : pc[q] \in {"delete", "delete_retry"} => ptr[q] # w
  BY <1>1 DEF ReclaimOK, Holders
<1>7. Private' = Private /\ \A n : Winners(n)' = Winners(n)
  BY <1>1 DEF Private, Winners
<1>8. Linked' = Linked
  BY <1>1, <1>7 DEF Linked, Holders
<1>9. last => w \notin Linked /\ Winners(w) = {}
  BY <1>2 DEF CountsOK, Winners
<1>10. w \notin Linked /\ Winners(w) = {} =>
         /\ internal_count'[w] = Cardinality(Holders(w)')
         /\ last <=> Holders(w)' = {}
  <2>. SUFFICES ASSUME w \notin Linked, Winners(w) = {}
                PROVE  /\ internal_count'[w] = Cardinality(Holders(w)')
                       /\ last <=> Holders(w)' = {}
    OBVIOUS
  <2>1. internal_count[w] = Cardinality(Holders(w))
    BY <1>2 DEF ReclaimOK
  <2>2. Cardinality(Holders(w)') = 0 <=> Holders(w)' = {}
    BY <1>1, <1>2, LeaveNode
  <2>. QED
    BY <1>1, <1>2, <1>4, <1>5, <2>1, <2>2
<1>11. LocalsOK'
  <2>1. \A q \in Procs : pc[q] = "push" => new_node[q] # w
    BY <1>2, UsedNodes
  <2>. QED
    BY <1>1, <1>7, <2>1 DEF LocalsOK, Using, Procs
<1>12. ChainOK'
  BY <1>1, <1>8 DEF ChainOK
<1>13. CountsOK'
  <2>1. \A n \in Nodes, e \in Int : e - 1 + internal_count[n] = Cardinality(Holders(n))
                         => e - 1 + internal_count'[n] = Cardinality(Holders(n)')
    BY <1>4, <1>5
  <2>2. head.ptr # NULL => head.ptr \in Nodes /\ head.external_count \in Int
    BY DEF counted_node_ptr
  <2>3. \A m \in Linked : next[m].ptr # NULL => next[m].ptr \in Nodes /\ next[m].external_count \in Int
    BY DEF counted_node_ptr, Linked
  <2>4. \A q \in Procs : pc'[q] \in {"swap", "fold"} =>
          pc[q] \in {"swap", "fold"} /\ ptr[q] \in Nodes /\ old_head[q].external_count \in Int
    BY <1>1, UsedNodes DEF Using, counted_node_ptr
  <2>5. \A n \in Linked : n \in Nodes
    BY DEF Linked
  <2>6. \A n \in Nodes : internal_count[n] <= 0 => internal_count'[n] <= 0
    BY <1>5
  <2>7. \A m \in Linked : next[m].ptr # NULL =>
          next[m].external_count - 1 + internal_count'[next[m].ptr]
            = Cardinality(Holders(next[m].ptr)')
    BY <2>1, <2>3, <1>1 DEF CountsOK
  <2>8. \A q \in Procs : pc'[q] \in {"swap", "fold"} =>
          /\ old_head[q].external_count - 1 + internal_count'[ptr[q]] = Cardinality(Holders(ptr[q])')
          /\ internal_count'[ptr[q]] <= 0
    BY <2>1, <2>4, <2>6, <1>1 DEF CountsOK
  <2>9. head.ptr # NULL =>
          head.external_count - 1 + internal_count'[head.ptr] = Cardinality(Holders(head.ptr)')
    BY <2>1, <2>2, <1>1 DEF CountsOK
  <2>. QED
    BY <1>1, <1>8, <2>5, <2>6, <2>7, <2>8, <2>9 DEF CountsOK
<1>14. ReclaimOK'
  <2>1. \A n \in Nodes : n # w =>
          /\ Holders(n)' = Holders(n) /\ Deleters(n)' = Deleters(n)
          /\ internal_count'[n] = internal_count[n]
    BY <1>1, <1>3 DEF Deleters
  <2>2. (\A n \in heap \ (Linked \cup Private) : Winners(n) = {} =>
           internal_count[n] = Cardinality(Holders(n)))'
    BY <1>1, <1>7, <1>8, <1>10, <2>1 DEF ReclaimOK
  <2>3. (\A q \in Procs : pc[q] \in {"delete", "delete_retry"} =>
           ptr[q] \notin Linked /\ Holders(ptr[q]) = {})'
    <3>1. pc'[p] \in {"delete", "delete_retry"} => Holders(w)' = {} /\ w \notin Linked
      BY <1>1, <1>9, <1>10
    <3>2. \A q \in Procs \ {p} : pc[q] \in {"delete", "delete_retry"} => Holders(ptr[q])' = {}
      BY <1>1, <1>6, <2>1, UsedNodes DEF Using, ReclaimOK
    <3>. QED
      BY <1>1, <1>8, <3>1, <3>2 DEF ReclaimOK
  <2>4. (\A n \in heap \ (Linked \cup Private) : Holders(n) \cup Deleters(n) # {})'
    <3>1. w \notin Linked => Holders(w)' \cup Deleters(w)' # {}
      <4>1. CASE last
        BY <1>1, <1>2, <4>1 DEF Deleters
      <4>2. CASE ~last /\ Winners(w) = {}
        BY <1>10, <4>2
      <4>3. CASE Winners(w) # {}
        BY <1>1, <4>3 DEF Winners, Holders
      <4>. QED
        BY <4>1, <4>2, <4>3
    <3>. QED
      BY <1>1, <1>7, <1>8, <2>1, <3>1 DEF ReclaimOK
  <2>. QED
    BY <1>1, <1>6, <2>2, <2>3, <2>4 DEF ReclaimOK
<1>. QED
  BY <1>11, <1>12, <1>13, <1>14

\* delete: nobody holds the node, nobody else deletes it, nothing links it.
LEMMA DeleteNodeStep ==
  ASSUME IInv, TypeOK', NEW p \in Procs, DeleteNode(p)
  PROVE  IInv'
<1>. USE DEF IInv, TypeOK
<1>. DEFINE w == ptr[p]
<1>1. /\ UNCHANGED <<head, data, internal_count, next, new_node, old_head, ptr, ptr_next, todo>>
      /\ \A q \in Procs \ {p} : pc'[q] = pc[q]
      /\ pc[p] \in {"delete", "delete_retry"}
      /\ pc'[p] \in {"return", "increase"}
      /\ heap' = heap \ {w}
  BY DEF DeleteNode, client, local, Goto
<1>2. w \in Nodes /\ w \in heap \ Private /\ w \notin Linked
  BY <1>1, UsedNodes DEF Using
<1>3. \A q \in Procs \ {p} : pc[q] \in Using => ptr[q] # w
  BY <1>1 DEF ReclaimOK, Holders, Using
<1>4. Private' = Private /\ \A n : Winners(n)' = Winners(n) /\ Holders(n)' = Holders(n)
  BY <1>1 DEF Private, Winners, Holders
<1>5. \A n : n # w => Deleters(n)' = Deleters(n)
  BY <1>1 DEF Deleters
<1>6. Linked' = Linked
  BY <1>1, <1>2, <1>4 DEF Linked, Holders
<1>7. LocalsOK'
  <2>1. \A q \in Procs : pc[q] = "push" => new_node[q] # w
    BY <1>2, UsedNodes
  <2>. QED
    BY <1>1, <1>3, <1>4, <2>1 DEF LocalsOK, Using, Procs
<1>8. ChainOK'
  BY <1>1, <1>6 DEF ChainOK
<1>9. CountsOK'
  BY <1>1, <1>4, <1>6 DEF CountsOK
<1>10. ReclaimOK'
  BY <1>1, <1>4, <1>5, <1>6 DEF ReclaimOK
<1>. QED
  BY <1>7, <1>8, <1>9, <1>10

\* The winner takes the node at head out of the stack, and with it a copy of
\* its final external count.
LEMMA PopUnlinkStep ==
  ASSUME IInv, TypeOK', NEW p \in Procs, PopUnlink(p)
  PROVE  IInv'
<1>. USE DEF IInv, TypeOK
<1>. DEFINE w == ptr[p]
<1>1. /\ UNCHANGED <<heap, data, internal_count, next, new_node, old_head, ptr, todo>>
      /\ \A q \in Procs \ {p} : pc'[q] = pc[q] /\ ptr_next'[q] = ptr_next[q]
      /\ pc[p] = "unlink" /\ pc'[p] = "swap"
      /\ head = old_head[p]
      /\ head' = next[w]
  BY DEF PopUnlink, HeadIs, client, Goto, LocalsOK
<1>2. w \in Nodes /\ w # NULL /\ w = head.ptr /\ w \in Linked
  BY <1>1, UsedNodes DEF Using, LocalsOK, ChainOK
<1>3. \A n : Holders(n)' = Holders(n) /\ Deleters(n)' = Deleters(n)
  BY <1>1 DEF Holders, Deleters
<1>4. Private' = Private /\ \A n : n # w => Winners(n)' = Winners(n)
  BY <1>1 DEF Private, Winners
<1>5. Linked' = Linked \ {w}
  BY <1>1, <1>2, <1>3, <1>4 DEF Linked, Holders
<1>6. \A q \in Procs : pc[q] \in {"swap", "fold", "delete", "delete_retry"} => ptr[q] # w
  BY <1>2, UsedNodes
<1>7. LocalsOK'
  <2>1. data[w] # NULL
    BY <1>2 DEF Linked
  <2>. QED
    BY <1>1, <1>4, <2>1 DEF LocalsOK, Using, Procs
<1>8. ChainOK'
  BY <1>1, <1>2, <1>5 DEF ChainOK
<1>9. CountsOK'
  <2>1. (head.ptr # NULL =>
           head.external_count - 1 + internal_count[head.ptr] = Cardinality(Holders(head.ptr)))'
    BY <1>1, <1>2, <1>3 DEF CountsOK
  <2>2. old_head[p].external_count - 1 + internal_count[w] = Cardinality(Holders(w)')
    BY <1>1, <1>2, <1>3 DEF CountsOK
  <2>3. internal_count[w] <= 0
    BY <1>2 DEF CountsOK
  <2>. QED
    BY <1>1, <1>3, <1>5, <2>1, <2>2, <2>3 DEF CountsOK
<1>10. ReclaimOK'
  <2>1. p \in Winners(w)' /\ p \in Holders(w)'
    BY <1>1 DEF Winners, Holders
  <2>2. (\A n \in heap \ (Linked \cup Private) : Winners(n) = {} =>
           internal_count[n] = Cardinality(Holders(n)))'
    BY <1>1, <1>3, <1>4, <1>5, <2>1 DEF ReclaimOK
  <2>3. (\A n \in heap \ (Linked \cup Private) : Holders(n) \cup Deleters(n) # {})'
    BY <1>1, <1>3, <1>4, <1>5, <2>1 DEF ReclaimOK
  <2>. QED
    BY <1>1, <1>3, <1>5, <1>6, <2>2, <2>3 DEF ReclaimOK
<1>. QED
  BY <1>7, <1>8, <1>9, <1>10

\* A new node: no thread uses its address, whatever it was used for before.
LEMMA PushAllocateStep ==
  ASSUME IInv, TypeOK', NEW p \in Procs, PushAllocate(p)
  PROVE  IInv'
<1>. USE DEF IInv, TypeOK
<1>1. PICK n \in Nodes \ heap, v \in Values :
        /\ heap' = heap \cup {n}
        /\ data' = [data EXCEPT ![n] = v]
        /\ internal_count' = [internal_count EXCEPT ![n] = 0]
        /\ next' = [next EXCEPT ![n] = head]
        /\ new_node' = [new_node EXCEPT ![p] = n]
  BY DEF PushAllocate
<1>2. /\ UNCHANGED <<head, old_head, ptr, ptr_next, todo>>
      /\ \A q \in Procs \ {p} : pc'[q] = pc[q]
      /\ pc[p] = "idle" /\ pc'[p] = "push"
      /\ p \in Threads /\ todo[p] > 0
  BY DEF PushAllocate, client, Goto, Pushing, Threads
<1>3. \A q \in Procs : pc[q] \in Using => ptr[q] # n
  BY <1>1, UsedNodes
<1>4. n \notin Linked /\ n \notin Private
  BY <1>1, UsedNodes DEF Linked, Private, LocalsOK
<1>5. \A m : Holders(m)' = Holders(m) /\ Deleters(m)' = Deleters(m) /\ Winners(m)' = Winners(m)
  BY <1>2 DEF Holders, Deleters, Winners
<1>6. Private' = Private \cup {n}
  BY <1>1, <1>2 DEF Private
<1>7. Linked' = Linked
  BY <1>1, <1>2, <1>4, <1>5, <1>6 DEF Linked, Holders
<1>8. LocalsOK'
  <2>1. \A q \in Procs : pc[q] = "push" => new_node[q] \in heap /\ new_node[q] # n
    BY <1>1 DEF LocalsOK
  <2>2. (\A q \in Procs : pc[q] = "push" =>
          /\ q \in Threads
          /\ new_node[q] \in heap
          /\ data[new_node[q]] # NULL
          /\ internal_count[new_node[q]] = 0)'
    BY <1>1, <1>2, <2>1, StackAssumption DEF LocalsOK
  <2>3. (\A q, r \in Procs :
          pc[q] = "push" /\ pc[r] = "push" /\ new_node[q] = new_node[r] => q = r)'
    BY <1>1, <1>2, <2>1 DEF LocalsOK
  <2>4. (\A q \in Procs : pc[q] \in Using => ptr[q] \in heap \ Private)'
    BY <1>1, <1>2, <1>3, <1>6 DEF LocalsOK, Using
  <2>. QED
    BY <1>1, <1>2, <1>3, <2>2, <2>3, <2>4 DEF LocalsOK, Using, Procs
<1>9. ChainOK'
  BY <1>1, <1>2, <1>4, <1>7 DEF ChainOK
<1>10. CountsOK'
  <2>1. head.ptr # n /\ \A m \in Linked : m # n /\ next[m].ptr # n
    BY <1>1, <1>4, StackAssumption DEF ChainOK
  <2>. QED
    BY <1>1, <1>2, <1>3, <1>5, <1>7, <2>1 DEF CountsOK, Using
<1>11. ReclaimOK'
  BY <1>1, <1>2, <1>3, <1>4, <1>5, <1>6, <1>7 DEF ReclaimOK, Using
<1>. QED
  BY <1>8, <1>9, <1>10, <1>11

\* push publishes its node: it links what head linked before.
LEMMA PushLinkStep ==
  ASSUME IInv, TypeOK', NEW p \in Procs, PushLink(p)
  PROVE  IInv'
<1>. USE DEF IInv, TypeOK
<1>. PICK n : n = new_node[p]
  OBVIOUS
<1>1. /\ UNCHANGED <<heap, data, internal_count, next, old_head, ptr, ptr_next>>
      /\ \A q \in Procs \ {p} : pc'[q] = pc[q] /\ new_node'[q] = new_node[q]
      /\ pc[p] = "push" /\ pc'[p] = "idle"
      /\ head = next[n]
      /\ head' = [external_count |-> 1, ptr |-> n]
      /\ todo' = [todo EXCEPT ![p] = @ - 1]
  BY DEF PushLink, HeadIs, Goto
<1>2. /\ n \in Nodes /\ n \in heap /\ n \in Private /\ n # NULL
      /\ data[n] # NULL /\ internal_count[n] = 0
  BY <1>1, UsedNodes, StackAssumption DEF LocalsOK
<1>3. n \notin Linked
  BY <1>2 DEF Linked
<1>4. \A q \in Procs : pc[q] \in Using => ptr[q] # n
  BY <1>2, UsedNodes
<1>5. \A m : Holders(m)' = Holders(m) /\ Deleters(m)' = Deleters(m) /\ Winners(m)' = Winners(m)
  BY <1>1 DEF Holders, Deleters, Winners
<1>6. Private' = Private \ {n}
  BY <1>1 DEF Private, LocalsOK
<1>7. Holders(n) = {}
  BY <1>4 DEF Holders, Using
<1>8. Linked' = Linked \cup {n}
  BY <1>1, <1>2, <1>5, <1>6, <1>7 DEF Linked, Holders
<1>9. LocalsOK'
  <2>1. \A t \in Threads : pc'[t] # "idle" => todo'[t] > 0
    BY <1>1, StackAssumption DEF LocalsOK, Procs
  <2>. QED
    BY <1>1, <1>6, <2>1 DEF LocalsOK, Using, Procs
<1>10. ChainOK'
  BY <1>1, <1>2, <1>3, <1>8 DEF ChainOK
<1>11. CountsOK'
  <2>1. Cardinality(Holders(n)') = 0
    BY <1>5, <1>7, FS_EmptySet
  <2>. QED
    BY <1>1, <1>2, <1>5, <1>8, <2>1 DEF CountsOK
<1>12. ReclaimOK'
  BY <1>1, <1>2, <1>4, <1>5, <1>6, <1>8 DEF ReclaimOK, Using
<1>. QED
  BY <1>9, <1>10, <1>11, <1>12

\* A push that lost takes the new head as its next: the node is still private.
LEMMA PushReloadStep ==
  ASSUME IInv, TypeOK', NEW p \in Procs, PushReload(p)
  PROVE  IInv'
<1>. USE DEF IInv, TypeOK
<1>1. /\ UNCHANGED <<head, heap, data, internal_count, new_node, old_head, ptr, ptr_next, pc, todo>>
      /\ pc[p] = "push"
      /\ next' = [next EXCEPT ![new_node[p]] = head]
  BY DEF PushReload, local, client
<1>2. new_node[p] \notin Linked
  BY <1>1, UsedNodes DEF Linked
<1>3. \A n : Holders(n)' = Holders(n) /\ Deleters(n)' = Deleters(n) /\ Winners(n)' = Winners(n)
  BY <1>1 DEF Holders, Deleters, Winners
<1>4. Private' = Private
  BY <1>1 DEF Private
<1>5. Linked' = Linked
  BY <1>1, <1>3, <1>4 DEF Linked
<1>6. \A m \in Linked : next'[m] = next[m]
  BY <1>1, <1>2
<1>7. LocalsOK' /\ ReclaimOK'
  <2>1. \A q \in Procs : pc[q] \in Using => ptr[q] \in Nodes /\ ptr[q] # new_node[p]
    BY <1>1, UsedNodes
  <2>2. \A q \in Procs : pc[q] = "unlink" => ptr_next'[q] = next'[ptr'[q]]
    BY <1>1, <2>1 DEF LocalsOK, Using
  <2>3. LocalsOK'
    BY <1>1, <1>4, <2>2 DEF LocalsOK
  <2>. QED
    BY <1>1, <1>3, <1>4, <1>5, <2>3 DEF ReclaimOK
<1>8. ChainOK' /\ CountsOK'
  BY <1>1, <1>3, <1>5, <1>6 DEF ChainOK, CountsOK
<1>. QED
  BY <1>7, <1>8

----------------------------------------------------------------------------
LEMMA IInvStep == IInv /\ [Next]_vars => IInv'
<1>. SUFFICES ASSUME IInv, [Next]_vars PROVE IInv'
  OBVIOUS
<1>1. TypeOK'
  BY TypeStep
<1>2. CASE UNCHANGED vars
  BY <1>2, SMTT(30) DEF IInv, TypeOK, LocalsOK, ChainOK, CountsOK, ReclaimOK, Linked, Private, Holders,
              Deleters, Winners, vars, shared, local, client
<1>3. ASSUME NEW p \in Procs, Push(p) PROVE IInv'
  BY <1>1, <1>3, PushAllocateStep, PushLinkStep, PushReloadStep DEF Push
<1>4. ASSUME NEW p \in Procs, Pop(p) PROVE IInv'
  BY <1>1, <1>4, QuietStep, IncreaseHeadCountStep, ReadNextStep, PopUnlinkStep, PopLoseStep, SwapDataStep,
     FoldCountStep, ReleaseRefStep, DeleteNodeStep DEF Pop
<1>. QED
  BY <1>2, <1>3, <1>4 DEF Next, Step, Terminated, OutOfMemory, Overflow

THEOREM Invariance == Spec => []IInv
BY InitIInv, IInvStep, PTL DEF Spec

\* Every variable always holds a value of its C++ type, however many threads
\* call push and pop.
THEOREM TypeCorrect == Spec => []TypeOK
<1>1. IInv => TypeOK
  BY DEF IInv
<1>. QED
  BY <1>1, Invariance, PTL

\* The split counts of every node (external_count and internal_count) always
\* account for exactly the threads that hold it.
THEOREM CountsBalance == Spec => []SplitCount
<1>1. IInv => SplitCount
  <2>. SUFFICES ASSUME IInv PROVE SplitCount
    OBVIOUS
  <2>1. \A n \in heap \ (Linked \cup Private) :
          (\A p \in Holders(n) : pc[p] \notin {"swap", "fold"}) => Winners(n) = {}
    BY DEF Winners, Holders
  <2>2. \A l \in Links : l.ptr # NULL =>
          l.external_count - 1 + internal_count[l.ptr] = Cardinality(Holders(l.ptr))
    BY DEF IInv, CountsOK, Links
  <2>. QED
    BY <2>1, <2>2 DEF IInv, CountsOK, ReclaimOK, SplitCount
<1>. QED
  BY <1>1, Invariance, PTL

\* The two deletes of pop free every node once and after its last use.
THEOREM SafeReclamation == Spec => []MemorySafe
<1>1. IInv => MemorySafe
  <2>. SUFFICES ASSUME IInv PROVE MemorySafe
    OBVIOUS
  <2>1. \A n \in Nodes : Holders(n) \cup Deleters(n) # {} => n \in heap
    BY DEF IInv, LocalsOK, Using, Holders, Deleters
  <2>2. ASSUME NEW n \in Nodes, Deleters(n) # {}
        PROVE  /\ Cardinality(Deleters(n)) = 1
               /\ Holders(n) = {}
               /\ n \notin Linked \cup Private
    <3>1. PICK p \in Procs : pc[p] \in {"delete", "delete_retry"} /\ ptr[p] = n
      BY <2>2 DEF Deleters
    <3>2. Deleters(n) = {p}
      BY <3>1 DEF IInv, ReclaimOK, Deleters
    <3>3. Holders(n) = {} /\ n \notin Linked \cup Private
      BY <3>1, UsedNodes DEF IInv, ReclaimOK, Using
    <3>. QED
      BY <3>2, <3>3, FS_Singleton
  <2>3. \A l \in Links : l.ptr # NULL => l.ptr \in Linked
    BY DEF IInv, ChainOK, Links
  <2>. QED
    BY <2>1, <2>2, <2>3 DEF MemorySafe
<1>. QED
  BY <1>1, Invariance, PTL

----------------------------------------------------------------------------
(* The destructor's loop frees every node.  IInv leaves open whether a node *)
(* of the stack can be cut off from head, and what Main has seen; the two   *)
(* conjuncts below settle that, and are inductive beside IInv.              *)

\* What head leads to: every set that holds its node and the successors of
\* its own nodes holds the whole stack.
Closed(C) ==
  /\ head.ptr # NULL => head.ptr \in C
  /\ \A m \in C \cap Linked : next[m].ptr # NULL => next[m].ptr \in C

Reachable == \A C \in SUBSET Nodes : Closed(C) => Linked \subseteq C

\* Main works alone, and returns nothing only from an empty stack.
MainLast ==
  /\ pc[Main] # "idle" \/ destroyed => \A t \in Threads : Finished(t)
  /\ pc[Main] \in {"fold", "delete"} => res[Main] # NULL
  /\ pc[Main] = "return" /\ res[Main] = NULL => head.ptr = NULL
  /\ destroyed => pc[Main] = "idle" /\ head.ptr = NULL

\* Linked is the same where nothing it is defined by has changed.
LEMMA SameLinked ==
  ASSUME UNCHANGED <<heap, data, new_node>>,
         \A q \in Procs : /\ pc'[q] = "push" <=> pc[q] = "push"
                          /\ pc'[q] = "swap" <=> pc[q] = "swap"
                          /\ pc[q] = "swap" => ptr'[q] = ptr[q]
  PROVE  Linked' = Linked
<1>1. Private' = Private
  BY DEF Private
<1>2. \A n : (\A q \in Holders(n) : pc[q] # "swap")
             <=> (\A q \in Procs : pc[q] = "swap" => ptr[q] # n)
  BY DEF Holders
<1>3. \A n : (\A q \in Holders(n)' : pc'[q] # "swap")
             <=> (\A q \in Procs : pc'[q] = "swap" => ptr'[q] # n)
  BY DEF Holders
<1>. QED
  BY <1>1, <1>2, <1>3 DEF Linked

\* A step leaves the stack alone, puts a node on its top or takes its top off.
LEMMA StackStep ==
  ASSUME IInv, TypeOK', NEW p \in Procs, Step(p)
  PROVE  \/ /\ Linked' = Linked /\ head'.ptr = head.ptr
            /\ \A m \in Linked : next'[m] = next[m]
         \/ \E n \in Nodes : /\ Linked' = Linked \cup {n} /\ n \notin Linked
                             /\ head'.ptr = n /\ next' = next /\ next[n].ptr = head.ptr
         \/ /\ head.ptr \in Nodes /\ Linked' = Linked \ {head.ptr}
            /\ head'.ptr = next[head.ptr].ptr /\ next' = next
<1>. USE DEF IInv, TypeOK
<1>1. CASE PopLoad(p) \/ IncreaseReload(p) \/ PopReturn(p) \/ PopLose(p) \/ ReadNext(p)
           \/ FoldCount(p) \/ ReleaseRef(p)
  <2>1. UNCHANGED <<head, heap, data, next, new_node>>
    BY <1>1 DEF PopLoad, IncreaseReload, PopReturn, PopLose, ReadNext, FoldCount, ReleaseRef,
                shared, local
  <2>2. \A q \in Procs : /\ pc'[q] = "push" <=> pc[q] = "push"
                         /\ pc'[q] = "swap" <=> pc[q] = "swap"
                         /\ pc[q] = "swap" => ptr'[q] = ptr[q]
    BY <1>1 DEF PopLoad, IncreaseReload, PopReturn, PopLose, ReadNext, FoldCount, ReleaseRef,
                shared, local, Goto, Popping, Destroying
  <2>. QED
    BY <2>1, <2>2, SameLinked
<1>2. CASE IncreaseHeadCount(p)
  <2>1. UNCHANGED <<heap, data, next, new_node>> /\ head'.ptr = head.ptr
    BY <1>2 DEF IncreaseHeadCount, counted_node_ptr
  <2>2. \A q \in Procs : /\ pc'[q] = "push" <=> pc[q] = "push"
                         /\ pc'[q] = "swap" <=> pc[q] = "swap"
                         /\ pc[q] = "swap" => ptr'[q] = ptr[q]
    BY <1>2 DEF IncreaseHeadCount, Goto
  <2>. QED
    BY <2>1, <2>2, SameLinked
<1>3. CASE SwapData(p)
  <2>1. /\ UNCHANGED <<head, heap, next, new_node, ptr>>
        /\ \A q \in Procs \ {p} : pc'[q] = pc[q]
        /\ pc[p] = "swap" /\ pc'[p] = "fold"
        /\ data' = [data EXCEPT ![ptr[p]] = NULL]
    BY <1>3 DEF SwapData, Goto
  <2>2. Private' = Private
    BY <2>1 DEF Private
  <2>3. Linked' = Linked
    BY <2>1, <2>2, UsedNodes DEF Linked, Holders, Using
  <2>. QED
    BY <2>1, <2>3
<1>4. CASE DeleteNode(p)
  <2>1. /\ UNCHANGED <<head, data, next, new_node, ptr>>
        /\ \A q \in Procs \ {p} : pc'[q] = pc[q]
        /\ pc[p] \in {"delete", "delete_retry"} /\ pc'[p] \in {"return", "increase"}
        /\ heap' = heap \ {ptr[p]}
    BY <1>4 DEF DeleteNode, local, Goto
  <2>2. Private' = Private /\ \A n : Holders(n)' = Holders(n)
    BY <2>1 DEF Private, Holders
  <2>3. Linked' = Linked
    BY <2>1, <2>2, UsedNodes DEF Linked, Holders
  <2>. QED
    BY <2>1, <2>3
<1>5. CASE PopUnlink(p)
  <2>1. /\ UNCHANGED <<heap, data, next, new_node, ptr>>
        /\ \A q \in Procs \ {p} : pc'[q] = pc[q]
        /\ pc[p] = "unlink" /\ pc'[p] = "swap"
        /\ head.ptr = ptr[p] /\ head' = next[ptr[p]]
    BY <1>5 DEF PopUnlink, HeadIs, Goto, LocalsOK
  <2>2. ptr[p] \in Nodes /\ ptr[p] # NULL
    BY <2>1, UsedNodes DEF Using
  <2>3. Private' = Private /\ \A n : Holders(n)' = Holders(n)
    BY <2>1 DEF Private, Holders
  <2>4. Linked' = Linked \ {ptr[p]}
    BY <2>1, <2>2, <2>3 DEF Linked, Holders
  <2>. QED
    BY <2>1, <2>2, <2>4
<1>6. CASE PushAllocate(p)
  <2>1. PICK n \in Nodes \ heap, v \in Values :
          /\ heap' = heap \cup {n}
          /\ data' = [data EXCEPT ![n] = v]
          /\ next' = [next EXCEPT ![n] = head]
          /\ new_node' = [new_node EXCEPT ![p] = n]
    BY <1>6 DEF PushAllocate
  <2>2. /\ UNCHANGED <<head, ptr>>
        /\ \A q \in Procs \ {p} : pc'[q] = pc[q]
        /\ pc[p] = "idle" /\ pc'[p] = "push"
    BY <1>6 DEF PushAllocate, Goto, Pushing
  <2>3. \A m : Holders(m)' = Holders(m)
    BY <2>2 DEF Holders
  <2>4. Private' = Private \cup {n}
    BY <2>1, <2>2 DEF Private
  <2>5. n \notin Linked
    BY <2>1 DEF Linked
  <2>6. Linked' = Linked
    BY <2>1, <2>2, <2>3, <2>4, <2>5 DEF Linked, Holders
  <2>. QED
    BY <2>1, <2>2, <2>5, <2>6
<1>7. CASE PushLink(p)
  <2>. PICK n : n = new_node[p]
    OBVIOUS
  <2>1. /\ UNCHANGED <<heap, data, next, ptr>>
        /\ \A q \in Procs \ {p} : pc'[q] = pc[q] /\ new_node'[q] = new_node[q]
        /\ pc[p] = "push" /\ pc'[p] = "idle"
        /\ head = next[n] /\ head'.ptr = n
    BY <1>7 DEF PushLink, HeadIs, Goto
  <2>2. n \in Nodes /\ n \in heap /\ n \in Private /\ data[n] # NULL
    BY <2>1, UsedNodes DEF LocalsOK
  <2>3. Private' = Private \ {n} /\ \A m : Holders(m)' = Holders(m)
    BY <2>1 DEF Private, LocalsOK, Holders
  <2>4. Holders(n) = {}
    BY <2>2, UsedNodes DEF Holders, Using
  <2>5. Linked' = Linked \cup {n} /\ n \notin Linked
    BY <2>1, <2>2, <2>3, <2>4 DEF Linked, Holders
  <2>. QED
    BY <2>1, <2>2, <2>5
<1>8. CASE PushReload(p)
  <2>1. /\ UNCHANGED <<head, heap, data, new_node, ptr, pc>>
        /\ pc[p] = "push" /\ next' = [next EXCEPT ![new_node[p]] = head]
    BY <1>8 DEF PushReload, local
  <2>2. new_node[p] \notin Linked
    BY <2>1, UsedNodes DEF Linked
  <2>3. Linked' = Linked
    BY <2>1, SameLinked
  <2>. QED
    BY <2>1, <2>2, <2>3
<1>. QED
  BY <1>1, <1>2, <1>3, <1>4, <1>5, <1>6, <1>7, <1>8 DEF Step, Push, Pop

LEMMA ReachableStep ==
  ASSUME IInv, TypeOK', Reachable, NEW p \in Procs, Step(p)
  PROVE  Reachable'
<1>. SUFFICES ASSUME NEW C \in SUBSET Nodes, Closed(C)' PROVE Linked' \subseteq C
  BY DEF Reachable
<1>1. CASE Linked' = Linked /\ head'.ptr = head.ptr /\ \A m \in Linked : next'[m] = next[m]
  <2>1. Closed(C)
    BY <1>1 DEF Closed
  <2>. QED
    BY <1>1, <2>1 DEF Reachable
<1>2. ASSUME NEW n \in Nodes, Linked' = Linked \cup {n}, head'.ptr = n, next' = next,
             next[n].ptr = head.ptr
      PROVE  Linked' \subseteq C
  <2>1. n \in C /\ (head.ptr # NULL => head.ptr \in C)
    BY <1>2, StackAssumption DEF Closed
  <2>2. Closed(C)
    BY <1>2, <2>1 DEF Closed
  <2>. QED
    BY <1>2, <2>1, <2>2 DEF Reachable
<1>3. CASE /\ head.ptr \in Nodes /\ Linked' = Linked \ {head.ptr}
           /\ head'.ptr = next[head.ptr].ptr /\ next' = next
  <2>1. Closed(C \cup {head.ptr})
    BY <1>3 DEF Closed
  <2>2. Linked \subseteq C \cup {head.ptr}
    BY <1>3, <2>1 DEF Reachable
  <2>. QED
    BY <1>3, <2>2
<1>. QED
  BY <1>1, <1>2, <1>3, StackStep

LEMMA MainLastStep ==
  ASSUME IInv, TypeOK', MainLast, NEW p \in Procs, Step(p)
  PROVE  MainLast'
<1>. USE DEF IInv, TypeOK
<1>1. Main \in Procs /\ Main \notin Threads
  BY StackAssumption DEF Procs
<1>2. ASSUME p \in Threads PROVE MainLast'
  <2>1. ~ Finished(p)
    BY <1>2, StackAssumption DEF Step, Push, Pop, PushAllocate, PushLink, PushReload, PopLoad,
          IncreaseHeadCount, IncreaseReload, ReadNext, PopUnlink, PopLose, SwapData, FoldCount,
          ReleaseRef, DeleteNode, PopReturn, Pushing, Popping, Destroying, Finished
  <2>2. pc[Main] = "idle" /\ ~ destroyed
    BY <1>2, <2>1 DEF MainLast
  <2>3. pc'[Main] = "idle"
    BY <1>1, <1>2, <2>2 DEF Step, Push, Pop, PushAllocate, PushLink, PushReload, PopLoad,
          IncreaseHeadCount, IncreaseReload, ReadNext, PopUnlink, PopLose, SwapData, FoldCount,
          ReleaseRef, DeleteNode, PopReturn, Goto
  <2>4. ~ destroyed'
    BY <1>1, <1>2, <2>2 DEF Step, Push, Pop, PushAllocate, PushLink, PushReload, PopLoad,
          IncreaseHeadCount, IncreaseReload, ReadNext, PopUnlink, PopLose, SwapData, FoldCount,
          ReleaseRef, DeleteNode, PopReturn, client
  <2>. QED
    BY <2>3, <2>4 DEF MainLast
<1>3. ASSUME p = Main PROVE MainLast'
  <2>1. \A t \in Threads : Finished(t)
    <3>1. CASE PopLoad(p)
      BY <1>1, <1>3, <3>1 DEF PopLoad, Popping, Destroying, Threads
    <3>2. CASE ~ PopLoad(p)
      BY <1>1, <1>3, <3>2 DEF MainLast, Step, Push, Pop, PushAllocate, PushLink, PushReload,
            IncreaseHeadCount, IncreaseReload, ReadNext, PopUnlink, PopLose, SwapData, FoldCount,
            ReleaseRef, DeleteNode, PopReturn, Pushing, Threads
    <3>. QED
      BY <3>1, <3>2
  <2>2. ~ Push(p)
    BY <1>1, <1>3 DEF Push, PushAllocate, PushLink, PushReload, Pushing, Threads, LocalsOK
  <2>3. todo' = todo
    BY <1>1, <1>3, <2>2 DEF Step, Pop, PopLoad, IncreaseHeadCount, IncreaseReload, ReadNext,
          PopUnlink, PopLose, SwapData, FoldCount, ReleaseRef, DeleteNode, PopReturn, client
  <2>4. \A t \in Threads : Finished(t)'
    <3>1. UNCHANGED pc \/ \E l \in Labels : Goto(p, l)
      BY <2>2 DEF Step, Pop, PopLoad, IncreaseHeadCount, IncreaseReload, ReadNext,
            PopUnlink, PopLose, SwapData, FoldCount, ReleaseRef, DeleteNode, PopReturn, Labels
    <3>2. \A t \in Threads : pc'[t] = pc[t]
      BY <1>1, <1>3, <3>1 DEF Goto, Procs
    <3>. QED
      BY <2>1, <2>3, <3>2 DEF Finished
  <2>5. CASE PopReturn(p)
    BY <1>1, <1>3, <2>4, <2>5 DEF PopReturn, Goto, shared, MainLast
  <2>6. CASE PopLoad(p) \/ IncreaseReload(p) \/ ReadNext(p) \/ PopUnlink(p) \/ PopLose(p)
             \/ ReleaseRef(p)
    <3>1. ~ destroyed'
      BY <1>1, <1>3, <2>6 DEF MainLast, PopLoad, IncreaseReload, ReadNext, PopUnlink, PopLose,
            ReleaseRef, Popping, Destroying, client, Threads
    <3>2. pc'[Main] \notin {"fold", "delete", "return"}
      BY <1>1, <1>3, <2>6 DEF PopLoad, IncreaseReload, ReadNext, PopUnlink, PopLose,
            ReleaseRef, Goto
    <3>. QED
      BY <2>4, <3>1, <3>2 DEF MainLast
  <2>7. CASE IncreaseHeadCount(p)
    BY <1>1, <1>3, <2>4, <2>7 DEF IncreaseHeadCount, Goto, client, MainLast, counted_node_ptr
  <2>8. CASE SwapData(p)
    BY <1>1, <1>3, <2>4, <2>8 DEF SwapData, Goto, client, MainLast, LocalsOK
  <2>9. CASE FoldCount(p) \/ DeleteNode(p)
    BY <1>1, <1>3, <2>4, <2>9 DEF FoldCount, DeleteNode, Goto, local, client, MainLast
  <2>. QED
    BY <2>2, <2>5, <2>6, <2>7, <2>8, <2>9 DEF Step, Pop
<1>. QED
  BY <1>2, <1>3 DEF Procs

\* The destructor (line 48) leaves no node allocated, whatever races the
\* nodes have been through, and before that nobody forgets one.
THEOREM NothingLeaks == Spec => []NoLeak
<1>. DEFINE LInv == Reachable /\ MainLast
<1>1. Init => LInv
  <2>. SUFFICES ASSUME Init PROVE LInv
    OBVIOUS
  <2>1. Linked = {}
    BY DEF Init, Linked
  <2>. QED
    BY <2>1 DEF Init, Reachable, MainLast, Procs
<1>2. IInv /\ IInv' /\ LInv /\ [Next]_vars => LInv'
  <2>. SUFFICES ASSUME IInv, IInv', LInv, [Next]_vars PROVE LInv'
    OBVIOUS
  <2>1. CASE UNCHANGED vars
    BY <2>1 DEF vars, shared, local, client, Reachable, Closed, Linked, Private, Holders,
                MainLast, Finished
  <2>2. ASSUME NEW p \in Procs, Step(p) PROVE LInv'
    BY <2>2, ReachableStep, MainLastStep DEF IInv
  <2>. QED
    BY <2>1, <2>2 DEF Next, Terminated, OutOfMemory, Overflow
<1>3. IInv /\ LInv => NoLeak
  <2>. SUFFICES ASSUME IInv, LInv PROVE NoLeak
    OBVIOUS
  <2>1. ASSUME destroyed PROVE heap = {}
    <3>1. \A p \in Procs : pc[p] = "idle"
      BY <2>1 DEF MainLast, Finished, Procs
    <3>2. Private = {} /\ \A n : Holders(n) = {} /\ Deleters(n) = {}
      BY <3>1 DEF Private, Holders, Deleters
    <3>3. heap \subseteq Linked
      BY <3>2 DEF IInv, ReclaimOK
    <3>4. Closed({})
      BY <2>1 DEF MainLast, Closed
    <3>5. Linked = {}
      BY <3>4 DEF Reachable
    <3>. QED
      BY <3>3, <3>5
  <2>. QED
    BY <2>1 DEF IInv, ReclaimOK, NoLeak
<1>. QED
  BY <1>1, <1>2, <1>3, Invariance, PTL DEF Spec
----------------------------------------------------------------------------
(* Linearizability.  The contents of the stack are computed by following   *)
(* the next pointers; the sequence of nodes they lead through is the       *)
(* witness for what that recursion returns, and a push or a pop changes it *)
(* at its first element.                                                   *)

\* A set of numbers has a least one: how NodeAt is shown to be what Chain says.
LEMMA LeastNumber ==
  ASSUME NEW W, W \subseteq Nat, W # {}
  PROVE  \E j \in W : \A k \in W : j <= k
<1>. DEFINE below == {jk \in Nat \X Nat : jk[1] < jk[2]}
<1>1. IsWellFoundedOn(below, Nat)
  BY NatLessThanWellFounded DEF OpToRel
<1>2. PICK j \in W : \A k \in W : <<k, j>> \notin below
  BY <1>1, WFMin
<1>3. ASSUME NEW k \in W PROVE j <= k
  <2>1. <<k, j>> \in Nat \X Nat /\ ~ (k < j)
    BY <1>2
  <2>. QED
    BY <2>1
<1>. QED
  BY <1>3

\* What follows the first i - 1 nodes of s.
After(s, i) == IF i <= Len(s) THEN s[i] ELSE NULL

\* The pointers lead from head through the nodes of s, and no others.
Chain(s) ==
  /\ \A i \in 1 .. Len(s) : s[i] \in Linked
  /\ \A i, j \in 1 .. Len(s) : s[i] = s[j] => i = j
  /\ head.ptr = After(s, 1)
  /\ \A i \in 1 .. Len(s) : next[s[i]].ptr = After(s, i + 1)

\* The recursion over the next pointers returns the nodes of the chain.
LEMMA NodeAtIs ==
  ASSUME NEW s \in Seq(Nodes), Chain(s)
  PROVE  \A i \in Nat : NodeAt[i] = After(s, i + 1)
<1>. DEFINE f == [i \in Nat |-> After(s, i + 1)]
            F(g) == [i \in Nat |-> IF i = 0 THEN head.ptr
                                   ELSE IF g[i - 1] = NULL THEN NULL ELSE next[g[i - 1]].ptr]
<1>1. f = F(f)
  <2>. SUFFICES ASSUME NEW i \in Nat PROVE f[i] = F(f)[i]
    OBVIOUS
  <2>. Len(s) \in Nat /\ \A j \in 1 .. Len(s) : s[j] \in Nodes /\ s[j] # NULL
    BY StackAssumption, ElementOfSeq, LenProperties
  <2>1. CASE i = 0
    BY <2>1 DEF Chain
  <2>2. CASE i # 0 /\ i <= Len(s)
    <3>1. f[i - 1] = s[i] /\ i \in 1 .. Len(s)
      BY <2>2 DEF After
    <3>. QED
      BY <2>2, <3>1 DEF Chain
  <2>3. CASE i > Len(s) /\ i # 0
    BY <2>3 DEF After
  <2>. QED
    BY <2>1, <2>2, <2>3
<1>2. NodeAt = F(NodeAt)
  BY <1>1 DEF NodeAt
<1>. DEFINE W == {j \in Nat : NodeAt[j] # f[j]}
<1>3. W = {}
  <2>. SUFFICES ASSUME W # {} PROVE FALSE
    OBVIOUS
  <2>1. PICK j \in W : \A k \in W : j <= k
    <3>. HIDE DEF f
    <3>1. W \subseteq Nat
      OBVIOUS
    <3>. HIDE DEF W
    <3>. QED
      BY <3>1, LeastNumber
  <2>2. j = 0 \/ (j - 1 \in Nat /\ NodeAt[j - 1] = f[j - 1])
    BY <2>1
  <2>3. NodeAt[j] = F(NodeAt)[j] /\ f[j] = F(f)[j]
    BY <1>1, <1>2
  <2>4. NodeAt[j] = f[j]
    BY <2>2, <2>3
  <2>. QED
    BY <2>1, <2>4
<1>. QED
  BY <1>3

\* The data the nodes of s hold.
Items(s) == [i \in 1 .. Len(s) |-> data[s[i]]]

LEMMA ContentsIs == \A s \in Seq(Nodes) : Chain(s) => Contents = Items(s)
<1>. SUFFICES ASSUME NEW s \in Seq(Nodes), Chain(s) PROVE Contents = Items(s)
  OBVIOUS
<1>. DEFINE n == Len(s)
<1>1. n \in Nat /\ s \in [1 .. n -> Nodes]
  BY LenProperties
<1>2. n <= Cardinality(Nodes) /\ Cardinality(Nodes) \in Nat
  <2>1. s \in Injection(1 .. n, Nodes)
    BY <1>1 DEF Injection, IsInjective, Chain
  <2>2. Cardinality(1 .. n) = n
    BY <1>1, FS_Interval
  <2>3. IsFiniteSet(Nodes)
    BY StackAssumption
  <2>. QED
    BY <2>1, <2>2, <2>3, FS_Injection, FS_CardinalityType
<1>3. \A i \in Nat : NodeAt[i] = IF i < n THEN s[i + 1] ELSE NULL
  <2>. SUFFICES ASSUME NEW i \in Nat PROVE NodeAt[i] = IF i < n THEN s[i + 1] ELSE NULL
    OBVIOUS
  <2>1. NodeAt[i] = After(s, i + 1)
    BY NodeAtIs
  <2>2. i + 1 <= n <=> i < n
    BY <1>1
  <2>. QED
    BY <2>1, <2>2 DEF After
<1>4. {i \in 0 .. Cardinality(Nodes) : NodeAt[i] # NULL} = 0 .. n - 1
  <2>1. \A i \in 1 .. n : s[i] # NULL
    BY <1>1, StackAssumption
  <2>2. \A i \in Nat : NodeAt[i] # NULL <=> i < n
    <3>. TAKE i \in Nat
    <3>1. CASE i < n
      <4>1. i + 1 \in 1 .. n
        BY <1>1, <3>1
      <4>. QED
        BY <1>3, <2>1, <3>1, <4>1
    <3>2. CASE ~ (i < n)
      BY <1>3, <3>2
    <3>. QED
      BY <3>1, <3>2
  <2>. HIDE DEF n
  <2>. QED
    BY <1>1, <1>2, <2>2
<1>5. Depth = n
  <2>1. Cardinality(0 .. n - 1) = n
    BY <1>1, FS_Interval
  <2>. QED
    BY <1>4, <2>1 DEF Depth
<1>6. \A i \in 1 .. n : NodeAt[i - 1] = s[i]
  BY <1>1, <1>3
<1>. QED
  BY <1>5, <1>6 DEF Contents, Items

LEMMA ContentsIsNext == \A s \in Seq(Nodes) : Chain(s)' => Contents' = Items(s)'
<1>1. (\A s \in Seq(Nodes) : Chain(s) => Contents = Items(s))'
  BY ContentsIs, PTL
<1>. QED
  BY <1>1

----------------------------------------------------------------------------
\* Head leads down to a null pointer.
ChainExists == \E s \in Seq(Nodes) : Chain(s)

\* A popper has no result before it has read the data of the node it unlinked.
ResultsOK == \A p \in Procs : pc[p] \notin {"fold", "delete", "return"} => res[p] = NULL

\* The step that puts a node on top of the chain, or takes the top off it.
LEMMA ChainPush ==
  ASSUME NEW s \in Seq(Nodes), Chain(s), NEW n \in Nodes, n \notin Linked,
         Linked' = Linked \cup {n}, head'.ptr = n, next' = next, next[n].ptr = head.ptr
  PROVE  <<n>> \o s \in Seq(Nodes) /\ Chain(<<n>> \o s)'
<1>. DEFINE t == <<n>> \o s
<1>1. /\ t \in Seq(Nodes) /\ Len(t) = Len(s) + 1 /\ Len(s) \in Nat
      /\ t[1] = n /\ \A i \in 1 .. Len(s) : t[i + 1] = s[i]
  <2>1. <<n>> \in Seq(Nodes) /\ Len(<<n>>) = 1
    OBVIOUS
  <2>2. /\ t \in Seq(Nodes) /\ Len(t) = 1 + Len(s)
        /\ \A i \in 1 .. 1 + Len(s) : t[i] = IF i <= 1 THEN <<n>>[i] ELSE s[i - 1]
    BY <2>1, ConcatProperties
  <2>3. Len(s) \in Nat
    BY LenProperties
  <2>. QED
    BY <2>2, <2>3
<1>2. \A i \in 1 .. Len(t) : i = 1 \/ (i - 1 \in 1 .. Len(s) /\ t[i] = s[i - 1])
  BY <1>1
<1>. HIDE DEF t
<1>3. \A i \in 1 .. Len(s) : After(t, i + 1) = After(s, i)
  BY <1>1 DEF After
<1>4. After(t, 1) = n /\ After(t, Len(t) + 1) = NULL /\ After(s, Len(s) + 1) = NULL
  BY <1>1 DEF After
<1>5. \A i \in 1 .. Len(t) : t[i] \in Linked'
  BY <1>1, <1>2 DEF Chain
<1>6. \A i, j \in 1 .. Len(t) : t[i] = t[j] => i = j
  <2>. TAKE i, j \in 1 .. Len(t)
  <2>1. \A k \in 1 .. Len(s) : s[k] # n
    BY DEF Chain
  <2>2. i # 1 /\ j # 1 /\ t[i] = t[j] => i - 1 = j - 1
    BY <1>2 DEF Chain
  <2>3. i # 1 => t[i] # n
    BY <1>2, <2>1
  <2>4. j # 1 => t[j] # n
    BY <1>2, <2>1
  <2>. QED
    BY <1>1, <2>2, <2>3, <2>4
<1>7. \A i \in 1 .. Len(t) : next'[t[i]].ptr = After(t, i + 1)
  <2>. TAKE i \in 1 .. Len(t)
  <2>1. CASE i = 1
    <3>1. After(t, 2) = After(s, 1)
      BY <1>1 DEF After
    <3>. QED
      BY <2>1, <3>1, <1>1 DEF Chain
  <2>2. CASE i # 1
    <3>1. i - 1 \in 1 .. Len(s) /\ t[i] = s[i - 1] /\ After(t, i + 1) = After(s, i)
      BY <2>2, <1>1, <1>2 DEF After
    <3>2. next[s[i - 1]].ptr = After(s, i - 1 + 1) /\ i - 1 + 1 = i
      BY <3>1 DEF Chain
    <3>. QED
      BY <3>1, <3>2
  <2>. QED
    BY <2>1, <2>2
<1>. QED
  BY <1>1, <1>4, <1>5, <1>6, <1>7 DEF Chain, t

LEMMA ChainPop ==
  ASSUME NEW s \in Seq(Nodes), Chain(s), head.ptr \in Nodes,
         Linked' = Linked \ {head.ptr}, head'.ptr = next[head.ptr].ptr, next' = next
  PROVE  s # <<>> /\ s[1] = head.ptr /\ Tail(s) \in Seq(Nodes) /\ Chain(Tail(s))'
<1>. DEFINE t == Tail(s)
<1>1. s # <<>> /\ Len(s) \in Nat \ {0} /\ s[1] = head.ptr
  <2>1. Len(s) \in Nat /\ head.ptr # NULL
    BY StackAssumption, LenProperties
  <2>. QED
    BY <2>1, EmptySeq DEF Chain, After
<1>2. /\ t \in Seq(Nodes) /\ Len(t) = Len(s) - 1
      /\ \A i \in 1 .. Len(t) : t[i] = s[i + 1]
  BY <1>1, HeadTailProperties
<1>. HIDE DEF t
<1>3. \A i \in 1 .. Len(t) : i + 1 \in 1 .. Len(s) /\ i + 1 # 1 /\ t[i] = s[i + 1]
  BY <1>1, <1>2
<1>4. \A i, j \in 1 .. Len(t) : t[i] = t[j] => i = j
  <2>. TAKE i, j \in 1 .. Len(t)
  <2>1. s[i + 1] = s[j + 1] => i + 1 = j + 1
    BY <1>3 DEF Chain
  <2>. QED
    BY <1>3, <2>1
<1>8. \A i \in 1 .. Len(t) : t[i] \in Linked'
  <2>. TAKE i \in 1 .. Len(t)
  <2>1. 1 \in 1 .. Len(s) /\ i + 1 \in 1 .. Len(s) /\ i + 1 # 1
    BY <1>1, <1>3
  <2>2. s[i + 1] \in Linked /\ s[i + 1] # s[1]
    BY <2>1 DEF Chain
  <2>. QED
    BY <1>1, <1>3, <2>2
<1>5. \A i \in 1 .. Len(s) : After(t, i) = After(s, i + 1)
  BY <1>1, <1>2 DEF After
<1>6. head'.ptr = After(t, 1)
  BY <1>1, <1>5 DEF Chain
<1>7. \A i \in 1 .. Len(t) : next'[t[i]].ptr = After(t, i + 1)
  <2>. TAKE i \in 1 .. Len(t)
  <2>1. i + 1 \in 1 .. Len(s) /\ t[i] = s[i + 1] /\ After(t, i + 1) = After(s, i + 1 + 1)
    BY <1>1, <1>2, <1>5
  <2>. QED
    BY <2>1 DEF Chain
<1>. QED
  BY <1>1, <1>2, <1>4, <1>6, <1>7, <1>8 DEF Chain, t

LEMMA ChainSame ==
  ASSUME NEW s \in Seq(Nodes), Chain(s),
         Linked' = Linked, head'.ptr = head.ptr, \A m \in Linked : next'[m] = next[m]
  PROVE  Chain(s)'
BY DEF Chain

\* The data of the nodes of the stack is left alone.
LEMMA DataKept ==
  ASSUME IInv, NEW p \in Procs, Step(p)
  PROVE  \A m \in Linked : data'[m] = data[m]
<1>1. CASE PushAllocate(p)
  BY <1>1 DEF PushAllocate, Linked, IInv, TypeOK
<1>2. CASE SwapData(p)
  BY <1>2 DEF SwapData, Linked, Holders, IInv, TypeOK
<1>3. CASE ~ PushAllocate(p) /\ ~ SwapData(p)
  BY <1>3 DEF Step, Push, Pop, PushLink, PushReload, PopLoad, IncreaseHeadCount, IncreaseReload,
        ReadNext, PopUnlink, PopLose, FoldCount, ReleaseRef, DeleteNode, PopReturn, shared
<1>. QED
  BY <1>1, <1>2, <1>3

LEMMA ChainStep ==
  ASSUME IInv, TypeOK', ChainExists, NEW p \in Procs, Step(p)
  PROVE  ChainExists'
<1>1. PICK s \in Seq(Nodes) : Chain(s)
  BY DEF ChainExists
<1>2. \E t \in Seq(Nodes) : Chain(t)'
  BY <1>1, StackStep, ChainPush, ChainPop, ChainSame
<1>. QED
  BY <1>2 DEF ChainExists

LEMMA ResultsStep ==
  ASSUME IInv, ResultsOK, NEW p \in Procs, Step(p)
  PROVE  ResultsOK'
<1>. USE DEF IInv, TypeOK
<1>1. \A q \in Procs \ {p} : pc'[q] = pc[q] /\ res'[q] = res[q]
  BY DEF Step, Push, Pop, PushAllocate, PushLink, PushReload, PopLoad, IncreaseHeadCount,
        IncreaseReload, ReadNext, PopUnlink, PopLose, SwapData, FoldCount, ReleaseRef, DeleteNode,
        PopReturn, Goto, local
<1>2. ASSUME SwapData(p) \/ FoldCount(p)
      PROVE  pc'[p] \in {"fold", "delete", "return"}
  BY <1>2 DEF SwapData, FoldCount, Goto
<1>3. ASSUME PopReturn(p) PROVE res'[p] = NULL
  BY <1>3 DEF PopReturn
<1>4. ASSUME DeleteNode(p)
      PROVE  res'[p] = NULL \/ pc'[p] \in {"fold", "delete", "return"}
  BY <1>4 DEF DeleteNode, Goto, local, ResultsOK
<1>5. ASSUME ~ (SwapData(p) \/ FoldCount(p) \/ PopReturn(p) \/ DeleteNode(p))
      PROVE  res'[p] = NULL
  <2>1. res' = res /\ pc[p] \notin {"fold", "delete", "return"}
    BY <1>5 DEF Step, Push, Pop, PushAllocate, PushLink, PushReload, PopLoad, IncreaseHeadCount,
          IncreaseReload, ReadNext, PopUnlink, PopLose, ReleaseRef, Pushing, Popping, Destroying,
          local
  <2>. QED
    BY <2>1 DEF ResultsOK
<1>. QED
  BY <1>1, <1>2, <1>3, <1>4, <1>5 DEF ResultsOK

----------------------------------------------------------------------------
(* What each step does to the two variables of AtomicStack. *)

\* The call of a thread that does not step is what it was: nobody touches the
\* data of the node that it is about to publish or has unlinked.
LEMMA OthersCalls ==
  ASSUME IInv, NEW p \in Procs, Step(p), NEW q \in Procs \ {p}
  PROVE  Call(q)' = Call(q)
<1>. USE DEF IInv, TypeOK
<1>1. pc'[q] = pc[q] /\ new_node'[q] = new_node[q] /\ ptr'[q] = ptr[q] /\ res'[q] = res[q]
  BY DEF Step, Push, Pop, PushAllocate, PushLink, PushReload, PopLoad, IncreaseHeadCount,
        IncreaseReload, ReadNext, PopUnlink, PopLose, SwapData, FoldCount, ReleaseRef, DeleteNode,
        PopReturn, Goto, local
<1>2. ASSUME PushAllocate(p)
      PROVE  /\ pc[q] = "push" => data'[new_node[q]] = data[new_node[q]]
             /\ pc[q] = "swap" => data'[ptr[q]] = data[ptr[q]]
  BY <1>2 DEF PushAllocate, LocalsOK, Using
<1>3. ASSUME SwapData(p)
      PROVE  /\ pc[q] = "push" => data'[new_node[q]] = data[new_node[q]]
             /\ pc[q] = "swap" => data'[ptr[q]] = data[ptr[q]]
  <2>1. pc[p] = "swap" /\ data' = [data EXCEPT ![ptr[p]] = NULL]
    BY <1>3 DEF SwapData
  <2>2. pc[q] = "push" => new_node[q] \in Nodes /\ new_node[q] # ptr[p]
    BY <2>1, UsedNodes DEF Using
  <2>3. pc[q] = "swap" => ptr[q] \in Nodes /\ ptr[q] # ptr[p]
    BY <2>1, UsedNodes DEF Using, ReclaimOK
  <2>. QED
    BY <2>1, <2>2, <2>3
<1>4. ASSUME ~ PushAllocate(p), ~ SwapData(p) PROVE data' = data
  BY <1>4 DEF Step, Push, Pop, PushLink, PushReload, PopLoad, IncreaseHeadCount,
        IncreaseReload, ReadNext, PopUnlink, PopLose, FoldCount, ReleaseRef, DeleteNode,
        PopReturn, shared
<1>5. /\ pc[q] = "push" => data'[new_node[q]] = data[new_node[q]]
      /\ pc[q] = "swap" => data'[ptr[q]] = data[ptr[q]]
  BY <1>2, <1>3, <1>4
<1>. QED
  BY <1>1, <1>5 DEF Call

LEMMA CallBecomes ==
  ASSUME IInv, NEW p \in Procs, Step(p)
  PROVE  \A c : Call(p)' = c => Abstract!Becomes(p, c)
<1>1. \A q \in Procs \ {p} : Call(q)' = Call(q)
  BY OthersCalls
<1>. QED
  BY <1>1 DEF Abstract!Becomes

\* Which steps move the top of the stack, and how.
LEMMA SameStack ==
  ASSUME IInv, TypeOK', NEW p \in Procs, Step(p), ~ PushLink(p), ~ PopUnlink(p)
  PROVE  Linked' = Linked /\ head'.ptr = head.ptr /\ \A m \in Linked : next'[m] = next[m]
<1>. USE DEF IInv, TypeOK
<1>1. head'.ptr = head.ptr
  BY DEF Step, Push, Pop, PushAllocate, PushReload, PopLoad, IncreaseHeadCount, IncreaseReload,
        ReadNext, PopLose, SwapData, FoldCount, ReleaseRef, DeleteNode, PopReturn, shared,
        counted_node_ptr
<1>2. head.ptr # NULL => head.ptr \in Linked /\ next[head.ptr].ptr # head.ptr
  BY StackAssumption DEF ChainOK
<1>. QED
  BY <1>1, <1>2, StackStep, StackAssumption

LEMMA PushedStack ==
  ASSUME IInv, TypeOK', NEW p \in Procs, PushLink(p)
  PROVE  LET n == new_node[p]
         IN  /\ n \in Nodes /\ n \notin Linked /\ Linked' = Linked \cup {n}
             /\ head'.ptr = n /\ next' = next /\ next[n].ptr = head.ptr
<1>. USE DEF IInv, TypeOK
<1>1. head'.ptr = new_node[p] /\ pc[p] = "push"
  BY DEF PushLink
<1>2. new_node[p] \in Nodes /\ new_node[p] \notin Linked
  BY <1>1, UsedNodes DEF Linked
<1>3. head.ptr # NULL => head.ptr \in Linked /\ (next[head.ptr].ptr # NULL => next[head.ptr].ptr \in Linked)
  BY StackAssumption DEF ChainOK
<1>4. Step(p)
  BY DEF Step, Push
<1>. QED
  BY <1>1, <1>2, <1>3, <1>4, StackStep, StackAssumption

LEMMA PoppedStack ==
  ASSUME IInv, TypeOK', NEW p \in Procs, PopUnlink(p)
  PROVE  /\ head.ptr = ptr[p] /\ ptr[p] \in Nodes /\ Linked' = Linked \ {head.ptr}
         /\ head'.ptr = next[head.ptr].ptr /\ next' = next
<1>. USE DEF IInv, TypeOK
<1>1. pc[p] = "unlink" /\ head.ptr = ptr[p] /\ head' = next[ptr[p]]
  BY DEF PopUnlink, HeadIs, LocalsOK
<1>2. ptr[p] \in Nodes /\ ptr[p] # NULL
  BY <1>1, UsedNodes DEF Using
<1>3. /\ head.ptr \in Linked
      /\ next[head.ptr].ptr # NULL => next[head.ptr].ptr \in Linked /\ next[head.ptr].ptr # head.ptr
  BY <1>1, <1>2 DEF ChainOK
<1>4. Step(p)
  BY DEF Step, Pop
<1>. QED
  BY <1>1, <1>2, <1>3, <1>4, StackStep, StackAssumption

LEMMA SameContents ==
  ASSUME IInv, TypeOK', ChainExists, NEW p \in Procs, Step(p), ~ PushLink(p), ~ PopUnlink(p)
  PROVE  Contents' = Contents
<1>1. PICK s \in Seq(Nodes) : Chain(s)
  BY DEF ChainExists
<1>2. Chain(s)'
  BY <1>1, SameStack, ChainSame
<1>3. Contents = Items(s) /\ Contents' = Items(s)'
  BY <1>1, <1>2, ContentsIs, ContentsIsNext
<1>4. Items(s)' = Items(s)
  BY <1>1, DataKept DEF Items, Chain
<1>. QED
  BY <1>3, <1>4

LEMMA PushedContents ==
  ASSUME IInv, TypeOK', ChainExists, NEW p \in Procs, PushLink(p)
  PROVE  Contents' = <<data[new_node[p]]>> \o Contents
<1>. PICK n : n = new_node[p]
  OBVIOUS
<1>1. PICK s \in Seq(Nodes) : Chain(s)
  BY DEF ChainExists
<1>. DEFINE t == <<n>> \o s
<1>2. n \in Nodes /\ t \in Seq(Nodes) /\ Chain(t)'
  BY <1>1, PushedStack, ChainPush
<1>3. Contents = Items(s) /\ Contents' = Items(t)'
  BY <1>1, <1>2, ContentsIs, ContentsIsNext
<1>4. data' = data
  BY DEF PushLink
<1>5. Items(t)' = [i \in 1 .. Len(t) |-> data[t[i]]]
  BY <1>4 DEF Items
<1>6. /\ Len(s) \in Nat /\ Len(t) = Len(s) + 1
      /\ t[1] = n /\ \A i \in 2 .. Len(t) : t[i] = s[i - 1] /\ i - 1 \in 1 .. Len(s)
  BY <1>2
<1>. DEFINE u == Items(s)
<1>7. Len(u) = Len(s) /\ \A i \in 1 .. Len(s) : u[i] = data[s[i]]
  BY <1>6 DEF Items
<1>8. <<data[n]>> \o u = [i \in 1 .. Len(s) + 1 |-> IF i = 1 THEN data[n] ELSE u[i - 1]]
  BY <1>6, <1>7
<1>. HIDE DEF t, u
<1>9. \A i \in 1 .. Len(t) : data[t[i]] = IF i = 1 THEN data[n] ELSE u[i - 1]
  BY <1>6, <1>7
<1>. QED
  BY <1>3, <1>5, <1>6, <1>8, <1>9 DEF u

LEMMA PoppedContents ==
  ASSUME IInv, TypeOK', ChainExists, NEW p \in Procs, PopUnlink(p)
  PROVE  /\ Contents # <<>>
         /\ Head(Contents) = data[ptr[p]]
         /\ Contents' = Tail(Contents)
<1>1. PICK s \in Seq(Nodes) : Chain(s)
  BY DEF ChainExists
<1>. DEFINE t == Tail(s)
<1>2. s # <<>> /\ s[1] = ptr[p] /\ t \in Seq(Nodes) /\ Chain(t)'
  BY <1>1, PoppedStack, ChainPop
<1>3. Contents = Items(s) /\ Contents' = Items(t)'
  BY <1>1, <1>2, ContentsIs, ContentsIsNext
<1>4. data' = data
  BY DEF PopUnlink
<1>5. Items(t)' = [i \in 1 .. Len(t) |-> data[t[i]]]
  BY <1>4 DEF Items
<1>6. /\ Len(s) \in Nat \ {0} /\ Len(t) = Len(s) - 1
      /\ \A i \in 1 .. Len(t) : t[i] = s[i + 1]
  BY <1>2
<1>. DEFINE u == Items(s)
<1>7. Len(u) = Len(s) /\ \A i \in 1 .. Len(s) : u[i] = data[s[i]]
  BY <1>6 DEF Items
<1>. QED
  BY <1>2, <1>3, <1>5, <1>6, <1>7

LEMMA EmptyContents ==
  ASSUME ChainExists, head.ptr = NULL
  PROVE  Contents = <<>>
<1>1. PICK s \in Seq(Nodes) : Chain(s)
  BY DEF ChainExists
<1>2. Len(s) = 0
  <2>1. Len(s) \in Nat /\ \A i \in 1 .. Len(s) : s[i] \in Nodes
    BY ElementOfSeq, LenProperties
  <2>2. CASE 1 \in 1 .. Len(s)
    BY <1>1, <2>1, <2>2, StackAssumption DEF Chain, After
  <2>. QED
    BY <2>1, <2>2
<1>3. Contents = Items(s)
  BY <1>1, ContentsIs
<1>. QED
  BY <1>2, <1>3 DEF Items

----------------------------------------------------------------------------
\* The call of the thread that steps, before and after.
LEMMA OwnCall ==
  ASSUME IInv, ResultsOK, NEW p \in Procs, Step(p)
  PROVE  /\ PushAllocate(p) => \E v \in Values :
              Call(p) = Abstract!Idle /\ Call(p)' = Abstract!Pushing(v)
         /\ PushLink(p) =>
              Call(p) = Abstract!Pushing(data[new_node[p]]) /\ Call(p)' = Abstract!Idle
         /\ PopLoad(p) => Call(p) = Abstract!Idle /\ Call(p)' = Abstract!Popping
         /\ IncreaseHeadCount(p) /\ head.ptr = NULL =>
              Call(p) = Abstract!Popping /\ Call(p)' = Abstract!Popped(NULL)
         /\ PopUnlink(p) =>
              Call(p) = Abstract!Popping /\ Call(p)' = Abstract!Popped(data[ptr[p]])
         /\ PopReturn(p) => Call(p) = Abstract!Popped(res[p]) /\ Call(p)' = Abstract!Idle
         /\ ~ PushAllocate(p) /\ ~ PushLink(p) /\ ~ PopLoad(p) /\ ~ PopUnlink(p) /\ ~ PopReturn(p)
            /\ ~ (IncreaseHeadCount(p) /\ head.ptr = NULL) => Call(p)' = Call(p)
<1>. USE DEF IInv, TypeOK, Goto, shared, local,
         Abstract!Idle, Abstract!Pushing, Abstract!Popping, Abstract!Popped
<1>1. ASSUME PushAllocate(p)
      PROVE  \E v \in Values : Call(p) = Abstract!Idle /\ Call(p)' = Abstract!Pushing(v)
  <2>1. PICK n \in Nodes \ heap, v \in Values :
          data' = [data EXCEPT ![n] = v] /\ new_node' = [new_node EXCEPT ![p] = n]
    BY <1>1 DEF PushAllocate
  <2>2. data'[new_node'[p]] = v /\ pc[p] = "idle" /\ pc'[p] = "push"
    BY <1>1, <2>1 DEF PushAllocate, Pushing
  <2>. QED
    BY <2>2 DEF Call
<1>2. ASSUME PushLink(p)
      PROVE  Call(p) = Abstract!Pushing(data[new_node[p]]) /\ Call(p)' = Abstract!Idle
  BY <1>2 DEF PushLink, Call
<1>3. ASSUME PopLoad(p) PROVE Call(p) = Abstract!Idle /\ Call(p)' = Abstract!Popping
  BY <1>3 DEF PopLoad, Popping, Destroying, Call
<1>4. ASSUME IncreaseHeadCount(p), head.ptr = NULL
      PROVE  Call(p) = Abstract!Popping /\ Call(p)' = Abstract!Popped(NULL)
  <2>1. pc[p] = "increase" /\ pc'[p] = "return" /\ res' = res
    BY <1>4 DEF IncreaseHeadCount
  <2>. QED
    BY <2>1 DEF Call, ResultsOK
<1>5. ASSUME PopUnlink(p)
      PROVE  Call(p) = Abstract!Popping /\ Call(p)' = Abstract!Popped(data[ptr[p]])
  BY <1>5 DEF PopUnlink, Call
<1>6. ASSUME PopReturn(p) PROVE Call(p) = Abstract!Popped(res[p]) /\ Call(p)' = Abstract!Idle
  BY <1>6 DEF PopReturn, Call
<1>7. ASSUME PushReload(p) PROVE Call(p)' = Call(p)
  BY <1>7 DEF PushReload, Call
<1>8. ASSUME IncreaseHeadCount(p), head.ptr # NULL PROVE Call(p)' = Call(p)
  <2>1. pc[p] = "increase" /\ pc'[p] = "next"
    BY <1>8 DEF IncreaseHeadCount
  <2>. QED
    BY <2>1 DEF Call
<1>9. ASSUME IncreaseReload(p) \/ ReadNext(p) \/ PopLose(p) \/ ReleaseRef(p)
      PROVE  Call(p)' = Call(p)
  <2>1. /\ pc[p] \in {"increase", "next", "unlink", "release"}
        /\ pc'[p] \in {"increase", "next", "unlink", "release", "delete_retry"}
    BY <1>9 DEF IncreaseReload, ReadNext, PopLose, ReleaseRef
  <2>. QED
    BY <2>1 DEF Call
<1>10. ASSUME SwapData(p) PROVE Call(p)' = Call(p)
  <2>1. pc[p] = "swap" /\ pc'[p] = "fold" /\ res'[p] = data[ptr[p]]
    BY <1>10 DEF SwapData
  <2>. QED
    BY <2>1 DEF Call
<1>11. ASSUME FoldCount(p) PROVE Call(p)' = Call(p)
  <2>1. pc[p] = "fold" /\ pc'[p] \in {"delete", "return"} /\ res' = res
    BY <1>11 DEF FoldCount
  <2>. QED
    BY <2>1 DEF Call
<1>12. ASSUME DeleteNode(p) PROVE Call(p)' = Call(p)
  <2>1. res' = res /\ \/ pc[p] = "delete" /\ pc'[p] = "return"
                      \/ pc[p] = "delete_retry" /\ pc'[p] = "increase"
    BY <1>12 DEF DeleteNode
  <2>. QED
    BY <2>1 DEF Call
<1>. HIDE DEF IInv, TypeOK, Goto, shared, local,
          Abstract!Idle, Abstract!Pushing, Abstract!Popping, Abstract!Popped
<1>. QED
  BY <1>1, <1>2, <1>3, <1>4, <1>5, <1>6, <1>7, <1>8, <1>9, <1>10, <1>11, <1>12 DEF Step, Push, Pop

LEMMA RefinementStep ==
  ASSUME IInv, TypeOK', ChainExists, ResultsOK, NEW p \in Procs, Step(p)
  PROVE  [Abstract!Next]_(Abstract!vars)
<1>. DEFINE call == [q \in Procs |-> Call(q)]
<1>1. call[p] = Call(p)
  OBVIOUS
<1>2. ASSUME PushAllocate(p) PROVE Abstract!Next
  <2>1. PICK v \in Values : Call(p) = Abstract!Idle /\ Call(p)' = Abstract!Pushing(v)
    BY <1>2, OwnCall
  <2>2. Contents' = Contents
    BY <1>2, SameContents DEF PushAllocate, Pushing, PushLink, PopUnlink
  <2>3. Abstract!Becomes(p, Abstract!Pushing(v))
    BY <2>1, CallBecomes
  <2>4. Abstract!CallPush(p, v)
    BY <1>1, <2>1, <2>2, <2>3 DEF Abstract!CallPush
  <2>. QED
    BY <2>4 DEF Abstract!Next
<1>3. ASSUME PushLink(p) PROVE Abstract!Next
  <2>. PICK v : v = data[new_node[p]]
    OBVIOUS
  <2>1. Call(p) = Abstract!Pushing(v) /\ Call(p)' = Abstract!Idle
    BY <1>3, OwnCall
  <2>2. Contents' = <<v>> \o Contents
    BY <1>3, PushedContents
  <2>3. Abstract!Becomes(p, Abstract!Idle)
    BY <2>1, CallBecomes
  <2>4. v \in Values
    BY <1>3 DEF IInv, TypeOK, LocalsOK, PushLink
  <2>5. Abstract!Push(p, v)
    BY <1>1, <2>1, <2>2, <2>3 DEF Abstract!Push
  <2>. QED
    BY <2>4, <2>5 DEF Abstract!Next
<1>4. ASSUME PopLoad(p) PROVE Abstract!Next
  <2>1. Call(p) = Abstract!Idle /\ Call(p)' = Abstract!Popping
    BY <1>4, OwnCall
  <2>2. Contents' = Contents
    BY <1>4, SameContents DEF PopLoad, Popping, Destroying, PushLink, PopUnlink
  <2>3. Abstract!Becomes(p, Abstract!Popping)
    BY <2>1, CallBecomes
  <2>4. Abstract!CallPop(p)
    BY <1>1, <2>1, <2>2, <2>3 DEF Abstract!CallPop
  <2>. QED
    BY <2>4 DEF Abstract!Next
<1>5. ASSUME IncreaseHeadCount(p), head.ptr = NULL PROVE Abstract!Next
  <2>1. Call(p) = Abstract!Popping /\ Call(p)' = Abstract!Popped(NULL)
    BY <1>5, OwnCall
  <2>2. Contents' = Contents
    BY <1>5, SameContents DEF IncreaseHeadCount, PushLink, PopUnlink
  <2>3. Contents = <<>>
    BY <1>5, EmptyContents
  <2>4. Abstract!Becomes(p, Abstract!Popped(NULL))
    BY <2>1, CallBecomes
  <2>5. Abstract!PopEmpty(p)
    BY <1>1, <2>1, <2>2, <2>3, <2>4 DEF Abstract!PopEmpty
  <2>. QED
    BY <2>5 DEF Abstract!Next
<1>6. ASSUME PopUnlink(p) PROVE Abstract!Next
  <2>1. Call(p) = Abstract!Popping /\ Call(p)' = Abstract!Popped(data[ptr[p]])
    BY <1>6, OwnCall
  <2>2. /\ Contents # <<>>
        /\ Head(Contents) = data[ptr[p]]
        /\ Contents' = Tail(Contents)
    BY <1>6, PoppedContents
  <2>3. Abstract!Becomes(p, Abstract!Popped(Head(Contents)))
    BY <2>1, <2>2, CallBecomes
  <2>4. Abstract!PopTop(p)
    BY <1>1, <2>1, <2>2, <2>3 DEF Abstract!PopTop
  <2>. QED
    BY <2>4 DEF Abstract!Next
<1>7. ASSUME PopReturn(p) PROVE Abstract!Next
  <2>1. Call(p) = Abstract!Popped(res[p]) /\ Call(p)' = Abstract!Idle
    BY <1>7, OwnCall
  <2>2. Contents' = Contents
    BY <1>7, SameContents DEF PopReturn, PushLink, PopUnlink
  <2>3. Abstract!Becomes(p, Abstract!Idle)
    BY <2>1, CallBecomes
  <2>4. res[p] \in Values \cup {NULL}
    BY DEF IInv, TypeOK
  <2>5. Abstract!ReturnPop(p)
    BY <1>1, <2>1, <2>2, <2>3, <2>4 DEF Abstract!ReturnPop
  <2>. QED
    BY <2>5 DEF Abstract!Next
<1>8. ASSUME ~ PushAllocate(p), ~ PushLink(p), ~ PopLoad(p), ~ PopUnlink(p), ~ PopReturn(p),
             ~ (IncreaseHeadCount(p) /\ head.ptr = NULL)
      PROVE  UNCHANGED Abstract!vars
  <2>1. Call(p)' = Call(p)
    BY <1>8, OwnCall
  <2>2. Contents' = Contents
    BY <1>8, SameContents
  <2>3. \A q \in Procs : Call(q)' = Call(q)
    BY <2>1, OthersCalls
  <2>4. call' = call
    BY <2>3
  <2>. QED
    BY <2>2, <2>4 DEF Abstract!vars
<1>. QED
  BY <1>2, <1>3, <1>4, <1>5, <1>6, <1>7, <1>8

\* push and pop of lock_free_stack each take effect at one instant (the
\* compare_exchange of line 55, of line 71, or of line 35 on a null head):
\* whatever the threads interleave, what their callers see is a stack.
THEOREM Linearizes == Spec => Linearizable
<1>1. Init => ChainExists /\ ResultsOK /\ Abstract!Init
  <2>. SUFFICES ASSUME Init PROVE ChainExists /\ ResultsOK /\ Abstract!Init
    OBVIOUS
  <2>1. <<>> \in Seq(Nodes) /\ Chain(<<>>)
    BY DEF Init, Chain, After, NullPtr
  <2>2. Contents = <<>>
    BY <2>1, EmptyContents DEF Init, NullPtr, ChainExists
  <2>3. [p \in Procs |-> Call(p)] = [p \in Procs |-> Abstract!Idle]
    BY DEF Init, Call, Abstract!Idle
  <2>. QED
    BY <2>1, <2>2, <2>3 DEF Init, ChainExists, ResultsOK, Abstract!Init
<1>2. IInv /\ IInv' /\ ChainExists /\ ResultsOK /\ [Next]_vars
      => ChainExists' /\ ResultsOK' /\ [Abstract!Next]_(Abstract!vars)
  <2>. SUFFICES ASSUME IInv, IInv', ChainExists, ResultsOK, [Next]_vars
                PROVE  ChainExists' /\ ResultsOK' /\ [Abstract!Next]_(Abstract!vars)
    OBVIOUS
  <2>1. CASE UNCHANGED vars
    <3>. USE <2>1 DEF vars, shared, local
    <3>1. PICK s \in Seq(Nodes) : Chain(s)
      BY DEF ChainExists
    <3>2. Chain(s)'
      BY <3>1 DEF Chain, After, Linked, Private, Holders
    <3>3. Items(s)' = Items(s)
      BY DEF Items
    <3>4. Contents' = Contents
      BY <3>1, <3>2, <3>3, ContentsIs, ContentsIsNext
    <3>5. \A q \in Procs : Call(q)' = Call(q)
      BY DEF Call
    <3>. QED
      BY <3>2, <3>4, <3>5 DEF ChainExists, ResultsOK, Abstract!vars
  <2>2. ASSUME NEW p \in Procs, Step(p)
        PROVE  ChainExists' /\ ResultsOK' /\ [Abstract!Next]_(Abstract!vars)
    BY <2>2, ChainStep, ResultsStep, RefinementStep DEF IInv
  <2>. QED
    BY <2>1, <2>2 DEF Next, Terminated, OutOfMemory, Overflow
<1>. QED
  BY <1>1, <1>2, Invariance, PTL DEF Spec, Linearizable, Abstract!Spec
=============================================================================
