--------------------------- MODULE LockFreeStack ---------------------------
(***************************************************************************)
(* lock_free_stack (include/threadsafe_lockfree_stack.h): a linked stack   *)
(* whose nodes are reclaimed by split reference counts.  The pointer that  *)
(* links a node carries an external count, which a popper increments       *)
(* before it looks at the node; the node carries an internal count, which  *)
(* poppers that lose the race decrement.  The popper that unlinks the node *)
(* folds the first count into the second, and whoever brings the sum to    *)
(* zero deletes the node.                                                  *)
(*                                                                         *)
(* One action is one access to memory that other threads can reach, with   *)
(* the thread-local code around it.  Every atomic access of the source is  *)
(* seq_cst, so interleaving the accesses is what the build can do.  A      *)
(* compare_exchange that fails spuriously changes nothing and is a         *)
(* stuttering step.                                                        *)
(***************************************************************************)
EXTENDS Integers, FiniteSets

CONSTANTS
  Pushers,    (* threads that run push_items                               *)
  Poppers,    (* threads that run pop_items                                *)
  Main,       (* the thread that joins them and destroys the stack         *)
  Nodes,      (* the addresses operator new can return for a node          *)
  Values,     (* the data pushed                                           *)
  NULL,       (* nullptr, of a node and of a shared_ptr                    *)
  Size,       (* Size[t]: how many items t pushes or pops                  *)
  IntMax,     (* the largest int                                           *)
  Suspended   (* threads that may be paused forever, at any point          *)

Threads == Pushers \cup Poppers
Procs   == Threads \cup {Main}

ASSUME StackAssumption ==
  /\ IsFiniteSet(Threads) /\ IsFiniteSet(Nodes)
  /\ Pushers \cap Poppers = {}
  /\ Main \notin Threads
  /\ IntMax \in Nat
  /\ NULL \notin Nodes
  /\ NULL \notin Values
  /\ Size \in [Threads -> Nat]
  /\ Suspended \subseteq Threads

VARIABLES
  head,            (* std::atomic<counted_node_ptr>                        *)
  heap,            (* the nodes that are allocated                         *)
  data,            (* node::data                                           *)
  internal_count,  (* node::internal_count                                 *)
  next,            (* node::next                                           *)
  pc,              (* where each thread is                                 *)
  new_node,        (* push: new_node.ptr                                   *)
  old_head,        (* pop: old_head                                        *)
  ptr,             (* pop: ptr                                             *)
  ptr_next,        (* pop: ptr->next, as the compare_exchange is passed it *)
  res,             (* pop: res                                             *)
  todo,            (* items each thread still has to push or pop           *)
  destroyed        (* ~lock_free_stack has returned                        *)

shared == <<head, heap, data, internal_count, next>>
local  == <<new_node, old_head, ptr, ptr_next, res>>
client == <<todo, destroyed>>
vars   == <<shared, pc, local, client>>

counted_node_ptr == [external_count : Int, ptr : Nodes \cup {NULL}]
NullPtr          == [external_count |-> 0, ptr |-> NULL]

Goto(p, l) == pc' = [pc EXCEPT ![p] = l]

\* Mutant: compare the pointers alone, as a stack without counts would.
HeadIsPtr(expected) == head.ptr = expected.ptr

\* What compare_exchange compares with its expected value: both fields.
HeadIs(expected) == head = expected

\* stack is a namespace-scope object, so head starts zero-initialised.
Init ==
  /\ head = NullPtr
  /\ heap = {}
  /\ data = [n \in Nodes |-> NULL]
  /\ internal_count = [n \in Nodes |-> 0]
  /\ next = [n \in Nodes |-> NullPtr]
  /\ pc = [p \in Procs |-> "idle"]
  /\ new_node = [p \in Procs |-> NULL]
  /\ old_head = [p \in Procs |-> NullPtr]
  /\ ptr = [p \in Procs |-> NULL]
  /\ ptr_next = [p \in Procs |-> NullPtr]
  /\ res = [p \in Procs |-> NULL]
  /\ todo = Size
  /\ destroyed = FALSE

----------------------------------------------------------------------------
(* The callers.  A thread pushes or pops its items one after the other;    *)
(* the destructor pops until the stack is empty, after the threads are     *)
(* joined.                                                                 *)

Finished(t) == pc[t] = "idle" /\ todo[t] = 0

\* Mutant: i <= size in push_items.
PushingOnceMore(t) == t \in Pushers /\ pc[t] = "idle" /\ todo[t] >= 0

Pushing(t) == t \in Pushers /\ pc[t] = "idle" /\ todo[t] > 0

Popping(t) == t \in Poppers /\ pc[t] = "idle" /\ todo[t] > 0

Destroying(p) ==
  /\ p = Main
  /\ pc[p] = "idle"
  /\ ~destroyed
  /\ \A t \in Threads : Finished(t)

----------------------------------------------------------------------------
(* push *)

\* new node(data) and the first head.load(): the node is still private.
PushAllocate(t) ==
  /\ Pushing(t)
  /\ \E n \in Nodes \ heap, v \in Values :
       /\ heap' = heap \cup {n}
       /\ data' = [data EXCEPT ![n] = v]
       /\ internal_count' = [internal_count EXCEPT ![n] = 0]
       /\ next' = [next EXCEPT ![n] = head]
       /\ new_node' = [new_node EXCEPT ![t] = n]
  /\ Goto(t, "push")
  /\ UNCHANGED <<head, old_head, ptr, ptr_next, res, client>>

\* The compare_exchange_weak of push: publish the node, or reload its next.
PushLink(t) ==
  /\ pc[t] = "push"
  /\ HeadIs(next[new_node[t]])
  /\ head' = [external_count |-> 1, ptr |-> new_node[t]]
  /\ new_node' = [new_node EXCEPT ![t] = NULL]
  /\ todo' = [todo EXCEPT ![t] = @ - 1]
  /\ Goto(t, "idle")
  /\ UNCHANGED <<heap, data, internal_count, next, old_head, ptr, ptr_next, res, destroyed>>

PushReload(t) ==
  /\ pc[t] = "push"
  /\ ~HeadIs(next[new_node[t]])
  /\ next' = [next EXCEPT ![new_node[t]] = head]
  /\ UNCHANGED <<head, heap, data, internal_count, pc, local, client>>

----------------------------------------------------------------------------
(* pop *)

PopLoad(p) ==
  /\ Popping(p) \/ Destroying(p)
  /\ old_head' = [old_head EXCEPT ![p] = head]
  /\ Goto(p, "increase")
  /\ UNCHANGED <<shared, new_node, ptr, ptr_next, res, client>>

\* increase_head_count.  The count is incremented even when head is null.
IncreaseHeadCount(p) ==
  /\ pc[p] = "increase"
  /\ HeadIs(old_head[p])
  /\ head.external_count < IntMax
  /\ head' = [head EXCEPT !.external_count = @ + 1]
  /\ old_head' = [old_head EXCEPT ![p] = head']
  /\ ptr' = [ptr EXCEPT ![p] = head.ptr]
  /\ Goto(p, IF head.ptr = NULL THEN "return" ELSE "next")
  /\ UNCHANGED <<heap, data, internal_count, next, new_node, ptr_next, res, client>>

\* Mutant: retry with the expected value of the first attempt.
IncreaseStale(p) == pc[p] = "increase" /\ ~HeadIs(old_head[p]) /\ UNCHANGED vars

IncreaseReload(p) ==
  /\ pc[p] = "increase"
  /\ ~HeadIs(old_head[p])
  /\ old_head' = [old_head EXCEPT ![p] = head]
  /\ UNCHANGED <<shared, pc, new_node, ptr, ptr_next, res, client>>

\* ptr->next is read before the compare_exchange it is an argument of.
ReadNext(p) ==
  /\ pc[p] = "next"
  /\ ptr_next' = [ptr_next EXCEPT ![p] = next[ptr[p]]]
  /\ Goto(p, "unlink")
  /\ UNCHANGED <<shared, new_node, old_head, ptr, res, client>>

\* head.compare_exchange_strong(old_head, ptr->next)
PopUnlink(p) ==
  /\ pc[p] = "unlink"
  /\ HeadIs(old_head[p])
  /\ head' = ptr_next[p]
  /\ ptr_next' = [ptr_next EXCEPT ![p] = NullPtr]
  /\ Goto(p, "swap")
  /\ UNCHANGED <<heap, data, internal_count, next, new_node, old_head, ptr, res, client>>

PopLose(p) ==
  /\ pc[p] = "unlink"
  /\ ~HeadIs(old_head[p])
  /\ old_head' = [old_head EXCEPT ![p] = head]
  /\ ptr_next' = [ptr_next EXCEPT ![p] = NullPtr]
  /\ Goto(p, "release")
  /\ UNCHANGED <<shared, new_node, ptr, res, client>>

\* res.swap(ptr->data): not atomic, and only the thread that unlinked does it.
SwapData(p) ==
  /\ pc[p] = "swap"
  /\ res' = [res EXCEPT ![p] = data[ptr[p]]]
  /\ data' = [data EXCEPT ![ptr[p]] = NULL]
  /\ Goto(p, "fold")
  /\ UNCHANGED <<head, heap, internal_count, next, new_node, old_head, ptr, ptr_next, client>>

\* Mutant: forget the popper's own reference.
CountIncreaseOffByOne(p) == old_head[p].external_count - 1

CountIncrease(p) == old_head[p].external_count - 2

\* Mutant: forget the sign.
LastAtFoldUnsigned(p) == internal_count[ptr[p]] = CountIncrease(p)

LastAtFold(p) == internal_count[ptr[p]] = -CountIncrease(p)

\* internal_count.fetch_add(count_increase) == -count_increase
FoldCount(p) ==
  /\ pc[p] = "fold"
  /\ internal_count' = [internal_count EXCEPT ![ptr[p]] = @ + CountIncrease(p)]
  /\ Goto(p, IF LastAtFold(p) THEN "delete" ELSE "return")
  /\ UNCHANGED <<head, heap, data, next, local, client>>

\* internal_count.fetch_sub(1) == 1
ReleaseRef(p) ==
  /\ pc[p] = "release"
  /\ internal_count' = [internal_count EXCEPT ![ptr[p]] = @ - 1]
  /\ Goto(p, IF internal_count[ptr[p]] = 1 THEN "delete_retry" ELSE "increase")
  /\ UNCHANGED <<head, heap, data, next, local, client>>

\* delete ptr, by the popper that unlinked the node or by the last loser.
DeleteNode(p) ==
  /\ pc[p] \in {"delete", "delete_retry"}
  /\ heap' = heap \ {ptr[p]}
  /\ Goto(p, IF pc[p] = "delete" THEN "return" ELSE "increase")
  /\ UNCHANGED <<head, data, internal_count, next, local, client>>

\* pop returns; the destructor's loop ends on the first empty result.
PopReturn(p) ==
  /\ pc[p] = "return"
  /\ old_head' = [old_head EXCEPT ![p] = NullPtr]
  /\ ptr' = [ptr EXCEPT ![p] = NULL]
  /\ res' = [res EXCEPT ![p] = NULL]
  /\ todo' = IF p \in Threads THEN [todo EXCEPT ![p] = @ - 1] ELSE todo
  /\ destroyed' = (p = Main /\ res[p] = NULL)
  /\ Goto(p, "idle")
  /\ UNCHANGED <<shared, new_node, ptr_next>>

----------------------------------------------------------------------------

Push(p) == PushAllocate(p) \/ PushLink(p) \/ PushReload(p)

Pop(p) ==
  \/ PopLoad(p) \/ IncreaseHeadCount(p) \/ IncreaseReload(p)
  \/ ReadNext(p) \/ PopUnlink(p) \/ PopLose(p) \/ SwapData(p) \/ FoldCount(p)
  \/ ReleaseRef(p) \/ DeleteNode(p) \/ PopReturn(p)

Step(p) == Push(p) \/ Pop(p)

\* Where the model stops short of what the program does next: operator new has
\* no address left and its bad_alloc, which nothing catches, ends the program;
\* or the next increment would overflow int, which is undefined.
OutOfMemory == (\E t \in Threads : Pushing(t)) /\ Nodes \subseteq heap /\ UNCHANGED vars

Overflow ==
  /\ \E p \in Procs : pc[p] = "increase" /\ HeadIs(old_head[p])
  /\ head.external_count = IntMax
  /\ UNCHANGED vars

\* The program has ended: every thread joined and the stack destroyed.
Terminated == destroyed /\ UNCHANGED vars

Next == (\E p \in Procs : Step(p)) \/ Terminated \/ OutOfMemory \/ Overflow

\* The scheduler runs every thread that is not suspended; the code has no
\* locks, so nothing else can hold a thread back.
Fairness == \A p \in Procs \ Suspended : WF_vars(Step(p))

Spec == Init /\ [][Next]_vars /\ Fairness
----------------------------------------------------------------------------
(* Properties. *)

Labels == {"idle", "push", "increase", "next", "unlink", "swap", "fold", "release",
           "delete", "delete_retry", "return"}

\* Every variable holds a value of its C++ type.
TypeOK ==
  /\ head \in counted_node_ptr
  /\ heap \subseteq Nodes
  /\ data \in [Nodes -> Values \cup {NULL}]
  /\ internal_count \in [Nodes -> Int]
  /\ next \in [Nodes -> counted_node_ptr]
  /\ pc \in [Procs -> Labels]
  /\ new_node \in [Procs -> Nodes \cup {NULL}]
  /\ old_head \in [Procs -> counted_node_ptr]
  /\ ptr \in [Procs -> Nodes \cup {NULL}]
  /\ ptr_next \in [Procs -> counted_node_ptr]
  /\ res \in [Procs -> Values \cup {NULL}]
  /\ todo \in [Threads -> Nat]
  /\ destroyed \in BOOLEAN

\* The threads whose increment of n's external count has not been given back.
Holders(n) == {p \in Procs : pc[p] \in {"next", "unlink", "swap", "fold", "release"}
                             /\ ptr[p] = n}

\* The threads that have decided to delete n.
Deleters(n) == {p \in Procs : pc[p] \in {"delete", "delete_retry"} /\ ptr[p] = n}

\* The nodes a pusher has allocated and not yet published.
Private == {new_node[p] : p \in {q \in Procs : pc[q] = "push"}}

\* The nodes that are in the stack: they hold data, and nobody has unlinked them.
Linked == {n \in heap \ Private : data[n] # NULL
                                  /\ \A p \in Holders(n) : pc[p] # "swap"}

\* The links that stand for a node of the stack.
Links == {head} \cup {next[m] : m \in Linked}

\* No thread reads or writes a node that has been deleted, no node is deleted
\* twice or while somebody still uses it, and no link of the stack dangles
\* (the calls of delete at lines 77 and 84, and every use of ptr before them).
MemorySafe ==
  /\ \A n \in Nodes : Holders(n) \cup Deleters(n) # {} => n \in heap
  /\ \A n \in Nodes : Deleters(n) # {} => /\ Cardinality(Deleters(n)) = 1
                                         /\ Holders(n) = {}
                                         /\ n \notin Linked \cup Private
  /\ \A l \in Links : l.ptr # NULL => l.ptr \in Linked

\* The split counts of a node always add up to the threads that hold it: in
\* the stack, external minus the link's own one plus internal; at the popper
\* that unlinked it, the same with its copy; afterwards, internal alone.
SplitCount ==
  /\ \A l \in Links : l.ptr # NULL =>
       l.external_count - 1 + internal_count[l.ptr] = Cardinality(Holders(l.ptr))
  /\ \A p \in Procs : pc[p] \in {"swap", "fold"} =>
       old_head[p].external_count - 1 + internal_count[ptr[p]]
         = Cardinality(Holders(ptr[p]))
  /\ \A n \in heap \ (Linked \cup Private) :
       (\A p \in Holders(n) : pc[p] \notin {"swap", "fold"}) =>
          internal_count[n] = Cardinality(Holders(n))

\* A node outlives its removal only while somebody holds it or is about to
\* delete it, and destroying the stack leaves no node behind.
NoLeak ==
  /\ \A n \in heap \ (Linked \cup Private) : Holders(n) \cup Deleters(n) # {}
  /\ destroyed => heap = {}

\* A thread suspended between the allocation and the linking of its node
\* keeps no other thread from finishing its operations; once all have
\* finished, the destructor's loop ends.
Progress ==
  /\ \A t \in Threads \ Suspended : <>Finished(t)
  /\ (\A t \in Threads : Finished(t)) ~> destroyed
=============================================================================
