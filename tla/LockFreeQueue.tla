--------------------------- MODULE LockFreeQueue ---------------------------
(***************************************************************************)
(* lock_free_queue (include/threadsafe_lockfree_queue_v2.h): a linked      *)
(* queue that always ends in a dummy node.  A push puts its data into the  *)
(* dummy, links a new dummy behind it and swings tail; a push that finds   *)
(* the data already there helps the other one to finish.  Two counted      *)
(* pointers lead to a node, tail and the link from before, each with its   *)
(* external count; the node keeps how many of the two are left             *)
(* (external_counters) and the balance of their users (internal_count).    *)
(*                                                                         *)
(* One action is one access to memory that other threads can reach, with   *)
(* the thread-local code around it; a read-modify-write loop is the step   *)
(* that succeeds and, where a failure changes anything, the one that does  *)
(* not.  All accesses are seq_cst.                                         *)
(***************************************************************************)
EXTENDS Integers, FiniteSets

CONSTANTS
  Pushers,    (* threads that run push_queue_item                          *)
  Poppers,    (* threads that run pop_queue_item                           *)
  Main,       (* the thread that joins them and destroys the queue         *)
  Nodes,      (* the addresses operator new can return for a node          *)
  Values,     (* the data pushed                                           *)
  NULL,       (* nullptr, of a node and of a T                             *)
  Size,       (* Size[t]: how many items t pushes or pops                  *)
  IntMax,     (* the largest external_count the model goes to              *)
  Modulus,    (* internal_count is an unsigned bit field: 2^30             *)
  Phased,     (* the poppers are started after the pushers are joined      *)
  Suspended   (* threads that may be paused forever, at any point          *)

Threads == Pushers \cup Poppers
Procs   == Threads \cup {Main}

ASSUME QueueAssumption ==
  /\ IsFiniteSet(Threads)
  /\ Pushers \cap Poppers = {}
  /\ Main \notin Threads
  /\ Nodes # {}
  /\ NULL \notin Nodes
  /\ NULL \notin Values
  /\ Size \in [Threads -> Nat]
  /\ IntMax \in Nat
  /\ Modulus \in Nat \ {0}
  /\ Cardinality(Procs) < Modulus      \* fewer threads than the field can count
  /\ Phased \in BOOLEAN
  /\ Suspended \subseteq Threads

VARIABLES
  head, tail,      (* std::atomic<counted_node_ptr>                        *)
  heap,            (* the nodes that are allocated                         *)
  data,            (* node::data                                           *)
  count,           (* node::count                                          *)
  next,            (* node::next                                           *)
  pc,              (* where each thread is                                 *)
  cont,            (* where it goes on once it has let go of its node      *)
  old,             (* push: old_tail; pop: old_head                        *)
  ptr,             (* the node it holds a reference to                     *)
  new_node,        (* push: the node new_next owns                         *)
  new_tail,        (* set_new_tail: its second argument                    *)
  val,             (* push: *new_data; pop: *res                           *)
  todo,            (* items each thread still has to push or pop           *)
  destroyed        (* ~lock_free_queue has returned                        *)

links  == <<head, tail>>
nodes  == <<heap, data, count, next>>
push   == <<new_node, new_tail>>
client == <<todo, destroyed>>
vars   == <<links, nodes, pc, cont, old, ptr, push, val, client>>

counted_node_ptr == [external_count : Nat, ptr : Nodes \cup {NULL}]
NullPtr          == [external_count |-> 0, ptr |-> NULL]
Link(n)          == [external_count |-> 1, ptr |-> n]

node_counter == [internal_count : 0 .. Modulus - 1, external_counters : 0 .. 3]

\* Mutant: a node has been linked once only.
NewCountOne == [internal_count |-> 0, external_counters |-> 1]

NewCount == [internal_count |-> 0, external_counters |-> 2]

Unused   == [internal_count |-> 0, external_counters |-> 0]

Crashed == \E p \in Procs : pc[p] = "crashed"

At(p, l)   == pc[p] = l /\ ~Crashed
Goto(p, l) == pc' = [pc EXCEPT ![p] = l]

\* The constructor has made the first dummy node.
Init ==
  \E n \in Nodes :
    /\ head = Link(n)
    /\ tail = Link(n)
    /\ heap = {n}
    /\ data = [m \in Nodes |-> NULL]
    /\ count = [m \in Nodes |-> NewCount]
    /\ next = [m \in Nodes |-> NullPtr]
    /\ pc = [p \in Procs |-> "idle"]
    /\ cont = [p \in Procs |-> "return"]
    /\ old = [p \in Procs |-> NullPtr]
    /\ ptr = [p \in Procs |-> NULL]
    /\ new_node = [p \in Procs |-> NULL]
    /\ new_tail = [p \in Procs |-> NullPtr]
    /\ val = [p \in Procs |-> NULL]
    /\ todo = Size
    /\ destroyed = FALSE

\* new node, by thread p for its new_next.
NewNode(p) ==
  \E n \in Nodes \ heap :
    /\ heap' = heap \cup {n}
    /\ data' = [data EXCEPT ![n] = NULL]
    /\ count' = [count EXCEPT ![n] = NewCount]
    /\ new_node' = [new_node EXCEPT ![p] = n]

----------------------------------------------------------------------------
(* The callers. *)

Finished(t) == pc[t] = "idle" /\ todo[t] = 0

\* Mutant: i <= size in push_queue_item.
PushingOnceMore(t) == t \in Pushers /\ At(t, "idle") /\ todo[t] >= 0

Pushing(t) == t \in Pushers /\ At(t, "idle") /\ todo[t] > 0

\* Mutant: the poppers are started without joining the pushers.
PoppingUnjoined(t) == t \in Poppers /\ At(t, "idle") /\ todo[t] > 0

Popping(t) ==
  /\ t \in Poppers
  /\ At(t, "idle")
  /\ todo[t] > 0
  /\ Phased => \A u \in Pushers : Finished(u)

Destroying(p) ==
  /\ p = Main
  /\ At(p, "idle")
  /\ ~destroyed
  /\ \A t \in Threads : Finished(t)

\* push or pop returns; the destructor's loop ends on the first empty result.
Return(p) ==
  /\ At(p, "return")
  /\ Goto(p, "idle")
  /\ cont' = [cont EXCEPT ![p] = "return"]
  /\ old' = [old EXCEPT ![p] = NullPtr]
  /\ ptr' = [ptr EXCEPT ![p] = NULL]
  /\ new_node' = [new_node EXCEPT ![p] = NULL]
  /\ new_tail' = [new_tail EXCEPT ![p] = NullPtr]
  /\ val' = [val EXCEPT ![p] = NULL]
  /\ todo' = IF p \in Threads THEN [todo EXCEPT ![p] = @ - 1] ELSE todo
  /\ destroyed' = (p = Main /\ val[p] = NULL)
  /\ UNCHANGED <<links, nodes>>

----------------------------------------------------------------------------
(* Reference counts. *)

\* The compare_exchange of increase_external_count, on head or on tail.
Increase(p, counter) ==
  /\ counter = old[p]
  /\ counter.external_count < IntMax
  /\ counter' = [counter EXCEPT !.external_count = @ + 1]
  /\ old' = [old EXCEPT ![p] = counter']
  /\ ptr' = [ptr EXCEPT ![p] = counter.ptr]

Reload(p, counter) ==
  /\ counter # old[p]
  /\ old' = [old EXCEPT ![p] = counter]
  /\ UNCHANGED <<links, nodes, pc, cont, ptr, push, val, client>>

\* Mutant: look at the users alone.
LastUseInternal(c) == c.internal_count = 0

\* !internal_count && !external_counters
LastUse(c) == c = Unused

\* release_ref: the whole loop up to its successful compare_exchange.
ReleaseRef(p) ==
  LET c == [count[ptr[p]] EXCEPT !.internal_count = (@ - 1) % Modulus]
  IN  /\ At(p, "release")
      /\ count' = [count EXCEPT ![ptr[p]] = c]
      /\ Goto(p, IF LastUse(c) THEN "delete" ELSE cont[p])
      /\ UNCHANGED <<links, heap, data, next, cont, old, ptr, push, val, client>>

\* Mutant: forget the thread's own reference.
CountIncreaseOffByOne(p) == old[p].external_count - 1

CountIncrease(p) == old[p].external_count - 2

\* free_external_counter, up to its successful compare_exchange.
FreeExternalCounter(p) ==
  LET c == [count[ptr[p]] EXCEPT !.external_counters = (@ - 1) % 4,
                                 !.internal_count = (@ + CountIncrease(p)) % Modulus]
  IN  /\ At(p, "free")
      /\ count' = [count EXCEPT ![ptr[p]] = c]
      /\ Goto(p, IF LastUse(c) THEN "trace_delete" ELSE "trace")
      /\ UNCHANGED <<links, heap, data, next, cont, old, ptr, push, val, client>>

\* The read of ptr->count that free_external_counter prints afterwards.
TraceCount(p) ==
  /\ At(p, "trace") \/ At(p, "trace_delete")
  /\ Goto(p, IF pc[p] = "trace" THEN cont[p] ELSE "delete")
  /\ UNCHANGED <<links, nodes, cont, old, ptr, push, val, client>>

DeleteNode(p) ==
  /\ At(p, "delete")
  /\ heap' = heap \ {ptr[p]}
  /\ Goto(p, cont[p])
  /\ UNCHANGED <<links, data, count, next, cont, old, ptr, push, val, client>>

----------------------------------------------------------------------------
(* push *)

\* The new data, the new dummy node and the first tail.load().
PushAllocate(t) ==
  /\ Pushing(t)
  /\ NewNode(t)
  /\ next' = [next EXCEPT ![new_node'[t]] = NullPtr]
  /\ \E v \in Values : val' = [val EXCEPT ![t] = v]
  /\ old' = [old EXCEPT ![t] = tail]
  /\ Goto(t, "push_increase")
  /\ UNCHANGED <<links, cont, ptr, new_tail, client>>

PushIncrease(t) ==
  /\ At(t, "push_increase")
  /\ Increase(t, tail)
  /\ Goto(t, "push_data")
  /\ UNCHANGED <<head, nodes, cont, push, val, client>>

PushReload(t) == At(t, "push_increase") /\ Reload(t, tail)

\* Mutant: store without comparing.
Unconditional(t) == TRUE

DataIsFree(t) == data[ptr[t]] = NULL

\* data.compare_exchange_strong(nullptr, new_data): the dummy is ours ...
PushData(t) ==
  /\ At(t, "push_data")
  /\ DataIsFree(t)
  /\ data' = [data EXCEPT ![ptr[t]] = val[t]]
  /\ cont' = [cont EXCEPT ![t] = "return"]
  /\ Goto(t, "push_trace")
  /\ UNCHANGED <<links, heap, count, next, old, ptr, push, val, client>>

\* ... or already another push's.
PushDataTaken(t) ==
  /\ At(t, "push_data")
  /\ ~DataIsFree(t)
  /\ cont' = [cont EXCEPT ![t] = "push_increase"]
  /\ Goto(t, "push_help")
  /\ UNCHANGED <<links, nodes, old, ptr, push, val, client>>

\* PRINT(*tmp_data): a null pointer here is undefined, and ends the program.
TraceData(t) ==
  /\ At(t, "push_trace")
  /\ Goto(t, IF data[ptr[t]] = NULL THEN "crashed" ELSE "push_next")
  /\ UNCHANGED <<links, nodes, cont, old, ptr, push, val, client>>

\* next.compare_exchange_strong({0}, new_next) after the data is in ...
PushNext(t) ==
  /\ At(t, "push_next")
  /\ next[ptr[t]] = NullPtr
  /\ next' = [next EXCEPT ![ptr[t]] = Link(new_node[t])]
  /\ new_tail' = [new_tail EXCEPT ![t] = Link(new_node[t])]
  /\ new_node' = [new_node EXCEPT ![t] = NULL]
  /\ Goto(t, "set_tail")
  /\ UNCHANGED <<links, heap, data, count, cont, old, ptr, val, client>>

\* ... which a helper may have done: our own node is not needed.
PushNextTaken(t) ==
  /\ At(t, "push_next")
  /\ next[ptr[t]] # NullPtr
  /\ heap' = heap \ {new_node[t]}
  /\ new_tail' = [new_tail EXCEPT ![t] = next[ptr[t]]]
  /\ new_node' = [new_node EXCEPT ![t] = NULL]
  /\ Goto(t, "set_tail")
  /\ UNCHANGED <<links, data, count, next, cont, old, ptr, val, client>>

\* Mutant: wait for the other push to link its node.
WaitForNext(t) == At(t, "push_help") /\ next[ptr[t]] = NullPtr /\ UNCHANGED vars

\* The else branch: link our node for the other push, and make a new one ...
HelpNext(t) ==
  /\ At(t, "push_help")
  /\ next[ptr[t]] = NullPtr
  /\ NewNode(t)
  /\ next' = [next EXCEPT ![ptr[t]] = Link(new_node[t]), ![new_node'[t]] = NullPtr]
  /\ new_tail' = [new_tail EXCEPT ![t] = Link(new_node[t])]
  /\ Goto(t, "set_tail")
  /\ UNCHANGED <<links, cont, old, ptr, val, client>>

\* ... or take the node that is linked already.
HelpNextTaken(t) ==
  /\ At(t, "push_help")
  /\ next[ptr[t]] # NullPtr
  /\ new_tail' = [new_tail EXCEPT ![t] = next[ptr[t]]]
  /\ Goto(t, "set_tail")
  /\ UNCHANGED <<links, nodes, cont, old, ptr, new_node, val, client>>

\* The loop of set_new_tail: swing tail, if it still points to our node ...
SetNewTail(t) ==
  /\ At(t, "set_tail")
  /\ tail = old[t]
  /\ tail' = new_tail[t]
  /\ Goto(t, "free")
  /\ UNCHANGED <<head, nodes, cont, old, ptr, push, val, client>>

\* ... with whatever external count; if it does not, another thread swung it.
SetNewTailLost(t) ==
  /\ At(t, "set_tail")
  /\ tail # old[t]
  /\ old' = [old EXCEPT ![t] = tail]
  /\ Goto(t, IF tail.ptr = ptr[t] THEN "set_tail" ELSE "release")
  /\ UNCHANGED <<links, nodes, cont, ptr, push, val, client>>

----------------------------------------------------------------------------
(* pop *)

PopLoad(p) ==
  /\ Popping(p) \/ Destroying(p)
  /\ old' = [old EXCEPT ![p] = head]
  /\ Goto(p, "pop_increase")
  /\ UNCHANGED <<links, nodes, cont, ptr, push, val, client>>

PopIncrease(p) ==
  /\ At(p, "pop_increase")
  /\ Increase(p, head)
  /\ Goto(p, "pop_tail")
  /\ UNCHANGED <<tail, nodes, cont, push, val, client>>

PopReload(p) == At(p, "pop_increase") /\ Reload(p, head)

\* ptr == tail.load().ptr: nothing to pop, release the node and return null.
PopEmpty(p) ==
  /\ At(p, "pop_tail")
  /\ ptr[p] = tail.ptr
  /\ cont' = [cont EXCEPT ![p] = "return"]
  /\ Goto(p, "release")
  /\ UNCHANGED <<links, nodes, old, ptr, push, val, client>>

PopNotEmpty(p) ==
  /\ At(p, "pop_tail")
  /\ ptr[p] # tail.ptr
  /\ Goto(p, "pop_head")
  /\ UNCHANGED <<links, nodes, cont, old, ptr, push, val, client>>

\* head.compare_exchange_strong(old_head, next), next read from a linked node.
PopHead(p) ==
  /\ At(p, "pop_head")
  /\ head = old[p]
  /\ head' = next[ptr[p]]
  /\ cont' = [cont EXCEPT ![p] = "return"]
  /\ Goto(p, "pop_data")
  /\ UNCHANGED <<tail, nodes, old, ptr, push, val, client>>

PopHeadLost(p) ==
  /\ At(p, "pop_head")
  /\ head # old[p]
  /\ old' = [old EXCEPT ![p] = head]
  /\ cont' = [cont EXCEPT ![p] = "pop_increase"]
  /\ Goto(p, "release")
  /\ UNCHANGED <<links, nodes, ptr, push, val, client>>

\* ptr->data.exchange(nullptr)
PopData(p) ==
  /\ At(p, "pop_data")
  /\ val' = [val EXCEPT ![p] = data[ptr[p]]]
  /\ data' = [data EXCEPT ![ptr[p]] = NULL]
  /\ Goto(p, "free")
  /\ UNCHANGED <<links, heap, count, next, cont, old, ptr, push, client>>

----------------------------------------------------------------------------
Push(t) ==
  \/ PushAllocate(t) \/ PushIncrease(t) \/ PushReload(t)
  \/ PushData(t) \/ PushDataTaken(t) \/ TraceData(t)
  \/ PushNext(t) \/ PushNextTaken(t) \/ HelpNext(t) \/ HelpNextTaken(t)
  \/ SetNewTail(t) \/ SetNewTailLost(t)

Pop(p) ==
  \/ PopLoad(p) \/ PopIncrease(p) \/ PopReload(p) \/ PopEmpty(p) \/ PopNotEmpty(p)
  \/ PopHead(p) \/ PopHeadLost(p) \/ PopData(p)

LetGo(p) ==
  ReleaseRef(p) \/ FreeExternalCounter(p) \/ TraceCount(p) \/ DeleteNode(p) \/ Return(p)

Step(p) == Push(p) \/ Pop(p) \/ LetGo(p)

\* Where the model stops: the program has ended, has crashed, has no memory
\* left (bad_alloc is not caught), or has counted up to the bound IntMax.
Terminated == (destroyed \/ Crashed) /\ UNCHANGED vars

OutOfMemory ==
  /\ \E t \in Threads : Pushing(t) \/ (At(t, "push_help") /\ next[ptr[t]] = NullPtr)
  /\ Nodes \subseteq heap
  /\ UNCHANGED vars

CountedOut ==
  /\ \E p \in Procs :
       \/ At(p, "push_increase") /\ tail.external_count = IntMax
       \/ At(p, "pop_increase") /\ head.external_count = IntMax
  /\ UNCHANGED vars

Next == (\E p \in Procs : Step(p)) \/ Terminated \/ OutOfMemory \/ CountedOut

\* The scheduler runs every thread that is not suspended.
Fairness == \A p \in Procs \ Suspended : WF_vars(Step(p))

Spec == Init /\ [][Next]_vars /\ Fairness
----------------------------------------------------------------------------
(* Properties. *)

Labels ==
  {"idle", "return", "release", "free", "trace", "trace_delete", "delete", "crashed",
   "push_increase", "push_data", "push_trace", "push_next", "push_help", "set_tail",
   "pop_increase", "pop_tail", "pop_head", "pop_data"}

\* Every variable holds a value of its C++ type.
TypeOK ==
  /\ {head, tail} \subseteq counted_node_ptr
  /\ heap \subseteq Nodes
  /\ data \in [Nodes -> Values \cup {NULL}]
  /\ count \in [Nodes -> node_counter]
  /\ next \in [Nodes -> counted_node_ptr]
  /\ pc \in [Procs -> Labels]
  /\ cont \in [Procs -> {"push_increase", "pop_increase", "return"}]
  /\ old \in [Procs -> counted_node_ptr]
  /\ ptr \in [Procs -> Nodes \cup {NULL}]
  /\ new_node \in [Procs -> Nodes \cup {NULL}]
  /\ new_tail \in [Procs -> counted_node_ptr]
  /\ val \in [Procs -> Values \cup {NULL}]
  /\ todo \in [Threads -> Nat]
  /\ destroyed \in BOOLEAN

\* The threads that have counted themselves in on n and not yet out again.
Holders(n) ==
  {p \in Procs : /\ ptr[p] = n
                 /\ pc[p] \in {"push_data", "push_trace", "push_next", "push_help", "set_tail",
                               "pop_tail", "pop_head", "pop_data", "free", "release", "crashed"}}

\* The threads that have decided to delete n.
Deleters(n) == {p \in Procs : pc[p] \in {"trace_delete", "delete"} /\ ptr[p] = n}

\* The nodes pushers have allocated and not yet linked.
Private == {new_node[p] : p \in Procs} \ {NULL}

\* The nodes from n on: those in every set that holds n and is closed under next.
From(n) ==
  LET closed == {C \in SUBSET Nodes : /\ n \in C \cup {NULL}
                                      /\ \A m \in C : next[m].ptr \in C \cup {NULL}}
  IN  {m \in Nodes : \A C \in closed : m \in C}

Linked == From(head.ptr)

\* No thread uses a node that has been deleted, no node is deleted twice or
\* while somebody still holds it, and the queue links no deleted node.  The
\* printing read of line 131 is left out: TracesLiveNode is about it.
MemorySafe ==
  /\ \A n \in Nodes : Holders(n) \cup Deleters(n) # {} => n \in heap
  /\ \A n \in Nodes : Deleters(n) # {} => /\ Cardinality(Deleters(n)) = 1
                                         /\ Holders(n) = {}
                                         /\ n \notin Linked \cup Private
  /\ Linked \cup Private \subseteq heap
  /\ tail.ptr \in Linked

\* The threads that have moved tail, or head, on from n and not yet folded its
\* external count.
TailFolders(n) == {p \in Pushers : pc[p] = "free" /\ ptr[p] = n}
HeadFolders(n) == {p \in Procs \ Pushers : pc[p] \in {"pop_data", "free"} /\ ptr[p] = n}

\* The users of n that a counted pointer has counted and that are not folded
\* yet: the pointer's external count, or the folder's copy of it, less the 1 it
\* starts with.
Users(counter, n, folders) ==
  IF counter.ptr = n THEN {counter.external_count - 1}
  ELSE IF folders = {} THEN {0}
  ELSE {old[p].external_count - 1 : p \in folders}

\* internal_count makes up, modulo the width of the bit field, for what the two
\* external counts of a node miss of its holders; external_counters is the
\* number of counted pointers that have not been folded, and each of the two
\* is folded once.
RefCounts ==
  \A n \in heap \ Private :
    /\ \A t \in Users(tail, n, TailFolders(n)), h \in Users(head, n, HeadFolders(n)) :
         count[n].internal_count = (Cardinality(Holders(n)) - t - h) % Modulus
    /\ count[n].external_counters
         = Cardinality(TailFolders(n)) + Cardinality(HeadFolders(n))
             + (IF n \in Linked THEN 1 ELSE 0) + (IF n \in From(tail.ptr) THEN 1 ELSE 0)

\* A node outlives its removal only while somebody holds it or is about to
\* delete it.  The destructor pops until the queue is empty: it frees every
\* node except the last dummy.
NoLeak ==
  /\ \A n \in heap \ (Linked \cup Private) : Holders(n) \cup Deleters(n) # {}
  /\ destroyed => heap = {head.ptr}

\* The program does not dereference a null data pointer while it prints it.
NoCrash == ~Crashed

\* A push that is suspended anywhere keeps no other thread from finishing:
\* the others link its node, or swing tail, for it.
Progress ==
  /\ \A t \in Threads \ Suspended : <>(Finished(t) \/ Crashed)
  /\ (\A t \in Threads : Finished(t)) ~> destroyed

\* The data of a push goes into the node tail points to: "go on with the for
\* loop, and check whether the ptr->data of tail has a value".
PushesIntoTail ==
  [][\A t \in Pushers : pc[t] = "push_data" /\ pc'[t] = "push_trace" => ptr[t] = tail.ptr]_vars

\* free_external_counter prints the counts of a node that still exists.
TracesLiveNode ==
  \A p \in Procs : pc[p] \in {"trace", "trace_delete"} => ptr[p] \in heap
=============================================================================
