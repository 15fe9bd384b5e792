# Verification of the C++ Concurrency in Action examples

TLA+ models of the concurrent code of this repository, the TLC runs that check
them, and proofs, checked by TLAPS, of the properties that matter most.
`PROJECT.json` lists the runs, the source lines of every definition, the
hazards, the findings and the theorems; this file says what they mean.

## 1. The system and its parts

The repository is a set of small, mostly independent concurrent programs. A
gtest file per chapter is their client, and each test runs in a process of its
own. "State" below is what threads share.

| Part | Source | State | Operations | What is hard |
|---|---|---|---|---|
| lock_free_stack | `include/threadsafe_lockfree_stack.h`, `src/lockfree/lockfree_stack.cc` | `head` (pointer and external count), nodes (data, internal count, next) | `push`, `pop`, destructor; `push_items`, `pop_items` | when a node may be deleted; reuse of addresses; retries |
| lock_free_queue v2 | `include/threadsafe_lockfree_queue_v2.h`, `src/lockfree/lockfree_queue.cc` | `head`, `tail`, nodes (data, two counts in one word, next) | `push` with helping, `pop`, destructor | two external counts per node, helping a stopped push, `tail` left behind |
| lock_free_queue v1 | `include/threadsafe_lockfree_queue_v1.h` | - | - | not included anywhere, does not compile |
| hierarchial_mutex | `include/share_data.h`, `src/share_data/hierarchial_mutex.cc` | a mutex and a saved level each, a thread-local cursor | `lock`, `try_lock`, `unlock`; `thread_a`, `thread_b` | deadlock; exceptions through open scopes; a throw in a destructor |
| ThreadSafeQueue | `include/threadsafe_queue.h`, `src/synchronize/threadsafe_queue.cc` | `data_queue`, `mut`, `data_cond` | `push`, `wait_and_pop`, `try_pop` | lost, stolen and spurious wakeups |
| condition_var | `src/synchronize/condition_var.cc` | a queue, a mutex, a condition variable | producer, two consumers, one with a timeout | notification outside the lock, wait without a predicate, end of input |
| packaged_task | `src/synchronize/packaged_task.cc` | a deque of tasks, a plain quit flag | `post_task_for_gui_thread`, `gui_thread` | a future taken twice, a deadlock if it were waited for under the lock |
| promise | `src/synchronize/promise.cc` | promises and futures | detached queries, the loop of `get` | exceptions across threads |
| quicksort | `include/quicksort.h` | - | sequential and parallel sort | reads past the end under `DEBUG` |
| ThreadSafeStack, ThreadUnsafeStack | `include/threadsafe_stack.h`, `src/share_data/thread*safe_stack.cc` | a stack, with and without a mutex | `push`, `pop`, `empty`, `size`; `unsafe_pop` | top and pop must be one step |
| nested mutexes, std::lock, mutual join | `src/share_data/deadlock_*.cc` | two mutexes; two threads | `X::operator=`, `XX::swap`, `run` | deadlock, on purpose in two of them |
| data behind a lock | `src/share_data/blow_a_hole.cc`, `lock_guard.cc` | one object, one list | `process_data`, `add_to_list`, `list_contain` | a pointer that leaves the lock |
| thread_mgr | `src/thread_mgr/*.cc` | an owned int; a local variable | moves; a detached thread | a dangling reference |

The parts interact little: the lock-free structures and the mutexes are used by
their callers' threads only, through the calls listed. Within each part all
interaction is through shared memory, atomics, mutexes and condition variables.
Nothing is persisted, so there are no crashes and restarts to model.

What makes each part correct:

* **stack, queue** - every operation takes effect at one instant within its
  call; no node is used after its deletion or deleted twice; none is leaked; the
  counts of a node add up; a thread that is stopped stops nobody else.
* **hierarchial_mutex** - no circle of waiting threads; the cursor always is the
  level of the innermost scope; `unlock` never throws from a destructor.
* **ThreadSafeQueue, condition_var** - nobody sleeps while there is something to
  fetch; every item is handed out once, in order.
* **the others** - no deadlock where none is meant, every future gets its value,
  sorting sorts.

## 2. Plan

*Done:*

1. `AtomicStack`, `LockFreeStack`, `LockFreeStackRefinement`,
   `LockFreeStackProofs`: the stack, what it promises, and its reclamation.
2. `AtomicQueue`, `LockFreeQueue`, `LockFreeQueueRefinement`,
   `LockFreeQueueProofs`: the same for the queue.
3. `HierarchialMutex`, `HierarchialMutexProofs`.
4. `ThreadSafeQueue`, `ThreadSafeQueueProofs`.
5. One module for each of the demonstrations of `synchronize`, `share_data` and
   `thread_mgr`: `ConditionVariable`, `PackagedTask`, `Promise`, `QuickSort`,
   `SharedStack`, `NestedMutex`, `StdLock`, `MutualJoin`, `DataWrapper`,
   `LockGuardList`, `Movable`, `DanglingRef`.
6. `Tests`: ThreadSafeQueue and the modules of step 5 composed as the tests run
   them, with `ConditionVariableProofs`, `DataWrapperProofs`, `MovableProofs`,
   and `TestsProofs`, which carries their theorems over to the composition and
   proves the safety properties of the other demonstrations there.

*Left:*

1. Absence of deadlock as an invariant, where a standstill can be said by the
   guards alone (the two nested swaps stop only in their circle, the mutual join
   only where it says); it is model-checked now.
2. An atomic queue that ThreadSafeQueue implements, and an atomic stack for
   ThreadSafeStack.

Each component module declares its parameters as CONSTANTS, has one action per
operation or per access to shared memory, and no RECURSIVE operator, so that it
can be proved about. `MC*` modules give the constants values; `*Proofs` modules
hold the theorems.

## 3. The models

### LockFreeStack

One action is one access to memory that another thread can reach, with the
thread-local code around it. All atomics of the source are seq_cst, so
interleaving these actions is what the build can do; a `compare_exchange_weak`
that fails for no reason is a stuttering step.

| Action | Code |
|---|---|
| `PushAllocate` | `new node`, first `head.load()` (50-54): the node is private until it is linked |
| `PushLink`, `PushReload` | the `compare_exchange_weak` of push, successful or not (55) |
| `PopLoad` | `head.load()` (60) |
| `IncreaseHeadCount`, `IncreaseReload` | `increase_head_count` (21-45) |
| `ReadNext` | the read of `ptr->next`, before the compare_exchange it is an argument of (71) |
| `PopUnlink`, `PopLose` | the `compare_exchange_strong` of pop (71) |
| `SwapData`, `FoldCount` | `res.swap`, `fetch_add` (73-75) |
| `ReleaseRef` | `fetch_sub` (82) |
| `DeleteNode` | `delete ptr` (77, 84) |
| `PopReturn` | the returns, and the destructor's loop (47-49) |

`heap` is the set of allocated nodes: `new` returns any address not in it, so a
deleted address may come back at once. The fields of a deleted node keep their
last values; `MemorySafe` says that nobody looks. The callers are
`push_items`/`pop_items` (`Size` says how many items), and a thread `Main` that
destroys the stack once all others have finished, as the static object's
destructor does after the test's joins. What only prints is left out.

`OutOfMemory` and `Overflow` are not steps of the program. They mark the two
places where the model ends before the program does: `bad_alloc` terminates it,
and at `IntMax` the next increment of an int is undefined.

`LockFreeStackRefinement` maps this to `AtomicStack`: the contents are the chain
from `head`; push takes effect at its compare_exchange, pop at the one that
unlinks the node, an empty pop when `increase_head_count` finds null.

### LockFreeQueue

The same method. `At(p, l)` also requires that no thread has crashed. The
counts of a node are a record with the widths of the bit fields: two bits for
`external_counters`, `Modulus` for the 30 bits of `internal_count`, which wraps.
`PushData`/`PushDataTaken` are the two outcomes of the data's compare_exchange
(213), `PushNext`.. and `HelpNext`.. the two ways to link a node (235, 252),
`SetNewTail`, `SetNewTailLost` the loop of `set_new_tail` (149),
`ReleaseRef` and `FreeExternalCounter` the two ways to let go of a node
(52-74, 108-138). `TraceData` and `TraceCount` are the two places where printing
dereferences shared memory; the first can meet a null pointer, which ends the
program (`crashed`). It stands for both the load of line 222 and the use of line
224: that the T itself is freed between the two is not modelled. `pop` reads
`next` (278) and moves `head` (280) in one action, as `next` of a node that is
no longer the tail does not change. `Phased` starts the poppers after the
pushers, as the test does.

### HierarchialMutex

Threads call `lock` and `try_lock` on any mutexes, in scopes that nest and end
last in, first out (`held`), which is what `lock_guard` gives. `LockCall` is the
check of `lock` up to `internal_mutex.lock()`, `Acquire` its return with
`update_hierarchy_value`. An exception makes the thread leave all its scopes
(`pc = "throw"`) before `Catch`, as in `thread_b`. `unlock` with a wrong cursor
would throw in a destructor: `pc = "terminate"`. `cursor` is the thread-local
value, which for the model is a function of the thread. `Calls` bounds the calls.

### ThreadSafeQueue

Every operation holds `mut` from its first access to its last, so one action is
one critical section: `Push` with its `notify_one`, `WaitAndPop` or `Wait`,
depending on the predicate, on entry or after a wakeup, and the two outcomes of
`TryPop`. A woken consumer has to lock `mut` again, so others may come first.
`std::condition_variable` is external: a set of sleepers, of which `notify_one`
wakes any one; `SpuriousWakeup` wakes one without it. `popped` is a history of
the items handed out. Exceptions from copying are left out: they end the program.

### Tests, and the demonstrations it composes

`ctest` runs every test as a process of its own. `Tests` picks one of seventeen
in its first state (`test`); the action named like it makes the steps of the
component that it calls, and all other state stands still. The arguments that
the tests pass are CONSTANTS, so that what is proved does not depend on them;
`MCTests` has what the tests pass. ThreadSafeQueue's state comes with EXTENDS, each other component
is an INSTANCE on variables of its own. A component that two tests use in two
forms has two instances on the same variables. `Over` says where a test may stop
for good; elsewhere a standstill is a deadlock, which the run looks for.

| Module | Code | State, and what one action is |
|---|---|---|
| `ConditionVariable` | `condition_var.cc` | `producer`, `consumer` and the queue. `Push` is the block of the lock_guard, `Notify` the `notify_one` after it, without the lock, with the test of the last chunk. `Wait`, `Take`: `data_processing_thread`, from the lock to the wait or to `process_data`. `WaitUntil`, `TimeOut`, `NoTimeout`, `TimeoutEmpty`, `TimeoutTake`: `data_processing_thread2`, whose wait has no predicate. `SpuriousWakeup` ends either wait. |
| `PackagedTask` | `packaged_task.cc` | `tasks`, `is_quit_message`. `Post`; `TestQuit` without the lock, `TakeTask` or `NoTask` in it, `RunTask`, which is also where `last_message` sets the flag |
| `Promise` | `promise.cc` | the shared state of each promise. `Start` a thread, `Fulfil` with the answer or the exception, `Get` |
| `QuickSort` | `quicksort.h` | a tree of calls, each "called", "parted", "later" or "returned". `Partition` takes the pivot and leaves both parts in any order; `Make` makes the call that was put off; `Return` splices. In the parallel form the lower call is made at once, or in `get`, as `std::async` chooses |
| `SharedStack` | `threadsafe_stack.h`, `threadunsafe_stack.cc` | `cells` and `size`; each access of a pop is an action, `Pop` and `SetSize` are the read and the write in `std::stack::pop`. With `Guarded` all of them hold `m`. `top` of an empty stack is undefined: no step, so that it would show as a deadlock |
| `NestedMutex` | `deadlock_nestedmutex.cc` | `Copy`, `LockRhs`, `LockLhs`, `Assign`, `Release` (the second of the two guards), `LockBack`, `AssignBack` of a swap; the sleep lies between the two locks, where every interleaving is allowed anyway. `Circle` is the deadlock the test announces |
| `StdLock` | `deadlock_stdlock.cc` | addresses of strings; `Copy` because `some_big_object` has no move constructor, `Move`, `MoveBack` with the pointer nulled in the source and forgotten in the target. `std::lock` is external: both mutexes or none |
| `MutualJoin` | `deadlock_mutualjoin.cc` | the two global handles and three threads; `JoinThrows` is what a library that notices the circle does |
| `DataWrapper` | `blow_a_hole.cc` | who set `a` and `b`, tested and set one after the other; `Kept` tells `process_data_with_lock` from `process_data`. Two assignments of one `std::string` at a time may leave a text of neither |
| `LockGuardList` | `lock_guard.cc` | the length of the list; `Add`, and the polling `Find` or `Miss` |
| `Movable` | `movable.cc` | the pointer of each object and the allocated ints. `Destroy` frees nothing: there is no destructor, and the int leaks |
| `DanglingRef` | `dangling_ref.cc` | `Trace`, `Test`, `Report`: the thread's three reads of the reference; `Read` yields the value, or, once `run` has returned, perhaps another one. No property is claimed of what it reads; that its loop ends is part of `TestsEnd` |

`TestsAssumption` is what the tests have in common with any arguments the code is
meant for. "bye" and the last message come last, if they come at all, as nothing
that follows them would be looked at. The lists hold numbers. Threads have
different names, and a name is not also one of a mutex. The elements of a
ThreadSafeStack, and those pushed onto it, differ, which tells them apart and asks
nothing of the code, which never compares them. There are two XX and each swap
names both. A ThreadUnsafeStack has more elements than threads pop: `unsafe_pop`
tests for emptiness without a lock, and with fewer elements two pops can both see
the last one, the second then takes the top of an empty stack.

## 4. The runs

| Run | Instance | Shows |
|---|---|---|
| `stack_safety` | 2 pushers, 2 poppers, one of each twice; 2 nodes, 2 values | types, `MemorySafe`, `SplitCount`, `NoLeak`, the invariant of the proofs, `Linearizable` |
| `stack_progress` | 2 pushers, 1 popper, one pusher suspended anywhere | `Progress` |
| `queue_mixed` | 2 pushers, 1 popper popping twice, all at once; 4 nodes | types, `MemorySafe`, `RefCounts`, `NoLeak`, the invariant of the proofs (`QueueInv`), `LinearizableButLossy` |
| `queue_phased` | 2 pushers (3 items), then 2 poppers (3 pops); 4 nodes | `QueueInv`, `NoLeak`, `NoCrash` and `Linearizable` |
| `queue_progress` | 2 pushers, one suspended anywhere, 1 popper | `Progress` |
| `queue_lost_push` | 2 pushers, 1 popper | *violated*: finding 1 |
| `queue_trace` | 2 pushers, then 2 poppers | *violated*: finding 2 |
| `hierarchy` | 3 threads, 2 calls each; a high mutex and two of one lower level | types, `CursorFollowsScopes`, `NoTerminate`, `NoDeadlock`, `EveryLockReturns` |
| `hierarchy_comment` | the same | *violated*: finding 3 |
| `tests` | 17 tests; wait queue: 2 producers, 3 consumers, 1 poller, 5 items; the others as in `MCTests` and `Tests.cfg` | one property for each hazard of the demonstrations, and `TestsEnd` |
| `quicksort_trace` | the same | *violated*: finding 4 |

**Bounds.** For the stack, two nodes suffice for every reuse: a popper can hold
an old head while its node is deleted, allocated again and linked again, with
the other node below or above it. Two poppers give a winner and a loser, and a
winner that loses its next round. `IntMax = 5` is beyond the counts that two
poppers and `Main` reach on a node; where the null head's count gets there, the
behaviour ends in `Overflow`. For the queue, a push that is helped needs the
dummy, the helper's node, its own and the helper's next one; the run with two
poppers is phased, because with everything at once it is too large. `Modulus = 8`
keeps negative values apart from the small positive ones and makes
`internal_count` wrap as 2^30 does. For the mutexes, two calls per thread are what a circle needs:
one mutex held, one wanted; three threads can form circles of two and of three,
and the twins make the comparison at equality matter. For the wait queue, three
consumers and a poller allow one to be woken, one to come early, one to sleep on.
Nodes and values are symmetric where only safety is checked.
In `Tests`, three chunks give a notification that finds nobody, one that wakes
the consumer, and the last one; the message loop has its four messages and the
promises their three queries, unabridged; the lists to sort have equal elements,
a smallest and a largest pivot, and empty parts, in every order that
`std::partition` may leave them. The safe stack starts with one element for two
poppers and a third thread pushes another, so that pops find it empty, last and
refilled; the unsafe one has more elements than poppers, as its test does. Four
numbers, of which the third is looked for, stand for a hundred, and three
turns for the million of the dangling reference.

What the properties of `tests` say beyond the tests themselves:
`SleepsOnlyBeforeNotify` (the consumer never sleeps beside a chunk unless a
notification is on its way), `ProcessedInOrder`, `MessagesRunInOrder` (although
the quit flag is looked at before the deque), `AnswersInOrder`, `Sorts`,
`PoppedOnce`, `LeavesATop` (two racing pops, however they go, leave the main
thread something to look at), `SwapsExchange` (the texts are exchanged and each
swap leaks one string), `NobodyJoinsTy` (no order lets the mutual join end but
in `std::terminate`), `NeverMixed`, `UniqueOwner`. `InOrder` of the wait queue
counts: what was popped and what is in the queue are, together, as many items as
the constructor and the pushes put in, the constructor's first.

**Fairness.** Each thread's step is weakly fair: the scheduler runs every thread
that can run. `Suspended` threads have none: they may stop for ever at any
point, which is what makes `Progress` say that others do not depend on them.
The code of stack and queue has no locks, so nothing else is assumed. For the
mutexes a free mutex is given to a thread that keeps waiting for it; each thread
makes finitely many calls, so that no stronger fairness is needed. In the wait
queue neither `SpuriousWakeup` nor the poller is fair.
In `Tests` weak fairness of the step as a whole is enough for the tests that
only ever make progress. In the others (`Polling`) threads poll or wake up for
nothing, and each thread is weakly fair by itself; nothing makes a spurious
wakeup happen. `TimeOut` is strongly fair: three seconds without a
notification pass now and then, although spurious wakeups may come before that
again and again; the consumer without the predicate makes progress only by
timeouts, so `TestsEnd` rests on this.

**Findings.**

1. *The queue can lose a push* (`PushesIntoTail`). A push that holds a reference
   to what was the tail finds its `data` null again after a popper has taken the
   data out, and stores its own into a node nobody will visit again. The mixed
   run shows that this is all that goes wrong with the order, the phased run
   that it needs pops during pushes.
2. *A use after free in the trace of `free_external_counter`* (`TracesLiveNode`):
   line 131 reads the counts after the reference has been given up. The test of
   the repository can run into it.
3. *The comment on `lock` says that a mutex of the cursor's own level may be
   locked* (`ThrowsOnlyAbove`); the code throws, and has to: the mutant
   `ViolatesAbove`, which does what the comment says, deadlocks.
4. *`sequential_quick_sort` prints what is behind the end*
   (`DividePointIsElement`). `std::partition` returns `end()` when the pivot is
   the largest element, above all in every call for one element; the trace under
   `DEBUG`, which is on, dereferences it (29), and then the first element of an
   empty rest (46). The comment of line 23 takes the element for granted. The
   sort itself is not affected (`Sorts`).

The trace of line 224 dereferences a null pointer if a popper is fast enough;
`NoCrash` holds in the order of the test only.

## 5. The proofs

All theorems hold for any constants that satisfy the module's assumption.

* **`LockFreeStackProofs`** - `TypeCorrect`, `CountsBalance`, `SafeReclamation`,
  `NothingLeaks`, and `Linearizes`, the refinement of `AtomicStack`.
  The counts are not inductive alone: who holds a node is known only if the
  links form a chain without repetition, threads' copies of old heads cannot
  equal the head while they are out of date, and the node of a winner is out of
  the chain; that a popper's copy of `ptr->next` is still `next` when its
  compare_exchange succeeds needs that it holds the node. `IInv` collects this in
  `LocalsOK`, `ChainOK`, `CountsOK` and `ReclaimOK`, and `stack_safety` checks it
  too. `SplitCount` speaks of cardinalities of sets of threads; each action
  changes such a set by one thread, which the library's lemmas on finite sets
  count. `NothingLeaks` needs two invariants more: that no part of the stack is
  cut off from `head` (`Reachable`, said without recursion: every set closed
  under the links from `head` holds the whole stack), and that `Main` ends its
  loop only beside a null head, alone (`MainLast`).
* **The refinements.** The refinement mapping's contents follow the links from
  `head` (`NodeAt`), by recursion, and the prover has no induction over data. The
  proofs go round it with a witness: a sequence of nodes `s` that the links lead
  through (`Chain(s)`). That there is one is an invariant (`ChainExists`): each
  step keeps it, or adds or takes the node at one end. That `NodeAt` then is `s`
  needs the least index at which the two differ, and the naturals are
  well-founded. What is left is one abstract step, or a stutter, for each action
  (`OwnCall`, `OthersCalls`), and for the queue who owns the data in `tail`'s node:
  exactly one push that has not seen `tail` leave it (`PushesOK`), which takes
  effect when any thread, a helper too, swings `tail`. That an empty pop
  takes effect where it reads `tail` needs that a node it holds is `head`'s own or
  has left the queue (`PopsOK`).
* **`LockFreeQueueProofs`** - `TypeCorrect`, `CountsBalance`, `SafeReclamation`,
  `NothingLeaks`, `Connected`, `NoCrashWhenPhased`, and the refinements
  `LinearizesButLoses` and `LinearizesWhenPhased`. The assumption on the
  constants that matters is `Cardinality(Procs) < Modulus`: there are fewer
  threads than `internal_count` has values, 2^30; it wraps below zero, so that
  what adds up is its sum with the external counts modulo `Modulus`, and a node
  is thought unused by mistake only if that many threads held it at once.
  `IInv` has one conjunct for each thing a count can rest on: where each thread
  may be, given its operation (`PlacesOK`); that a node not yet linked is known
  to its pusher alone (`NewNodesOK`); that nobody uses a deleted node (`UsesOK`);
  that all nodes of the queue but the last hold data (`DataOK`); that they form
  one chain from `head` through `tail` to at most one node further (`ChainOK`);
  that each node's counts add up to its users, with one external counter for
  `head` and one for `tail` until the thread that moved it on has given its count
  back (`CountsOK`); and that who decides to
  delete is the last (`ReclaimOK`). Beside it, `QueueInv` says what the leaks
  depend on: every set closed under `next` from `head` holds the whole queue
  (`Reachable`), where a node is linked behind the one `tail` points to, a pusher is
  about to move `tail` on (`TailFollowed`), and `Main` works alone (`MainLast`).
  `NoCrashWhenPhased` and `LinearizesWhenPhased` have the hypothesis `Phased`, that
  nobody pops before all pushes are over, because they are false without it; the
  invariant is that no data has been taken while a push is under way
  (`PushersFirst`), and that a push never comes to a node that has left the queue
  (`PushersStay`), so that the one it finds without data is `tail`'s.
* **`HierarchialMutexProofs`** - `TypeCorrect`, `CursorInStep`,
  `UnlocksNeverThrow`, `DeadlockFree`. `IInv` adds to `CursorFollowsScopes` that all levels a thread
  holds descend, that an owned mutex is in a scope of its owner, and that a
  thread waits only for levels below its cursor. In a set of threads that all wait
  for each other, take the one that wants the lowest level (the naturals are
  well-founded): the holder's cursor is at most that, and it wants a lower one.
* **`ThreadSafeQueueProofs`** - `TypeCorrect`, `NoWakeupIsLost`,
  `EveryItemInOrder`. With the types
  the invariant is inductive: a push adds one item and wakes one sleeper, a
  woken consumer takes an item or finds the queue empty, and a consumer falls
  asleep only beside an empty queue. `EveryItemInOrder` has the hypothesis
  `Traceable`, that an item tells which producer pushed it, as the tests' items do.
  It says that what has been popped and what is in the queue, in a row, are the
  constructor's items and then as many as there were pushes (`Pushes`), the i-th
  of each producer being its i-th: with the count, nothing is left over that
  could be an item handed out twice. A push adds to the end of that row, a pop
  moves its middle (`TakeFrontKeepsHistory`).
* **`ConditionVariableProofs`** - `NoEarlyNotify`, `EveryChunkInOrder`, for either
  consumer and any input in which nothing follows "bye" (`EndsWithBye`). The two
  properties, with the types, are inductive together; each action moves the head
  of one sequence to the end of the one before it, or none, which the lemma
  `MoveHead` and the associativity of concatenation account for.
* **`DataWrapperProofs`** - `KeptLockProtects`, for any number of threads that
  keep the lock: whoever is past `Process` owns the mutex, and `a` and `b` differ
  only between the two assignments of the owner.
* **`MovableProofs`** - `OwnersAreUnique`, for any objects and addresses:
  `UniqueOwner` is inductive with the types.
* **`TestsProofs`** - every safety property of the composition, for any arguments
  that satisfy `TestsAssumption`. A step of another test leaves the component's
  variables alone (`Steps`). `WakeupsInTest`, `ItemsInOrderInTest`,
  `LockKeptInTest`, `OwnersInTest`, `ChunksInOrderInTest`, `NoEarlyNotifyInTest`
  take the component's initial and inductive step from its proof module by
  INSTANCE. The other demonstrations have their invariants here:
  * `MessagesInOrderInTest` (`MessagesKept`): what has run, the task taken, the
    deque and what is not posted yet are, in a row, the messages; with the quit
    flag set nothing is left of them but what has run.
  * `AnswersInOrderInTest` (`Answered`): a shared state holds nothing or its own
    query's answer, and the results so far are those of the first queries.
  * `SortsInTest` (`SortKept`): the calls form a tree, of which a call that has
    returned has only returned calls below it (`CallTree`); the lists that are not
    yet part of a caller's result hold, all together, the elements of the first
    list, one to one (`Places`, whose witness each step moves along); and every
    element below the lower part of a call is less than its pivot, none below the
    higher part is (`Between`). So the parts of a call that returns can be put in a
    row (`ReturnedAscends`), and when the first call has returned its list is all
    there is. No induction over lists is needed: the induction is over the steps.
  * `PoppedOnceInTest` (`StackKept`): an item is in the stack, with the thread that
    popped it or with the one that has yet to push it, in one place only; and what
    the thread under the mutex has copied is still the top (`PopsTheTop`). For the
    cardinalities of `PoppedOnce`, each of three sets then is empty or has one element.
  * `TopIsLeftInTest` (`AtMostOneOffEach`): each pop writes the size it has read
    less one, and neither what it has read nor the size is ever less than the
    size at the start by more than the pops that have ended.
  * `SwapsExchangeInTest` (`StringsKept`): one thread at a time is past std::lock;
    where it is in its three moves says which XX has which text, and whether the
    number of swaps over is even says which text that is.
  * `TyIsLeftInTest` (`TyIsLeft`): where each thread can be, given which handles
    have been moved.

**Only model-checked:** everything temporal (`Progress`, `EveryLockReturns`,
`EveryItemIsFetched`, `TestsEnd`; the prover has neither fairness nor ENABLED),
and the absence of deadlock, which TLC looks for in every run that shows a property
to hold. The properties that are violated show the findings. Every invariant and
every refinement that a run checks is proved.

## 6. Not modelled

* Whether two poppers of the stack can keep each other from unlinking for ever:
  each increment of the external count makes another popper's compare_exchange
  (71) fail, and a round of such failures changes no more than the two counts.
  But every round raises one count and lowers the other, no state repeats before
  they overflow, and a lasso is what TLC would need. `Progress` of the stack is
  therefore checked with one popper, and nothing is claimed for several.
* Version 1 of the queue is dead code: nothing includes it, and it does not
  compile.
* `time.cc`, `init_func.cc` and `test_stucture_assign` share no state;
  `print_queue` is run by the test alone; so is ThreadSafeStack's `size`.
  Everything that only prints is left out, except where printing dereferences
  something.
* Nothing calls `spwarn_task`, ThreadSafeStack's `empty` and the copy
  constructors of ThreadSafeStack and ThreadSafeQueue.
* An input of `condition_var.cc` that ends without "bye": `get_data` then fails
  for ever and the producer pushes empty chunks until memory runs out.
* `lock_guard.cc`'s detached writer after the process has begun to exit, when
  the list is being destroyed: what it does is undefined.
* Exceptions of allocations and copies end the program, as no thread catches
  them. The model of the stack and of the queue marks the place and stops.
* The padding of `counted_node_ptr`, which `compare_exchange` compares too (the
  comment of line 45 met it), is left to the compiler. `head` of the stack has
  no initialiser: the model is of its one instance, which is static and so
  starts as zero.
* `thread_b(true)`, which would throw out of a thread's function, is called by
  nothing but a comment.
