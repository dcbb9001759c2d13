# A TLA+ specification of dlChecker

dlChecker is a C library that watches the `pthread` mutexes of the program it
is linked into and reports deadlocks. Its lock functions replace
`pthread_mutex_lock` and `pthread_mutex_unlock`; each call announces what it
does through a queue of the calling thread; a background thread, the *checker*,
turns the announcements into a wait-for graph and looks for cycles in it. An
`assert()` that fails in any of this ends the program that is being watched, so
the questions asked here are: can that happen, does the graph tell the truth,
and is a deadlock found and reported?

Paths like `trait.c:115` are relative to the repository's `src/` and `include/`
directories.

## 1. The system

| Component | Code | State | Operations |
|---|---|---|---|
| Tracker | `trait.c` | where each thread is in a lock call; the native mutexes | `pthread_mutex_lock`, `pthread_mutex_unlock`, `generate{Wait,Hold,Release}Event` |
| Dispatcher | `dispatcher.c` | thread-local event and queue pointer | `dispatcherInit`, `dispatcherInvoke` |
| Event queue | `lfqueue.c`, `lfqueue.h` | two counters, a ring of slots | `lfqueueInit`, `lfqueuePut`, `lfqueueGet` |
| Event loop | `eventLoop.c:60-255` | the pass over all queues | `eventLoopEnter`, three handlers |
| Wait-for graph | `vertex.c`, `vertex.h` | vertices, arc lists, request map | `addEdge`, `deleteEdge`, `vertexCreate`, `arcCreate` |
| Detector | `eventLoop.c:257-420` | `dfn`, `low`, `inStack` of the vertices | `strongConnectedComponent`, `tarjan`, `clearTarjanStatus` |
| Report | `report.c` | none | `reportDeadLock`, `reportInfo` |
| Registry | `hashMap.c`, `internal.h` | `eventQueueMap`, thread count | put under a spin lock, iteration without it |
| Heap | `mem.c`, `alloc.c` | block list, lowest free block | `memAlloc`, `memFree`, `zmalloc`, `zfree` |
| Memory pools | `mempool.c` | free list | `memPoolAlloc`, `memPoolFree`, and both under a lock |
| Spin lock | `spinlock.c` | a flag | `acquire`, `release` |
| Timers | `timer.c` | list of timers | `dlcTimerCreate`, `dlcTimerProc`, `dlcTimerDestroy` |
| Garbage collection | `trait.c:307-350`, `internal.c:116` | `residentThreadMap` | `gcDestroyedThreads`, `gcForThread` |
| Filter | `filter.c` | set of mutexes, a flag | `dlcFilterCreate`, `setFilter`, `isFilter`, `dlcFilterDestroy` |

How they interact. A thread of the program calls the tracker, which fills the
thread-local event and hands it to the dispatcher; on the thread's first call
that allocates a queue from a pool and enters it into the registry. Between the
wait event and the hold event the thread is in the native lock function and may
stay there for ever. The checker thread alternates between `eventLoopEnter` and
`dlcTimerProc`: it iterates over the registry, drains each queue into the graph
and, when the check timer fires, runs the detector. Threads and checker share
the queues, the registry, the heap and the pools; the graph belongs to the
checker alone.

What is hard here:

- **Order.** Each thread has its own queue and the queues are drained one after
  the other, so the graph is never a snapshot of the program. Events of
  different threads are handled in an order in which they never happened.
- **Consistency checks.** Every handler asserts that the graph is in the state
  that its event supposes.
- **Lock freedom.** Producer and consumer of a queue use each other's counters
  while these change.
- **Limits.** Queues of 256 events, pools of 512 threads, 512 mutexes and 1024
  arcs, each ending the program when it is exceeded.
- **Left-over state.** The search leaves marks on vertices that the next search
  sees.

`PROJECT.json` lists the hazards one by one with the properties that address
them.

## 2. The modules

| Module | Models | Notes |
|---|---|---|
| `WatchedProcess` | the threads, the mutexes, and whether the process was aborted | `abort` holds the reason |
| `LockGraph` | the graph as a set of arcs, the three handlers | every assert and pool limit of a handler is in its outcome |
| `GraphProtocol` | abstract specification: what the graph may go through | each thread, on its own, requests, acquires and releases |
| `Tracker` | the two interposed functions, the dispatcher, the queues as sequences, the native mutexes | a call has three points; other threads run in between |
| `EventGraph` | `Tracker` and `LockGraph` together: the handler of an event, and where the queued events lead | |
| `DlChecker` | `EventGraph` with the passes of `eventLoopEnter` | the core of the project |
| `Search` | abstract specification of a check: what it finds and which vertices it leaves marked | one step |
| `Monitor` | `DlChecker` with the checks of `Search` between two passes | the whole, with its fairness |
| `OtherCalls` | programs that use error-checking and recursive mutexes, trylock, condition variables and a changing filter | on `EventGraph`, with a simpler checker |
| `Fifo` | abstract specification of a queue | |
| `LFQueue` | `lfqueuePut` and `lfqueueGet` step by step | sequentially consistent memory |
| `LFQueueWeak` | the same queue when loads may be done ahead | |
| `CheckedGraph` | abstract specification of the checker thread: `GraphProtocol` and the checks of `Search` | |
| `Detector` | arc lists in their order, the chains of the request map, Tarjan's algorithm, the marks, the report | implements `CheckedGraph`; recursive, so for TLC only |
| `Registry` | `eventQueueMap`: registration store by store, the checker's iteration beside it, ends of threads and reuse of their ids | |
| `Heap` | `mem.c`: first fit, splitting, combining | one call at a time |
| `MemPool` | `mempool.c` behind its spin lock, store by store | |
| `Timers` | the checker's two timers and what the second one does | |
| `MC…` | instances for TLC | |
| `EventGraphProofs` | lemmas about queued events and handlers | used by the next two |
| `DlCheckerProofs`, `OtherCallsProofs`, `MonitorProofs`, `LFQueueProofs`, `MemPoolProofs`, `RegistryProofs`, `HeapProofs` | theorems about the module in their name, and the proofs | see 4 |

### From the code to the actions

`DlChecker`. `Lock(t, m)` is `generateWaitEvent` including `dispatcherInit` on
the first call; `Proceed(t)` is what the thread does next inside the call: the
native function (`nativeLock`), then `generateHoldEvent`. `Unlock(t, m)` is the
native unlock, after which `Proceed(t)` is `generateReleaseEvent`. The native
functions are external: `owner` is what the pthread library knows. `StartPass`,
`Visit(t)` and `HandleEvent` are the three levels of `eventLoopEnter`: start the
iteration, read how many events a queue holds, take and handle one of them. A
thread that registers during a pass is met by it or not (`todo`), as the bucket
of its hash decides. A put and a get are one step each here; that they may be is
what `LFQueue` shows.

A handler that fails aborts the process half way. What it had changed by then
does not matter any more, so the failing outcome leaves the graph alone.

`Monitor`. `checkTimerProc` is the search of a check timer that has fired; the
search is one step, as it runs in the checker thread between two passes. `found`
is what the last check found; it is forgotten at the next event. `Reached` of
`Search` says what can be reached by closed sets instead of recursion, so that it
can be reasoned about. `Search` and `Detector` meet in `CheckedGraph`: `Monitor`
implements it, with the threads and queues that feed the graph, and `Detector`
implements it, with what Tarjan's algorithm does on arc lists, marks included. So
what `Monitor` takes as one step on sets is what the code does.

`OtherCalls`. `LockCall`, `NativeLock`, `HoldCall`, `UnlockCall` and
`ReleaseCall` are the interposed functions again, now with the outcome of
`isFilter` as an input of each of the three generate functions. `filter` is
`off`, `on` or, after `dlcFilterDestroy`, `gone`: the map is freed but
`isEnabledFilter` stays set, so that any answer is possible. A thread whose wait
event was ignored compares the mutex of its hold event with whatever its last
event was; `HoldEvent` lets this assert hold or fail. `TryLock`, `CondWait` and
`CondReturn` are calls that go past the tracker. Three variables are not in the
code: `skipped`, `hidden` and `mistake` record what a thread has not said, or
has said wrongly. A thread makes any call up to its first mistake. After an event
too few it goes on to lock (`StillLocks`), so that what it has left out meets the
handlers of its next events; after an event too many, which ends the process
when the checker takes it, it makes no new calls. `Take(t)` is one event taken
out of a queue at any time, instead of the passes of `DlChecker`.

`LFQueue`. A put is three kinds of steps: read the counters and cut the batch
(`PutBegin`), copy one element (`PutCopy`), advance `in` (`PutPublish`); a get
likewise. `memcpy` in two pieces around the end of the ring is the copying of
slots `counter % Size`.

`Detector`. `arcList` maps every vertex that exists to its successors in list
order; its domain stands for the two vertex maps. `Handle` is one event, under
the conditions of `GraphProtocol`; `Check` is one `strongConnectedComponent`
with the traversal of the request map, bucket by bucket. `hashCode` is drawn
once: `table` is the request map as the code keeps it, a chain per bucket with
the newest entry first and removal from the middle. Of the fields that the
search uses only `dfn # 0` survives a check (`marked`): `low` and `inStack` of a
vertex are set before they are read. Handlers and checks do not overlap, as both
run in the checker thread.

`Registry`. A queue and an entry of the map bear the name of the thread that made
them. `Start(t)` is a thread's first lock call; `__lock`, `CountThread`, `Lookup`,
`Link`, `CountEntry`, `SetEntryKey`, `SetEntryVal`, `__unlock` are the steps of
`eventQueueMapPutLocked` in the order of the stores, `Overwrite` and `Refuse`
what happens when the key is there already. The checker's `StartPass`,
`NextBucket`, `NextEntry` and `Serve` are `eventLoopEnter` without the handling
of events: `served` is the set of queues it got to, `due` those registered when
the pass began. `DlChecker` takes what this module shows as given: an entry
appears at once, and a pass meets every older one.

`Heap`. `mem` holds a header at each offset that has one; sizes are in units of
the alignment, with the header twice as long as the smallest block, as in the
code on a 64-bit machine. `zmalloc` and `zfree` are one step each. `heapFree` is
kept by the code's own five assignments, not defined as the lowest free block.

`MemPool`. A block has one pointer, `header`: to the next free block, or to the
pool (`mp`) while it is in use. `AllocBegin`, `AllocTest`, `Unlink`, `Claim`,
`Account`, `AllocEnd` are the steps of `memPoolAllocLocked`, `FreeBegin`,
`FreeTest`, `Link`, `Push`, `Count`, `FreeEnd` those of `memPoolFreeLocked`.
`NoBlock` is the assert of a caller that got nothing.

`Timers`. `checker` creates the two timers, then `dlcTimerProc`, `Fire` or `Pass`
for each timer of the list, and `Sleep` repeat. `Tick` lets time pass anywhere.

## 3. What is checked

| Run | Instance | Shows |
|---|---|---|
| `dlchecker` | `Monitor` with 2 threads, 2 mutexes, queues of 2 events, 2 event queues, 4 arcs | the ten properties below |
| `misuse` | `OtherCalls` with 2 threads, one error-checking mutex that is awaited and may be filtered, one recursive mutex that is also tried | what other programs do to the graph and to the process |
| `lfqueue` | a queue asked for 5 slots (it gets 4), counters modulo 8, batches of 1 to 3, two values | FIFO, no overrun |
| `detector` | 3 threads, 2 mutexes, 2 buckets, all hash codes, symmetric | search, marks, report |
| `registry` | 3 threads, ids 1 to 3, a table of 2 buckets | nothing lost, skipped or refused without cause |
| `heap` | 32 units with headers, requests of 1, 2, 3 and 7 | the heap's algorithm |
| `mempool` | 3 threads, a pool of 3 blocks | no block given out twice, none lost |
| `lfqueue_weak`, `missed`, `failed_call`, `reused`, `gc` | small | five disagreements of code and documentation, see 5 |

The properties of the core:

- `GraphLagsByQueue`: for every thread, the handlers can take its queued events
  one by one, and what the graph shows of it after that is what the thread did.
- `EndedOnlyByLimits`: when the process is ended, it is for lack of space, and no
  space has leaked. The dispatcher's assert (`dispatcher.c:22`) fails only for a
  full queue; a pool is empty only if it is too small for the threads that have
  locked, the mutexes they have asked for, and the arcs of what is wanted, held
  or still queued. The graph keeps nothing else (`NothingWasted`). No other assert
  of the handlers, of the arcs, of the dispatcher or of the tracker ever fails (for
  mutexes that are not error-checking).
- `ExactAtRest`: about threads with empty queues, the graph shows a cycle if and
  only if these threads are deadlocked. About a thread with queued events the
  graph may be wrong both ways, and a report may be too.
- `SharedOwnerOnlyByLag`: a mutex is shown with two owners only while a release
  event is on its way (the repository's README tells of this in 5.3).
- `FollowsProtocol`: the whole implements `GraphProtocol`.
- `FoundIsDeadlock`: no false alarm. The threads of a component that a check has
  found are deadlocked, unless one of them has an event in its queue.
- `CircleIsMissedOnce`: a check finds every drained circle of waiting threads on
  which no earlier check has left a mark, all its threads in one component, and
  it leaves no mark on any drained circle: at the latest the second check finds
  it. (*Drained*: the queues of its threads are empty.)
- `FollowsCheckedGraph`: the whole implements `CheckedGraph`, which `Detector`
  implements too: the checks beside the threads are those of the algorithm.
- `DeadlockFound`: threads that wait for one another in a circle are in the end
  found by a check, together in one component, whatever marks earlier checks
  have left and however checks, events and other threads are interleaved.

Of other programs (`misuse`):

- `Isolation`: what a thread does wrong stays its own affair. The graph lags by
  exactly the queued events behind every thread that has announced nothing too
  much and nothing too little, also if it got mutexes by trylock, waits for a
  condition, or had a whole call filtered out, and whatever the others do.
- `NoFalseAlarm`: threads without mistakes and with drained queues that the
  graph shows waiting for one another are deadlocked. Unlike `ExactAtRest` this
  is one direction only: a deadlock with a mutex that was taken by trylock, or
  that a thread wants back after a condition wait, is not seen.
- `OnlyCulpritsAbort`: an assert ends the process only at a step, or at an event,
  of the thread that is to blame; a thread that keeps to the rules is never
  stopped by an event of its own. To blame is a thread that has announced
  something too much: failed calls of error-checking mutexes, a second lock of a
  recursive mutex, an unlock after a trylock, a filter that is changed or
  destroyed between two parts of a call. Also one that has left something out (a
  filter that sets in within a call): after a missing hold event it stays in
  `requestThreadMap`, so that its next wait event fails at `eventLoop.c:119-120`;
  after a missing release event the arc of the mutex stays, and its next hold
  event of that mutex fails in `addEdge`. And one that unlocks before it has ever
  locked, after a trylock: `generateReleaseEvent` asserts (`trait.c:261`) before
  it asks the filter.

Of the queue: `SlotsDisjoint`, `NoOverrun`, and `IsFifo`, the refinement of
`Fifo` with the published slots as its content.

Of the detector: `SearchIsExact` (tarjan finds exactly the components of the
graph without the vertices left marked), `CycleIsMissedOnce` (no vertex of a
cycle is left marked, so the next check finds a cycle that was hidden),
`ReportIsTheCycle` (the walk of the report stays in the component and comes back
to a vertex, also where a mutex has two owners; where it has not, the walk is the
whole cycle), `FollowsProtocol` (here the refinement of `CheckedGraph`:
the arcs go through the steps of `GraphProtocol`, and what a check finds and
leaves marked is what `Search` says).

Of the registry: `NoEntryLost` (threads that register at the same time),
`PassIsComplete` (a pass beside registrations serves every older queue),
`RefusedOnlyOnReuse` (the assert on a key that exists fails only if the kernel
has reused a thread id), `EveryQueueServed` (no thread starves at the spin lock,
and its queue is served in the end).

Of the heap: `LiveDisjoint`, `ListConsistent`, `LowestFree`, `FailsOnlyIfFull`,
`EmptyIsOneBlock` (when everything has been freed, the heap is one free block
again), `AssertsHold`.

Of a pool: `BlocksDisjoint` (no two callers have the same block, and what they
have can be given back), `ListIsWhole` (between two calls the free list runs
through exactly the blocks that nobody has, and the counter counts them),
`RefusesOnlyIfEmpty`, `AssertsHold`.

**Bounds.** Two threads and two mutexes give self-locks, crossed locking,
hand-over of a mutex, shared owners by lag and an exhausted arc pool; a queue of
two events is often full and still holds a release and the next wait. For
`EndedOnlyByLimits` queues fill and arcs run out; the other pools are as large as
what two threads and two mutexes need, so that a vertex too many would be seen,
and the theorem has them of any size. Queue size
4 (1.8 million states) and three threads (13.6 million, safety only) were
checked by hand once with the same result, and what can be proved is proved for
all sizes. Counters modulo 8 over a ring of 4 wrap every two rounds, and every
relation of the two counters occurs. In `misuse`, a queue of one event is enough
for each kind of wrong event to wait there while others happen (of full queues and pools nothing is asked there), and a
recursive mutex locked `MaxDepth` = 2 times is the case that matters. In
`mempool`, three blocks make a list with a first, a middle and a last one, and
three threads can each be in a call, exhaust the pool, and give back in any
order. In `detector`, three threads and two mutexes give cycles of one and two
threads, a third thread waiting outside, shared owners and marks left over from
threads that later join a cycle. Three threads with the ids 1 to 3 in two
buckets share a bucket, race in it, and reuse an id. The heap of `heap` holds
four of the smallest blocks and some more, so that a block can be freed between
any pattern of neighbours, at both ends, and split or not by one unit. Three
threads in one bucket or two come to the request map in every order, and leave
it from every place in a chain. Capacity bounds stand for the constants of
`internal.h:27-44`. Deadlock is checked except where the process may abort or
its threads block for ever (`dlchecker`, `misuse`, `registry`, `mempool`), and
in `heap`, where there is nothing left to do when the heap is full.

**Fairness.** The checker is an endless loop (`trait.c:157-161`) that sleeps
between two rounds but always comes back: `Monitor` and `Registry` (for
`EveryQueueServed`) assume weak fairness of its steps, and also of a thread inside
an interposed call, which goes on as soon as the native function lets it.
`checkTimerProc` is strongly fair: the check timer is cyclic (`timer.c`), so it
fires again and again, but only between two passes, and passes begin and end for
ever. Nothing forces a thread to lock or to unlock, and nothing says which of
several waiting threads gets a mutex.

**Faulty variants.** Definitions whose comment says *Faulty variant* are slips
a programmer could make; nothing uses them. `PROJECT.json` pairs each property
with a variant that breaks it when it takes the place of the right definition.

## 4. What is proved

The proof modules hold proofs that TLAPS checks, for every set of threads and
mutexes, every pool, table, queue and heap size, every width of the counters. Nothing
is assumed but the ASSUMEs of the modules and what the table says. `ErrorCheck =
{}` means a program without error-checking mutexes: with them the process may be
ended by an assert, and `EndedOnlyByLimits` is false; what holds then is
`OnlyCulpritsAbort`, of `OtherCalls`.

| Module | Theorem | Says | Assumes |
|---|---|---|---|
| `DlCheckerProofs` | `TypeCorrect` | `Spec => []TypeOK` | |
| | `EndedOnlyByLimitsHolds` | `[]EndedOnlyByLimits` | `ErrorCheck = {}` |
| | `GraphLagsByQueueHolds` | `[]GraphLagsByQueue` | `ErrorCheck = {}` |
| | `SharedOwnerHolds` | `[]SharedOwnerOnlyByLag` | `ErrorCheck = {}` |
| | `ExactAtRestHolds` | `[]ExactAtRest` | `ErrorCheck = {}` |
| | `Refinement` | `Spec => FollowsProtocol` | `ErrorCheck = {}` |
| `MonitorProofs` | `MonitorImplementsCore` | `MonitorSpec => Spec` | |
| | `MonitorKeepsCore` | the theorems above, of the whole | `ErrorCheck = {}` |
| | `FoundIsDeadlockHolds` | `[]FoundIsDeadlock` | `ErrorCheck = {}` |
| | `CircleIsMissedOnceHolds` | `CircleIsMissedOnce` | `ErrorCheck = {}` |
| | `CircleLasts` | no step ends a circle of waiting threads | |
| | `FollowsCheckedGraphHolds` | `MonitorSpec => FollowsCheckedGraph` | `ErrorCheck = {}` |
| `OtherCallsProofs` | `TypeCorrect` | `[]TypeOK` | |
| | `IsolationHolds` | `[]Isolation` | |
| | `NoFalseAlarmHolds` | `[]NoFalseAlarm` | |
| | `OnlyCulpritsAbortHolds` | `Spec => OnlyCulpritsAbort` | |
| `LFQueueProofs` | `TypeCorrect` | `[]TypeOK` | |
| | `NoOverrunHolds`, `SlotsDisjointHolds` | `[]NoOverrun`, `[]SlotsDisjoint` | |
| | `IsFifoHolds` | `Spec => IsFifo` | |
| `MemPoolProofs` | `TypeCorrect`, `BlocksDisjointHolds`, `ListIsWholeHolds`, `AssertsHoldAlways` | `[]TypeOK`, `[]BlocksDisjoint`, `[]ListIsWhole`, `[]AssertsHold` | |
| | `RefusesOnlyIfEmptyHolds` | `RefusesOnlyIfEmpty` | |
| `RegistryProofs` | `TypeCorrect`, `NoEntryLostHolds`, `PassIsCompleteHolds`, `RefusedOnlyOnReuseHolds` | `[]TypeOK`, `[]NoEntryLost`, `[]PassIsComplete`, `[]RefusedOnlyOnReuse` | finitely many threads (an ASSUME of `Registry`) |
| `HeapProofs` | `TypeCorrect`, `LiveDisjointHolds`, `ListConsistentHolds`, `LowestFreeHolds` | `[]TypeOK`, `[]LiveDisjoint`, `[]ListConsistent`, `[]LowestFree` | |
| | `FailsOnlyIfFullHolds`, `EmptyIsOneBlockHolds`, `AssertsHoldAlways` | `[]FailsOnlyIfFull`, `[]EmptyIsOneBlock`, `[]AssertsHold` | |

The arguments, one by one.

**The core.** The heart is that a thread *lags by its queue*: the queue of `t`
*leads* from what the graph shows of `t` to what `t` has announced. `Leads` is
stated with the effect of the first i events in closed form (`RequestedAfter`,
`OccupiedAfter`) rather than by recursion, so that the provers can work with it.
Two lemmas of `EventGraphProofs` carry the weight: `LeadsAppend` (an event that
fits the end of the queue extends it) for the actions of the threads,
`LeadsTail` (the first event is acceptable and the rest leads on from its effect)
for the checker. Threads do not disturb each other, because a handler changes
only arcs from or to the thread of its event. The inductive invariant `IInv` adds
what makes this go through: the point of a call agrees with the owners of the
mutexes, the request map is the set of threads with a request arc, every thread
and mutex of a queued event that is not a wait has its vertex, and the count of a
pass never exceeds the queue. All conjuncts of `IInv` but the types are under
`Running` or about `abort`: for `EndedOnlyByLimits` the reason for which a step
ends the process (`AbortIInv`) is kept as a fact about the state it leaves, as
nothing changes afterwards. That a vertex or an arc is taken only for what needs
one is `VerticesNeeded` and `LeadsBacks`: what the graph shows of a thread is what
the thread has said, or something that a queued event takes back. The safety properties follow from `IInv` without
further induction; `Refinement` maps each action to a step of the protocol or a
stutter.

**The whole.** A check changes nothing of the core. That a component of the graph
is a knot of threads and mutexes that wait for one another is a matter of
reachability (`ReachedLeast`, `ReachedFurther` and the lemmas after them); with
`ExactAtRest` a drained one is a deadlock. `found` stays true of the present
graph until an event is handled (`FoundInv`), and no thread can leave a deadlock
meanwhile. For `CircleIsMissedOnce`: in a drained circle each vertex has exactly
one arc out of it, so that what can be reached from one vertex is the circle
itself, unless a mark is in the way; and `Cleared` contains every vertex of it,
the threads as requesters, the mutexes as their successors. `CircleLasts` adds
that a circle never ends. What is missing between these and `DeadlockFound` is
only that the queues are drained and the check made twice: liveness.

**Other programs.** The same argument for one thread at a time, which is why
`EventGraphProofs` states its lemmas for one: `IInv` is only about the threads
whose `mistake` is still `"none"`, and the proof shows that no event of a thread
with a mistake, at any of the asserts, can change what the graph says of another.
`OnlyCulpritsAbort` is its other side: the first event in the queue of a thread
without a mistake leads on (`LeadsTail`), so that its handler fails for lack of
space or not at all.

**The queue.** `NoOverrun` is inductive only with the counters that a call has
read: they may be old, but bound the present ones from the safe side. `CopiedIn`
and `CopiedOut` say what the slots hold half way through a copy; that the copy
of one side leaves the other's slots alone is modular arithmetic (`SlotApart`,
`SlotWraps`): counters less than a ring apart are in different slots, for every
width that is a multiple of the size.

**The pools.** `ListInv`: in every state, also within a call, the free list is a
sequence without repetition that runs through exactly the blocks in nobody's
hands (`Chain`); the call that holds the lock shortens or extends it at the front
in a single store. `CountInv` says by how much the counter is behind meanwhile.

**The registry.** `TableInv` says how each bucket's chain is made of the entries of
those threads that are past `Link`, `NumberInv` how far the two counts have come,
`PassInv` that a queue which was due is served, or still ahead of the iterator in
the rest of its chain or in a later bucket (or its entry has been taken over by a
thread with a reused id): new entries come to the front of a
chain, so the iterator misses only what is newer than the pass.

**The heap.** For any size of the heap, of a header, of the smallest block and of
the requests; that a header is longer than the smallest block does not matter. The
properties of the model speak of `Blocks`, what a walk along the links meets; the
inductive invariant speaks of the offsets that have a header (`Heads`), each
linked to the next higher one and back (`Whole`). That the two are the same is
`BlocksAre`: the links lead upwards, so the walk ends, and `Blocks` satisfies
its recursion (`BlocksUnfold`). There is no induction over data here; both are
shown with a least counterexample (`LeastNumber`). The rest of `IInv`: no two free
blocks side by side (`Plugged`), which makes a release combine with one block on
each side and no more; every caller has a block of his own and no other block is
in use (`Owned`); `used` is the size of the union of the blocks in use, so that a
block that comes or goes makes a difference of its extent (`InUseDiffers`).
`JoinKeeps`, `SplitKeeps` and `MarkKeeps` say what a single change does to the links,
and the actions are built from them. That the scan from `heapFree` misses nothing
is `CandidatesAre`. `FreeIInv` shows in passing that the two updates of
`heapFree` in `memPlugHoles` (`LowestAfter`) never change it: no free block is
lower than `heapFree`, and of the two blocks that are combined the lower one stays.

Only model-checked: liveness (`DeadlockFound`, `EveryQueueServed`); everything in `Detector`, whose search is recursive, and with
it that the algorithm implements `CheckedGraph`; the runs that show a
disagreement.

## 5. Where code and documentation disagree

1. `trait.c:115-126` announces hold and release whatever the native function
   returned; the README's flow (lines 111-114, 123-126) announces only success
   (`OnlySuccessIsAnnounced`, run `failed_call`). What follows from it concerns the
   thread that made the failing call and nobody else: `Isolation` and
   `OnlyCulpritsAbort` of the run `misuse`.
2. `lfqueue.c:4-6` says that no extra locking is needed; without an acquire
   fence in `lfqueueGet` that is not so on processors that reorder loads
   (`lfqueue_weak`).
3. `eventLoop.c:359` reports cycles only if the first component found is one;
   the README (line 197) says that a cycle is reported if there is one (`missed`).
4. `report.c:93` and `report.c:101` print "holds" for a request and "waits" for
   a held mutex. The sample in the README's section 3 shows it: the direction
   that the text below it infers is the opposite of that of the arcs. Found by
   reading: the words are not modelled.
5. `eventLoop.c:242` iterates over `eventQueueMap` without the lock under which
   the README (line 164) shows the lookup, while entries are linked before they
   are filled (`hashMap.c:144`). `reused` shows the value that a reused block of
   the heap held, `(void *)1`, being taken for a queue. With cleared blocks the
   iteration is harmless (run `registry`).
6. `trait.c:152` gives the garbage collection timer no callback and `trait.c:315`
   asserts that there is one: the program is aborted after 100 periods (`gc`),
   where the README (line 197) has a checker that goes on for ever.

## 6. What is left, and what is not modelled

The plan is carried out: what `DlChecker`, `Monitor`, `OtherCalls`, `LFQueue`,
`MemPool`, `Registry` and `Heap` promise for safety is proved. What stays with TLC
is liveness and the search of `Detector`. To bring the latter into reach its
recursion would have to become a stack and steps, with an invariant about `dfn` and
`low` of the vertices on the stack.

Not modelled:

- Two callers in the heap at once. `mem.c` has no lock, so that every property
  of `Heap` would be lost to that alone.
- The memory order of the spin lock, whose operations are relaxed
  (`spinlock.c:29`, `39`). `LFQueueWeak` has the same question for the queue,
  where it is decided by two loads; here it depends on which of the stores of
  `hashMap.c` the compiler and the processor move past the release.
- Calls before `initDeadlockChecker`. Each ends the process at an assert
  (`dispatcher.c:47`, `mem.c:129`).
- What follows `trait.c:315` in the garbage collection: it is not reached.
- One-shot timers: the program creates none.

Left out for good: backtraces, names, logging and statistics (no property is
about them); `demo.c` and `test.c` (programs that use the library); the macOS
variants. The limits are constants of the models, so that no run speaks of their
values; `internal.h:41` gives 512 mutex vertices where the README (line 372)
promises 1024 locks. What holds for every value is `EndedOnlyByLimits`: as long as
there are no more threads and mutexes than the pools have blocks for vertices,
these pools are never empty.
