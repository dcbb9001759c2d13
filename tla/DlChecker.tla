----------------------------- MODULE DlChecker -----------------------------
(***************************************************************************)
(* The core of dlChecker: the threads of Tracker produce lock events, the  *)
(* checker thread drains the queues into the wait-for graph of LockGraph.  *)
(*                                                                         *)
(* One pass of eventLoopEnter iterates over eventQueueMap.  For each queue *)
(* it first reads how many events are there, then takes that many, one at  *)
(* a time, while the threads go on producing; events that arrive meanwhile *)
(* wait for the next pass.  The order of the queues is that of the hash    *)
(* map, so it is left open.                                                *)
(***************************************************************************)
EXTENDS EventGraph

VARIABLES
  todo,   \* the queues that this pass has still to visit
  cur,    \* the thread whose queue is being drained
  num     \* how many of its events are still to be taken in this pass

passVars == <<todo, cur, num>>
vars == <<abort, trackerVars, graphVars, passVars>>

\* The types, and what eventLoopEnter relies on between two events of a pass: a
\* queue is being drained exactly as long as events of it are to be taken.
TypeOK ==
  /\ abort \in AbortReason
  /\ TrackerTypeOK
  /\ GraphTypeOK
  /\ todo \subseteq registered
  /\ cur \in registered \cup {NoThread}
  /\ num \in Nat
  /\ (cur = NoThread) <=> (num = 0)

Init ==
  /\ abort = "none"
  /\ TrackerInit
  /\ GraphInit
  /\ todo = {}
  /\ cur = NoThread
  /\ num = 0

InPass == todo # {} \/ cur # NoThread
-----------------------------------------------------------------------------
(* The threads *)

\* A thread's first call enters its queue into eventQueueMap.  A pass that is
\* under way meets the new entry or does not, depending on the hash bucket.
EnterMap(t) ==
  /\ \/ UNCHANGED todo
     \/ InPass /\ registered' # registered /\ todo' = todo \cup {t}
  /\ UNCHANGED <<graphVars, cur, num>>

Lock(t, m) == generateWaitEvent(t, m, m \in Filtered) /\ EnterMap(t)

Unlock(t, m) == nativeUnlock(t, m) /\ UNCHANGED <<graphVars, passVars>>

\* A thread inside an interposed call goes on with it.
Proceed(t) ==
  /\ \/ nativeLock(t)
     \/ generateHoldEvent(t, target[t] \in Filtered)
     \/ generateReleaseEvent(t, target[t] \in Filtered)
  /\ UNCHANGED <<graphVars, passVars>>
-----------------------------------------------------------------------------
(* The checker *)

StartPass ==
  /\ Running
  /\ ~InPass
  /\ todo' = registered
  /\ UNCHANGED <<abort, trackerVars, graphVars, cur, num>>

\* Faulty variant: a do-while loop over an empty queue.
VisitAtLeastOne(t) ==
  /\ Running
  /\ cur = NoThread
  /\ t \in todo
  /\ todo' = todo \ {t}
  /\ num' = Len(queue[t])
  /\ cur' = t
  /\ UNCHANGED <<abort, trackerVars, graphVars>>

\* num = eventQueueUsed(eq)
Visit(t) ==
  /\ Running
  /\ cur = NoThread
  /\ t \in todo
  /\ todo' = todo \ {t}
  /\ num' = Len(queue[t])
  /\ cur' = IF queue[t] = <<>> THEN NoThread ELSE t
  /\ UNCHANGED <<abort, trackerVars, graphVars>>

\* assert(1 == eventQueueGet(eq, &ev)); eventHandler(&ev); num--
HandleEvent ==
  /\ Running
  /\ cur # NoThread
  /\ IF queue[cur] = <<>>
       THEN Fail("assertion") /\ UNCHANGED <<queue, cur, num>>
       ELSE /\ eventHandler(cur, Head(queue[cur]))
            /\ queue' = [queue EXCEPT ![cur] = Tail(@)]
            /\ num' = num - 1
            /\ cur' = IF num = 1 THEN NoThread ELSE cur
  /\ UNCHANGED <<pc, target, owner, registered, todo>>

Check == StartPass \/ HandleEvent \/ \E t \in Thread : Visit(t)
-----------------------------------------------------------------------------
Next ==
  \/ \E t \in Thread, m \in Mutex : Lock(t, m) \/ Unlock(t, m)
  \/ \E t \in Thread : Proceed(t)
  \/ Check

Spec == Init /\ [][Next]_vars
-----------------------------------------------------------------------------
CatchesUp(t) == Leads(Requested(t), Occupied(t), queue[t], Wants(t), Holds(t))

\* The graph lags behind each thread by exactly the events in that thread's
\* queue: the handlers of eventLoop.c can take them in order, and when they
\* have, the graph shows what the thread did.  No event is lost, doubled or
\* out of order between trait.c and vertex.c.
GraphLagsByQueue == Running => \A t \in Thread : CatchesUp(t)

Queued(t, ev) == \E i \in 1..Len(queue[t]) : queue[t][i] = ev

\* The graph has nothing that the program does not account for: a vertex of a
\* thread that has locked, or of a mutex that is not filtered; an arc for what a
\* thread wants or holds, or whose end is still in its queue.
NothingWasted ==
  /\ vertexThreadMap \subseteq registered
  /\ vertexMutexMap \cap Filtered = {}
  /\ \A t \in Thread, m \in Mutex :
       /\ <<t, m>> \in edges => m \in Wants(t) \/ Queued(t, hold(m))
       /\ <<m, t>> \in edges => m \in Holds(t) \/ Queued(t, release(m))

\* A pool that is empty for somebody who has nothing of it yet.
AtLimit ==
  \/ registered # Thread /\ Cardinality(registered) >= MaxEventQueue
  \/ \E t \in registered : Cardinality(vertexThreadMap \cup {t}) > MaxThreadVertex
  \/ \E m \in Mutex \ Filtered : Cardinality(vertexMutexMap \cup {m}) > MaxMutexVertex
  \/ Cardinality(edges) >= MaxArc

\* When dlChecker ends the process it is for lack of space, and no space has
\* leaked.  dispatcher.c:22 fails for a full queue; dispatcherInit, eventLoop.c:93
\* and 106 and arcCreate fail for a pool that is too small for the threads and the
\* mutexes that were locked and for what is wanted, held or still queued.  No
\* other assert() or abort() of the handlers, of addEdge, deleteEdge,
\* eventLoopEnter, dispatcherInvoke or trait.c's three event functions ever fires.
\* (For default mutexes: see ErrorCheck; for thread ids that are not used again:
\* see Registry.)
EndedOnlyByLimits ==
  /\ abort # "assertion"
  /\ abort = "queueFull" => \E t \in Thread : Full(t)
  /\ abort = "poolEmpty" => AtLimit
  /\ NothingWasted

\* The answer of a deadlock check is right about threads whose queues are
\* drained: the graph shows that they wait for one another if and only if they
\* are deadlocked.  About a thread with queued events it may be wrong, both
\* ways.
ExactAtRest ==
  Running =>
    \A D \in SUBSET Thread :
      (/\ \A t \in D : queue[t] = <<>>
       /\ \A t \in D : target[t] \notin Filtered)
      => (Knot(D) <=> Deadlocked(D))

\* The thread has unlocked the mutex and the graph does not know it yet.
Releasing(t, m) ==
  \/ Queued(t, release(m))
  \/ pc[t] = "unlocked" /\ target[t] = m

\* The graph may show a mutex occupied by two threads, because the queues are
\* drained one after the other (README 5.3); then all of them but one have
\* released it already, and their queues or their calls say so.
SharedOwnerOnlyByLag ==
  Running =>
    \A m \in Mutex : \A t, u \in Thread :
      t # u /\ <<m, t>> \in edges /\ <<m, u>> \in edges
        => Releasing(t, m) \/ Releasing(u, m)

\* README 2.3 puts an acquire or a release message into the queue only if the
\* native function has returned 0.  trait.c does not look at the result, so this
\* fails for a mutex whose native functions may return an error.
OnlySuccessIsAnnounced ==
  [][\A t \in Thread, m \in Mutex :
       /\ queue'[t] = Append(queue[t], hold(m)) => pc[t] = "locked"
       /\ queue'[t] = Append(queue[t], release(m)) => pc[t] = "unlocked"]_vars

Protocol == INSTANCE GraphProtocol

\* For all its queues, lag and interleaving, what the graph goes through is a
\* run of the abstract protocol: no handler of eventLoop.c is ever given an
\* event that the graph is not ready for.
FollowsProtocol == Protocol!Spec
=============================================================================
