-------------------------- MODULE DlCheckerProofs --------------------------
(***************************************************************************)
(* Theorems about DlChecker.                                               *)
(***************************************************************************)
EXTENDS DlChecker, EventGraphProofs

(***************************************************************************)
(* Type correctness.  It needs that a thread inside a call knows its mutex. *)
(***************************************************************************)
TargetKnown == \A t \in Thread : pc[t] # "idle" => target[t] \in Mutex

TypeInv == TypeOK /\ TargetKnown

LEMMA InitType == Init => TypeInv
  BY ProcessAssumption
     DEF Init, TypeInv, TypeOK, TrackerTypeOK, GraphTypeOK, TargetKnown, Event,
         TrackerInit, GraphInit, AbortReason, Point

\* What every operator below is about.
LEMMA PutType ==
  ASSUME TypeInv, NEW t \in Thread, NEW ev \in Event, Put(t, ev)
  PROVE  queue' \in [Thread -> Seq(Event)]
  BY DEF TypeInv, TypeOK, TrackerTypeOK, Put

LEMMA LockType ==
  ASSUME TypeInv, NEW t \in Thread, NEW m \in Mutex, Lock(t, m)
  PROVE  TypeInv'
<1>1. CASE Abort("poolEmpty") \/ Abort("queueFull")
  BY <1>1 DEF Lock, EnterMap, Abort, trackerVars, graphVars, TypeInv, TypeOK, TrackerTypeOK,
              GraphTypeOK, TargetKnown, AbortReason
<1>2. CASE /\ IF m \in Filtered THEN UNCHANGED queue ELSE ~Full(t) /\ Put(t, wait(m))
           /\ registered' = registered \cup {t}
           /\ Go(t, "locking", m)
           /\ UNCHANGED <<owner, abort>>
  <2>1. queue' \in [Thread -> Seq(Event)]
    BY <1>2, PutType, EventTypes DEF TypeInv, TypeOK, TrackerTypeOK
  <2>2. pc' \in [Thread -> Point] /\ target' \in [Thread -> Mutex \cup {NoMutex}]
    BY <1>2 DEF Go, Point, TypeInv, TypeOK, TrackerTypeOK
  <2>3. TargetKnown'
    BY <1>2 DEF Go, TargetKnown, TypeInv, TypeOK, TrackerTypeOK
  <2>4. todo' \subseteq registered'
    BY <1>2 DEF Lock, EnterMap, TypeInv, TypeOK
  <2> QED
    BY <1>2, <2>1, <2>2, <2>3, <2>4
       DEF Lock, EnterMap, graphVars, TypeInv, TypeOK, TrackerTypeOK, GraphTypeOK
<1> QED
  BY <1>1, <1>2 DEF Lock, EnterMap, generateWaitEvent

LEMMA UnlockType ==
  ASSUME TypeInv, NEW t \in Thread, NEW m \in Mutex, Unlock(t, m)
  PROVE  TypeInv'
<1>1. /\ pc' \in [Thread -> Point]
      /\ target' \in [Thread -> Mutex \cup {NoMutex}]
      /\ TargetKnown'
  BY ZenonT(60) DEF Unlock, nativeUnlock, Go, Point, TypeInv, TypeOK, TrackerTypeOK, TargetKnown
<1>2. owner' \in [Mutex -> Thread \cup {NoThread}]
  BY DEF Unlock, nativeUnlock, TypeInv, TypeOK, TrackerTypeOK
<1> QED
  BY <1>1, <1>2
     DEF Unlock, nativeUnlock, graphVars, passVars, TypeInv, TypeOK, TrackerTypeOK, GraphTypeOK

LEMMA ProceedType ==
  ASSUME TypeInv, NEW t \in Thread, Proceed(t)
  PROVE  TypeInv'
<1>1. pc[t] # "idle" /\ target[t] \in Mutex
  BY DEF Proceed, nativeLock, generateHoldEvent, generateReleaseEvent, TypeInv, TargetKnown
<1>2. CASE nativeLock(t)
  <2>1. /\ pc' \in [Thread -> Point]
        /\ target' \in [Thread -> Mutex \cup {NoMutex}]
        /\ TargetKnown'
    BY <1>1, <1>2 DEF nativeLock, Go, Point, TypeInv, TypeOK, TrackerTypeOK, TargetKnown
  <2>2. owner' \in [Mutex -> Thread \cup {NoThread}]
    BY <1>1, <1>2 DEF nativeLock, TypeInv, TypeOK, TrackerTypeOK
  <2> QED
    BY <1>2, <2>1, <2>2 DEF nativeLock, Proceed, graphVars, passVars, TypeInv, TypeOK,
                            TrackerTypeOK, GraphTypeOK
<1>3. CASE Abort("assertion") \/ Abort("queueFull")
  BY <1>3 DEF Proceed, Abort, trackerVars, graphVars, passVars, TypeInv, TypeOK,
              TrackerTypeOK, GraphTypeOK, TargetKnown, AbortReason
<1>4. CASE /\ \/ UNCHANGED queue
              \/ \E ev \in Event : Put(t, ev)
           /\ Go(t, "idle", NoMutex)
           /\ UNCHANGED <<owner, registered, abort>>
  <2>1. queue' \in [Thread -> Seq(Event)]
    BY <1>4, PutType DEF TypeInv, TypeOK, TrackerTypeOK
  <2>2. /\ pc' \in [Thread -> Point]
        /\ target' \in [Thread -> Mutex \cup {NoMutex}]
        /\ TargetKnown'
    BY <1>4 DEF Go, Point, TypeInv, TypeOK, TrackerTypeOK, TargetKnown
  <2> QED
    BY <1>4, <2>1, <2>2 DEF Proceed, graphVars, passVars, TypeInv, TypeOK, TrackerTypeOK,
                            GraphTypeOK
<1>5. CASE generateHoldEvent(t, target[t] \in Filtered)
  BY <1>1, <1>3, <1>4, <1>5, EventTypes DEF generateHoldEvent
<1>6. CASE generateReleaseEvent(t, target[t] \in Filtered)
  BY <1>1, <1>3, <1>4, <1>6, EventTypes DEF generateReleaseEvent
<1> QED
  BY <1>2, <1>5, <1>6 DEF Proceed

LEMMA HandleEventType ==
  ASSUME TypeInv, HandleEvent
  PROVE  TypeInv'
<1>1. cur \in Thread /\ cur \in registered /\ num \in Nat /\ num # 0
  BY DEF HandleEvent, TypeInv, TypeOK, TrackerTypeOK
<1>2. CASE queue[cur] = <<>>
  BY <1>2 DEF HandleEvent, Fail, graphVars, TypeInv, TypeOK, TrackerTypeOK, GraphTypeOK,
              TargetKnown, AbortReason
<1>3. CASE queue[cur] # <<>>
  <2>1. queue[cur] \in Seq(Event) /\ Head(queue[cur]) \in Event /\ Tail(queue[cur]) \in Seq(Event)
    BY <1>1, <1>3 DEF TypeInv, TypeOK, TrackerTypeOK
  <2>2. abort' \in AbortReason /\ GraphTypeOK'
    BY <1>1, <1>3, <2>1, HandlerType DEF HandleEvent, TypeInv, TypeOK
  <2>3. queue' \in [Thread -> Seq(Event)]
    BY <1>1, <1>3, <2>1 DEF HandleEvent, TypeInv, TypeOK, TrackerTypeOK
  <2>4. /\ cur' \in registered' \cup {NoThread}
        /\ num' \in Nat
        /\ (cur' = NoThread) <=> (num' = 0)
    BY <1>1, <1>3 DEF HandleEvent
  <2> QED
    BY <1>3, <2>2, <2>3, <2>4 DEF HandleEvent, TypeInv, TypeOK, TrackerTypeOK, TargetKnown
<1> QED
  BY <1>2, <1>3

LEMMA VisitType ==
  ASSUME TypeInv, NEW t \in Thread, Visit(t)
  PROVE  TypeInv'
<1>1. queue[t] \in Seq(Event) /\ Len(queue[t]) \in Nat /\ (queue[t] = <<>> <=> Len(queue[t]) = 0)
  BY DEF TypeInv, TypeOK, TrackerTypeOK
<1>2. /\ todo' \subseteq registered'
      /\ cur' \in registered' \cup {NoThread}
      /\ num' \in Nat
      /\ (cur' = NoThread) <=> (num' = 0)
  BY <1>1, ProcessAssumption DEF Visit, trackerVars, TypeInv, TypeOK
<1> QED
  BY <1>2 DEF Visit, trackerVars, graphVars, TypeInv, TypeOK, TrackerTypeOK, GraphTypeOK,
              TargetKnown

LEMMA NextType == TypeInv /\ [Next]_vars => TypeInv'
<1> SUFFICES ASSUME TypeInv, [Next]_vars
             PROVE  TypeInv'
  OBVIOUS
<1>1. CASE \E t \in Thread, m \in Mutex : Lock(t, m) \/ Unlock(t, m)
  BY <1>1, LockType, UnlockType
<1>2. CASE \E t \in Thread : Proceed(t)
  BY <1>2, ProceedType
<1>3. CASE StartPass
  BY <1>3 DEF StartPass, trackerVars, graphVars, TypeInv, TypeOK, TrackerTypeOK, GraphTypeOK,
              TargetKnown
<1>4. CASE HandleEvent
  BY <1>4, HandleEventType
<1>5. CASE \E t \in Thread : Visit(t)
  BY <1>5, VisitType
<1>6. CASE UNCHANGED vars
  BY <1>6 DEF vars, trackerVars, graphVars, passVars, TypeInv, TypeOK, TrackerTypeOK,
              GraphTypeOK, TargetKnown
<1> QED
  BY <1>1, <1>2, <1>3, <1>4, <1>5, <1>6 DEF Next, Check

\* Every variable of the core keeps its type, in every execution: the queues
\* hold events only, the checker drains registered threads only, and it is
\* between two queues exactly when no event is left to take.
THEOREM TypeCorrect == Spec => []TypeOK
<1>1. TypeInv => TypeOK
  BY DEF TypeInv
<1> QED
  BY <1>1, InitType, NextType, PTL DEF Spec
-----------------------------------------------------------------------------
(***************************************************************************)
(* What ends the process.  The inductive invariant says, beside the        *)
(* types, where a thread inside a call stands with the native mutex, that  *)
(* the maps of the graph agree with its arcs, that a pass takes no more    *)
(* events than there are, that the graph lags behind every thread by       *)
(* exactly the events in its queue, and that vertices are made for threads *)
(* that lock and for mutexes that are not filtered only.  Of the state in  *)
(* which the process has ended it says what has ended it.                  *)
(***************************************************************************)
CallsConsistent ==
  /\ \A t \in Thread :
       /\ pc[t] \notin {"lockFailed", "unlockFailed"}
       /\ pc[t] = "locked" => owner[target[t]] = t
       /\ pc[t] = "unlocked" => owner[target[t]] # t
       /\ pc[t] # "idle" => t \in registered
  /\ \A m \in Mutex : owner[m] \in registered \cup {NoThread}

MapsConsistent == \A t \in Thread : ThreadConsistent(t)

PassConsistent == cur # NoThread => num <= Len(queue[cur])

\* Queued events and vertices are of mutexes that are not filtered.
Unfiltered ==
  /\ \A t \in Thread : \A i \in 1..Len(queue[t]) : queue[t][i].mutex \notin Filtered
  /\ vertexMutexMap \cap Filtered = {}

VerticesNeeded == vertexThreadMap \subseteq registered /\ Unfiltered

RunningInv ==
  /\ CallsConsistent
  /\ MapsConsistent
  /\ PassConsistent
  /\ VerticesNeeded
  /\ \A t \in Thread : CatchesUp(t)

NoAssertion == abort # "assertion"

IInv ==
  /\ TypeInv
  /\ NoAssertion
  /\ Running => RunningInv
  /\ ~Running => EndedOnlyByLimits

LEMMA InitIInv == Init => IInv
<1> SUFFICES ASSUME Init PROVE IInv
  OBVIOUS
<1>1. TypeInv
  BY InitType
<1>2. CallsConsistent /\ MapsConsistent /\ PassConsistent /\ NoAssertion /\ Running
  BY ProcessAssumption DEF Init, TrackerInit, GraphInit, CallsConsistent, MapsConsistent,
     ThreadConsistent, PassConsistent, Requested, NoAssertion, Running
<1>4. VerticesNeeded
  BY DEF Init, TrackerInit, GraphInit, VerticesNeeded, Unfiltered
<1>3. ASSUME NEW t \in Thread PROVE CatchesUp(t)
  <2>1. queue[t] = <<>> /\ Len(queue[t]) = 0
    BY DEF Init, TrackerInit
  <2>2. Wants(t) = {} /\ Requested(t) = {} /\ Holds(t) = {} /\ Occupied(t) = {}
    BY ProcessAssumption
       DEF Init, TrackerInit, GraphInit, Wants, Requested, Holds, Occupied
  <2> QED
    BY <2>1, <2>2 DEF CatchesUp, Leads, RequestedAfter, OccupiedAfter
<1> QED
  BY <1>1, <1>2, <1>3, <1>4 DEF IInv, RunningInv

LEMMA SameCatchesUp ==
  ASSUME NEW t \in Thread, CatchesUp(t), queue'[t] = queue[t],
         Requested(t)' = Requested(t), Occupied(t)' = Occupied(t),
         Wants(t)' = Wants(t), Holds(t)' = Holds(t)
  PROVE  CatchesUp(t)'
  BY DEF CatchesUp

\* A thread that announces what its view already accepts.
LEMMA PutCatchesUp ==
  ASSUME TypeInv, NEW t \in Thread, NEW ev \in Event,
         CatchesUp(t), Put(t, ev), UNCHANGED edges,
         Accepts(Wants(t), Holds(t), ev),
         Wants(t)' = NextRequested(ev),
         Holds(t)' = NextOccupied(Holds(t), ev)
  PROVE  CatchesUp(t)'
<1>1. queue[t] \in Seq(Event) /\ queue'[t] = Append(queue[t], ev)
  BY DEF TypeInv, TypeOK, TrackerTypeOK, Put
<1>2. Leads(Requested(t), Occupied(t), queue'[t], Wants(t)', Holds(t)')
  BY <1>1, LeadsAppend DEF CatchesUp
<1> QED
  BY <1>2, SameArcs DEF CatchesUp

\* The checker takes the first event of a thread and changes the graph by it.
LEMMA TakeCatchesUp ==
  ASSUME TypeInv, NEW t \in Thread, CatchesUp(t), queue[t] # <<>>,
         queue'[t] = Tail(queue[t]),
         Requested(t)' = NextRequested(Head(queue[t])),
         Occupied(t)' = NextOccupied(Occupied(t), Head(queue[t])),
         Wants(t)' = Wants(t), Holds(t)' = Holds(t)
  PROVE  CatchesUp(t)'
<1>1. queue[t] \in Seq(Event) /\ Occupied(t) \subseteq Mutex
  BY DEF TypeInv, TypeOK, TrackerTypeOK, Occupied
<1> QED
  BY <1>1, LeadsTail DEF CatchesUp

\* A step of one thread that leaves the other threads' views alone.
LEMMA OtherThreads ==
  ASSUME TypeInv, NEW t \in Thread, UNCHANGED edges,
         \A u \in Thread \ {t} : /\ pc'[u] = pc[u]
                                 /\ target'[u] = target[u]
                                 /\ queue'[u] = queue[u],
         \A m \in Mutex : owner'[m] = owner[m] \/ (owner[m] \in {t, NoThread} /\ owner'[m] \in {t, NoThread})
  PROVE  \A u \in Thread \ {t} : CatchesUp(u) => CatchesUp(u)'
<1> SUFFICES ASSUME NEW u \in Thread \ {t}, CatchesUp(u)
             PROVE  CatchesUp(u)'
  OBVIOUS
<1>1. Wants(u)' = Wants(u)
  BY DEF Wants
<1>2. \A m \in Mutex : (owner'[m] = u) <=> (owner[m] = u)
  BY ProcessAssumption
<1>3. Holds(u)' = Holds(u)
  BY <1>2 DEF Holds
<1> QED
  BY <1>1, <1>3, SameArcs, SameCatchesUp

LEMMA SameMaps ==
  ASSUME MapsConsistent, UNCHANGED graphVars
  PROVE  MapsConsistent'
  BY SameThread DEF MapsConsistent

LEMMA ThreadKeepsPass ==
  ASSUME TypeInv, PassConsistent, NEW t \in Thread, UNCHANGED <<cur, num>>,
         UNCHANGED queue \/ \E ev \in Event : Put(t, ev)
  PROVE  PassConsistent'
<1>1. ASSUME cur # NoThread PROVE queue[cur] \in Seq(Event) /\ num \in Nat /\ cur \in Thread
  BY <1>1 DEF TypeInv, TypeOK, TrackerTypeOK
<1>2. ASSUME cur # NoThread PROVE Len(queue[cur]) \in Nat /\ Len(queue'[cur]) \in Nat
                                  /\ Len(queue[cur]) <= Len(queue'[cur])
  <2>1. CASE UNCHANGED queue
    BY <1>1, <1>2, <2>1
  <2>2. ASSUME NEW ev \in Event, Put(t, ev), cur = t
        PROVE  queue'[cur] = Append(queue[cur], ev)
    BY <1>1, <1>2, <2>2 DEF Put, TypeInv, TypeOK, TrackerTypeOK
  <2>3. ASSUME NEW ev \in Event, Put(t, ev), cur # t
        PROVE  queue'[cur] = queue[cur]
    BY <1>1, <1>2, <2>3 DEF Put, TypeInv, TypeOK, TrackerTypeOK
  <2> QED
    BY <1>1, <1>2, <2>1, <2>2, <2>3
<1> QED
  BY <1>1, <1>2 DEF PassConsistent

\* A step of a thread puts no event of a filtered mutex.
LEMMA ThreadKeepsVertices ==
  ASSUME TypeInv, VerticesNeeded, NEW t \in Thread, UNCHANGED graphVars,
         registered \subseteq registered',
         UNCHANGED queue \/ \E ev \in Event : ev.mutex \notin Filtered /\ Put(t, ev)
  PROVE  VerticesNeeded'
<1>1. CASE UNCHANGED queue
  BY <1>1 DEF VerticesNeeded, Unfiltered, graphVars
<1>2. ASSUME NEW ev \in Event, ev.mutex \notin Filtered, Put(t, ev),
             NEW u \in Thread, NEW i \in 1..Len(queue'[u])
      PROVE  queue'[u][i].mutex \notin Filtered
  <2>1. CASE u # t
    BY <1>2, <2>1 DEF VerticesNeeded, Unfiltered, Put, TypeInv, TypeOK, TrackerTypeOK
  <2>2. CASE u = t
    <3>1. queue[t] \in Seq(Event) /\ queue'[t] = Append(queue[t], ev)
      BY <1>2 DEF Put, TypeInv, TypeOK, TrackerTypeOK
    <3>2. i \in 1..Len(queue[t]) \/ queue'[t][i] = ev
      BY <2>2, <3>1
    <3>3. i \in 1..Len(queue[t]) => queue'[t][i] = queue[t][i]
      BY <2>2, <3>1
    <3> QED
      BY <1>2, <2>2, <3>2, <3>3 DEF VerticesNeeded, Unfiltered
  <2> QED
    BY <2>1, <2>2
<1> QED
  BY <1>1, <1>2 DEF VerticesNeeded, Unfiltered, graphVars

\* As long as the process runs, the lag of the queues accounts for all arcs.
LEMMA RunningWastesNothing ==
  ASSUME IInv, Running
  PROVE  NothingWasted
<1>1. TypeInv /\ VerticesNeeded /\ \A t \in Thread : CatchesUp(t)
  BY DEF IInv, RunningInv
<1>2. ASSUME NEW t \in Thread, NEW m \in Mutex
      PROVE  /\ <<t, m>> \in edges => m \in Wants(t) \/ Queued(t, hold(m))
             /\ <<m, t>> \in edges => m \in Holds(t) \/ Queued(t, release(m))
  <2>1. queue[t] \in Seq(Event)
    BY <1>1 DEF TypeInv, TypeOK, TrackerTypeOK
  <2>2. Leads(Requested(t), Occupied(t), queue[t], Wants(t), Holds(t))
    BY <1>1 DEF CatchesUp
  <2> QED
    BY <2>1, <2>2, LeadsBacks DEF Queued, Requested, Occupied
<1> QED
  BY <1>1, <1>2 DEF NothingWasted, VerticesNeeded, Unfiltered

\* A thread that ends the process for lack of space.
LEMMA AbortIInv ==
  ASSUME IInv, Running, TypeInv', NEW t \in Thread, UNCHANGED <<trackerVars, graphVars>>,
         \/ abort' = "queueFull" /\ Full(t)
         \/ abort' = "poolEmpty" /\ NoQueueLeft(t)
  PROVE  IInv'
<1>1. NothingWasted'
  BY RunningWastesNothing
     DEF NothingWasted, Queued, Wants, Holds, trackerVars, graphVars
<1>2. abort' = "queueFull" => Full(t)'
  BY DEF Full, trackerVars
<1>3. abort' = "poolEmpty" => AtLimit'
  BY DEF NoQueueLeft, AtLimit, trackerVars
<1> QED
  BY <1>1, <1>2, <1>3 DEF IInv, NoAssertion, Running, EndedOnlyByLimits

LEMMA LockIInv ==
  ASSUME ErrorCheck = {}, IInv, NEW t \in Thread, NEW m \in Mutex, Lock(t, m)
  PROVE  IInv'
<1>1. TypeInv /\ TypeInv' /\ Running /\ RunningInv /\ pc[t] = "idle" /\ UNCHANGED graphVars
      /\ UNCHANGED <<cur, num>>
  BY LockType DEF IInv, Lock, EnterMap, generateWaitEvent
<1>2. CASE \/ NoQueueLeft(t) /\ Abort("poolEmpty")
           \/ Full(t) /\ Abort("queueFull")
  BY <1>1, <1>2, AbortIInv DEF Abort
<1>3. CASE /\ IF m \in Filtered THEN UNCHANGED queue ELSE ~Full(t) /\ Put(t, wait(m))
           /\ registered' = registered \cup {t}
           /\ Go(t, "locking", m)
           /\ UNCHANGED <<owner, abort>>
  <2>1. /\ pc'[t] = "locking" /\ target'[t] = m
        /\ \A u \in Thread \ {t} : pc'[u] = pc[u] /\ target'[u] = target[u]
    BY <1>1, <1>3 DEF Go, TypeInv, TypeOK, TrackerTypeOK
  <2>2. \A u \in Thread \ {t} : queue'[u] = queue[u]
    BY <1>1, <1>3 DEF Put, TypeInv, TypeOK, TrackerTypeOK
  <2>3. MapsConsistent' /\ PassConsistent'
    BY <1>1, <1>3, SameMaps, ThreadKeepsPass, EventTypes DEF RunningInv
  <2>10. VerticesNeeded'
    <3>1. wait(m) \in Event /\ wait(m).mutex = m
      BY EventTypes DEF wait
    <3> QED
      BY <1>1, <1>3, <3>1, ThreadKeepsVertices DEF RunningInv
  <2>4. CallsConsistent'
    BY <1>1, <1>3, <2>1 DEF RunningInv, CallsConsistent
  <2>5. \A u \in Thread \ {t} : CatchesUp(u)'
    BY <1>1, <1>3, <2>1, <2>2, OtherThreads DEF RunningInv, graphVars
  <2>6. Wants(t) = {} /\ Wants(t)' = {n \in Mutex \ Filtered : n = m}
    BY <1>1, <2>1 DEF Wants
  <2>7. Holds(t)' = Holds(t)
    BY <1>1, <1>3, <2>1 DEF Holds
  <2>8. CatchesUp(t)'
    <3>1. CatchesUp(t)
      BY <1>1 DEF RunningInv
    <3>2. CASE m \in Filtered
      <4>1. Wants(t)' = Wants(t) /\ queue' = queue
        BY <2>6, <3>2, <1>3
      <4> QED
        BY <3>1, <4>1, <2>7, <1>1, SameArcs, SameCatchesUp DEF graphVars
    <3>3. CASE m \notin Filtered
      <4>1. Put(t, wait(m)) /\ wait(m) \in Event
        BY <3>3, <1>3, EventTypes
      <4>2. Wants(t)' = NextRequested(wait(m))
        BY <2>6, <3>3 DEF NextRequested, wait
      <4>3. Holds(t)' = NextOccupied(Holds(t), wait(m))
        BY <2>7 DEF NextOccupied, Holds, wait, hold, release
      <4>4. Accepts(Wants(t), Holds(t), wait(m))
        BY <2>6 DEF Accepts, wait
      <4> QED
        BY <1>1, <3>1, <4>1, <4>2, <4>3, <4>4, PutCatchesUp DEF graphVars
    <3> QED
      BY <3>2, <3>3
  <2>9. NoAssertion' /\ Running'
    BY <1>3, <1>1 DEF NoAssertion, Running
  <2> QED
    BY <1>1, <2>3, <2>4, <2>5, <2>8, <2>9, <2>10 DEF IInv, RunningInv
<1> QED
  BY <1>2, <1>3 DEF Lock, generateWaitEvent

LEMMA UnlockIInv ==
  ASSUME ErrorCheck = {}, IInv, NEW t \in Thread, NEW m \in Mutex, Unlock(t, m)
  PROVE  IInv'
<1>1. /\ TypeInv /\ TypeInv' /\ Running /\ RunningInv /\ pc[t] = "idle"
      /\ UNCHANGED graphVars /\ UNCHANGED <<cur, num, queue, registered, abort>>
      /\ owner[m] = t /\ owner' = [owner EXCEPT ![m] = NoThread]
      /\ Go(t, "unlocked", m)
  BY UnlockType DEF IInv, Unlock, nativeUnlock, passVars
<1>2. /\ pc'[t] = "unlocked" /\ target'[t] = m
      /\ \A u \in Thread \ {t} : pc'[u] = pc[u] /\ target'[u] = target[u]
  BY <1>1 DEF Go, TypeInv, TypeOK, TrackerTypeOK
<1>3. /\ owner'[m] = NoThread
      /\ \A n \in Mutex \ {m} : owner'[n] = owner[n]
  BY <1>1 DEF TypeInv, TypeOK, TrackerTypeOK
<1>4. MapsConsistent' /\ PassConsistent' /\ VerticesNeeded'
  BY <1>1, SameMaps, ThreadKeepsPass, ThreadKeepsVertices DEF RunningInv
<1>5. CallsConsistent'
  <2>1. t \in registered
    BY <1>1, ProcessAssumption DEF RunningInv, CallsConsistent
  <2>2. ASSUME NEW u \in Thread
        PROVE  /\ pc'[u] \notin {"lockFailed", "unlockFailed"}
               /\ pc'[u] = "locked" => owner'[target'[u]] = u
               /\ pc'[u] = "unlocked" => owner'[target'[u]] # u
               /\ pc'[u] # "idle" => u \in registered'
    <3>1. CASE u = t
      BY <3>1, <1>1, <1>2, <1>3, <2>1, ProcessAssumption
    <3>2. CASE u # t
      <4>1. pc[u] # "idle" => target[u] \in Mutex
        BY <1>1 DEF TypeInv, TargetKnown
      <4> QED
        BY <3>2, <4>1, <1>1, <1>2, <1>3, ProcessAssumption DEF RunningInv, CallsConsistent
    <3> QED
      BY <3>1, <3>2
  <2> QED
    BY <2>2, <1>1, <1>3 DEF RunningInv, CallsConsistent
<1>6. \A u \in Thread \ {t} : CatchesUp(u)'
  BY <1>1, <1>2, <1>3, OtherThreads DEF RunningInv, graphVars
<1>7. CatchesUp(t)'
  <2>1. Wants(t)' = Wants(t)
    BY <1>1, <1>2 DEF Wants
  <2>2. Holds(t)' = Holds(t)
    BY <1>1, <1>2, <1>3, ProcessAssumption DEF Holds
  <2> QED
    BY <1>1, <2>1, <2>2, SameArcs, SameCatchesUp DEF RunningInv, graphVars
<1> QED
  BY <1>1, <1>4, <1>5, <1>6, <1>7 DEF IInv, RunningInv, NoAssertion, Running

LEMMA NativeLockIInv ==
  ASSUME ErrorCheck = {}, IInv, NEW t \in Thread, nativeLock(t), UNCHANGED <<graphVars, passVars>>
  PROVE  IInv'
<1> DEFINE m == target[t]
<1>1. /\ TypeInv /\ TypeInv' /\ Running /\ RunningInv /\ pc[t] = "locking"
      /\ UNCHANGED graphVars /\ UNCHANGED <<cur, num, queue, registered, abort>>
      /\ owner[m] = NoThread /\ owner' = [owner EXCEPT ![m] = t]
      /\ Go(t, "locked", m)
      /\ m \in Mutex
  BY ProceedType DEF IInv, Proceed, nativeLock, passVars, TypeInv, TargetKnown
<1>2. /\ pc'[t] = "locked" /\ target'[t] = m
      /\ \A u \in Thread \ {t} : pc'[u] = pc[u] /\ target'[u] = target[u]
  BY <1>1 DEF Go, TypeInv, TypeOK, TrackerTypeOK
<1>3. /\ owner'[m] = t
      /\ \A n \in Mutex \ {m} : owner'[n] = owner[n]
  BY <1>1 DEF TypeInv, TypeOK, TrackerTypeOK
<1>4. MapsConsistent' /\ PassConsistent' /\ VerticesNeeded'
  BY <1>1, SameMaps, ThreadKeepsPass, ThreadKeepsVertices DEF RunningInv
<1>5. CallsConsistent'
  <2>1. t \in registered
    BY <1>1 DEF RunningInv, CallsConsistent
  <2>2. ASSUME NEW u \in Thread
        PROVE  /\ pc'[u] \notin {"lockFailed", "unlockFailed"}
               /\ pc'[u] = "locked" => owner'[target'[u]] = u
               /\ pc'[u] = "unlocked" => owner'[target'[u]] # u
               /\ pc'[u] # "idle" => u \in registered'
    <3>1. CASE u = t
      BY <3>1, <1>1, <1>2, <1>3, <2>1, ProcessAssumption
    <3>2. CASE u # t
      <4>1. pc[u] # "idle" => target[u] \in Mutex
        BY <1>1 DEF TypeInv, TargetKnown
      <4> QED
        BY <3>2, <4>1, <1>1, <1>2, <1>3, ProcessAssumption DEF RunningInv, CallsConsistent
    <3> QED
      BY <3>1, <3>2
  <2> QED
    BY <2>1, <2>2, <1>1, <1>3 DEF RunningInv, CallsConsistent
<1>6. \A u \in Thread \ {t} : CatchesUp(u)'
  BY <1>1, <1>2, <1>3, OtherThreads DEF RunningInv, graphVars
<1>7. CatchesUp(t)'
  <2>1. Wants(t)' = Wants(t)
    BY <1>1, <1>2 DEF Wants
  <2>2. Holds(t)' = Holds(t)
    BY <1>1, <1>2, <1>3, ProcessAssumption DEF Holds
  <2> QED
    BY <1>1, <2>1, <2>2, SameArcs, SameCatchesUp DEF RunningInv, graphVars
<1> QED
  BY <1>1, <1>4, <1>5, <1>6, <1>7 DEF IInv, RunningInv, NoAssertion, Running

\* The end of a call, common to lock and unlock: the event is put, unless the
\* mutex is filtered, and the thread leaves.
LEMMA FinishIInv ==
  ASSUME ErrorCheck = {}, IInv, Running, TypeInv', NEW t \in Thread, NEW ev \in Event,
         pc[t] \in {"locked", "unlocked"}, ev.mutex = target[t],
         IF target[t] \in Filtered THEN UNCHANGED queue ELSE Put(t, ev),
         Go(t, "idle", NoMutex),
         UNCHANGED <<owner, registered, abort, graphVars, passVars>>,
         target[t] \notin Filtered => Accepts(Wants(t), Holds(t), ev),
         target[t] \notin Filtered => NextRequested(ev) = {},
         Holds(t)' = IF target[t] \in Filtered THEN Holds(t) ELSE NextOccupied(Holds(t), ev),
         target[t] \in Filtered => Wants(t) = {}
  PROVE  IInv'
<1>1. TypeInv /\ RunningInv
  BY DEF IInv
<1>2. /\ pc'[t] = "idle" /\ target'[t] = NoMutex
      /\ \A u \in Thread \ {t} : pc'[u] = pc[u] /\ target'[u] = target[u]
  BY <1>1 DEF Go, TypeInv, TypeOK, TrackerTypeOK
<1>3. \A u \in Thread \ {t} : queue'[u] = queue[u]
  BY <1>1 DEF Put, TypeInv, TypeOK, TrackerTypeOK
<1>4. MapsConsistent' /\ PassConsistent' /\ VerticesNeeded'
  BY <1>1, SameMaps, ThreadKeepsPass, ThreadKeepsVertices DEF RunningInv, passVars
<1>5. CallsConsistent'
  BY <1>1, <1>2 DEF RunningInv, CallsConsistent
<1>6. \A u \in Thread \ {t} : CatchesUp(u)'
  BY <1>1, <1>2, <1>3, OtherThreads DEF RunningInv, graphVars
<1>7. Wants(t)' = {}
  BY <1>2 DEF Wants
<1>8. CatchesUp(t)'
  <2>1. CatchesUp(t) /\ UNCHANGED edges
    BY <1>1 DEF RunningInv, graphVars
  <2>2. CASE target[t] \in Filtered
    BY <2>1, <2>2, <1>7, SameArcs, SameCatchesUp
  <2>3. CASE target[t] \notin Filtered
    BY <1>1, <2>1, <2>3, <1>7, PutCatchesUp
  <2> QED
    BY <2>2, <2>3
<1>9. NoAssertion' /\ Running'
  BY DEF NoAssertion, Running
<1> QED
  BY <1>1, <1>4, <1>5, <1>6, <1>8, <1>9 DEF IInv, RunningInv

LEMMA HoldEventIInv ==
  ASSUME ErrorCheck = {}, IInv, NEW t \in Thread, generateHoldEvent(t, target[t] \in Filtered),
         UNCHANGED <<graphVars, passVars>>
  PROVE  IInv'
<1> DEFINE m == target[t]
<1>1. TypeInv /\ TypeInv' /\ Running /\ RunningInv /\ m \in Mutex
  BY ProceedType DEF IInv, Proceed, generateHoldEvent, TypeInv, TargetKnown
<1>2. pc[t] = "locked" /\ owner[m] = t
  BY <1>1 DEF generateHoldEvent, RunningInv, CallsConsistent
<1>3. CASE Full(t) /\ Abort("queueFull")
  BY <1>1, <1>3, AbortIInv DEF Abort
<1>4. CASE /\ IF m \in Filtered THEN UNCHANGED queue ELSE ~Full(t) /\ Put(t, hold(m))
           /\ Go(t, "idle", NoMutex)
           /\ UNCHANGED <<owner, registered, abort>>
  <2>1. pc'[t] = "idle"
    BY <1>1, <1>4 DEF Go, TypeInv, TypeOK, TrackerTypeOK
  <2>2. hold(m) \in Event /\ hold(m).mutex = m
    BY <1>1, EventTypes DEF hold
  <2>3. Wants(t) = {n \in Mutex \ Filtered : n = m}
    BY <1>2 DEF Wants
  <2>4. Holds(t) = {n \in Mutex \ Filtered : owner[n] = t /\ n # m}
    BY <1>2 DEF Holds
  <2>5. Holds(t)' = {n \in Mutex \ Filtered : owner[n] = t}
    BY <1>4, <2>1 DEF Holds
  <2>6. m \notin Filtered => Accepts(Wants(t), Holds(t), hold(m))
    BY <1>1, <2>3, <2>4 DEF Accepts, hold
  <2>7. NextRequested(hold(m)) = {}
    BY DEF NextRequested, hold, wait
  <2>8. Holds(t)' = IF m \in Filtered THEN Holds(t) ELSE NextOccupied(Holds(t), hold(m))
    BY <1>1, <1>2, <2>4, <2>5 DEF NextOccupied, hold, release
  <2>9. m \in Filtered => Wants(t) = {}
    BY <2>3
  <2> QED
    BY <1>1, <1>2, <1>4, <2>2, <2>6, <2>7, <2>8, <2>9, FinishIInv
<1> QED
  BY <1>3, <1>4 DEF generateHoldEvent

LEMMA ReleaseEventIInv ==
  ASSUME ErrorCheck = {}, IInv, NEW t \in Thread, generateReleaseEvent(t, target[t] \in Filtered),
         UNCHANGED <<graphVars, passVars>>
  PROVE  IInv'
<1> DEFINE m == target[t]
<1>1. TypeInv /\ TypeInv' /\ Running /\ RunningInv /\ m \in Mutex
  BY ProceedType DEF IInv, Proceed, generateReleaseEvent, TypeInv, TargetKnown
<1>2. pc[t] = "unlocked" /\ owner[m] # t /\ t \in registered
  BY <1>1 DEF generateReleaseEvent, RunningInv, CallsConsistent
<1>3. CASE Full(t) /\ Abort("queueFull")
  BY <1>1, <1>3, AbortIInv DEF Abort
<1>4. CASE /\ IF m \in Filtered THEN UNCHANGED queue ELSE ~Full(t) /\ Put(t, release(m))
           /\ Go(t, "idle", NoMutex)
           /\ UNCHANGED <<owner, registered, abort>>
  <2>1. pc'[t] = "idle"
    BY <1>1, <1>4 DEF Go, TypeInv, TypeOK, TrackerTypeOK
  <2>2. release(m) \in Event /\ release(m).mutex = m
    BY <1>1, EventTypes DEF release
  <2>3. Wants(t) = {}
    BY <1>2 DEF Wants
  <2>4. Holds(t) = {n \in Mutex \ Filtered : owner[n] = t \/ n = m}
    BY <1>2 DEF Holds
  <2>5. Holds(t)' = {n \in Mutex \ Filtered : owner[n] = t}
    BY <1>4, <2>1 DEF Holds
  <2>6. m \notin Filtered => Accepts(Wants(t), Holds(t), release(m))
    BY <1>1, <2>3, <2>4 DEF Accepts, release
  <2>7. NextRequested(release(m)) = {}
    BY DEF NextRequested, release, wait
  <2>8. Holds(t)' = IF m \in Filtered THEN Holds(t) ELSE NextOccupied(Holds(t), release(m))
    BY <1>1, <1>2, <2>4, <2>5 DEF NextOccupied, hold, release
  <2> QED
    BY <1>1, <1>2, <1>4, <2>2, <2>3, <2>6, <2>7, <2>8, FinishIInv
<1> QED
  BY <1>2, <1>3, <1>4 DEF generateReleaseEvent

LEMMA ProceedIInv ==
  ASSUME ErrorCheck = {}, IInv, NEW t \in Thread, Proceed(t)
  PROVE  IInv'
  BY NativeLockIInv, HoldEventIInv, ReleaseEventIInv DEF Proceed
-----------------------------------------------------------------------------
LEMMA HandleEventIInv ==
  ASSUME IInv, HandleEvent
  PROVE  IInv'
<1>1. TypeInv /\ TypeInv' /\ Running /\ RunningInv /\ NoAssertion
      /\ UNCHANGED <<pc, target, owner, registered, todo>>
  BY HandleEventType DEF IInv, HandleEvent
<1>2. PICK t \in Thread : t = cur
  BY <1>1 DEF HandleEvent, TypeInv, TypeOK, TrackerTypeOK
<1> DEFINE ev == Head(queue[t])
<1>3. num \in Nat /\ num # 0 /\ queue[t] \in Seq(Event) /\ num <= Len(queue[t])
  BY <1>1, <1>2 DEF HandleEvent, TypeInv, TypeOK, TrackerTypeOK, RunningInv, PassConsistent
<1>4. queue[t] # <<>> /\ ev \in Event
  BY <1>3
<1>5. /\ eventHandler(t, ev)
      /\ queue' = [queue EXCEPT ![t] = Tail(@)]
      /\ num' = num - 1
      /\ cur' = IF num = 1 THEN NoThread ELSE t
  BY <1>2, <1>4 DEF HandleEvent
<1>6. /\ queue'[t] = Tail(queue[t])
      /\ \A u \in Thread \ {t} : queue'[u] = queue[u]
  BY <1>1, <1>5 DEF TypeInv, TypeOK, TrackerTypeOK
<1>7. \A u \in Thread : CatchesUp(u) /\ Wants(u)' = Wants(u) /\ Holds(u)' = Holds(u)
  BY <1>1 DEF RunningInv, Wants, Holds
<1>8. Accepts(Requested(t), Occupied(t), ev)
  <2>1. Occupied(t) \subseteq Mutex
    BY DEF Occupied
  <2> QED
    BY <1>3, <1>4, <1>7, <2>1, LeadsTail DEF CatchesUp
<1>9. /\ NoAssertion'
      /\ Running' => /\ MapsConsistent'
                     /\ Requested(t)' = NextRequested(ev)
                     /\ Occupied(t)' = NextOccupied(Occupied(t), ev)
                     /\ \A u \in Thread \ {t} : /\ Requested(u)' = Requested(u)
                                                /\ Occupied(u)' = Occupied(u)
  <2>1. /\ abort' # "assertion"
        /\ Running' => /\ ThreadConsistent(t)'
                       /\ Requested(t)' = NextRequested(ev)
                       /\ Occupied(t)' = NextOccupied(Occupied(t), ev)
    BY <1>1, <1>4, <1>5, <1>8, AcceptedHandler DEF RunningInv, MapsConsistent
  <2>2. \A u \in Thread \ {t} : /\ Requested(u)' = Requested(u)
                               /\ Occupied(u)' = Occupied(u)
                               /\ ThreadConsistent(u)'
    BY <1>1, <1>4, <1>5, OtherHandler DEF RunningInv, MapsConsistent
  <2> QED
    BY <2>1, <2>2 DEF NoAssertion, MapsConsistent
<1>11. ev.mutex \notin Filtered
  BY <1>1, <1>3, <1>4 DEF RunningInv, VerticesNeeded, Unfiltered
<1>12. t \in registered
  BY <1>1, <1>2, ProcessAssumption DEF HandleEvent, TypeInv, TypeOK
<1>13. ASSUME ~Running' PROVE EndedOnlyByLimits'
  <2>1. /\ ev = wait(ev.mutex) /\ ev.mutex \in Mutex
        /\ UNCHANGED graphVars
        /\ abort' = "poolEmpty"
        /\ \/ Cardinality(vertexThreadMap \cup {t}) > MaxThreadVertex
           \/ Cardinality(vertexMutexMap \cup {ev.mutex}) > MaxMutexVertex
           \/ Cardinality(edges) >= MaxArc
    BY <1>1, <1>4, <1>5, <1>8, <1>13, HandlerOutOfSpace DEF RunningInv, MapsConsistent
  <2>2. AtLimit'
    BY <1>1, <1>11, <1>12, <2>1 DEF AtLimit, graphVars
  <2>3. ASSUME NEW u \in Thread, NEW m \in Mutex
        PROVE  /\ Queued(u, hold(m)) => Queued(u, hold(m))'
               /\ Queued(u, release(m)) => Queued(u, release(m))'
    <3>1. CASE u # t
      BY <1>6, <3>1 DEF Queued
    <3>2. CASE u = t
      <4>1. ASSUME NEW i \in 1..Len(queue[t]), queue[t][i] # ev
            PROVE  \E j \in 1..Len(queue'[t]) : queue'[t][j] = queue[t][i]
        <5>1. i - 1 \in 1..Len(queue'[t]) /\ queue'[t][i - 1] = queue[t][i]
          BY <1>3, <1>4, <1>6, <4>1
        <5> QED
          BY <5>1
      <4>2. hold(m) # ev /\ release(m) # ev
        BY <2>1 DEF wait, hold, release
      <4> QED
        BY <3>2, <4>1, <4>2 DEF Queued
    <3> QED
      BY <3>1, <3>2
  <2>4. NothingWasted'
    BY <1>1, <1>7, <2>1, <2>3, RunningWastesNothing DEF NothingWasted, graphVars
  <2> QED
    BY <2>1, <2>2, <2>4 DEF EndedOnlyByLimits
<1>14. VerticesNeeded'
  <2>1. /\ vertexThreadMap' \subseteq vertexThreadMap \cup {t}
        /\ vertexMutexMap' \subseteq vertexMutexMap \cup {ev.mutex}
    BY <1>5, HandlerVertices
  <2>2. ASSUME NEW u \in Thread, NEW i \in 1..Len(queue'[u])
        PROVE  queue'[u][i].mutex \notin Filtered
    <3>1. CASE u # t
      BY <1>1, <1>6, <2>2, <3>1 DEF RunningInv, VerticesNeeded, Unfiltered
    <3>2. CASE u = t
      <4>1. i \in 1..Len(Tail(queue[t])) /\ queue'[t][i] = Tail(queue[t])[i]
        BY <1>6, <2>2, <3>2
      <4>2. i + 1 \in 1..Len(queue[t]) /\ Tail(queue[t])[i] = queue[t][i + 1]
        BY <1>3, <1>4, <4>1
      <4> QED
        BY <1>1, <3>2, <4>1, <4>2 DEF RunningInv, VerticesNeeded, Unfiltered
    <3> QED
      BY <3>1, <3>2
  <2> QED
    BY <1>1, <1>11, <1>12, <2>1, <2>2 DEF RunningInv, VerticesNeeded, Unfiltered
<1>10. ASSUME Running' PROVE RunningInv'
  <2>1. MapsConsistent'
    BY <1>9, <1>10
  <2>2. CallsConsistent'
    BY <1>1 DEF RunningInv, CallsConsistent
  <2>3. PassConsistent'
    BY <1>3, <1>4, <1>5, <1>6 DEF PassConsistent
  <2>4. CatchesUp(t)'
    BY <1>1, <1>4, <1>6, <1>7, <1>9, <1>10, TakeCatchesUp
  <2>5. ASSUME NEW u \in Thread \ {t} PROVE CatchesUp(u)'
    BY <1>6, <1>7, <1>9, <1>10, SameCatchesUp
  <2> QED
    BY <1>14, <2>1, <2>2, <2>3, <2>4, <2>5 DEF RunningInv
<1> QED
  BY <1>1, <1>9, <1>10, <1>13 DEF IInv

LEMMA CheckerIInv ==
  ASSUME IInv, StartPass \/ \E t \in Thread : Visit(t)
  PROVE  IInv'
<1>1. TypeInv /\ TypeInv' /\ Running /\ RunningInv /\ NoAssertion
  BY NextType DEF IInv, StartPass, Visit, Next, Check
<1>2. UNCHANGED <<abort, pc, target, owner, registered, queue, graphVars>>
  BY DEF StartPass, Visit, trackerVars
<1>3. CallsConsistent'
  BY <1>1, <1>2 DEF RunningInv, CallsConsistent
<1>4. MapsConsistent'
  BY <1>1, <1>2, SameMaps DEF RunningInv
<1>5. \A t \in Thread : CatchesUp(t)'
  BY <1>1, <1>2 DEF RunningInv, CatchesUp, Requested, Occupied, Wants, Holds, graphVars
<1>6. PassConsistent'
  <2>1. CASE StartPass
    BY <1>1, <1>2, <2>1 DEF StartPass, RunningInv, PassConsistent
  <2>2. ASSUME NEW t \in Thread, Visit(t) PROVE PassConsistent'
    <3>1. Len(queue[t]) \in Nat
      BY <1>1 DEF TypeInv, TypeOK, TrackerTypeOK
    <3> QED
      BY <1>2, <2>2, <3>1 DEF Visit, PassConsistent
  <2> QED
    BY <2>1, <2>2
<1>7. VerticesNeeded'
  BY <1>1, <1>2 DEF RunningInv, VerticesNeeded, Unfiltered, graphVars
<1> QED
  BY <1>1, <1>2, <1>3, <1>4, <1>5, <1>6, <1>7 DEF IInv, RunningInv, NoAssertion, Running

LEMMA StutterIInv ==
  ASSUME IInv, UNCHANGED vars
  PROVE  IInv'
<1>1. TypeInv'
  BY NextType DEF IInv
<1>2. RunningInv => RunningInv'
  <2>1. CallsConsistent => CallsConsistent'
    BY DEF vars, trackerVars, CallsConsistent
  <2>2. MapsConsistent => MapsConsistent'
    BY SameArcs DEF vars, graphVars, MapsConsistent, ThreadConsistent
  <2>3. PassConsistent /\ VerticesNeeded => PassConsistent' /\ VerticesNeeded'
    BY DEF vars, trackerVars, graphVars, passVars, PassConsistent, VerticesNeeded, Unfiltered
  <2>4. ASSUME NEW t \in Thread PROVE CatchesUp(t) => CatchesUp(t)'
    BY SameArcs DEF vars, trackerVars, graphVars, CatchesUp, Wants, Holds
  <2> QED
    BY <2>1, <2>2, <2>3, <2>4 DEF RunningInv
<1>3. EndedOnlyByLimits => EndedOnlyByLimits'
  BY DEF vars, trackerVars, graphVars, EndedOnlyByLimits, AtLimit, NothingWasted, Full, Queued,
         Wants, Holds
<1> QED
  BY <1>1, <1>2, <1>3 DEF vars, IInv, NoAssertion, Running

LEMMA NextIInv ==
  ASSUME ErrorCheck = {}
  PROVE  IInv /\ [Next]_vars => IInv'
  BY LockIInv, UnlockIInv, ProceedIInv, HandleEventIInv, CheckerIInv, StutterIInv
     DEF Next, Check

LEMMA Inductive ==
  ASSUME ErrorCheck = {}
  PROVE  Spec => []IInv
  BY InitIInv, NextIInv, PTL DEF Spec

\* Whatever the number of threads and mutexes, the sizes of the queues and the
\* pools, and the interleaving: as long as the program's lock calls succeed, only
\* a lack of space ends the process, and there is one: no queue, vertex or arc is
\* taken up by anything but what the threads want, hold or have announced.
THEOREM EndedOnlyByLimitsHolds ==
  ASSUME ErrorCheck = {}
  PROVE  Spec => []EndedOnlyByLimits
<1>1. IInv => EndedOnlyByLimits
  BY RunningWastesNothing DEF IInv, EndedOnlyByLimits, Running
<1> QED
  BY <1>1, Inductive, PTL

\* The graph is behind each thread by exactly the events in its queue.
THEOREM GraphLagsByQueueHolds ==
  ASSUME ErrorCheck = {}
  PROVE  Spec => []GraphLagsByQueue
<1>1. IInv => GraphLagsByQueue
  BY DEF IInv, RunningInv, GraphLagsByQueue
<1> QED
  BY <1>1, Inductive, PTL

\* Two occupants of one mutex in the graph: one of them has released it, and
\* the event is in its queue or about to be.
THEOREM SharedOwnerHolds ==
  ASSUME ErrorCheck = {}
  PROVE  Spec => []SharedOwnerOnlyByLag
<1>1. IInv => SharedOwnerOnlyByLag
  <2> SUFFICES ASSUME IInv, Running, NEW m \in Mutex, NEW t \in Thread, NEW u \in Thread,
                      t # u, <<m, t>> \in edges, <<m, u>> \in edges,
                      ~Releasing(t, m), ~Releasing(u, m)
               PROVE  FALSE
    BY DEF SharedOwnerOnlyByLag
  <2>1. ASSUME NEW x \in Thread, <<m, x>> \in edges, ~Releasing(x, m)
        PROVE  owner[m] = x
    <3>1. m \in Occupied(x) /\ \A i \in 1..Len(queue[x]) : queue[x][i] # release(m)
      BY <2>1 DEF Occupied, Releasing, Queued
    <3>2. m \in OccupiedAfter(Occupied(x), queue[x], Len(queue[x]))
      BY <3>1 DEF OccupiedAfter
    <3>3. m \in Holds(x)
      BY <3>2 DEF IInv, RunningInv, CatchesUp, Leads
    <3> QED
      BY <3>3, <2>1 DEF Holds, Releasing
  <2> QED
    BY <2>1
<1> QED
  BY <1>1, Inductive, PTL

LEMMA AtRest ==
  ASSUME IInv, Running, NEW t \in Thread, queue[t] = <<>>
  PROVE  Requested(t) = Wants(t) /\ Occupied(t) = Holds(t)
<1>1. Leads(Requested(t), Occupied(t), <<>>, Wants(t), Holds(t)) /\ Occupied(t) \subseteq Mutex
  BY DEF IInv, RunningInv, CatchesUp, Occupied
<1> QED
  BY <1>1, LeadsNothing

\* A check of the graph is right about any set of threads whose queues are
\* drained: they wait for one another in the graph exactly when the program has
\* deadlocked them.
THEOREM ExactAtRestHolds ==
  ASSUME ErrorCheck = {}
  PROVE  Spec => []ExactAtRest
<1>1. IInv => ExactAtRest
  <2> SUFFICES ASSUME IInv, Running, NEW D \in SUBSET Thread,
                      \A t \in D : queue[t] = <<>>,
                      \A t \in D : target[t] \notin Filtered
               PROVE  Knot(D) <=> Deadlocked(D)
    BY DEF ExactAtRest
  <2>1. \A t \in D : Requested(t) = Wants(t) /\ Occupied(t) = Holds(t)
    BY AtRest
  <2>2. CallsConsistent /\ TypeInv
    BY DEF IInv, RunningInv
  <2>3. ASSUME Knot(D), NEW t \in D
        PROVE  pc[t] = "locking" /\ owner[target[t]] \in D
    <3>1. PICK m \in Requested(t), u \in D : <<m, u>> \in edges
      BY <2>3 DEF Knot
    <3>2. /\ m \in Mutex \ Filtered
          /\ target[t] = m
          /\ pc[t] \in {"locking", "locked"}
      BY <3>1, <2>1, <2>2 DEF Wants, CallsConsistent
    <3>3. m \in Holds(u)
      BY <3>1, <3>2, <2>1 DEF Occupied
    <3>4. Wants(u) # {}
      BY <2>1, <2>3 DEF Knot
    <3>5. owner[m] = u /\ ~(pc[u] = "locked" /\ target[u] = m)
      BY <3>3, <3>4 DEF Holds, Wants
    <3>6. pc[t] # "locked"
      BY <3>2, <3>5, <2>2 DEF CallsConsistent
    <3> QED
      BY <3>2, <3>5, <3>6
  <2>4. ASSUME Deadlocked(D), NEW t \in D
        PROVE  \E m \in Requested(t), u \in D : <<m, u>> \in edges
    <3>1. pc[t] = "locking" /\ owner[target[t]] \in D /\ target[t] \in Mutex \ Filtered
      BY <2>2, <2>4 DEF Deadlocked, TypeInv, TargetKnown
    <3>2. target[t] \in Requested(t)
      BY <3>1, <2>1 DEF Wants
    <3>3. PICK u \in D : u = owner[target[t]]
      BY <3>1
    <3>4. target[t] \in Holds(u)
      BY <3>1, <3>3, <2>4 DEF Holds, Deadlocked
    <3>5. <<target[t], u>> \in edges
      BY <3>4, <2>1 DEF Occupied
    <3> QED
      BY <3>2, <3>5
  <2> QED
    BY <2>3, <2>4 DEF Knot, Deadlocked
<1> QED
  BY <1>1, Inductive, PTL
-----------------------------------------------------------------------------
(***************************************************************************)
(* The core implements the abstract protocol of the graph.                 *)
(***************************************************************************)
LEMMA ProtocolGraph ==
  /\ Protocol!graphVars = graphVars
  /\ Protocol!vars = <<graphVars, abort>>
  /\ Protocol!Running <=> Running
  /\ \A t : Protocol!Requested(t) = Requested(t)
  /\ \A t : Protocol!Occupied(t) = Occupied(t)
  BY DEF Protocol!graphVars, graphVars, Protocol!vars, Protocol!Running, Running,
         Protocol!Requested, Requested, Protocol!Occupied, Occupied

LEMMA ProtocolHandlers ==
  ASSUME NEW t, NEW m
  PROVE  /\ waitLockHandler(t, m) => Protocol!waitLockHandler(t, m)
         /\ holdLockHandler(t, m) => Protocol!holdLockHandler(t, m)
         /\ releaseLockHandler(t, m) => Protocol!releaseLockHandler(t, m)
<1>1. waitLockHandler(t, m) => Protocol!waitLockHandler(t, m)
  <2>1. Protocol!WaitOutcome(t, m) = WaitOutcome(t, m)
    <3>1. \A S : Protocol!Cardinality(S) = Cardinality(S)
      BY DEF Protocol!Cardinality, Cardinality
    <3> QED
      BY <3>1 DEF WaitOutcome, Protocol!WaitOutcome
  <2> QED
    BY <2>1 DEF waitLockHandler, Protocol!waitLockHandler, Fail,
         Protocol!Fail, addEdge, Protocol!addEdge, graphVars, Protocol!graphVars
<1>2. holdLockHandler(t, m) => Protocol!holdLockHandler(t, m)
  BY DEF holdLockHandler, Protocol!holdLockHandler, HoldConsistent, Protocol!HoldConsistent, Fail,
         Protocol!Fail, addEdge, Protocol!addEdge, deleteEdge, Protocol!deleteEdge, graphVars,
         Protocol!graphVars
<1>3. releaseLockHandler(t, m) => Protocol!releaseLockHandler(t, m)
  BY DEF releaseLockHandler, Protocol!releaseLockHandler, ReleaseConsistent,
         Protocol!ReleaseConsistent, Fail, Protocol!Fail, deleteEdge, Protocol!deleteEdge,
         graphVars, Protocol!graphVars
<1> QED
  BY <1>1, <1>2, <1>3

\* Taking one event of a thread is the step of that thread in the protocol.
LEMMA HandleEventSimulates ==
  ASSUME IInv, HandleEvent
  PROVE  Protocol!Next
<1>1. TypeInv /\ Running /\ RunningInv
  BY DEF IInv, HandleEvent
<1>2. PICK t \in Thread : t = cur
  BY <1>1 DEF HandleEvent, TypeInv, TypeOK, TrackerTypeOK
<1> DEFINE ev == Head(queue[t])
           m  == ev.mutex
<1>3. num \in Nat /\ num # 0 /\ queue[t] \in Seq(Event) /\ num <= Len(queue[t])
  BY <1>1, <1>2 DEF HandleEvent, TypeInv, TypeOK, TrackerTypeOK, RunningInv, PassConsistent
<1>4. queue[t] # <<>> /\ ev \in Event
  BY <1>3
<1>5. eventHandler(t, ev) /\ m \in Mutex
  BY <1>2, <1>4 DEF HandleEvent, Event
<1>6. Accepts(Requested(t), Occupied(t), ev)
  <2>1. CatchesUp(t) /\ Occupied(t) \subseteq Mutex
    BY <1>1 DEF RunningInv, Occupied
  <2> QED
    BY <1>3, <1>4, <2>1, LeadsTail DEF CatchesUp
<1>7. \/ Protocol!Request(t, m)
      \/ Protocol!Acquire(t, m)
      \/ Protocol!Release(t, m)
  <2> HIDE DEF m
  <2>1. CASE ev.type = "wait" /\ waitLockHandler(t, m)
    BY <2>1, <1>1, <1>6, ProtocolGraph, ProtocolHandlers DEF Accepts, Protocol!Request, m
  <2>2. CASE ev.type = "hold" /\ holdLockHandler(t, m)
    BY <2>2, <1>1, <1>6, ProtocolGraph, ProtocolHandlers DEF Accepts, Protocol!Acquire, m
  <2>3. CASE ev.type = "release" /\ releaseLockHandler(t, m)
    BY <2>3, <1>1, <1>6, ProtocolGraph, ProtocolHandlers DEF Accepts, Protocol!Release, m
  <2> QED
    BY <1>5, <2>1, <2>2, <2>3 DEF eventHandler, m
<1> QED
  BY <1>5, <1>7 DEF Protocol!Next

LEMMA StepSimulates ==
  ASSUME ErrorCheck = {}, IInv, [Next]_vars
  PROVE  [Protocol!Next]_(Protocol!vars)
<1>1. TypeInv /\ TypeInv' /\ NoAssertion'
  BY NextIInv DEF IInv
<1>2. CASE HandleEvent
  BY <1>2, HandleEventSimulates
<1>3. CASE ~HandleEvent
  <2>1. UNCHANGED graphVars
    BY <1>3 DEF Next, Check, Lock, EnterMap, Unlock, Proceed, StartPass, Visit, vars
  <2>2. CASE abort' = abort
    BY <2>1, <2>2 DEF Protocol!vars, graphVars, Protocol!graphVars
  <2>3. CASE abort' # abort
    <3>1. Running
      BY <1>3, <2>3 DEF Next, Check, Lock, EnterMap, Unlock, Proceed, StartPass, Visit, vars,
         generateWaitEvent, nativeLock, generateHoldEvent, nativeUnlock, generateReleaseEvent
    <3>2. abort' \in {"poolEmpty", "queueFull"}
      BY <1>1, <2>3, <3>1 DEF TypeInv, TypeOK, AbortReason, NoAssertion, Running
    <3>3. Protocol!OutOfSpace
      BY <2>1, <3>1, <3>2, ProtocolGraph
         DEF Protocol!OutOfSpace, Protocol!Fail, graphVars, Protocol!graphVars
    <3> QED
      BY <3>3 DEF Protocol!Next
  <2> QED
    BY <2>2, <2>3
<1> QED
  BY <1>2, <1>3

\* Every execution of the threads and the checker, seen through the graph
\* alone, is an execution of the protocol: each thread requests, acquires and
\* releases in turn, and the only failure is a lack of space.
THEOREM Refinement ==
  ASSUME ErrorCheck = {}
  PROVE  Spec => FollowsProtocol
<1>1. Init => Protocol!Init
  BY DEF Init, Protocol!Init, GraphInit, Protocol!GraphInit
<1>2. IInv /\ [Next]_vars => [Protocol!Next]_(Protocol!vars)
  BY StepSimulates
<1> QED
  BY <1>1, <1>2, Inductive, PTL DEF Spec, FollowsProtocol, Protocol!Spec
=============================================================================
