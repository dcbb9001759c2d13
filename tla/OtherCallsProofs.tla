-------------------------- MODULE OtherCallsProofs --------------------------
(***************************************************************************)
(* Theorems about OtherCalls.  The inductive invariant says, beside the    *)
(* types, where a thread inside a call stands with the native mutex, and,  *)
(* of every thread that has made no mistake, that the graph's maps agree   *)
(* with its arcs and that the graph lags behind it by exactly the events   *)
(* in its queue.                                                           *)
(***************************************************************************)
EXTENDS OtherCalls, EventGraphProofs

CallInv ==
  /\ depth \in [Mutex -> 0 .. MaxDepth]
  /\ hidden \in [Thread -> SUBSET Mutex]
  /\ \A t \in Thread :
       /\ pc[t] # "idle" => target[t] \in Mutex /\ parked[t] = NoMutex
       /\ pc[t] = "locking" /\ target[t] \in Recursive /\ owner[target[t]] = t
            => depth[target[t]] < MaxDepth
       /\ pc[t] = "locked" => owner[target[t]] = t
       /\ pc[t] = "lockFailed" => owner[target[t]] = t /\ target[t] \in ErrorCheck

TypeInv == TypeOK /\ CallInv

\* What a native lock took, the thread has not said before its hold event.
TakenIsHidden ==
  \A t \in Thread :
    pc[t] = "locked" /\ target[t] \notin Recursive => target[t] \in hidden[t]

LagsBehind(t) == Leads(Requested(t), Occupied(t), queue[t], Asked(t), Told(t))

RunningInv ==
  /\ TakenIsHidden
  /\ \A t \in Thread : mistake[t] = "none" => ThreadConsistent(t) /\ LagsBehind(t)

IInv == TypeInv /\ (Running => RunningInv)
-----------------------------------------------------------------------------
(***************************************************************************)
(* Type correctness.  The conjuncts of TypeInv that say something of every *)
(* mutex or thread have names, so that an action is shown to preserve each *)
(* of them by itself.                                                      *)
(***************************************************************************)
DepthOK ==
  /\ depth \in [Mutex -> 0 .. MaxDepth]
  /\ \A m \in Mutex : (depth[m] = 0) <=> (owner[m] = NoThread)

SkippedOK == skipped \subseteq {t \in Thread : pc[t] \in {"locking", "locked", "lockFailed"}}

HiddenOK ==
  /\ hidden \in [Thread -> SUBSET Mutex]
  /\ \A t \in Thread : \A m \in hidden[t] :
       owner[m] = t \/ parked[t] = m \/ (pc[t] = "unlocked" /\ target[t] = m)

CallOK(t) ==
  /\ pc[t] # "idle" => target[t] \in Mutex /\ parked[t] = NoMutex
  /\ pc[t] = "locking" /\ target[t] \in Recursive /\ owner[target[t]] = t
       => depth[target[t]] < MaxDepth
  /\ pc[t] = "locked" => owner[target[t]] = t
  /\ pc[t] = "lockFailed" => owner[target[t]] = t /\ target[t] \in ErrorCheck

RestOK ==
  /\ abort \in AbortReason
  /\ GraphTypeOK
  /\ parked \in [Thread -> Mutex \cup {NoMutex}]
  /\ filter \in {"off", "on", "gone"}
  /\ filters \subseteq Mutex
  /\ mistake \in [Thread -> {"none", "extra", "missing"}]

Parts ==
  /\ RestOK
  /\ TrackerTypeOK
  /\ DepthOK
  /\ SkippedOK
  /\ HiddenOK
  /\ \A t \in Thread : CallOK(t)

LEMMA TypeParts == TypeInv <=> Parts
<1>1. ASSUME TypeInv PROVE Parts
  <2>1. RestOK /\ TrackerTypeOK /\ SkippedOK
    BY <1>1 DEF TypeInv, TypeOK, RestOK, SkippedOK
  <2>2. DepthOK /\ HiddenOK
    BY <1>1 DEF TypeInv, TypeOK, CallInv, DepthOK, HiddenOK
  <2>3. \A t \in Thread : CallOK(t)
    BY <1>1 DEF TypeInv, CallInv, CallOK
  <2> QED
    BY <2>1, <2>2, <2>3 DEF Parts
<1>2. ASSUME Parts PROVE TypeInv
  <2>1. CallInv
    BY <1>2 DEF Parts, DepthOK, HiddenOK, CallOK, CallInv
  <2>2. \A m \in Mutex : depth[m] \in 0 .. MaxDepth /\ ((depth[m] = 0) <=> (owner[m] = NoThread))
    BY <1>2 DEF Parts, DepthOK
  <2>3. TypeOK
    BY <1>2, <2>2 DEF Parts, TypeOK, RestOK, SkippedOK, HiddenOK
  <2> QED
    BY <2>1, <2>3 DEF TypeInv
<1> QED
  BY <1>1, <1>2

LEMMA TypePartsNext == TypeInv' <=> Parts'
  BY TypeParts, PTL

LEMMA InitType == Init => TypeInv
<1> SUFFICES ASSUME Init PROVE TypeInv
  OBVIOUS
<1>1. RestOK
  BY DEF Init, RestOK, GraphInit, GraphTypeOK, AbortReason
<1>2. TrackerTypeOK
  BY DEF Init, TrackerInit, TrackerTypeOK, Point, Event
<1>3. DepthOK
  BY OtherCallsAssumption DEF Init, TrackerInit, DepthOK
<1>4. SkippedOK /\ HiddenOK /\ \A t \in Thread : CallOK(t)
  BY DEF Init, TrackerInit, SkippedOK, HiddenOK, CallOK
<1> QED
  BY <1>1, <1>2, <1>3, <1>4, TypeParts DEF Parts

\* The filter answers yes or no.
LEMMA FilterAnswers ==
  ASSUME TypeInv, NEW m
  PROVE  isFilter(m) \subseteq BOOLEAN
  BY DEF TypeInv, TypeOK, isFilter

LEMMA PutType ==
  ASSUME TypeInv, NEW t \in Thread, NEW ev \in Event, Put(t, ev)
  PROVE  /\ queue' \in [Thread -> Seq(Event)]
         /\ \A u \in Thread \ {t} : queue'[u] = queue[u]
  BY DEF TypeInv, TypeOK, TrackerTypeOK, Put

LEMMA JudgeType ==
  ASSUME TypeInv, NEW t \in Thread, NEW extra \in BOOLEAN, NEW missing \in BOOLEAN,
         Judge(t, extra, missing)
  PROVE  /\ mistake' \in [Thread -> {"none", "extra", "missing"}]
         /\ \A u \in Thread \ {t} : mistake'[u] = mistake[u]
         /\ mistake'[t] = "none" => mistake[t] = "none" /\ ~extra /\ ~missing
  BY DEF TypeInv, TypeOK, Judge

\* A thread to which nothing happens is as consistent as before.
LEMMA OthersCalls ==
  ASSUME TypeInv, NEW u \in Thread,
         pc'[u] = pc[u], target'[u] = target[u], parked'[u] = parked[u],
         \A m \in Mutex : (owner'[m] = u) <=> (owner[m] = u),
         \A m \in Mutex : owner[m] = u => depth'[m] = depth[m]
  PROVE  CallOK(u)'
  BY TypeParts DEF Parts, CallOK
-----------------------------------------------------------------------------
(***************************************************************************)
(* How a thread's own steps keep the graph exactly its queue behind it.    *)
(***************************************************************************)

\* A step that announces nothing and changes nothing that was announced.
LEMMA QuietLags ==
  ASSUME NEW t \in Thread, LagsBehind(t), UNCHANGED edges, queue'[t] = queue[t],
         Asked(t)' = Asked(t), Told(t)' = Told(t)
  PROVE  LagsBehind(t)'
  BY SameArcs DEF LagsBehind

\* A step that announces what the graph, once it has caught up, accepts.
LEMMA PutLags ==
  ASSUME TypeInv, NEW t \in Thread, NEW ev \in Event,
         LagsBehind(t), UNCHANGED edges, Put(t, ev),
         Accepts(Asked(t), Told(t), ev),
         Asked(t)' = NextRequested(ev),
         Told(t)' = NextOccupied(Told(t), ev)
  PROVE  LagsBehind(t)'
<1>1. queue[t] \in Seq(Event) /\ queue'[t] = Append(queue[t], ev)
  BY DEF TypeInv, TypeOK, TrackerTypeOK, Put
<1>2. Leads(Requested(t), Occupied(t), queue'[t], Asked(t)', Told(t)')
  BY <1>1, LeadsAppend DEF LagsBehind
<1> QED
  BY <1>2, SameArcs DEF LagsBehind

\* A step of one thread leaves alone what the others have announced.
LEMMA OneThread ==
  ASSUME IInv, Running, TypeInv', NEW t \in Thread, UNCHANGED graphVars,
         \A u \in Thread \ {t} :
           /\ pc'[u] = pc[u] /\ target'[u] = target[u] /\ queue'[u] = queue[u]
           /\ parked'[u] = parked[u] /\ hidden'[u] = hidden[u] /\ mistake'[u] = mistake[u]
           /\ (u \in skipped') <=> (u \in skipped),
         \A m \in Mutex : \/ owner'[m] = owner[m]
                          \/ owner[m] \in {t, NoThread} /\ owner'[m] \in {t, NoThread},
         pc'[t] = "locked" /\ target'[t] \notin Recursive => target'[t] \in hidden'[t],
         mistake'[t] = "none" => mistake[t] = "none" /\ LagsBehind(t)'
  PROVE  IInv'
<1>1. TakenIsHidden'
  <2> SUFFICES ASSUME NEW u \in Thread
               PROVE  pc'[u] = "locked" /\ target'[u] \notin Recursive
                        => target'[u] \in hidden'[u]
    BY DEF TakenIsHidden
  <2> QED
    BY DEF IInv, RunningInv, TakenIsHidden
<1>2. ASSUME NEW u \in Thread, mistake'[u] = "none"
      PROVE  ThreadConsistent(u)' /\ LagsBehind(u)'
  <2>1. mistake[u] = "none"
    BY <1>2
  <2>2. ThreadConsistent(u) /\ LagsBehind(u)
    BY <2>1 DEF IInv, RunningInv
  <2>3. ThreadConsistent(u)'
    BY <2>2, SameThread
  <2>4. CASE u # t
    <3>1. \A m \in Mutex : (owner'[m] = u) <=> (owner[m] = u)
      BY <2>4, ProcessAssumption
    <3>2. Asked(u)' = Asked(u)
      BY <2>4 DEF Asked, Wants
    <3>3. Told(u)' = Told(u)
      BY <2>4, <3>1 DEF Told
    <3> QED
      BY <2>2, <2>3, <2>4, <3>2, <3>3, QuietLags DEF graphVars
  <2> QED
    BY <1>2, <2>3, <2>4
<1> QED
  BY <1>1, <1>2 DEF IInv, RunningInv

\* An aborted process has only its types left to keep.
LEMMA AbortIInv ==
  ASSUME TypeInv', abort' # "none"
  PROVE  IInv'
  BY DEF IInv, Running
-----------------------------------------------------------------------------
(* The interposed functions *)

LEMMA LockCallIInv ==
  ASSUME IInv, NEW t \in Thread, NEW m \in Mutex, LockCall(t, m)
  PROVE  IInv'
<1>1. /\ TypeInv /\ Running /\ RunningInv
      /\ pc[t] = "idle" /\ parked[t] = NoMutex
      /\ UNCHANGED <<graphVars, owner, depth, parked, filter, filters, hidden, mistake>>
  BY DEF IInv, LockCall, StillLocks, generateWaitEvent, Abort, trackerVars, filterVars
<1>2. PICK ignored \in isFilter(m) :
        /\ generateWaitEvent(t, m, ignored)
        /\ skipped' = IF ignored /\ abort' = "none" THEN skipped \cup {t} ELSE skipped
  BY DEF LockCall
<1>3. /\ RestOK /\ TrackerTypeOK /\ DepthOK /\ SkippedOK /\ HiddenOK
      /\ \A u \in Thread : CallOK(u)
      /\ ignored \in BOOLEAN
  BY <1>1, TypeParts, FilterAnswers DEF Parts
<1>4. CASE Abort("poolEmpty") \/ Abort("queueFull")
  <2>1. /\ UNCHANGED <<trackerVars, skipped>>
        /\ abort' \in {"poolEmpty", "queueFull"}
    BY <1>2, <1>4 DEF Abort
  <2>2. RestOK'
    BY <1>1, <1>3, <2>1 DEF RestOK, AbortReason, GraphTypeOK, graphVars
  <2>3. TrackerTypeOK' /\ DepthOK' /\ SkippedOK' /\ HiddenOK' /\ \A u \in Thread : CallOK(u)'
    BY <1>1, <1>3, <2>1 DEF trackerVars, TrackerTypeOK, DepthOK, SkippedOK, HiddenOK, CallOK
  <2>4. TypeInv'
    BY <2>2, <2>3, TypePartsNext DEF Parts
  <2> QED
    BY <2>1, <2>4, AbortIInv
<1>5. CASE /\ IF ignored THEN UNCHANGED queue ELSE ~Full(t) /\ Put(t, wait(m))
           /\ registered' = registered \cup {t}
           /\ Go(t, "locking", m)
           /\ UNCHANGED <<owner, abort>>
  <2>1. /\ pc'[t] = "locking" /\ target'[t] = m
        /\ \A u \in Thread \ {t} : pc'[u] = pc[u] /\ target'[u] = target[u]
        /\ pc' \in [Thread -> Point] /\ target' \in [Thread -> Mutex \cup {NoMutex}]
    BY <1>3, <1>5 DEF Go, TrackerTypeOK, Point
  <2>2. /\ queue' \in [Thread -> Seq(Event)]
        /\ \A u \in Thread \ {t} : queue'[u] = queue[u]
    BY <1>1, <1>3, <1>5, PutType, EventTypes DEF TrackerTypeOK
  <2>3. skipped' = IF ignored THEN skipped \cup {t} ELSE skipped
    BY <1>1, <1>2, <1>5 DEF Running
  <2>4. TypeInv'
    <3>1. RestOK'
      BY <1>1, <1>3, <1>5 DEF RestOK, GraphTypeOK, graphVars
    <3>2. TrackerTypeOK'
      BY <1>3, <1>5, <2>1, <2>2 DEF TrackerTypeOK
    <3>3. DepthOK' /\ SkippedOK' /\ HiddenOK'
      BY <1>1, <1>3, <2>1, <2>3 DEF DepthOK, SkippedOK, HiddenOK
    <3>4. ASSUME NEW u \in Thread PROVE CallOK(u)'
      <4>1. CASE u = t
        BY <1>1, <2>1, <4>1 DEF CallOK, LockCall
      <4>2. CASE u # t
        BY <1>1, <2>1, <4>2, OthersCalls
      <4> QED
        BY <4>1, <4>2
    <3> QED
      BY <3>1, <3>2, <3>3, <3>4, TypePartsNext DEF Parts
  <2>5. ASSUME mistake'[t] = "none" PROVE mistake[t] = "none" /\ LagsBehind(t)'
    <3>1. mistake[t] = "none" /\ LagsBehind(t)
      BY <1>1, <2>5 DEF RunningInv
    <3>2. Asked(t) = {}
      BY <1>1 DEF Asked, Wants
    <3>3. Told(t)' = Told(t)
      BY <1>1, <2>1 DEF Told
    <3>4. CASE ignored
      <4>1. Asked(t)' = {}
        BY <2>3, <3>4 DEF Asked
      <4> QED
        BY <1>1, <1>5, <3>1, <3>2, <3>3, <3>4, <4>1, QuietLags DEF graphVars
    <3>5. CASE ~ignored
      <4>1. t \notin skipped'
        BY <1>1, <1>3, <2>3, <3>5 DEF SkippedOK
      <4>2. Asked(t)' = NextRequested(wait(m))
        BY <2>1, <4>1, OtherCallsAssumption DEF Asked, Wants, NextRequested, wait
      <4>3. Told(t)' = NextOccupied(Told(t), wait(m))
        BY <3>3 DEF NextOccupied, Told, wait, hold, release
      <4>4. Accepts(Asked(t), Told(t), wait(m)) /\ wait(m) \in Event
        BY <3>2, EventTypes DEF Accepts, wait
      <4> QED
        BY <1>1, <1>5, <3>1, <3>5, <4>2, <4>3, <4>4, PutLags DEF graphVars
    <3> QED
      BY <1>3, <3>4, <3>5
  <2> QED
    BY <1>1, <2>1, <2>2, <2>3, <2>4, <2>5, OneThread
<1> QED
  BY <1>2, <1>4, <1>5 DEF generateWaitEvent

LEMMA NativeLockIInv ==
  ASSUME IInv, NEW t \in Thread, NativeLock(t)
  PROVE  IInv'
<1> DEFINE m == target[t]
<1>1. /\ TypeInv /\ Running /\ RunningInv /\ pc[t] = "locking"
      /\ UNCHANGED <<graphVars, queue, registered, abort, parked, filter, filters,
                     skipped, mistake>>
      /\ depth' = IF pc'[t] = "locked" THEN [depth EXCEPT ![m] = @ + 1] ELSE depth
      /\ hidden' = IF owner' # owner THEN [hidden EXCEPT ![t] = @ \cup {m}] ELSE hidden
  BY DEF IInv, NativeLock, nativeLock, Relock, filterVars
<1>2. /\ RestOK /\ TrackerTypeOK /\ DepthOK /\ SkippedOK /\ HiddenOK
      /\ \A u \in Thread : CallOK(u)
  BY <1>1, TypeParts DEF Parts
<1>3. m \in Mutex /\ parked[t] = NoMutex
  BY <1>1, <1>2 DEF CallOK
\* The free mutex, the error, and the second lock by the owner.
<1>4. \/ owner[m] = NoThread /\ owner' = [owner EXCEPT ![m] = t] /\ Go(t, "locked", m)
      \/ m \in ErrorCheck /\ owner[m] = t /\ owner' = owner /\ Go(t, "lockFailed", m)
      \/ m \in Recursive /\ owner[m] = t /\ owner' = owner /\ Go(t, "locked", m)
  BY DEF NativeLock, nativeLock, Relock
<1>5. /\ pc'[t] \in {"locked", "lockFailed"} /\ target'[t] = m
      /\ \A u \in Thread \ {t} : pc'[u] = pc[u] /\ target'[u] = target[u]
      /\ pc' \in [Thread -> Point] /\ target' \in [Thread -> Mutex \cup {NoMutex}]
  BY <1>2, <1>3, <1>4 DEF Go, TrackerTypeOK, Point
<1>6. /\ owner' \in [Mutex -> Thread \cup {NoThread}]
      /\ owner'[m] = t
      /\ \A n \in Mutex \ {m} : owner'[n] = owner[n]
      /\ owner[m] \in {t, NoThread}
  BY <1>2, <1>3, <1>4 DEF TrackerTypeOK
<1>7. /\ pc'[t] = "locked" => depth[m] < MaxDepth /\ depth'[m] = depth[m] + 1
      /\ pc'[t] # "locked" => depth' = depth /\ m \in ErrorCheck
      /\ \A n \in Mutex \ {m} : depth'[n] = depth[n]
      /\ depth[m] \in 0..MaxDepth /\ MaxDepth \in Nat
      /\ depth' \in [Mutex -> 0 .. MaxDepth]
  <2>1. pc'[t] = "locked" => depth[m] < MaxDepth
    <3>1. CASE owner[m] = NoThread
      BY <1>2, <1>3, <3>1, OtherCallsAssumption DEF DepthOK
    <3>2. CASE m \in ErrorCheck /\ Go(t, "lockFailed", m)
      BY <1>2, <3>2 DEF Go, TrackerTypeOK
    <3>3. CASE m \in Recursive /\ owner[m] = t
      BY <1>1, <1>2, <3>3 DEF CallOK
    <3> QED
      BY <1>4, <3>1, <3>2, <3>3
  <2>2. pc'[t] # "locked" => m \in ErrorCheck
    BY <1>2, <1>4 DEF Go, TrackerTypeOK
  <2> QED
    BY <1>1, <1>2, <1>3, <2>1, <2>2, OtherCallsAssumption DEF DepthOK
<1>8. /\ hidden'[t] = IF owner[m] = NoThread THEN hidden[t] \cup {m} ELSE hidden[t]
      /\ \A u \in Thread \ {t} : hidden'[u] = hidden[u]
      /\ hidden' \in [Thread -> SUBSET Mutex]
  <2>1. owner' # owner <=> owner[m] = NoThread
    BY <1>2, <1>3, <1>4, <1>6, ProcessAssumption
  <2> QED
    BY <1>1, <1>2, <1>3, <2>1 DEF HiddenOK
<1>9. TypeInv'
  <2>1. RestOK'
    BY <1>1, <1>2 DEF RestOK, GraphTypeOK, graphVars
  <2>2. TrackerTypeOK'
    BY <1>1, <1>2, <1>5, <1>6 DEF TrackerTypeOK
  <2>3. DepthOK'
    <3>1. ASSUME NEW n \in Mutex PROVE (depth'[n] = 0) <=> (owner'[n] = NoThread)
      <4>1. CASE n = m
        <5>1. owner[m] = t \/ pc'[t] = "locked"
          BY <1>2, <1>4 DEF Go, TrackerTypeOK
        <5> QED
          BY <4>1, <5>1, <1>2, <1>3, <1>6, <1>7, ProcessAssumption DEF DepthOK
      <4>2. CASE n # m
        BY <4>2, <1>2, <1>6, <1>7 DEF DepthOK
      <4> QED
        BY <4>1, <4>2
    <3> QED
      BY <3>1, <1>7 DEF DepthOK
  <2>4. SkippedOK'
    BY <1>1, <1>2, <1>5 DEF SkippedOK
  <2>5. HiddenOK'
    <3>1. ASSUME NEW u \in Thread, NEW n \in hidden'[u]
          PROVE  owner'[n] = u \/ parked'[u] = n \/ (pc'[u] = "unlocked" /\ target'[u] = n)
      <4>1. n \in Mutex
        BY <3>1, <1>8
      <4>2. CASE u = t /\ n = m
        BY <4>2, <1>6
      <4>3. CASE ~(u = t /\ n = m)
        <5>1. n \in hidden[u]
          BY <3>1, <4>3, <1>8
        <5>2. owner[n] = u \/ parked[u] = n \/ (pc[u] = "unlocked" /\ target[u] = n)
          BY <1>2, <5>1 DEF HiddenOK
        <5>3. owner[n] = u => owner'[n] = u
          BY <4>1, <4>3, <1>6, ProcessAssumption
        <5> QED
          BY <1>1, <1>5, <5>2, <5>3
      <4> QED
        BY <4>2, <4>3
    <3> QED
      BY <3>1, <1>8 DEF HiddenOK
  <2>6. ASSUME NEW u \in Thread PROVE CallOK(u)'
    <3>1. CASE u = t
      BY <3>1, <1>1, <1>3, <1>5, <1>6, <1>7 DEF CallOK
    <3>2. CASE u # t
      <4>1. \A n \in Mutex : (owner'[n] = u) <=> (owner[n] = u)
        BY <3>2, <1>6, ProcessAssumption
      <4>2. \A n \in Mutex : owner[n] = u => depth'[n] = depth[n]
        BY <3>2, <1>6, <1>7, ProcessAssumption
      <4> QED
        BY <3>2, <4>1, <4>2, <1>1, <1>5, OthersCalls
    <3> QED
      BY <3>1, <3>2
  <2> QED
    BY <2>1, <2>2, <2>3, <2>4, <2>5, <2>6, TypePartsNext DEF Parts
<1>10. ASSUME LagsBehind(t) PROVE LagsBehind(t)'
  <2>1. Asked(t)' = Asked(t)
    BY <1>1, <1>5 DEF Asked, Wants
  <2>2. ASSUME NEW n \in Mutex PROVE n \in Told(t)' <=> n \in Told(t)
    <3>1. CASE n = m /\ owner[m] = NoThread
      BY <3>1, <1>1, <1>3, <1>8, ProcessAssumption DEF Told
    <3>2. CASE ~(n = m /\ owner[m] = NoThread)
      <4>1. (owner'[n] = t) <=> (owner[n] = t)
        BY <3>2, <1>6
      <4>2. n \in hidden'[t] <=> n \in hidden[t]
        BY <3>2, <1>8
      <4> QED
        BY <4>1, <4>2, <1>1, <1>5 DEF Told
    <3> QED
      BY <3>1, <3>2
  <2>3. Told(t)' = Told(t)
    BY <2>2 DEF Told
  <2> QED
    BY <1>1, <1>10, <2>1, <2>3, QuietLags DEF graphVars
<1>11. pc'[t] = "locked" /\ target'[t] \notin Recursive => target'[t] \in hidden'[t]
  BY <1>2, <1>4, <1>5, <1>8 DEF Go, TrackerTypeOK
<1> HIDE DEF m
<1>12. \A n \in Mutex : \/ owner'[n] = owner[n]
                        \/ owner[n] \in {t, NoThread} /\ owner'[n] \in {t, NoThread}
  BY <1>6
<1> QED
  BY <1>1, <1>5, <1>8, <1>9, <1>10, <1>11, <1>12, OneThread DEF RunningInv

LEMMA HoldCallIInv ==
  ASSUME IInv, NEW t \in Thread, HoldCall(t)
  PROVE  IInv'
<1> DEFINE m == target[t]
<1>1. /\ TypeInv /\ Running /\ RunningInv /\ pc[t] \in {"locked", "lockFailed"}
      /\ UNCHANGED <<graphVars, depth, parked, filter, filters>>
      /\ skipped' = skipped \ {t}
  BY DEF IInv, HoldCall, HoldEvent, generateHoldEvent, filterVars
<1>2. PICK ignored \in isFilter(m) :
        /\ HoldEvent(t, ignored)
        /\ hidden' = IF ignored \/ t \in skipped THEN hidden
                     ELSE [hidden EXCEPT ![t] = @ \ {m}]
        /\ Judge(t, ~ignored /\ (t \in skipped \/ m \notin hidden[t]),
                    ignored /\ t \notin skipped)
  BY DEF HoldCall
<1>3. /\ RestOK /\ TrackerTypeOK /\ DepthOK /\ SkippedOK /\ HiddenOK
      /\ \A u \in Thread : CallOK(u)
      /\ ignored \in BOOLEAN
  BY <1>1, TypeParts, FilterAnswers DEF Parts
<1>4. m \in Mutex /\ parked[t] = NoMutex /\ owner[m] = t
  BY <1>1, <1>3 DEF CallOK
<1>5. /\ mistake' \in [Thread -> {"none", "extra", "missing"}]
      /\ \A u \in Thread \ {t} : mistake'[u] = mistake[u]
      /\ mistake'[t] = "none" => /\ mistake[t] = "none"
                                 /\ ignored => t \in skipped
                                 /\ ~ignored => t \notin skipped /\ m \in hidden[t]
  <2>1. (~ignored /\ (t \in skipped \/ m \notin hidden[t])) \in BOOLEAN
        /\ (ignored /\ t \notin skipped) \in BOOLEAN
    OBVIOUS
  <2> QED
    BY <1>1, <1>2, <1>3, <2>1, JudgeType
<1>6. /\ hidden'[t] = IF ignored \/ t \in skipped THEN hidden[t] ELSE hidden[t] \ {m}
      /\ \A u \in Thread \ {t} : hidden'[u] = hidden[u]
      /\ hidden' \in [Thread -> SUBSET Mutex]
      /\ \A u \in Thread : hidden'[u] \subseteq hidden[u]
  BY <1>2, <1>3 DEF HiddenOK
<1> HIDE DEF m
<1>7. CASE Abort("queueFull") \/ Abort("assertion")
  <2>1. /\ UNCHANGED trackerVars
        /\ abort' \in {"queueFull", "assertion"}
    BY <1>7 DEF Abort
  <2>2. RestOK'
    BY <1>1, <1>3, <1>5, <2>1 DEF RestOK, AbortReason, GraphTypeOK, graphVars
  <2>3. TrackerTypeOK' /\ DepthOK' /\ SkippedOK' /\ HiddenOK' /\ \A u \in Thread : CallOK(u)'
    BY <1>1, <1>3, <1>6, <2>1
       DEF trackerVars, TrackerTypeOK, DepthOK, SkippedOK, HiddenOK, CallOK
  <2>4. TypeInv'
    BY <2>2, <2>3, TypePartsNext DEF Parts
  <2> QED
    BY <2>1, <2>4, AbortIInv
<1>8. CASE /\ IF ignored THEN UNCHANGED queue ELSE ~Full(t) /\ Put(t, hold(m))
           /\ Go(t, "idle", NoMutex)
           /\ UNCHANGED <<owner, registered, abort>>
  <2>1. /\ pc'[t] = "idle"
        /\ \A u \in Thread \ {t} : pc'[u] = pc[u] /\ target'[u] = target[u]
        /\ pc' \in [Thread -> Point] /\ target' \in [Thread -> Mutex \cup {NoMutex}]
    BY <1>3, <1>8 DEF Go, TrackerTypeOK, Point
  <2>2. /\ queue' \in [Thread -> Seq(Event)]
        /\ \A u \in Thread \ {t} : queue'[u] = queue[u]
    BY <1>1, <1>3, <1>4, <1>8, PutType, EventTypes DEF TrackerTypeOK
  <2>3. TypeInv'
    <3>1. RestOK'
      BY <1>1, <1>3, <1>5, <1>8 DEF RestOK, GraphTypeOK, graphVars
    <3>2. TrackerTypeOK'
      BY <1>3, <1>8, <2>1, <2>2 DEF TrackerTypeOK
    <3>3. DepthOK' /\ SkippedOK'
      BY <1>1, <1>3, <1>8, <2>1 DEF DepthOK, SkippedOK
    <3>4. HiddenOK'
      BY <1>1, <1>3, <1>6, <1>8, <2>1 DEF HiddenOK
    <3>5. ASSUME NEW u \in Thread PROVE CallOK(u)'
      <4>1. CASE u = t
        BY <2>1, <4>1 DEF CallOK
      <4>2. CASE u # t
        BY <1>1, <1>8, <2>1, <4>2, OthersCalls
      <4> QED
        BY <4>1, <4>2
    <3> QED
      BY <3>1, <3>2, <3>3, <3>4, <3>5, TypePartsNext DEF Parts
  <2>4. ASSUME mistake'[t] = "none" PROVE mistake[t] = "none" /\ LagsBehind(t)'
    <3>1. mistake[t] = "none" /\ LagsBehind(t)
      BY <1>1, <1>5, <2>4 DEF RunningInv
    <3>2. Asked(t)' = {}
      BY <2>1 DEF Asked, Wants
    <3>3. CASE ignored
      <4>1. t \in skipped /\ hidden'[t] = hidden[t]
        BY <1>5, <1>6, <2>4, <3>3
      <4>2. Asked(t) = {}
        BY <4>1 DEF Asked
      <4>3. Told(t)' = Told(t)
        BY <1>1, <1>8, <2>1, <4>1 DEF Told
      <4> QED
        BY <1>1, <1>8, <3>1, <3>2, <3>3, <4>2, <4>3, QuietLags DEF graphVars
    <3>4. CASE ~ignored
      <4>1. t \notin skipped /\ m \in hidden[t] /\ hidden'[t] = hidden[t] \ {m}
        BY <1>5, <1>6, <2>4, <3>4
      <4>2. Asked(t) = {m}
        BY <1>1, <1>4, <4>1, OtherCallsAssumption DEF Asked, Wants, m
      <4>3. Told(t)' = Told(t) \cup {m} /\ m \notin Told(t)
        BY <1>1, <1>4, <1>8, <2>1, <4>1 DEF Told
      <4>4. NextRequested(hold(m)) = {} /\ NextOccupied(Told(t), hold(m)) = Told(t) \cup {m}
        BY <1>4 DEF NextRequested, NextOccupied, Told, wait, hold, release
      <4>5. Accepts(Asked(t), Told(t), hold(m)) /\ hold(m) \in Event
        BY <1>4, <4>2, <4>3, EventTypes DEF Accepts, hold
      <4>6. Put(t, hold(m))
        BY <1>8, <3>4
      <4> QED
        BY <1>1, <3>1, <3>2, <4>3, <4>4, <4>5, <4>6, PutLags DEF graphVars
    <3> QED
      BY <1>3, <3>1, <3>3, <3>4
  <2> QED
    BY <1>1, <1>5, <1>6, <1>8, <2>1, <2>2, <2>3, <2>4, OneThread
<1> QED
  BY <1>2, <1>7, <1>8 DEF HoldEvent, generateHoldEvent, m

LEMMA UnlockCallIInv ==
  ASSUME IInv, NEW t \in Thread, NEW m \in Mutex, UnlockCall(t, m)
  PROVE  IInv'
<1>1. /\ TypeInv /\ Running /\ RunningInv
      /\ pc[t] = "idle" /\ parked[t] = NoMutex /\ mistake[t] = "none"
      /\ UNCHANGED <<graphVars, queue, registered, abort, parked, filter, filters,
                     skipped, hidden, mistake>>
      /\ depth' = IF pc'[t] = "unlocked" THEN [depth EXCEPT ![m] = @ - 1] ELSE depth
  BY DEF IInv, UnlockCall, Active, nativeUnlock, Unwind, filterVars, saidVars
<1>2. /\ RestOK /\ TrackerTypeOK /\ DepthOK /\ SkippedOK /\ HiddenOK
      /\ \A u \in Thread : CallOK(u)
  BY <1>1, TypeParts DEF Parts
\* The last unlock, one of several, and the error.
<1>3. \/ /\ depth[m] <= 1 /\ owner[m] = t
         /\ owner' = [owner EXCEPT ![m] = NoThread] /\ Go(t, "unlocked", m)
      \/ depth[m] > 1 /\ owner[m] = t /\ owner' = owner /\ Go(t, "unlocked", m)
      \/ owner[m] # t /\ owner' = owner /\ Go(t, "unlockFailed", m)
  BY DEF UnlockCall, nativeUnlock, Unwind
<1>4. /\ pc'[t] \in {"unlocked", "unlockFailed"} /\ target'[t] = m
      /\ (pc'[t] = "unlocked") <=> (owner[m] = t)
      /\ \A u \in Thread \ {t} : pc'[u] = pc[u] /\ target'[u] = target[u]
      /\ pc' \in [Thread -> Point] /\ target' \in [Thread -> Mutex \cup {NoMutex}]
  BY <1>2, <1>3 DEF Go, TrackerTypeOK, Point
<1>5. /\ owner' \in [Mutex -> Thread \cup {NoThread}]
      /\ \A n \in Mutex \ {m} : owner'[n] = owner[n]
      /\ owner'[m] = owner[m] \/ (owner[m] = t /\ owner'[m] = NoThread)
  BY <1>2, <1>3 DEF TrackerTypeOK
<1>6. /\ depth' \in [Mutex -> 0 .. MaxDepth]
      /\ \A n \in Mutex : (depth'[n] = 0) <=> (owner'[n] = NoThread)
      /\ \A n \in Mutex \ {m} : depth'[n] = depth[n]
      /\ owner[m] # t => depth' = depth
  <2>1. depth[m] \in 0 .. MaxDepth /\ MaxDepth \in Nat /\ (depth[m] = 0 <=> owner[m] = NoThread)
    BY <1>2, OtherCallsAssumption DEF DepthOK
  <2>2. CASE owner[m] # t
    BY <1>1, <1>2, <1>3, <1>4, <2>2 DEF DepthOK
  <2>3. CASE owner[m] = t
    <3>1. depth[m] >= 1 /\ depth' = [depth EXCEPT ![m] = @ - 1]
      BY <1>1, <1>4, <2>1, <2>3, ProcessAssumption
    <3>2. depth'[m] = depth[m] - 1 /\ depth' \in [Mutex -> 0 .. MaxDepth]
          /\ \A n \in Mutex \ {m} : depth'[n] = depth[n]
      BY <1>2, <2>1, <3>1 DEF DepthOK
    <3>3. (depth'[m] = 0) <=> (owner'[m] = NoThread)
      BY <1>2, <1>3, <2>1, <2>3, <3>1, <3>2, ProcessAssumption DEF TrackerTypeOK
    <3> QED
      BY <1>2, <1>5, <2>3, <3>2, <3>3 DEF DepthOK
  <2> QED
    BY <2>2, <2>3
<1>7. TypeInv'
  <2>1. RestOK'
    BY <1>1, <1>2 DEF RestOK, GraphTypeOK, graphVars
  <2>2. TrackerTypeOK'
    BY <1>1, <1>2, <1>4, <1>5 DEF TrackerTypeOK
  <2>3. DepthOK'
    BY <1>6 DEF DepthOK
  <2>4. SkippedOK'
    BY <1>1, <1>2, <1>4 DEF SkippedOK
  <2>5. HiddenOK'
    <3>1. ASSUME NEW u \in Thread, NEW n \in hidden[u]
          PROVE  owner'[n] = u \/ parked'[u] = n \/ (pc'[u] = "unlocked" /\ target'[u] = n)
      <4>1. owner[n] = u \/ parked[u] = n \/ (pc[u] = "unlocked" /\ target[u] = n)
        BY <1>2 DEF HiddenOK
      <4>2. n \in Mutex
        BY <1>2 DEF HiddenOK
      <4>3. CASE u = t /\ n = m
        BY <1>1, <1>4, <4>1, <4>3
      <4>4. CASE u = t /\ n # m
        BY <1>1, <1>5, <4>1, <4>2, <4>4
      <4>5. CASE u # t
        BY <1>1, <1>4, <1>5, <4>1, <4>2, <4>5
      <4> QED
        BY <4>3, <4>4, <4>5
    <3> QED
      BY <3>1, <1>1, <1>2 DEF HiddenOK
  <2>6. ASSUME NEW u \in Thread PROVE CallOK(u)'
    <3>1. CASE u = t
      BY <3>1, <1>1, <1>4 DEF CallOK
    <3>2. CASE u # t
      <4>1. \A n \in Mutex : (owner'[n] = u) <=> (owner[n] = u)
        BY <3>2, <1>5, ProcessAssumption
      <4>2. \A n \in Mutex : owner[n] = u => depth'[n] = depth[n]
        BY <3>2, <1>6
      <4> QED
        BY <3>2, <4>1, <4>2, <1>1, <1>4, OthersCalls
    <3> QED
      BY <3>1, <3>2
  <2> QED
    BY <2>1, <2>2, <2>3, <2>4, <2>5, <2>6, TypePartsNext DEF Parts
<1>8. LagsBehind(t)'
  <2>1. LagsBehind(t)
    BY <1>1 DEF RunningInv
  <2>2. Asked(t)' = Asked(t)
    BY <1>1, <1>4 DEF Asked, Wants
  <2>3. ASSUME NEW n \in Mutex
        PROVE  (owner'[n] = t \/ (pc'[t] = "unlocked" /\ target'[t] = n)) <=> owner[n] = t
    BY <1>4, <1>5, ProcessAssumption
  <2>4. Told(t)' = Told(t)
    BY <2>3, <1>1 DEF Told
  <2> QED
    BY <1>1, <2>1, <2>2, <2>4, QuietLags DEF graphVars
<1>9. \A n \in Mutex : \/ owner'[n] = owner[n]
                       \/ owner[n] \in {t, NoThread} /\ owner'[n] \in {t, NoThread}
  BY <1>5
<1> QED
  BY <1>1, <1>4, <1>7, <1>8, <1>9, OneThread

LEMMA ReleaseCallIInv ==
  ASSUME IInv, NEW t \in Thread, ReleaseCall(t)
  PROVE  IInv'
<1> DEFINE m == target[t]
<1>1. /\ TypeInv /\ Running /\ RunningInv /\ pc[t] \in {"unlocked", "unlockFailed"}
      /\ UNCHANGED <<graphVars, depth, parked, filter, filters, skipped>>
  BY DEF IInv, ReleaseCall, generateReleaseEvent, filterVars
<1>2. PICK ignored \in isFilter(m) :
        /\ generateReleaseEvent(t, ignored)
        /\ hidden' = [hidden EXCEPT ![t] =
             IF owner[m] # t THEN @ \ {m} ELSE IF ignored THEN @ ELSE @ \cup {m}]
        /\ Judge(t, ~ignored /\ m \notin Told(t),
                    ignored /\ owner[m] # t /\ m \in Told(t))
  BY DEF ReleaseCall
<1>3. /\ RestOK /\ TrackerTypeOK /\ DepthOK /\ SkippedOK /\ HiddenOK
      /\ \A u \in Thread : CallOK(u)
      /\ ignored \in BOOLEAN
  BY <1>1, TypeParts, FilterAnswers DEF Parts
<1>4. m \in Mutex /\ parked[t] = NoMutex /\ m # NoMutex
  BY <1>1, <1>3, ProcessAssumption DEF CallOK
<1>5. /\ mistake' \in [Thread -> {"none", "extra", "missing"}]
      /\ \A u \in Thread \ {t} : mistake'[u] = mistake[u]
      /\ mistake'[t] = "none" => /\ mistake[t] = "none"
                                 /\ ~ignored => m \in Told(t)
                                 /\ ignored => owner[m] = t \/ m \notin Told(t)
  <2>1. (~ignored /\ m \notin Told(t)) \in BOOLEAN
        /\ (ignored /\ owner[m] # t /\ m \in Told(t)) \in BOOLEAN
    OBVIOUS
  <2> QED
    BY <1>1, <1>2, <1>3, <2>1, JudgeType
<1>6. /\ hidden'[t] = IF owner[m] # t THEN hidden[t] \ {m}
                      ELSE IF ignored THEN hidden[t] ELSE hidden[t] \cup {m}
      /\ \A u \in Thread \ {t} : hidden'[u] = hidden[u]
      /\ hidden' \in [Thread -> SUBSET Mutex]
  BY <1>2, <1>3, <1>4 DEF HiddenOK
<1> HIDE DEF m
<1>7. ASSUME owner' = owner, NEW u \in Thread, NEW n \in hidden'[u],
             n # m \/ u # t => ((pc[u] = "unlocked" /\ target[u] = n)
                                  => (pc'[u] = "unlocked" /\ target'[u] = n))
      PROVE  owner'[n] = u \/ parked'[u] = n \/ (pc'[u] = "unlocked" /\ target'[u] = n)
  <2>1. CASE u = t /\ n = m
    BY <2>1, <1>4, <1>6, <1>7
  <2>2. CASE u # t \/ n # m
    <3>1. n \in hidden[u]
      BY <2>2, <1>6, <1>7
    <3> QED
      BY <2>2, <3>1, <1>1, <1>3, <1>7 DEF HiddenOK
  <2> QED
    BY <2>1, <2>2
<1>8. CASE Abort("queueFull") \/ Abort("assertion")
  <2>1. /\ UNCHANGED trackerVars
        /\ abort' \in {"queueFull", "assertion"}
    BY <1>8 DEF Abort
  <2>2. RestOK'
    BY <1>1, <1>3, <1>5, <2>1 DEF RestOK, AbortReason, GraphTypeOK, graphVars
  <2>3. TrackerTypeOK' /\ DepthOK' /\ SkippedOK' /\ \A u \in Thread : CallOK(u)'
    BY <1>1, <1>3, <2>1 DEF trackerVars, TrackerTypeOK, DepthOK, SkippedOK, CallOK
  <2>4. HiddenOK'
    BY <1>6, <1>7, <2>1 DEF trackerVars, HiddenOK
  <2>5. TypeInv'
    BY <2>2, <2>3, <2>4, TypePartsNext DEF Parts
  <2> QED
    BY <2>1, <2>5, AbortIInv
<1>9. CASE /\ IF ignored THEN UNCHANGED queue ELSE ~Full(t) /\ Put(t, release(m))
           /\ Go(t, "idle", NoMutex)
           /\ UNCHANGED <<owner, registered, abort>>
  <2>1. /\ pc'[t] = "idle"
        /\ \A u \in Thread \ {t} : pc'[u] = pc[u] /\ target'[u] = target[u]
        /\ pc' \in [Thread -> Point] /\ target' \in [Thread -> Mutex \cup {NoMutex}]
    BY <1>3, <1>9 DEF Go, TrackerTypeOK, Point
  <2>2. /\ queue' \in [Thread -> Seq(Event)]
        /\ \A u \in Thread \ {t} : queue'[u] = queue[u]
    BY <1>1, <1>3, <1>4, <1>9, PutType, EventTypes DEF TrackerTypeOK
  <2>3. TypeInv'
    <3>1. RestOK'
      BY <1>1, <1>3, <1>5, <1>9 DEF RestOK, GraphTypeOK, graphVars
    <3>2. TrackerTypeOK'
      BY <1>3, <1>9, <2>1, <2>2 DEF TrackerTypeOK
    <3>3. DepthOK' /\ SkippedOK'
      BY <1>1, <1>3, <1>9, <2>1 DEF DepthOK, SkippedOK
    <3>4. HiddenOK'
      BY <1>6, <1>7, <1>9, <2>1 DEF HiddenOK, m
    <3>5. ASSUME NEW u \in Thread PROVE CallOK(u)'
      <4>1. CASE u = t
        BY <2>1, <4>1 DEF CallOK
      <4>2. CASE u # t
        BY <1>1, <1>9, <2>1, <4>2, OthersCalls
      <4> QED
        BY <4>1, <4>2
    <3> QED
      BY <3>1, <3>2, <3>3, <3>4, <3>5, TypePartsNext DEF Parts
  <2>4. ASSUME mistake'[t] = "none" PROVE mistake[t] = "none" /\ LagsBehind(t)'
    <3>1. mistake[t] = "none" /\ LagsBehind(t)
      BY <1>1, <1>5, <2>4 DEF RunningInv
    <3>2. Asked(t)' = {} /\ Asked(t) = {}
      BY <1>1, <2>1 DEF Asked, Wants
    <3>3. ASSUME NEW n \in Mutex, n # m
          PROVE  n \in Told(t)' <=> n \in Told(t)
      BY <1>1, <1>6, <1>9, <2>1, <3>3 DEF Told, m
    <3>4. m \in Told(t)' <=> owner[m] = t /\ ignored /\ m \notin hidden[t]
      BY <1>1, <1>3, <1>4, <1>6, <1>9, <2>1 DEF Told
    <3>5. CASE ignored
      <4>1. m \in Told(t)' <=> m \in Told(t)
        BY <1>4, <1>5, <2>4, <3>4, <3>5 DEF Told
      <4>2. Told(t)' = Told(t)
        BY <3>3, <4>1 DEF Told
      <4> QED
        BY <1>1, <1>9, <3>1, <3>2, <3>5, <4>2, QuietLags DEF graphVars
    <3>6. CASE ~ignored
      <4>1. m \in Told(t) /\ m \notin Told(t)'
        BY <1>5, <2>4, <3>4, <3>6
      <4>2. Told(t)' = Told(t) \ {m}
        BY <3>3, <4>1 DEF Told
      <4>3. NextRequested(release(m)) = {} /\ NextOccupied(Told(t), release(m)) = Told(t) \ {m}
        BY <1>4 DEF NextRequested, NextOccupied, Told, wait, hold, release
      <4>4. Accepts(Asked(t), Told(t), release(m)) /\ release(m) \in Event
        BY <1>4, <3>2, <4>1, EventTypes DEF Accepts, release
      <4>5. Put(t, release(m))
        BY <1>9, <3>6
      <4> QED
        BY <1>1, <3>1, <3>2, <4>2, <4>3, <4>4, <4>5, PutLags DEF graphVars
    <3> QED
      BY <1>3, <3>1, <3>5, <3>6
  <2> QED
    BY <1>1, <1>5, <1>6, <1>9, <2>1, <2>2, <2>3, <2>4, OneThread
<1> QED
  BY <1>2, <1>8, <1>9 DEF generateReleaseEvent, m
-----------------------------------------------------------------------------
(* Native functions that are not interposed, and the filter *)

LEMMA TryLockIInv ==
  ASSUME IInv, NEW t \in Thread, NEW m \in Mutex, TryLock(t, m)
  PROVE  IInv'
<1>1. /\ TypeInv /\ Running /\ RunningInv
      /\ pc[t] = "idle" /\ parked[t] = NoMutex /\ mistake[t] = "none"
      /\ UNCHANGED <<graphVars, queue, registered, abort, pc, target, parked, filter, filters,
                     skipped, mistake>>
      /\ depth' = [depth EXCEPT ![m] = @ + 1]
  BY DEF IInv, TryLock, Active, callVars, filterVars
<1>2. /\ RestOK /\ TrackerTypeOK /\ DepthOK /\ SkippedOK /\ HiddenOK
      /\ \A u \in Thread : CallOK(u)
  BY <1>1, TypeParts DEF Parts
<1>3. \/ /\ owner[m] = NoThread
         /\ owner' = [owner EXCEPT ![m] = t]
         /\ hidden' = [hidden EXCEPT ![t] = @ \cup {m}]
      \/ owner[m] = t /\ depth[m] < MaxDepth /\ UNCHANGED <<owner, hidden>>
  BY DEF TryLock
<1>4. /\ owner' \in [Mutex -> Thread \cup {NoThread}]
      /\ owner'[m] = t /\ owner[m] \in {t, NoThread}
      /\ \A n \in Mutex \ {m} : owner'[n] = owner[n]
  BY <1>2, <1>3 DEF TrackerTypeOK
<1>5. /\ hidden' \in [Thread -> SUBSET Mutex]
      /\ \A u \in Thread \ {t} : hidden'[u] = hidden[u]
      /\ hidden'[t] = IF owner[m] = NoThread THEN hidden[t] \cup {m} ELSE hidden[t]
  <2>1. hidden \in [Thread -> SUBSET Mutex]
    BY <1>2 DEF HiddenOK
  <2>2. CASE owner[m] = NoThread
    BY <1>3, <2>1, <2>2, ProcessAssumption
  <2>3. CASE owner[m] # NoThread
    BY <1>3, <2>1, <2>3
  <2> QED
    BY <2>2, <2>3
<1>6. /\ depth' \in [Mutex -> 0 .. MaxDepth]
      /\ \A n \in Mutex \ {m} : depth'[n] = depth[n]
      /\ \A n \in Mutex : (depth'[n] = 0) <=> (owner'[n] = NoThread)
  <2>1. depth[m] \in 0 .. MaxDepth /\ MaxDepth \in Nat \ {0} /\ depth[m] < MaxDepth
    BY <1>2, <1>3, OtherCallsAssumption DEF DepthOK
  <2>2. /\ depth' \in [Mutex -> 0 .. MaxDepth]
        /\ depth'[m] = depth[m] + 1
        /\ \A n \in Mutex \ {m} : depth'[n] = depth[n]
    BY <1>1, <1>2, <2>1 DEF DepthOK
  <2>3. depth'[m] # 0 /\ owner'[m] # NoThread
    BY <1>4, <2>1, <2>2, ProcessAssumption
  <2> QED
    BY <1>2, <1>4, <2>2, <2>3 DEF DepthOK
<1>7. TypeInv'
  <2>1. RestOK'
    BY <1>1, <1>2 DEF RestOK, GraphTypeOK, graphVars
  <2>2. TrackerTypeOK'
    BY <1>1, <1>2, <1>4 DEF TrackerTypeOK
  <2>3. DepthOK' /\ SkippedOK'
    BY <1>1, <1>2, <1>6 DEF DepthOK, SkippedOK
  <2>4. HiddenOK'
    <3>1. ASSUME NEW u \in Thread, NEW n \in hidden'[u]
          PROVE  owner'[n] = u \/ parked'[u] = n \/ (pc'[u] = "unlocked" /\ target'[u] = n)
      <4>1. CASE u = t /\ n = m
        BY <4>1, <1>4
      <4>2. CASE u # t \/ n # m
        <5>1. n \in hidden[u] /\ n \in Mutex
          BY <3>1, <4>2, <1>2, <1>5 DEF HiddenOK
        <5>2. owner[n] = u => owner'[n] = u
          BY <4>2, <5>1, <1>4, ProcessAssumption
        <5> QED
          BY <5>1, <5>2, <1>1, <1>2 DEF HiddenOK
      <4> QED
        BY <4>1, <4>2
    <3> QED
      BY <3>1, <1>5 DEF HiddenOK
  <2>5. ASSUME NEW u \in Thread PROVE CallOK(u)'
    <3>1. CASE u = t
      BY <3>1, <1>1 DEF CallOK
    <3>2. CASE u # t
      <4>1. \A n \in Mutex : (owner'[n] = u) <=> (owner[n] = u)
        BY <3>2, <1>4, ProcessAssumption
      <4>2. \A n \in Mutex : owner[n] = u => depth'[n] = depth[n]
        BY <3>2, <1>4, <1>6, ProcessAssumption
      <4> QED
        BY <4>1, <4>2, <1>1, OthersCalls
    <3> QED
      BY <3>1, <3>2
  <2> QED
    BY <2>1, <2>2, <2>3, <2>4, <2>5, TypePartsNext DEF Parts
<1>8. LagsBehind(t)'
  <2>1. LagsBehind(t)
    BY <1>1 DEF RunningInv
  <2>2. Asked(t)' = Asked(t)
    BY <1>1 DEF Asked, Wants
  <2>3. ASSUME NEW n \in Mutex PROVE n \in Told(t)' <=> n \in Told(t)
    <3>1. CASE n = m /\ owner[m] = NoThread
      BY <3>1, <1>1, <1>5, ProcessAssumption DEF Told
    <3>2. CASE ~(n = m /\ owner[m] = NoThread)
      <4>1. (owner'[n] = t) <=> (owner[n] = t)
        BY <3>2, <1>4
      <4>2. n \in hidden'[t] <=> n \in hidden[t]
        BY <3>2, <1>5
      <4> QED
        BY <4>1, <4>2, <1>1 DEF Told
    <3> QED
      BY <3>1, <3>2
  <2>4. Told(t)' = Told(t)
    BY <2>3 DEF Told
  <2> QED
    BY <1>1, <2>1, <2>2, <2>4, QuietLags DEF graphVars
<1>9. \A n \in Mutex : \/ owner'[n] = owner[n]
                       \/ owner[n] \in {t, NoThread} /\ owner'[n] \in {t, NoThread}
  BY <1>4
<1> QED
  BY <1>1, <1>5, <1>7, <1>8, <1>9, OneThread

\* pthread_cond_wait, when it gives the mutex up and when it returns.
LEMMA CondIInv ==
  ASSUME IInv, NEW t \in Thread, NEW m \in Mutex,
         CondWait(t, m) \/ (CondReturn(t) /\ parked[t] = m)
  PROVE  IInv'
<1>1. /\ TypeInv /\ Running /\ RunningInv
      /\ UNCHANGED <<graphVars, queue, registered, abort, pc, target, filter, filters,
                     skipped, hidden, mistake>>
  BY DEF IInv, CondWait, CondReturn, Active, callVars, filterVars, saidVars
<1>2. /\ RestOK /\ TrackerTypeOK /\ DepthOK /\ SkippedOK /\ HiddenOK
      /\ \A u \in Thread : CallOK(u)
      /\ m # NoMutex
  BY <1>1, TypeParts, ProcessAssumption DEF Parts
<1>3. pc[t] = "idle"
  BY <1>2 DEF CondWait, CondReturn, CallOK
<1>4. \/ /\ owner[m] = t /\ owner'[m] = NoThread /\ depth'[m] = 0
         /\ parked[t] = NoMutex /\ parked'[t] = m
      \/ /\ owner[m] = NoThread /\ owner'[m] = t /\ depth'[m] = 1
         /\ parked[t] = m /\ parked'[t] = NoMutex
  BY <1>2 DEF CondWait, CondReturn, Active, RestOK, TrackerTypeOK, DepthOK
<1>5. /\ owner' \in [Mutex -> Thread \cup {NoThread}]
      /\ \A n \in Mutex \ {m} : owner'[n] = owner[n]
      /\ parked' \in [Thread -> Mutex \cup {NoMutex}]
      /\ \A u \in Thread \ {t} : parked'[u] = parked[u]
      /\ \A n \in Mutex \ {m} : depth'[n] = depth[n]
  <2>1. /\ owner \in [Mutex -> Thread \cup {NoThread}]
        /\ parked \in [Thread -> Mutex \cup {NoMutex}]
        /\ depth \in [Mutex -> 0 .. MaxDepth]
    BY <1>2 DEF RestOK, TrackerTypeOK, DepthOK
  <2>2. CASE CondWait(t, m)
    BY <2>1, <2>2 DEF CondWait
  <2>3. CASE CondReturn(t) /\ parked[t] = m
    BY <2>1, <2>3 DEF CondReturn
  <2> QED
    BY <2>2, <2>3
<1>6. depth' \in [Mutex -> 0 .. MaxDepth]
  BY <1>2, OtherCallsAssumption DEF CondWait, CondReturn, DepthOK
<1>7. \A n \in Mutex : (owner'[n] = t \/ parked'[t] = n) <=> (owner[n] = t \/ parked[t] = n)
  BY <1>2, <1>4, <1>5, ProcessAssumption
<1>8. TypeInv'
  <2>1. RestOK'
    BY <1>1, <1>2, <1>5 DEF RestOK, GraphTypeOK, graphVars
  <2>2. TrackerTypeOK'
    BY <1>1, <1>2, <1>5 DEF TrackerTypeOK
  <2>3. DepthOK' /\ SkippedOK'
    BY <1>1, <1>2, <1>4, <1>5, <1>6, ProcessAssumption DEF DepthOK, SkippedOK
  <2>4. HiddenOK'
    <3>1. ASSUME NEW u \in Thread, NEW n \in hidden[u]
          PROVE  owner'[n] = u \/ parked'[u] = n \/ (pc'[u] = "unlocked" /\ target'[u] = n)
      <4>1. n \in Mutex /\ (owner[n] = u \/ parked[u] = n \/ (pc[u] = "unlocked" /\ target[u] = n))
        BY <1>2 DEF HiddenOK
      <4>2. u # t => (owner[n] = u => owner'[n] = u)
        BY <4>1, <1>4, <1>5, ProcessAssumption
      <4> QED
        BY <4>1, <4>2, <1>1, <1>5, <1>7
    <3> QED
      BY <3>1, <1>1, <1>2 DEF HiddenOK
  <2>5. ASSUME NEW u \in Thread PROVE CallOK(u)'
    <3>1. CASE u = t
      BY <3>1, <1>1, <1>3 DEF CallOK
    <3>2. CASE u # t
      <4>1. \A n \in Mutex : (owner'[n] = u) <=> (owner[n] = u)
        BY <3>2, <1>4, <1>5, ProcessAssumption
      <4>2. \A n \in Mutex : owner[n] = u => depth'[n] = depth[n]
        BY <3>2, <1>4, <1>5, ProcessAssumption
      <4> QED
        BY <3>2, <4>1, <4>2, <1>1, <1>5, OthersCalls
    <3> QED
      BY <3>1, <3>2
  <2> QED
    BY <2>1, <2>2, <2>3, <2>4, <2>5, TypePartsNext DEF Parts
<1>9. ASSUME LagsBehind(t) PROVE LagsBehind(t)'
  <2>1. Asked(t)' = Asked(t)
    BY <1>1 DEF Asked, Wants
  <2>2. Told(t)' = Told(t)
    BY <1>1, <1>7 DEF Told
  <2> QED
    BY <1>1, <1>9, <2>1, <2>2, QuietLags DEF graphVars
<1>10. \A n \in Mutex : \/ owner'[n] = owner[n]
                        \/ owner[n] \in {t, NoThread} /\ owner'[n] \in {t, NoThread}
  BY <1>4, <1>5
<1> QED
  BY <1>1, <1>3, <1>5, <1>8, <1>9, <1>10, OneThread DEF RunningInv

\* A change of the filter says nothing about the mutexes.
LEMMA FilterIInv ==
  ASSUME IInv,
         \/ UNCHANGED vars
         \/ FilterCall
  PROVE  IInv'
<1>1. /\ UNCHANGED <<coreVars, depth, parked, saidVars>>
      /\ \/ UNCHANGED <<filter, filters>>
         \/ filter' \in {"on", "gone"} /\ filters' \subseteq Mutex
  BY OtherCallsAssumption
     DEF FilterCall, dlcFilterCreate, setFilter, dlcFilterDestroy, vars, programVars, filterVars,
         IInv, TypeInv, TypeOK
<1>2. UNCHANGED <<abort, pc, target, owner, registered, queue, vertexThreadMap, vertexMutexMap,
                  edges, requestThreadMap, depth, parked, skipped, hidden, mistake>>
  BY <1>1 DEF coreVars, trackerVars, graphVars, saidVars
<1>3. TypeInv'
  <2>1. RestOK /\ TrackerTypeOK /\ DepthOK /\ SkippedOK /\ HiddenOK
        /\ \A u \in Thread : CallOK(u)
    BY TypeParts DEF IInv, Parts
  <2>2. RestOK'
    BY <1>1, <1>2, <2>1 DEF RestOK, GraphTypeOK
  <2>3. TrackerTypeOK' /\ DepthOK' /\ SkippedOK' /\ HiddenOK' /\ \A u \in Thread : CallOK(u)'
    BY <1>2, <2>1 DEF TrackerTypeOK, DepthOK, SkippedOK, HiddenOK, CallOK
  <2> QED
    BY <2>2, <2>3, TypePartsNext DEF Parts
<1>4. ASSUME Running PROVE RunningInv'
  <2>1. TakenIsHidden'
    BY <1>2, <1>4 DEF IInv, RunningInv, TakenIsHidden
  <2>2. ASSUME NEW t \in Thread, mistake'[t] = "none"
        PROVE  ThreadConsistent(t)' /\ LagsBehind(t)'
    <3>1. ThreadConsistent(t) /\ LagsBehind(t)
      BY <1>2, <1>4, <2>2 DEF IInv, RunningInv
    <3>2. Asked(t)' = Asked(t) /\ Told(t)' = Told(t)
      BY <1>2 DEF Asked, Wants, Told
    <3> QED
      BY <1>2, <3>1, <3>2, QuietLags, SameThread DEF graphVars
  <2> QED
    BY <2>1, <2>2 DEF RunningInv
<1> QED
  BY <1>2, <1>3, <1>4 DEF IInv, Running
-----------------------------------------------------------------------------
(* The checker *)

LEMMA TakeIInv ==
  ASSUME IInv, NEW t \in Thread, Take(t)
  PROVE  IInv'
<1> DEFINE ev == Head(queue[t])
<1>1. /\ TypeInv /\ Running /\ RunningInv /\ queue[t] # <<>> /\ eventHandler(t, ev)
      /\ queue' = [queue EXCEPT ![t] = Tail(@)]
      /\ UNCHANGED <<pc, target, owner, registered, depth, parked, filter, filters,
                     skipped, hidden, mistake>>
  BY DEF IInv, Take, callVars, programVars, filterVars, saidVars
<1>2. /\ RestOK /\ TrackerTypeOK /\ DepthOK /\ SkippedOK /\ HiddenOK
      /\ \A u \in Thread : CallOK(u)
  BY <1>1, TypeParts DEF Parts
<1>3. /\ queue[t] \in Seq(Event) /\ ev \in Event
      /\ queue'[t] = Tail(queue[t])
      /\ \A u \in Thread \ {t} : queue'[u] = queue[u]
      /\ queue' \in [Thread -> Seq(Event)]
  BY <1>1, <1>2 DEF TrackerTypeOK
<1> HIDE DEF ev
<1>4. TypeInv'
  <2>1. RestOK'
    BY <1>1, <1>2, <1>3, HandlerType DEF RestOK
  <2>2. TrackerTypeOK' /\ DepthOK' /\ SkippedOK' /\ HiddenOK' /\ \A u \in Thread : CallOK(u)'
    BY <1>1, <1>2, <1>3 DEF TrackerTypeOK, DepthOK, SkippedOK, HiddenOK, CallOK
  <2> QED
    BY <2>1, <2>2, TypePartsNext DEF Parts
<1>5. \A u \in Thread : Asked(u)' = Asked(u) /\ Told(u)' = Told(u)
  BY <1>1 DEF Asked, Wants, Told
<1>6. ASSUME NEW u \in Thread, mistake'[u] = "none", Running'
      PROVE  ThreadConsistent(u)' /\ LagsBehind(u)'
  <2>1. ThreadConsistent(u) /\ LagsBehind(u)
    BY <1>1, <1>6 DEF RunningInv
  <2>2. CASE u # t
    <3>1. ThreadConsistent(u)' /\ Requested(u)' = Requested(u) /\ Occupied(u)' = Occupied(u)
      BY <1>1, <1>3, <2>1, <2>2, OtherHandler
    <3> QED
      BY <1>3, <1>5, <2>1, <2>2, <3>1 DEF LagsBehind
  <2>3. CASE u = t
    <3>1. /\ Accepts(Requested(t), Occupied(t), ev)
          /\ Leads(NextRequested(ev), NextOccupied(Occupied(t), ev), queue'[t], Asked(t), Told(t))
      <4>1. Occupied(t) \subseteq Mutex
        BY DEF Occupied
      <4> QED
        BY <1>1, <1>3, <2>1, <2>3, <4>1, LeadsTail DEF LagsBehind, ev
    <3>2. /\ ThreadConsistent(t)'
          /\ Requested(t)' = NextRequested(ev)
          /\ Occupied(t)' = NextOccupied(Occupied(t), ev)
      BY <1>1, <1>3, <1>6, <2>1, <2>3, <3>1, AcceptedHandler
    <3> QED
      BY <1>5, <2>3, <3>1, <3>2 DEF LagsBehind
  <2> QED
    BY <2>2, <2>3
<1>7. TakenIsHidden'
  BY <1>1 DEF RunningInv, TakenIsHidden
<1> QED
  BY <1>4, <1>6, <1>7 DEF IInv, RunningInv
-----------------------------------------------------------------------------
LEMMA InitIInv == Init => IInv
<1> SUFFICES ASSUME Init PROVE IInv
  OBVIOUS
<1>1. TypeInv
  BY InitType
<1>2. TakenIsHidden
  BY DEF Init, TrackerInit, TakenIsHidden
<1>3. ASSUME NEW t \in Thread PROVE ThreadConsistent(t) /\ LagsBehind(t)
  <2>1. queue[t] = <<>> /\ Len(queue[t]) = 0
    BY DEF Init, TrackerInit
  <2>2. Asked(t) = {} /\ Requested(t) = {} /\ Told(t) = {} /\ Occupied(t) = {}
    BY ProcessAssumption
       DEF Init, TrackerInit, GraphInit, Asked, Wants, Requested, Told, Occupied
  <2>3. LagsBehind(t)
    BY <2>1, <2>2 DEF LagsBehind, Leads, RequestedAfter, OccupiedAfter
  <2> QED
    BY <2>2, <2>3 DEF ThreadConsistent, Init, GraphInit
<1> QED
  BY <1>1, <1>2, <1>3 DEF IInv, RunningInv

LEMMA NextIInv == IInv /\ [Next]_vars => IInv'
<1> SUFFICES ASSUME IInv, [Next]_vars PROVE IInv'
  OBVIOUS
<1>1. ASSUME NEW t \in Thread, Interposed(t) PROVE IInv'
  BY <1>1, LockCallIInv, UnlockCallIInv, NativeLockIInv, HoldCallIInv, ReleaseCallIInv
     DEF Interposed
<1>2. ASSUME NEW t \in Thread, NotInterposed(t) PROVE IInv'
  <2>1. CASE CondReturn(t)
    <3>1. parked[t] \in Mutex
      BY <2>1 DEF CondReturn, IInv, TypeInv, TypeOK
    <3> QED
      BY <2>1, <3>1, CondIInv
  <2> QED
    BY <1>2, <2>1, TryLockIInv, CondIInv DEF NotInterposed
<1>3. ASSUME NEW t \in Thread, Take(t) PROVE IInv'
  BY <1>3, TakeIInv
<1>4. CASE FilterCall \/ UNCHANGED vars
  BY <1>4, FilterIInv
<1> QED
  BY <1>1, <1>2, <1>3, <1>4 DEF Next

LEMMA Inductive == Spec => []IInv
  BY InitIInv, NextIInv, PTL DEF Spec

\* Every variable keeps its type, whatever the threads do: natively nobody owns
\* a mutex that he has not locked, and a thread hides no mutex that it has
\* nothing to do with.
THEOREM TypeCorrect == Spec => []TypeOK
<1>1. IInv => TypeOK
  BY DEF IInv, TypeInv
<1> QED
  BY <1>1, Inductive, PTL

\* The graph lags behind a thread that has made no mistake by exactly its
\* queued events, however many other threads lock again what they own, unlock
\* what they do not, take mutexes by trylock or change the filter.
THEOREM IsolationHolds == Spec => []Isolation
<1>1. IInv => Isolation
  BY DEF IInv, RunningInv, LagsBehind, Isolation
<1> QED
  BY <1>1, Inductive, PTL

\* Threads without a mistake, with drained queues, that the graph shows waiting
\* for one another, are deadlocked.
THEOREM NoFalseAlarmHolds == Spec => []NoFalseAlarm
<1>1. IInv => NoFalseAlarm
  <2> SUFFICES ASSUME IInv, Running, NEW D \in SUBSET Thread, Knot(D),
                      \A t \in D : mistake[t] = "none" /\ queue[t] = <<>> /\ ~OwnTarget(t)
               PROVE  Deadlocked(D)
    BY DEF NoFalseAlarm
  <2>1. ASSUME NEW t \in D PROVE Requested(t) = Asked(t) /\ Occupied(t) = Told(t)
    <3>1. Leads(Requested(t), Occupied(t), <<>>, Asked(t), Told(t))
          /\ Occupied(t) \subseteq Mutex
      BY DEF IInv, RunningInv, LagsBehind, Occupied
    <3> QED
      BY <3>1, LeadsNothing
  <2>2. ASSUME NEW t \in D
        PROVE  /\ pc[t] \in {"locking", "locked", "lockFailed"}
               /\ parked[t] = NoMutex
               /\ target[t] \in Mutex
               /\ \E u \in D : target[t] \in Told(u)
    <3>1. PICK m \in Requested(t), u \in D : <<m, u>> \in edges
      BY DEF Knot
    <3>2. m \in Mutex /\ pc[t] \in {"locking", "locked", "lockFailed"} /\ target[t] = m
      BY <3>1, <2>1 DEF Asked, Wants
    <3>3. m \in Told(u)
      BY <3>1, <3>2, <2>1 DEF Occupied
    <3>4. parked[t] = NoMutex
      BY <3>2 DEF IInv, TypeInv, CallInv
    <3> QED
      BY <3>2, <3>3, <3>4
  <2>3. ASSUME NEW t \in D
        PROVE  owner[target[t]] \in D /\ target[t] \notin hidden[owner[target[t]]]
    <3>1. PICK u \in D : target[t] \in Told(u)
      BY <2>2
    <3>2. owner[target[t]] = u /\ target[t] \notin hidden[u]
      BY <3>1, <2>2, ProcessAssumption DEF Told
    <3> QED
      BY <3>2
  <2>4. ASSUME NEW t \in D PROVE pc[t] = "locking"
    <3>1. pc[t] # "lockFailed"
      BY DEF IInv, TypeInv, CallInv, OwnTarget
    <3>2. pc[t] # "locked"
      <4> SUFFICES ASSUME pc[t] = "locked" PROVE FALSE
        OBVIOUS
      <4>1. owner[target[t]] = t
        BY DEF IInv, TypeInv, CallInv
      <4>2. target[t] \notin Recursive
        BY <4>1 DEF OwnTarget
      <4>3. target[t] \in hidden[t]
        BY <4>2 DEF IInv, RunningInv, TakenIsHidden
      <4> QED
        BY <4>1, <4>3, <2>3
    <3> QED
      BY <3>1, <3>2, <2>2
  <2> QED
    BY <2>3, <2>4 DEF Knot, Deadlocked, OwnTarget
<1> QED
  BY <1>1, Inductive, PTL
-----------------------------------------------------------------------------
(***************************************************************************)
(* Who may end the process.                                                *)
(***************************************************************************)
LEMMA HoldCallAborts ==
  ASSUME IInv, NEW t \in Thread, HoldCall(t), abort # "assertion", abort' = "assertion"
  PROVE  mistake'[t] # "none"
<1>1. PICK ignored \in isFilter(target[t]) :
        /\ HoldEvent(t, ignored)
        /\ Judge(t, ~ignored /\ (t \in skipped \/ target[t] \notin hidden[t]),
                    ignored /\ t \notin skipped)
  BY DEF HoldCall
<1>2. ~generateHoldEvent(t, ignored)
  BY DEF generateHoldEvent, Abort
<1>3. t \in skipped /\ ~ignored
  BY <1>1, <1>2 DEF HoldEvent
<1>4. TypeInv /\ ignored \in BOOLEAN
  BY FilterAnswers DEF IInv
<1>5. (~ignored /\ (t \in skipped \/ target[t] \notin hidden[t])) \in BOOLEAN
      /\ (ignored /\ t \notin skipped) \in BOOLEAN
  OBVIOUS
<1> QED
  BY <1>1, <1>3, <1>4, <1>5, JudgeType

LEMMA TakeAborts ==
  ASSUME IInv, NEW t \in Thread, Take(t), abort # "assertion", abort' = "assertion"
  PROVE  mistake'[t] # "none"
<1> SUFFICES ASSUME mistake'[t] = "none" PROVE FALSE
  OBVIOUS
<1> DEFINE ev == Head(queue[t])
<1>1. /\ TypeInv /\ Running /\ RunningInv /\ queue[t] # <<>> /\ eventHandler(t, ev)
      /\ mistake[t] = "none"
  BY DEF IInv, Take, programVars, saidVars
<1>2. ThreadConsistent(t) /\ LagsBehind(t) /\ Occupied(t) \subseteq Mutex
  BY <1>1 DEF RunningInv, Occupied
<1>3. queue[t] \in Seq(Event) /\ ev \in Event
  BY <1>1 DEF TypeInv, TypeOK, TrackerTypeOK
<1>4. Accepts(Requested(t), Occupied(t), ev)
  BY <1>1, <1>2, <1>3, LeadsTail DEF LagsBehind
<1> HIDE DEF ev
<1> QED
  BY <1>1, <1>2, <1>3, <1>4, AcceptedHandler

\* An assert or abort() of dlChecker ends the process only at a step of a thread
\* that has announced too much or too little, or that unlocks before it has ever
\* locked, or when the checker takes such a thread's event.
THEOREM OnlyCulpritsAbortHolds == Spec => OnlyCulpritsAbort
<1>1. ASSUME IInv, [Next]_vars, abort # "assertion", abort' = "assertion"
      PROVE  \E t \in Thread :
               \/ (Take(t) \/ HoldCall(t) \/ ReleaseCall(t)) /\ mistake'[t] # "none"
               \/ ReleaseCall(t) /\ t \notin registered
  <2>1. CASE \E t \in Thread : Take(t)
    BY <1>1, <2>1, TakeAborts
  <2>2. CASE \E t \in Thread : HoldCall(t)
    BY <1>1, <2>2, HoldCallAborts
  <2>3. ASSUME NEW t \in Thread, ReleaseCall(t)
        PROVE  t \notin registered
    BY <1>1, <2>3 DEF ReleaseCall, generateReleaseEvent, Abort
  <2>4. ASSUME NEW t \in Thread, NEW m \in Mutex, LockCall(t, m)
        PROVE  FALSE
    BY <1>1, <2>4 DEF LockCall, generateWaitEvent, Abort
  <2>5. ASSUME NEW t \in Thread, NEW m \in Mutex, UnlockCall(t, m)
        PROVE  FALSE
    BY <1>1, <2>5 DEF UnlockCall, nativeUnlock, Unwind
  <2>6. ASSUME NEW t \in Thread, NativeLock(t)
        PROVE  FALSE
    BY <1>1, <2>6 DEF NativeLock, nativeLock, Relock
  <2>7. ASSUME NEW t \in Thread, NotInterposed(t)
        PROVE  FALSE
    BY <1>1, <2>7 DEF NotInterposed, TryLock, CondWait, CondReturn
  <2>8. ~FilterCall
    BY <1>1 DEF FilterCall, dlcFilterCreate, setFilter, dlcFilterDestroy, coreVars
  <2>9. Next
    BY <1>1 DEF vars, coreVars
  <2> QED
    BY <2>1, <2>2, <2>3, <2>4, <2>5, <2>6, <2>7, <2>8, <2>9 DEF Next, Interposed
<1> QED
  BY <1>1, Inductive, PTL DEF Spec, OnlyCulpritsAbort
=============================================================================
