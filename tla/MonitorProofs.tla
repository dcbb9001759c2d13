--------------------------- MODULE MonitorProofs ---------------------------
(***************************************************************************)
(* Theorems about Monitor: what DlChecker guarantees holds of the whole    *)
(* program too, what a check finds is a deadlock, and a deadlock is found  *)
(* by the second check that could.                                         *)
(***************************************************************************)
EXTENDS Monitor, DlCheckerProofs

(***************************************************************************)
(* The checks leave the threads, the queues and the graph alone.           *)
(***************************************************************************)
LEMMA CoreStep == [MonitorNext]_monitorVars => [Next]_vars
  BY DEF MonitorNext, monitorVars, Program, eventLoopEnter, checkTimerProc, Next, Check

\* Every execution of the whole program is an execution of DlChecker, so every
\* theorem about DlChecker is one about the whole program.
THEOREM MonitorImplementsCore == MonitorSpec => Spec
<1>1. MonitorInit => Init
  BY DEF MonitorInit
<1> QED
  BY <1>1, CoreStep, PTL DEF MonitorSpec, Spec

\* The checks disturb none of the guarantees of DlChecker.
THEOREM MonitorKeepsCore ==
  ASSUME ErrorCheck = {}
  PROVE  MonitorSpec => /\ [](TypeOK /\ GraphLagsByQueue /\ EndedOnlyByLimits)
                        /\ [](ExactAtRest /\ SharedOwnerOnlyByLag)
                        /\ FollowsProtocol
  BY MonitorImplementsCore, TypeCorrect, GraphLagsByQueueHolds, EndedOnlyByLimitsHolds,
     ExactAtRestHolds, SharedOwnerHolds, Refinement, PTL

LEMMA MonitorInductive ==
  ASSUME ErrorCheck = {}
  PROVE  MonitorSpec => []IInv
  BY MonitorImplementsCore, Inductive, PTL
-----------------------------------------------------------------------------
(***************************************************************************)
(* Reachability.                                                           *)
(***************************************************************************)

\* No arc leads out of S, unless to a vertex of X.
Shut(S, X) == \A e \in edges : e[1] \in S /\ e[2] \notin X => e[2] \in S

LEMMA Arcs ==
  ASSUME GraphTypeOK, NEW e \in edges
  PROVE  /\ e = <<e[1], e[2]>>
         /\ e[1] \in Vertex /\ e[2] \in Vertex
         /\ e[1] \in Thread => e[2] \in Mutex
         /\ e[1] \in Mutex => e[2] \in Thread
  BY ProcessAssumption DEF GraphTypeOK, Vertex

\* What is reached is what every set has that contains v and is shut.
LEMMA ReachedIs ==
  ASSUME GraphTypeOK, NEW X, NEW v \in Vertex
  PROVE  \A w : w \in Reached(v, X) <=>
           /\ w \in Vertex
           /\ \A S \in SUBSET Vertex : v \in S /\ Shut(S, X) => w \in S
<1> DEFINE arcs == {e \in edges : e[2] \notin X}
           Apart(S) == \A e \in arcs : e[2] \in S => e[1] \in S
<1>1. Reached(v, X) = Vertex \ UNION {S \in SUBSET (Vertex \ {v}) : Apart(S)}
  BY DEF Reached
<1>2. ASSUME NEW S \in SUBSET Vertex
      PROVE  Shut(S, X) <=> Apart(Vertex \ S)
  BY Arcs DEF Shut
<1> HIDE DEF Apart
<1>3. ASSUME NEW w \in Reached(v, X), NEW S \in SUBSET Vertex, v \in S, Shut(S, X)
      PROVE  w \in S
  <2>1. Vertex \ S \in SUBSET (Vertex \ {v}) /\ Apart(Vertex \ S)
    BY <1>2, <1>3
  <2>2. w \notin Vertex \ S /\ w \in Vertex
    BY <1>1, <2>1
  <2> QED
    BY <2>2
<1>4. ASSUME NEW w \in Vertex, w \notin Reached(v, X)
      PROVE  \E S \in SUBSET Vertex : v \in S /\ Shut(S, X) /\ w \notin S
  <2>1. PICK T \in SUBSET (Vertex \ {v}) : Apart(T) /\ w \in T
    BY <1>1, <1>4
  <2>2. Vertex \ T \in SUBSET Vertex /\ v \in Vertex \ T /\ w \notin Vertex \ T
    BY <2>1
  <2>3. Vertex \ (Vertex \ T) = T
    BY <2>1
  <2>4. Shut(Vertex \ T, X)
    BY <1>2, <2>1, <2>2, <2>3
  <2> QED
    BY <2>2, <2>4
<1>5. Reached(v, X) \subseteq Vertex
  BY <1>1
<1> QED
  BY <1>3, <1>4, <1>5

LEMMA ReachedShut ==
  ASSUME GraphTypeOK, NEW X, NEW v \in Vertex
  PROVE  /\ Reached(v, X) \in SUBSET Vertex
         /\ v \in Reached(v, X)
         /\ Shut(Reached(v, X), X)
<1>1. Reached(v, X) \in SUBSET Vertex /\ v \in Reached(v, X)
  BY ReachedIs
<1>2. ASSUME NEW e \in edges, e[1] \in Reached(v, X), e[2] \notin X
      PROVE  e[2] \in Reached(v, X)
  <2>1. e[2] \in Vertex
    BY Arcs
  <2>2. ASSUME NEW S \in SUBSET Vertex, v \in S, Shut(S, X) PROVE e[2] \in S
    <3>1. e[1] \in S
      BY <1>2, <2>2, ReachedIs
    <3> QED
      BY <1>2, <2>2, <3>1 DEF Shut
  <2> QED
    BY <2>1, <2>2, ReachedIs
<1> QED
  BY <1>1, <1>2 DEF Shut

LEMMA ReachedLeast ==
  ASSUME GraphTypeOK, NEW X, NEW v \in Vertex,
         NEW S \in SUBSET Vertex, v \in S, Shut(S, X)
  PROVE  Reached(v, X) \subseteq S
  BY ReachedIs

LEMMA ReachedFurther ==
  ASSUME GraphTypeOK, NEW X, NEW v \in Vertex, NEW w \in Reached(v, X)
  PROVE  w \in Vertex /\ Reached(w, X) \subseteq Reached(v, X)
  BY ReachedShut, ReachedLeast

\* The search goes around the vertices of X.
LEMMA ReachedAround ==
  ASSUME GraphTypeOK, NEW X, NEW v \in Vertex \ X, NEW w \in Reached(v, X)
  PROVE  w \in Vertex \ X
<1> DEFINE S == Vertex \ X
<1>1. S \in SUBSET Vertex /\ v \in S /\ Shut(S, X)
  BY Arcs DEF Shut
<1> HIDE DEF S
<1>2. Reached(v, X) \subseteq S
  BY <1>1, ReachedLeast
<1> QED
  BY <1>2 DEF S

\* What is reached from v, but v itself, is reached along one of its arcs.
LEMMA FirstArc ==
  ASSUME GraphTypeOK, NEW X, NEW v \in Vertex, NEW w \in Reached(v, X), w # v
  PROVE  \E x \in Vertex \ X : <<v, x>> \in edges /\ w \in Reached(x, X)
<1> DEFINE next == {x \in Vertex \ X : <<v, x>> \in edges}
           S == {v} \cup UNION {Reached(x, X) : x \in next}
<1>1. \A x \in next : Reached(x, X) \in SUBSET Vertex /\ x \in Reached(x, X) /\ Shut(Reached(x, X), X)
  BY ReachedShut
<1>2. S \in SUBSET Vertex /\ v \in S
  BY <1>1
<1>3. Shut(S, X)
  <2> SUFFICES ASSUME NEW e \in edges, e[1] \in S, e[2] \notin X
               PROVE  e[2] \in S
    BY DEF Shut
  <2>1. CASE e[1] = v
    <3>1. e[2] \in next
      BY <2>1, Arcs
    <3> QED
      BY <1>1, <3>1
  <2>2. CASE e[1] # v
    <3>1. PICK x \in next : e[1] \in Reached(x, X)
      BY <2>2
    <3>2. e[2] \in Reached(x, X)
      BY <1>1, <3>1 DEF Shut
    <3> QED
      BY <3>1, <3>2
  <2> QED
    BY <2>1, <2>2
<1> HIDE DEF S
<1>4. w \in S
  BY <1>2, <1>3, ReachedLeast
<1> QED
  BY <1>4 DEF S

\* Components, with Reached in place of the local function.
LEMMA ComponentsAre ==
  ASSUME GraphTypeOK, NEW X, NEW C
  PROVE  C \in Components(X) <=>
           /\ \E v \in requestThreadMap \ X :
                C = {w \in Reached(v, X) : v \in Reached(w, X)}
           /\ \A x \in Vertex : C # {x}
<1> DEFINE reached == [v \in Vertex \ X |-> Reached(v, X)]
<1>1. requestThreadMap \ X \subseteq Vertex \ X
  BY DEF GraphTypeOK, Vertex
<1>2. ASSUME NEW v \in requestThreadMap \ X
      PROVE  {w \in reached[v] : v \in reached[w]} = {w \in Reached(v, X) : v \in Reached(w, X)}
  <2>1. v \in Vertex \ X /\ reached[v] = Reached(v, X)
    BY <1>1
  <2>2. \A w \in Reached(v, X) : w \in Vertex \ X
    BY <2>1, ReachedAround
  <2>3. \A w \in Reached(v, X) : reached[w] = Reached(w, X)
    BY <2>2
  <2> HIDE DEF reached
  <2> QED
    BY <2>1, <2>3
<1>3. Components(X) = {{w \in reached[t] : t \in reached[w]} : t \in requestThreadMap \ X}
                        \ {{v} : v \in Vertex}
  BY DEF Components
<1> HIDE DEF reached
<1> QED
  BY <1>2, <1>3

\* A component has a circle of requests and occupations through each of its
\* threads, and it has a thread.
LEMMA ComponentIsKnot ==
  ASSUME GraphTypeOK, NEW X, NEW C \in Components(X)
  PROVE  Knot(C \cap Thread)
<1>1. PICK v \in requestThreadMap \ X : C = {w \in Reached(v, X) : v \in Reached(w, X)}
  BY ComponentsAre
<1>2. v \in Thread /\ v \in Vertex
  BY DEF GraphTypeOK, Vertex
<1>3. v \in C
  BY <1>1, <1>2, ReachedShut
<1>4. ASSUME NEW x \in C, NEW y \in Vertex, v \in Reached(y, X), y \in Reached(x, X)
      PROVE  y \in C
  <2>1. x \in Reached(v, X)
    BY <1>1
  <2>2. y \in Reached(v, X)
    BY <1>2, <1>4, <2>1, ReachedFurther
  <2> QED
    BY <1>1, <1>4, <2>2
<1>5. ASSUME NEW x \in C
      PROVE  \E y \in C : <<x, y>> \in edges
  <2>1. x \in Vertex /\ x \in Reached(v, X) /\ v \in Reached(x, X)
    BY <1>1, <1>2, ReachedShut
  <2>2. \E w \in Reached(x, X) : w # x /\ v \in Reached(w, X)
    <3>1. CASE x # v
      BY <1>2, <2>1, <3>1, ReachedShut
    <3>2. CASE x = v
      <4>1. PICK w \in C : w # v
        BY <1>2, <1>3, ComponentsAre
      <4> QED
        BY <1>1, <3>2, <4>1
    <3> QED
      BY <3>1, <3>2
  <2>3. PICK w \in Reached(x, X) : w # x /\ v \in Reached(w, X)
    BY <2>2
  <2>4. PICK y \in Vertex \ X : <<x, y>> \in edges /\ w \in Reached(y, X)
    BY <2>1, <2>3, FirstArc
  <2>5. v \in Reached(y, X)
    BY <2>3, <2>4, ReachedFurther
  <2>6. y \in Reached(x, X)
    <3>1. Shut(Reached(x, X), X) /\ x \in Reached(x, X)
      BY <2>1, ReachedShut
    <3> QED
      BY <2>4, <3>1 DEF Shut
  <2> QED
    BY <1>4, <2>4, <2>5, <2>6
<1>6. ASSUME NEW t \in C \cap Thread
      PROVE  \E m \in Requested(t), u \in C \cap Thread : <<m, u>> \in edges
  <2>1. PICK m \in C : <<t, m>> \in edges
    BY <1>5
  <2>2. PICK u \in C : <<m, u>> \in edges
    BY <1>5
  <2>3. m \in Mutex /\ u \in Thread
    BY <2>1, <2>2, ProcessAssumption DEF GraphTypeOK
  <2> QED
    BY <2>1, <2>2, <2>3 DEF Requested
<1> QED
  BY <1>2, <1>3, <1>6 DEF Knot
-----------------------------------------------------------------------------
(***************************************************************************)
(* What a check finds.                                                     *)
(***************************************************************************)

\* Until the next event is handled, the graph shows what was found in it.
FoundInv == Running => \A C \in found : Knot(C \cap Thread)

LEMMA NextFound ==
  ASSUME TypeOK, FoundInv, [MonitorNext]_monitorVars
  PROVE  FoundInv'
<1>1. ASSUME UNCHANGED <<edges, found>>, Running' => Running
      PROVE  FoundInv'
  BY <1>1, ZenonT(60) DEF FoundInv, Knot, Requested
<1>2. CASE Program /\ UNCHANGED <<marked, found>>
  <2>1. UNCHANGED <<edges, found>>
    BY <1>2 DEF Program, Lock, EnterMap, Unlock, Proceed, graphVars
  <2>2. Running
    BY <1>2 DEF Program, Lock, Unlock, Proceed, generateWaitEvent, nativeLock, nativeUnlock,
                generateHoldEvent, generateReleaseEvent
  <2> QED
    BY <1>1, <2>1, <2>2
<1>3. CASE HandleEvent /\ found' = {}
  BY <1>3 DEF FoundInv
<1>4. CASE (StartPass \/ \E t \in Thread : Visit(t)) /\ UNCHANGED <<marked, found>>
  BY <1>1, <1>4 DEF StartPass, Visit, graphVars
<1>5. CASE checkTimerProc
  <2>1. found' = Components(marked) /\ edges' = edges /\ GraphTypeOK
    BY <1>5 DEF checkTimerProc, strongConnectedComponent, graphVars, TypeOK
  <2>2. \A C \in Components(marked) : Knot(C \cap Thread)
    BY <2>1, ComponentIsKnot
  <2> QED
    BY <2>1, <2>2, ZenonT(60) DEF FoundInv, Knot, Requested
<1>6. CASE UNCHANGED monitorVars
  BY <1>1, <1>6 DEF monitorVars, vars, graphVars, Running
<1> QED
  BY <1>2, <1>3, <1>4, <1>5, <1>6 DEF MonitorNext, eventLoopEnter

LEMMA FoundInductive == MonitorSpec => []FoundInv
<1>1. MonitorInit => FoundInv
  BY DEF MonitorInit, FoundInv
<1>2. TypeOK /\ FoundInv /\ [MonitorNext]_monitorVars => FoundInv'
  BY NextFound
<1>3. MonitorSpec => []TypeOK
  BY MonitorImplementsCore, TypeCorrect, PTL
<1> QED
  BY <1>1, <1>2, <1>3, PTL DEF MonitorSpec

\* No false alarm: whatever the lag of the graph and the marks of the checks
\* before, threads found in one component are deadlocked if their queues are
\* empty.
THEOREM FoundIsDeadlockHolds ==
  ASSUME ErrorCheck = {}
  PROVE  MonitorSpec => []FoundIsDeadlock
<1>1. IInv /\ ExactAtRest /\ FoundInv => FoundIsDeadlock
  <2> SUFFICES ASSUME IInv, ExactAtRest, FoundInv, Running, NEW C \in found,
                      \A t \in C \cap Thread : queue[t] = <<>>
               PROVE  Deadlocked(C \cap Thread)
    BY DEF FoundIsDeadlock
  <2> DEFINE D == C \cap Thread
  <2>1. Knot(D) /\ D \in SUBSET Thread
    BY DEF FoundInv
  <2>2. ASSUME NEW t \in D PROVE target[t] \notin Filtered
    <3>1. Requested(t) # {}
      BY <2>1 DEF Knot
    <3>2. Wants(t) # {}
      BY <3>1, AtRest
    <3> QED
      BY <3>2 DEF Wants
  <2> HIDE DEF D
  <2>3. \A t \in D : queue[t] = <<>>
    BY DEF D
  <2>4. Deadlocked(D)
    BY <2>1, <2>2, <2>3 DEF ExactAtRest
  <2> QED
    BY <2>4 DEF D
<1>2. MonitorSpec => []ExactAtRest
  BY MonitorImplementsCore, ExactAtRestHolds, PTL
<1> QED
  BY <1>1, <1>2, FoundInductive, MonitorInductive, PTL
-----------------------------------------------------------------------------
(***************************************************************************)
(* What a check does not miss.                                             *)
(***************************************************************************)

\* The graph shows a drained circle.
LEMMA CircleArcs ==
  ASSUME IInv, Running, NEW D \in SUBSET Thread, Circle(D), Drained(D), NEW t \in D
  PROVE  /\ <<t, target[t]>> \in edges /\ target[t] \in Mutex /\ target[t] \in Requested(t)
         /\ owner[target[t]] \in D /\ <<target[t], owner[target[t]]>> \in edges
         /\ t \in requestThreadMap
<1>1. TypeInv /\ RunningInv
  BY DEF IInv
<1>2. \A u \in D : /\ u \in Thread /\ pc[u] = "locking" /\ owner[target[u]] \in D
                   /\ target[u] \in Mutex \ Filtered
  BY <1>1 DEF Circle, Deadlocked, Drained, TypeInv, TargetKnown
<1>3. \A u \in D : Requested(u) = Wants(u) /\ Occupied(u) = Holds(u)
  BY AtRest DEF Drained
<1>4. target[t] \in Requested(t)
  BY <1>2, <1>3 DEF Wants
<1>5. t \in requestThreadMap
  BY <1>1, <1>2, <1>4 DEF RunningInv, MapsConsistent, ThreadConsistent
<1>6. PICK u \in D : u = owner[target[t]]
  BY <1>2
<1>7. target[t] \in Holds(u)
  BY <1>2, <1>6 DEF Holds
<1>8. target[t] \in Occupied(u)
  BY <1>3, <1>7
<1> QED
  BY <1>2, <1>4, <1>5, <1>6, <1>8 DEF Requested, Occupied

\* From each thread of a drained circle without marks the search comes to all
\* of them: those that it comes to are deadlocked among themselves.
LEMMA CircleReached ==
  ASSUME IInv, Running, NEW D \in SUBSET Thread, Circle(D), Drained(D),
         NEW X, Around(D) \cap X = {}, NEW t \in D
  PROVE  D \subseteq Reached(t, X) /\ target[t] \in Reached(t, X)
<1> DEFINE R == Reached(t, X)
           part == D \cap R
<1>1. GraphTypeOK /\ t \in Vertex
  BY DEF IInv, TypeInv, TypeOK, Vertex
<1>2. t \in R /\ Shut(R, X)
  BY <1>1, ReachedShut
<1> HIDE DEF R
<1>3. ASSUME NEW u \in part
      PROVE  target[u] \in R /\ owner[target[u]] \in part
  <2>1. /\ <<u, target[u]>> \in edges
        /\ owner[target[u]] \in D /\ <<target[u], owner[target[u]]>> \in edges
    BY CircleArcs
  <2>2. target[u] \notin X /\ owner[target[u]] \notin X
    BY <2>1 DEF Around
  <2>3. target[u] \in R
    BY <1>2, <2>1, <2>2 DEF Shut
  <2>4. owner[target[u]] \in R
    BY <1>2, <2>1, <2>2, <2>3 DEF Shut
  <2> QED
    BY <2>1, <2>3, <2>4
<1>4. Deadlocked(part)
  <2>1. part # {}
    BY <1>2
  <2>2. \A u \in part : pc[u] = "locking" /\ ~(owner[target[u]] = u /\ target[u] \in ErrorCheck)
    BY DEF Circle, Deadlocked
  <2> HIDE DEF part
  <2> QED
    BY <1>3, <2>1, <2>2 DEF Deadlocked
<1>5. part \in SUBSET D /\ part # {}
  BY <1>2
<1> HIDE DEF part
<1>6. part = D
  BY <1>4, <1>5 DEF Circle
<1>7. D \subseteq R /\ target[t] \in R
  BY <1>3, <1>6 DEF part
<1> QED
  BY <1>7 DEF R

LEMMA CircleTogether ==
  ASSUME IInv, Running, NEW D \in SUBSET Thread, D # {}, Circle(D), Drained(D),
         NEW X, Around(D) \cap X = {}
  PROVE  \E C \in Components(X) : D \subseteq C
<1>1. GraphTypeOK /\ D \subseteq Vertex
  BY DEF IInv, TypeInv, TypeOK, Vertex
<1>2. PICK v \in D : TRUE
  OBVIOUS
<1> DEFINE m == target[v]
           C == {w \in Reached(v, X) : v \in Reached(w, X)}
<1>3. v \in requestThreadMap \ X
  BY CircleArcs DEF Around
<1>4. D \subseteq C
  BY CircleReached
<1>5. m \in C /\ m # v
  <2>1. /\ m \in Mutex /\ owner[m] \in D /\ <<m, owner[m]>> \in edges
    BY CircleArcs
  <2>2. m \in Vertex /\ m # v /\ owner[m] \notin X
    BY <2>1, ProcessAssumption DEF Vertex, Around
  <2> HIDE DEF m
  <2>3. m \in Reached(m, X) /\ Shut(Reached(m, X), X)
    BY <1>1, <2>2, ReachedShut
  <2>4. owner[m] \in Reached(m, X)
    BY <2>1, <2>2, <2>3 DEF Shut
  <2>5. v \in Reached(owner[m], X)
    BY <2>1, CircleReached
  <2>6. v \in Reached(m, X)
    BY <1>1, <2>2, <2>4, <2>5, ReachedFurther
  <2>7. m \in Reached(v, X)
    BY CircleReached DEF m
  <2> QED
    BY <2>2, <2>6, <2>7
<1>6. \A x \in Vertex : C # {x}
  BY <1>4, <1>5
<1> HIDE DEF C
<1>7. C \in Components(X)
  <2>1. C = {w \in Reached(v, X) : v \in Reached(w, X)}
    BY DEF C
  <2> QED
    BY <1>1, <1>3, <1>6, <2>1, ComponentsAre
<1> QED
  BY <1>4, <1>7

\* However events and checks are interleaved, a check finds every drained
\* circle without marks and leaves no mark on any drained circle.
THEOREM CircleIsMissedOnceHolds ==
  ASSUME ErrorCheck = {}
  PROVE  MonitorSpec => CircleIsMissedOnce
<1> DEFINE CheckFinds(D) ==
             Circle(D) /\ Drained(D) =>
               /\ Around(D) \cap marked = {} => FoundTogether(D)'
               /\ Around(D) \cap marked' = {}
<1>1. ASSUME IInv, checkTimerProc, NEW D \in (SUBSET Thread) \ {{}}
      PROVE  CheckFinds(D)
  <2> SUFFICES ASSUME Circle(D), Drained(D)
               PROVE  /\ Around(D) \cap marked = {} => FoundTogether(D)'
                      /\ Around(D) \cap marked' = {}
    OBVIOUS
  <2>1. /\ Running /\ found' = Components(marked)
        /\ marked' = (marked \cup Visited) \ Cleared
    BY <1>1 DEF checkTimerProc, strongConnectedComponent
  <2>2. ASSUME Around(D) \cap marked = {} PROVE FoundTogether(D)'
    <3>1. \E C \in Components(marked) : D \subseteq C
      BY <1>1, <2>1, <2>2, CircleTogether
    <3> QED
      BY <2>1, <3>1 DEF FoundTogether
  <2>3. Around(D) \subseteq Cleared
    <3>1. \A t \in D : t \in requestThreadMap /\ target[t] \in Requested(t)
      BY <1>1, <2>1, CircleArcs
    <3> QED
      BY <3>1 DEF Around, Cleared
  <2> QED
    BY <2>1, <2>2, <2>3
<1>2. IInv /\ [MonitorNext]_monitorVars =>
        [checkTimerProc => \A D \in (SUBSET Thread) \ {{}} : CheckFinds(D)]_monitorVars
  BY <1>1
<1> QED
  BY <1>2, MonitorInductive, PTL DEF MonitorSpec, CircleIsMissedOnce

\* Nobody in a deadlock moves, and nobody else gives up a mutex that it waits for.
LEMMA DeadlockedStay ==
  ASSUME TypeInv, [Next]_vars, NEW D \in SUBSET Thread, Deadlocked(D), NEW t \in D
  PROVE  /\ pc'[t] = pc[t] /\ target'[t] = target[t]
         /\ owner'[target[t]] = owner[target[t]]
<1>1. /\ pc[t] = "locking" /\ target[t] \in Mutex
      /\ owner[target[t]] \in D /\ owner[target[t]] # NoThread
      /\ ~(owner[target[t]] = t /\ target[t] \in ErrorCheck)
      /\ pc[owner[target[t]]] = "locking"
  BY ProcessAssumption DEF Deadlocked, TypeInv, TargetKnown
<1>2. ASSUME UNCHANGED <<pc, target, owner>> PROVE UNCHANGED <<pc[t], target[t], owner[target[t]]>>
  BY <1>2
<1>3. ASSUME NEW u \in Thread, NEW m \in Mutex, Lock(u, m)
      PROVE  UNCHANGED <<pc[t], target[t], owner[target[t]]>>
  BY <1>1, <1>3 DEF Lock, generateWaitEvent, Abort, trackerVars, Go, TypeInv, TypeOK, TrackerTypeOK
<1>4. ASSUME NEW u \in Thread, NEW m \in Mutex, Unlock(u, m)
      PROVE  UNCHANGED <<pc[t], target[t], owner[target[t]]>>
  BY <1>1, <1>4, SMTT(30) DEF Unlock, nativeUnlock, Go, TypeInv, TypeOK, TrackerTypeOK
<1>5. ASSUME NEW u \in Thread, nativeLock(u)
      PROVE  UNCHANGED <<pc[t], target[t], owner[target[t]]>>
  BY <1>1, <1>5 DEF nativeLock, Go, TypeInv, TypeOK, TrackerTypeOK, TargetKnown
<1>6. ASSUME NEW u \in Thread, \/ generateHoldEvent(u, target[u] \in Filtered)
                               \/ generateReleaseEvent(u, target[u] \in Filtered)
      PROVE  UNCHANGED <<pc[t], target[t], owner[target[t]]>>
  BY <1>1, <1>6 DEF generateHoldEvent, generateReleaseEvent, Abort, trackerVars, Go, TypeInv,
                    TypeOK, TrackerTypeOK
<1>7. ASSUME Check \/ UNCHANGED vars PROVE UNCHANGED <<pc, target, owner>>
  BY <1>7 DEF Check, StartPass, HandleEvent, Visit, vars, trackerVars
<1> QED
  BY <1>2, <1>3, <1>4, <1>5, <1>6, <1>7 DEF Next, Proceed

\* A circle of the program lasts: so it is still there when the queues of its
\* threads are drained, and when the check that CircleIsMissedOnce allows to
\* miss it has been made.
THEOREM CircleLasts ==
  MonitorSpec => [][\A D \in SUBSET Thread : Circle(D) => Circle(D)']_monitorVars
<1>1. ASSUME TypeInv, [MonitorNext]_monitorVars, NEW D \in SUBSET Thread, Circle(D)
      PROVE  Circle(D)'
  <2>1. [Next]_vars /\ Deadlocked(D)
    BY <1>1, CoreStep DEF Circle
  <2>2. \A t \in D : /\ pc'[t] = pc[t] /\ target'[t] = target[t]
                     /\ owner'[target[t]] = owner[target[t]]
    BY <1>1, <2>1, DeadlockedStay
  <2>3. \A part \in SUBSET D : Deadlocked(part)' <=> Deadlocked(part)
    BY <2>2 DEF Deadlocked
  <2> QED
    BY <1>1, <2>3 DEF Circle
<1>2. TypeInv /\ [MonitorNext]_monitorVars =>
        [\A D \in SUBSET Thread : Circle(D) => Circle(D)']_monitorVars
  BY <1>1
<1>3. Spec => []TypeInv
  BY InitType, NextType, PTL DEF Spec
<1> QED
  BY <1>2, <1>3, MonitorImplementsCore, PTL DEF MonitorSpec
-----------------------------------------------------------------------------
(***************************************************************************)
(* The whole program implements CheckedGraph.  Both it and GraphProtocol   *)
(* are instantiated with the same variables, so their operators agree.     *)
(***************************************************************************)
LEMMA CheckedGraphIs ==
  /\ Checked!graphVars = Protocol!graphVars
  /\ Checked!vars = Protocol!vars
  /\ Checked!Running <=> Protocol!Running
  /\ \A t : Checked!Requested(t) = Protocol!Requested(t)
  /\ \A t : Checked!Occupied(t) = Protocol!Occupied(t)
  /\ \A reason : Checked!Fail(reason) <=> Protocol!Fail(reason)
  BY DEF Checked!graphVars, Protocol!graphVars, Checked!vars, Protocol!vars, Checked!Running,
         Protocol!Running, Checked!Requested, Protocol!Requested, Checked!Occupied,
         Protocol!Occupied, Checked!Fail, Protocol!Fail

\* The handlers of the two instances.
LEMMA CheckedHandlers ==
  ASSUME NEW t, NEW m
  PROVE  /\ Protocol!waitLockHandler(t, m) => Checked!waitLockHandler(t, m)
         /\ Protocol!holdLockHandler(t, m) => Checked!holdLockHandler(t, m)
         /\ Protocol!releaseLockHandler(t, m) => Checked!releaseLockHandler(t, m)
<1>1. Protocol!waitLockHandler(t, m) => Checked!waitLockHandler(t, m)
  <2>1. Checked!WaitOutcome(t, m) = Protocol!WaitOutcome(t, m)
    <3>1. \A S : Checked!Cardinality(S) = Protocol!Cardinality(S)
      BY DEF Checked!Cardinality, Protocol!Cardinality
    <3> QED
      BY <3>1 DEF Checked!WaitOutcome, Protocol!WaitOutcome
  <2> QED
    BY <2>1, CheckedGraphIs DEF Protocol!waitLockHandler, Checked!waitLockHandler,
         Protocol!addEdge, Checked!addEdge
<1>2. Protocol!holdLockHandler(t, m) => Checked!holdLockHandler(t, m)
  BY CheckedGraphIs
     DEF Protocol!holdLockHandler, Checked!holdLockHandler, Protocol!HoldConsistent,
         Checked!HoldConsistent, Protocol!addEdge, Checked!addEdge, Protocol!deleteEdge,
         Checked!deleteEdge
<1>3. Protocol!releaseLockHandler(t, m) => Checked!releaseLockHandler(t, m)
  BY CheckedGraphIs
     DEF Protocol!releaseLockHandler, Checked!releaseLockHandler, Protocol!ReleaseConsistent,
         Checked!ReleaseConsistent, Protocol!deleteEdge, Checked!deleteEdge
<1> QED
  BY <1>1, <1>2, <1>3

LEMMA CheckedNextIs == Protocol!Next => Checked!Next
<1>1. ASSUME NEW t \in Thread, NEW m \in Mutex
      PROVE  /\ Protocol!Request(t, m) => Checked!Request(t, m)
             /\ Protocol!Acquire(t, m) => Checked!Acquire(t, m)
             /\ Protocol!Release(t, m) => Checked!Release(t, m)
  BY CheckedGraphIs, CheckedHandlers
     DEF Protocol!Request, Checked!Request, Protocol!Acquire, Checked!Acquire,
         Protocol!Release, Checked!Release
<1>2. Protocol!OutOfSpace => Checked!OutOfSpace
  BY CheckedGraphIs DEF Protocol!OutOfSpace, Checked!OutOfSpace
<1> QED
  BY <1>1, <1>2 DEF Protocol!Next, Checked!Next

\* The result of a check counts as long as the process runs.
Result == IF Running THEN found ELSE {}

\* The two modules mean the same by a check.
LEMMA CheckedSearch ==
  strongConnectedComponent => Checked!strongConnectedComponent
<1>1. \A X : Checked!Components(X) = Components(X)
  BY DEF Checked!Components, Components, Checked!Reached, Reached, Checked!Vertex, Vertex
<1>2. Checked!Visited = Visited
  BY DEF Checked!Visited, Visited, Checked!Reached, Reached, Checked!Vertex, Vertex
<1>3. Checked!Cleared = Cleared
  BY DEF Checked!Cleared, Cleared, Checked!Requested, Requested
<1> QED
  BY <1>1, <1>2, <1>3
     DEF strongConnectedComponent, Checked!strongConnectedComponent, Running, Checked!Running,
         graphVars, Checked!graphVars

LEMMA MonitorStepSimulates ==
  ASSUME ErrorCheck = {}, IInv, [MonitorNext]_monitorVars
  PROVE  [Checked!CheckedNext]_(Checked!checkedVars)
<1> DEFINE Other == \/ Program \/ StartPass \/ \E t \in Thread : Visit(t)
                    \/ UNCHANGED vars
<1>1. CASE checkTimerProc
  BY <1>1, CheckedSearch DEF checkTimerProc, Checked!CheckedNext
<1>2. CASE HandleEvent /\ found' = {} /\ UNCHANGED marked
  <2>1. Checked!Next
    BY <1>2, HandleEventSimulates, CheckedNextIs
  <2>2. Result' = {}
    BY <1>2 DEF Result
  <2> QED
    BY <1>2, <2>1, <2>2 DEF Checked!CheckedNext, Result
<1>3. CASE Other /\ UNCHANGED <<marked, found>>
  <2>1. UNCHANGED graphVars
    BY <1>3 DEF Program, Lock, EnterMap, Unlock, Proceed, StartPass, Visit, vars
  <2>2. CASE abort' = abort
    <3>1. UNCHANGED <<graphVars, abort, marked, Result>>
      BY <1>3, <2>1, <2>2 DEF Result, Running
    <3> QED
      BY <3>1 DEF Checked!checkedVars, Checked!vars, Checked!graphVars, graphVars, Result
  <2>3. CASE abort' # abort
    <3>1. ~Running'
      BY <1>3, <2>3 DEF Program, Lock, EnterMap, Unlock, Proceed, StartPass, Visit, vars,
         generateWaitEvent, nativeLock, generateHoldEvent, nativeUnlock, generateReleaseEvent,
         Running
    <3>2. [Protocol!Next]_(Protocol!vars)
      BY CoreStep, StepSimulates
    <3>3. Protocol!Next
      BY <2>3, <3>2 DEF Protocol!vars
    <3>4. Result' = {}
      BY <3>1 DEF Result
    <3> QED
      BY <1>3, <3>3, <3>4, CheckedNextIs DEF Checked!CheckedNext, Result
  <2> QED
    BY <2>2, <2>3
<1> QED
  BY <1>1, <1>2, <1>3 DEF MonitorNext, eventLoopEnter, monitorVars

\* Seen through the graph, the marks and the results of the checks, every
\* execution of the whole program is one of CheckedGraph.
THEOREM FollowsCheckedGraphHolds ==
  ASSUME ErrorCheck = {}
  PROVE  MonitorSpec => FollowsCheckedGraph
<1>1. MonitorInit => Checked!CheckedInit
  BY DEF MonitorInit, Init, GraphInit, Running, Checked!CheckedInit, Checked!Init, Checked!GraphInit
<1>2. IInv /\ [MonitorNext]_monitorVars => [Checked!CheckedNext]_(Checked!checkedVars)
  BY MonitorStepSimulates
<1> QED
  BY <1>1, <1>2, MonitorInductive, PTL
     DEF MonitorSpec, FollowsCheckedGraph, Checked!CheckedSpec
=============================================================================
