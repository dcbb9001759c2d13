------------------------------ MODULE Monitor ------------------------------
(***************************************************************************)
(* The whole of dlChecker: the threads, their queues and the passes of     *)
(* DlChecker, and the deadlock checks of Search between two passes.  The   *)
(* checker thread calls eventLoopEnter and dlcTimerProc in turn, and       *)
(* dlcTimerProc makes a check when its time has come.                      *)
(***************************************************************************)
EXTENDS DlChecker, Search

monitorVars == <<vars, marked, found>>

MonitorInit == Init /\ marked = {} /\ found = {}

\* Faulty variant: the check does not reset what it has visited.
checkTimerProcOnce ==
  /\ ~InPass
  /\ UNCHANGED vars
  /\ strongConnectedComponentOnce

checkTimerProc ==
  /\ ~InPass
  /\ UNCHANGED vars
  /\ strongConnectedComponent

eventLoopEnter ==
  \/ HandleEvent /\ found' = {} /\ UNCHANGED marked
  \/ (StartPass \/ \E t \in Thread : Visit(t)) /\ UNCHANGED <<marked, found>>

Program ==
  \/ \E t \in Thread, m \in Mutex : Lock(t, m) \/ Unlock(t, m)
  \/ \E t \in Thread : Proceed(t)

MonitorNext ==
  \/ Program /\ UNCHANGED <<marked, found>>
  \/ eventLoopEnter
  \/ checkTimerProc

(***************************************************************************)
(* The checker is an endless loop, so it takes a step whenever it can.  A  *)
(* thread that is inside a lock function goes on when the function lets    *)
(* it.  Nothing makes a thread call a lock function.  The check timer is   *)
(* cyclic and a pass always ends, so a check is made again and again; but  *)
(* none is made during a pass, hence strong fairness.                      *)
(***************************************************************************)
MonitorSpec ==
  /\ MonitorInit /\ [][MonitorNext]_monitorVars
  /\ WF_monitorVars(eventLoopEnter)
  /\ SF_monitorVars(checkTimerProc)
  /\ \A t \in Thread : WF_monitorVars(Proceed(t) /\ UNCHANGED <<marked, found>>)
-----------------------------------------------------------------------------
\* Threads that wait for one another in a circle.
Circle(D) ==
  /\ Deadlocked(D)
  /\ \A part \in (SUBSET D) \ {{}, D} : ~Deadlocked(part)

FoundTogether(D) == \E component \in found : D \subseteq component

\* Nothing that the threads of D did is still on its way to the graph, and the
\* graph is told of the mutexes they wait for.
Drained(D) == \A t \in D : queue[t] = <<>> /\ target[t] \notin Filtered

\* The vertices of a circle.
Around(D) == D \cup {target[t] : t \in D}

\* No false alarm: if the queues of the threads that a check has found in one
\* component are empty, these threads are deadlocked.
FoundIsDeadlock ==
  Running =>
    \A component \in found :
      LET D == component \cap Thread
      IN  (\A t \in D : queue[t] = <<>>) => Deadlocked(D)

\* A check finds every drained circle that no earlier check has left a mark on,
\* all its threads in one component; and it leaves none on any drained circle.
\* So no circle is missed twice, whatever was marked, requested or occupied
\* around it.
CircleIsMissedOnce ==
  [][checkTimerProc =>
       \A D \in (SUBSET Thread) \ {{}} :
         Circle(D) /\ Drained(D) =>
           /\ Around(D) \cap marked = {} => FoundTogether(D)'
           /\ Around(D) \cap marked' = {}]_monitorVars

Checked == INSTANCE CheckedGraph WITH found <- IF Running THEN found ELSE {}

\* The threads, the queues and the passes feed the checks exactly as
\* CheckedGraph says, of which Detector is the implementation.
FollowsCheckedGraph == Checked!CheckedSpec

\* A deadlock of the program, once it is there, ends up in what a check finds,
\* all its threads in one component: however the events and the checks are
\* interleaved, and whatever marks the checks before have left.  (The process
\* may be aborted first; whether what is found is also printed is another
\* question: see CycleIsReported in Detector.)
DeadlockFound ==
  \A D \in (SUBSET Thread) \ {{}} :
    (Circle(D) /\ \A t \in D : target[t] \notin Filtered)
      ~> (FoundTogether(D) \/ ~Running)
=============================================================================
