----------------------------- MODULE EventGraph -----------------------------
(***************************************************************************)
(* Where the events of Tracker meet the graph of LockGraph: the handler of *)
(* an event, and what the graph would become if the checker went on to     *)
(* handle the events that are still queued.                                *)
(***************************************************************************)
EXTENDS Tracker, LockGraph

\* Faulty variant: two entries of the handler table are swapped.
eventHandlerSwapped(t, ev) ==
  \/ ev.type = "wait" /\ waitLockHandler(t, ev.mutex)
  \/ ev.type = "hold" /\ releaseLockHandler(t, ev.mutex)
  \/ ev.type = "release" /\ holdLockHandler(t, ev.mutex)

eventHandler(t, ev) ==
  \/ ev.type = "wait" /\ waitLockHandler(t, ev.mutex)
  \/ ev.type = "hold" /\ holdLockHandler(t, ev.mutex)
  \/ ev.type = "release" /\ releaseLockHandler(t, ev.mutex)
-----------------------------------------------------------------------------
(***************************************************************************)
(* What the graph would become if the checker went on to handle the events *)
(* that are still queued.  r and o are the mutexes that the graph shows    *)
(* requested and occupied by a thread, q is the thread's queue; the two    *)
(* operators give what it would show after the first i events of q.        *)
(***************************************************************************)
RequestedAfter(r, q, i) ==
  IF i = 0 THEN r ELSE {m \in Mutex : q[i] = wait(m)}

OccupiedAfter(o, q, i) ==
  {m \in Mutex :
     \/ m \in o /\ \A k \in 1..i : q[k] # release(m)
     \/ \E j \in 1..i : q[j] = hold(m) /\ \A k \in (j+1)..i : q[k] # release(m)}

\* The events that a handler accepts when the graph shows r and o.
Accepts(r, o, ev) ==
  \/ ev.type = "wait" /\ r = {}
  \/ ev.type = "hold" /\ r = {ev.mutex} /\ ev.mutex \notin o
  \/ ev.type = "release" /\ r = {} /\ ev.mutex \in o

\* What a thread has announced so far: the mutex it asked for, the mutexes it
\* said it got and did not say it gave back.
Wants(t) ==
  {m \in Mutex \ Filtered : pc[t] \in {"locking", "locked", "lockFailed"} /\ target[t] = m}

Holds(t) ==
  {m \in Mutex \ Filtered :
     \/ owner[m] = t /\ ~(pc[t] = "locked" /\ target[t] = m)
     \/ pc[t] = "unlocked" /\ target[t] = m}

\* The handlers accept the events of q one after the other, and these lead from
\* a graph that shows r and o to one that shows r2 and o2.
Leads(r, o, q, r2, o2) ==
  /\ \A i \in 1..Len(q) :
       Accepts(RequestedAfter(r, q, i-1), OccupiedAfter(o, q, i-1), q[i])
  /\ RequestedAfter(r, q, Len(q)) = r2
  /\ OccupiedAfter(o, q, Len(q)) = o2
=============================================================================
