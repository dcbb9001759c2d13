--------------------------- MODULE GraphProtocol ---------------------------
(***************************************************************************)
(* The abstract specification of the wait-for graph: what any observer of  *)
(* it may see.  Each thread, on its own, requests a mutex, acquires what   *)
(* it requested, or releases what it occupies; threads are not ordered     *)
(* among each other, because each one's events come through a queue of its *)
(* own.  No step of the protocol can fail a consistency check of a         *)
(* handler; the process may stop for lack of space only.                   *)
(***************************************************************************)
EXTENDS LockGraph

vars == <<graphVars, abort>>

Request(t, m) ==
  /\ Running
  /\ Requested(t) = {}
  /\ waitLockHandler(t, m)

Acquire(t, m) ==
  /\ Running
  /\ Requested(t) = {m}
  /\ m \notin Occupied(t)
  /\ holdLockHandler(t, m)

Release(t, m) ==
  /\ Running
  /\ Requested(t) = {}
  /\ m \in Occupied(t)
  /\ releaseLockHandler(t, m)

OutOfSpace ==
  /\ Running
  /\ \E reason \in {"poolEmpty", "queueFull"} : Fail(reason)

Init == GraphInit /\ abort = "none"

Next ==
  \/ \E t \in Thread, m \in Mutex : Request(t, m) \/ Acquire(t, m) \/ Release(t, m)
  \/ OutOfSpace

Spec == Init /\ [][Next]_vars
=============================================================================
