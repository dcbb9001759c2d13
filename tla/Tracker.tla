------------------------------ MODULE Tracker ------------------------------
(***************************************************************************)
(* The interposed pthread_mutex_lock and pthread_mutex_unlock (trait.c)    *)
(* with the dispatcher and the event queue of each thread (dispatcher.c).  *)
(* A thread's call runs through three points: an event, the native lock    *)
(* function, an event; other threads and the checker run in between.       *)
(*                                                                         *)
(* The native mutexes are external: owner is what the pthread library      *)
(* knows.  A mutex of ErrorCheck has type PTHREAD_MUTEX_ERRORCHECK, whose  *)
(* native functions may return an error instead of locking or unlocking; a *)
(* mutex outside it is a default one, on which a second lock by its owner  *)
(* blocks for ever and a foreign unlock is not a legal call.               *)
(* Filtered are the mutexes the user excluded before the first lock.       *)
(***************************************************************************)
EXTENDS WatchedProcess, Integers, FiniteSets, Sequences

CONSTANTS
  QueueSize,       \* NUMBER_OF_EVENT
  MaxEventQueue,   \* NUMBER_OF_EVENTQUEUE
  ErrorCheck,
  Filtered

ASSUME TrackerAssumption ==
  /\ QueueSize \in Nat \ {0}
  /\ MaxEventQueue \in Nat
  /\ ErrorCheck \subseteq Mutex
  /\ Filtered \subseteq Mutex

VARIABLES
  pc,           \* where each thread is in an interposed call
  target,       \* the mutex of that call
  owner,        \* native owner of each mutex
  registered,   \* threads whose dispatcher is initialised: eventQueueMap
  queue         \* each thread's event queue

callVars    == <<pc, target>>
trackerVars == <<pc, target, owner, registered, queue>>

EventType == {"wait", "hold", "release"}
Event == [type : EventType, mutex : Mutex]

wait(m)    == [type |-> "wait", mutex |-> m]
hold(m)    == [type |-> "hold", mutex |-> m]
release(m) == [type |-> "release", mutex |-> m]

\* Where a thread can be: outside, before the native lock function, or after
\* a native function that did or did not do what it was called for.
Point == {"idle", "locking", "locked", "lockFailed", "unlocked", "unlockFailed"}

TrackerTypeOK ==
  /\ pc \in [Thread -> Point]
  /\ target \in [Thread -> Mutex \cup {NoMutex}]
  /\ owner \in [Mutex -> Thread \cup {NoThread}]
  /\ registered \subseteq Thread
  /\ queue \in [Thread -> Seq(Event)]

TrackerInit ==
  /\ pc = [t \in Thread |-> "idle"]
  /\ target = [t \in Thread |-> NoMutex]
  /\ owner = [m \in Mutex |-> NoThread]
  /\ registered = {}
  /\ queue = [t \in Thread |-> <<>>]

Abort(reason) ==
  /\ abort' = reason
  /\ UNCHANGED trackerVars

Go(t, to, m) ==
  /\ pc' = [pc EXCEPT ![t] = to]
  /\ target' = [target EXCEPT ![t] = m]

\* dispatcherInvoke: assert(ret == 1) after the put, so a full queue aborts.
Full(t) == Len(queue[t]) >= QueueSize

\* Faulty variant: the newest event comes out first.
PutFront(t, ev) == queue' = [queue EXCEPT ![t] = <<ev>> \o @]

Put(t, ev) == queue' = [queue EXCEPT ![t] = Append(@, ev)]
-----------------------------------------------------------------------------
\* The thread has no dispatcher and the pool of event queues is exhausted.
NoQueueLeft(t) ==
  t \notin registered /\ Cardinality(registered) >= MaxEventQueue

\* In the three operators below, ignored is the filter's answer, which each part
\* of a call asks for anew.

\* generateWaitEvent: dispatcherInit on the thread's first call, whether or not
\* the mutex is filtered; then the event, unless it is.
generateWaitEvent(t, m, ignored) ==
  /\ Running
  /\ pc[t] = "idle"
  /\ \/ NoQueueLeft(t) /\ Abort("poolEmpty")
     \/ ~NoQueueLeft(t) /\ ~ignored /\ Full(t) /\ Abort("queueFull")
     \/ /\ ~NoQueueLeft(t)
        /\ IF ignored THEN UNCHANGED queue ELSE ~Full(t) /\ Put(t, wait(m))
        /\ registered' = registered \cup {t}
        /\ Go(t, "locking", m)
        /\ UNCHANGED <<owner, abort>>

\* The native pthread_mutex_lock: it takes a free mutex, or returns EDEADLK for
\* an error-checking one that the caller owns.  Otherwise it blocks.
nativeLock(t) ==
  /\ Running
  /\ pc[t] = "locking"
  /\ \/ /\ owner[target[t]] = NoThread
        /\ owner' = [owner EXCEPT ![target[t]] = t]
        /\ Go(t, "locked", target[t])
     \/ /\ target[t] \in ErrorCheck
        /\ owner[target[t]] = t
        /\ Go(t, "lockFailed", target[t])
        /\ UNCHANGED owner
  /\ UNCHANGED <<registered, queue, abort>>

\* Faulty variant: the filter is not asked after the native call.
generateHoldEventAlways(t, ignored) ==
  /\ Running
  /\ pc[t] \in {"locked", "lockFailed"}
  /\ ~Full(t)
  /\ Put(t, hold(target[t]))
  /\ Go(t, "idle", NoMutex)
  /\ UNCHANGED <<owner, registered, abort>>

\* generateHoldEvent: the result of the native call is not looked at.
generateHoldEvent(t, ignored) ==
  /\ Running
  /\ pc[t] \in {"locked", "lockFailed"}
  /\ \/ ~ignored /\ Full(t) /\ Abort("queueFull")
     \/ /\ IF ignored THEN UNCHANGED queue ELSE ~Full(t) /\ Put(t, hold(target[t]))
        /\ Go(t, "idle", NoMutex)
        /\ UNCHANGED <<owner, registered, abort>>

\* The native pthread_mutex_unlock: the owner frees the mutex; for an error-
\* checking mutex any other caller gets EPERM.
nativeUnlock(t, m) ==
  /\ Running
  /\ pc[t] = "idle"
  /\ \/ /\ owner[m] = t
        /\ owner' = [owner EXCEPT ![m] = NoThread]
        /\ Go(t, "unlocked", m)
     \/ /\ m \in ErrorCheck
        /\ owner[m] # t
        /\ Go(t, "unlockFailed", m)
        /\ UNCHANGED owner
  /\ UNCHANGED <<registered, queue, abort>>

\* generateReleaseEvent: assert(dispatcher.invoke) comes before the filter;
\* the result of the native call is not looked at.
generateReleaseEvent(t, ignored) ==
  /\ Running
  /\ pc[t] \in {"unlocked", "unlockFailed"}
  /\ \/ t \notin registered /\ Abort("assertion")
     \/ t \in registered /\ ~ignored /\ Full(t) /\ Abort("queueFull")
     \/ /\ t \in registered
        /\ IF ignored THEN UNCHANGED queue ELSE ~Full(t) /\ Put(t, release(target[t]))
        /\ Go(t, "idle", NoMutex)
        /\ UNCHANGED <<owner, registered, abort>>
-----------------------------------------------------------------------------
\* A set of threads that are really deadlocked: each is blocked in the native
\* lock function of a mutex that a member of the set owns.
Deadlocked(D) ==
  /\ D # {}
  /\ \A t \in D : /\ pc[t] = "locking"
                  /\ owner[target[t]] \in D
                  /\ ~(owner[target[t]] = t /\ target[t] \in ErrorCheck)
=============================================================================
