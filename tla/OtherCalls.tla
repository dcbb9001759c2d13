----------------------------- MODULE OtherCalls -----------------------------
(***************************************************************************)
(* Programs that do more than DlChecker's: they lock a mutex again that    *)
(* they own, call native functions that dlChecker does not interpose, and  *)
(* change the filter (filter.c) while threads are locking.  The interposed *)
(* functions and the handlers are those of DlChecker.  Of its passes only  *)
(* this is kept: the checker takes the events of each queue in order.      *)
(*                                                                         *)
(* skipped, hidden and mistake are not in the code.  They record what a    *)
(* thread has not said, for the properties at the end.                     *)
(***************************************************************************)
EXTENDS EventGraph

CONSTANTS
  Recursive,    \* mutexes of type PTHREAD_MUTEX_RECURSIVE
  TryLocked,    \* mutexes on which the program calls pthread_mutex_trylock
  Awaited,      \* mutexes with which it calls pthread_cond_wait
  FilterList,   \* what it passes to dlcFilterCreate
  MaxDepth      \* bound: how often a recursive mutex is locked by its owner

ASSUME OtherCallsAssumption ==
  /\ Recursive \subseteq Mutex \ ErrorCheck
  /\ FilterList \subseteq Mutex
  /\ MaxDepth \in Nat \ {0}
  /\ Filtered = {}

VARIABLES
  depth,     \* how often its owner has locked each mutex
  parked,    \* the mutex that a thread in pthread_cond_wait gave up
  filter,    \* isEnabledFilter, and whether the map still exists
  filters,   \* the mutexes in the map
  skipped,   \* threads in a lock call whose wait event was ignored
  hidden,    \* mutexes that a thread owns without having said so
  mistake    \* the first thing a thread announced, or did not, wrongly

filterVars  == <<filter, filters>>
saidVars    == <<skipped, hidden, mistake>>
programVars == <<depth, parked, filterVars, saidVars>>
coreVars    == <<abort, trackerVars, graphVars>>
vars        == <<coreVars, programVars>>

\* What the thread has said it holds and still may say it gives back.
Told(t) ==
  {m \in Mutex : \/ owner[m] = t
                 \/ parked[t] = m
                 \/ pc[t] = "unlocked" /\ target[t] = m} \ hidden[t]

\* The types, that natively nobody owns a mutex he has not locked, and that no
\* thread hides a mutex it has nothing to do with.
TypeOK ==
  /\ abort \in AbortReason
  /\ TrackerTypeOK
  /\ GraphTypeOK
  /\ \A m \in Mutex : /\ depth[m] \in 0 .. MaxDepth
                      /\ (depth[m] = 0) <=> (owner[m] = NoThread)
  /\ parked \in [Thread -> Mutex \cup {NoMutex}]
  /\ filter \in {"off", "on", "gone"}
  /\ filters \subseteq Mutex
  /\ skipped \subseteq {t \in Thread : pc[t] \in {"locking", "locked", "lockFailed"}}
  /\ \A t \in Thread : \A m \in hidden[t] :
       owner[m] = t \/ parked[t] = m \/ (pc[t] = "unlocked" /\ target[t] = m)
  /\ mistake \in [Thread -> {"none", "extra", "missing"}]

Init ==
  /\ abort = "none"
  /\ TrackerInit
  /\ GraphInit
  /\ depth = [m \in Mutex |-> 0]
  /\ parked = [t \in Thread |-> NoMutex]
  /\ filter = "off"
  /\ filters = {}
  /\ skipped = {}
  /\ hidden = [t \in Thread |-> {}]
  /\ mistake = [t \in Thread |-> "none"]
-----------------------------------------------------------------------------
(* The filter.  A program that adds to it or destroys it before it exists, *)
(* or after it was destroyed, is not followed: these calls stop at an      *)
(* assert or use the freed map themselves.                                 *)

\* isEnabledFilter is set last.
dlcFilterCreate ==
  /\ Running
  /\ filter = "off"
  /\ filter' = "on"
  /\ filters' = FilterList
  /\ UNCHANGED <<coreVars, depth, parked, saidVars>>

setFilter(m) ==
  /\ Running
  /\ filter = "on"
  /\ filters' = filters \cup {m}
  /\ UNCHANGED <<coreVars, depth, parked, filter, saidVars>>

\* The map is freed, but isEnabledFilter stays TRUE.
dlcFilterDestroy ==
  /\ Running
  /\ filter = "on"
  /\ filter' = "gone"
  /\ filters' = {}
  /\ UNCHANGED <<coreVars, depth, parked, saidVars>>

\* isEnabledFilter && isFilter(m); after the destruction isFilter reads freed
\* memory, so it may answer anything.
isFilter(m) ==
  CASE filter = "off"  -> {FALSE}
    [] filter = "on"   -> {m \in filters}
    [] filter = "gone" -> BOOLEAN
-----------------------------------------------------------------------------
(* The interposed functions *)

\* The first mistake of a thread is kept.
Judge(t, extra, missing) ==
  mistake' = [mistake EXCEPT ![t] =
    IF @ # "none" THEN @ ELSE IF extra THEN "extra" ELSE IF missing THEN "missing" ELSE @]

\* A thread that is not in pthread_cond_wait makes any call up to its first mistake.
\* After an event too few it goes on to lock; after an event too many, which ends
\* the process when the checker takes it, what it does concerns no property.
Active(t)     == parked[t] = NoMutex /\ mistake[t] = "none"
StillLocks(t) == parked[t] = NoMutex /\ mistake[t] # "extra"

LockCall(t, m) ==
  /\ StillLocks(t)
  /\ (m \in Recursive /\ owner[m] = t) => depth[m] < MaxDepth
  /\ \E ignored \in isFilter(m) :
       /\ generateWaitEvent(t, m, ignored)
       /\ skipped' = IF ignored /\ abort' = "none" THEN skipped \cup {t} ELSE skipped
  /\ UNCHANGED <<graphVars, depth, parked, filterVars, hidden, mistake>>

\* A recursive mutex is taken again at once by its owner.
Relock(t) ==
  /\ Running
  /\ pc[t] = "locking"
  /\ target[t] \in Recursive
  /\ owner[target[t]] = t
  /\ Go(t, "locked", target[t])
  /\ UNCHANGED <<owner, registered, queue, abort>>

NativeLock(t) ==
  /\ nativeLock(t) \/ Relock(t)
  /\ depth' = IF pc'[t] = "locked" THEN [depth EXCEPT ![target[t]] = @ + 1] ELSE depth
  /\ hidden' = IF owner' # owner THEN [hidden EXCEPT ![t] = @ \cup {target[t]}] ELSE hidden
  /\ UNCHANGED <<graphVars, parked, filterVars, skipped, mistake>>

\* assert((size_t)mutex == ev->mutexInfo.mid) compares with the thread's last
\* event: the wait event of this call, or some earlier event if it was ignored.
HoldEvent(t, ignored) ==
  \/ generateHoldEvent(t, ignored)
  \/ Running /\ pc[t] \in {"locked", "lockFailed"} /\ t \in skipped /\ ~ignored /\ Abort("assertion")

\* Wrong are a hold event after no wait event or for a mutex that the thread has
\* said it holds, and no hold event after a wait event.
HoldCall(t) ==
  /\ \E ignored \in isFilter(target[t]) :
       /\ HoldEvent(t, ignored)
       /\ hidden' = IF ignored \/ t \in skipped THEN hidden
                    ELSE [hidden EXCEPT ![t] = @ \ {target[t]}]
       /\ Judge(t, ~ignored /\ (t \in skipped \/ target[t] \notin hidden[t]),
                   ignored /\ t \notin skipped)
  /\ skipped' = skipped \ {t}
  /\ UNCHANGED <<graphVars, depth, parked, filterVars>>

\* A recursive mutex locked more than once stays with its owner; an unlock by
\* another thread fails.
Unwind(t, m) ==
  /\ Running
  /\ pc[t] = "idle"
  /\ m \in Recursive
  /\ \/ owner[m] = t /\ depth[m] > 1 /\ Go(t, "unlocked", m)
     \/ owner[m] # t /\ Go(t, "unlockFailed", m)
  /\ UNCHANGED <<owner, registered, queue, abort>>

UnlockCall(t, m) ==
  /\ Active(t)
  /\ \/ depth[m] <= 1 /\ nativeUnlock(t, m)
     \/ Unwind(t, m)
  /\ depth' = IF pc'[t] = "unlocked" THEN [depth EXCEPT ![m] = @ - 1] ELSE depth
  /\ UNCHANGED <<graphVars, parked, filterVars, saidVars>>

\* Wrong are a release event for what the thread has not said it holds, and no
\* release event for what it has said and does not hold any more.
ReleaseCall(t) ==
  /\ \E ignored \in isFilter(target[t]) :
       LET m    == target[t]
           kept == owner[m] = t
       IN  /\ generateReleaseEvent(t, ignored)
           /\ hidden' = [hidden EXCEPT ![t] =
                IF ~kept THEN @ \ {m} ELSE IF ignored THEN @ ELSE @ \cup {m}]
           /\ Judge(t, ~ignored /\ m \notin Told(t), ignored /\ ~kept /\ m \in Told(t))
  /\ UNCHANGED <<graphVars, depth, parked, filterVars, skipped>>
-----------------------------------------------------------------------------
(* Native functions that are not interposed *)

TryLock(t, m) ==
  /\ Running
  /\ pc[t] = "idle"
  /\ Active(t)
  /\ m \in TryLocked
  /\ \/ /\ owner[m] = NoThread
        /\ owner' = [owner EXCEPT ![m] = t]
        /\ hidden' = [hidden EXCEPT ![t] = @ \cup {m}]
     \/ /\ m \in Recursive
        /\ owner[m] = t
        /\ depth[m] < MaxDepth
        /\ UNCHANGED <<owner, hidden>>
  /\ depth' = [depth EXCEPT ![m] = @ + 1]
  /\ UNCHANGED <<abort, callVars, registered, queue, graphVars,
                 parked, filterVars, skipped, mistake>>

\* pthread_cond_wait gives the mutex up; it returns when it has it again.
CondWait(t, m) ==
  /\ Running
  /\ pc[t] = "idle"
  /\ Active(t)
  /\ m \in Awaited
  /\ owner[m] = t
  /\ depth[m] = 1
  /\ owner' = [owner EXCEPT ![m] = NoThread]
  /\ depth' = [depth EXCEPT ![m] = 0]
  /\ parked' = [parked EXCEPT ![t] = m]
  /\ UNCHANGED <<abort, callVars, registered, queue, graphVars,
                 filterVars, saidVars>>

CondReturn(t) ==
  /\ Running
  /\ parked[t] # NoMutex
  /\ owner[parked[t]] = NoThread
  /\ owner' = [owner EXCEPT ![parked[t]] = t]
  /\ depth' = [depth EXCEPT ![parked[t]] = 1]
  /\ parked' = [parked EXCEPT ![t] = NoMutex]
  /\ UNCHANGED <<abort, callVars, registered, queue, graphVars,
                 filterVars, saidVars>>
-----------------------------------------------------------------------------
Interposed(t) ==
  \/ \E m \in Mutex : LockCall(t, m) \/ UnlockCall(t, m)
  \/ NativeLock(t)
  \/ HoldCall(t)
  \/ ReleaseCall(t)

NotInterposed(t) ==
  \/ \E m \in Mutex : TryLock(t, m) \/ CondWait(t, m)
  \/ CondReturn(t)

FilterCall ==
  \/ dlcFilterCreate
  \/ \E m \in Mutex : setFilter(m)
  \/ dlcFilterDestroy

\* eventLoopEnter takes an event from the queue of t.
Take(t) ==
  /\ Running
  /\ queue[t] # <<>>
  /\ eventHandler(t, Head(queue[t]))
  /\ queue' = [queue EXCEPT ![t] = Tail(@)]
  /\ UNCHANGED <<callVars, owner, registered, programVars>>

Next ==
  \/ \E t \in Thread : Interposed(t) \/ NotInterposed(t)
  \/ FilterCall
  \/ \E t \in Thread : Take(t)

Spec == Init /\ [][Next]_vars
-----------------------------------------------------------------------------
Asked(t) == IF t \in skipped THEN {} ELSE Wants(t)

\* Whatever other threads do wrong, the graph lags behind a thread that has made
\* no mistake by exactly its queued events.  This includes threads that hold
\* mutexes taken by trylock, wait for a condition, or had all the events of a
\* call ignored.
Isolation ==
  Running =>
    \A t \in Thread : mistake[t] = "none" =>
      Leads(Requested(t), Occupied(t), queue[t], Asked(t), Told(t))

\* The native call will return at once, with or without an error.
OwnTarget(t) == target[t] \in Recursive \cup ErrorCheck /\ owner[target[t]] = t

\* No false alarm: threads that have made no mistake, whose queues are drained
\* and whom the graph shows waiting for one another, are deadlocked.  The
\* converse does not hold in these programs: a thread that waits to get its
\* mutex back after pthread_cond_wait, or for one taken by trylock, is not seen.
NoFalseAlarm ==
  Running =>
    \A D \in SUBSET Thread :
      (/\ Knot(D)
       /\ \A t \in D : mistake[t] = "none" /\ queue[t] = <<>> /\ ~OwnTarget(t))
      => Deadlocked(D)

\* An assert() or abort() ends the process only at a step of the thread that is to
\* blame, or at the checker's step with that thread's event: one that has announced
\* something too much (a failed call of an error-checking mutex, whose result
\* trait.c does not look at, a second lock of a recursive one, an unlock after a
\* trylock, a filter changed between wait and hold) or has left something out (a
\* filter changed within a call, after which its next wait fails eventLoop.c:120),
\* or one that unlocks before it has ever locked (assert(dispatcher.invoke)).  No
\* thread that keeps to the rules is ever stopped by an event of its own.
OnlyCulpritsAbort ==
  [][abort # "assertion" /\ abort' = "assertion" =>
       \E t \in Thread :
         \/ (Take(t) \/ HoldCall(t) \/ ReleaseCall(t)) /\ mistake'[t] # "none"
         \/ ReleaseCall(t) /\ t \notin registered]_vars
=============================================================================
