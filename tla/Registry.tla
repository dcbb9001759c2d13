------------------------------ MODULE Registry ------------------------------
(***************************************************************************)
(* eventQueueMap, the hash table that leads the checker from a thread id   *)
(* to the event queue of the thread (hashMap.c).  A thread enters itself   *)
(* once, under a spin lock, in the several stores of hashMapPut; the       *)
(* checker iterates over the table without that lock (eventLoopEnter).     *)
(*                                                                         *)
(* A queue and an entry are named by the thread that made them.  Thread    *)
(* ids are numbers that the kernel gives out again after a thread's end;   *)
(* nothing ever leaves the table.  FreshEntry are the contents that a new  *)
(* entry may have before its key and its value are stored: zmalloc does    *)
(* not clear a block, and entries of requestThreadMap, whose key is the    *)
(* address of a vertex and whose value is no pointer, are freed to the     *)
(* same heap.                                                              *)
(***************************************************************************)
EXTENDS WatchedProcess, Integers, FiniteSets, Sequences

CONSTANTS Tid, Capacity, Garbage, FreshEntry

Key   == Tid \cup {0} \cup {fresh.key : fresh \in FreshEntry}
Value == Thread \cup {NoThread, Garbage}

ASSUME RegistryAssumption ==
  /\ IsFiniteSet(Thread)
  /\ Tid \subseteq Nat \ {0}
  /\ Capacity \in Nat \ {0}
  /\ Garbage \notin Thread \cup {NoThread}
  /\ FreshEntry \subseteq [key : Nat \ Tid, value : Value \ Thread]

VARIABLES
  pc, tid, lock,
  count,         \* atomicThreadCounts
  threadCount,   \* of each thread's dispatcher
  head,          \* the head of the bucket as a thread has read it
  table, entry, size,
  index, rest,   \* the iterator: its bucket, the entries ahead in it
  lookup,        \* the key that is being looked up, or -1
  served, due    \* queues served in this pass; those it owes a visit

writerVars  == <<pc, tid, lock, count, threadCount, head, table, entry, size>>
checkerVars == <<index, rest, lookup, served, due>>
vars == <<abort, writerVars, checkerVars>>

Point == {"absent", "starting", "locked", "counted", "existing", "linking",
          "linked", "sized", "keyed", "stored", "registered", "ended",
          "updated", "refused"}

TypeOK ==
  /\ abort \in AbortReason \cup {"badPointer"}
  /\ pc \in [Thread -> Point]
  /\ tid \in [Thread -> Tid \cup {0}]
  /\ lock \in BOOLEAN
  /\ count \in 0..Cardinality(Thread)
  /\ threadCount \in [Thread -> -1..Cardinality(Thread)]
  /\ head \in [Thread -> Seq(Thread)]
  /\ table \in [0..Capacity - 1 -> Seq(Thread)]
  /\ entry \in [Thread -> [key : Key, value : Value]]
  /\ size \in 0..Cardinality(Thread)
  /\ index \in -1..Capacity
  /\ rest \in Seq(Thread)
  /\ lookup \in Key \cup {-1}
  /\ served \subseteq Thread
  /\ due \subseteq Thread

Init ==
  /\ abort = "none"
  /\ pc = [t \in Thread |-> "absent"]
  /\ tid = [t \in Thread |-> 0]
  /\ lock = FALSE
  /\ count = 0
  /\ threadCount = [t \in Thread |-> -1]
  /\ head = [t \in Thread |-> <<>>]
  /\ table = [b \in 0..Capacity - 1 |-> <<>>]
  /\ entry = [t \in Thread |-> [key |-> 0, value |-> NoThread]]
  /\ size = 0
  /\ index = Capacity
  /\ rest = <<>>
  /\ lookup = -1
  /\ served = {}
  /\ due = {}

\* _hashCodeOfInteger leaves a key below 2^16 as it is; Capacity is a power
\* of two, and the mask of the code the remainder.
Bucket(k) == k % Capacity

\* Faulty variant: every entry of the bucket is taken for one with key k.
MatchesBucket(k) == DOMAIN table[Bucket(k)]

\* Where the entries with key k are in their bucket.
Matches(k) == {i \in DOMAIN table[Bucket(k)] : entry[table[Bucket(k)][i]].key = k}

\* The first of them: *existing of _mapKeyIndex, the result of hashMapFind.
hashMapFind(k) ==
  table[Bucket(k)][CHOOSE i \in Matches(k) : \A j \in Matches(k) : i <= j]

Goto(t, from, to) ==
  /\ Running
  /\ pc[t] = from
  /\ pc' = [pc EXCEPT ![t] = to]
-----------------------------------------------------------------------------
\* A thread makes its first lock call.  Its id is that of no living thread.
Start(t) ==
  \E i \in Tid :
    /\ \A u \in Thread : pc[u] \notin {"absent", "ended"} => tid[u] # i
    /\ Goto(t, "absent", "starting")
    /\ tid' = [tid EXCEPT ![t] = i]
    /\ UNCHANGED <<abort, lock, count, threadCount, head, table, entry, size,
                   checkerVars>>

\* Faulty variant: the map is written without its lock.
__lockNot(t) ==
  /\ Goto(t, "starting", "locked")
  /\ lock' = TRUE
  /\ UNCHANGED <<abort, tid, count, threadCount, head, table, entry, size,
                 checkerVars>>

\* The test-and-set that succeeds; those that fail change nothing.
__lock(t) ==
  /\ ~lock
  /\ Goto(t, "starting", "locked")
  /\ lock' = TRUE
  /\ UNCHANGED <<abort, tid, count, threadCount, head, table, entry, size,
                 checkerVars>>

CountThread(t) ==
  /\ Goto(t, "locked", "counted")
  /\ count' = count + 1
  /\ UNCHANGED <<abort, tid, lock, threadCount, head, table, entry, size,
                 checkerVars>>

\* hashMapAddRaw looks for the key.  If it is there, the entry is kept;
\* otherwise a new one will go in front of the bucket.
Lookup(t) ==
  LET new == Matches(tid[t]) = {}
  IN  /\ Goto(t, "counted", IF new THEN "linking" ELSE "existing")
      /\ threadCount' = [threadCount EXCEPT ![t] = count]
      /\ head' = [head EXCEPT ![t] = IF new THEN table[Bucket(tid[t])]
                                     ELSE <<hashMapFind(tid[t])>>]
      /\ UNCHANGED <<abort, tid, lock, count, table, entry, size, checkerVars>>

\* The entry is reachable before anything is stored in it.
Link(t) ==
  \E fresh \in FreshEntry :
    /\ Goto(t, "linking", "linked")
    /\ entry' = [entry EXCEPT ![t] = fresh]
    /\ table' = [table EXCEPT ![Bucket(tid[t])] = <<t>> \o head[t]]
    /\ UNCHANGED <<abort, tid, lock, count, threadCount, head, size,
                   checkerVars>>

CountEntry(t) ==
  /\ Goto(t, "linked", "sized")
  /\ size' = size + 1
  /\ UNCHANGED <<abort, tid, lock, count, threadCount, head, table, entry,
                 checkerVars>>

SetEntryKey(t) ==
  /\ Goto(t, "sized", "keyed")
  /\ entry' = [entry EXCEPT ![t].key = tid[t]]
  /\ UNCHANGED <<abort, tid, lock, count, threadCount, head, table, size,
                 checkerVars>>

SetEntryVal(t) ==
  /\ Goto(t, "keyed", "stored")
  /\ entry' = [entry EXCEPT ![t].value = t]
  /\ UNCHANGED <<abort, tid, lock, count, threadCount, head, table, size,
                 checkerVars>>

\* hashMapPut on a key that was there: its old value is lost.
Overwrite(t) ==
  /\ Goto(t, "existing", "updated")
  /\ entry' = [entry EXCEPT ![Head(head[t])].value = t]
  /\ UNCHANGED <<abort, tid, lock, count, threadCount, head, table, size,
                 checkerVars>>

\* Faulty variant: the lock is not given back.
__unlockNot(t) ==
  /\ Goto(t, "stored", "registered") \/ Goto(t, "updated", "refused")
  /\ UNCHANGED <<abort, tid, lock, count, threadCount, head, table, entry,
                 size, checkerVars>>

__unlock(t) ==
  /\ Goto(t, "stored", "registered") \/ Goto(t, "updated", "refused")
  /\ lock' = FALSE
  /\ UNCHANGED <<abort, tid, count, threadCount, head, table, entry, size,
                 checkerVars>>

\* dispatcherInit: assert(ret == 1).
Refuse(t) ==
  /\ Running
  /\ pc[t] = "refused"
  /\ abort' = "assertion"
  /\ UNCHANGED <<writerVars, checkerVars>>

\* The thread ends; its entry and its queue stay.
End(t) ==
  /\ Goto(t, "registered", "ended")
  /\ UNCHANGED <<abort, tid, lock, count, threadCount, head, table, entry,
                 size, checkerVars>>

Register(t) ==
  \/ __lock(t) \/ CountThread(t) \/ Lookup(t)
  \/ Link(t) \/ CountEntry(t) \/ SetEntryKey(t) \/ SetEntryVal(t)
  \/ Overwrite(t)
  \/ __unlock(t) \/ Refuse(t)
-----------------------------------------------------------------------------
Registered == {t \in Thread : pc[t] \in {"registered", "ended"}}

\* hashMapIteratorInit.
StartPass ==
  /\ Running
  /\ index = Capacity
  /\ index' = -1
  /\ served' = {}
  /\ due' = Registered
  /\ UNCHANGED <<abort, rest, lookup, writerVars>>

\* Faulty variant: the end of the table is recognised one bucket too late.
NextBucketLate ==
  /\ Running
  /\ index <= Capacity /\ rest = <<>> /\ lookup = -1
  /\ index' = index + 1
  /\ rest' = IF index' < Capacity THEN table[index'] ELSE <<>>
  /\ UNCHANGED <<abort, lookup, served, due, writerVars>>

\* hashMapNext at the end of a bucket.  No next pointer changes after its
\* entry has been linked, so what the iterator will meet in the bucket is
\* fixed when it reads the head.
NextBucket ==
  /\ Running
  /\ index < Capacity /\ rest = <<>> /\ lookup = -1
  /\ index' = index + 1
  /\ rest' = IF index' < Capacity THEN table[index'] ELSE <<>>
  /\ UNCHANGED <<abort, lookup, served, due, writerVars>>

\* hashMapNext returns an entry, of which eventLoopEnter reads the key.
NextEntry ==
  /\ Running
  /\ rest # <<>> /\ lookup = -1
  /\ lookup' = entry[Head(rest)].key
  /\ rest' = Tail(rest)
  /\ UNCHANGED <<abort, index, served, due, writerVars>>

hashMapGet(k) ==
  IF size = 0 \/ Matches(k) = {} THEN NoThread ELSE entry[hashMapFind(k)].value

\* Faulty variant: NULL ends the pass instead of skipping the entry.
ServeBreaks ==
  /\ Running
  /\ lookup # -1
  /\ lookup' = -1
  /\ LET eq == hashMapGet(lookup)
     IN  /\ abort' = IF eq = Garbage THEN "badPointer" ELSE abort
         /\ served' = served \cup ({eq} \cap Thread)
         /\ index' = IF eq = NoThread THEN Capacity ELSE index
         /\ rest' = IF eq = NoThread THEN <<>> ELSE rest
  /\ UNCHANGED <<due, writerVars>>

\* The key is looked up again; NULL is skipped, anything else is used as the
\* address of a queue, whose events are then handled (DlChecker).
Serve ==
  /\ Running
  /\ lookup # -1
  /\ lookup' = -1
  /\ LET eq == hashMapGet(lookup)
     IN  /\ abort' = IF eq = Garbage THEN "badPointer" ELSE abort
         /\ served' = served \cup ({eq} \cap Thread)
  /\ UNCHANGED <<index, rest, due, writerVars>>

eventLoopEnter == StartPass \/ NextBucket \/ NextEntry \/ Serve

Next ==
  \/ eventLoopEnter
  \/ \E t \in Thread : Start(t) \/ Register(t) \/ End(t)

Spec == Init /\ [][Next]_vars

\* The checker never stops, and a thread inside dispatcherInit goes on.
\* Failed test-and-sets are no steps: weak fairness suffices because each
\* thread takes the lock once.
FairSpec ==
  /\ Spec
  /\ WF_vars(eventLoopEnter)
  /\ \A t \in Thread : WF_vars(Register(t))
-----------------------------------------------------------------------------
\* A new thread with the id of t has put its own queue in place of t's.
TakenOver(t) ==
  \E u \in Thread : pc[u] \in {"updated", "refused"} /\ tid[u] = tid[t]

EntriesOf(t) ==
  {p \in (0..Capacity - 1) \X (1..Cardinality(Thread)) :
     p[2] \in DOMAIN table[p[1]] /\ table[p[1]][p[2]] = t}

\* Registrations at the same time lose nothing: a thread that is through is
\* in its bucket exactly once, with its id and its own queue (or that of the
\* thread whose registration is being refused), and under a number of its
\* own; and size is what the table holds whenever the lock is free.
NoEntryLost ==
  Running =>
    /\ \A t \in Registered :
         /\ \E p \in EntriesOf(t) : EntriesOf(t) = {p} /\ p[1] = Bucket(tid[t])
         /\ entry[t].key = tid[t]
         /\ entry[t].value = t \/ TakenOver(t)
         /\ \A u \in Registered \ {t} : threadCount[u] # threadCount[t]
    /\ ~lock => size = Cardinality(Registered)

\* A pass that runs beside registrations, past entries that are half made,
\* serves every queue that was registered when the pass began, unless the
\* queue's id has been taken over.
PassIsComplete ==
  Running /\ index = Capacity =>
    \A t \in due : t \in served \/ TakenOver(t)

\* dispatcherInit's assert(ret == 1) ends the process only when the id of an
\* ended thread has come back: neither a collision of hashes nor a
\* registration at the same time is taken for a key that exists.
RefusedOnlyOnReuse ==
  abort = "assertion" =>
    \E t, u \in Thread :
      pc[t] = "ended" /\ pc[u] = "refused" /\ tid[t] = tid[u]

\* Every thread that makes a first lock call gets its queue served by the
\* checker sooner or later, also if it has ended by then, unless the process
\* is aborted or another thread takes over its id.
EveryQueueServed ==
  \A t \in Thread :
    pc[t] = "starting" ~> t \in served \/ ~Running \/ TakenOver(t)

\* What the checker finds in the map is NULL or the address of a queue: the
\* README (2.4) shows the lookup under the lock of the map, and the comment
\* at hashMap.c:13 asks for care because no operation is safe for threads.
QueueOrNull == abort # "badPointer"
=============================================================================
