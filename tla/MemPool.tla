------------------------------ MODULE MemPool ------------------------------
(***************************************************************************)
(* A memory pool (mempool.c) behind its spin lock, with the macros         *)
(* memPoolAllocLocked and memPoolFreeLocked (mempool.h), store by store.   *)
(* A block starts with one pointer: in the free list it leads to the next  *)
(* block, in the hands of a caller it leads to the pool.                   *)
(*                                                                         *)
(* Blocks are numbers instead of addresses; the bookkeeping of avail, used *)
(* and max, which only memPoolPrint reads, is left out.  The pools of      *)
(* vertices and arcs have no lock, but one caller only: the checker.       *)
(***************************************************************************)
EXTENDS WatchedProcess, Integers, FiniteSets, Sequences

CONSTANT total_blocks

ASSUME MemPoolAssumption == total_blocks \in Nat \ {0}

Block == 1 .. total_blocks
NULL  == 0
mp    == total_blocks + 1   \* the address of the pool, which is no block

VARIABLES
  header,        \* the pointer at the start of each block
  block_list,    \* the head of the free list
  free_blocks,   \* the count of it
  err,           \* calls that the pool has refused
  lock,          \* the thread that has the spin lock
  pc,            \* where each thread is in a call
  block_ptr,     \* the block that this call is about
  live           \* the blocks in the hands of each thread

poolVars == <<header, block_list, free_blocks, err>>
callVars == <<lock, pc, block_ptr, live>>
vars     == <<abort, poolVars, callVars>>

\* Where a thread is with the lock: in memPoolAlloc, in memPoolFree, or about
\* to release the lock after one of them.
Allocating == {"alloc", "unlink", "claim", "account"}
Freeing    == {"free", "link", "push", "count"}
Leaving    == {"given", "refused", "freed"}
Critical   == Allocating \cup Freeing \cup Leaving

TypeOK ==
  /\ abort \in AbortReason
  /\ header \in [Block -> Block \cup {NULL, mp}]
  /\ block_list \in Block \cup {NULL}
  /\ free_blocks \in 0 .. total_blocks
  /\ err \in Nat
  /\ lock \in Thread \cup {NoThread}
  /\ pc \in [Thread -> Critical \cup {"idle", "null"}]
  /\ block_ptr \in [Thread -> Block \cup {NULL}]
  /\ live \in [Thread -> SUBSET Block]

\* memPoolDefine: every block leads to the next one, the last one to none.
Init ==
  /\ abort = "none"
  /\ header = [b \in Block |-> IF b = total_blocks THEN NULL ELSE b + 1]
  /\ block_list = 1
  /\ free_blocks = total_blocks
  /\ err = 0
  /\ lock = NoThread
  /\ pc = [t \in Thread |-> "idle"]
  /\ block_ptr = [t \in Thread |-> NULL]
  /\ live = [t \in Thread |-> {}]

Goto(t, from, to) ==
  /\ Running
  /\ pc[t] = from
  /\ pc' = [pc EXCEPT ![t] = to]

\* _lock->acquire(_lock), _lock->release(_lock)
acquire(t) == lock = NoThread /\ lock' = t
releaseLock == lock' = NoThread
-----------------------------------------------------------------------------
(* memPoolAlloc *)

AllocBegin(t) ==
  /\ Goto(t, "idle", "alloc")
  /\ acquire(t)
  /\ UNCHANGED <<abort, poolVars, block_ptr, live>>

\* assert(mp->free_blocks <= mp->total_blocks), then the test for an empty pool.
AllocTest(t) ==
  /\ UNCHANGED <<header, block_list, free_blocks, lock, live>>
  /\ \/ /\ free_blocks > total_blocks
        /\ Goto(t, "alloc", "alloc")
        /\ abort' = "assertion"
        /\ UNCHANGED <<err, block_ptr>>
     \/ /\ free_blocks <= total_blocks
        /\ free_blocks <= 0 \/ block_list = NULL
        /\ Goto(t, "alloc", "refused")
        /\ err' = err + 1
        /\ UNCHANGED <<abort, block_ptr>>
     \/ /\ free_blocks \in 1 .. total_blocks
        /\ block_list # NULL
        /\ Goto(t, "alloc", "unlink")
        /\ block_ptr' = [block_ptr EXCEPT ![t] = block_list]
        /\ UNCHANGED <<abort, err>>

\* Faulty variant: the head of the list stays.
UnlinkNot(t) ==
  /\ Goto(t, "unlink", "claim")
  /\ UNCHANGED <<abort, poolVars, lock, block_ptr, live>>

\* The head of the list points to the next block.
Unlink(t) ==
  /\ Goto(t, "unlink", "claim")
  /\ block_list' = header[block_ptr[t]]
  /\ UNCHANGED <<abort, header, free_blocks, err, lock, block_ptr, live>>

\* Faulty variant: the pointer of the block is left as it was in the list.
ClaimNot(t) ==
  /\ Goto(t, "claim", "account")
  /\ UNCHANGED <<abort, poolVars, lock, block_ptr, live>>

\* The unlinked block points to the pool.
Claim(t) ==
  /\ Goto(t, "claim", "account")
  /\ header' = [header EXCEPT ![block_ptr[t]] = mp]
  /\ UNCHANGED <<abort, block_list, free_blocks, err, lock, block_ptr, live>>

\* Faulty variant: the block is not counted.
AccountNot(t) ==
  /\ Goto(t, "account", "given")
  /\ UNCHANGED <<abort, poolVars, lock, block_ptr, live>>

Account(t) ==
  /\ Goto(t, "account", "given")
  /\ free_blocks' = free_blocks - 1
  /\ UNCHANGED <<abort, header, block_list, err, lock, block_ptr, live>>

AllocEnd(t) ==
  /\ \/ Goto(t, "given", "idle") /\ live' = [live EXCEPT ![t] = @ \cup {block_ptr[t]}]
     \/ Goto(t, "refused", "null") /\ UNCHANGED live
  /\ releaseLock
  /\ block_ptr' = [block_ptr EXCEPT ![t] = NULL]
  /\ UNCHANGED <<abort, poolVars>>

\* The caller's assert: in eventQueueInit for a queue and its buffer, in the
\* handlers for a vertex, in addEdge for an arc.
NoBlock(t) ==
  /\ Goto(t, "null", "null")
  /\ abort' = "poolEmpty"
  /\ UNCHANGED <<poolVars, callVars>>
-----------------------------------------------------------------------------
(* memPoolFree *)

FreeBegin(t, b) ==
  /\ Goto(t, "idle", "free")
  /\ acquire(t)
  /\ b \in live[t]
  /\ block_ptr' = [block_ptr EXCEPT ![t] = b]
  /\ live' = [live EXCEPT ![t] = @ \ {b}]
  /\ UNCHANGED <<abort, poolVars>>

\* A block that does not point to the pool is refused; then
\* assert(mp->free_blocks < mp->total_blocks).
FreeTest(t) ==
  /\ pc[t] = "free"
  /\ UNCHANGED <<header, block_list, free_blocks, lock, block_ptr, live>>
  /\ \/ /\ header[block_ptr[t]] # mp
        /\ Goto(t, "free", "freed")
        /\ err' = err + 1
        /\ UNCHANGED abort
     \/ /\ header[block_ptr[t]] = mp
        /\ free_blocks >= total_blocks
        /\ Goto(t, "free", "free")
        /\ abort' = "assertion"
        /\ UNCHANGED err
     \/ /\ header[block_ptr[t]] = mp
        /\ free_blocks < total_blocks
        /\ Goto(t, "free", "link")
        /\ UNCHANGED <<abort, err>>

Link(t) ==
  /\ Goto(t, "link", "push")
  /\ header' = [header EXCEPT ![block_ptr[t]] = block_list]
  /\ UNCHANGED <<abort, block_list, free_blocks, err, lock, block_ptr, live>>

\* Faulty variant: what was in front of the list is lost.
PushAlone(t) ==
  /\ Goto(t, "push", "count")
  /\ block_list' = block_ptr[t]
  /\ header' = [header EXCEPT ![block_ptr[t]] = NULL]
  /\ UNCHANGED <<abort, free_blocks, err, lock, block_ptr, live>>

Push(t) ==
  /\ Goto(t, "push", "count")
  /\ block_list' = block_ptr[t]
  /\ UNCHANGED <<abort, header, free_blocks, err, lock, block_ptr, live>>

\* Faulty variant: the block is counted twice.
CountTwice(t) ==
  /\ Goto(t, "count", "freed")
  /\ free_blocks' = free_blocks + 2
  /\ UNCHANGED <<abort, header, block_list, err, lock, block_ptr, live>>

Count(t) ==
  /\ Goto(t, "count", "freed")
  /\ free_blocks' = free_blocks + 1
  /\ UNCHANGED <<abort, header, block_list, err, lock, block_ptr, live>>

FreeEnd(t) ==
  /\ Goto(t, "freed", "idle")
  /\ releaseLock
  /\ block_ptr' = [block_ptr EXCEPT ![t] = NULL]
  /\ UNCHANGED <<abort, poolVars, live>>
-----------------------------------------------------------------------------
memPoolAlloc(t) ==
  AllocBegin(t) \/ AllocTest(t) \/ Unlink(t) \/ Claim(t) \/ Account(t) \/ AllocEnd(t)

memPoolFree(t) ==
  \/ \E b \in Block : FreeBegin(t, b)
  \/ FreeTest(t) \/ Link(t) \/ Push(t) \/ Count(t) \/ FreeEnd(t)

Next == \E t \in Thread : memPoolAlloc(t) \/ NoBlock(t) \/ memPoolFree(t)

Spec == Init /\ [][Next]_vars
-----------------------------------------------------------------------------
\* The blocks that no caller has, nor a call on its way from or to the list.
Listed ==
  {b \in Block : \A t \in Thread :
     /\ b \notin live[t]
     /\ ~(block_ptr[t] = b /\ pc[t] \notin {"unlink", "count", "freed"})}

\* s is the free list: linked from block_list to NULL, no block twice.
IsFreeList(s) ==
  /\ s \in Seq(Block)
  /\ \A i, j \in 1 .. Len(s) : s[i] = s[j] => i = j
  /\ block_list = IF s = <<>> THEN NULL ELSE s[1]
  /\ \A i \in 1 .. Len(s) : header[s[i]] = IF i = Len(s) THEN NULL ELSE s[i + 1]

\* No two callers have the same block, and what they have points to the pool, so
\* that it can be given back.
BlocksDisjoint ==
  \A t \in Thread : \A b \in live[t] :
    /\ header[b] = mp
    /\ \A u \in Thread \ {t} : b \notin live[u]

\* Between two calls the free list runs through exactly the blocks that nobody
\* has, and the counter counts them: none is lost, none is in it while in use.
ListIsWhole ==
  lock = NoThread =>
    /\ \E n \in 0 .. total_blocks : \E s \in [1 .. n -> Block] :
         IsFreeList(s) /\ {s[i] : i \in 1 .. n} = Listed
    /\ free_blocks = Cardinality(Listed)

\* The pool refuses nothing but a request when no block is left.
RefusesOnlyIfEmpty ==
  [][err' # err => \E t \in Thread : pc[t] = "alloc" /\ Listed = {}]_vars

\* Neither assert() of the pool ever fails.
AssertsHold == abort # "assertion"
=============================================================================
