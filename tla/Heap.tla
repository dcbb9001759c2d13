-------------------------------- MODULE Heap --------------------------------
(***************************************************************************)
(* The small-memory heap behind zmalloc and zfree (mem.c): blocks in       *)
(* address order, each behind a header that links it both ways; first fit  *)
(* from the lowest free block; a large block is split, and a block that is *)
(* freed is combined with free neighbours.                                 *)
(*                                                                         *)
(* Offsets and sizes are in units of the alignment.  One call at a time:   *)
(* nothing in the code makes it so (see the README), but this is what the  *)
(* algorithm is written for.                                               *)
(***************************************************************************)
EXTENDS WatchedProcess, Integers, FiniteSets, FiniteSetsExt

CONSTANTS
  Header,     \* SIZEOF_STRUCT_MEM
  MinSize,    \* MIN_SIZE_ALIGNED
  Size,       \* memSizeAligned
  Request     \* the sizes that are asked for

ASSUME HeapAssumption ==
  /\ {Header, MinSize, Size} \subseteq Nat \ {0}
  /\ Request \subseteq Nat \ {0}

heapEnd == Size + Header
Offset  == 0..heapEnd

VARIABLES
  mem,        \* the header at each offset that has one
  heapFree,   \* the lowest free block
  used,       \* units in use, headers included
  live,       \* what the callers own: the address and size of their data
  asked       \* the size asked for last

vars == <<abort, mem, heapFree, used, live, asked>>

HeaderAt(prev, next, inUse) == [prev |-> prev, next |-> next, used |-> inUse]

\* What is left of a header that belongs to no block any more.
NoHeader == HeaderAt(0, 0, FALSE)

TypeOK ==
  /\ abort \in AbortReason
  /\ mem \in [Offset -> [prev : Offset, next : Offset, used : BOOLEAN]]
  /\ heapFree \in Offset
  /\ used \in 0..heapEnd
  /\ live \subseteq [at : Offset, size : Request]
  /\ asked \in Request \cup {0}

Init ==
  /\ abort = "none"
  /\ mem = [p \in Offset |-> CASE p = 0 -> HeaderAt(0, heapEnd, FALSE)
                               [] p = heapEnd -> HeaderAt(p, p, FALSE)
                               [] OTHER -> NoHeader]
  /\ heapFree = 0
  /\ used = 0
  /\ live = {}
  /\ asked = 0

\* The blocks from p on, along the links.
Blocks(m, p) ==
  LET from[q \in Offset] ==
        IF q = heapEnd \/ m[q].next <= q THEN {} ELSE {q} \cup from[m[q].next]
  IN  from[p]

Room(m, p) == m[p].next - (p + Header)

Linked(m, p, q) == IF q = heapEnd THEN m ELSE [m EXCEPT ![q].prev = p]
-----------------------------------------------------------------------------
\* Faulty variant: the scan stops one unit too early.
CandidatesShort(size) ==
  {p \in Blocks(mem, heapFree) :
     p < Size - size /\ ~mem[p].used /\ Room(mem, p) >= size}

\* The blocks at which the scan would stop.
Candidates(size) ==
  {p \in Blocks(mem, heapFree) :
     p <= Size - size /\ ~mem[p].used /\ Room(mem, p) >= size}

\* Faulty variant: the header of the remainder is forgotten.
IsSplitTight(p, size) == Room(mem, p) >= size + MinSize

IsSplit(p, size) == Room(mem, p) >= size + Header + MinSize

Split(p, size) ==
  LET p2 == p + Header + size
      m  == [mem EXCEPT ![p]  = HeaderAt(@.prev, p2, TRUE),
                        ![p2] = HeaderAt(p, mem[p].next, FALSE)]
  IN  Linked(m, p2, mem[p].next)

\* Faulty variant: the block after the new one is taken to be free.
NextFreeAssumed(m, p) == m[p].next

NextFree(m, p) == Min({q \in Blocks(m, p) : ~m[q].used} \cup {heapEnd})

Extent(m, p) == m[p].next - p

\* Faulty variant: a block counts by what was asked for.
TakenAsked(m, p) == asked' + Header

Taken(m, p) == Extent(m, p)

\* A block is found; the asserts at the end of memAlloc decide.
Take(p, size) ==
  LET m    == IF IsSplit(p, size) THEN Split(p, size)
                                  ELSE [mem EXCEPT ![p].used = TRUE]
      free == IF p = heapFree THEN NextFree(m, p) ELSE heapFree
      fine == /\ free = heapEnd \/ ~m[free].used
              /\ p + Header + size <= heapEnd
  IN  /\ abort' = IF fine THEN abort ELSE "assertion"
      /\ mem' = m
      /\ heapFree' = free
      /\ used' = used + Taken(m, p)
      /\ live' = live \cup {[at |-> p + Header, size |-> asked']}

\* The size that is looked for when n units are asked for.
Wanted(n) == Max({n, MinSize})

memAlloc(n) ==
  /\ Running
  /\ Wanted(n) <= Size
  /\ Candidates(Wanted(n)) # {}
  /\ asked' = n
  /\ Take(Min(Candidates(Wanted(n))), Wanted(n))

\* memAlloc returns NULL, and zmalloc ends the process.
OutOfMemory(n) ==
  /\ Running
  /\ Wanted(n) > Size \/ Candidates(Wanted(n)) = {}
  /\ asked' = n
  /\ abort' = "poolEmpty"
  /\ UNCHANGED <<mem, heapFree, used, live>>

zmalloc(n) == memAlloc(n) \/ OutOfMemory(n)
-----------------------------------------------------------------------------
JoinsNext(m, p) == m[p].next # heapEnd /\ ~m[m[p].next].used

\* Faulty variant: the first block is not combined with.
JoinsPrevInside(m, p) == m[p].prev # 0 /\ ~m[m[p].prev].used

JoinsPrev(m, p) == m[p].prev # p /\ ~m[m[p].prev].used

\* Faulty variant: the block behind the hole keeps its link to the middle.
JoinUnlinked(m, p, q) == [m EXCEPT ![p].next = m[q].next, ![q] = NoHeader]

\* Block q becomes a part of block p before it.
Join(m, p, q) ==
  Linked([m EXCEPT ![p].next = m[q].next, ![q] = NoHeader], p, m[q].next)

memPlugHoles(m, p) ==
  LET forward == IF JoinsNext(m, p) THEN Join(m, p, m[p].next) ELSE m
  IN  IF JoinsPrev(forward, p) THEN Join(forward, m[p].prev, p) ELSE forward

\* Faulty variant: memFree leaves heapFree to memPlugHoles.
LowestFreedNot(p) == heapFree

LowestFreed(p) == IF p < heapFree THEN p ELSE heapFree

\* heapFree after memFree of p and memPlugHoles.
LowestAfter(m, p) ==
  LET freed   == LowestFreed(p)
      forward == IF JoinsNext(m, p) /\ freed = m[p].next THEN p ELSE freed
  IN  IF JoinsPrev(m, p) /\ forward = p THEN m[p].prev ELSE forward

\* memFree of a block that its owner got from zmalloc and frees once.
zfree(b) ==
  LET p == b.at - Header
      m == [mem EXCEPT ![p].used = FALSE]
  IN  /\ Running
      /\ abort' = IF mem[p].used THEN abort ELSE "assertion"
      /\ mem' = memPlugHoles(m, p)
      /\ heapFree' = LowestAfter(m, p)
      /\ used' = used - Extent(mem, p)
      /\ live' = live \ {b}
      /\ UNCHANGED asked

Next ==
  \/ \E n \in Request : zmalloc(n)
  \/ \E b \in live : zfree(b)

Spec == Init /\ [][Next]_vars
-----------------------------------------------------------------------------
Units(from, to) == from..to - 1

\* The bytes of two callers never overlap, and no caller's bytes overlap the
\* header of any block, his own or another's, or the end of the heap.
LiveDisjoint ==
  /\ \A b \in live :
       /\ Units(b.at, b.at + b.size) \subseteq Units(Header, heapEnd)
       /\ \A p \in Blocks(mem, 0) :
            Units(b.at, b.at + b.size) \cap Units(p, p + Header) = {}
  /\ \A b, c \in live : b # c =>
       Units(b.at, b.at + b.size) \cap Units(c.at, c.at + c.size) = {}
  /\ \A p, q \in Blocks(mem, 0) : p # q =>
       Units(p, p + Header) \cap Units(q, q + Header) = {}

\* The links agree in both directions, the blocks in use are those of the
\* callers, two free blocks are never neighbours (the comment of
\* memPlugHoles), and used counts what the blocks in use take up.
ListConsistent ==
  LET blocks == Blocks(mem, 0)
  IN  Running =>
        /\ {p \in blocks : mem[p].used} = {b.at - Header : b \in live}
        /\ \A p \in blocks :
             LET q == mem[p].next
             IN  /\ q \in blocks \cup {heapEnd}
                 /\ q # heapEnd => mem[q].prev = p /\ (mem[p].used \/ mem[q].used)
        /\ used = Cardinality(UNION {Units(p, mem[p].next) : p \in {q \in blocks : mem[q].used}})

\* heapFree, from which the scan starts, is the lowest free block whatever
\* was split, freed and combined: none below it is passed over.
LowestFree ==
  Running =>
    heapFree = Min({p \in Blocks(mem, 0) : ~mem[p].used} \cup {heapEnd})

\* zmalloc ends the program for lack of memory only if no block of the heap
\* would do.
FailsOnlyIfFull ==
  abort = "poolEmpty" =>
    \A p \in Blocks(mem, 0) :
      mem[p].used \/ Room(mem, p) < Wanted(asked)

\* When the last block is given back the heap is what it was at the start, one
\* free block: nothing is lost and nothing stays split, in whatever order the
\* blocks were taken and freed.
EmptyIsOneBlock ==
  live = {} => Blocks(mem, 0) = {0} /\ Room(mem, 0) = Size /\ used = 0

\* The asserts of memAlloc and memFree hold for callers that free what they
\* were given, once, in any order.
AssertsHold == abort # "assertion"
=============================================================================
