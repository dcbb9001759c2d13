----------------------------- MODULE HeapProofs -----------------------------
(***************************************************************************)
(* Theorems about Heap, for heaps, headers and requests of any size.       *)
(***************************************************************************)
EXTENDS Heap, FiniteSetTheorems, WellFoundedInduction, TLAPS

(***************************************************************************)
(* The inductive invariant.  It speaks of the offsets that have a header;  *)
(* that they are the ones which a walk along the links meets (Blocks) is a *)
(* consequence of it.                                                      *)
(***************************************************************************)
Heads(m) == {p \in Offset \ {heapEnd} : m[p].next # 0}

\* The links lead from each header to the next one, in both directions.
Whole(m) ==
  /\ 0 \in Heads(m) /\ m[0].prev = 0
  /\ \A p \in Heads(m) :
       /\ m[p].next \in Heads(m) \cup {heapEnd}
       /\ p + Header <= m[p].next
       /\ \A r \in Heads(m) : r <= p \/ m[p].next <= r
       /\ m[p].next # heapEnd => m[m[p].next].prev = p
       /\ p # 0 => m[p].prev \in Heads(m) /\ m[m[p].prev].next = p

\* Two free blocks are never neighbours.
Plugged(m) ==
  \A p \in Heads(m) : m[p].next # heapEnd => m[p].used \/ m[m[p].next].used

\* Every caller has a block of his own, with room for what he asked for, and no
\* other block is in use.
Owned(m, L) ==
  /\ \A b \in L :
       /\ b.at - Header \in Heads(m) /\ m[b.at - Header].used
       /\ b.at + b.size <= m[b.at - Header].next
  /\ \A b, c \in L : b.at = c.at => b = c
  /\ \A p \in Heads(m) : m[p].used => \E b \in L : b.at = p + Header

InUse(m) == UNION {Units(p, m[p].next) : p \in {q \in Heads(m) : m[q].used}}

IsLowest(m, lowest) ==
  /\ lowest \in Heads(m) \cup {heapEnd}
  /\ lowest # heapEnd => ~m[lowest].used
  /\ \A p \in Heads(m) : ~m[p].used => lowest <= p

StoppedInv ==
  /\ abort \in {"none", "poolEmpty"}
  /\ abort = "poolEmpty" =>
       \A p \in Heads(mem) : mem[p].used \/ Room(mem, p) < Wanted(asked)

IInv ==
  /\ TypeOK
  /\ Whole(mem)
  /\ Plugged(mem)
  /\ Owned(mem, live)
  /\ used = Cardinality(InUse(mem))
  /\ IsLowest(mem, heapFree)
  /\ StoppedInv
-----------------------------------------------------------------------------
(***************************************************************************)
(* The walk along the links.                                               *)
(***************************************************************************)
Memory == [Offset -> [prev : Offset, next : Offset, used : BOOLEAN]]

LEMMA Sizes ==
  /\ Header \in Nat /\ Header > 0 /\ MinSize \in Nat /\ MinSize > 0 /\ Size \in Nat /\ Size > 0
  /\ heapEnd \in Nat /\ heapEnd = Size + Header /\ Offset = 0..heapEnd
  /\ Request \subseteq Nat \ {0}
  BY HeapAssumption DEF heapEnd, Offset

\* Every set of numbers that is not empty has a least one.
LEMMA LeastNumber ==
  ASSUME NEW T \in SUBSET Nat, T # {}
  PROVE  \E x \in T : \A y \in T : x <= y
<1> DEFINE R == OpToRel(<, Nat)
<1>1. IsWellFoundedOn(R, Nat)
  BY NatLessThanWellFounded
<1>2. \A x, y \in Nat : y < x => <<y, x>> \in R
  BY DEF OpToRel
<1> HIDE DEF R
<1>3. PICK x \in T : \A y \in T : <<y, x>> \notin R
  BY <1>1, WFMin
<1>4. \A y \in T : x <= y
  <2> SUFFICES ASSUME NEW y \in T PROVE x <= y
    OBVIOUS
  <2>1. ~(y < x)
    BY <1>2, <1>3
  <2> QED
    BY <2>1
<1> QED
  BY <1>4

\* A walk along links that lead upwards comes to an end, so Blocks is what its
\* recursion says.
LEMMA BlocksUnfold ==
  ASSUME NEW m \in Memory, NEW p \in Offset
  PROVE  /\ p = heapEnd \/ m[p].next <= p => Blocks(m, p) = {}
         /\ ~(p = heapEnd \/ m[p].next <= p) => Blocks(m, p) = {p} \cup Blocks(m, m[p].next)
<1> DEFINE Stop(q) == q = heapEnd \/ m[q].next <= q
           Step(f, q) == IF Stop(q) THEN {} ELSE {q} \cup f[m[q].next]
           Good(f, d) == \A q \in Offset : q + d >= heapEnd => f[q] = Step(f, q)
           Bad == {d \in 0..heapEnd : ~\E f \in [Offset -> SUBSET Offset] : Good(f, d)}
<1>1. heapEnd \in Nat /\ Offset = 0..heapEnd
  BY Sizes
<1>2. \A q \in Offset : m[q].next \in Offset
  BY DEF Memory
<1>3. Bad = {}
  <2> SUFFICES ASSUME Bad # {} PROVE FALSE
    OBVIOUS
  <2>1. Bad \subseteq Nat
    BY <1>1
  <2>2. PICK d \in Bad : \A e \in Bad : d <= e
    <3> HIDE DEF Bad
    <3> QED
      BY <2>1, LeastNumber
  <2>3. d \in 0..heapEnd /\ ~\E f \in [Offset -> SUBSET Offset] : Good(f, d)
    OBVIOUS
  <2>4. CASE d = 0
    <3> DEFINE f == [q \in Offset |-> {}]
    <3>1. f \in [Offset -> SUBSET Offset]
      OBVIOUS
    <3>2. Good(f, 0)
      BY <1>1
    <3> QED
      BY <2>3, <2>4, <3>1, <3>2
  <2>5. CASE d # 0
    <3>1. d - 1 \in 0..heapEnd /\ ~(d <= d - 1)
      BY <1>1, <2>3, <2>5
    <3>2. d - 1 \notin Bad
      BY <2>2, <3>1
    <3>3. PICK f \in [Offset -> SUBSET Offset] : Good(f, d - 1)
      BY <3>1, <3>2
    <3> DEFINE k == heapEnd - d
               g == [f EXCEPT ![k] = Step(f, k)]
    <3>4. k \in Offset
      BY <1>1, <2>3
    <3>5. Step(f, k) \in SUBSET Offset
      BY <1>2, <3>4
    <3>6. g \in [Offset -> SUBSET Offset] /\ g[k] = Step(f, k)
          /\ \A q \in Offset : q # k => g[q] = f[q]
      <4> HIDE DEF Step, k
      <4> QED
        BY <3>4, <3>5
    <3>7. ASSUME NEW q \in Offset, q + d >= heapEnd
          PROVE  g[q] = Step(g, q)
      <4>1. q >= k
        BY <1>1, <2>3, <3>7
      <4>2. Step(g, q) = Step(f, q)
        <5>1. CASE Stop(q)
          BY <5>1
        <5>2. CASE ~Stop(q)
          <6>1. m[q].next # k
            BY <1>1, <1>2, <3>4, <4>1, <5>2
          <6> QED
            BY <1>2, <3>6, <6>1, <5>2
        <5> QED
          BY <5>1, <5>2
      <4>3. CASE q = k
        BY <3>6, <4>2, <4>3
      <4>4. CASE q # k
        <5>1. q + (d - 1) >= heapEnd
          <6>1. q \in Int /\ d \in Int /\ heapEnd \in Int /\ q >= heapEnd - d /\ q # heapEnd - d
            BY <1>1, <2>3, <4>1, <4>4
          <6> QED
            BY <6>1
        <5>2. f[q] = Step(f, q)
          BY <3>3, <5>1
        <5> QED
          BY <3>6, <4>2, <4>4, <5>2
      <4> QED
        BY <4>3, <4>4
    <3>8. Good(g, d)
      BY <3>7
    <3> HIDE DEF Good, g
    <3> QED
      BY <2>3, <3>6, <3>8
  <2> QED
    BY <2>4, <2>5
<1>4. PICK f \in [Offset -> SUBSET Offset] : Good(f, heapEnd)
  <2> HIDE DEF Good
  <2>1. heapEnd \in 0..heapEnd
    BY <1>1
  <2> QED
    BY <1>3, <2>1
<1>5. \A q \in Offset : f[q] = Step(f, q)
  BY <1>1, <1>4
<1>6. f = [q \in Offset |-> Step(f, q)]
  BY <1>5
<1> DEFINE w == CHOOSE h : h = [q \in Offset |-> Step(h, q)]
<1>7. w = [q \in Offset |-> Step(w, q)]
  BY <1>6
<1>8. \A q \in Offset : Blocks(m, q) = w[q]
  BY DEF Blocks
<1>9. m[p].next \in Offset
  BY <1>2
<1> HIDE DEF w
<1>10. w[p] = Step(w, p)
  BY <1>7
<1> QED
  BY <1>8, <1>9, <1>10

\* A walk from a header meets exactly the headers from there on.
LEMMA BlocksAre ==
  ASSUME NEW m \in Memory, Whole(m), NEW p \in Heads(m) \cup {heapEnd}
  PROVE  Blocks(m, p) = {q \in Heads(m) : p <= q}
<1> DEFINE Right(k) == Blocks(m, k) = {q \in Heads(m) : k <= q}
           Bad == {d \in 0..heapEnd : heapEnd - d \in Heads(m) \cup {heapEnd} /\ ~Right(heapEnd - d)}
<1>1. heapEnd \in Nat /\ Offset = 0..heapEnd /\ Header \in Nat /\ Header > 0
  BY Sizes
<1>2. \A k \in Heads(m) : k \in Nat /\ k < heapEnd /\ k \in Offset
  BY <1>1 DEF Heads
<1>3. Bad = {}
  <2> SUFFICES ASSUME Bad # {} PROVE FALSE
    OBVIOUS
  <2>1. PICK d \in Bad : \A e \in Bad : d <= e
    <3>1. Bad \subseteq Nat
      BY <1>1
    <3> HIDE DEF Bad
    <3> QED
      BY <3>1, LeastNumber
  <2> DEFINE k == heapEnd - d
  <2>2. d \in 0..heapEnd /\ k \in Heads(m) \cup {heapEnd} /\ ~Right(k) /\ k \in Offset /\ k \in Nat
    BY <1>1
  <2>3. CASE k = heapEnd
    <3>1. Blocks(m, k) = {}
      BY <2>2, <2>3, BlocksUnfold
    <3>2. {q \in Heads(m) : k <= q} = {}
      BY <1>1, <1>2, <2>3
    <3> QED
      BY <2>2, <3>1, <3>2
  <2>4. CASE k # heapEnd
    <3> HIDE DEF k
    <3> DEFINE n == m[k].next
    <3>1. k \in Heads(m) /\ k < heapEnd
      BY <1>2, <2>2, <2>4
    <3>2. /\ n \in Heads(m) \cup {heapEnd} /\ n \in Nat /\ k < n /\ n <= heapEnd
          /\ \A r \in Heads(m) : r <= k \/ n <= r
      <4>1. /\ n \in Heads(m) \cup {heapEnd} /\ k + Header <= n
            /\ \A r \in Heads(m) : r <= k \/ n <= r
        BY <3>1 DEF Whole
      <4> HIDE DEF n
      <4>2. n \in Nat /\ n <= heapEnd
        BY <1>1, <1>2, <4>1
      <4>3. k < n
        BY <1>1, <1>2, <3>1, <4>1, <4>2
      <4> QED
        BY <4>1, <4>2, <4>3
    <3> HIDE DEF n
    <3>3. Blocks(m, k) = {k} \cup Blocks(m, n)
      <4>1. ~(k = heapEnd \/ m[k].next <= k)
        BY <2>2, <2>4, <3>2 DEF n
      <4> QED
        BY <2>2, <4>1, BlocksUnfold DEF n
    <3>4. Right(n)
      <4>1. heapEnd - n \in 0..heapEnd /\ heapEnd - (heapEnd - n) = n /\ ~(d <= heapEnd - n)
        BY <1>1, <2>2, <3>2 DEF k
      <4>2. heapEnd - n \notin Bad
        BY <2>1, <4>1
      <4> QED
        BY <3>2, <4>1, <4>2
    <3>5. {q \in Heads(m) : k <= q} = {k} \cup {q \in Heads(m) : n <= q}
      <4>1. ASSUME NEW q \in Heads(m)
            PROVE  k <= q <=> q = k \/ n <= q
        <5>1. q \in Nat /\ k \in Nat /\ (q <= k \/ n <= q)
          BY <1>2, <2>2, <3>2
        <5> QED
          BY <3>2, <5>1
      <4> QED
        BY <3>1, <4>1
    <3> QED
      BY <2>2, <3>3, <3>4, <3>5
  <2> QED
    BY <2>3, <2>4
<1>4. heapEnd - p \in 0..heapEnd /\ heapEnd - (heapEnd - p) = p
  BY <1>1, <1>2
<1> QED
  BY <1>3, <1>4

LEMMA AllBlocksAre ==
  ASSUME NEW m \in Memory, Whole(m)
  PROVE  Blocks(m, 0) = Heads(m)
<1>1. 0 \in Heads(m)
  BY DEF Whole
<1>2. \A q \in Heads(m) : 0 <= q
  BY Sizes DEF Heads
<1> QED
  BY <1>1, <1>2, BlocksAre

LEMMA MinIs ==
  ASSUME NEW S \in SUBSET Nat, S # {}
  PROVE  Min(S) \in S /\ \A x \in S : Min(S) <= x
  BY LeastNumber DEF Min

\* The lowest free block, in the words of the model and in those of IInv.
LEMMA LowestIs ==
  ASSUME NEW m \in Memory, Whole(m), NEW p \in Heads(m),
         NEW S, S = {q \in Blocks(m, p) : ~m[q].used} \cup {heapEnd}
  PROVE  /\ Min(S) \in Heads(m) \cup {heapEnd}
         /\ Min(S) # heapEnd => ~m[Min(S)].used
         /\ \A q \in Heads(m) : p <= q /\ ~m[q].used => Min(S) <= q
<1>1. S = {q \in Heads(m) : p <= q /\ ~m[q].used} \cup {heapEnd}
  BY BlocksAre
<1>2. S \in SUBSET Nat /\ S # {}
  BY <1>1, Sizes DEF Heads
<1>3. Min(S) \in S /\ \A q \in S : Min(S) <= q
  BY <1>2, MinIs
<1> QED
  BY <1>1, <1>3
-----------------------------------------------------------------------------
(***************************************************************************)
(* What the calls do to the links.                                         *)
(***************************************************************************)
LEMMA HeadFacts ==
  ASSUME NEW m \in Memory, Whole(m), NEW p \in Heads(m)
  PROVE  /\ p \in Nat /\ p \in Offset /\ p < heapEnd
         /\ m[p].next \in Nat /\ m[p].next \in Offset /\ p < m[p].next /\ m[p].next <= heapEnd
         /\ m[p].prev \in Offset /\ m[p].used \in BOOLEAN
<1>1. p \in Nat /\ p \in Offset /\ p < heapEnd
  BY Sizes DEF Heads
<1>2. m[p].next \in Offset /\ m[p].prev \in Offset /\ m[p].used \in BOOLEAN
  BY <1>1 DEF Memory
<1>3. p + Header <= m[p].next
  BY DEF Whole
<1> QED
  BY <1>1, <1>2, <1>3, Sizes

LEMMA PrevType ==
  ASSUME NEW m \in Memory, NEW e \in Offset, NEW q \in Offset
  PROVE  [m EXCEPT ![e].prev = q] \in Memory
  BY DEF Memory

Marked(m, p, u) == [m EXCEPT ![p].used = u]

\* A header that is changed in its mark only stays where it was.
LEMMA MarkKeeps ==
  ASSUME NEW m \in Memory, Whole(m), NEW p \in Heads(m), NEW u \in BOOLEAN,
         NEW n, n = Marked(m, p, u)
  PROVE  /\ n \in Memory /\ Whole(n) /\ Heads(n) = Heads(m)
         /\ \A r \in Heads(m) : /\ n[r].next = m[r].next
                                /\ n[r].prev = m[r].prev
                                /\ n[r].used = IF r = p THEN u ELSE m[r].used
<1>1. p \in Offset
  BY HeadFacts
<1>2. n \in Memory
  BY <1>1 DEF Memory, Marked
<1>3. \A r \in Offset : /\ n[r].next = m[r].next
                        /\ n[r].prev = m[r].prev
                        /\ n[r].used = IF r = p THEN u ELSE m[r].used
  BY <1>1 DEF Memory, Marked
<1>4. Heads(n) = Heads(m)
  BY <1>3 DEF Heads
<1>5. \A r \in Heads(m) : r \in Offset
  BY HeadFacts
<1>6. Whole(n)
  <2>1. 0 \in Heads(n) /\ n[0].prev = 0
    BY <1>3, <1>4, <1>5 DEF Whole
  <2>2. ASSUME NEW r \in Heads(n)
        PROVE  /\ n[r].next \in Heads(n) \cup {heapEnd}
               /\ r + Header <= n[r].next
               /\ \A t \in Heads(n) : t <= r \/ n[r].next <= t
               /\ n[r].next # heapEnd => n[n[r].next].prev = r
               /\ r # 0 => n[r].prev \in Heads(n) /\ n[n[r].prev].next = r
    <3>1. /\ r \in Heads(m) /\ n[r].next = m[r].next /\ n[r].prev = m[r].prev
          /\ m[r].next \in Offset /\ m[r].prev \in Offset
      BY <1>3, <1>4, HeadFacts
    <3>2. n[m[r].next].prev = m[m[r].next].prev /\ n[m[r].prev].next = m[m[r].prev].next
      BY <1>3, <3>1
    <3> QED
      BY <1>4, <3>1, <3>2 DEF Whole
  <2> QED
    BY <2>1, <2>2 DEF Whole
<1> QED
  BY <1>2, <1>3, <1>4, <1>5, <1>6

\* A block that has become a part of the one before it is no block any more, and
\* all the others stay as they were.
LEMMA JoinKeeps ==
  ASSUME NEW m \in Memory, Whole(m), NEW p \in Heads(m), NEW q \in Heads(m),
         q = m[p].next, NEW n, n = Join(m, p, q)
  PROVE  /\ n \in Memory /\ Whole(n) /\ Heads(n) = Heads(m) \ {q}
         /\ p # q
         /\ \A r \in Heads(n) : /\ n[r].next = IF r = p THEN m[q].next ELSE m[r].next
                                /\ n[r].used = m[r].used
         /\ n[p].prev = m[p].prev
<1> DEFINE e == m[q].next
<1>1. /\ p \in Nat /\ q \in Nat /\ e \in Nat /\ heapEnd \in Nat /\ p < q /\ q < e /\ e <= heapEnd
      /\ p \in Offset /\ q \in Offset /\ e \in Offset /\ 0 \in Offset /\ q # 0 /\ e # 0
  BY HeadFacts, Sizes
<1>2. e \in Heads(m) \cup {heapEnd}
  BY DEF Whole
<1> DEFINE k == [m EXCEPT ![p].next = e, ![q] = NoHeader]
<1>3. /\ k \in Memory
      /\ k[p] = [m[p] EXCEPT !.next = e] /\ k[q] = NoHeader
      /\ \A r \in Offset \ {p, q} : k[r] = m[r]
  <2>1. NoHeader \in [prev : Offset, next : Offset, used : BOOLEAN]
    BY <1>1 DEF NoHeader, HeaderAt
  <2>2. [m[p] EXCEPT !.next = e] \in [prev : Offset, next : Offset, used : BOOLEAN]
    BY <1>1 DEF Memory
  <2> DEFINE a == [m[p] EXCEPT !.next = e]
             H == [prev : Offset, next : Offset, used : BOOLEAN]
  <2>3. k = [m EXCEPT ![p] = a, ![q] = NoHeader]
    OBVIOUS
  <2>4. a \in H /\ NoHeader \in H /\ m \in [Offset -> H]
    BY <2>1, <2>2 DEF Memory
  <2> HIDE DEF a, H, k, e
  <2>5. /\ k \in [Offset -> H] /\ k[p] = a /\ k[q] = NoHeader
        /\ \A r \in Offset \ {p, q} : k[r] = m[r]
    BY <1>1, <2>3, <2>4
  <2> QED
    BY <2>5 DEF a, H, Memory
<1>4. n = IF e = heapEnd THEN k ELSE [k EXCEPT ![e].prev = p]
  BY DEF Join, Linked
<1> HIDE DEF k, e
<1>5. n \in Memory
  <2>1. [k EXCEPT ![e].prev = p] \in Memory
    BY <1>1, <1>3, PrevType
  <2> QED
    BY <1>3, <1>4, <2>1
<1>6. \A r \in Offset :
        /\ n[r].next = IF r = p THEN e ELSE IF r = q THEN 0 ELSE m[r].next
        /\ n[r].prev = IF r = q THEN 0 ELSE IF r = e /\ e # heapEnd THEN p ELSE m[r].prev
        /\ r # q => n[r].used = m[r].used
  <2> SUFFICES ASSUME NEW r \in Offset
               PROVE  /\ n[r].next = IF r = p THEN e ELSE IF r = q THEN 0 ELSE m[r].next
                      /\ n[r].prev = IF r = q THEN 0 ELSE IF r = e /\ e # heapEnd THEN p ELSE m[r].prev
                      /\ r # q => n[r].used = m[r].used
    OBVIOUS
  <2>1. /\ k[r].next = IF r = p THEN e ELSE IF r = q THEN 0 ELSE m[r].next
        /\ k[r].prev = IF r = q THEN 0 ELSE m[r].prev
        /\ r # q => k[r].used = m[r].used
    BY <1>1, <1>3 DEF NoHeader, HeaderAt, Memory
  <2>2. /\ n[r].next = k[r].next /\ n[r].used = k[r].used
        /\ n[r].prev = IF r = e /\ e # heapEnd THEN p ELSE k[r].prev
    BY <1>1, <1>3, <1>4 DEF Memory
  <2> QED
    BY <1>1, <2>1, <2>2
<1>7. Heads(n) = Heads(m) \ {q}
  <2>1. ASSUME NEW r \in Offset
        PROVE  n[r].next # 0 <=> m[r].next # 0 /\ r # q
    <3>1. m[p].next # 0 /\ p # q
      BY <1>1
    <3> QED
      BY <1>1, <1>6, <3>1
  <2> QED
    BY <1>1, <2>1 DEF Heads
<1>8. Whole(n)
  <2>1. 0 \in Heads(n) /\ n[0].prev = 0
    BY <1>1, <1>6, <1>7 DEF Whole
  <2> SUFFICES ASSUME NEW r \in Heads(n)
               PROVE  /\ n[r].next \in Heads(n) \cup {heapEnd}
                      /\ r + Header <= n[r].next
                      /\ \A t \in Heads(n) : t <= r \/ n[r].next <= t
                      /\ n[r].next # heapEnd => n[n[r].next].prev = r
                      /\ r # 0 => n[r].prev \in Heads(n) /\ n[n[r].prev].next = r
    BY <2>1 DEF Whole
  <2>2. /\ r \in Heads(m) /\ r # q /\ r \in Offset /\ r \in Nat
        /\ m[r].next \in Heads(m) \cup {heapEnd} /\ m[r].next \in Nat /\ m[r].next \in Offset
        /\ r + Header <= m[r].next
        /\ \A t \in Heads(m) : t <= r \/ m[r].next <= t
        /\ m[r].next # heapEnd => m[m[r].next].prev = r
        /\ r # 0 => m[r].prev \in Heads(m) /\ m[m[r].prev].next = r
        /\ m[q].prev = p
    BY <1>1, <1>7, HeadFacts DEF Whole
  <2>3. CASE r = p
    <3>1. n[r].next = e
      BY <1>1, <1>6, <2>3
    <3>2. e \in Heads(n) \cup {heapEnd}
      BY <1>1, <1>2, <1>7
    <3>3. r + Header <= e
      BY <1>1, <2>2, <2>3, Sizes
    <3>4. ASSUME NEW t \in Heads(n) PROVE t <= r \/ e <= t
      <4>1. t \in Heads(m) /\ t # q /\ t \in Nat
        BY <1>7, HeadFacts
      <4>2. t <= q \/ e <= t
        BY <4>1 DEF Whole, e
      <4>3. t <= p \/ q <= t
        BY <2>2, <2>3, <4>1
      <4> QED
        BY <1>1, <2>3, <4>1, <4>2, <4>3
    <3>5. e # heapEnd => n[e].prev = p
      BY <1>1, <1>6
    <3>6. ASSUME r # 0
          PROVE  n[r].prev \in Heads(n) /\ n[n[r].prev].next = r
      <4>1. n[r].prev = m[r].prev
        BY <1>1, <1>6, <2>2, <2>3
      <4>2. m[r].prev \in Heads(m) /\ m[m[r].prev].next = r /\ m[r].prev \in Offset
        BY <2>2, <3>6, HeadFacts
      <4>3. m[r].prev # p /\ m[r].prev # q
        BY <1>1, <2>3, <4>2 DEF e
      <4> QED
        BY <1>6, <1>7, <4>1, <4>2, <4>3
    <3> QED
      BY <2>3, <3>1, <3>2, <3>3, <3>4, <3>5, <3>6
  <2>4. CASE r # p
    <3>1. n[r].next = m[r].next
      BY <1>6, <2>2, <2>4
    <3>2. m[r].next # q
      BY <2>2, <2>4, <1>1
    <3>3. m[r].next \in Heads(n) \cup {heapEnd}
      BY <1>7, <2>2, <3>2
    <3>4. \A t \in Heads(n) : t <= r \/ m[r].next <= t
      BY <1>7, <2>2
    <3>5. ASSUME m[r].next # heapEnd
          PROVE  n[m[r].next].prev = r
      <4>1. m[r].next # e
        <5>1. e # heapEnd => m[e].prev = q
          BY DEF Whole, e
        <5> QED
          BY <2>2, <3>5, <5>1
      <4> QED
        BY <1>6, <2>2, <3>2, <3>5, <4>1
    <3>6. ASSUME r # 0
          PROVE  n[r].prev \in Heads(n) /\ n[n[r].prev].next = r
      <4>1. m[r].prev \in Heads(m) /\ m[m[r].prev].next = r /\ m[r].prev \in Offset
        BY <2>2, <3>6, HeadFacts
      <4>2. CASE r = e
        <5>1. n[r].prev = p
          BY <1>1, <1>6, <2>2, <4>2, HeadFacts
        <5> QED
          BY <1>1, <1>6, <1>7, <4>2, <5>1
      <4>3. CASE r # e
        <5>1. n[r].prev = m[r].prev
          BY <1>6, <2>2, <4>3
        <5>2. m[r].prev # p /\ m[r].prev # q
          BY <2>2, <4>1, <4>3 DEF e
        <5> QED
          BY <1>6, <1>7, <4>1, <5>1, <5>2
      <4> QED
        BY <4>2, <4>3
    <3> QED
      BY <2>2, <3>1, <3>3, <3>4, <3>5, <3>6
  <2> QED
    BY <2>3, <2>4
<1>9. n[p].prev = m[p].prev
  BY <1>1, <1>6
<1>10. \A r \in Heads(n) : r \in Offset /\ r # q
  BY <1>7, HeadFacts
<1> QED
  BY <1>1, <1>5, <1>6, <1>7, <1>8, <1>9, <1>10 DEF e

\* A block that is split leaves a free one behind it.
LEMMA SplitKeeps ==
  ASSUME mem \in Memory, Whole(mem), NEW p \in Heads(mem), NEW size \in Nat, size > 0,
         IsSplit(p, size), NEW q, q = p + Header + size, NEW n, n = Split(p, size)
  PROVE  /\ n \in Memory /\ Whole(n) /\ Heads(n) = Heads(mem) \cup {q}
         /\ q \notin Heads(mem) /\ q \in Nat /\ p < q /\ q < mem[p].next
         /\ n[p].next = q /\ n[p].used
         /\ n[q].next = mem[p].next /\ ~n[q].used
         /\ \A r \in Heads(mem) \ {p} : n[r].next = mem[r].next /\ n[r].used = mem[r].used
<1> DEFINE e == mem[p].next
<1>1. /\ p \in Nat /\ e \in Nat /\ heapEnd \in Nat /\ p < e /\ e <= heapEnd
      /\ p \in Offset /\ e \in Offset /\ 0 \in Offset /\ e # 0 /\ mem[p].prev \in Offset
      /\ e \in Heads(mem) \cup {heapEnd}
      /\ \A r \in Heads(mem) : r <= p \/ e <= r
      /\ Offset = 0..heapEnd
  BY HeadFacts, Sizes DEF Whole
<1>2. /\ q \in Nat /\ p < q /\ p + Header <= q /\ q + Header <= e /\ q < e
  BY <1>1, Sizes DEF IsSplit, Room
<1>3. q \in Offset /\ q # heapEnd /\ q # 0 /\ q # p /\ q # e /\ p # e
  BY <1>1, <1>2
<1>4. q \notin Heads(mem)
  BY <1>1, <1>2, <1>3
<1> DEFINE a == HeaderAt(mem[p].prev, q, TRUE)
           b == HeaderAt(p, e, FALSE)
           k == [mem EXCEPT ![p] = a, ![q] = b]
<1>5. /\ a \in [prev : Offset, next : Offset, used : BOOLEAN]
      /\ b \in [prev : Offset, next : Offset, used : BOOLEAN]
      /\ a.prev = mem[p].prev /\ a.next = q /\ a.used = TRUE
      /\ b.prev = p /\ b.next = e /\ b.used = FALSE
  BY <1>1, <1>3 DEF HeaderAt
<1>6. n = IF e = heapEnd THEN k ELSE [k EXCEPT ![e].prev = q]
  BY DEF Split, Linked
<1> HIDE DEF a, b
<1>7. /\ k \in Memory /\ k[p] = a /\ k[q] = b
      /\ \A r \in Offset \ {p, q} : k[r] = mem[r]
  BY <1>1, <1>3, <1>5 DEF Memory
<1> HIDE DEF k, e
<1>8. n \in Memory
  <2>1. [k EXCEPT ![e].prev = q] \in Memory
    BY <1>1, <1>3, <1>7, PrevType
  <2> QED
    BY <1>6, <1>7, <2>1
<1>9. \A r \in Offset :
        /\ n[r].next = IF r = p THEN q ELSE IF r = q THEN e ELSE mem[r].next
        /\ n[r].prev = IF r = q THEN p ELSE IF r = e /\ e # heapEnd THEN q ELSE mem[r].prev
        /\ n[r].used = IF r = p THEN TRUE ELSE IF r = q THEN FALSE ELSE mem[r].used
  <2> SUFFICES ASSUME NEW r \in Offset
               PROVE  /\ n[r].next = IF r = p THEN q ELSE IF r = q THEN e ELSE mem[r].next
                      /\ n[r].prev = IF r = q THEN p ELSE IF r = e /\ e # heapEnd THEN q ELSE mem[r].prev
                      /\ n[r].used = IF r = p THEN TRUE ELSE IF r = q THEN FALSE ELSE mem[r].used
    OBVIOUS
  <2>1. /\ k[r].next = IF r = p THEN q ELSE IF r = q THEN e ELSE mem[r].next
        /\ k[r].prev = IF r = q THEN p ELSE mem[r].prev
        /\ k[r].used = IF r = p THEN TRUE ELSE IF r = q THEN FALSE ELSE mem[r].used
    BY <1>3, <1>5, <1>7
  <2>2. /\ n[r].next = k[r].next /\ n[r].used = k[r].used
        /\ n[r].prev = IF r = e /\ e # heapEnd THEN q ELSE k[r].prev
    BY <1>1, <1>6, <1>7 DEF Memory
  <2> QED
    BY <1>3, <2>1, <2>2
<1>10. Heads(n) = Heads(mem) \cup {q}
  <2>1. ASSUME NEW r \in Offset
        PROVE  n[r].next # 0 <=> mem[r].next # 0 \/ r = q
    <3>1. mem[p].next # 0
      BY <1>1 DEF e
    <3> QED
      BY <1>1, <1>3, <1>9, <3>1
  <2> QED
    BY <1>1, <1>3, <2>1 DEF Heads
<1>11. Whole(n)
  <2>1. 0 \in Heads(n) /\ n[0].prev = 0
    <3>1. 0 \in Heads(mem) /\ mem[0].prev = 0
      BY DEF Whole
    <3> QED
      BY <1>1, <1>3, <1>9, <1>10, <3>1
  <2> SUFFICES ASSUME NEW r \in Heads(n)
               PROVE  /\ n[r].next \in Heads(n) \cup {heapEnd}
                      /\ r + Header <= n[r].next
                      /\ \A t \in Heads(n) : t <= r \/ n[r].next <= t
                      /\ n[r].next # heapEnd => n[n[r].next].prev = r
                      /\ r # 0 => n[r].prev \in Heads(n) /\ n[n[r].prev].next = r
    BY <2>1 DEF Whole
  <2>2. CASE r = q
    <3>1. n[r].next = e /\ n[r].prev = p /\ n[p].next = q
      BY <1>1, <1>3, <1>9, <2>2
    <3>2. e # heapEnd => n[e].prev = r
      BY <1>1, <1>3, <1>9, <2>2
    <3>3. ASSUME NEW t \in Heads(n) PROVE t <= r \/ e <= t
      <4>1. t = q \/ t <= p \/ e <= t
        BY <1>1, <1>10
      <4>2. t \in Nat
        BY <1>2, <1>10, HeadFacts
      <4> QED
        BY <1>1, <1>2, <2>2, <4>1, <4>2
    <3> QED
      BY <1>1, <1>2, <1>10, <2>2, <3>1, <3>2, <3>3
  <2>3. CASE r # q
    <3>1. /\ r \in Heads(mem) /\ r \in Offset /\ r \in Nat
          /\ mem[r].next \in Heads(mem) \cup {heapEnd} /\ mem[r].next \in Nat /\ mem[r].next \in Offset
          /\ r + Header <= mem[r].next /\ r < mem[r].next
          /\ \A t \in Heads(mem) : t <= r \/ mem[r].next <= t
          /\ mem[r].next # heapEnd => mem[mem[r].next].prev = r
          /\ r # 0 => mem[r].prev \in Heads(mem) /\ mem[mem[r].prev].next = r
      BY <1>10, <2>3, HeadFacts DEF Whole
    <3>2. ASSUME r # 0
          PROVE  n[r].prev \in Heads(n) /\ n[n[r].prev].next = r
      <4>1. mem[r].prev \in Heads(mem) /\ mem[mem[r].prev].next = r /\ mem[r].prev \in Offset
        BY <3>1, <3>2, HeadFacts
      <4>2. CASE r = e
        <5>1. n[r].prev = q
          <6>1. r # heapEnd
            BY <3>1, HeadFacts
          <6> QED
            BY <1>9, <2>3, <3>1, <4>2, <6>1
        <5> QED
          BY <1>3, <1>9, <1>10, <4>2, <5>1
      <4>3. CASE r # e
        <5>1. n[r].prev = mem[r].prev
          BY <1>9, <2>3, <3>1, <4>3
        <5>2. mem[r].prev # p /\ mem[r].prev # q
          BY <1>4, <4>1, <4>3 DEF e
        <5> QED
          BY <1>9, <1>10, <4>1, <5>1, <5>2
      <4> QED
        BY <4>2, <4>3
    <3>3. CASE r = p
      <4>1. n[r].next = q /\ n[q].prev = r
        BY <1>1, <1>3, <1>9, <3>3
      <4>2. ASSUME NEW t \in Heads(n) PROVE t <= r \/ q <= t
        <5>1. t = q \/ t <= p \/ e <= t
          BY <1>1, <1>10
        <5>2. t \in Nat
          BY <1>2, <1>10, HeadFacts
        <5> QED
          BY <1>1, <1>2, <3>3, <5>1, <5>2
      <4> QED
        BY <1>2, <1>10, <3>2, <3>3, <4>1, <4>2
    <3>4. CASE r # p
      <4>1. n[r].next = mem[r].next
        BY <1>9, <2>3, <3>1, <3>4
      <4>2. mem[r].next # q
        BY <1>3, <1>4, <3>1
      <4>3. ASSUME NEW t \in Heads(n) PROVE t <= r \/ mem[r].next <= t
        <5>1. CASE t = q
          <6>1. p <= r \/ mem[r].next <= p
            BY <3>1
          <6>2. r <= p \/ e <= r
            BY <1>1, <3>1
          <6> QED
            BY <1>1, <1>2, <3>1, <3>4, <5>1, <6>1, <6>2
        <5>2. CASE t # q
          BY <1>10, <3>1, <5>2
        <5> QED
          BY <5>1, <5>2
      <4>4. ASSUME mem[r].next # heapEnd
            PROVE  n[mem[r].next].prev = r
        <5>1. mem[r].next # e
          <6>1. e # heapEnd => mem[e].prev = p
            BY DEF Whole, e
          <6> QED
            BY <3>1, <3>4, <4>4, <6>1
        <5> QED
          BY <1>9, <3>1, <4>2, <4>4, <5>1
      <4> QED
        BY <1>10, <3>1, <3>2, <4>1, <4>3, <4>4
    <3> QED
      BY <3>3, <3>4
  <2> QED
    BY <2>2, <2>3
<1>12. \A r \in Heads(mem) \ {p} : r \in Offset /\ r # q
  BY <1>4, HeadFacts
<1> QED
  BY <1>1, <1>2, <1>3, <1>4, <1>8, <1>9, <1>10, <1>11, <1>12 DEF e
-----------------------------------------------------------------------------
(***************************************************************************)
(* The account of what is in use.                                          *)
(***************************************************************************)
LEMMA InUseFinite ==
  ASSUME NEW m \in Memory, Whole(m)
  PROVE  IsFiniteSet(InUse(m)) /\ Cardinality(InUse(m)) \in 0..heapEnd
<1>1. heapEnd \in Nat
  BY Sizes
<1>2. InUse(m) \subseteq 0..heapEnd - 1
  <2> SUFFICES ASSUME NEW p \in Heads(m), NEW x \in Units(p, m[p].next)
               PROVE  x \in 0..heapEnd - 1
    BY DEF InUse
  <2>1. p \in Nat /\ m[p].next \in Nat /\ m[p].next <= heapEnd
    BY HeadFacts
  <2> QED
    BY <1>1, <2>1 DEF Units
<1>3. IsFiniteSet(0..heapEnd - 1) /\ Cardinality(0..heapEnd - 1) = heapEnd
  BY <1>1, FS_Interval
<1>4. IsFiniteSet(InUse(m)) /\ Cardinality(InUse(m)) <= heapEnd
  BY <1>2, <1>3, FS_Subset
<1>5. Cardinality(InUse(m)) \in Nat
  BY <1>4, FS_CardinalityType
<1> QED
  BY <1>1, <1>4, <1>5

\* Blocks do not overlap.
LEMMA UnitsApart ==
  ASSUME NEW m \in Memory, Whole(m), NEW p \in Heads(m), NEW q \in Heads(m), p # q
  PROVE  Units(p, m[p].next) \cap Units(q, m[q].next) = {}
<1>1. /\ p \in Nat /\ q \in Nat /\ m[p].next \in Nat /\ m[q].next \in Nat
      /\ q <= p \/ m[p].next <= q
      /\ p <= q \/ m[q].next <= p
  BY HeadFacts DEF Whole
<1> QED
  BY <1>1 DEF Units

\* A block that comes into use, or goes out of it, makes a difference of its extent.
LEMMA InUseDiffers ==
  ASSUME NEW m \in Memory, Whole(m), NEW p \in Heads(m), ~m[p].used,
         NEW n \in Memory, Whole(n), p \in Heads(n), n[p].used, n[p].next <= m[p].next,
         \A r \in Heads(m) \ {p} :
           r \in Heads(n) /\ n[r].next = m[r].next /\ n[r].used = m[r].used,
         \A r \in Heads(n) \ Heads(m) : ~n[r].used
  PROVE  Cardinality(InUse(n)) = Cardinality(InUse(m)) + Extent(n, p)
<1> DEFINE U == Units(p, n[p].next)
<1>1. InUse(n) = InUse(m) \cup U
  <2>1. ASSUME NEW r \in Heads(n), n[r].used, r # p
        PROVE  r \in Heads(m) /\ m[r].used /\ m[r].next = n[r].next
    BY <2>1
  <2>2. ASSUME NEW r \in Heads(m), m[r].used
        PROVE  r \in Heads(n) /\ n[r].used /\ m[r].next = n[r].next
    BY <2>2
  <2>3. InUse(n) \subseteq InUse(m) \cup U
    BY <2>1 DEF InUse
  <2>4. InUse(m) \subseteq InUse(n)
    BY <2>2 DEF InUse
  <2>5. U \subseteq InUse(n)
    BY DEF InUse
  <2> QED
    BY <2>3, <2>4, <2>5
<1>2. InUse(m) \cap U = {}
  <2> SUFFICES ASSUME NEW r \in Heads(m), m[r].used, NEW x \in Units(r, m[r].next), x \in U
               PROVE  FALSE
    BY DEF InUse
  <2>1. Units(p, m[p].next) \cap Units(r, m[r].next) = {}
    BY UnitsApart
  <2>2. x \in Units(p, m[p].next)
    <3>1. p \in Nat /\ n[p].next \in Nat /\ m[p].next \in Nat
      BY HeadFacts
    <3> QED
      BY <3>1 DEF Units
  <2> QED
    BY <2>1, <2>2
<1>3. IsFiniteSet(U) /\ Cardinality(U) = Extent(n, p)
  <2>1. p \in Nat /\ n[p].next \in Nat /\ p < n[p].next
    BY HeadFacts
  <2> DEFINE e == n[p].next
  <2>2. p \in Int /\ e - 1 \in Int /\ ~(p > e - 1) /\ (e - 1) - p + 1 = e - p
    BY <2>1
  <2> HIDE DEF e
  <2>3. IsFiniteSet(p..(e - 1)) /\ Cardinality(p..(e - 1)) = (e - 1) - p + 1
    BY <2>2, FS_Interval
  <2> QED
    BY <2>2, <2>3 DEF Units, Extent, e
<1>4. IsFiniteSet(InUse(m)) /\ Cardinality(InUse(m)) \in Nat
  BY InUseFinite
<1>5. Extent(n, p) \in Nat
  BY <1>3, FS_CardinalityType
<1>6. Cardinality({}) = 0
  BY FS_EmptySet
<1> HIDE DEF U
<1>7. Cardinality(InUse(m) \cup U)
        = Cardinality(InUse(m)) + Cardinality(U) - Cardinality(InUse(m) \cap U)
  BY <1>3, <1>4, FS_Union
<1>8. Cardinality(InUse(n)) = Cardinality(InUse(m)) + Extent(n, p) - 0
  BY <1>1, <1>2, <1>3, <1>6, <1>7, Zenon
<1> DEFINE a == Cardinality(InUse(m))
           b == Extent(n, p)
<1>9. a \in Int /\ b \in Int
  BY <1>4, <1>5
<1> HIDE DEF a, b
<1>10. a + b - 0 = a + b
  BY <1>9
<1> QED
  BY <1>8, <1>10 DEF a, b
-----------------------------------------------------------------------------
(***************************************************************************)
(* memAlloc.                                                               *)
(***************************************************************************)
LEMMA WantedIs ==
  ASSUME NEW n \in Request
  PROVE  Wanted(n) \in Nat /\ n \in Nat /\ n <= Wanted(n) /\ MinSize <= Wanted(n) /\ 0 < Wanted(n)
<1>1. n \in Nat /\ MinSize \in Nat /\ 0 < MinSize
  BY Sizes
<1>2. Max({n, MinSize}) = IF n <= MinSize THEN MinSize ELSE n
  BY <1>1 DEF Max
<1> QED
  BY <1>1, <1>2 DEF Wanted

\* Where the scan can stop, and that it stops wherever it should.
LEMMA CandidatesAre ==
  ASSUME mem \in Memory, Whole(mem), IsLowest(mem, heapFree), NEW size \in Nat
  PROVE  \A p : p \in Candidates(size) <=>
                  p \in Heads(mem) /\ ~mem[p].used /\ Room(mem, p) >= size
<1>1. Blocks(mem, heapFree) = {q \in Heads(mem) : heapFree <= q}
  BY BlocksAre DEF IsLowest
<1>2. ASSUME NEW p \in Heads(mem), Room(mem, p) >= size
      PROVE  p <= Size - size
  <2>1. p \in Nat /\ mem[p].next \in Nat /\ mem[p].next <= heapEnd
    BY HeadFacts
  <2> QED
    BY <1>2, <2>1, Sizes DEF Room
<1> QED
  BY <1>1, <1>2 DEF Candidates, IsLowest

TakenList(p, size) == IF IsSplit(p, size) THEN Split(p, size) ELSE [mem EXCEPT ![p].used = TRUE]

\* What memAlloc does to the list when it takes the block p.
LEMMA TakenKeeps ==
  ASSUME mem \in Memory, Whole(mem), NEW p \in Heads(mem), NEW size \in Nat, size > 0,
         Room(mem, p) >= size,
         NEW m, m = TakenList(p, size)
  PROVE  /\ m \in Memory /\ Whole(m) /\ Heads(mem) \subseteq Heads(m) /\ m[p].used
         /\ p + Header + size <= m[p].next /\ m[p].next <= mem[p].next
         /\ \A r \in Heads(mem) \ {p} : m[r].next = mem[r].next /\ m[r].used = mem[r].used
         /\ \A r \in Heads(m) \ Heads(mem) :
              ~m[r].used /\ p < r /\ m[r].next = mem[p].next /\ m[p].next = r
         /\ Heads(m) = Heads(mem) => m[p].next = mem[p].next
<1>1. p \in Nat /\ mem[p].next \in Nat /\ Header \in Nat
  BY HeadFacts, Sizes
<1>2. CASE IsSplit(p, size)
  <2> DEFINE q == p + Header + size
  <2>1. q \in Nat /\ q = p + Header + size
    BY <1>1
  <2>2. m = Split(p, size)
    BY <1>2 DEF TakenList
  <2> HIDE DEF q
  <2>3. /\ m \in Memory /\ Whole(m) /\ Heads(m) = Heads(mem) \cup {q}
        /\ q \notin Heads(mem) /\ q \in Nat /\ p < q /\ q < mem[p].next
        /\ m[p].next = q /\ m[p].used
        /\ m[q].next = mem[p].next /\ ~m[q].used
        /\ \A r \in Heads(mem) \ {p} : m[r].next = mem[r].next /\ m[r].used = mem[r].used
    BY <1>2, <2>1, <2>2, SplitKeeps
  <2> QED
    BY <1>1, <2>1, <2>3
<1>3. CASE ~IsSplit(p, size)
  <2>1. m = Marked(mem, p, TRUE)
    BY <1>3 DEF TakenList, Marked
  <2>2. /\ m \in Memory /\ Whole(m) /\ Heads(m) = Heads(mem)
        /\ \A r \in Heads(mem) : /\ m[r].next = mem[r].next
                                 /\ m[r].used = IF r = p THEN TRUE ELSE mem[r].used
    <3> DEFINE u == TRUE
    <3>1. u \in BOOLEAN /\ m = Marked(mem, p, u)
      BY <2>1
    <3> HIDE DEF u
    <3>2. /\ m \in Memory /\ Whole(m) /\ Heads(m) = Heads(mem)
          /\ \A r \in Heads(mem) : /\ m[r].next = mem[r].next
                                   /\ m[r].used = IF r = p THEN u ELSE mem[r].used
      BY <3>1, MarkKeeps
    <3> QED
      BY <3>2 DEF u
  <2>3. p + Header + size <= mem[p].next
    BY <1>1 DEF Room
  <2>4. m[p].used /\ m[p].next = mem[p].next
    BY <2>2
  <2>5. m[p].next <= mem[p].next
    BY <1>1, <2>4
  <2>6. \A r \in Heads(mem) \ {p} : m[r].next = mem[r].next /\ m[r].used = mem[r].used
    BY <2>2
  <2> QED
    BY <2>2, <2>3, <2>4, <2>5, <2>6
<1> QED
  BY <1>2, <1>3

LEMMA AllocIInv ==
  ASSUME IInv, NEW n \in Request, memAlloc(n)
  PROVE  IInv'
<1> DEFINE size == Wanted(n)
           p == Min(Candidates(size))
           m == TakenList(p, size)
           free == IF p = heapFree THEN NextFree(m, p) ELSE heapFree
           b == [at |-> p + Header, size |-> n]
<1>1. /\ mem \in Memory /\ Whole(mem) /\ Plugged(mem) /\ Owned(mem, live)
      /\ IsLowest(mem, heapFree) /\ used = Cardinality(InUse(mem))
  BY DEF IInv, TypeOK, Memory
<1>2. size \in Nat /\ size > 0 /\ n <= size /\ n \in Nat
  BY WantedIs
<1>3. p \in Heads(mem) /\ ~mem[p].used /\ Room(mem, p) >= size
  <2>1. Candidates(size) # {}
    BY DEF memAlloc
  <2>2. \A q : q \in Candidates(size) => q \in Heads(mem) /\ ~mem[q].used /\ Room(mem, q) >= size
    BY <1>1, <1>2, CandidatesAre
  <2>3. Candidates(size) \in SUBSET Nat
    BY <1>1, <2>2, HeadFacts
  <2> HIDE DEF size
  <2>4. p \in Candidates(size)
    BY <2>1, <2>3, MinIs
  <2> QED
    BY <2>2, <2>4
<1>4. /\ asked' = n /\ mem' = m /\ heapFree' = free /\ used' = used + Taken(m, p)
      /\ live' = live \cup {b} /\ Running
      /\ abort' = IF (free = heapEnd \/ ~m[free].used) /\ p + Header + size <= heapEnd
                    THEN abort ELSE "assertion"
  BY DEF memAlloc, Take, TakenList
<1>5. m = TakenList(p, size)
  OBVIOUS
<1> HIDE DEF p, size, m
<1>6. /\ m \in Memory /\ Whole(m) /\ Heads(mem) \subseteq Heads(m) /\ m[p].used
      /\ p + Header + size <= m[p].next /\ m[p].next <= mem[p].next
      /\ \A r \in Heads(mem) \ {p} : m[r].next = mem[r].next /\ m[r].used = mem[r].used
      /\ \A r \in Heads(m) \ Heads(mem) :
           ~m[r].used /\ p < r /\ m[r].next = mem[p].next /\ m[p].next = r
      /\ Heads(m) = Heads(mem) => m[p].next = mem[p].next
  BY <1>1, <1>2, <1>3, <1>5, TakenKeeps
<1>7. /\ p \in Heads(m) /\ p \in Nat /\ m[p].next \in Nat /\ m[p].next <= heapEnd
      /\ Header \in Nat /\ Header > 0 /\ heapEnd \in Nat /\ Offset = 0..heapEnd
  BY <1>3, <1>6, HeadFacts, Sizes
<1>8. IsLowest(m, free)
  <2>1. CASE p = heapFree
    <3>1. free = Min({q \in Blocks(m, p) : ~m[q].used} \cup {heapEnd})
      BY <2>1 DEF NextFree
    <3>2. /\ free \in Heads(m) \cup {heapEnd}
          /\ free # heapEnd => ~m[free].used
          /\ \A q \in Heads(m) : p <= q /\ ~m[q].used => free <= q
      BY <1>6, <1>7, <3>1, LowestIs
    <3>3. ASSUME NEW q \in Heads(m), ~m[q].used PROVE p <= q
      <4>1. CASE q \in Heads(mem)
        BY <1>1, <1>6, <2>1, <3>3, <4>1 DEF IsLowest
      <4>2. CASE q \notin Heads(mem)
        <5>1. p < q /\ q \in Nat
          BY <1>6, <4>2, HeadFacts
        <5> QED
          BY <1>7, <5>1
      <4> QED
        BY <4>1, <4>2
    <3> QED
      BY <3>2, <3>3 DEF IsLowest
  <2>2. CASE p # heapFree
    <3>1. free = heapFree
      BY <2>2
    <3>2. heapFree <= p /\ heapFree \in Heads(mem) \cup {heapEnd}
      BY <1>1, <1>3 DEF IsLowest
    <3>3. heapFree \in Heads(mem) /\ heapFree \in Nat
      <4>1. p < heapEnd
        BY <1>6, <1>7, HeadFacts
      <4>2. heapFree # heapEnd
        BY <1>7, <3>2, <4>1
      <4> QED
        BY <1>1, <3>2, <4>2, HeadFacts
    <3>4. ~mem[heapFree].used
      BY <1>1, <1>7, <3>3, HeadFacts DEF IsLowest
    <3>5. ASSUME NEW q \in Heads(m), ~m[q].used PROVE heapFree <= q
      <4>1. CASE q \in Heads(mem)
        BY <1>1, <1>6, <3>5, <4>1 DEF IsLowest
      <4>2. CASE q \notin Heads(mem)
        <5>1. p < q /\ q \in Nat
          BY <1>6, <4>2, HeadFacts
        <5> QED
          BY <1>7, <3>2, <3>3, <5>1
      <4> QED
        BY <4>1, <4>2
    <3> QED
      BY <1>6, <2>2, <3>1, <3>3, <3>4, <3>5 DEF IsLowest
  <2> QED
    BY <2>1, <2>2
<1>9. abort' = "none"
  <2>1. p + Header + size <= heapEnd
    BY <1>2, <1>6, <1>7
  <2>2. free = heapEnd \/ ~m[free].used
    BY <1>8 DEF IsLowest
  <2> QED
    BY <1>4, <2>1, <2>2 DEF Running
<1>10. used' = Cardinality(InUse(m))
  <2>1. Cardinality(InUse(m)) = Cardinality(InUse(mem)) + Extent(m, p)
    BY <1>1, <1>3, <1>6, <1>7, InUseDiffers
  <2> QED
    BY <1>1, <1>4, <2>1 DEF Taken
<1>11. TypeOK'
  <2>1. mem' \in [Offset -> [prev : Offset, next : Offset, used : BOOLEAN]]
    BY <1>4, <1>6 DEF Memory
  <2>2. used' \in 0..heapEnd
    BY <1>6, <1>10, InUseFinite
  <2>3. b \in [at : Offset, size : Request]
    BY <1>2, <1>6, <1>7
  <2>4. heapFree' \in Offset
    BY <1>4, <1>7, <1>8 DEF IsLowest, Heads
  <2> QED
    BY <1>4, <1>9, <2>1, <2>2, <2>3, <2>4 DEF IInv, TypeOK, AbortReason
<1>12. Plugged(m)
  <2> SUFFICES ASSUME NEW r \in Heads(m), m[r].next # heapEnd
               PROVE  m[r].used \/ m[m[r].next].used
    BY DEF Plugged
  <2>1. CASE r = p
    BY <1>6, <2>1
  <2>2. CASE r \notin Heads(mem)
    <3>1. m[r].next = mem[p].next /\ mem[p].next # heapEnd
      BY <1>6, <2>2
    <3>2. mem[p].next \in Heads(mem) /\ mem[mem[p].next].used /\ mem[p].next # p
      BY <1>1, <1>3, <3>1, HeadFacts DEF Whole, Plugged
    <3> QED
      BY <1>6, <3>1, <3>2
  <2>3. CASE r \in Heads(mem) /\ r # p
    <3>1. m[r].next = mem[r].next /\ m[r].used = mem[r].used
      BY <1>6, <2>3
    <3>2. mem[r].next \in Heads(mem) /\ (mem[r].used \/ mem[mem[r].next].used)
      BY <1>1, <2>3, <3>1 DEF Whole, Plugged
    <3> QED
      BY <1>6, <3>1, <3>2
  <2> QED
    BY <2>1, <2>2, <2>3
<1>13. Owned(m, live \cup {b})
  <2>1. b.at = p + Header /\ b.size = n /\ b.at - Header = p
    BY <1>7
  <2>2. \A c \in live : c.at \in Nat
    BY <1>7 DEF IInv, TypeOK
  <2>3. \A c \in live : c.at # b.at /\ c.at - Header # p
    BY <1>1, <1>3, <1>7, <2>1, <2>2 DEF Owned
  <2> HIDE DEF b
  <2>4. ASSUME NEW c \in live \cup {b}
        PROVE  /\ c.at - Header \in Heads(m) /\ m[c.at - Header].used
               /\ c.at + c.size <= m[c.at - Header].next
    <3>1. CASE c = b
      BY <1>2, <1>6, <1>7, <2>1, <3>1
    <3>2. CASE c \in live
      <4>1. /\ c.at - Header \in Heads(mem) /\ mem[c.at - Header].used
            /\ c.at + c.size <= mem[c.at - Header].next
        BY <1>1, <3>2 DEF Owned
      <4> QED
        BY <1>6, <2>3, <3>2, <4>1
    <3> QED
      BY <3>1, <3>2
  <2>5. \A c, d \in live \cup {b} : c.at = d.at => c = d
    BY <1>1, <2>3 DEF Owned
  <2>6. ASSUME NEW q \in Heads(m), m[q].used
        PROVE  \E c \in live \cup {b} : c.at = q + Header
    <3>1. q = p \/ (q \in Heads(mem) /\ mem[q].used)
      BY <1>6, <2>6
    <3> QED
      BY <1>1, <2>1, <3>1 DEF Owned
  <2> QED
    BY <2>4, <2>5, <2>6 DEF Owned
<1>14. StoppedInv'
  BY <1>9 DEF StoppedInv
<1> QED
  BY <1>4, <1>6, <1>8, <1>10, <1>11, <1>12, <1>13, <1>14 DEF IInv

\* When the scan finds nothing, no block would do, heapFree or no heapFree.
LEMMA OutOfMemoryIInv ==
  ASSUME IInv, NEW n \in Request, OutOfMemory(n)
  PROVE  IInv'
<1>1. /\ mem \in Memory /\ Whole(mem) /\ IsLowest(mem, heapFree)
      /\ asked' = n /\ abort' = "poolEmpty" /\ UNCHANGED <<mem, heapFree, used, live>>
  BY DEF IInv, TypeOK, Memory, OutOfMemory
<1> DEFINE size == Wanted(n)
<1>2. size \in Nat /\ (size > Size \/ Candidates(size) = {})
  BY WantedIs DEF OutOfMemory
<1> HIDE DEF size
<1>3. ASSUME NEW p \in Heads(mem), ~mem[p].used
      PROVE  Room(mem, p) < size
  <2>1. p \in Nat /\ mem[p].next \in Nat /\ mem[p].next <= heapEnd
    BY <1>1, HeadFacts
  <2>2. Room(mem, p) \in Int /\ Room(mem, p) <= Size
    BY <2>1, Sizes DEF Room
  <2>3. CASE size > Size
    BY <1>2, <2>2, <2>3, Sizes
  <2>4. CASE Candidates(size) = {}
    <3>1. ~(Room(mem, p) >= size)
      BY <1>1, <1>2, <1>3, <2>4, CandidatesAre
    <3> QED
      BY <1>2, <2>2, <3>1
  <2> QED
    BY <1>2, <2>3, <2>4
<1>4. StoppedInv'
  <2>1. Wanted(asked') = size
    BY <1>1 DEF size
  <2>2. \A p \in Heads(mem) : mem[p].used \/ Room(mem, p) < Wanted(asked')
    BY <1>3, <2>1
  <2> QED
    BY <1>1, <2>2 DEF StoppedInv, Room
<1>5. TypeOK'
  BY <1>1 DEF IInv, TypeOK, AbortReason
<1> QED
  BY <1>1, <1>4, <1>5 DEF IInv
-----------------------------------------------------------------------------
(***************************************************************************)
(* memFree and memPlugHoles.                                               *)
(***************************************************************************)
\* Two free blocks that are joined: nobody's block is touched, nothing more and
\* nothing less is in use, and the lowest free block is where it was.
LEMMA JoinFree ==
  ASSUME NEW m \in Memory, Whole(m), NEW p \in Heads(m), NEW q \in Heads(m),
         q = m[p].next, ~m[p].used, ~m[q].used, NEW n, n = Join(m, p, q)
  PROVE  /\ InUse(n) = InUse(m)
         /\ \A L : Owned(m, L) => Owned(n, L)
         /\ \A l : IsLowest(m, l) => l # q /\ IsLowest(n, l)
<1>1. /\ n \in Memory /\ Whole(n) /\ Heads(n) = Heads(m) \ {q} /\ p # q
      /\ \A r \in Heads(n) : /\ n[r].next = IF r = p THEN m[q].next ELSE m[r].next
                             /\ n[r].used = m[r].used
  BY JoinKeeps
<1>2. \A r : r \in Heads(n) /\ n[r].used <=> r \in Heads(m) /\ m[r].used
  BY <1>1
<1>3. \A r \in Heads(m) : m[r].used => n[r].next = m[r].next
  BY <1>1
<1>4. InUse(n) = InUse(m)
  BY <1>2, <1>3 DEF InUse
<1>5. ASSUME NEW L, Owned(m, L) PROVE Owned(n, L)
  <2>1. ASSUME NEW b \in L
        PROVE  /\ b.at - Header \in Heads(n) /\ n[b.at - Header].used
               /\ b.at + b.size <= n[b.at - Header].next
    BY <1>2, <1>3, <1>5 DEF Owned
  <2>2. ASSUME NEW r \in Heads(n), n[r].used
        PROVE  \E b \in L : b.at = r + Header
    BY <1>2, <1>5, <2>2 DEF Owned
  <2> QED
    BY <1>5, <2>1, <2>2 DEF Owned
<1>6. ASSUME NEW l, IsLowest(m, l) PROVE l # q /\ IsLowest(n, l)
  <2>1. l <= p /\ p \in Nat /\ q \in Nat /\ p < q
    BY <1>6, HeadFacts DEF IsLowest
  <2>2. l # q
    BY <2>1
  <2> QED
    BY <1>1, <1>6, <2>2 DEF IsLowest
<1> QED
  BY <1>4, <1>5, <1>6

\* No two free neighbours, except that p may have a free one.
PluggedBut(m, p) ==
  \A r \in Heads(m) : r # p /\ m[r].next # heapEnd /\ m[r].next # p =>
    m[r].used \/ m[m[r].next].used

LEMMA PlugForward ==
  ASSUME NEW m \in Memory, Whole(m), NEW p \in Heads(m), ~m[p].used, PluggedBut(m, p),
         NEW n, n = IF JoinsNext(m, p) THEN Join(m, p, m[p].next) ELSE m
  PROVE  /\ n \in Memory /\ Whole(n) /\ p \in Heads(n) /\ ~n[p].used /\ PluggedBut(n, p)
         /\ n[p].next # heapEnd => n[n[p].next].used
         /\ n[p].prev = m[p].prev
         /\ JoinsPrev(n, p) <=> JoinsPrev(m, p)
         /\ InUse(n) = InUse(m)
         /\ \A L : Owned(m, L) => Owned(n, L)
         /\ \A l : IsLowest(m, l) => IsLowest(n, l) /\ ~(JoinsNext(m, p) /\ l = m[p].next)
<1> DEFINE q == m[p].next
<1>1. CASE JoinsNext(m, p)
  <2>1. q \in Heads(m) /\ q # heapEnd /\ ~m[q].used
    BY <1>1 DEF JoinsNext, Whole
  <2>2. n = Join(m, p, q) /\ q = m[p].next
    BY <1>1
  <2> HIDE DEF q
  <2>3. /\ n \in Memory /\ Whole(n) /\ Heads(n) = Heads(m) \ {q} /\ p # q
        /\ \A r \in Heads(n) : /\ n[r].next = IF r = p THEN m[q].next ELSE m[r].next
                               /\ n[r].used = m[r].used
        /\ n[p].prev = m[p].prev
    BY <2>1, <2>2, JoinKeeps
  <2>4. /\ InUse(n) = InUse(m)
        /\ \A L : Owned(m, L) => Owned(n, L)
        /\ \A l : IsLowest(m, l) => l # q /\ IsLowest(n, l)
    BY <2>1, <2>2, JoinFree
  <2>5. p \in Heads(n) /\ ~n[p].used /\ n[p].next = m[q].next
    BY <2>3
  <2>6. PluggedBut(n, p)
    <3> SUFFICES ASSUME NEW r \in Heads(n), r # p, n[r].next # heapEnd, n[r].next # p
                 PROVE  n[r].used \/ n[n[r].next].used
      BY DEF PluggedBut
    <3>1. r \in Heads(m) /\ m[r].next = n[r].next /\ m[r].used = n[r].used
      BY <2>3
    <3>2. n[r].next \in Heads(n)
      BY <2>3 DEF Whole
    <3>3. m[r].used \/ m[n[r].next].used
      BY <3>1 DEF PluggedBut
    <3> QED
      BY <2>3, <3>1, <3>2, <3>3
  <2>7. ASSUME n[p].next # heapEnd PROVE n[n[p].next].used
    <3>1. m[q].next # heapEnd /\ m[q].next # p /\ q # p
      BY <2>1, <2>2, <2>5, <2>7, HeadFacts
    <3>2. m[m[q].next].used
      BY <2>1, <3>1 DEF PluggedBut
    <3>3. m[q].next \in Heads(n)
      BY <2>3, <2>5, <2>7 DEF Whole
    <3> QED
      BY <2>3, <2>5, <3>2, <3>3
  <2>8. JoinsPrev(n, p) <=> JoinsPrev(m, p)
    <3>1. CASE p = 0
      BY <2>3, <3>1 DEF Whole, JoinsPrev
    <3>2. CASE p # 0
      <4>1. n[p].prev \in Heads(n)
        BY <2>3, <2>5, <3>2 DEF Whole
      <4> QED
        BY <2>3, <4>1 DEF JoinsPrev
    <3> QED
      BY <3>1, <3>2
  <2> QED
    BY <2>2, <2>3, <2>4, <2>5, <2>6, <2>7, <2>8
<1>2. CASE ~JoinsNext(m, p)
  BY <1>2 DEF JoinsNext
<1> QED
  BY <1>1, <1>2

LEMMA PlugBackward ==
  ASSUME NEW m \in Memory, Whole(m), NEW p \in Heads(m), ~m[p].used, PluggedBut(m, p),
         m[p].next # heapEnd => m[m[p].next].used,
         NEW n, n = IF JoinsPrev(m, p) THEN Join(m, m[p].prev, p) ELSE m
  PROVE  /\ n \in Memory /\ Whole(n) /\ Plugged(n)
         /\ InUse(n) = InUse(m)
         /\ \A L : Owned(m, L) => Owned(n, L)
         /\ \A l : IsLowest(m, l) => IsLowest(n, l) /\ ~(JoinsPrev(m, p) /\ l = p)
<1> DEFINE v == m[p].prev
<1>1. CASE JoinsPrev(m, p)
  <2>1. v # p /\ ~m[v].used /\ n = Join(m, v, p)
    BY <1>1 DEF JoinsPrev
  <2>2. v \in Heads(m) /\ m[v].next = p
    BY <2>1 DEF Whole
  <2> HIDE DEF v
  <2>3. /\ n \in Memory /\ Whole(n) /\ Heads(n) = Heads(m) \ {p}
        /\ \A r \in Heads(n) : /\ n[r].next = IF r = v THEN m[p].next ELSE m[r].next
                               /\ n[r].used = m[r].used
    BY <2>1, <2>2, JoinKeeps
  <2>4. /\ InUse(n) = InUse(m)
        /\ \A L : Owned(m, L) => Owned(n, L)
        /\ \A l : IsLowest(m, l) => l # p /\ IsLowest(n, l)
    BY <2>1, <2>2, JoinFree
  <2>5. Plugged(n)
    <3> SUFFICES ASSUME NEW r \in Heads(n), n[r].next # heapEnd
                 PROVE  n[r].used \/ n[n[r].next].used
      BY DEF Plugged
    <3>1. n[r].next \in Heads(n)
      BY <2>3 DEF Whole
    <3>2. CASE r = v
      BY <2>3, <3>1, <3>2
    <3>3. CASE r # v
      <4>1. r \in Heads(m) /\ r # p /\ n[r].next = m[r].next /\ n[r].used = m[r].used
        BY <2>3, <3>3
      <4>2. m[r].next # p
        BY <2>3, <3>1, <4>1
      <4>3. m[r].used \/ m[m[r].next].used
        BY <4>1, <4>2 DEF PluggedBut
      <4> QED
        BY <2>3, <3>1, <4>1, <4>3
    <3> QED
      BY <3>2, <3>3
  <2> QED
    BY <2>3, <2>4, <2>5
<1>2. CASE ~JoinsPrev(m, p)
  <2>1. Plugged(m)
    <3> SUFFICES ASSUME NEW r \in Heads(m), m[r].next # heapEnd
                 PROVE  m[r].used \/ m[m[r].next].used
      BY DEF Plugged
    <3>1. CASE r = p
      BY <3>1
    <3>2. CASE m[r].next = p
      <4>1. m[p].prev = r /\ r # p
        BY <3>2, HeadFacts DEF Whole
      <4> QED
        BY <1>2, <4>1 DEF JoinsPrev
    <3>3. CASE r # p /\ m[r].next # p
      BY <3>3 DEF PluggedBut
    <3> QED
      BY <3>1, <3>2, <3>3
  <2> QED
    BY <1>2, <2>1
<1> QED
  BY <1>1, <1>2

LEMMA FreeIInv ==
  ASSUME IInv, NEW b \in live, zfree(b)
  PROVE  IInv'
<1> DEFINE p == b.at - Header
           m == Marked(mem, p, FALSE)
           low == LowestFreed(p)
           f == IF JoinsNext(m, p) THEN Join(m, p, m[p].next) ELSE m
           n == IF JoinsPrev(f, p) THEN Join(f, m[p].prev, p) ELSE f
<1>1. /\ mem \in Memory /\ Whole(mem) /\ Plugged(mem) /\ Owned(mem, live)
      /\ IsLowest(mem, heapFree) /\ used = Cardinality(InUse(mem))
  BY DEF IInv, TypeOK, Memory
<1>2. p \in Heads(mem) /\ mem[p].used
  BY <1>1 DEF Owned
<1>3. /\ Running /\ abort' = "none" /\ mem' = n /\ heapFree' = LowestAfter(m, p)
      /\ used' = used - Extent(mem, p) /\ live' = live \ {b} /\ asked' = asked
  BY <1>2 DEF zfree, memPlugHoles, Marked, Running
<1> HIDE DEF p, m, low, f, n
<1>4. /\ m \in Memory /\ Whole(m) /\ Heads(m) = Heads(mem) /\ p \in Heads(m) /\ ~m[p].used
      /\ \A r \in Heads(mem) : m[r].next = mem[r].next
      /\ \A r \in Heads(mem) \ {p} : m[r].used = mem[r].used
  <2> DEFINE u == FALSE
  <2>1. u \in BOOLEAN /\ m = Marked(mem, p, u)
    BY DEF m
  <2> HIDE DEF u
  <2>2. /\ m \in Memory /\ Whole(m) /\ Heads(m) = Heads(mem)
        /\ \A r \in Heads(mem) : /\ m[r].next = mem[r].next
                                 /\ m[r].used = IF r = p THEN u ELSE mem[r].used
    BY <1>1, <1>2, <2>1, MarkKeeps
  <2>3. m[p].used = u
    BY <1>2, <2>2
  <2>4. \A r \in Heads(mem) \ {p} : m[r].used = mem[r].used
    BY <2>2
  <2> QED
    BY <1>2, <2>2, <2>3, <2>4 DEF u
<1>5. PluggedBut(m, p)
  <2> SUFFICES ASSUME NEW r \in Heads(m), r # p, m[r].next # heapEnd, m[r].next # p
               PROVE  m[r].used \/ m[m[r].next].used
    BY DEF PluggedBut
  <2>1. m[r].next \in Heads(mem) /\ m[r].next = mem[r].next
    BY <1>4 DEF Whole
  <2>2. mem[r].used \/ mem[mem[r].next].used
    BY <1>1, <1>4, <2>1 DEF Plugged
  <2> QED
    BY <1>4, <2>1, <2>2
<1>6. /\ f \in Memory /\ Whole(f) /\ p \in Heads(f) /\ ~f[p].used /\ PluggedBut(f, p)
      /\ f[p].next # heapEnd => f[f[p].next].used
      /\ f[p].prev = m[p].prev
      /\ JoinsPrev(f, p) <=> JoinsPrev(m, p)
      /\ InUse(f) = InUse(m)
      /\ \A L : Owned(m, L) => Owned(f, L)
      /\ \A l : IsLowest(m, l) => IsLowest(f, l) /\ ~(JoinsNext(m, p) /\ l = m[p].next)
  <2>1. f = IF JoinsNext(m, p) THEN Join(m, p, m[p].next) ELSE m
    BY DEF f
  <2> QED
    BY <1>4, <1>5, <2>1, PlugForward
<1>7. /\ n \in Memory /\ Whole(n) /\ Plugged(n)
      /\ InUse(n) = InUse(f)
      /\ \A L : Owned(f, L) => Owned(n, L)
      /\ \A l : IsLowest(f, l) => IsLowest(n, l) /\ ~(JoinsPrev(f, p) /\ l = p)
  <2>1. n = IF JoinsPrev(f, p) THEN Join(f, f[p].prev, p) ELSE f
    BY <1>6 DEF n
  <2> QED
    BY <1>6, <2>1, PlugBackward
<1>8. IsLowest(n, heapFree')
  <2>1. IsLowest(m, low)
    <3>1. heapFree \in Nat /\ p \in Nat
      BY <1>1, <1>2, HeadFacts, Sizes DEF IsLowest
    <3>2. CASE p < heapFree
      <4>1. low = p
        BY <3>2 DEF low, LowestFreed
      <4>2. ASSUME NEW r \in Heads(m), ~m[r].used PROVE p <= r
        <5>1. CASE r = p
          BY <3>1, <5>1
        <5>2. CASE r # p
          <6>1. heapFree <= r /\ r \in Nat
            BY <1>1, <1>4, <4>2, <5>2, HeadFacts DEF IsLowest
          <6> QED
            BY <3>1, <3>2, <6>1
        <5> QED
          BY <5>1, <5>2
      <4> QED
        BY <1>4, <4>1, <4>2 DEF IsLowest
    <3>3. CASE ~(p < heapFree)
      <4>1. low = heapFree
        BY <3>3 DEF low, LowestFreed
      <4>2. heapFree <= p /\ heapFree # heapEnd
        BY <1>1, <1>2, <3>1, <3>3, HeadFacts, Sizes
      <4>3. heapFree \in Heads(m) /\ ~m[heapFree].used
        BY <1>1, <1>2, <1>4, <4>2 DEF IsLowest
      <4>4. ASSUME NEW r \in Heads(m), ~m[r].used PROVE heapFree <= r
        <5>1. CASE r = p
          BY <4>2, <5>1
        <5>2. CASE r # p
          BY <1>1, <1>4, <4>4, <5>2 DEF IsLowest
        <5> QED
          BY <5>1, <5>2
      <4> QED
        BY <4>1, <4>3, <4>4 DEF IsLowest
    <3> QED
      BY <3>2, <3>3
  <2>2. IsLowest(f, low) /\ ~(JoinsNext(m, p) /\ low = m[p].next)
    BY <1>6, <2>1
  <2>3. IsLowest(n, low) /\ ~(JoinsPrev(m, p) /\ low = p)
    BY <1>6, <1>7, <2>2
  <2>4. LowestAfter(m, p) = low
    BY <2>2, <2>3 DEF LowestAfter, low
  <2> QED
    BY <1>3, <2>3, <2>4
<1>9. used' = Cardinality(InUse(n))
  <2>1. \A r \in Heads(m) \ {p} : r \in Heads(mem) /\ mem[r].next = m[r].next /\ mem[r].used = m[r].used
    BY <1>4
  <2>2. \A r \in Heads(mem) \ Heads(m) : ~mem[r].used
    BY <1>4
  <2>3. mem[p].next <= m[p].next
    BY <1>1, <1>2, <1>4, HeadFacts
  <2>4. Cardinality(InUse(mem)) = Cardinality(InUse(m)) + Extent(mem, p)
    BY <1>1, <1>2, <1>4, <2>1, <2>2, <2>3, InUseDiffers
  <2>5. Cardinality(InUse(m)) \in Int /\ Extent(mem, p) \in Int
    <3>1. Cardinality(InUse(m)) \in 0..heapEnd
      BY <1>4, InUseFinite
    <3> QED
      BY <1>1, <1>2, <3>1, HeadFacts DEF Extent
  <2> DEFINE c == Cardinality(InUse(m))
             e == Extent(mem, p)
  <2>6. used' = (c + e) - e
    BY <1>1, <1>3, <2>4
  <2>7. c \in Int /\ e \in Int
    BY <2>5
  <2> HIDE DEF c, e
  <2>8. used' = c
    BY <2>6, <2>7
  <2> QED
    BY <1>6, <1>7, <2>8 DEF c
<1>10. Owned(n, live \ {b})
  <2>1. Owned(m, live \ {b})
    <3>1. \A c \in live : c.at \in Nat /\ Header \in Nat
      BY Sizes DEF IInv, TypeOK
    <3>2. ASSUME NEW c \in live \ {b}
          PROVE  /\ c.at - Header \in Heads(m) /\ m[c.at - Header].used
                 /\ c.at + c.size <= m[c.at - Header].next
      <4>1. c.at # b.at
        BY <1>1 DEF Owned
      <4>2. c.at - Header # p
        BY <3>1, <4>1 DEF p
      <4> QED
        BY <1>1, <1>4, <4>2 DEF Owned
    <3>3. ASSUME NEW r \in Heads(m), m[r].used
          PROVE  \E c \in live \ {b} : c.at = r + Header
      <4>1. r # p /\ r \in Heads(mem) /\ mem[r].used /\ r \in Nat
        BY <1>4, <3>3, HeadFacts
      <4>2. PICK c \in live : c.at = r + Header
        BY <1>1, <4>1 DEF Owned
      <4>3. c # b
        BY <3>1, <4>1, <4>2 DEF p
      <4> QED
        BY <4>2, <4>3
    <3> QED
      BY <1>1, <3>2, <3>3 DEF Owned
  <2> QED
    BY <1>6, <1>7, <2>1
<1>11. TypeOK'
  <2>1. used' \in 0..heapEnd
    BY <1>7, <1>9, InUseFinite
  <2>2. heapFree' \in Offset
    BY <1>8, Sizes DEF IsLowest, Heads
  <2> QED
    BY <1>3, <1>7, <2>1, <2>2 DEF IInv, TypeOK, AbortReason, Memory
<1>12. StoppedInv'
  BY <1>3 DEF StoppedInv
<1> QED
  BY <1>3, <1>7, <1>8, <1>9, <1>10, <1>11, <1>12 DEF IInv
-----------------------------------------------------------------------------
(***************************************************************************)
(* The invariant, and what follows from it.                                *)
(***************************************************************************)
LEMMA InitIInv == Init => IInv
<1> SUFFICES ASSUME Init PROVE IInv
  OBVIOUS
<1>1. /\ 0 \in Offset /\ heapEnd \in Offset /\ 0 # heapEnd /\ heapEnd \in Nat
      /\ Header <= heapEnd /\ \A p \in Offset : p \in Nat /\ p <= heapEnd
  BY Sizes
<1>2. /\ mem[0] = HeaderAt(0, heapEnd, FALSE)
      /\ \A p \in Offset \ {0, heapEnd} : mem[p] = NoHeader
  BY <1>1 DEF Init
<1>3. mem \in Memory
  BY <1>1 DEF Init, Memory, HeaderAt, NoHeader
<1>4. mem[0].next = heapEnd /\ mem[0].prev = 0 /\ ~mem[0].used
  BY <1>2 DEF HeaderAt
<1>5. \A p \in Offset \ {0, heapEnd} : mem[p].next = 0
  BY <1>2 DEF NoHeader, HeaderAt
<1>6. Heads(mem) = {0}
  BY <1>1, <1>4, <1>5 DEF Heads
<1>7. Whole(mem) /\ Plugged(mem)
  BY <1>1, <1>4, <1>6, Sizes DEF Whole, Plugged
<1>8. Owned(mem, live) /\ IsLowest(mem, heapFree)
  <2>1. live = {} /\ heapFree = 0
    BY DEF Init
  <2>2. Owned(mem, live)
    BY <1>4, <1>6, <2>1 DEF Owned
  <2>3. IsLowest(mem, heapFree)
    BY <1>4, <1>6, <2>1 DEF IsLowest
  <2> QED
    BY <2>2, <2>3
<1>9. used = Cardinality(InUse(mem))
  <2>1. InUse(mem) = {}
    BY <1>4, <1>6 DEF InUse
  <2> QED
    BY <2>1, FS_EmptySet DEF Init
<1>10. StoppedInv
  BY DEF Init, StoppedInv
<1>11. TypeOK
  <2>1. abort = "none" /\ heapFree = 0 /\ used = 0 /\ live = {} /\ asked = 0
    BY DEF Init
  <2>2. 0 \in 0..heapEnd
    BY <1>1
  <2> QED
    BY <1>1, <1>3, <2>1, <2>2 DEF TypeOK, AbortReason, Memory
<1> QED
  BY <1>7, <1>8, <1>9, <1>10, <1>11 DEF IInv

LEMMA NextIInv == IInv /\ [Next]_vars => IInv'
<1> SUFFICES ASSUME IInv, [Next]_vars PROVE IInv'
  OBVIOUS
<1>1. ASSUME NEW n \in Request, zmalloc(n) PROVE IInv'
  BY <1>1, AllocIInv, OutOfMemoryIInv DEF zmalloc
<1>2. ASSUME NEW b \in live, zfree(b) PROVE IInv'
  BY <1>2, FreeIInv
<1>3. CASE UNCHANGED vars
  BY <1>3 DEF vars, IInv, TypeOK, StoppedInv, Room
<1> QED
  BY <1>1, <1>2, <1>3 DEF Next

LEMMA Inductive == Spec => []IInv
  BY InitIInv, NextIInv, PTL DEF Spec

\* The types, for a heap of any size.
THEOREM TypeCorrect == Spec => []TypeOK
<1>1. IInv => TypeOK
  BY DEF IInv
<1> QED
  BY <1>1, Inductive, PTL

\* What zmalloc hands out is the caller's own until he frees it: it meets no
\* other caller's bytes and no header, whatever was split or combined.
THEOREM LiveDisjointHolds == Spec => []LiveDisjoint
<1>1. ASSUME IInv
      PROVE  LiveDisjoint
  <2>1. mem \in Memory /\ Whole(mem) /\ Owned(mem, live)
    BY <1>1 DEF IInv, TypeOK, Memory
  <2>2. Blocks(mem, 0) = Heads(mem)
    BY <2>1, AllBlocksAre
  <2>3. /\ Header \in Nat /\ Header > 0 /\ heapEnd \in Nat
        /\ \A b \in live : b.at \in Nat /\ b.size \in Nat
    <3>1. live \subseteq [at : Offset, size : Request]
      BY <1>1 DEF IInv, TypeOK
    <3>2. Offset \subseteq Nat /\ Request \subseteq Nat
      BY Sizes
    <3> QED
      BY <3>1, <3>2, Sizes
  <2>4. ASSUME NEW p \in Heads(mem)
        PROVE  /\ p \in Nat /\ mem[p].next \in Nat
               /\ p + Header <= mem[p].next /\ mem[p].next <= heapEnd
               /\ \A r \in Heads(mem) : r <= p \/ mem[p].next <= r
    BY <2>1, HeadFacts DEF Whole
  <2>5. ASSUME NEW b \in live
        PROVE  /\ b.at - Header \in Heads(mem)
               /\ b.at + b.size <= mem[b.at - Header].next
    BY <2>1 DEF Owned
  <2>6. ASSUME NEW b \in live
        PROVE  /\ Units(b.at, b.at + b.size) \subseteq Units(Header, heapEnd)
               /\ Units(b.at, b.at + b.size)
                    \subseteq Units(b.at - Header, mem[b.at - Header].next)
    <3>1. /\ b.at - Header \in Nat
          /\ mem[b.at - Header].next \in Nat /\ mem[b.at - Header].next <= heapEnd
          /\ b.at + b.size <= mem[b.at - Header].next
      BY <2>4, <2>5
    <3> QED
      BY <2>3, <3>1 DEF Units
  <2>7. ASSUME NEW b \in live, NEW p \in Heads(mem)
        PROVE  Units(b.at, b.at + b.size) \cap Units(p, p + Header) = {}
    <3> DEFINE q == b.at - Header
    <3>1. q \in Heads(mem) /\ b.at + b.size <= mem[q].next
      BY <2>5
    <3>2. q \in Nat /\ p \in Nat /\ mem[q].next \in Nat /\ mem[p].next \in Nat
      BY <2>4, <3>1
    <3>3. p <= q \/ mem[q].next <= p
      BY <2>4, <3>1
    <3>4. b.at = q + Header
      BY <2>3
    <3> HIDE DEF q
    <3> QED
      BY <2>3, <3>1, <3>2, <3>3, <3>4 DEF Units
  <2>8. ASSUME NEW b \in live, NEW c \in live, b # c
        PROVE  Units(b.at, b.at + b.size) \cap Units(c.at, c.at + c.size) = {}
    <3>1. b.at # c.at
      BY <2>1, <2>8 DEF Owned
    <3>2. b.at - Header # c.at - Header
      BY <2>3, <3>1
    <3>3. Units(b.at - Header, mem[b.at - Header].next)
            \cap Units(c.at - Header, mem[c.at - Header].next) = {}
      BY <2>1, <2>5, <3>2, UnitsApart
    <3> QED
      BY <2>6, <3>3
  <2>9. ASSUME NEW p \in Heads(mem), NEW q \in Heads(mem), p # q
        PROVE  Units(p, p + Header) \cap Units(q, q + Header) = {}
    <3>1. /\ p \in Nat /\ q \in Nat
          /\ p + Header <= q \/ q + Header <= p
      BY <2>3, <2>4, <2>9
    <3> QED
      BY <2>3, <3>1 DEF Units
  <2> QED
    BY <2>2, <2>6, <2>7, <2>8, <2>9 DEF LiveDisjoint
<1> QED
  BY <1>1, Inductive, PTL

\* The list is linked both ways, has a block in use for each caller and no
\* other, never two free blocks side by side, and used is exact.
THEOREM ListConsistentHolds == Spec => []ListConsistent
<1>1. ASSUME IInv
      PROVE  ListConsistent
  <2>1. mem \in Memory /\ Whole(mem) /\ Plugged(mem) /\ Owned(mem, live)
    BY <1>1 DEF IInv, TypeOK, Memory
  <2>2. Blocks(mem, 0) = Heads(mem)
    BY <2>1, AllBlocksAre
  <2>3. {p \in Heads(mem) : mem[p].used} = {b.at - Header : b \in live}
    <3>1. Header \in Nat /\ \A b \in live : b.at \in Nat
      BY <1>1, Sizes DEF IInv, TypeOK
    <3>2. ASSUME NEW p \in Heads(mem), mem[p].used
          PROVE  \E b \in live : p = b.at - Header
      <4>1. PICK b \in live : b.at = p + Header
        BY <2>1, <3>2 DEF Owned
      <4>2. p \in Nat
        BY <2>1, HeadFacts
      <4>3. p = b.at - Header
        BY <3>1, <4>1, <4>2
      <4> QED
        BY <4>3
    <3>3. \A b \in live : b.at - Header \in Heads(mem) /\ mem[b.at - Header].used
      BY <2>1 DEF Owned
    <3> QED
      BY <3>2, <3>3
  <2>4. ASSUME NEW p \in Heads(mem)
        PROVE  /\ mem[p].next \in Heads(mem) \cup {heapEnd}
               /\ mem[p].next # heapEnd =>
                    mem[mem[p].next].prev = p /\ (mem[p].used \/ mem[mem[p].next].used)
    BY <2>1 DEF Whole, Plugged
  <2>5. used = Cardinality(UNION {Units(p, mem[p].next) : p \in {q \in Heads(mem) : mem[q].used}})
    BY <1>1 DEF IInv, InUse
  <2> QED
    BY <2>2, <2>3, <2>4, <2>5 DEF ListConsistent
<1> QED
  BY <1>1, Inductive, PTL

\* The scan of memAlloc never starts above a free block.
THEOREM LowestFreeHolds == Spec => []LowestFree
<1>1. ASSUME IInv
      PROVE  LowestFree
  <2> DEFINE S == {p \in Blocks(mem, 0) : ~mem[p].used} \cup {heapEnd}
  <2>1. mem \in Memory /\ Whole(mem) /\ IsLowest(mem, heapFree)
    BY <1>1 DEF IInv, TypeOK, Memory
  <2>2. S = {p \in Heads(mem) : ~mem[p].used} \cup {heapEnd}
    BY <2>1, AllBlocksAre
  <2>3. S \in SUBSET Nat /\ S # {} /\ \A p \in S : p <= heapEnd
    BY <2>2, Sizes DEF Heads
  <2>4. Min(S) \in S /\ \A p \in S : Min(S) <= p
    <3> HIDE DEF S
    <3> QED
      BY <2>3, MinIs
  <2>5. heapFree \in S
    BY <2>1, <2>2 DEF IsLowest
  <2>6. \A p \in S : heapFree <= p
    BY <2>1, <2>2, <2>3, <2>5 DEF IsLowest
  <2>7. heapFree = Min(S)
    <3> DEFINE l == Min(S)
    <3>1. l \in S /\ l <= heapFree /\ heapFree <= l
      BY <2>4, <2>5, <2>6
    <3>2. l \in Nat /\ heapFree \in Nat
      BY <2>3, <2>5, <3>1
    <3> HIDE DEF l
    <3>3. heapFree = l
      BY <3>1, <3>2
    <3> QED
      BY <3>3 DEF l
  <2> QED
    BY <2>7 DEF LowestFree
<1> QED
  BY <1>1, Inductive, PTL

\* The program is ended for lack of memory only when no block would do.
THEOREM FailsOnlyIfFullHolds == Spec => []FailsOnlyIfFull
<1>1. ASSUME IInv
      PROVE  FailsOnlyIfFull
  <2>1. Blocks(mem, 0) = Heads(mem)
    BY <1>1, AllBlocksAre DEF IInv, TypeOK, Memory
  <2> QED
    BY <1>1, <2>1 DEF IInv, StoppedInv, FailsOnlyIfFull
<1> QED
  BY <1>1, Inductive, PTL

\* When every caller has given back what he had, the heap is one free block.
THEOREM EmptyIsOneBlockHolds == Spec => []EmptyIsOneBlock
<1>1. ASSUME IInv
      PROVE  EmptyIsOneBlock
  <2> SUFFICES ASSUME live = {}
               PROVE  Blocks(mem, 0) = {0} /\ Room(mem, 0) = Size /\ used = 0
    BY DEF EmptyIsOneBlock
  <2>1. /\ mem \in Memory /\ Whole(mem) /\ Plugged(mem) /\ Owned(mem, live)
        /\ used = Cardinality(InUse(mem))
    BY <1>1 DEF IInv, TypeOK, Memory
  <2>2. \A p \in Heads(mem) : ~mem[p].used
    BY <2>1 DEF Owned
  <2>3. 0 \in Heads(mem) /\ mem[0].next = heapEnd
    BY <2>1, <2>2 DEF Whole, Plugged
  <2>4. ASSUME NEW r \in Heads(mem)
        PROVE  r = 0
    <3>1. r <= 0 \/ heapEnd <= r
      BY <2>1, <2>3 DEF Whole
    <3>2. r \in Nat /\ r < heapEnd /\ heapEnd \in Nat
      BY <2>1, HeadFacts, Sizes
    <3> QED
      BY <3>1, <3>2
  <2>5. Blocks(mem, 0) = {0}
    BY <2>1, <2>3, <2>4, AllBlocksAre
  <2>6. Room(mem, 0) = Size
    BY <2>3, Sizes DEF Room
  <2>7. used = 0
    <3>1. InUse(mem) = {}
      BY <2>2 DEF InUse
    <3> QED
      BY <2>1, <3>1, FS_EmptySet
  <2> QED
    BY <2>5, <2>6, <2>7
<1> QED
  BY <1>1, Inductive, PTL

\* No assert of memAlloc or memFree fails.
THEOREM AssertsHoldAlways == Spec => []AssertsHold
<1>1. IInv => AssertsHold
  BY DEF IInv, StoppedInv, AssertsHold
<1> QED
  BY <1>1, Inductive, PTL
=============================================================================
