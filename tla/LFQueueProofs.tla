--------------------------- MODULE LFQueueProofs ---------------------------
(***************************************************************************)
(* Theorems about LFQueue, for counters and queues of any size.  First the *)
(* arithmetic of counters that wrap, then what it says of the slots, then  *)
(* the inductive invariant: the counters that a call has read may be old,  *)
(* but no older than it can stand, and what was copied so far is what is   *)
(* in the slots.                                                           *)
(***************************************************************************)
EXTENDS LFQueue, SequenceTheorems, WellFoundedInduction, TLAPS

LEMMA Remainder ==
  ASSUME NEW W \in Nat, W > 0, NEW a \in Int
  PROVE  a % W \in 0..(W - 1) /\ \E q \in Int : a = q * W + (a % W)
<1>1. a % W \in 0..(W - 1)
  OBVIOUS
<1>2. \E q \in Int : a = q * W + (a % W)
  OBVIOUS
<1> QED
  BY <1>1, <1>2

LEMMA Multiple ==
  ASSUME NEW W \in Nat, W > 0, NEW d \in Int, d * W \in (1 - W)..(W - 1)
  PROVE  d = 0
<1>1. d >= 1 => d * W >= W
  OBVIOUS
<1>2. d <= -1 => d * W <= -W
  OBVIOUS
<1> QED
  BY <1>1, <1>2

LEMMA RemainderUnique ==
  ASSUME NEW W \in Nat, W > 0, NEW q \in Int, NEW r \in 0..(W - 1)
  PROVE  (q * W + r) % W = r
<1> DEFINE a == q * W + r
<1>1. a \in Int
  OBVIOUS
<1>2. PICK p \in Int : a = p * W + (a % W)
  BY <1>1, Remainder
<1>3. a % W \in 0..(W - 1)
  BY <1>1, Remainder
<1>4. (q - p) * W = (a % W) - r
  BY <1>2, <1>3
<1>5. (q - p) * W \in (1 - W)..(W - 1)
  BY <1>3, <1>4
<1>6. q - p = 0
  BY <1>5, Multiple
<1> QED
  BY <1>3, <1>4, <1>6

LEMMA AddMultiple ==
  ASSUME NEW W \in Nat, W > 0, NEW a \in Int, NEW k \in Int
  PROVE  (a + k * W) % W = a % W
<1>1. PICK q \in Int : a = q * W + (a % W)
  BY Remainder
<1>2. a % W \in 0..(W - 1)
  BY Remainder
<1>3. a + k * W = (q + k) * W + (a % W)
  BY <1>1, <1>2
<1> DEFINE p == q + k
<1>4. p \in Int
  OBVIOUS
<1> HIDE DEF p
<1>5. (p * W + (a % W)) % W = a % W
  BY <1>2, <1>4, RemainderUnique
<1> QED
  BY <1>3, <1>5 DEF p

LEMMA Apart ==
  ASSUME NEW W \in Nat, W > 0, NEW a \in Int, NEW d \in 1..(W - 1)
  PROVE  (a + d) % W # a % W
<1> SUFFICES ASSUME (a + d) % W = a % W PROVE FALSE
  OBVIOUS
<1>1. PICK q \in Int : a = q * W + (a % W)
  BY Remainder
<1> DEFINE b == a + d
<1>6. b \in Int
  OBVIOUS
<1> HIDE DEF b
<1>7. \E p \in Int : b = p * W + (b % W)
  BY <1>6, Remainder
<1>2. PICK p \in Int : a + d = p * W + ((a + d) % W)
  BY <1>7 DEF b
<1>3. a % W \in Int
  BY Remainder
<1>4. (p - q) * W = d
  BY <1>1, <1>2, <1>3
<1>5. p - q = 0
  BY <1>4, Multiple
<1> QED
  BY <1>4, <1>5
-----------------------------------------------------------------------------
(* The size of the queue is at least one. *)
LEMMA MaxOfNaturals ==
  ASSUME NEW n \in Nat, NEW S, S \subseteq 1..n, S # {}
  PROVE  Max(S) \in S
<1> DEFINE T == {d \in Nat : n - d \in S}
<1>1. T # {}
  <2>1. PICK p \in S : TRUE
    OBVIOUS
  <2>2. n - p \in Nat /\ n - (n - p) = p
    BY <2>1
  <2> QED
    BY <2>1, <2>2
<1>2. PICK d \in T : \A e \in T : d <= e
  <2>1. T \subseteq Nat
    OBVIOUS
  <2> DEFINE R == {ss \in Nat \X Nat : ss[1] < ss[2]}
  <2>2. IsWellFoundedOn(R, Nat)
    BY NatLessThanWellFounded DEF OpToRel
  <2>3. \A d, e \in Nat : e < d => <<e, d>> \in R
    OBVIOUS
  <2> HIDE DEF T, R
  <2>4. \E d \in T : \A e \in T : <<e, d>> \notin R
    BY <1>1, <2>1, <2>2, WFMin
  <2>5. PICK d \in T : \A e \in T : <<e, d>> \notin R
    BY <2>4
  <2>6. \A e \in T : d <= e
    <3> SUFFICES ASSUME NEW e \in T PROVE d <= e
      OBVIOUS
    <3>1. d \in Nat /\ e \in Nat
      BY <2>1
    <3>2. ~(e < d)
      BY <2>3, <2>5, <3>1
    <3> QED
      BY <3>1, <3>2
  <2> QED
    BY <2>6
<1>3. n - d \in S /\ d \in Nat
  OBVIOUS
<1>4. \A p \in S : n - d >= p
  <2> SUFFICES ASSUME NEW p \in S PROVE n - d >= p
    OBVIOUS
  <2>1. n - p \in T /\ p \in Int /\ n - p \in Int
    OBVIOUS
  <2>2. d <= n - p
    BY <2>1, <1>2
  <2> QED
    BY <2>1, <2>2, <1>3
<1> HIDE DEF T
<1>5. \E x \in S : \A y \in S : x >= y
  BY <1>3, <1>4
<1> QED
  BY <1>5 DEF Max
LEMMA SizePositive ==
  ASSUME NEW n \in Nat, n >= 1
  PROVE  rounddown_pow_of_two(n) \in 1..n
<1> DEFINE S == {p \in 1..n : \E k \in 0..n : p = 2^k}
<1>1. 1 \in S
  <2>1. 2^0 = 1 /\ 0 \in 0..n
    OBVIOUS
  <2>2. \E k \in 0..n : 1 = 2^k
    BY <2>1, Zenon
  <2> QED
    BY <2>2
<1>2. Max(S) \in S
  <2>1. S \subseteq 1..n
    OBVIOUS
  <2> HIDE DEF S
  <2> QED
    BY <1>1, <2>1, MaxOfNaturals
<1> QED
  BY <1>2 DEF rounddown_pow_of_two
-----------------------------------------------------------------------------
(***************************************************************************)
(* The sizes.                                                              *)
(***************************************************************************)
LEMMA Sizes ==
  /\ Size \in Nat /\ Size > 0
  /\ Word \in Nat /\ Word > Size
  /\ \E w \in Int : Word = w * Size
  /\ MaxBatch \in Nat /\ MaxBatch > 0
<1>1. Size \in 1..Requested
  BY QueueAssumption, SizePositive DEF Size
<1>2. Size \in Nat /\ Size > 0 /\ Word \in Nat /\ Word > Size /\ Word % Size = 0
  BY <1>1, QueueAssumption
<1>3. PICK w \in Int : Word = w * Size + (Word % Size)
  BY <1>2, Remainder
<1>4. Word = w * Size
  BY <1>2, <1>3
<1> QED
  BY <1>2, <1>4, QueueAssumption

\* The distance of two counters follows each of them, across a wrap as well.
LEMMA AdvanceFirst ==
  ASSUME NEW W \in Nat, W > 0, NEW i \in Int, NEW o \in Int, NEW n \in Nat,
         ((i - o) % W) + n < W
  PROVE  (((i + n) % W) - o) % W = ((i - o) % W) + n
<1> DEFINE a == i - o
           b == i + n
           u == a % W
           r == b % W
<1>1. a \in Int /\ b \in Int
  OBVIOUS
<1>2. PICK q \in Int : a = q * W + u
  BY <1>1, Remainder
<1>3. PICK p \in Int : b = p * W + r
  BY <1>1, Remainder
<1>4. u \in 0..(W - 1) /\ r \in 0..(W - 1)
  BY <1>1, Remainder
<1>5. r - o = (q - p) * W + (u + n)
  BY <1>2, <1>3, <1>4
<1>6. q - p \in Int /\ u + n \in 0..(W - 1)
  BY <1>4
<1>7. ((q - p) * W + (u + n)) % W = u + n
  BY <1>6, RemainderUnique
<1> QED
  BY <1>5, <1>7

LEMMA AdvanceSecond ==
  ASSUME NEW W \in Nat, W > 0, NEW i \in Int, NEW o \in Int, NEW n \in Nat,
         n <= (i - o) % W
  PROVE  (i - ((o + n) % W)) % W = ((i - o) % W) - n
<1> DEFINE a == i - o
           b == o + n
           u == a % W
           r == b % W
<1>1. a \in Int /\ b \in Int
  OBVIOUS
<1>2. PICK q \in Int : a = q * W + u
  BY <1>1, Remainder
<1>3. PICK p \in Int : b = p * W + r
  BY <1>1, Remainder
<1>4. u \in 0..(W - 1) /\ r \in 0..(W - 1)
  BY <1>1, Remainder
<1>5. i - r = (q + p) * W + (u - n)
  BY <1>2, <1>3, <1>4
<1>6. q + p \in Int /\ u - n \in 0..(W - 1)
  BY <1>4
<1>7. ((q + p) * W + (u - n)) % W = u - n
  BY <1>6, RemainderUnique
<1> QED
  BY <1>5, <1>7
-----------------------------------------------------------------------------
(***************************************************************************)
(* The slots.                                                              *)
(***************************************************************************)
LEMMA SlotType == \A a \in Int : slot(a) \in Slot
<1> SUFFICES ASSUME NEW a \in Int PROVE slot(a) \in Slot
  OBVIOUS
<1>1. Size \in Nat /\ Size > 0
  BY Sizes
<1>2. a % Size \in 0..(Size - 1)
  BY <1>1, Remainder
<1> QED
  BY <1>2 DEF slot, Slot

\* Fewer than Size apart, two positions have two slots.
LEMMA SlotApart ==
  ASSUME NEW a \in Int, NEW b \in Int, a < b, b - a < Size
  PROVE  slot(a) # slot(b)
<1>1. Size \in Nat /\ Size > 0
  BY Sizes
<1> DEFINE d == b - a
<1>2. d \in 1..(Size - 1) /\ b = a + d
  BY <1>1
<1> HIDE DEF d
<1>3. (a + d) % Size # a % Size
  BY <1>1, <1>2, Apart
<1> QED
  BY <1>2, <1>3 DEF slot

\* A counter that wraps stays in the same slot.
LEMMA SlotWraps ==
  ASSUME NEW a \in Int, NEW k \in Int
  PROVE  slot(a + k * Word) = slot(a)
<1>1. Size \in Nat /\ Size > 0
  BY Sizes
<1>2. PICK w \in Int : Word = w * Size
  BY Sizes
<1> DEFINE j == k * w
<1>3. j \in Int /\ a + k * Word = a + j * Size
  BY <1>1, <1>2
<1> HIDE DEF j
<1>4. (a + j * Size) % Size = a % Size
  BY <1>1, <1>3, AddMultiple
<1> QED
  BY <1>3, <1>4 DEF slot

LEMMA SlotOfRemainder ==
  ASSUME NEW a \in Int, NEW i \in Int
  PROVE  slot((a % Word) + i) = slot(a + i)
<1>1. Word \in Nat /\ Word > 0
  BY Sizes
<1>2. PICK q \in Int : a = q * Word + (a % Word)
  BY <1>1, Remainder
<1>3. a % Word \in Int
  BY <1>1, Remainder
<1> DEFINE b == (a % Word) + i
<1>4. b \in Int /\ a + i = b + q * Word
  BY <1>1, <1>2, <1>3
<1> HIDE DEF b
<1>5. slot(b + q * Word) = slot(b)
  BY <1>4, SlotWraps
<1> QED
  BY <1>4, <1>5 DEF b

Counters == in \in 0..(Word - 1) /\ out \in 0..(Word - 1)

LEMMA UsedType == Counters => lfqueueUsed \in 0..(Word - 1)
<1> SUFFICES ASSUME Counters PROVE lfqueueUsed \in 0..(Word - 1)
  OBVIOUS
<1>1. Word \in Nat /\ Word > 0 /\ in - out \in Int
  BY Sizes DEF Counters
<1>2. (in - out) % Word \in 0..(Word - 1)
  BY <1>1, Remainder
<1> QED
  BY <1>2 DEF lfqueueUsed

\* The producer's slots, counted from the consumer's counter.
LEMMA SlotOfIn ==
  ASSUME Counters, NEW i \in Int
  PROVE  slot(in + i) = slot(out + lfqueueUsed + i)
<1> DEFINE a == in - out
<1>1. Word \in Nat /\ Word > 0 /\ a \in Int /\ in \in Int /\ out \in Int
  BY Sizes DEF Counters
<1>2. PICK q \in Int : a = q * Word + (a % Word)
  BY <1>1, Remainder
<1>3. lfqueueUsed \in Int /\ lfqueueUsed = a % Word
  BY UsedType, <1>1 DEF lfqueueUsed
<1> DEFINE b == out + lfqueueUsed + i
<1>4. b \in Int /\ in + i = b + q * Word
  BY <1>1, <1>2, <1>3
<1> HIDE DEF b
<1>5. slot(b + q * Word) = slot(b)
  BY <1>4, SlotWraps
<1> QED
  BY <1>4, <1>5 DEF b

LEMMA AvailIs ==
  ASSUME Counters, lfqueueUsed <= Size
  PROVE  lfqueueAvail = Size - lfqueueUsed /\ lfqueueAvail \in 0..Size
<1>1. Word \in Nat /\ Word > 0 /\ Word > Size /\ Size \in Nat /\ lfqueueUsed \in Nat
  BY Sizes, UsedType
<1> DEFINE a == Size - lfqueueUsed
<1>2. a \in 0..(Word - 1) /\ a \in 0..Size /\ a = 0 * Word + a
  BY <1>1
<1> HIDE DEF a
<1>3. (0 * Word + a) % Word = a
  BY <1>1, <1>2, RemainderUnique
<1> QED
  BY <1>2, <1>3 DEF lfqueueAvail, a
-----------------------------------------------------------------------------
(***************************************************************************)
(* The inductive invariant.                                                *)
(***************************************************************************)

\* TypeOK, with the bounded sequences as sequences and a bound.
Types ==
  /\ Counters
  /\ buffer \in [Slot -> Data \cup {NoData}]
  /\ src \in Seq(Data)
  /\ put \in 0..MaxBatch /\ Len(src) <= put
  /\ get \in 0..MaxBatch
  /\ dst \in Seq(Data \cup {NoData}) /\ Len(dst) <= get
  /\ delivered \in Seq(Data \cup {NoData}) /\ Len(delivered) <= MaxBatch

\* What lfqueuePut has copied are elements; what lfqueueGet has copied is still
\* what the slots hold.
CopiedIn == \A i \in 0..(put - Len(src) - 1) : buffer[slot(in + i)] \in Data
CopiedOut == \A i \in 1..Len(dst) : dst[i] = buffer[slot(out + i - 1)]

IInv == Types /\ NoOverrun /\ CopiedIn /\ CopiedOut

LEMMA BoundedSeqIs ==
  ASSUME NEW S, NEW n \in Nat
  PROVE  \A s : s \in BoundedSeq(S, n) <=> s \in Seq(S) /\ Len(s) <= n
<1>1. ASSUME NEW s \in BoundedSeq(S, n) PROVE s \in Seq(S) /\ Len(s) <= n
  <2>1. PICK m \in 0..n : s \in [1..m -> S]
    BY <1>1 DEF BoundedSeq, SeqOf
  <2> QED
    BY <2>1
<1>2. ASSUME NEW s \in Seq(S), Len(s) <= n PROVE s \in BoundedSeq(S, n)
  <2>1. Len(s) \in 0..n /\ s \in [1..Len(s) -> S]
    BY <1>2
  <2> QED
    BY <2>1 DEF BoundedSeq, SeqOf
<1> QED
  BY <1>1, <1>2

LEMMA TypesAre == TypeOK <=> Types
<1>1. MaxBatch \in Nat
  BY Sizes
<1>2. \A s : s \in Batch \cup {<<>>} <=> s \in Seq(Data) /\ Len(s) <= MaxBatch
  <2>1. \A s : s \in BoundedSeq(Data, MaxBatch) <=> s \in Seq(Data) /\ Len(s) <= MaxBatch
    BY <1>1, BoundedSeqIs
  <2>2. <<>> \in Seq(Data) /\ Len(<<>>) = 0
    OBVIOUS
  <2>3. <<>> \in BoundedSeq(Data, MaxBatch)
    <3> DEFINE e == <<>>
    <3>1. e \in Seq(Data) /\ Len(e) <= MaxBatch
      BY <1>1, <2>2
    <3> HIDE DEF e
    <3>2. e \in BoundedSeq(Data, MaxBatch)
      BY <2>1, <3>1
    <3> QED
      BY <3>2 DEF e
  <2>4. Batch \cup {<<>>} = BoundedSeq(Data, MaxBatch)
    BY <2>3 DEF Batch
  <2> QED
    BY <2>1, <2>4
<1>3. \A s : s \in BoundedSeq(Data \cup {NoData}, MaxBatch)
               <=> s \in Seq(Data \cup {NoData}) /\ Len(s) <= MaxBatch
  BY <1>1, BoundedSeqIs
<1>4. ASSUME TypeOK PROVE Types
  BY <1>2, <1>3, <1>4 DEF TypeOK, Types, Counters
<1>5. ASSUME Types PROVE TypeOK
  <2>1. Len(src) <= MaxBatch /\ Len(dst) <= MaxBatch
    BY <1>1, <1>5 DEF Types
  <2> QED
    BY <1>2, <1>3, <1>5, <2>1 DEF TypeOK, Types, Counters
<1> QED
  BY <1>4, <1>5

LEMMA MinOfTwo ==
  ASSUME NEW a \in Int, NEW b \in Int
  PROVE  Min({a, b}) = IF a <= b THEN a ELSE b
  BY DEF Min

LEMMA InitIInv == Init => IInv
<1> SUFFICES ASSUME Init PROVE IInv
  OBVIOUS
<1>1. Size \in Nat /\ Word \in Nat /\ Word > 0 /\ MaxBatch \in Nat
  BY Sizes
<1>2. Counters
  BY <1>1 DEF Init, Counters
<1>3. lfqueueUsed = 0
  <2>1. (in - out) % Word = 0
    BY <1>1 DEF Init
  <2> QED
    BY <2>1 DEF lfqueueUsed
<1>4. Types
  BY <1>1, <1>2 DEF Init, Types
<1>5. NoOverrun /\ CopiedIn /\ CopiedOut
  BY <1>1, <1>3 DEF Init, NoOverrun, CopiedIn, CopiedOut
<1> QED
  BY <1>4, <1>5 DEF IInv

LEMMA PutBeginIInv ==
  ASSUME IInv, NEW batch \in Batch, PutBegin(batch)
  PROVE  IInv'
<1>1. Types /\ NoOverrun /\ MaxBatch \in Nat /\ Size \in Nat /\ lfqueueUsed \in Nat
      /\ UNCHANGED <<in, out, buffer, dst, get, delivered>>
  BY Sizes, UsedType DEF IInv, Types, PutBegin, consumer
<1>2. batch \in Seq(Data) /\ Len(batch) \in 1..MaxBatch
  <2>1. \A s : s \in BoundedSeq(Data, MaxBatch) <=> s \in Seq(Data) /\ Len(s) <= MaxBatch
    BY <1>1, BoundedSeqIs
  <2>2. batch \in Seq(Data) /\ Len(batch) <= MaxBatch /\ batch # <<>>
    BY <2>1 DEF Batch
  <2> QED
    BY <1>1, <2>2, EmptySeq
<1>3. lfqueueAvail = Size - lfqueueUsed /\ lfqueueAvail \in 1..Size
  BY <1>1, AvailIs DEF Types, NoOverrun, PutBegin
<1>4. put' \in 1..MaxBatch /\ put' <= lfqueueAvail /\ put' <= Len(batch)
  <2> DEFINE a == Len(batch)
             b == lfqueueAvail
  <2>1. put' = Min({a, b}) /\ a \in 1..MaxBatch /\ b \in 1..Size
    BY <1>2, <1>3 DEF PutBegin
  <2> HIDE DEF a, b
  <2>2. Min({a, b}) = IF a <= b THEN a ELSE b
    BY <1>1, <2>1, MinOfTwo
  <2>3. put' \in 1..MaxBatch /\ put' <= a /\ put' <= b
    BY <1>1, <2>1, <2>2
  <2> QED
    BY <2>3 DEF a, b
<1>5. src' \in Seq(Data) /\ Len(src') = put'
  <2>1. src' = SubSeq(batch, 1, put') /\ put' \in Int /\ 1 <= put' + 1
    BY <1>4 DEF PutBegin
  <2>2. put' \in 1..Len(batch)
    BY <1>2, <1>4
  <2>3. \A i \in 1..put' : batch[i] \in Data
    BY <1>2, <2>2
  <2> HIDE DEF PutBegin
  <2>4. src' = [i \in 1..put' |-> batch[i]]
    BY <2>1, <2>2
  <2> QED
    BY <2>2, <2>3, <2>4
<1>6. lfqueueUsed' = lfqueueUsed
  BY <1>1 DEF lfqueueUsed
<1>7. Types'
  BY <1>1, <1>4, <1>5 DEF Types, Counters
<1>8. NoOverrun'
  <2>1. put' \in Nat /\ put' <= Size - lfqueueUsed
    BY <1>3, <1>4
  <2>2. get <= lfqueueUsed /\ get' = get
    BY <1>1 DEF NoOverrun
  <2>3. lfqueueUsed' + put' <= Size
    <3> DEFINE u == lfqueueUsed
               p == put'
    <3>1. u \in Nat /\ p \in Nat /\ Size \in Nat /\ p <= Size - u
      BY <1>1, <2>1
    <3> HIDE DEF u, p
    <3>2. u + p <= Size
      BY <3>1
    <3> QED
      BY <1>6, <3>2 DEF u, p
  <2>4. get' <= lfqueueUsed'
    BY <1>6, <2>2
  <2> QED
    BY <2>3, <2>4 DEF NoOverrun
<1>9. CopiedIn'
  <2>1. \A n \in Int : 0..(n - n - 1) = {}
    OBVIOUS
  <2>2. put' \in Int /\ Len(src') = put'
    BY <1>1, <1>4, <1>5
  <2> QED
    BY <2>1, <2>2 DEF CopiedIn
<1>10. CopiedOut'
  BY <1>1 DEF IInv, CopiedOut
<1> QED
  BY <1>7, <1>8, <1>9, <1>10 DEF IInv

\* lfqueuePut never writes to a slot that is in use.
LEMMA CopyKeeps ==
  ASSUME IInv, PutCopy, NEW j \in 0..(lfqueueUsed - 1)
  PROVE  buffer'[slot(out + j)] = buffer[slot(out + j)]
<1> DEFINE i == put - Len(src)
           a == out + j
           b == out + lfqueueUsed + i
<1>1. /\ Types /\ NoOverrun /\ lfqueueUsed \in Nat /\ Size \in Nat
      /\ Len(src) \in Nat /\ Len(src) >= 1 /\ put \in Nat /\ in \in Int /\ out \in Int
  BY Sizes, UsedType DEF IInv, Types, Counters, PutCopy
<1>2. i \in Nat /\ i < put
  BY <1>1 DEF Types
<1>3. a \in Int /\ b \in Int /\ a < b /\ b - a < Size
  BY <1>1, <1>2 DEF NoOverrun
<1>4. slot(in + i) = slot(b)
  BY <1>1, <1>2, SlotOfIn, SMTT(30) DEF Types
<1> HIDE DEF a, b
<1>5. slot(a) # slot(b) /\ slot(a) \in Slot
  BY <1>3, SlotApart, SlotType
<1>6. buffer' = [buffer EXCEPT ![slot(in + i)] = Head(src)]
  <2>1. in + put - Len(src) = in + i
    BY <1>1
  <2> QED
    BY <2>1 DEF PutCopy
<1>7. buffer'[slot(a)] = buffer[slot(a)]
  BY <1>1, <1>4, <1>5, <1>6 DEF Types
<1> QED
  BY <1>7 DEF a

LEMMA PutCopyIInv ==
  ASSUME IInv, PutCopy
  PROVE  IInv'
<1> DEFINE k == put - Len(src)
<1>1. /\ Types /\ NoOverrun /\ lfqueueUsed \in Nat
      /\ Len(src) \in Nat /\ Len(src) >= 1 /\ put \in Nat /\ in \in Int /\ out \in Int
      /\ get \in Nat /\ Len(dst) \in Nat
      /\ UNCHANGED <<in, out, put, dst, get, delivered>>
  BY UsedType DEF IInv, Types, Counters, PutCopy, consumer
<1>2. src' = Tail(src) /\ src' \in Seq(Data) /\ Len(src') = Len(src) - 1 /\ Head(src) \in Data
  BY <1>1 DEF Types, PutCopy
<1>3. k \in Nat /\ slot(in + k) \in Slot
  BY <1>1, SlotType DEF Types
<1>4. buffer' = [buffer EXCEPT ![slot(in + k)] = Head(src)]
  <2>1. in + put - Len(src) = in + k
    BY <1>1
  <2> QED
    BY <2>1 DEF PutCopy
<1>5. Types'
  BY <1>1, <1>2, <1>3, <1>4 DEF Types, Counters
<1>6. NoOverrun'
  BY <1>1 DEF NoOverrun, lfqueueUsed
<1>7. CopiedIn'
  <2> SUFFICES ASSUME NEW i \in 0..(put' - Len(src') - 1)
               PROVE  buffer'[slot(in + i)] \in Data
    BY <1>1 DEF CopiedIn
  <2>1. i \in 0..k /\ in + i \in Int
    BY <1>1, <1>2
  <2>2. slot(in + i) \in Slot
    BY <2>1, SlotType
  <2>3. CASE i = k
    BY <1>1, <1>2, <1>3, <1>4, <2>3 DEF Types
  <2>4. CASE i # k
    <3>1. i \in 0..(put - Len(src) - 1)
      BY <1>1, <2>1, <2>4
    <3>2. buffer[slot(in + i)] \in Data
      BY <3>1 DEF IInv, CopiedIn
    <3> QED
      BY <1>1, <1>2, <1>4, <2>2, <3>2 DEF Types
  <2> QED
    BY <2>3, <2>4
<1>8. CopiedOut'
  <2> SUFFICES ASSUME NEW i \in 1..Len(dst)
               PROVE  dst[i] = buffer'[slot(out + i - 1)]
    BY <1>1 DEF CopiedOut
  <2> DEFINE j == i - 1
  <2>1. j \in 0..(lfqueueUsed - 1) /\ out + i - 1 = out + j
    BY <1>1 DEF Types, NoOverrun
  <2>2. dst[i] = buffer[slot(out + i - 1)]
    BY DEF IInv, CopiedOut
  <2> HIDE DEF j
  <2>3. buffer'[slot(out + j)] = buffer[slot(out + j)]
    BY <2>1, CopyKeeps
  <2> QED
    BY <2>1, <2>2, <2>3
<1> QED
  BY <1>5, <1>6, <1>7, <1>8 DEF IInv

LEMMA PutPublishUsed ==
  ASSUME IInv, PutPublish
  PROVE  lfqueueUsed' = lfqueueUsed + put /\ Counters'
<1>1. /\ in \in Int /\ out \in Int /\ put \in Nat /\ Word \in Nat /\ Word > 0
      /\ lfqueueUsed + put < Word
      /\ in' = (in + put) % Word /\ out' = out
  <2>1. Types /\ NoOverrun /\ Counters
    BY DEF IInv, Types
  <2>2. in \in Int /\ out \in Int /\ put \in Nat /\ Word \in Nat /\ Word > Size /\ Size \in Nat
    BY <2>1, Sizes DEF Types, Counters
  <2>3. lfqueueUsed \in Nat
    BY <2>1, <2>2, UsedType
  <2>4. lfqueueUsed + put < Word
    BY <2>1, <2>2, <2>3 DEF NoOverrun
  <2> QED
    BY <2>2, <2>4 DEF PutPublish
<1>2. (((in + put) % Word) - out) % Word = ((in - out) % Word) + put
  BY <1>1, AdvanceFirst DEF lfqueueUsed
<1> DEFINE a == in + put
<1>3. a \in Int
  BY <1>1
<1> HIDE DEF a
<1>4. a % Word \in 0..(Word - 1)
  BY <1>1, <1>3, Remainder
<1> QED
  BY <1>1, <1>2, <1>4 DEF lfqueueUsed, Counters, IInv, Types, a

LEMMA PutPublishIInv ==
  ASSUME IInv, PutPublish
  PROVE  IInv'
<1>1. /\ Types /\ NoOverrun /\ put \in Nat /\ get \in Nat /\ lfqueueUsed \in Nat
      /\ src = <<>> /\ put' = 0 /\ UNCHANGED <<out, buffer, src, dst, get, delivered>>
  BY UsedType DEF IInv, Types, PutPublish, consumer
<1>2. lfqueueUsed' = lfqueueUsed + put /\ Counters'
  BY PutPublishUsed
<1>3. Types'
  BY <1>1, <1>2, Sizes DEF Types
<1>4. NoOverrun'
  BY <1>1, <1>2, Sizes DEF NoOverrun
<1>5. CopiedIn' /\ CopiedOut'
  BY <1>1 DEF IInv, CopiedIn, CopiedOut
<1> QED
  BY <1>3, <1>4, <1>5 DEF IInv

LEMMA GetBeginIInv ==
  ASSUME IInv, NEW n \in 1..MaxBatch, GetBegin(n)
  PROVE  IInv'
<1>1. /\ Types /\ NoOverrun /\ lfqueueUsed \in Nat /\ lfqueueUsed # 0 /\ MaxBatch \in Nat
      /\ get = 0 /\ dst = <<>>
      /\ UNCHANGED <<in, out, buffer, src, put, dst, delivered>>
  BY Sizes, UsedType DEF IInv, Types, GetBegin, producer
<1>2. get' \in 1..MaxBatch /\ get' <= lfqueueUsed
  BY <1>1, MinOfTwo DEF GetBegin
<1>3. lfqueueUsed' = lfqueueUsed
  BY <1>1 DEF lfqueueUsed
<1> QED
  BY <1>1, <1>2, <1>3 DEF IInv, Types, Counters, NoOverrun, CopiedIn, CopiedOut

LEMMA GetCopyIInv ==
  ASSUME IInv, GetCopy
  PROVE  IInv'
<1> DEFINE n == Len(dst)
           e == buffer[slot(out + n)]
<1>1. /\ Types /\ n \in Nat /\ get \in Nat /\ n < get /\ out \in Int
      /\ UNCHANGED <<in, out, buffer, src, put, get, delivered>>
      /\ dst' = Append(dst, e)
  BY DEF IInv, Types, Counters, GetCopy, producer
<1>2. e \in Data \cup {NoData}
  BY <1>1, SlotType DEF Types
<1> HIDE DEF e
<1>3. /\ dst' \in Seq(Data \cup {NoData}) /\ Len(dst') = n + 1
      /\ dst'[n + 1] = e /\ \A i \in 1..n : dst'[i] = dst[i]
  BY <1>1, <1>2 DEF Types
<1>4. Types'
  BY <1>1, <1>3 DEF Types, Counters
<1>5. NoOverrun' /\ CopiedIn'
  BY <1>1 DEF IInv, NoOverrun, lfqueueUsed, CopiedIn
<1>6. CopiedOut'
  <2> SUFFICES ASSUME NEW i \in 1..(n + 1)
               PROVE  dst'[i] = buffer[slot(out + i - 1)]
    BY <1>1, <1>3 DEF CopiedOut
  <2>1. CASE i = n + 1
    <3>1. out + i - 1 = out + n
      BY <1>1, <2>1
    <3> QED
      BY <1>3, <2>1, <3>1 DEF e
  <2>2. CASE i # n + 1
    BY <1>1, <1>3, <2>2 DEF IInv, CopiedOut
  <2> QED
    BY <2>1, <2>2
<1> QED
  BY <1>4, <1>5, <1>6 DEF IInv

LEMMA GetPublishUsed ==
  ASSUME IInv, GetPublish
  PROVE  lfqueueUsed' = lfqueueUsed - get /\ Counters'
<1>1. /\ in \in Int /\ out \in Int /\ get \in Nat /\ Word \in Nat /\ Word > 0
      /\ get <= lfqueueUsed
      /\ out' = (out + get) % Word /\ in' = in
  BY Sizes DEF IInv, Types, Counters, NoOverrun, GetPublish, producer
<1>2. (in - ((out + get) % Word)) % Word = ((in - out) % Word) - get
  BY <1>1, AdvanceSecond, ZenonT(60) DEF lfqueueUsed
<1> DEFINE a == out + get
<1>3. a \in Int
  BY <1>1
<1> HIDE DEF a
<1>4. a % Word \in 0..(Word - 1)
  BY <1>1, <1>3, Remainder
<1> QED
  BY <1>1, <1>2, <1>4 DEF lfqueueUsed, Counters, IInv, Types, a

LEMMA GetPublishIInv ==
  ASSUME IInv, GetPublish
  PROVE  IInv'
<1>1. /\ Types /\ NoOverrun /\ put \in Nat /\ get \in Nat /\ lfqueueUsed \in Nat
      /\ Size \in Nat /\ MaxBatch \in Nat
      /\ Len(dst) = get /\ delivered' = dst /\ get' = 0 /\ dst' = <<>>
      /\ UNCHANGED <<in, buffer, src, put>>
  BY Sizes, UsedType DEF IInv, Types, GetPublish, producer
<1>2. lfqueueUsed' = lfqueueUsed - get /\ Counters'
  BY GetPublishUsed
<1>3. Types'
  BY <1>1, <1>2 DEF Types
<1>4. NoOverrun'
  BY <1>1, <1>2 DEF NoOverrun
<1>5. CopiedIn' /\ CopiedOut'
  BY <1>1 DEF IInv, CopiedIn, CopiedOut
<1> QED
  BY <1>3, <1>4, <1>5 DEF IInv

LEMMA NextIInv == IInv /\ [Next]_vars => IInv'
<1>1. ASSUME IInv, UNCHANGED vars PROVE IInv'
  BY <1>1 DEF vars, producer, consumer, IInv, Types, Counters, NoOverrun, lfqueueUsed,
              CopiedIn, CopiedOut
<1> QED
  BY <1>1, PutBeginIInv, PutCopyIInv, PutPublishIInv, GetBeginIInv, GetCopyIInv, GetPublishIInv
     DEF Next, Producer, Consumer

LEMMA Inductive == Spec => []IInv
  BY InitIInv, NextIInv, PTL DEF Spec

\* Every variable keeps its type: the counters fit their width however often
\* they wrap, and no batch is longer than was announced.
THEOREM TypeCorrect == Spec => []TypeOK
<1>1. IInv => TypeOK
  BY TypesAre DEF IInv
<1> QED
  BY <1>1, Inductive, PTL

\* However old the counters are that lfqueuePut and lfqueueGet have read, the
\* one never overruns the other.
THEOREM NoOverrunHolds == Spec => []NoOverrun
<1>1. IInv => NoOverrun
  BY DEF IInv
<1> QED
  BY <1>1, Inductive, PTL

\* lfqueuePut never fills a slot that lfqueueGet is emptying.
THEOREM SlotsDisjointHolds == Spec => []SlotsDisjoint
<1>1. IInv => SlotsDisjoint
  <2> SUFFICES ASSUME IInv, NEW i \in 0..(put - 1), NEW j \in 0..(get - 1),
                      slot(in + i) = slot(out + j)
               PROVE  FALSE
    BY DEF SlotsDisjoint, Filling, Emptying
  <2> DEFINE a == out + j
             b == out + lfqueueUsed + i
  <2>1. /\ Counters /\ NoOverrun /\ out \in Int /\ put \in Nat /\ get \in Nat
        /\ lfqueueUsed \in Nat /\ Size \in Nat
    BY Sizes, UsedType DEF IInv, Types, Counters
  <2>2. a \in Int /\ b \in Int /\ a < b /\ b - a < Size
    BY <2>1 DEF NoOverrun
  <2>3. slot(in + i) = slot(b)
    BY <2>1, SlotOfIn
  <2> HIDE DEF a, b
  <2>4. slot(a) # slot(b)
    BY <2>2, SlotApart
  <2> QED
    BY <2>3, <2>4 DEF a
<1> QED
  BY <1>1, Inductive, PTL
-----------------------------------------------------------------------------
(***************************************************************************)
(* The refinement: an element enters Content when lfqueuePut publishes it  *)
(* and leaves it when lfqueueGet does; no other step changes Content.      *)
(***************************************************************************)
Element == Data \cup {NoData}

\* Content as a sequence.
LEMMA ContentIs ==
  IInv => /\ lfqueueUsed \in Nat
          /\ Content \in Seq(Element) /\ Len(Content) = lfqueueUsed
          /\ \A i \in 1..lfqueueUsed : Content[i] = buffer[slot(out + i - 1)]
<1> SUFFICES ASSUME IInv
             PROVE  /\ lfqueueUsed \in Nat
                    /\ Content \in Seq(Element) /\ Len(Content) = lfqueueUsed
                    /\ \A i \in 1..lfqueueUsed : Content[i] = buffer[slot(out + i - 1)]
  OBVIOUS
<1>1. Types /\ out \in Int /\ lfqueueUsed \in Nat
  BY Sizes, UsedType DEF IInv, Types, Counters
<1>2. \A i \in 1..lfqueueUsed : buffer[slot(out + i - 1)] \in Element
  <2> SUFFICES ASSUME NEW i \in 1..lfqueueUsed PROVE buffer[slot(out + i - 1)] \in Element
    OBVIOUS
  <2>1. out + i - 1 \in Int
    BY <1>1
  <2>2. slot(out + i - 1) \in Slot
    BY <2>1, SlotType
  <2> QED
    BY <1>1, <2>2 DEF Types, Element
<1> QED
  BY <1>1, <1>2 DEF Content

\* ContentIs after a step.
LEMMA ContentIsNext ==
  IInv' => /\ lfqueueUsed' \in Nat
           /\ Content' \in Seq(Element) /\ Len(Content') = lfqueueUsed'
           /\ \A i \in 1..lfqueueUsed' : Content'[i] = buffer'[slot(out' + i - 1)]
<1>1. (IInv => /\ lfqueueUsed \in Nat
               /\ Content \in Seq(Element) /\ Len(Content) = lfqueueUsed
               /\ \A i \in 1..lfqueueUsed : Content[i] = buffer[slot(out + i - 1)])'
  BY ContentIs, PTL
<1> QED
  BY <1>1 DEF Element, slot

\* A step that touches neither counter keeps Content when it keeps its slots.
LEMMA ContentKept ==
  ASSUME IInv, UNCHANGED <<in, out>>,
         \A j \in 0..(lfqueueUsed - 1) : buffer'[slot(out + j)] = buffer[slot(out + j)]
  PROVE  Content' = Content
<1>1. lfqueueUsed \in Nat /\ out \in Int /\ lfqueueUsed' = lfqueueUsed
  BY ContentIs DEF IInv, Types, Counters, lfqueueUsed
<1>2. \A i \in 1..lfqueueUsed : buffer'[slot(out + i - 1)] = buffer[slot(out + i - 1)]
  <2> SUFFICES ASSUME NEW i \in 1..lfqueueUsed
               PROVE  buffer'[slot(out + i - 1)] = buffer[slot(out + i - 1)]
    OBVIOUS
  <2>1. i - 1 \in 0..(lfqueueUsed - 1) /\ out + i - 1 = out + (i - 1)
    BY <1>1
  <2> QED
    BY <2>1
<1> QED
  BY <1>1, <1>2 DEF Content

LEMMA InitFifo == Init => F!Init
<1> SUFFICES ASSUME Init PROVE Content = <<>> /\ delivered = <<>>
  BY DEF F!Init
<1>1. IInv
  BY InitIInv
<1>2. lfqueueUsed = 0
  <2>1. Word \in Nat /\ Word > 0
    BY Sizes
  <2>2. (in - out) % Word = 0
    BY <2>1 DEF Init
  <2> QED
    BY <2>2 DEF lfqueueUsed
<1>3. Content \in Seq(Element) /\ Len(Content) = 0
  BY <1>1, <1>2, ContentIs
<1> QED
  BY <1>3, EmptySeq DEF Init

\* Publishing what lfqueuePut has copied appends it to Content.
LEMMA PutPublishFifo ==
  ASSUME IInv, PutPublish
  PROVE  F!Put
<1> DEFINE batch == [i \in 1..put |-> buffer[slot(in + i - 1)]]
<1>1. /\ Types /\ NoOverrun /\ Counters /\ put \in 1..MaxBatch /\ in \in Int /\ out \in Int
      /\ MaxBatch \in Nat /\ Size \in Nat
      /\ src = <<>> /\ UNCHANGED <<out, buffer, delivered>>
  BY Sizes DEF IInv, Types, Counters, PutPublish
<1>2. \A i \in 1..put : buffer[slot(in + i - 1)] \in Data
  <2> SUFFICES ASSUME NEW i \in 1..put PROVE buffer[slot(in + i - 1)] \in Data
    OBVIOUS
  <2>1. i - 1 \in 0..(put - Len(src) - 1) /\ in + i - 1 = in + (i - 1)
    BY <1>1
  <2>2. buffer[slot(in + (i - 1))] \in Data
    BY <2>1 DEF IInv, CopiedIn
  <2> QED
    BY <2>1, <2>2
<1>3. batch \in [1..put -> Data] /\ batch \in Seq(Data) /\ Len(batch) = put
  <2>1. put \in Nat
    BY <1>1
  <2>2. batch \in [1..put -> Data]
    BY <1>2
  <2> HIDE DEF batch
  <2> QED
    BY <2>1, <2>2
<1>4. batch \in F!Batch
  <2>1. batch # <<>>
    BY <1>1, <1>3
  <2> HIDE DEF batch
  <2>2. batch \in BoundedSeq(Data, MaxBatch)
    BY <1>1, <1>3, BoundedSeqIs
  <2> QED
    BY <2>1, <2>2 DEF F!Batch, F!BoundedSeq, F!SeqOf, BoundedSeq, SeqOf
<1>5. /\ lfqueueUsed \in Nat /\ Content \in Seq(Element) /\ Len(Content) = lfqueueUsed
      /\ \A i \in 1..lfqueueUsed : Content[i] = buffer[slot(out + i - 1)]
  BY ContentIs
<1>6. /\ Content' \in Seq(Element) /\ Len(Content') = lfqueueUsed + put
      /\ \A i \in 1..(lfqueueUsed + put) : Content'[i] = buffer[slot(out + i - 1)]
  <2>1. IInv' /\ lfqueueUsed' = lfqueueUsed + put
    BY PutPublishIInv, PutPublishUsed
  <2> QED
    BY <1>1, <2>1, ContentIsNext
<1>7. \A i \in 1..put : batch[i] = buffer[slot(out + (lfqueueUsed + i) - 1)]
  <2> SUFFICES ASSUME NEW i \in 1..put
               PROVE  buffer[slot(in + i - 1)] = buffer[slot(out + (lfqueueUsed + i) - 1)]
    OBVIOUS
  <2> DEFINE k == i - 1
  <2>1. /\ k \in Int /\ in + i - 1 = in + k
        /\ out + (lfqueueUsed + i) - 1 = out + lfqueueUsed + k
    BY <1>1, <1>5
  <2> HIDE DEF k
  <2>2. slot(in + k) = slot(out + lfqueueUsed + k)
    BY <1>1, <2>1, SlotOfIn
  <2> QED
    BY <2>1, <2>2
<1> HIDE DEF batch
<1>8. Content' = Content \o batch
  <2>1. batch \in Seq(Element)
    BY <1>3 DEF Element
  <2>2. /\ Content \o batch \in Seq(Element)
        /\ Len(Content \o batch) = lfqueueUsed + put
        /\ \A i \in 1..(lfqueueUsed + put) : (Content \o batch)[i] =
              IF i <= lfqueueUsed THEN Content[i] ELSE batch[i - lfqueueUsed]
    BY <1>3, <1>5, <2>1, ConcatProperties
  <2>3. ASSUME NEW i \in 1..(lfqueueUsed + put)
        PROVE  Content'[i] = (Content \o batch)[i]
    <3>1. CASE i <= lfqueueUsed
      <4>1. i \in 1..lfqueueUsed
        BY <1>5, <3>1
      <4>2. (Content \o batch)[i] = Content[i]
        BY <2>2, <3>1
      <4>3. Content[i] = buffer[slot(out + i - 1)]
        BY <1>5, <4>1
      <4>4. Content'[i] = buffer[slot(out + i - 1)]
        BY <1>6
      <4> QED
        BY <4>2, <4>3, <4>4
    <3>2. CASE ~(i <= lfqueueUsed)
      <4> DEFINE k == i - lfqueueUsed
      <4>1. k \in 1..put /\ lfqueueUsed + k = i
        BY <1>1, <1>5, <3>2
      <4>2. (Content \o batch)[i] = batch[k]
        BY <2>2, <3>2
      <4> HIDE DEF k
      <4>3. batch[k] = buffer[slot(out + i - 1)]
        BY <1>7, <4>1
      <4> QED
        BY <1>6, <4>2, <4>3
    <3> QED
      BY <3>1, <3>2
  <2> QED
    BY <1>6, <2>2, <2>3, SeqEqual
<1>9. Len(Content) + Len(batch) <= Size
  BY <1>1, <1>3, <1>5 DEF NoOverrun
<1> QED
  BY <1>1, <1>4, <1>8, <1>9 DEF F!Put

\* Publishing what lfqueueGet has copied takes it from the front of Content.
LEMMA GetPublishFifo ==
  ASSUME IInv, GetPublish
  PROVE  F!Get
<1>1. /\ Types /\ NoOverrun /\ Counters /\ get \in 1..MaxBatch /\ out \in Int
      /\ MaxBatch \in Nat /\ Size \in Nat /\ Word \in Nat /\ Word > 0
      /\ Len(dst) = get /\ dst \in Seq(Element) /\ delivered' = dst
      /\ out' = (out + get) % Word /\ buffer' = buffer
  BY Sizes DEF IInv, Types, Counters, GetPublish, Element
<1>2. /\ lfqueueUsed \in Nat /\ Content \in Seq(Element) /\ Len(Content) = lfqueueUsed
      /\ \A i \in 1..lfqueueUsed : Content[i] = buffer[slot(out + i - 1)]
  BY ContentIs
<1>3. /\ Content' \in Seq(Element) /\ Len(Content') = lfqueueUsed - get
      /\ \A i \in 1..(lfqueueUsed - get) : Content'[i] = buffer[slot(out' + i - 1)]
  <2>1. IInv' /\ lfqueueUsed' = lfqueueUsed - get
    BY GetPublishIInv, GetPublishUsed
  <2> QED
    BY <1>1, <2>1, ContentIsNext
<1>4. get \in 1..lfqueueUsed
  BY <1>1, <1>2 DEF NoOverrun
<1>5. dst = SubSeq(Content, 1, get)
  <2>1. \A i \in 1..get : Content[i] \in Element
    BY <1>2, <1>4
  <2>2. /\ SubSeq(Content, 1, get) \in Seq(Element)
        /\ Len(SubSeq(Content, 1, get)) = get
        /\ \A i \in 1..get : SubSeq(Content, 1, get)[i] = Content[i]
    <3>1. /\ SubSeq(Content, 1, get) \in Seq(Element)
          /\ Len(SubSeq(Content, 1, get)) = IF 1 <= get THEN get - 1 + 1 ELSE 0
          /\ \A i \in 1..(get - 1 + 1) : SubSeq(Content, 1, get)[i] = Content[1 + i - 1]
      BY <1>4, <2>1, SubSeqProperties
    <3> QED
      BY <1>4, <3>1
  <2>3. \A i \in 1..get : dst[i] = Content[i]
    BY <1>1, <1>2, <1>4 DEF IInv, CopiedOut
  <2> QED
    BY <1>1, <2>2, <2>3, SeqEqual
<1>6. Content' = SubSeq(Content, get + 1, Len(Content))
  <2> DEFINE m == get + 1
             n == Len(Content)
             rest == SubSeq(Content, m, n)
  <2>1. /\ m \in Int /\ n \in Int /\ n - m + 1 = lfqueueUsed - get /\ m \in 1..(n + 1)
        /\ \A i \in m..n : Content[i] \in Element
    <3>1. n = lfqueueUsed /\ n \in Nat /\ get \in 1..n
      BY <1>2, <1>4
    <3>2. m \in 1..(n + 1) /\ n - m + 1 = n - get
      BY <3>1
    <3>3. \A i \in m..n : i \in 1..n
      BY <3>1
    <3>4. \A i \in 1..n : Content[i] \in Element
      BY <1>2
    <3> HIDE DEF m, n
    <3> QED
      BY <3>1, <3>2, <3>3, <3>4
  <2>2. /\ rest \in Seq(Element)
        /\ Len(rest) = IF m <= n THEN n - m + 1 ELSE 0
        /\ \A i \in 1..(n - m + 1) : rest[i] = Content[m + i - 1]
    <3> HIDE DEF m, n
    <3> QED
      BY <2>1, SubSeqProperties
  <2>3. Len(rest) = lfqueueUsed - get
    <3>1. m <= n \/ (m = n + 1 /\ n - m + 1 = 0)
      BY <2>1
    <3> QED
      BY <2>1, <2>2, <3>1
  <2>4. ASSUME NEW i \in 1..(lfqueueUsed - get)
        PROVE  Content'[i] = rest[i]
    <3> DEFINE a == out + get
               k == i - 1
               j == m + i - 1
    <3>1. /\ a \in Int /\ k \in Int /\ j \in 1..lfqueueUsed
          /\ out + j - 1 = a + k
          /\ out' = a % Word
      BY <1>1, <1>2, <1>4
    <3>2. a % Word \in Int
      BY <1>1, <3>1, Remainder
    <3>3. out' + i - 1 = (a % Word) + k
      BY <3>1, <3>2
    <3>4. rest[i] = Content[j]
      BY <2>1, <2>2
    <3> HIDE DEF a, k, j, rest, m, n
    <3>5. slot((a % Word) + k) = slot(a + k)
      BY <3>1, SlotOfRemainder
    <3>6. Content[j] = buffer[slot(a + k)]
      BY <1>2, <3>1
    <3> QED
      BY <1>3, <3>3, <3>4, <3>5, <3>6
  <2> HIDE DEF rest
  <2>5. Content' = rest
    BY <1>3, <2>2, <2>3, <2>4, SeqEqual
  <2> QED
    BY <2>5 DEF rest
<1>7. get \in 1..Len(Content) /\ get <= MaxBatch
  BY <1>1, <1>2, <1>4
<1>8. delivered' = SubSeq(Content, 1, get)
  BY <1>1, <1>5
<1> QED
  BY <1>6, <1>7, <1>8, Zenon DEF F!Get

LEMMA NextFifo ==
  ASSUME IInv, [Next]_vars
  PROVE  [F!Put \/ F!Get]_<<Content, delivered>>
<1>1. ASSUME UNCHANGED <<in, out, buffer, delivered>>
      PROVE  UNCHANGED <<Content, delivered>>
  BY <1>1, ContentKept
<1>2. ASSUME UNCHANGED vars PROVE UNCHANGED <<Content, delivered>>
  BY <1>1, <1>2 DEF vars
<1>3. ASSUME NEW batch \in Batch, PutBegin(batch) PROVE UNCHANGED <<Content, delivered>>
  BY <1>1, <1>3 DEF PutBegin
<1>4. ASSUME PutCopy PROVE UNCHANGED <<Content, delivered>>
  <2>1. UNCHANGED <<in, out, delivered>>
    BY <1>4 DEF PutCopy
  <2>2. \A j \in 0..(lfqueueUsed - 1) : buffer'[slot(out + j)] = buffer[slot(out + j)]
    BY <1>4, CopyKeeps
  <2>3. Content' = Content
    BY <2>1, <2>2, ContentKept
  <2> QED
    BY <2>1, <2>3
<1>5. ASSUME NEW n \in 1..MaxBatch, GetBegin(n) PROVE UNCHANGED <<Content, delivered>>
  BY <1>1, <1>5 DEF GetBegin
<1>6. ASSUME GetCopy PROVE UNCHANGED <<Content, delivered>>
  BY <1>1, <1>6 DEF GetCopy
<1> QED
  BY <1>2, <1>3, <1>4, <1>5, <1>6, PutPublishFifo, GetPublishFifo
     DEF Next, Producer, Consumer

\* The two calls implement the bounded first-in first-out queue of Fifo: every
\* element that lfqueuePut accepted is delivered once, in order and unchanged.
THEOREM IsFifoHolds == Spec => IsFifo
<1>1. Init => F!Init
  BY InitFifo
<1>2. IInv /\ [Next]_vars => [F!Put \/ F!Get]_<<Content, delivered>>
  BY NextFifo
<1> QED
  BY <1>1, <1>2, Inductive, PTL DEF Spec, IsFifo, F!Spec
=============================================================================
