------------------------------ MODULE LFQueue ------------------------------
(***************************************************************************)
(* The lock-free queue of lfqueue.c between one producer and one consumer. *)
(* Both run lfqueuePut and lfqueueGet step by step and at the same time:   *)
(* read the two counters, copy the elements slot by slot, publish by       *)
(* advancing a counter of one's own.  The counters are uint32_t: they grow *)
(* modulo Word and are never reset.                                        *)
(* Memory is sequentially consistent here; LFQueueWeak drops that.         *)
(***************************************************************************)
EXTENDS Integers, Sequences, SequencesExt, FiniteSetsExt

CONSTANTS
  Data,        \* the elements
  NoData,      \* what an unused slot holds
  Requested,   \* the size lfqueueInit is called with
  Word,        \* 2^32
  MaxBatch     \* bound on the elements of one call

\* __rounddown_pow_of_two
rounddown_pow_of_two(n) == Max({p \in 1..n : \E k \in 0..n : p = 2^k})

\* lfqueueInit: the mask in & (size - 1) needs a power of two.
Size == rounddown_pow_of_two(Requested)

ASSUME QueueAssumption ==
  /\ Requested \in Nat /\ Requested >= 2
  /\ Word \in Nat /\ Word > Size /\ Word % Size = 0
  /\ MaxBatch \in Nat \ {0}
  /\ NoData \notin Data

VARIABLES
  in, out,        \* the counters of queue
  buffer,         \* its slots
  src, put,       \* lfqueuePut: what is left to copy, how much it accepted
  dst, get,       \* lfqueueGet: what was copied, how much it will take
  delivered       \* the last batch that lfqueueGet returned

producer == <<src, put>>
consumer == <<dst, get>>
vars == <<in, out, buffer, producer, consumer, delivered>>

Slot == 0..(Size - 1)
Batch == BoundedSeq(Data, MaxBatch) \ {<<>>}

lfqueueUsed  == (in - out) % Word
\* Faulty variant: one slot too many.
lfqueueAvailPlusOne == (Size + 1 - lfqueueUsed) % Word

lfqueueAvail == (Size - lfqueueUsed) % Word

slot(counter) == counter % Size

\* The types: counters that wrap, batches that are no longer than announced.
TypeOK ==
  /\ in \in 0..(Word - 1) /\ out \in 0..(Word - 1)
  /\ buffer \in [Slot -> Data \cup {NoData}]
  /\ src \in Batch \cup {<<>>}
  /\ put \in 0..MaxBatch /\ Len(src) <= put
  /\ get \in 0..MaxBatch
  /\ dst \in BoundedSeq(Data \cup {NoData}, MaxBatch) /\ Len(dst) <= get
  /\ delivered \in BoundedSeq(Data \cup {NoData}, MaxBatch)

Init ==
  /\ in = 0 /\ out = 0
  /\ buffer = [s \in Slot |-> NoData]
  /\ src = <<>> /\ put = 0
  /\ dst = <<>> /\ get = 0
  /\ delivered = <<>>
-----------------------------------------------------------------------------
(* lfqueuePut; put = 0 between two calls *)

\* Faulty variant: the batch is not cut to the space there is.
PutBeginUncut(batch) ==
  /\ put = 0
  /\ lfqueueAvail # 0
  /\ put' = Len(batch)
  /\ src' = batch
  /\ UNCHANGED <<in, out, buffer, consumer, delivered>>

\* A full queue makes the call return 0 at once; a batch that does not fit
\* loses its tail.
PutBegin(batch) ==
  /\ put = 0
  /\ lfqueueAvail # 0
  /\ put' = Min({Len(batch), lfqueueAvail})
  /\ src' = SubSeq(batch, 1, put')
  /\ UNCHANGED <<in, out, buffer, consumer, delivered>>

PutCopy ==
  /\ src # <<>>
  /\ buffer' = [buffer EXCEPT ![slot(in + put - Len(src))] = Head(src)]
  /\ src' = Tail(src)
  /\ UNCHANGED <<in, out, put, consumer, delivered>>

\* Faulty variant: the counter is advanced before the elements are there.
PutPublishEarly ==
  /\ put # 0
  /\ in' = (in + put) % Word
  /\ put' = 0
  /\ UNCHANGED <<out, buffer, src, consumer, delivered>>

PutPublish ==
  /\ put # 0 /\ src = <<>>
  /\ in' = (in + put) % Word
  /\ put' = 0
  /\ UNCHANGED <<out, buffer, src, consumer, delivered>>
-----------------------------------------------------------------------------
(* lfqueueGet; get = 0 between two calls *)

GetBegin(n) ==
  /\ get = 0
  /\ lfqueueUsed # 0
  /\ get' = Min({n, lfqueueUsed})
  /\ UNCHANGED <<in, out, buffer, producer, dst, delivered>>

GetCopy ==
  /\ Len(dst) < get
  /\ dst' = Append(dst, buffer[slot(out + Len(dst))])
  /\ UNCHANGED <<in, out, buffer, producer, get, delivered>>

\* Faulty variant: the counter does not wrap.
GetPublishWide ==
  /\ get # 0 /\ Len(dst) = get
  /\ out' = out + get
  /\ delivered' = dst
  /\ get' = 0
  /\ dst' = <<>>
  /\ UNCHANGED <<in, buffer, producer>>

GetPublish ==
  /\ get # 0 /\ Len(dst) = get
  /\ out' = (out + get) % Word
  /\ delivered' = dst
  /\ get' = 0
  /\ dst' = <<>>
  /\ UNCHANGED <<in, buffer, producer>>
-----------------------------------------------------------------------------
Producer == PutCopy \/ PutPublish \/ \E batch \in Batch : PutBegin(batch)
Consumer == GetCopy \/ GetPublish \/ \E n \in 1..MaxBatch : GetBegin(n)

Next == Producer \/ Consumer

Spec == Init /\ [][Next]_vars
-----------------------------------------------------------------------------
\* The two sides never touch the same slot at the same time: a slot that is
\* being filled is not one that is being emptied, however the counters wrap.
Filling  == {slot(in + i) : i \in 0..(put - 1)}
Emptying == {slot(out + i) : i \in 0..(get - 1)}

SlotsDisjoint == Filling \cap Emptying = {}

\* A call relies on counters that it read before it began to copy.  They may be
\* old when it uses them, but never so that the producer overruns the consumer
\* or the consumer the producer.
NoOverrun ==
  /\ lfqueueUsed + put <= Size
  /\ get <= lfqueueUsed

\* The published elements, oldest first.
Content == [i \in 1..lfqueueUsed |-> buffer[slot(out + i - 1)]]

F == INSTANCE Fifo WITH content <- Content, Capacity <- Size

\* lfqueuePut and lfqueueGet together are a first-in first-out queue: every
\* element that a put accepted is delivered once, in order and unchanged.
IsFifo == F!Spec
=============================================================================
