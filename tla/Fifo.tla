-------------------------------- MODULE Fifo --------------------------------
(***************************************************************************)
(* What an event queue promises: a bounded first-in first-out queue that   *)
(* one thread puts batches into and another takes batches from.  A batch   *)
(* may be accepted in part, from its front.                                *)
(***************************************************************************)
EXTENDS Integers, Sequences, SequencesExt

CONSTANTS Data, Capacity, MaxBatch

VARIABLES
  content,     \* what is in the queue
  delivered    \* the last batch that was taken

Batch == BoundedSeq(Data, MaxBatch) \ {<<>>}

Init == content = <<>> /\ delivered = <<>>

Put == \E batch \in Batch :
  /\ Len(content) + Len(batch) <= Capacity
  /\ content' = content \o batch
  /\ UNCHANGED delivered

Get == \E n \in 1..Len(content) :
  /\ n <= MaxBatch
  /\ delivered' = SubSeq(content, 1, n)
  /\ content' = SubSeq(content, n + 1, Len(content))

Spec == Init /\ [][Put \/ Get]_<<content, delivered>>
=============================================================================
