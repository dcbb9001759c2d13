---------------------------- MODULE LFQueueWeak ----------------------------
(***************************************************************************)
(* The queue of LFQueue on a processor that does not keep loads in order   *)
(* (an AArch64; an x86 does keep them).  lfqueueGet has a release fence    *)
(* before it advances out, but nothing between its load of in and its      *)
(* loads of the slots, so the processor may do these first: the call then  *)
(* sees a slot as it was at some moment since the fence of the call        *)
(* before.  Stores and the loads of lfqueuePut stay in order: a fence and  *)
(* a control dependency see to that.                                       *)
(***************************************************************************)
EXTENDS LFQueue

VARIABLE ahead   \* the slots as they were when loaded ahead of the counters

weakVars == <<vars, ahead>>

WeakInit == Init /\ ahead = buffer

LoadAhead ==
  /\ get = 0
  /\ ahead' = buffer
  /\ UNCHANGED vars

WeakGetCopy ==
  /\ Len(dst) < get
  /\ LET s == slot(out + Len(dst))
     IN  \E v \in {buffer[s], ahead[s]} : dst' = Append(dst, v)
  /\ UNCHANGED <<in, out, buffer, producer, get, delivered, ahead>>

\* The fence ends the loads of this call.
WeakGetPublish == GetPublish /\ ahead' = buffer

WeakNext ==
  \/ Producer /\ UNCHANGED ahead
  \/ \E n \in 1..MaxBatch : GetBegin(n) /\ UNCHANGED ahead
  \/ LoadAhead \/ WeakGetCopy \/ WeakGetPublish

WeakSpec == WeakInit /\ [][WeakNext]_weakVars
=============================================================================
