----------------------------- MODULE MCRegistry -----------------------------
(* Instances of Registry for TLC. *)
EXTENDS Registry, TLC

CONSTANTS t1, t2, t3, none, one

MCThread2 == {t1, t2}
MCThread3 == {t1, t2, t3}
\* Ids 1 and 3 share a bucket of a table of two.
MCTid     == 1..3
Cleared   == {[key |-> 0, value |-> none]}
\* A freed entry of requestThreadMap, which maps addresses to 1.
MCAddress == {4, 5}
Reused    == {[key |-> i, value |-> one] : i \in MCAddress}
MCFresh   == Cleared \cup Reused
=============================================================================
