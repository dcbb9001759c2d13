----------------------------- MODULE MCDetector -----------------------------
(* Instances of Detector for TLC. *)
EXTENDS Detector, TLC

CONSTANTS t1, t2, t3, a, b, none

MCThread2 == {t1, t2}
MCThread3 == {t1, t2, t3}
MCMutex2  == {a, b}

\* Threads are alike and mutexes are alike; only safety is checked.
Alike3 == Permutations(MCThread3) \cup Permutations(MCMutex2)
=============================================================================
