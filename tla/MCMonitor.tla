----------------------------- MODULE MCMonitor -----------------------------
(* Instances of Monitor for TLC. *)
EXTENDS Monitor, TLC

CONSTANTS t1, t2, t3, a, b, none

MCThread2 == {t1, t2}
MCThread3 == {t1, t2, t3}
MCMutex1  == {a}
MCMutex2  == {a, b}
=============================================================================
