---------------------------- MODULE MCOtherCalls ----------------------------
(* Instances of OtherCalls for TLC. *)
EXTENDS OtherCalls, TLC

CONSTANTS t1, t2, t3, a, b, none

MCThread2 == {t1, t2}
MCThread3 == {t1, t2, t3}
MCMutex2  == {a, b}
MCMutexA  == {a}
MCMutexB  == {b}
=============================================================================
