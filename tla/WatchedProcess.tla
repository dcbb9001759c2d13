--------------------------- MODULE WatchedProcess ----------------------------
(***************************************************************************)
(* The process that is watched: its threads, its mutexes, and whether it   *)
(* is still running.  dlChecker lives inside the program it watches, so a  *)
(* failed assert() of the checker or of an interposed lock function takes  *)
(* the whole program down; every action of every module is guarded by      *)
(* Running.  The reason of the abort is kept apart because the properties  *)
(* tell the reasons apart:                                                 *)
(*   "assertion"  a consistency check of the code found its own state      *)
(*                inconsistent;                                            *)
(*   "poolEmpty"  a fixed memory pool had no block left;                   *)
(*   "queueFull"  a thread's event queue had no slot left.                 *)
(***************************************************************************)
CONSTANTS Thread, Mutex, NoThread, NoMutex

\* NoThread and NoMutex are the NULL of the two kinds.
ASSUME ProcessAssumption ==
  /\ NoThread \notin Thread \cup Mutex
  /\ NoMutex \notin Thread \cup Mutex
  /\ Thread \cap Mutex = {}

VARIABLE abort

AbortReason == {"none", "assertion", "poolEmpty", "queueFull"}

Running == abort = "none"
=============================================================================
