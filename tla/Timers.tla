------------------------------- MODULE Timers -------------------------------
(***************************************************************************)
(* The checker thread's two timers (trait.c, timer.c): one for the search  *)
(* for deadlocks, one for the collection of ended threads.  Time is a      *)
(* counter up to MaxTime that may advance between any two steps; the       *)
(* checker sleeps as long as it likes, since usleep may oversleep and is   *)
(* given milliseconds as microseconds.                                     *)
(***************************************************************************)
EXTENDS WatchedProcess, Integers, Sequences

CONSTANTS
  Period, GcPeriod,   \* PERIOD_OF_DLCHECKER and 100 times that
  Indeterminate,      \* what config.period may hold before it is set
  MaxTime             \* bound on the clock

VARIABLES
  clock,    \* timeInMilliseconds, since the checker read it first
  timers,   \* the list, in order
  now,      \* the time by which dlcTimerProc fires, or -1 outside it
  ahead     \* how many timers of the list it has passed

vars == <<abort, clock, timers, now, ahead>>

Init ==
  /\ abort = "none"
  /\ clock = 0
  /\ timers = <<>>
  /\ now = -1
  /\ ahead = 0

dlcTimerCreate(list, func, period, when) ==
  Append(list, [func |-> func, args |-> NoThread,
                period |-> period, whenMs |-> when, cycle |-> TRUE])

\* The beginning of checker().  The first timer's whenMs is computed from
\* config.period inside the initialiser of config itself.
checker ==
  /\ Running
  /\ timers = <<>>
  /\ \E unset \in Indeterminate :
       timers' = dlcTimerCreate(dlcTimerCreate(timers, "check", Period, unset),
                                "gc", GcPeriod, GcPeriod)
  /\ UNCHANGED <<abort, clock, now, ahead>>

Tick ==
  /\ Running
  /\ clock < MaxTime
  /\ clock' = clock + 1
  /\ UNCHANGED <<abort, timers, now, ahead>>

\* After eventLoopEnter, the checker calls dlcTimerProc.
dlcTimerProc ==
  /\ Running
  /\ timers # <<>> /\ now = -1
  /\ now' = clock
  /\ ahead' = 0
  /\ UNCHANGED <<abort, clock, timers>>

\* gcDestroyedThreads stops at assert(cb != NULL) if its argument is NULL;
\* what follows is not reached in the program as it is.
gcTimerProc(args) == IF args = NoThread THEN "assertion" ELSE abort

dlcTimerUpdate(i) == [timers EXCEPT ![i].whenMs = @ + timers[i].period]

\* One turn of the loop for a timer that is due.  A timer that is not
\* cyclic would be taken out of the list; the program makes none.
Fire ==
  LET i == ahead + 1
  IN  /\ Running
      /\ now # -1 /\ i <= Len(timers)
      /\ timers[i].whenMs <= now
      /\ abort' = IF timers[i].func = "gc" THEN gcTimerProc(timers[i].args)
                                           ELSE abort
      /\ timers' = IF Running' THEN dlcTimerUpdate(i) ELSE timers
      /\ ahead' = i
      /\ UNCHANGED <<clock, now>>

Pass ==
  /\ Running
  /\ now # -1 /\ ahead < Len(timers)
  /\ timers[ahead + 1].whenMs > now
  /\ ahead' = ahead + 1
  /\ UNCHANGED <<abort, clock, timers, now>>

\* The end of the list: the checker sleeps and returns to its loop.
Sleep ==
  /\ Running
  /\ now # -1 /\ ahead = Len(timers)
  /\ now' = -1
  /\ UNCHANGED <<abort, clock, timers, ahead>>

Next == checker \/ Tick \/ dlcTimerProc \/ Fire \/ Pass \/ Sleep

Spec == Init /\ [][Next]_vars
-----------------------------------------------------------------------------
\* The README (2.4) has the checker run in the background and process events
\* for ever: nothing it does by the clock may end the monitored program.
TimersNeverAbort == Running
=============================================================================
