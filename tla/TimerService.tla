---------------------------- MODULE TimerService ----------------------------
(***************************************************************************)
(* What the rest of lispd expects of lib/timers.c: a timer started with a  *)
(* duration of d seconds calls its function d ticks later, unless it is    *)
(* restarted or stopped before.  There is no wheel here, only the number   *)
(* of ticks that every running timer still has to wait.  Nothing is        *)
(* promised of durations that are not in 1 .. Turn - 1.                    *)
(***************************************************************************)
EXTENDS Integers

CONSTANTS Timers,     \* the timers the program may allocate
          Durations,  \* the durations, in seconds, given to lmtimer_start
          Turn,       \* shorter durations are exact
          NULL        \* not a timer, not a number

VARIABLES remaining,  \* remaining[t]: ticks left to wait, or Sometime; NULL if t is
                      \* not running
          firing      \* the timer whose callback is executing, or NULL

svars == <<remaining, firing>>

\* The ticks left of a timer of which nothing is promised.
Sometime == -1

Running == {t \in Timers : remaining[t] # NULL}

SInit ==
    /\ remaining = [t \in Timers |-> NULL]
    /\ firing = NULL

\* A running timer may be started again: the old deadline is forgotten.
SStart(t, d) ==
    /\ remaining' = [remaining EXCEPT ![t] = IF d \in 1 .. Turn - 1 THEN d ELSE Sometime]
    /\ UNCHANGED firing

SStop(t) ==
    /\ remaining' = [remaining EXCEPT ![t] = NULL]
    /\ UNCHANGED firing

\* A second passes, once every timer that was due has been served.
STick ==
    /\ firing = NULL
    /\ \A t \in Running : remaining[t] # 0
    /\ remaining' = [t \in Timers |-> IF t \in Running /\ remaining[t] # Sometime
                                      THEN remaining[t] - 1 ELSE remaining[t]]
    /\ UNCHANGED firing

\* Only a timer that has waited for its whole duration calls its function.
SFire(t) ==
    /\ firing = NULL
    /\ t \in Running
    /\ remaining[t] \in {0, Sometime}
    /\ remaining' = [remaining EXCEPT ![t] = NULL]
    /\ firing' = t

SReturn ==
    /\ firing # NULL
    /\ firing' = NULL
    /\ UNCHANGED remaining

SNext ==
    \/ \E t \in Timers : \/ \E d \in Durations : SStart(t, d)
                         \/ SStop(t)
                         \/ SFire(t)
    \/ STick
    \/ SReturn

SSpec == SInit /\ [][SNext]_svars

=============================================================================
