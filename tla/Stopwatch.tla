----------------------------- MODULE Stopwatch -----------------------------
(***************************************************************************)
(* What session.c uses interval_compare() for: a timer is started at a     *)
(* reading of the monotonic clock, restarted at later ones as the clock    *)
(* moves on, and compared with an interval.                                *)
(***************************************************************************)
EXTENDS Clock

CONSTANTS Readings,  \* what clock_gettime() may return
          Waits      \* the intervals asked about, in seconds

ASSUME StopwatchAssumption == Readings \subseteq Timespec /\ Waits \subseteq Nat

VARIABLES started, reading, awaited

timer == <<started, reading, awaited>>

TimerInit == started \in Readings /\ reading = started /\ awaited \in Waits

\* clock_gettime(), some time later.
ClockMoves ==
  /\ \E later \in Readings : Ticks(later) > Ticks(reading) /\ reading' = later
  /\ UNCHANGED <<started, awaited>>

\* last_sent_time = now_time
TimerRestarts == started # reading /\ started' = reading /\ UNCHANGED <<reading, awaited>>

TimerNext == ClockMoves \/ TimerRestarts

TimerSpec == TimerInit /\ [][TimerNext]_timer

\* interval_compare() compares the time since the timer was started with the
\* interval awaited, borrowing a second where the fractions call for it.
TimerExact == ComparesElapsedTime(started, reading, awaited)
=============================================================================
