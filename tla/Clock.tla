------------------------------- MODULE Clock -------------------------------
(***************************************************************************)
(* struct timespec and interval_compare() of src/util.c.                   *)
(*                                                                         *)
(* Time advances in ticks.  A tick stands for the millisecond in which the *)
(* protocol and session.c state heartbeat intervals; TicksPerSec ticks     *)
(* make the second in which interval_compare() reads them.                 *)
(***************************************************************************)
EXTENDS Integers

CONSTANT TicksPerSec

ASSUME TicksPerSecAssumption == TicksPerSec \in Nat \ {0}

Timespec == [sec : Nat, nsec : 0..(TicksPerSec - 1)]

\* The reading of the clock t ticks after its origin.
ToTimespec(t) == [sec |-> t \div TicksPerSec, nsec |-> t % TicksPerSec]

\* The ticks a reading stands for.
Ticks(ts) == ts.sec * TicksPerSec + ts.nsec

\* diff_time: end - start, with one second borrowed when nsec is negative.
Difference_NoBorrow(start, end) ==
  [sec |-> end.sec - start.sec, nsec |-> end.nsec - start.nsec]

Difference(start, end) ==
  IF end.nsec < start.nsec
    THEN [sec  |-> end.sec - start.sec - 1,
          nsec |-> end.nsec - start.nsec + TicksPerSec]
    ELSE [sec  |-> end.sec - start.sec,
          nsec |-> end.nsec - start.nsec]

\* -1, 0 or 1 as the time from start to end is below, at or above interval seconds.
interval_compare(start, end, interval) ==
  LET diff == Difference(start, end)
  IN  IF diff.sec < interval THEN -1
      ELSE IF diff.sec > interval \/ diff.nsec > 0 THEN 1
      ELSE 0

\* The question the session loops ask: has more than interval passed over an age?
Expired(age, interval) ==
  interval_compare(ToTimespec(0), ToTimespec(age), interval) > 0

\* What interval_compare() is for: the comparison of the time that has passed
\* with an interval in seconds, whatever the two readings.
ComparesElapsedTime(start, end, interval) ==
  LET elapsed == Ticks(end) - Ticks(start)
      limit   == interval * TicksPerSec
  IN  /\ interval_compare(start, end, interval) > 0 <=> elapsed > limit
      /\ interval_compare(start, end, interval) < 0 <=> elapsed < limit
=============================================================================
