------------------------------- MODULE MCUtil -------------------------------
(***************************************************************************)
(* The helpers of src/util.c at work: a timer runs, and one message is     *)
(* written, which is what every send_*() uses the octet helpers for.       *)
(***************************************************************************)
EXTENDS Stopwatch, Writer

\* Every reading within four seconds.
SomeReadings == [sec : 0..3, nsec : 0..(TicksPerSec - 1)]

\* A peer type of no, one or a few octets; one that just fits the array of the
\* signal, of the message, or not; and intervals with each of the four octets.
SomePeerTypes ==
  {[i \in 1..n |-> i % 256] : n \in {0, 1, 87, 88, 283, 284, 400}}

SomeIntervals == {0, 1, 255, 256, 30000, 65535, 65536, 16777216, 2147483647}

SomeMacs == {<<1, 2, 3, 4, 5, 6>>, <<255, 0, 4, 0, 1, 0>>}

Init == TimerInit /\ WriterInit

\* A message is written between two readings of the clock.
Next ==
  \/ TimerNext /\ UNCHANGED writerVars
  \/ started = reading /\ WriterNext /\ UNCHANGED timer

Spec == Init /\ [][Next]_<<timer, writerVars>>
=============================================================================
