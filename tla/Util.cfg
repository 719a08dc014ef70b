\* Every pair of readings within four seconds of four ticks, every interval to
\* three; every message the router writes, at the boundaries of its arrays.
CONSTANTS
  TicksPerSec = 4
  Readings <- SomeReadings
  Waits = {0, 1, 2, 3}
  PeerTypes <- SomePeerTypes
  Intervals <- SomeIntervals
  Macs <- SomeMacs
SPECIFICATION Spec
INVARIANTS TimerExact WithinArray ReadAsMeant
CHECK_DEADLOCK FALSE
