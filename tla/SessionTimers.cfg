\* The timers, messages arriving whole: intervals of which neither the double nor the
\* fourfold wraps, the fourfold alone and both.
CONSTANTS
  d1 = d1
  d2 = d2
  Dest <- BothDests
  NoDest = NoDest
  NoMessage = NoMessage
  Messages <- TimerMessages
  TicksPerSec = 2
  router_heartbeat_interval = 3
  Word = 6
  AgeCap = 13
  MaxSent = 2
  Segmented = FALSE
  Urgent = TRUE
SPECIFICATION FairSpec
INVARIANTS DeadlinesKept TimersInv
PROPERTIES TimeoutMeansSilence SilenceEndsSession GoneEndsSession TerminationEnds
CHECK_DEADLOCK FALSE
