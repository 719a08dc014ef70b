\* Intervals in milliseconds, compared as seconds (four ticks to the second).
CONSTANTS
  d1 = d1
  d2 = d2
  Dest <- BothDests
  NoDest = NoDest
  NoMessage = NoMessage
  Messages <- TimerMessages
  TicksPerSec = 4
  router_heartbeat_interval = 1
  Word = 64
  AgeCap = 49
  MaxSent = 2
  Segmented = FALSE
  Urgent = TRUE
SPECIFICATION Spec
INVARIANT TimersPrompt
CHECK_DEADLOCK FALSE
