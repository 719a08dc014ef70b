\* A valid message, its body in two segments.
CONSTANTS
  d1 = d1
  d2 = d2
  Dest <- BothDests
  NoDest = NoDest
  NoMessage = NoMessage
  Messages <- SplitMessages
  TicksPerSec = 1
  router_heartbeat_interval = 1
  Word = 16
  AgeCap = 5
  MaxSent = 2
  Segmented = TRUE
  Urgent = TRUE
SPECIFICATION Spec
INVARIANT RestOfMessage
CHECK_DEADLOCK FALSE
