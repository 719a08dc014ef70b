\* Byte-level framing: TCP delivers the stream in any pieces, at any time.
CONSTANTS
  d1 = d1
  d2 = d2
  Dest <- BothDests
  NoDest = NoDest
  NoMessage = NoMessage
  Messages <- StreamMessages
  TicksPerSec = 1
  router_heartbeat_interval = 1
  Word = 16
  AgeCap = 5
  MaxSent = 3
  Segmented = TRUE
  Urgent = TRUE
SPECIFICATION Spec
INVARIANTS InOrder IInv ReaderInv
PROPERTIES KeepsPromise GoneForGood
CHECK_DEADLOCK FALSE
