\* Every branch of handle_message(), over a modem that sends any messages and
\* closes or resets at any time, under any scheduling of the router.
CONSTANTS
  d1 = d1
  d2 = d2
  Dest <- BothDests
  NoDest = NoDest
  NoMessage = NoMessage
  Messages <- AllMessages
  TicksPerSec = 1
  router_heartbeat_interval = 1
  Word = 16
  AgeCap = 5
  MaxSent = 3
  Segmented = FALSE
  Urgent = FALSE
SPECIFICATION Spec
INVARIANTS Answers LastWord SuccessMeansGoodbye TermRespAnswersTerm GoodbyeInv
PROPERTIES KeepsPromise
CHECK_DEADLOCK FALSE
