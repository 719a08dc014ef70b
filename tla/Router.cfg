\* Any number of rounds, with and without an address on the command line.  All
\* command lines have one interval: for one out of range, (13 - 1) * 1000 % 13 = 1.
CONSTANTS
  d1 = d1
  d2 = d2
  Dest <- BothDests
  NoDest = NoDest
  NoMessage = NoMessage
  Messages <- RouterMessages
  TicksPerSec = 1
  router_heartbeat_interval = 1
  Word = 13
  AgeCap = 5
  MaxSent = 2
  Segmented = FALSE
  Urgent = TRUE
  Datagrams <- RouterDatagrams
  Nowhere = Nowhere
  NoPort = NoPort
  DLEP_WELL_KNOWN_PORT = 854
  DEFAULT_DISCOVERY_RETRY = 1
  MaxDatagrams = 2
  CommandLines <- RouterCommandLines
  Zeros = "zeros"
  NoArgument = NoArgument
  OutOfRange = OutOfRange
  InterfaceIndex = 2
  DEFAULT_HEARTBEAT_INTERVAL = 1
  PortWord = 65536
SPECIFICATION RouterSpec
INVARIANTS RouterInv SessionsWhereOffered HostAsNamed Refusals
PROPERTIES StartsOverInOrder ComesBack
CHECK_DEADLOCK FALSE
