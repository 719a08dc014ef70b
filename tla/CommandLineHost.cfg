\* An address on the command line, with and without -6.
CONSTANTS
  CommandLines <- AnyCommandLine
  Zeros = "zeros"
  NoArgument = NoArgument
  OutOfRange = OutOfRange
  InterfaceIndex = 2
  DEFAULT_HEARTBEAT_INTERVAL = 30
  DLEP_WELL_KNOWN_PORT = 854
  Word = 65536
  PortWord = 65536
SPECIFICATION LineSpec
INVARIANT ConnectsWhereTold
CHECK_DEADLOCK FALSE
