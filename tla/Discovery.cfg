\* A modem that may or may not answer, and a network that may do anything.
CONSTANTS
  Datagrams <- SomeDatagrams
  Addresses <- SomeAddresses
  Zeros = "zeros"
  Nowhere = Nowhere
  NoPort = NoPort
  DLEP_WELL_KNOWN_PORT = 854
  DEFAULT_DISCOVERY_RETRY = 3
  InterfaceIndex = 2
  MaxDatagrams = 3
SPECIFICATION DiscoverySpec
INVARIANTS AddressWasOffered RetriesInTime DiscoveryInv
PROPERTIES OfferComesUp OfferEndsDiscovery KeepsAsking FindsWhatIsOffered
CHECK_DEADLOCK FALSE
