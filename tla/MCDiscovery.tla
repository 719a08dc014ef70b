---------------------------- MODULE MCDiscovery ----------------------------
(***************************************************************************)
(* A small instance of Discovery for TLC.                                  *)
(***************************************************************************)
EXTENDS Discovery

Point(kind, host, at_port) == [kind |-> kind, ok |-> TRUE, host |-> host, port |-> at_port]
PeerType  == [kind |-> "peer type", ok |-> TRUE, host |-> "", port |-> NoPort]
Unknown   == [kind |-> "other", ok |-> FALSE, host |-> "", port |-> NoPort]
Bad(item) == [item EXCEPT !.ok = FALSE]

Signal(items) == [empty |-> FALSE, header |-> TRUE, exact |-> TRUE, items |-> items]

Empty   == [empty |-> TRUE, header |-> FALSE, exact |-> FALSE, items |-> <<>>]
Noise   == [empty |-> FALSE, header |-> FALSE, exact |-> FALSE, items |-> <<>>]
Overrun == [Signal(<<Point("ipv4", "a", 1)>>) EXCEPT !.exact = FALSE]

\* Offers of one and of two connection points, with and without ports, and each
\* way in which a datagram is refused.
SomeDatagrams == {
  Empty, Noise, Overrun,
  Signal(<<>>), Signal(<<PeerType, PeerType, Point("ipv4", "a", 1)>>),
  Signal(<<Unknown, Point("ipv4", "a", 1)>>), Signal(<<Bad(Point("ipv6", "b", 1))>>),
  Signal(<<PeerType, Point("ipv4", "a", NoPort)>>),
  Signal(<<Point("ipv4", "a", 1), Point("ipv6", "b", NoPort)>>),
  Signal(<<Point("ipv6", "b", 2), Point("ipv4", "a", 0)>>)}

\* The first round, and one after a round whose offer named both families.
SomeAddresses ==
  {Blank, [Blank EXCEPT !.family = "ipv4", !.length = "ipv4", !.port = 9,
                        !.quad = "y", !.long = "z"]}
=============================================================================
