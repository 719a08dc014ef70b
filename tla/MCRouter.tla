------------------------------ MODULE MCRouter ------------------------------
(***************************************************************************)
(* A small instance of Router for TLC.                                     *)
(***************************************************************************)
EXTENDS RouterInv, MCSession

Point(kind, host, at_port) == [kind |-> kind, ok |-> TRUE, host |-> host, port |-> at_port]
Signal(items) == [empty |-> FALSE, header |-> TRUE, exact |-> TRUE, items |-> items]

\* No offer, an offer of two connection points, and one that cannot be used.
RouterDatagrams == {
  [empty |-> TRUE, header |-> FALSE, exact |-> FALSE, items |-> <<>>],
  Signal(<<Point("ipv4", "a", 1), Point("ipv6", "b", NoPort)>>),
  Signal(<<Point("ipv4", "a", 0)>>)}

Text(family, host) == [family |-> family, host |-> host, multicast |-> host = "ff02::1"]

\* No address; one of each kind, with and without -6, a port and -I; the
\* arguments that are refused; and an interval out of range, with a port, which is
\* then refused, and without.
Typed(text, given, v6, interface) ==
  [text |-> text, port |-> given, heartbeat |-> NoArgument, interface |-> interface,
   ipv6 |-> v6, understood |-> TRUE]

RouterCommandLines == {
  Typed(NoArgument, NoArgument, FALSE, FALSE), Typed(NoArgument, NoArgument, TRUE, TRUE),
  Typed(Text("ipv4", "c"), NoArgument, FALSE, FALSE), Typed(Text("ipv4", "c"), 65537, TRUE, FALSE),
  Typed(Text("ipv4", "c"), OutOfRange, TRUE, FALSE),
  Typed(Text("ipv6", "fe80::1"), 0, FALSE, FALSE),
  Typed(Text("neither", "modem"), NoArgument, TRUE, FALSE),
  Typed(Text("neither", "modem"), NoArgument, FALSE, FALSE),
  Typed(Text("ipv6", "ff02::1"), 1, FALSE, FALSE), Typed(Text("ipv6", "ff02::1"), 1, FALSE, TRUE),
  [Typed(NoArgument, NoArgument, TRUE, FALSE) EXCEPT !.understood = FALSE],
  [Typed(Text("ipv4", "c"), 1, TRUE, FALSE) EXCEPT !.heartbeat = OutOfRange],
  [Typed(Text("ipv4", "c"), NoArgument, TRUE, FALSE) EXCEPT !.heartbeat = OutOfRange]}

\* A modem that may accept or refuse a session, and may end it.
RouterMessages == {Accepting(1), Refusing(1), Goodbye}
=============================================================================
