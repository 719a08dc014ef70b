--------------------------- MODULE MCCommandLine ---------------------------
(***************************************************************************)
(* A small instance of CommandLine for TLC.                                *)
(***************************************************************************)
EXTENDS CommandLine

SomeTexts == {
  [family |-> "ipv4", host |-> "10.0.0.1", multicast |-> FALSE],
  [family |-> "ipv6", host |-> "fe80::1", multicast |-> FALSE],
  [family |-> "ipv6", host |-> "ff02::1", multicast |-> TRUE],
  [family |-> "neither", host |-> "modem", multicast |-> FALSE]}

AnyCommandLine ==
  {c \in [text : SomeTexts \cup {NoArgument}, port : {NoArgument, OutOfRange, 0, 65537},
          heartbeat : {NoArgument, OutOfRange, 0, 66}, interface : BOOLEAN, ipv6 : BOOLEAN,
          understood : BOOLEAN] :
     c.text = NoArgument => c.port = NoArgument}
=============================================================================
