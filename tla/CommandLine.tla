---------------------------- MODULE CommandLine ----------------------------
(***************************************************************************)
(* What main(), src/main.c, makes of its arguments: the heartbeat interval *)
(* of -H and the address of a modem named on the command line.             *)
(*                                                                         *)
(* A text is a kind of address and what it names; inet_pton() writes to    *)
(* address_buffer what a text of the family asked for names, and leaves    *)
(* the buffer alone for any other text.  A number is what strtoul() reads, *)
(* 0 for a text that is none; out of its range it also sets errno, which   *)
(* nothing ever clears.                                                    *)
(***************************************************************************)
EXTENDS Sockaddr

CONSTANTS
  CommandLines,   \* what may be typed
  NoArgument,     \* an argument that is not given
  OutOfRange,     \* a number strtoul() cannot represent
  InterfaceIndex, \* if_nametoindex() of the interface of -I
  DEFAULT_HEARTBEAT_INTERVAL,
  DLEP_WELL_KNOWN_PORT,
  Word,           \* 2^32, where the interval wraps
  PortWord        \* 2^16, where the port does

\* A text that names an address, or none: "multicast" is one of IPv6.
Text == [family : {"ipv4", "ipv6", "neither"}, host : STRING, multicast : BOOLEAN]

Number == Nat \cup {OutOfRange}

\* "understood" is FALSE for an unknown or incomplete option, for -h and for too
\* many arguments, on all of which main() returns.
Arguments == [text : Text \cup {NoArgument}, port : Number \cup {NoArgument},
              heartbeat : Number \cup {NoArgument}, interface : BOOLEAN, ipv6 : BOOLEAN,
              understood : BOOLEAN]

\* What is assumed of the constants, where this module is instantiated (Router).
CommandLineConstants ==
  /\ CommandLines \subseteq Arguments
  /\ \A c \in CommandLines : c.text = NoArgument => c.port = NoArgument
  /\ {DEFAULT_HEARTBEAT_INTERVAL, DLEP_WELL_KNOWN_PORT, InterfaceIndex} \subseteq Nat
  /\ {Word, PortWord} \subseteq Nat \ {0}
  /\ Zeros \in STRING

VARIABLES
  typed,      \* the arguments
  line,       \* "options", "port", "ipv6", "ipv4", "ready" or "exited"
  errno,      \* whether it is set
  use_ipv6, router_heartbeat_interval, port, address_buffer, address

lineVars == <<typed, line, errno, use_ipv6, router_heartbeat_interval, port,
              address_buffer, address>>

Named == typed.text # NoArgument

Parses(family) == Named /\ typed.text.family = family

\* strtoul() saturates, at a number whose low bits are all ones.
strtoul(number, width) == IF number = OutOfRange THEN width - 1 ELSE number % width

IntervalOf(arguments) ==
  IF arguments.heartbeat = NoArgument THEN DEFAULT_HEARTBEAT_INTERVAL
  ELSE (strtoul(arguments.heartbeat, Word) * 1000) % Word

Asked == IF typed.port = NoArgument THEN DLEP_WELL_KNOWN_PORT
         ELSE strtoul(typed.port, PortWord)

-----------------------------------------------------------------------------
LineInit ==
  /\ typed \in CommandLines
  /\ line = "options" /\ errno = FALSE /\ use_ipv6 = FALSE
  /\ router_heartbeat_interval = DEFAULT_HEARTBEAT_INTERVAL
  /\ port = DLEP_WELL_KNOWN_PORT
  /\ address_buffer = Zeros /\ address = Blank

Options ==
  /\ line = "options"
  /\ line' = IF ~typed.understood THEN "exited"
             ELSE IF ~Named THEN "ready"
             ELSE IF typed.port = NoArgument THEN "ipv6" ELSE "port"
  /\ use_ipv6' = typed.ipv6
  /\ router_heartbeat_interval' = IntervalOf(typed)
  /\ errno' = (typed.heartbeat = OutOfRange)
  /\ UNCHANGED <<typed, port, address_buffer, address>>

\* The port is refused if errno is set, by this strtoul() or an earlier one.
ReadPort ==
  /\ line = "port"
  /\ port' = strtoul(typed.port, PortWord)
  /\ errno' = (errno \/ typed.port = OutOfRange)
  /\ line' = IF errno' THEN "exited" ELSE "ipv6"
  /\ UNCHANGED <<typed, use_ipv6, router_heartbeat_interval, address_buffer, address>>

\* use_ipv6 || inet_pton(AF_INET6, ...): with -6 the text is not looked at.
TryIPv6_LooksFirst ==
  /\ line = "ipv6"
  /\ address_buffer' = IF Parses("ipv6") THEN typed.text.host ELSE address_buffer
  /\ use_ipv6' = (use_ipv6 \/ Parses("ipv6"))
  /\ address' = IF use_ipv6' THEN WritePort(WriteHost(address, "ipv6", address_buffer'), port)
                ELSE address
  /\ line' = IF use_ipv6' THEN "ready" ELSE "ipv4"
  /\ UNCHANGED <<typed, errno, router_heartbeat_interval, port>>

TryIPv6 ==
  LET reads     == ~use_ipv6 /\ Parses("ipv6")
      multicast == reads /\ typed.text.multicast
      written   == WritePort(WriteHost(address, "ipv6", address_buffer'), port)
  IN  /\ line = "ipv6"
      /\ address_buffer' = IF reads THEN typed.text.host ELSE address_buffer
      /\ use_ipv6' = (use_ipv6 \/ reads)
      /\ address' = IF ~use_ipv6' THEN address
                    ELSE IF multicast /\ typed.interface
                      THEN [written EXCEPT !.scope = InterfaceIndex]
                      ELSE written
      /\ line' = IF multicast /\ ~typed.interface THEN "exited" ELSE "ipv4"
      /\ UNCHANGED <<typed, errno, router_heartbeat_interval, port>>

\* !use_ipv6 || inet_pton(AF_INET, ...): without -6 the text is not looked at.
TryIPv4_Both ==
  LET reads == use_ipv6 /\ Parses("ipv4")
  IN  /\ line = "ipv4"
      /\ address_buffer' = IF reads THEN typed.text.host ELSE address_buffer
      /\ IF reads
           THEN /\ address' = WritePort(WriteHost(address, "ipv4", address_buffer'), port)
                /\ use_ipv6' = FALSE /\ line' = "ready"
           ELSE line' = "exited" /\ UNCHANGED <<address, use_ipv6>>
      /\ UNCHANGED <<typed, errno, router_heartbeat_interval, port>>

TryIPv4 ==
  LET reads == use_ipv6 /\ Parses("ipv4")
  IN  /\ line = "ipv4"
      /\ address_buffer' = IF reads THEN typed.text.host ELSE address_buffer
      /\ IF ~use_ipv6 \/ reads
           THEN /\ address' = WritePort(WriteHost(address, "ipv4", address_buffer'), port)
                /\ use_ipv6' = FALSE /\ line' = "ready"
           ELSE line' = "exited" /\ UNCHANGED <<address, use_ipv6>>
      /\ UNCHANGED <<typed, errno, router_heartbeat_interval, port>>

LineNext == Options \/ ReadPort \/ TryIPv6 \/ TryIPv4

LineSpec == LineInit /\ [][LineNext]_lineVars

-----------------------------------------------------------------------------
(* What main() knows of its arguments as it reads them.                    *)
LineTypeOK ==
  /\ typed \in CommandLines
  /\ line \in {"options", "port", "ipv6", "ipv4", "ready", "exited"}
  /\ errno \in BOOLEAN /\ use_ipv6 \in BOOLEAN
  /\ port \in Nat /\ address_buffer \in STRING /\ address \in Storage

LineKnows ==
  /\ line \in {"port", "ipv6", "ipv4"} => Named
  /\ line = "options" => address = Blank
  /\ line # "options" /\ (~Named \/ line \in {"port", "ipv6"}) => use_ipv6 = typed.ipv6
  /\ line = "ipv4" => (use_ipv6 <=> typed.ipv6 \/ Parses("ipv6"))
  /\ line \in {"options", "port", "ipv6"} \/ (line = "ipv4" /\ ~use_ipv6) =>
       address_buffer = Zeros
  /\ line = "port" => typed.port # NoArgument /\ (errno <=> typed.heartbeat = OutOfRange)
  /\ line \in {"ipv6", "ipv4"} => port = Asked
  /\ line \in {"options", "port"} => port = DLEP_WELL_KNOWN_PORT

-----------------------------------------------------------------------------
\* "Usage: dlep_router [options] [modem IP address [port]]" (main.c:34): the
\* session is held with the host that was named, or not at all.  Without -6 the
\* text of an IPv4 address is never read, and the session is held with 0.0.0.0.
ConnectsWhereTold ==
  (line = "ready" /\ Named) =>
    typed.text.family # "neither" /\ Endpoint(address).host = typed.text.host

\* Whatever the two nested short-circuits make of use_ipv6, a modem named on the
\* command line is called upon at an address of IPv4 and at the port that was named,
\* although the same memory may have been filled in as an IPv6 address first.  With
\* -6 the host is the one that the text names, and no other text is taken; without
\* -6 no text is read and the host is 0.0.0.0.
NamedAddress ==
  (line = "ready" /\ Named) =>
    /\ typed.ipv6 => Parses("ipv4")
    /\ Endpoint(address) = [family |-> "ipv4", port |-> Asked,
                            host |-> IF typed.ipv6 THEN typed.text.host ELSE Zeros]

\* A command line that names an IPv4 modem is refused only for an option, for too
\* many arguments or for a port out of range; or, with a port, for an interval of
\* -H out of range, since errno still says so when the port is read.
RefusalsExplained ==
  (line = "exited" /\ Parses("ipv4")) =>
    \/ ~typed.understood
    \/ typed.port # NoArgument /\ OutOfRange \in {typed.port, typed.heartbeat}
=============================================================================
