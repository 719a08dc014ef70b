------------------------------- MODULE Router -------------------------------
(***************************************************************************)
(* main(), src/main.c: read the command line; find the modem, unless its   *)
(* address is on the command line, and hold a session with it; start over  *)
(* when the session ends in order, and exit on any failure.                *)
(*                                                                         *)
(* CommandLine, Discovery and Session are the components; their sockets    *)
(* and locals are new each time, and "address" and "use_ipv6" are all that *)
(* main() keeps between rounds.                                            *)
(***************************************************************************)
EXTENDS Session, Sockaddr

CONSTANTS
  CommandLines, NoArgument, OutOfRange, InterfaceIndex, DEFAULT_HEARTBEAT_INTERVAL,
  DLEP_WELL_KNOWN_PORT, PortWord,
  Datagrams, Nowhere, NoPort, DEFAULT_DISCOVERY_RETRY, MaxDatagrams

VARIABLES
  place,                        \* "arguments", "discover", "session" or "exited"
  address, use_ipv6,            \* what is kept from round to round
  typed, line, errno, interval, named_port, address_buffer,
  step, result, at, port, inbox, received, remaining, sinceSent

Line == INSTANCE CommandLine WITH router_heartbeat_interval <- interval, port <- named_port

Peer == INSTANCE Discovery WITH iface <- typed.interface, Addresses <- {Blank}

ASSUME CommandLinesAssumption == Line!CommandLineConstants

ASSUME OffersAssumption == Peer!DiscoveryConstants

\* A session has one interval, that of the command lines considered.
ASSUME IntervalAssumption ==
  \A c \in CommandLines : Line!IntervalOf(c) = router_heartbeat_interval

command   == <<typed, line, errno, interval, named_port, address_buffer>>
kept      == <<address, use_ipv6>>
discovery == <<step, result, at, port, inbox, received, remaining, sinceSent>>
routerVars == <<place, kept, command, vars, discovery>>

-----------------------------------------------------------------------------
RouterInit ==
  /\ place = "arguments" /\ Line!LineInit
  /\ Init
  /\ step = "socket" /\ result = FALSE /\ at = 0 /\ port = 0
  /\ inbox = <<>> /\ received = <<>> /\ remaining = 0 /\ sinceSent = 0

\* The command line is read; then the loop begins.
Reading ==
  /\ place = "arguments" /\ Line!LineNext
  /\ UNCHANGED <<place, vars, discovery>>

Start ==
  /\ place = "arguments" /\ line \in {"ready", "exited"}
  /\ place' = IF line = "exited" THEN "exited"
              ELSE IF Line!Named THEN "session" ELSE "discover"
  /\ UNCHANGED <<kept, command, vars, discovery>>

\* discover() at work.
Discovering ==
  /\ place = "discover" /\ step # "returned"
  /\ UNCHANGED <<place, command, vars>>
  /\ Peer!DiscoveryNext

\* discover() returns: 0 ends the process, otherwise a session is held.
Discovered_IgnoresResult ==
  /\ place = "discover" /\ step = "returned"
  /\ place' = "session"
  /\ UNCHANGED <<kept, command, vars, discovery>>

Discovered ==
  /\ place = "discover" /\ step = "returned"
  /\ place' = IF result THEN "session" ELSE "exited"
  /\ UNCHANGED <<kept, command, vars, discovery>>

\* session() at work.
InASession ==
  /\ place = "session" /\ phase # "ended"
  /\ Next
  /\ UNCHANGED <<place, kept, command, discovery>>

\* A new session(), as in Init.
NewSession ==
  /\ phase' = "idle" /\ pc' = "none" /\ ret' = "none"
  /\ peer' = "none" /\ sent' = <<>> /\ flight' = <<>> /\ stream' = <<>>
  /\ cur' = NoMessage /\ bufType' = 0 /\ out' = <<>> /\ accepted' = <<>>
  /\ modem_heartbeat_interval' = 0 /\ timeout' = 0
  /\ recvAge' = 0 /\ sentAge' = 0 /\ nowAge' = 0 /\ quiet' = 0

\* The next round: a modem that was discovered is looked for again.
StartAgain ==
  /\ NewSession /\ UNCHANGED <<kept, command>>
  /\ place' = IF Line!Named THEN "session" ELSE "discover"
  /\ step' = "socket" /\ result' = FALSE /\ at' = 0 /\ port' = 0
  /\ inbox' = <<>> /\ received' = <<>> /\ remaining' = 0 /\ sinceSent' = 0

Exit == place' = "exited" /\ UNCHANGED <<kept, command, vars, discovery>>

\* session() returns: after 0 the loop goes round, after anything else main() exits.
SessionOver_Retries ==
  /\ place = "session" /\ phase = "ended"
  /\ IF ret # "killed" THEN StartAgain ELSE Exit

SessionOver_Exits ==
  /\ place = "session" /\ phase = "ended"
  /\ Exit

SessionOver ==
  /\ place = "session" /\ phase = "ended"
  /\ IF ret = "ok" THEN StartAgain ELSE Exit

RouterNext == Reading \/ Start \/ Discovering \/ Discovered \/ InASession \/ SessionOver

\* The part of a round that depends on nothing but the process being scheduled.
GetsGoing ==
  \/ place = "discover" /\ UNCHANGED <<place, command, vars>>
     /\ (Peer!OpenSocket \/ Peer!SendSignal)
  \/ place = "session" /\ Connect
     /\ UNCHANGED <<place, kept, command, discovery>>

RouterSpec ==
  /\ RouterInit /\ [][RouterNext]_routerVars
  /\ WF_routerVars(Discovered) /\ WF_routerVars(SessionOver) /\ WF_routerVars(GetsGoing)

-----------------------------------------------------------------------------
\* Where no modem is named on the command line, a session is held with one that the
\* discovery of the same round chose from an offer (AddressWasOffered), through the
\* interface of -I if -6 was given and no interface in particular if not: of what an
\* earlier round, a failed discovery or the other family left in main()'s address,
\* connect() is told neither host, family, port nor scope.
SessionsWhereOffered ==
  (place = "session" /\ ~Line!Named) =>
    /\ Peer!Found /\ Peer!AddressWasOffered
    /\ address.family = "ipv6" =>
         Target(address).scope = IF typed.ipv6 THEN Peer!Scope ELSE 0

\* Where one is named, every session of every round is held with the address that
\* the command line was read as (CommandLine).
HostAsNamed == Line!NamedAddress

\* No command line that names an IPv4 modem is refused without a reason
\* (CommandLine).
Refusals == Line!RefusalsExplained

\* main() goes round its loop only after session() returned 0, and then the last
\* thing the router wrote was a Session Termination or the response to one.  A
\* connection refused or lost and a termination that was not answered are not
\* retried; a termination that was, be it for the modem's silence, is.
StartsOverInOrder ==
  [][(place = "session" /\ phase = "ended" /\ phase' = "idle") =>
       ret = "ok" /\ out # <<>> /\ IsGoodbye(out[Len(out)])]_routerVars

\* A modem that ended a session in order is called upon again: the next session
\* is opened or discovery asks for it, unless one of those fails.
ComesBack ==
  (ret = "ok") ~>
    \/ phase = "init" \/ step = "sending"
    \/ place = "exited" /\ ret # "ok"
=============================================================================
