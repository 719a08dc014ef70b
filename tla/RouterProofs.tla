---------------------------- MODULE RouterProofs ----------------------------
(***************************************************************************)
(* main() holds its components together, for any number of rounds: a       *)
(* session is held where the command line or the discovery of the same     *)
(* round says, each session is as SessionRefinement proves one session to  *)
(* be, and the loop goes round only after a termination was exchanged.     *)
(***************************************************************************)
EXTENDS RouterInv, TimerProofs

Proven == INSTANCE DiscoveryProofs WITH iface <- typed.interface, Addresses <- {Blank}

-----------------------------------------------------------------------------
(* The command line.                                                       *)

\* A number that strtoul() reads fits where main() keeps it.
LEMMA PortFits ==
  ASSUME typed \in CommandLines
  PROVE  Line!Asked \in Nat /\ DLEP_WELL_KNOWN_PORT \in Nat
<1>1. /\ PortWord \in Nat \ {0} /\ DLEP_WELL_KNOWN_PORT \in Nat
      /\ typed.port \in Nat \cup {OutOfRange} \cup {NoArgument}
  BY CommandLinesAssumption DEF Line!CommandLineConstants, Line!Arguments, Line!Number
<1>2. ASSUME typed.port # NoArgument
      PROVE  Line!strtoul(typed.port, PortWord) \in Nat
  <2>1. CASE typed.port = OutOfRange
    <3>1. PortWord - 1 \in Nat
      BY <1>1
    <3> QED
      BY <2>1, <3>1 DEF Line!strtoul
  <2>2. CASE typed.port # OutOfRange
    <3>1. typed.port \in Nat /\ typed.port % PortWord \in Nat
      BY <1>1, <1>2, <2>2
    <3> QED
      BY <2>2, <3>1 DEF Line!strtoul
  <2> QED
    BY <2>1, <2>2
<1> QED
  BY <1>1, <1>2 DEF Line!Asked

\* The options.
LEMMA OptionsKeeps ==
  ASSUME Line!LineTypeOK, Line!LineKnows, Line!Options
  PROVE  Line!LineTypeOK' /\ Line!LineKnows' /\ HostAsNamed' /\ Refusals'
<1>1. /\ line = "options"
      /\ line' = IF ~typed.understood THEN "exited"
                 ELSE IF ~Line!Named THEN "ready"
                 ELSE IF typed.port = NoArgument THEN "ipv6" ELSE "port"
      /\ use_ipv6' = typed.ipv6 /\ errno' = (typed.heartbeat = OutOfRange)
      /\ UNCHANGED <<typed, named_port, address_buffer, address>>
  BY DEF Line!Options
<1>2. /\ typed \in CommandLines /\ typed.ipv6 \in BOOLEAN
      /\ named_port = DLEP_WELL_KNOWN_PORT /\ address_buffer = Zeros
  BY <1>1, CommandLinesAssumption
     DEF Line!LineTypeOK, Line!LineKnows, Line!CommandLineConstants, Line!Arguments
<1>3. Line!LineTypeOK'
  BY <1>1, <1>2 DEF Line!LineTypeOK
<1>4. Line!LineKnows'
  BY <1>1, <1>2 DEF Line!LineKnows, Line!Named, Line!Asked
<1>5. HostAsNamed' /\ Refusals'
  BY <1>1 DEF HostAsNamed, Refusals, Line!NamedAddress, Line!RefusalsExplained,
              Line!Parses, Line!Named
<1> QED
  BY <1>3, <1>4, <1>5

\* The port.
LEMMA ReadPortKeeps ==
  ASSUME Line!LineTypeOK, Line!LineKnows, Line!ReadPort
  PROVE  Line!LineTypeOK' /\ Line!LineKnows' /\ HostAsNamed' /\ Refusals'
<1>1. /\ line = "port" /\ line' = IF errno' THEN "exited" ELSE "ipv6"
      /\ named_port' = Line!strtoul(typed.port, PortWord)
      /\ errno' = (errno \/ typed.port = OutOfRange)
      /\ UNCHANGED <<typed, use_ipv6, interval, address_buffer, address>>
  BY DEF Line!ReadPort
<1>2. /\ Line!Named /\ typed.port # NoArgument /\ use_ipv6 = typed.ipv6
      /\ address_buffer = Zeros
      /\ errno <=> typed.heartbeat = OutOfRange
  BY <1>1 DEF Line!LineKnows
<1>3. named_port' = Line!Asked /\ Line!Asked \in Nat
  BY <1>1, <1>2, PortFits DEF Line!LineTypeOK, Line!Asked
<1>4. errno' \in BOOLEAN
  BY <1>1
<1>5. Line!LineTypeOK'
  BY <1>1, <1>3, <1>4 DEF Line!LineTypeOK
<1>6. Line!LineKnows'
  BY <1>1, <1>2, <1>3 DEF Line!LineKnows, Line!Named, Line!Asked
<1>7. HostAsNamed'
  BY <1>1 DEF HostAsNamed, Line!NamedAddress
<1>8. Refusals'
  <2>1. errno' => OutOfRange \in {typed.port, typed.heartbeat}
    BY <1>1, <1>2
  <2> QED
    BY <1>1, <1>2, <2>1 DEF Refusals, Line!RefusalsExplained
<1> QED
  BY <1>5, <1>6, <1>7, <1>8

\* Writing a host and a port leaves a whole address of the family written.
LEMMA HostWritten ==
  ASSUME NEW a \in Storage, NEW family \in {"ipv4", "ipv6"}, NEW host \in STRING,
         NEW p \in Nat, NEW b, b = WritePort(WriteHost(a, family, host), p)
  PROVE  /\ b \in Storage
         /\ Endpoint(b) = [family |-> family, port |-> p, host |-> host]
<1>1. CASE family = "ipv4"
  <2>1. b = [a EXCEPT !.family = "ipv4", !.quad = host, !.length = "ipv4", !.port = p]
    BY <1>1 DEF WritePort, WriteHost, Storage
  <2> QED
    BY <1>1, <2>1 DEF Storage, Families, Endpoint, Target
<1>2. CASE family = "ipv6"
  <2>1. b = [a EXCEPT !.family = "ipv6", !.long = host, !.length = "ipv6", !.port = p]
    BY <1>2 DEF WritePort, WriteHost, Storage
  <2> QED
    BY <1>2, <2>1 DEF Storage, Families, Endpoint, Target
<1> QED
  BY <1>1, <1>2

\* The command line means the same to the module that reads it and to main().
LEMMA SameSockaddr ==
  /\ Line!Storage = Storage
  /\ \A a, family, host : Line!WriteHost(a, family, host) = WriteHost(a, family, host)
  /\ \A a, p : Line!WritePort(a, p) = WritePort(a, p)
  /\ \A a : Line!Target(a) = Target(a) /\ Line!Endpoint(a) = Endpoint(a)
  /\ Line!Blank = Blank
BY DEF Line!Storage, Line!Families, Storage, Families, Line!WriteHost, WriteHost,
       Line!WritePort, WritePort, Line!Target, Target, Line!Endpoint, Endpoint,
       Line!Blank, Blank

\* The text of an address read by inet_pton() names a host.
LEMMA HostNamed ==
  ASSUME Line!LineTypeOK, Line!Named
  PROVE  typed.text.host \in STRING
<1>1. typed \in Line!Arguments
  BY CommandLinesAssumption DEF Line!LineTypeOK, Line!CommandLineConstants
<1>2. typed.text \in Line!Text
  BY <1>1 DEF Line!Named, Line!Arguments
<1> QED
  BY <1>2 DEF Line!Text

\* The attempt at an IPv6 address.
LEMMA TryIPv6Keeps ==
  ASSUME Line!LineTypeOK, Line!LineKnows, Line!TryIPv6
  PROVE  Line!LineTypeOK' /\ Line!LineKnows' /\ HostAsNamed' /\ Refusals'
<1> DEFINE reads     == ~use_ipv6 /\ Line!Parses("ipv6")
           multicast == reads /\ typed.text.multicast
           written   == WritePort(WriteHost(address, "ipv6", address_buffer'), named_port)
<1>1. /\ line = "ipv6"
      /\ address_buffer' = IF reads THEN typed.text.host ELSE address_buffer
      /\ use_ipv6' = (use_ipv6 \/ reads)
      /\ address' = IF ~use_ipv6' THEN address
                    ELSE IF multicast /\ typed.interface
                      THEN [written EXCEPT !.scope = InterfaceIndex]
                      ELSE written
      /\ line' = IF multicast /\ ~typed.interface THEN "exited" ELSE "ipv4"
      /\ UNCHANGED <<typed, errno, interval, named_port>>
  BY SameSockaddr DEF Line!TryIPv6
<1>2. /\ Line!Named /\ named_port = Line!Asked /\ use_ipv6 = typed.ipv6
      /\ address_buffer = Zeros
      /\ address \in Storage /\ address_buffer \in STRING /\ named_port \in Nat
  BY <1>1, SameSockaddr DEF Line!LineKnows, Line!LineTypeOK
<1>3. address_buffer' \in STRING
  BY <1>1, <1>2, HostNamed
<1>4. written \in Storage
  BY <1>2, <1>3, HostWritten
<1>5. address' \in Storage
  <2>1. InterfaceIndex \in Nat
    BY CommandLinesAssumption DEF Line!CommandLineConstants
  <2> HIDE DEF written
  <2>2. [written EXCEPT !.scope = InterfaceIndex] \in Storage
    BY <1>4, <2>1 DEF Storage
  <2> QED
    BY <1>1, <1>2, <1>4, <2>2
<1>6. multicast => ~Line!Parses("ipv4")
  BY DEF Line!Parses
<1>7. /\ use_ipv6' \in BOOLEAN
      /\ use_ipv6' <=> typed.ipv6 \/ Line!Parses("ipv6")
      /\ ~use_ipv6' => address_buffer' = Zeros
  BY <1>1, <1>2
<1> HIDE DEF reads, multicast, written
<1>8. Line!LineTypeOK'
  BY <1>1, <1>3, <1>5, <1>7, SameSockaddr DEF Line!LineTypeOK
<1>9. Line!LineKnows'
  BY <1>1, <1>2, <1>7 DEF Line!LineKnows, Line!Named, Line!Asked, Line!Parses
<1>10. HostAsNamed'
  BY <1>1 DEF HostAsNamed, Line!NamedAddress
<1>11. Refusals'
  BY <1>1, <1>6 DEF Refusals, Line!RefusalsExplained, Line!Parses, Line!Named
<1> QED
  BY <1>8, <1>9, <1>10, <1>11

\* The attempt at an IPv4 address.
LEMMA TryIPv4Keeps ==
  ASSUME Line!LineTypeOK, Line!LineKnows, Line!TryIPv4
  PROVE  Line!LineTypeOK' /\ Line!LineKnows' /\ HostAsNamed' /\ Refusals'
<1> DEFINE reads   == use_ipv6 /\ Line!Parses("ipv4")
           written == WritePort(WriteHost(address, "ipv4", address_buffer'), named_port)
<1>1. /\ line = "ipv4"
      /\ address_buffer' = IF reads THEN typed.text.host ELSE address_buffer
      /\ IF ~use_ipv6 \/ reads
           THEN address' = written /\ use_ipv6' = FALSE /\ line' = "ready"
           ELSE line' = "exited" /\ UNCHANGED <<address, use_ipv6>>
      /\ UNCHANGED <<typed, errno, interval, named_port>>
  BY SameSockaddr DEF Line!TryIPv4
<1>2. /\ Line!Named /\ named_port = Line!Asked
      /\ use_ipv6 <=> typed.ipv6 \/ Line!Parses("ipv6")
      /\ ~use_ipv6 => address_buffer = Zeros
      /\ address \in Storage /\ address_buffer \in STRING /\ named_port \in Nat
  BY <1>1, SameSockaddr DEF Line!LineKnows, Line!LineTypeOK
<1>3. address_buffer' \in STRING
  BY <1>1, <1>2, HostNamed
<1>4. /\ written \in Storage
      /\ Endpoint(written) = [family |-> "ipv4", port |-> named_port, host |-> address_buffer']
  BY <1>2, <1>3, HostWritten
<1> HIDE DEF written
<1>5. Line!LineTypeOK'
  <2>1. use_ipv6' \in BOOLEAN
    BY <1>1 DEF Line!LineTypeOK
  <2> QED
    BY <1>1, <1>2, <1>3, <1>4, <2>1, SameSockaddr DEF Line!LineTypeOK
<1>6. Line!LineKnows'
  BY <1>1, <1>2 DEF Line!LineKnows, Line!Named
<1>7. HostAsNamed'
  <2> SUFFICES ASSUME line' = "ready"
               PROVE  /\ typed'.ipv6 => Line!Parses("ipv4")'
                      /\ Endpoint(address') =
                           [family |-> "ipv4", port |-> Line!Asked',
                            host |-> IF typed'.ipv6 THEN typed'.text.host ELSE Zeros]
    BY SameSockaddr DEF HostAsNamed, Line!NamedAddress
  <2>1. address' = written /\ (~use_ipv6 \/ reads)
    BY <1>1
  <2>2. Line!Asked' = named_port /\ typed' = typed
    BY <1>1, <1>2 DEF Line!Asked
  <2>3. CASE reads
    <3>1. typed.ipv6 /\ Line!Parses("ipv4")
      BY <1>2, <2>3 DEF Line!Parses
    <3>2. address_buffer' = typed.text.host /\ Line!Parses("ipv4")'
      BY <1>1, <2>2, <2>3, <3>1 DEF Line!Parses, Line!Named
    <3> QED
      BY <1>4, <2>1, <2>2, <3>1, <3>2
  <2>4. CASE ~reads
    <3>1. ~typed.ipv6 /\ address_buffer' = Zeros
      BY <1>1, <1>2, <2>1, <2>4
    <3> QED
      BY <1>4, <2>1, <2>2, <3>1
  <2> QED
    BY <2>3, <2>4
<1>8. Refusals'
  <2>1. line' = "exited" => ~Line!Parses("ipv4")
    BY <1>1
  <2> QED
    BY <1>1, <2>1 DEF Refusals, Line!RefusalsExplained, Line!Parses, Line!Named
<1> QED
  BY <1>5, <1>6, <1>7, <1>8

\* main() reads its arguments.
LEMMA ReadingKeeps ==
  ASSUME Line!LineTypeOK, Line!LineKnows, Line!LineNext
  PROVE  Line!LineTypeOK' /\ Line!LineKnows' /\ HostAsNamed' /\ Refusals'
BY OptionsKeeps, ReadPortKeeps, TryIPv6Keeps, TryIPv4Keeps DEF Line!LineNext

-----------------------------------------------------------------------------
(* Discovery.                                                              *)

\* What DiscoveryProofs proves is proved of main()'s discovery.
LEMMA SameOffers ==
  /\ Proven!DiscoveryConstants
  /\ \A d : Proven!Valid(d) <=> Peer!Valid(d)
  /\ \A d : Proven!Usable(d) = Peer!Usable(d)
  /\ \A item : Proven!IsPoint(item) <=> Peer!IsPoint(item)
  /\ \A item : Proven!PortOf(item) = Peer!PortOf(item) /\ Proven!Place(item) = Peer!Place(item)
BY OffersAssumption
   DEF Proven!DiscoveryConstants, Peer!DiscoveryConstants, Proven!Datagram, Peer!Datagram,
       Proven!Item, Peer!Item, Proven!Storage, Peer!Storage, Proven!Families, Peer!Families,
       Proven!Valid, Peer!Valid, Proven!ValidItems, Peer!ValidItems, Proven!Count, Peer!Count,
       Proven!IsPoint, Peer!IsPoint, Proven!Usable, Peer!Usable, Proven!Offered, Peer!Offered,
       Proven!Points, Peer!Points, Proven!Place, Peer!Place, Proven!PortOf, Peer!PortOf

\* So is the memory that the address is put together in.
LEMMA SameMemory ==
  /\ Proven!Storage = Storage /\ Peer!Storage = Storage
  /\ \A a : /\ Proven!Target(a) = Peer!Target(a) /\ Peer!Target(a) = Target(a)
            /\ Proven!Endpoint(a) = Peer!Endpoint(a)
  /\ \A s : Proven!Last(s) = Peer!Last(s) /\ Proven!Front(s) = Peer!Front(s)
  /\ \A a, p : Proven!WritePort(a, p) = Peer!WritePort(a, p)
  /\ \A a, family, host : Proven!WriteHost(a, family, host) = Peer!WriteHost(a, family, host)
BY DEF Proven!Storage, Peer!Storage, Storage, Proven!Families, Peer!Families, Families,
       Proven!Target, Peer!Target, Target, Proven!Endpoint, Peer!Endpoint, Proven!Last, Peer!Last, Proven!Front, Peer!Front,
       Proven!WritePort, Peer!WritePort, Proven!WriteHost, Peer!WriteHost

\* The invariant is the same, before a step and after it.
LEMMA SameInvariant ==
  /\ Peer!DiscoveryInv <=> Proven!DiscoveryInv
  /\ Peer!DiscoveryInv' <=> Proven!DiscoveryInv'
<1>1. /\ Peer!DiscoveryTypeOK <=> Proven!DiscoveryTypeOK
      /\ Peer!DiscoveryTypeOK' <=> Proven!DiscoveryTypeOK'
  BY SameMemory DEF Peer!DiscoveryTypeOK, Proven!DiscoveryTypeOK
<1>2. /\ Peer!AddressWasOffered <=> Proven!AddressWasOffered
      /\ Peer!AddressWasOffered' <=> Proven!AddressWasOffered'
  BY SameOffers, SameMemory
     DEF Peer!AddressWasOffered, Proven!AddressWasOffered, Peer!Found, Proven!Found,
         Peer!Scope, Proven!Scope
<1>3. \A s : Peer!Disregarded(s) <=> Proven!Disregarded(s)
  BY SameOffers DEF Peer!Disregarded, Proven!Disregarded
<1>4. /\ Peer!Scanning <=> Proven!Scanning
      /\ Peer!Scanning' <=> Proven!Scanning'
  BY <1>3, SameOffers, SameMemory
     DEF Peer!Scanning, Proven!Scanning, Peer!FromPoint, Proven!FromPoint
<1> QED
  BY <1>1, <1>2, <1>3, <1>4 DEF Peer!DiscoveryInv, Proven!DiscoveryInv

\* So are the steps.
LEMMA SameSteps == Peer!DiscoveryNext => Proven!DiscoveryNext
<1>1. Peer!OpenSocket => Proven!OpenSocket
  BY DEF Peer!OpenSocket, Proven!OpenSocket, Peer!arguments, Proven!arguments,
         Peer!scan, Proven!scan, Peer!waits, Proven!waits
<1>2. Peer!SendSignal => Proven!SendSignal
  BY DEF Peer!SendSignal, Proven!SendSignal, Peer!arguments, Proven!arguments,
         Peer!scan, Proven!scan
<1>3. Peer!WaitTimesOut => Proven!WaitTimesOut
  BY DEF Peer!WaitTimesOut, Proven!WaitTimesOut, Peer!arguments, Proven!arguments,
         Peer!scan, Proven!scan, Peer!waits, Proven!waits
<1>4. Peer!ReceiveOther => Proven!ReceiveOther
  BY SameOffers
     DEF Peer!ReceiveOther, Proven!ReceiveOther, Peer!arguments, Proven!arguments,
         Peer!scan, Proven!scan, Peer!waits, Proven!waits
<1>5. Peer!ReceiveOffer => Proven!ReceiveOffer
  BY SameOffers
     DEF Peer!ReceiveOffer, Proven!ReceiveOffer, Peer!arguments, Proven!arguments,
         Peer!waits, Proven!waits
<1>6. Peer!ScanItem => Proven!ScanItem
  BY SameOffers, SameMemory
     DEF Peer!ScanItem, Proven!ScanItem, Peer!arguments, Proven!arguments,
         Peer!waits, Proven!waits
<1>7. Peer!ScanEnd => Proven!ScanEnd
  BY SameMemory
     DEF Peer!ScanEnd, Proven!ScanEnd, Peer!Scanned, Proven!Scanned, Peer!Scope, Proven!Scope,
         Peer!arguments, Proven!arguments, Peer!waits, Proven!waits
<1>8. Peer!CallFails => Proven!CallFails
  BY DEF Peer!CallFails, Proven!CallFails, Peer!arguments, Proven!arguments,
         Peer!waits, Proven!waits
<1>9. Peer!DiscoveryTick => Proven!DiscoveryTick
  BY DEF Peer!DiscoveryTick, Proven!DiscoveryTick, Peer!arguments, Proven!arguments,
         Peer!scan, Proven!scan
<1>10. ASSUME NEW d, Peer!Arrives(d) PROVE Proven!Arrives(d)
  BY <1>10 DEF Peer!Arrives, Proven!Arrives, Peer!arguments, Proven!arguments,
               Peer!scan, Proven!scan, Peer!waits, Proven!waits
<1> QED
  BY <1>1, <1>2, <1>3, <1>4, <1>5, <1>6, <1>7, <1>8, <1>9, <1>10
     DEF Peer!DiscoveryNext, Proven!DiscoveryNext, Peer!Discover, Proven!Discover

\* A step of discovery keeps its invariant, in whatever round.
LEMMA FindingKept ==
  ASSUME Peer!DiscoveryInv, Peer!DiscoveryNext
  PROVE  Peer!DiscoveryInv'
<1>1. Proven!DiscoveryInv /\ Proven!DiscoveryNext
  BY SameInvariant, SameSteps
<1>2. Proven!DiscoveryInv'
  BY <1>1, SameOffers, Proven!DiscoveryKeeps
<1> QED
  BY <1>2, SameInvariant

\* Without -6 discovery leaves the scope of the address alone.
LEMMA ScopeLeft ==
  ASSUME Peer!DiscoveryNext
  PROVE  /\ use_ipv6' = use_ipv6
         /\ address \in Storage /\ ~use_ipv6 => address'.scope = address.scope
<1>1. ASSUME NEW a \in Storage, NEW p, NEW family, NEW host
      PROVE  /\ Peer!WritePort(a, p).scope = a.scope
             /\ Peer!WritePort(Peer!WriteHost(a, family, host), p).scope = a.scope
  BY DEF Storage, Peer!WritePort, Peer!WriteHost
<1>2. CASE Peer!ScanItem
  BY <1>1, <1>2 DEF Peer!ScanItem, Peer!arguments
<1>3. CASE Peer!ScanEnd
  <2>1. /\ use_ipv6' = use_ipv6
        /\ address' = IF ~result' THEN address
                      ELSE [Peer!WritePort(address, port) EXCEPT
                              !.scope = IF use_ipv6 THEN Peer!Scope ELSE @]
    BY <1>3 DEF Peer!ScanEnd, Peer!arguments
  <2>2. ASSUME address \in Storage, ~use_ipv6
        PROVE  [Peer!WritePort(address, port) EXCEPT
                  !.scope = IF use_ipv6 THEN Peer!Scope ELSE @].scope = address.scope
    BY <2>2 DEF Storage, Peer!WritePort
  <2> QED
    BY <2>1, <2>2
<1>4. CASE Peer!ReceiveOffer
  BY <1>4 DEF Peer!ReceiveOffer, Peer!arguments, Storage
<1>5. CASE \/ Peer!OpenSocket \/ Peer!SendSignal \/ Peer!WaitTimesOut \/ Peer!ReceiveOther
           \/ Peer!CallFails \/ Peer!DiscoveryTick \/ \E d \in Datagrams : Peer!Arrives(d)
  BY <1>5 DEF Peer!OpenSocket, Peer!SendSignal, Peer!WaitTimesOut, Peer!ReceiveOther,
              Peer!CallFails, Peer!DiscoveryTick, Peer!Arrives, Peer!arguments, Peer!scan
<1> QED
  BY <1>2, <1>3, <1>4, <1>5 DEF Peer!DiscoveryNext, Peer!Discover

\* Discovery begins with any address that main() may have.
LEMMA FindingBegins ==
  ASSUME NotCalled, Line!LineTypeOK
  PROVE  Peer!DiscoveryInv
<1>1. typed \in Line!Arguments
  BY CommandLinesAssumption DEF Line!LineTypeOK, Line!CommandLineConstants
<1>2. typed.interface \in BOOLEAN
  BY <1>1 DEF Line!Arguments
<1>3. use_ipv6 \in BOOLEAN /\ address \in Proven!Storage
  BY SameMemory, SameSockaddr DEF Line!LineTypeOK
<1>4. Proven!DiscoveryInv
  BY <1>2, <1>3, SameOffers, Proven!DiscoveryStarts DEF NotCalled
<1> QED
  BY <1>4, SameInvariant

\* While discovery is not at work what it has found stays.
LEMMA FoundStays ==
  ASSUME NotCalled \/ Peer!DiscoveryInv,
         UNCHANGED <<kept, typed, discovery>>
  PROVE  NotCalled' \/ Peer!DiscoveryInv'
<1>1. UNCHANGED <<use_ipv6, address, typed, step, result, at, port, inbox, received,
                  remaining, sinceSent>>
  BY DEF kept, discovery
<1>2. CASE NotCalled
  BY <1>1, <1>2 DEF NotCalled
<1>3. CASE Peer!DiscoveryInv
  <2>1. UNCHANGED Proven!discoveryVars
    BY <1>1 DEF Proven!discoveryVars, Proven!arguments, Proven!scan, Proven!waits
  <2>2. Proven!DiscoveryInv'
    BY <1>3, <2>1, SameInvariant, SameOffers, Proven!DiscoveryStutters
  <2> QED
    BY <2>2, SameInvariant
<1> QED
  BY <1>2, <1>3

\* Nor does what is known of the command line change once it is read.
LEMMA ArgumentsStay ==
  ASSUME RouterInv, UNCHANGED <<kept, command>>,
         place' # "arguments" => line \in {"ready", "exited"}
  PROVE  Arguments'
<1>1. UNCHANGED <<use_ipv6, address, typed, line, errno, interval, named_port, address_buffer>>
  BY DEF kept, command
<1>2. Line!LineTypeOK /\ Line!LineKnows /\ HostAsNamed /\ Refusals
  BY DEF RouterInv, Arguments
<1>3. Line!LineTypeOK'
  BY <1>1, <1>2 DEF Line!LineTypeOK
<1>4. Line!LineKnows'
  BY <1>1, <1>2 DEF Line!LineKnows, Line!Named, Line!Asked, Line!Parses
<1>5. HostAsNamed'
  BY <1>1, <1>2 DEF HostAsNamed, Line!NamedAddress, Line!Named, Line!Asked, Line!Parses,
                    Line!Endpoint, Line!Target
<1>6. Refusals'
  BY <1>1, <1>2 DEF Refusals, Line!RefusalsExplained, Line!Parses, Line!Named
<1> QED
  BY <1>1, <1>3, <1>4, <1>5, <1>6 DEF Arguments

-----------------------------------------------------------------------------
(* Sessions.                                                               *)

\* What is proved of one session.
Sound == IInv /\ ReaderInv /\ GoodbyeInv /\ Answers /\ (Prompt => TimersInv)

\* A session that begins is sound.
LEMMA SoundStart == Init => Sound
BY InitOK, InitMaps, GoodbyeStarts, AnswersStart, TimersStart DEF Sound

\* And it stays so.
LEMMA SoundKept ==
  ASSUME Init \/ Sound, [Next]_vars
  PROVE  Sound'
<1>1. IInv /\ ReaderInv /\ GoodbyeInv /\ Answers /\ (Prompt => TimersInv)
  BY SoundStart DEF Sound
<1>2. IInv'
  BY <1>1, NextKeeps
<1>3. [Abstract!Next]_(Abstract!vars) /\ ReaderInv'
  BY <1>1, <1>2, NextMaps
<1>4. GoodbyeInv' /\ Answers'
  BY <1>1, <1>3, GoodbyesKept, AnswersKept
<1>5. Prompt => TimersInv'
  BY <1>1, TimersKept
<1> QED
  BY <1>2, <1>3, <1>4, <1>5 DEF Sound, Prompt

\* A session that has not begun is not touched by what happens before it.
LEMMA NotBegun ==
  ASSUME Init, UNCHANGED vars
  PROVE  Init'
BY DEF Init, vars, control, network, buffer, history, timers

\* Every session begins as the first one did.
LEMMA BeginsAnew ==
  ASSUME NewSession
  PROVE  Init'
BY DEF NewSession, Init

-----------------------------------------------------------------------------
(* main().                                                                 *)

\* The program starts.
LEMMA RouterStarts == RouterInit => RouterInv
<1> SUFFICES ASSUME RouterInit PROVE RouterInv
  OBVIOUS
<1>1. /\ place = "arguments" /\ Init
      /\ typed \in CommandLines /\ line = "options" /\ errno = FALSE /\ use_ipv6 = FALSE
      /\ interval = DEFAULT_HEARTBEAT_INTERVAL /\ named_port = DLEP_WELL_KNOWN_PORT
      /\ address_buffer = Zeros /\ address = Blank
  BY SameSockaddr DEF RouterInit, Line!LineInit
<1>2. NotCalled
  BY DEF RouterInit, NotCalled
<1>3. Line!LineTypeOK
  <2>1. Zeros \in STRING /\ DLEP_WELL_KNOWN_PORT \in Nat
    BY CommandLinesAssumption DEF Line!CommandLineConstants
  <2>2. Blank \in Storage
    BY <2>1 DEF Blank, Storage, Families
  <2>3. errno \in BOOLEAN /\ use_ipv6 \in BOOLEAN
    BY <1>1
  <2> QED
    BY <1>1, <2>1, <2>2, <2>3, SameSockaddr DEF Line!LineTypeOK
<1>4. Arguments
  BY <1>1, <1>3, SameSockaddr DEF Arguments, Line!LineKnows, HostAsNamed, Refusals,
                    Line!NamedAddress, Line!RefusalsExplained
<1>5. address.scope = 0
  BY <1>1 DEF Blank
<1> QED
  BY <1>1, <1>2, <1>4, <1>5 DEF RouterInv, Finding, Holding

\* The arguments are read.
LEMMA ReadingRouter ==
  ASSUME RouterInv, Reading
  PROVE  RouterInv'
<1>1. /\ place = "arguments" /\ place' = place /\ Line!LineNext
      /\ UNCHANGED vars /\ UNCHANGED discovery
  BY DEF Reading
<1>2. Arguments'
  BY <1>1, ReadingKeeps DEF RouterInv, Arguments
<1>3. NotCalled'
  BY <1>1 DEF RouterInv, Finding, NotCalled, discovery
<1>4. Init'
  BY <1>1, NotBegun DEF RouterInv, Holding
<1>5. ~Line!Named' => address'.scope = 0
  <2> SUFFICES ASSUME ~Line!Named' PROVE address'.scope = 0
    OBVIOUS
  <2>1. typed' = typed
    BY <1>1 DEF Line!LineNext, Line!Options, Line!ReadPort, Line!TryIPv6, Line!TryIPv4
  <2>2. line \notin {"port", "ipv6", "ipv4"}
    BY <2>1 DEF RouterInv, Arguments, Line!LineKnows, Line!Named
  <2>3. line = "options" /\ address' = address
    BY <1>1, <2>2 DEF Line!LineNext, Line!Options, Line!ReadPort, Line!TryIPv6, Line!TryIPv4
  <2>4. address = Blank
    BY <2>3, SameSockaddr DEF RouterInv, Arguments, Line!LineKnows
  <2> QED
    BY <2>3, <2>4 DEF Blank
<1> QED
  BY <1>1, <1>2, <1>3, <1>4, <1>5 DEF RouterInv, Finding, Holding

\* The loop begins.
LEMMA StartRouter ==
  ASSUME RouterInv, Start
  PROVE  RouterInv'
<1>1. /\ place = "arguments" /\ line \in {"ready", "exited"}
      /\ place' = IF line = "exited" THEN "exited"
                  ELSE IF Line!Named THEN "session" ELSE "discover"
      /\ UNCHANGED <<kept, command>> /\ UNCHANGED vars /\ UNCHANGED discovery
  BY DEF Start
<1>2. Arguments'
  BY <1>1, ArgumentsStay
<1>3. NotCalled' /\ line' = line /\ (Line!Named' <=> Line!Named)
  BY <1>1 DEF RouterInv, Finding, NotCalled, discovery, command, Line!Named
<1>4. Init'
  BY <1>1, NotBegun DEF RouterInv, Holding
<1>5. ~Line!Named' /\ ~typed'.ipv6 => address'.scope = 0
  BY <1>1, <1>3 DEF RouterInv, Finding, kept, command
<1>6. Finding'
  BY <1>1, <1>3, <1>5 DEF Finding
<1> QED
  BY <1>1, <1>2, <1>4, <1>6 DEF RouterInv, Holding

\* discover() takes a step.
LEMMA DiscoveringRouter ==
  ASSUME RouterInv, Discovering
  PROVE  RouterInv'
<1>1. /\ place = "discover" /\ place' = place /\ UNCHANGED command /\ UNCHANGED vars
      /\ Peer!DiscoveryNext
  BY DEF Discovering
<1>2. /\ Line!LineTypeOK /\ Line!LineKnows /\ line \in {"ready", "exited"}
      /\ HostAsNamed /\ Refusals /\ ~Line!Named /\ (NotCalled \/ Peer!DiscoveryInv)
  BY <1>1 DEF RouterInv, Arguments, Finding
<1>3. Peer!DiscoveryInv'
  BY <1>1, <1>2, FindingBegins, FindingKept
<1>4. UNCHANGED <<typed, line, errno, interval, named_port, address_buffer>>
  BY <1>1 DEF command
<1>5. Line!LineTypeOK'
  <2>1. use_ipv6' \in BOOLEAN /\ address' \in Storage
    BY <1>3, SameMemory DEF Peer!DiscoveryInv, Peer!DiscoveryTypeOK
  <2> QED
    BY <1>2, <1>4, <2>1, SameSockaddr DEF Line!LineTypeOK
<1>6. Line!LineKnows' /\ ~Line!Named'
  BY <1>1, <1>2, <1>4, ScopeLeft DEF Line!LineKnows, Line!Named
<1>7. HostAsNamed' /\ Refusals'
  BY <1>6 DEF HostAsNamed, Refusals, Line!NamedAddress, Line!RefusalsExplained,
              Line!Parses
<1>8. Arguments'
  BY <1>2, <1>4, <1>5, <1>6, <1>7 DEF Arguments
<1>9. Finding'
  <2>1. ~typed.ipv6 => address'.scope = 0
    <3>1. use_ipv6 = typed.ipv6 /\ address \in Storage
      BY <1>2, SameSockaddr DEF Line!LineKnows, Line!LineTypeOK
    <3> QED
      BY <1>1, <1>2, <3>1, ScopeLeft DEF RouterInv, Finding
  <2> QED
    BY <1>1, <1>3, <1>4, <1>6, <2>1 DEF Finding
<1>10. Init'
  BY <1>1, NotBegun DEF RouterInv, Holding
<1> QED
  BY <1>1, <1>8, <1>9, <1>10 DEF RouterInv, Holding

\* discover() returns.
LEMMA DiscoveredRouter ==
  ASSUME RouterInv, Discovered
  PROVE  RouterInv'
<1>1. /\ place = "discover" /\ step = "returned"
      /\ place' = IF result THEN "session" ELSE "exited"
      /\ UNCHANGED <<kept, command>> /\ UNCHANGED vars /\ UNCHANGED discovery
  BY DEF Discovered
<1>2. Arguments'
  BY <1>1, ArgumentsStay DEF RouterInv, Arguments
<1>3. Finding'
  <2>1. ~Line!Named /\ (NotCalled \/ Peer!DiscoveryInv)
    BY <1>1 DEF RouterInv, Finding
  <2>2. NotCalled' \/ Peer!DiscoveryInv'
    BY <1>1, <2>1, FoundStays DEF command
  <2>3. ~Line!Named' /\ (place' = "session" => Peer!Found')
    BY <1>1, <2>1 DEF Line!Named, Peer!Found, command, discovery
  <2>4. ~typed'.ipv6 => address'.scope = 0
    BY <1>1, <2>1 DEF RouterInv, Finding, kept, command
  <2> QED
    BY <1>1, <2>2, <2>3, <2>4 DEF Finding
<1>4. Init'
  BY <1>1, NotBegun DEF RouterInv, Holding
<1> QED
  BY <1>1, <1>2, <1>3, <1>4 DEF RouterInv, Holding

\* What a session, or main()'s exit, leaves alone.
LEMMA FindingStays ==
  ASSUME RouterInv, UNCHANGED <<kept, command, discovery>>, place' \in {place, "exited"}
  PROVE  Finding'
<1>1. UNCHANGED <<kept, typed, discovery>> /\ UNCHANGED <<typed, line, step, result>>
  BY DEF command, discovery
<1>2. NotCalled' \/ Peer!DiscoveryInv'
  BY <1>1, FoundStays DEF RouterInv, Finding
<1>3. Line!Named' <=> Line!Named
  BY <1>1 DEF Line!Named
<1>4. Line!Named => NotCalled'
  BY DEF RouterInv, Finding, NotCalled, discovery
<1>5. Peer!Found' <=> Peer!Found
  BY <1>1 DEF Peer!Found
<1>6. place = "arguments" => NotCalled'
  BY DEF RouterInv, Finding, NotCalled, discovery
<1>7. ~Line!Named' /\ ~typed'.ipv6 => address'.scope = 0
  BY <1>1, <1>3 DEF RouterInv, Finding, kept
<1> QED
  BY <1>1, <1>2, <1>3, <1>4, <1>5, <1>6, <1>7 DEF RouterInv, Finding

\* session() takes a step.
LEMMA SessionRouter ==
  ASSUME RouterInv, InASession
  PROVE  RouterInv'
<1>1. /\ place = "session" /\ place' = place /\ Next
      /\ UNCHANGED <<kept, command, discovery>>
  BY DEF InASession
<1>2. Arguments'
  BY <1>1, ArgumentsStay DEF RouterInv, Arguments
<1>3. Finding'
  BY <1>1, FindingStays
<1>4. Sound'
  BY <1>1, SoundKept DEF RouterInv, Holding, Sound
<1> QED
  BY <1>1, <1>2, <1>3, <1>4 DEF RouterInv, Holding, Sound

\* session() returns.
LEMMA SessionOverRouter ==
  ASSUME RouterInv, SessionOver
  PROVE  RouterInv'
<1>1. place = "session" /\ phase = "ended"
  BY DEF SessionOver
<1>2. CASE Exit
  <2>1. place' = "exited" /\ UNCHANGED <<kept, command, discovery>> /\ UNCHANGED vars
    BY <1>2 DEF Exit
  <2>2. Arguments' /\ Finding'
    BY <1>1, <2>1, ArgumentsStay, FindingStays DEF RouterInv, Arguments
  <2>3. Sound'
    BY <2>1, SoundKept DEF RouterInv, Holding, Sound
  <2> QED
    BY <2>1, <2>2, <2>3 DEF RouterInv, Holding, Sound
<1>3. CASE StartAgain
  <2>1. /\ NewSession /\ UNCHANGED <<kept, command>> /\ NotCalled'
        /\ place' = IF Line!Named THEN "session" ELSE "discover"
    BY <1>3 DEF StartAgain, NotCalled
  <2>2. Arguments'
    BY <1>1, <2>1, ArgumentsStay DEF RouterInv, Arguments
  <2>3. line' = line /\ (Line!Named' <=> Line!Named)
    BY <2>1 DEF command, Line!Named
  <2>4. Finding'
    <3>1. ~Line!Named' /\ ~typed'.ipv6 => address'.scope = 0
      BY <2>1, <2>3 DEF RouterInv, Finding, kept, command
    <3> QED
      BY <1>1, <2>1, <2>3, <3>1 DEF RouterInv, Finding
  <2>5. Init'
    BY <2>1, BeginsAnew
  <2> QED
    BY <2>1, <2>2, <2>4, <2>5 DEF RouterInv, Holding
<1> QED
  BY <1>2, <1>3 DEF SessionOver

\* Nothing happens.
LEMMA RouterStutters ==
  ASSUME RouterInv, UNCHANGED routerVars
  PROVE  RouterInv'
<1>1. place' = place /\ UNCHANGED <<kept, command, discovery>> /\ UNCHANGED vars
  BY DEF routerVars
<1>2. Arguments' /\ Finding'
  BY <1>1, ArgumentsStay, FindingStays DEF RouterInv, Arguments
<1>3. Init => Init'
  BY <1>1, NotBegun
<1>4. Init \/ Sound => Sound'
  BY <1>1, SoundKept
<1> QED
  BY <1>1, <1>2, <1>3, <1>4 DEF RouterInv, Holding, Sound

\* Every step of main() keeps the invariant.
LEMMA RouterKeeps ==
  ASSUME RouterInv, [RouterNext]_routerVars
  PROVE  RouterInv'
BY ReadingRouter, StartRouter, DiscoveringRouter, DiscoveredRouter, SessionRouter,
   SessionOverRouter, RouterStutters DEF RouterNext

-----------------------------------------------------------------------------
(* The theorems.                                                           *)

\* The inductive invariant of main(), for any number of rounds.
THEOREM RouterInvariance == RouterSpec => []RouterInv
<1>1. RouterInv /\ [RouterNext]_routerVars => RouterInv'
  BY RouterKeeps
<1> QED
  BY <1>1, RouterStarts, PTL DEF RouterSpec

\* In a round whose modem is not named on the command line, session() is called with
\* one of the usable connection points of the first offer that the discovery of the
\* same round received, whole: its family, host and port, the length of that family's
\* structure and, for an address of IPv6, the interface of -I that -6 asked on, or no
\* interface without -6.
THEOREM HeldWhereOffered == RouterSpec => []SessionsWhereOffered
<1>1. RouterInv => SessionsWhereOffered
  <2> SUFFICES ASSUME RouterInv, place = "session", ~Line!Named
               PROVE  /\ Peer!Found /\ Peer!AddressWasOffered
                      /\ address.family = "ipv6" =>
                           Target(address).scope = IF typed.ipv6 THEN Peer!Scope ELSE 0
    BY DEF SessionsWhereOffered
  <2>1. Peer!Found /\ (NotCalled \/ Peer!DiscoveryInv)
    BY DEF RouterInv, Finding
  <2>2. Peer!AddressWasOffered
    BY <2>1 DEF Peer!Found, NotCalled, Peer!DiscoveryInv
  <2>3. use_ipv6 = typed.ipv6 /\ typed.ipv6 \in BOOLEAN
    <3>1. line # "options" /\ Line!LineKnows /\ typed \in Line!Arguments
      BY CommandLinesAssumption
         DEF RouterInv, Arguments, Line!LineTypeOK, Line!CommandLineConstants
    <3> QED
      BY <3>1 DEF Line!LineKnows, Line!Arguments
  <2>4. ASSUME address.family = "ipv6", typed.ipv6
        PROVE  Target(address).scope = Peer!Scope
    BY <2>1, <2>2, <2>3, <2>4, SameMemory DEF Peer!AddressWasOffered
  <2>5. ASSUME address.family = "ipv6", ~typed.ipv6
        PROVE  Target(address).scope = 0
    BY <2>5 DEF RouterInv, Finding, Target
  <2> QED
    BY <2>1, <2>2, <2>3, <2>4, <2>5
<1> QED
  BY <1>1, RouterInvariance, PTL

\* Where a modem is named, every session is held at an address of IPv4 with the port
\* typed, whatever the two attempts of main() at the text have left in the address:
\* with -6 at the host typed, which must be one of IPv4, and without -6 at 0.0.0.0.
THEOREM NamedHost == RouterSpec => []HostAsNamed
<1>1. RouterInv => HostAsNamed
  BY DEF RouterInv, Arguments
<1> QED
  BY <1>1, RouterInvariance, PTL

\* main() refuses the text of an IPv4 address for no other reason than the options,
\* the number of arguments or a number out of range.
THEOREM RefusedForCause == RouterSpec => []Refusals
<1>1. RouterInv => Refusals
  BY DEF RouterInv, Arguments
<1> QED
  BY <1>1, RouterInvariance, PTL

\* The loop of main() goes round only after session() has returned 0, the last message
\* of that session being a Session Termination or the response to one.
THEOREM LoopsInOrder == RouterSpec => StartsOverInOrder
<1>1. RouterInv /\ [RouterNext]_routerVars =>
        [(place = "session" /\ phase = "ended" /\ phase' = "idle") =>
           ret = "ok" /\ out # <<>> /\ IsGoodbye(out[Len(out)])]_routerVars
  <2> SUFFICES ASSUME RouterInv, RouterNext,
                      place = "session", phase = "ended", phase' = "idle"
               PROVE  ret = "ok" /\ out # <<>> /\ IsGoodbye(out[Len(out)])
    OBVIOUS
  <2>1. SessionOver
    BY DEF RouterNext, Reading, Start, Discovering, Discovered, InASession
  <2>2. ret = "ok"
    BY <2>1 DEF SessionOver, Exit, vars, control
  <2>3. Sound
    BY SoundStart DEF RouterInv, Holding, Sound
  <2> QED
    BY <2>2, <2>3 DEF Sound, GoodbyeInv, SuccessMeansGoodbye
<1> QED
  BY <1>1, RouterInvariance, PTL DEF RouterSpec, StartsOverInOrder

\* What is proved of one session holds of every session of every round: main() hands
\* nothing on from one to the next.
THEOREM EverySession ==
  RouterSpec => [](TypeOK /\ InOrder /\ Answers
                   /\ LastWord /\ SuccessMeansGoodbye /\ TermRespAnswersTerm)
<1>1. RouterInv => TypeOK /\ InOrder /\ Answers
                   /\ LastWord /\ SuccessMeansGoodbye /\ TermRespAnswersTerm
  BY SoundStart DEF RouterInv, Holding, Sound, IInv, GoodbyeInv
<1> QED
  BY <1>1, RouterInvariance, PTL

\* While messages arrive whole no session of any round is late with its heartbeat,
\* with giving up a silent modem or with its own end: no timer is inherited.
THEOREM EverySessionInTime ==
  ASSUME Prompt
  PROVE  RouterSpec => []DeadlinesKept
<1>1. RouterInv => DeadlinesKept
  <2> SUFFICES ASSUME RouterInv PROVE DeadlinesKept
    OBVIOUS
  <2>1. Sound
    BY SoundStart DEF RouterInv, Holding, Sound
  <2>2. TypeOK /\ TimersInv
    BY <2>1 DEF Sound, IInv
  <2> QED
    BY <2>2, OnTimeInSession, OnTimeInTermination DEF DeadlinesKept
<1> QED
  BY <1>1, RouterInvariance, PTL

\* Every session of every round implements SessionAbs: it begins in its initial state,
\* when main() calls session() for the first time and whenever it calls it again, and
\* until session() returns each step is one of SessionAbs or none of it.
THEOREM EverySessionAsPromised ==
  RouterSpec => /\ phase = "idle" /\ Abstract!Init
                /\ [][/\ place = "session" /\ phase # "ended" => [Abstract!Next]_(Abstract!vars)
                      /\ place # "session" => UNCHANGED Abstract!vars
                      /\ phase = "ended" /\ phase' # "ended" => Abstract!Init']_routerVars
<1> DEFINE Step == /\ place = "session" /\ phase # "ended" => [Abstract!Next]_(Abstract!vars)
                   /\ place # "session" => UNCHANGED Abstract!vars
                   /\ phase = "ended" /\ phase' # "ended" => Abstract!Init'
<1>1. RouterInit => phase = "idle" /\ Abstract!Init
  BY InitMaps DEF RouterInit, Init
<1>2. RouterInv /\ [RouterNext]_routerVars => [Step]_routerVars
  <2> SUFFICES ASSUME RouterInv, RouterNext PROVE Step
    OBVIOUS
  <2>1. UNCHANGED vars => UNCHANGED Abstract!vars
    BY DEF vars, control, network, buffer, history, timers, Abstract!vars
  <2>2. Sound
    BY SoundStart DEF RouterInv, Holding, Sound
  <2>3. CASE InASession
    <3>1. place = "session" /\ phase # "ended" /\ Next
      BY <2>3 DEF InASession
    <3>2. Sound'
      BY <2>2, <3>1, SoundKept
    <3>3. [Abstract!Next]_(Abstract!vars)
      BY <2>2, <3>1, <3>2, NextMaps DEF Sound
    <3> QED
      BY <3>1, <3>3
  <2>4. CASE Reading \/ Start \/ Discovering \/ Discovered
    <3>1. place # "session" /\ UNCHANGED vars
      BY <2>4 DEF Reading, Start, Discovering, Discovered
    <3>2. phase' = phase
      BY <3>1 DEF vars, control
    <3> QED
      BY <2>1, <3>1, <3>2
  <2>5. CASE SessionOver
    <3>1. place = "session" /\ phase = "ended"
      BY <2>5 DEF SessionOver
    <3>2. CASE StartAgain
      <4>1. Init'
        BY <3>2, BeginsAnew DEF StartAgain
      <4>2. Abstract!Init'
        BY <4>1 DEF Init, Abstract!Init
      <4> QED
        BY <3>1, <4>2
    <3>3. CASE Exit
      <4>1. phase' = phase
        BY <3>3 DEF Exit, vars, control
      <4> QED
        BY <3>1, <4>1
    <3> QED
      BY <2>5, <3>2, <3>3 DEF SessionOver
  <2> QED
    BY <2>3, <2>4, <2>5 DEF RouterNext
<1> QED
  BY <1>1, <1>2, RouterInvariance, PTL DEF RouterSpec

\* Every discovery of every round implements DiscoveryAbs, whatever the memory still
\* holds of the rounds before: main() calls discover() in its initial state, and until
\* it returns each step is one of DiscoveryAbs or none of it.
THEOREM EveryDiscoveryAsPromised ==
  RouterSpec => [][/\ place = "discover" /\ step # "returned" =>
                        [Proven!Abstractly!AbsNext]_(Proven!Abstractly!abstractVars)
                   /\ place # "discover" /\ place' = "discover" =>
                        Proven!Abstractly!AbsInit']_routerVars
<1> DEFINE Step == /\ place = "discover" /\ step # "returned" =>
                        [Proven!Abstractly!AbsNext]_(Proven!Abstractly!abstractVars)
                   /\ place # "discover" /\ place' = "discover" =>
                        Proven!Abstractly!AbsInit'
<1>1. RouterInv /\ [RouterNext]_routerVars => [Step]_routerVars
  <2> SUFFICES ASSUME RouterInv, RouterNext PROVE Step
    OBVIOUS
  <2>1. ASSUME place = "discover", step # "returned"
        PROVE  [Proven!Abstractly!AbsNext]_(Proven!Abstractly!abstractVars)
    <3>1. Peer!DiscoveryNext
      BY <2>1 DEF RouterNext, Reading, Start, Discovering, Discovered, InASession, SessionOver
    <3>2. Peer!DiscoveryInv
      BY <2>1, FindingBegins DEF RouterInv, Finding, Arguments
    <3>3. Proven!DiscoveryInv /\ Proven!DiscoveryNext
      BY <3>1, <3>2, SameInvariant, SameSteps
    <3> QED
      BY <3>3, SameOffers, Proven!DiscoveryMaps
  <2>2. ASSUME place # "discover", place' = "discover"
        PROVE  Proven!Abstractly!AbsInit'
    <3>1. NotCalled'
      BY <2>2 DEF RouterNext, Reading, Start, Discovering, Discovered, InASession,
                  SessionOver, StartAgain, Exit, NotCalled, RouterInv, Finding, discovery
    <3> QED
      BY <3>1 DEF NotCalled, Proven!Abstractly!AbsInit, Proven!Found
  <2> QED
    BY <2>1, <2>2
<1> QED
  BY <1>1, RouterInvariance, PTL DEF RouterSpec
=============================================================================
