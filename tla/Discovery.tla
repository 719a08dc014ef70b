----------------------------- MODULE Discovery -----------------------------
(***************************************************************************)
(* Peer discovery, src/discovery.c: discover() opens a UDP socket and      *)
(* get_peer_offer() multicasts Peer Discovery signals until a valid Peer   *)
(* Offer arrives; the connection point it names is the modem's address.    *)
(*                                                                         *)
(* A datagram arrives whole or not at all.  The network, and whoever else  *)
(* is on it, may put any datagram in the socket's queue, at any time, in   *)
(* any order, twice or never.                                              *)
(***************************************************************************)
EXTENDS Sockaddr, Sequences, SequencesExt

CONSTANTS
  Datagrams,               \* what may arrive at the socket
  Addresses,               \* what earlier rounds may have left in main()'s address
  Nowhere,                 \* no modem has been found
  NoPort,                  \* a connection point that states no port
  DLEP_WELL_KNOWN_PORT,
  DEFAULT_DISCOVERY_RETRY, \* select()'s timeout, in ticks
  InterfaceIndex,          \* if_nametoindex() of the interface of -I
  MaxDatagrams             \* bound on the datagrams of one discovery

\* A data item of a Peer Offer; "ok" says whether its own check accepts it.
Item == [kind : {"peer type", "ipv4", "ipv6", "other"}, ok : BOOLEAN,
         host : STRING, port : Nat \cup {NoPort}]

\* A datagram: whether it is empty, whether it starts with a Peer Offer header
\* that reports its length, and whether its items end where it does.
Datagram == [empty : BOOLEAN, header : BOOLEAN, exact : BOOLEAN, items : Seq(Item)]

\* What is assumed of the constants, where this module is instantiated too (Router).
DiscoveryConstants ==
  /\ Datagrams \subseteq Datagram
  /\ \A d \in Datagrams : d.empty => ~d.header /\ d.items = <<>>
  /\ DEFAULT_DISCOVERY_RETRY \in Nat \ {0} /\ MaxDatagrams \in Nat
  /\ DLEP_WELL_KNOWN_PORT \in Nat \ {0} /\ NoPort \notin Nat
  /\ InterfaceIndex \in Nat
  /\ Addresses \subseteq Storage

ASSUME DiscoveryAssumption == DiscoveryConstants

VARIABLES
  use_ipv6, iface, \* what main() passes: -6, and whether there was a -I
  address,        \* main()'s address, which discovery writes to
  step,           \* "socket", "sending", "waiting", "scanning" or "returned"
  result,         \* what discover() returns: TRUE if it found a modem
  at, port,       \* the items of an offer scanned, and the port they state
  inbox,          \* the socket's receive queue
  received,       \* the datagrams received
  remaining,      \* what is left of select()'s timeout
  sinceSent       \* time since the last Peer Discovery signal

arguments     == <<use_ipv6, iface>>
scan          == <<address, result, at, port>>
waits         == <<remaining, sinceSent>>
discoveryVars == <<arguments, step, scan, inbox, received, waits>>

Found == step = "returned" /\ result

-----------------------------------------------------------------------------
(* check_peer_offer_signal()                                               *)
IsPoint(item) == item.kind \in {"ipv4", "ipv6"}

Count(items, kind) == Len(SelectSeq(items, LAMBDA item : item.kind = kind))

ValidItems(items) ==
  /\ \A i \in DOMAIN items : items[i].kind # "other" /\ items[i].ok
  /\ Count(items, "peer type") <= 1

Valid(d) ==
  /\ d.header /\ ValidItems(d.items)
  /\ d.exact
  /\ \E i \in DOMAIN d.items : IsPoint(d.items[i])

PortOf(point) == IF point.port = NoPort THEN DLEP_WELL_KNOWN_PORT ELSE point.port

\* The place a connection point names.
Place(point) == [family |-> point.kind, port |-> PortOf(point), host |-> point.host]

-----------------------------------------------------------------------------
\* socket(), binding to the interface, bind() and the multicast option.
OpenSocket ==
  /\ step = "socket"
  /\ step' = "sending"
  /\ UNCHANGED <<arguments, scan, inbox, received, waits>>

\* The signal is sent and the wait for an answer starts afresh.
SendSignal ==
  /\ step = "sending"
  /\ step' = "waiting" /\ sinceSent' = 0 /\ remaining' = DEFAULT_DISCOVERY_RETRY
  /\ UNCHANGED <<arguments, scan, inbox, received>>

\* Any of the calls along the way may fail: socket(), setsockopt(), bind(),
\* sendto(), select() or recvfrom().
CallFails ==
  /\ step \in {"socket", "sending", "waiting"}
  /\ step' = "returned" /\ result' = FALSE
  /\ UNCHANGED <<arguments, address, at, port, inbox, received, waits>>

\* An empty or invalid datagram counts as no answer at all.
ReceiveOther_WaitsOn ==
  /\ step = "waiting" /\ inbox # <<>>
  /\ ~Valid(Head(inbox))
  /\ remaining' = DEFAULT_DISCOVERY_RETRY
  /\ inbox' = Tail(inbox) /\ received' = Append(received, Head(inbox))
  /\ UNCHANGED <<arguments, step, scan, sinceSent>>

ReceiveOther ==
  /\ step = "waiting" /\ inbox # <<>>
  /\ ~Valid(Head(inbox))
  /\ step' = "sending"
  /\ inbox' = Tail(inbox) /\ received' = Append(received, Head(inbox))
  /\ UNCHANGED <<arguments, scan, waits>>

\* A valid offer ends the wait; its data items are scanned.
ReceiveOffer ==
  /\ step = "waiting" /\ inbox # <<>>
  /\ Valid(Head(inbox))
  /\ inbox' = Tail(inbox) /\ received' = Append(received, Head(inbox))
  /\ step' = "scanning" /\ at' = 0 /\ port' = 0
  /\ address' = [address EXCEPT !.family = "none"]
  /\ UNCHANGED <<arguments, result, waits>>

\* One data item: each connection point overwrites what the last one wrote of
\* the fields it has.
ScanItem_FirstFamily ==
  /\ step = "scanning" /\ at < Len(Last(received).items)
  /\ LET item == Last(received).items[at + 1]
         family == IF address.family = "none" THEN item.kind ELSE address.family
     IN  IF IsPoint(item)
           THEN /\ address' = WritePort([WriteHost(address, item.kind, item.host)
                                          EXCEPT !.family = family], PortOf(item))
                /\ port' = PortOf(item)
           ELSE UNCHANGED <<address, port>>
  /\ at' = at + 1
  /\ UNCHANGED <<arguments, step, result, inbox, received, waits>>

ScanItem ==
  /\ step = "scanning" /\ at < Len(Last(received).items)
  /\ LET item == Last(received).items[at + 1]
     IN  IF IsPoint(item)
           THEN /\ address' = WritePort(WriteHost(address, item.kind, item.host), PortOf(item))
                /\ port' = PortOf(item)
           ELSE UNCHANGED <<address, port>>
  /\ at' = at + 1
  /\ UNCHANGED <<arguments, step, result, inbox, received, waits>>

\* The scope that discover_ipv6() asks in.
Scope == IF iface THEN InterfaceIndex ELSE 0

\* Discovery fails if the port chosen is 0; otherwise IPv6 discovery adds the
\* interface that it asked on.
Scanned == step = "scanning" /\ at = Len(Last(received).items)

ScanEnd_PassesOver ==
  /\ Scanned
  /\ IF address.family # "none" /\ port # 0
       THEN step' = "returned" /\ result' = TRUE
       ELSE step' = "sending" /\ UNCHANGED result
  /\ UNCHANGED <<arguments, address, at, port, inbox, received, waits>>

ScanEnd_AnyInterface ==
  /\ Scanned
  /\ step' = "returned"
  /\ result' = (address.family # "none" /\ port # 0)
  /\ address' = IF result' THEN WritePort(address, port) ELSE address
  /\ UNCHANGED <<arguments, at, port, inbox, received, waits>>

ScanEnd_AnyPort ==
  /\ Scanned
  /\ step' = "returned" /\ result' = (address.family # "none")
  /\ UNCHANGED <<arguments, address, at, port, inbox, received, waits>>

ScanEnd ==
  /\ Scanned
  /\ step' = "returned"
  /\ result' = (address.family # "none" /\ port # 0)
  /\ address' = IF ~result' THEN address
                ELSE [WritePort(address, port) EXCEPT
                        !.scope = IF use_ipv6 THEN Scope ELSE @]
  /\ UNCHANGED <<arguments, at, port, inbox, received, waits>>

WaitTimesOut_WaitsOn ==
  /\ step = "waiting" /\ remaining = 0 /\ inbox = <<>>
  /\ remaining' = DEFAULT_DISCOVERY_RETRY /\ sinceSent' = 0
  /\ UNCHANGED <<arguments, step, scan, inbox, received>>

\* As if an expired timeout were looked at before FD_ISSET().
WaitTimesOut_LooksAtTimeout ==
  /\ step = "waiting" /\ remaining = 0
  /\ step' = "sending"
  /\ UNCHANGED <<arguments, scan, inbox, received, waits>>

WaitTimesOut ==
  /\ step = "waiting" /\ remaining = 0 /\ inbox = <<>>
  /\ step' = "sending"
  /\ UNCHANGED <<arguments, scan, inbox, received, waits>>

\* Time passes while select() waits.
DiscoveryTick ==
  /\ step = "waiting" /\ remaining > 0 /\ inbox = <<>>
  /\ remaining' = remaining - 1 /\ sinceSent' = sinceSent + 1
  /\ UNCHANGED <<arguments, step, scan, inbox, received>>

Arrives(d) ==
  /\ step \in {"sending", "waiting"}
  /\ Len(received) + Len(inbox) < MaxDatagrams
  /\ inbox' = Append(inbox, d)
  /\ UNCHANGED <<arguments, step, scan, received, waits>>

-----------------------------------------------------------------------------
\* discover() is called with what main() has as its address.
DiscoveryInit ==
  /\ use_ipv6 \in BOOLEAN /\ iface \in BOOLEAN /\ address \in Addresses
  /\ step = "socket" /\ result = FALSE /\ at = 0 /\ port = 0
  /\ inbox = <<>> /\ received = <<>>
  /\ remaining = 0 /\ sinceSent = 0

Discover ==
  \/ OpenSocket \/ SendSignal \/ WaitTimesOut
  \/ ReceiveOther \/ ReceiveOffer \/ ScanItem \/ ScanEnd

DiscoveryNext ==
  \/ Discover \/ CallFails \/ DiscoveryTick
  \/ \E d \in Datagrams : Arrives(d)

DiscoverySpec ==
  /\ DiscoveryInit /\ [][DiscoveryNext]_discoveryVars
  /\ WF_discoveryVars(Discover) /\ WF_discoveryVars(DiscoveryTick)

-----------------------------------------------------------------------------
DiscoveryTypeOK ==
  /\ use_ipv6 \in BOOLEAN /\ iface \in BOOLEAN /\ address \in Storage
  /\ step \in {"socket", "sending", "waiting", "scanning", "returned"}
  /\ result \in BOOLEAN
  /\ at \in Nat /\ port \in Nat
  /\ inbox \in Seq(Datagrams) /\ received \in Seq(Datagrams)
  /\ remaining \in 0..DEFAULT_DISCOVERY_RETRY /\ sinceSent \in 0..DEFAULT_DISCOVERY_RETRY

\* The places that a datagram offers and that can be connected to.
Points(d)  == {i \in DOMAIN d.items : IsPoint(d.items[i])}
Offered(d) == {Place(d.items[i]) : i \in Points(d)}
Usable(d)  == {place \in Offered(d) : place.port # 0}

\* The address discover() leaves for connect() is usable and was offered:
\* host, family and port all come from one and the same connection point of the
\* first valid signal received, whatever came before it, whatever else it
\* contains and whatever the memory held; connect() is told the length of that
\* family's structure; and after discovery over IPv6 a modem found at an address
\* of IPv6 is called upon through the interface of -I.
AddressWasOffered ==
  Found =>
    /\ received # <<>>
    /\ \A i \in 1..(Len(received) - 1) : ~Valid(received[i])
    /\ Valid(Last(received))
    /\ Endpoint(address) \in Usable(Last(received))
    /\ address.length = address.family
    /\ use_ipv6 /\ address.family = "ipv6" => Target(address).scope = Scope

\* Signals are never further apart than DEFAULT_DISCOVERY_RETRY: no datagram, of
\* any kind, postpones the next one.
RetriesInTime ==
  step \in {"sending", "waiting"} => sinceSent + remaining <= DEFAULT_DISCOVERY_RETRY

\* What a scan of the first offer has made of main()'s address so far: the family
\* is that of a connection point scanned, and so is everything connect() will read;
\* what the address held before the scan is out of reach.
Disregarded(s) == \A i \in 1..Len(s) : ~Valid(s[i])

FromPoint(item) ==
  /\ IsPoint(item) /\ port = PortOf(item)
  /\ Endpoint(address) = Place(item) /\ address.length = address.family

Scanning ==
  /\ received # <<>> /\ Valid(Last(received)) /\ Disregarded(Front(received))
  /\ at <= Len(Last(received).items)
  /\ address.family # "none" => \E i \in 1..at : FromPoint(Last(received).items[i])

\* The inductive invariant of discovery: no datagram before the first offer is
\* anything but disregarded, and the wait for the next signal only shrinks.
DiscoveryInv ==
  /\ DiscoveryTypeOK /\ AddressWasOffered
  /\ sinceSent + remaining <= DEFAULT_DISCOVERY_RETRY
  /\ step \in {"socket", "sending", "waiting"} => Disregarded(received)
  /\ step = "scanning" => Scanning
  /\ step # "returned" => ~result

\* A valid offer in the queue ends discovery, whatever is queued before it.
OfferEndsDiscovery ==
  (\E i \in DOMAIN inbox : Valid(inbox[i])) ~> (step = "returned")

\* It comes about step by step, although a signal is sent between any two datagrams
\* received and the timeout may be used up when the offer arrives: no call that returns
\* leaves as many calls to make before the offer is read; and the scan goes forward.
CallsTo(place) == 2 * place + (IF step = "sending" THEN 1 ELSE 0)

OfferComesUp ==
  [][/\ \A i \in DOMAIN inbox : step \in {"sending", "waiting"} /\ Valid(inbox[i]) =>
          \/ step' \in {"scanning", "returned"}
          \/ \E j \in DOMAIN inbox' : inbox'[j] = inbox[i] /\ CallsTo(j)' < CallsTo(i)
          \/ i \in DOMAIN inbox' /\ inbox'[i] = inbox[i] /\ UNCHANGED <<step, waits, received>>
     /\ step = "scanning" =>
          step' = "returned" \/ (step' = "scanning" /\ at' > at)]_discoveryVars

\* Silence never ends discovery: from every wait another signal is sent, unless
\* a call fails or an offer arrives first.
KeepsAsking ==
  []<>(step = "sending") \/ <>[](step = "returned")

\* discover() implements its abstract specification: an offer counts as heard
\* once it has been scanned to its end, and the place found is the family, host and
\* port that connect() would read in the memory then.
Abstractly == INSTANCE DiscoveryAbs WITH
  IsOffer <- Valid,
  Offered <- Usable,
  status  <- IF step # "returned" THEN "asking" ELSE IF result THEN "found" ELSE "failed",
  heard   <- IF step = "scanning" THEN Front(received) ELSE received,
  target  <- IF Found THEN Endpoint(address) ELSE Nowhere

FindsWhatIsOffered == Abstractly!AbsSpec
=============================================================================
