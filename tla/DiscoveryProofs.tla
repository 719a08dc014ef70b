-------------------------- MODULE DiscoveryProofs --------------------------
(***************************************************************************)
(* Discovery is type-correct, repeats its signal in time, leaves main() an *)
(* address that was offered, and implements DiscoveryAbs: for any number   *)
(* of datagrams, of any content, and whatever the address held before.     *)
(***************************************************************************)
EXTENDS Discovery, SequenceTheorems, TLAPS

-----------------------------------------------------------------------------
(* The datagrams received, and the items of one of them.                   *)

\* The first of the queue is moved to the end of those received.
LEMMA MoveHead ==
  ASSUME DiscoveryTypeOK, inbox # <<>>
  PROVE  /\ Head(inbox) \in Datagrams /\ Tail(inbox) \in Seq(Datagrams)
         /\ Append(received, Head(inbox)) \in Seq(Datagrams)
         /\ Append(received, Head(inbox)) # <<>>
         /\ Last(Append(received, Head(inbox))) = Head(inbox)
         /\ Front(Append(received, Head(inbox))) = received
<1> DEFINE d == Head(inbox)
           r == Append(received, d)
<1>1. inbox \in Seq(Datagrams) /\ received \in Seq(Datagrams)
  BY DEF DiscoveryTypeOK
<1>2. d \in Datagrams /\ Tail(inbox) \in Seq(Datagrams)
  BY <1>1, HeadTailProperties
<1> HIDE DEF d
<1>3. /\ r \in Seq(Datagrams) /\ r # <<>> /\ Len(r) = Len(received) + 1
      /\ \A i \in 1..Len(received) : r[i] = received[i]
      /\ r[Len(received) + 1] = d
  BY <1>1, <1>2, AppendProperties
<1> HIDE DEF r
<1>4. Last(r) = d
  BY <1>3 DEF Last
<1>5. Front(r) = received
  <2>1. Len(received) \in Nat /\ Len(r) - 1 = Len(received)
    BY <1>1, <1>3
  <2>2. \A i \in 1..Len(received) : r[i] \in Datagrams
    BY <1>1, <1>3
  <2>3. /\ SubSeq(r, 1, Len(received)) \in Seq(Datagrams)
        /\ Len(SubSeq(r, 1, Len(received))) = Len(received)
        /\ \A i \in 1..Len(received) : SubSeq(r, 1, Len(received))[i] = r[i]
    BY <2>1, <2>2, SubSeqProperties
  <2>4. SubSeq(r, 1, Len(received)) = received
    BY <1>1, <1>3, <2>3, SeqEqual
  <2> QED
    BY <2>1, <2>4 DEF Front
<1> QED
  BY <1>2, <1>3, <1>4, <1>5 DEF d, r

\* The messages but the last, and the last, are all of them.
LEMMA FrontLast ==
  ASSUME received \in Seq(Datagrams), received # <<>>
  PROVE  /\ Len(received) \in Nat \ {0} /\ Last(received) \in Datagrams
         /\ Len(Front(received)) = Len(received) - 1
         /\ \A i \in 1..(Len(received) - 1) : Front(received)[i] = received[i]
         /\ Append(Front(received), Last(received)) = received
<1>1. Len(received) \in Nat \ {0}
  BY EmptySeq
<1>2. \A i \in 1..Len(received) : received[i] \in Datagrams
  OBVIOUS
<1> DEFINE n == Len(received) - 1
<1>3. n \in Nat /\ n = Len(received) - 1 /\ n + 1 = Len(received)
  BY <1>1
<1> HIDE DEF n
<1> DEFINE f == SubSeq(received, 1, n)
<1>4. f \in Seq(Datagrams) /\ Len(f) = n /\ \A i \in 1..n : f[i] = received[i]
  BY <1>2, <1>3, SubSeqProperties
<1> HIDE DEF f
<1>5. received[n + 1] \in Datagrams
  BY <1>2, <1>3
<1>6. /\ Append(f, received[n + 1]) \in Seq(Datagrams)
      /\ Len(Append(f, received[n + 1])) = n + 1
      /\ \A i \in 1..n : Append(f, received[n + 1])[i] = f[i]
      /\ Append(f, received[n + 1])[n + 1] = received[n + 1]
  BY <1>4, <1>5, AppendProperties
<1>7. Append(f, received[n + 1]) = received
  <2>1. \A i \in 1..(n + 1) : i \in 1..n \/ i = n + 1
    BY <1>3
  <2>2. \A i \in 1..(n + 1) : Append(f, received[n + 1])[i] = received[i]
    BY <1>4, <1>6, <2>1
  <2> QED
    BY <1>3, <1>6, <2>2, SeqEqual
<1>8. Front(received) = f /\ Last(received) = received[n + 1]
  BY <1>3 DEF Front, Last, f
<1> QED
  BY <1>1, <1>3, <1>4, <1>5, <1>7, <1>8

\* One more datagram that is no offer.
LEMMA DisregardOne ==
  ASSUME received \in Seq(Datagrams), Disregarded(received),
         NEW d \in Datagrams, ~Valid(d)
  PROVE  Disregarded(Append(received, d))
<1>1. /\ Len(Append(received, d)) = Len(received) + 1 /\ Len(received) \in Nat
      /\ \A i \in 1..Len(received) : Append(received, d)[i] = received[i]
      /\ Append(received, d)[Len(received) + 1] = d
  BY AppendProperties
<1>2. \A i \in 1..(Len(received) + 1) : i \in 1..Len(received) \/ i = Len(received) + 1
  BY <1>1
<1> QED
  BY <1>1, <1>2 DEF Disregarded

\* An item of a datagram names a host and a port of some kind.
LEMMA ItemTyped ==
  ASSUME NEW d \in Datagrams, NEW i \in 1..Len(d.items)
  PROVE  d.items[i] \in Item /\ PortOf(d.items[i]) \in Nat
<1>1. d.items \in Seq(Item)
  BY DiscoveryAssumption DEF DiscoveryConstants, Datagram
<1>2. d.items[i] \in Item
  BY <1>1
<1>3. d.items[i].port \in Nat \cup {NoPort}
  BY <1>2 DEF Item
<1> QED
  BY <1>2, <1>3, DiscoveryAssumption DEF PortOf, DiscoveryConstants

-----------------------------------------------------------------------------
(* The memory the address is put together in.                              *)

\* Writing a host and a port leaves a whole address, which is what connect()
\* will read, whatever the memory held.
LEMMA Written ==
  ASSUME NEW a \in Storage, NEW item \in Item, IsPoint(item), PortOf(item) \in Nat,
         NEW b, b = WritePort(WriteHost(a, item.kind, item.host), PortOf(item))
  PROVE  /\ b \in Storage /\ b.family = item.kind /\ b.length = item.kind
         /\ b.family # "none" /\ Endpoint(b) = Place(item)
<1>1. item.kind \in {"ipv4", "ipv6"} /\ item.host \in STRING
  BY DEF IsPoint, Item
<1>2. CASE item.kind = "ipv4"
  <2>1. b = [a EXCEPT !.family = "ipv4", !.quad = item.host, !.length = "ipv4",
                      !.port = PortOf(item)]
    BY <1>2 DEF WritePort, WriteHost, Storage
  <2> QED
    BY <1>1, <1>2, <2>1 DEF Storage, Families, Endpoint, Target, Place
<1>3. CASE item.kind = "ipv6"
  <2>1. b = [a EXCEPT !.family = "ipv6", !.long = item.host, !.length = "ipv6",
                      !.port = PortOf(item)]
    BY <1>3 DEF WritePort, WriteHost, Storage
  <2> QED
    BY <1>1, <1>3, <2>1 DEF Storage, Families, Endpoint, Target, Place
<1> QED
  BY <1>1, <1>2, <1>3

\* Writing the port once more, and the scope of the interface, changes nothing that
\* an offer names; the scope is what connect() reads if the address is one of IPv6.
LEMMA PortAgain ==
  ASSUME NEW a \in Storage, NEW scope \in Nat, NEW b,
         b = [WritePort(a, a.port) EXCEPT !.scope = scope]
  PROVE  /\ b \in Storage /\ b.family = a.family /\ b.length = a.length
         /\ Endpoint(b) = Endpoint(a)
         /\ b.family = "ipv6" => Target(b).scope = scope
BY DEF WritePort, Storage, Endpoint, Target

-----------------------------------------------------------------------------
(* The steps.                                                              *)

\* socket() and what follows it, the signal, the wait and its end.
LEMMA WaitKeeps ==
  ASSUME DiscoveryInv, OpenSocket \/ SendSignal \/ WaitTimesOut
  PROVE  DiscoveryInv'
<1>1. /\ UNCHANGED <<use_ipv6, iface, address, result, at, port, inbox, received>>
      /\ step \in {"socket", "sending", "waiting"} /\ step' \in {"sending", "waiting"}
      /\ \/ UNCHANGED <<remaining, sinceSent>>
         \/ remaining' = DEFAULT_DISCOVERY_RETRY /\ sinceSent' = 0
  BY DEF OpenSocket, SendSignal, WaitTimesOut, arguments, scan, waits
<1>2. DEFAULT_DISCOVERY_RETRY \in Nat
  BY DiscoveryAssumption DEF DiscoveryConstants
<1>3. DiscoveryTypeOK' /\ sinceSent' + remaining' <= DEFAULT_DISCOVERY_RETRY
  BY <1>1, <1>2 DEF DiscoveryInv, DiscoveryTypeOK
<1> QED
  BY <1>1, <1>3 DEF DiscoveryInv, AddressWasOffered, Found, Disregarded

\* A call that fails.
LEMMA CallFailsKeeps ==
  ASSUME DiscoveryInv, CallFails
  PROVE  DiscoveryInv'
<1>1. /\ UNCHANGED <<use_ipv6, iface, address, at, port, inbox, received, remaining, sinceSent>>
      /\ step' = "returned" /\ result' = FALSE
  BY DEF CallFails, arguments, waits
<1>2. DiscoveryTypeOK'
  BY <1>1 DEF DiscoveryInv, DiscoveryTypeOK
<1> QED
  BY <1>1, <1>2 DEF DiscoveryInv, AddressWasOffered, Found

\* A datagram that is no offer.
LEMMA ReceiveOtherKeeps ==
  ASSUME DiscoveryInv, ReceiveOther
  PROVE  DiscoveryInv'
<1>1. /\ step = "waiting" /\ step' = "sending" /\ inbox # <<>> /\ ~Valid(Head(inbox))
      /\ inbox' = Tail(inbox) /\ received' = Append(received, Head(inbox))
      /\ UNCHANGED <<use_ipv6, iface, address, result, at, port, remaining, sinceSent>>
  BY DEF ReceiveOther, arguments, scan, waits
<1>2. /\ Head(inbox) \in Datagrams /\ inbox' \in Seq(Datagrams)
      /\ received' \in Seq(Datagrams)
  BY <1>1, MoveHead DEF DiscoveryInv
<1>3. DiscoveryTypeOK'
  BY <1>1, <1>2 DEF DiscoveryInv, DiscoveryTypeOK
<1>4. Disregarded(received')
  BY <1>1, <1>2, DisregardOne DEF DiscoveryInv, DiscoveryTypeOK
<1>5. Disregarded(received)'
  BY <1>4 DEF Disregarded
<1> QED
  BY <1>1, <1>3, <1>5 DEF DiscoveryInv, AddressWasOffered, Found

\* The first offer.
LEMMA ReceiveOfferKeeps ==
  ASSUME DiscoveryInv, ReceiveOffer
  PROVE  DiscoveryInv'
<1>1. /\ step = "waiting" /\ step' = "scanning" /\ inbox # <<>> /\ Valid(Head(inbox))
      /\ inbox' = Tail(inbox) /\ received' = Append(received, Head(inbox))
      /\ at' = 0 /\ port' = 0 /\ address' = [address EXCEPT !.family = "none"]
      /\ UNCHANGED <<use_ipv6, iface, result, remaining, sinceSent>>
  BY DEF ReceiveOffer, arguments, waits
<1>2. /\ Head(inbox) \in Datagrams /\ inbox' \in Seq(Datagrams)
      /\ received' \in Seq(Datagrams) /\ received' # <<>>
      /\ Last(received') = Head(inbox) /\ Front(received') = received
  BY <1>1, MoveHead DEF DiscoveryInv
<1>3. address' \in Storage /\ address'.family = "none"
  BY <1>1 DEF DiscoveryInv, DiscoveryTypeOK, Storage, Families
<1>4. DiscoveryTypeOK'
  BY <1>1, <1>2, <1>3 DEF DiscoveryInv, DiscoveryTypeOK
<1>5. Scanning'
  <2>1. Len(Last(received').items) \in Nat
    BY <1>2, DiscoveryAssumption DEF DiscoveryConstants, Datagram
  <2>2. Disregarded(Front(received')) /\ Valid(Last(received'))
    BY <1>1, <1>2 DEF DiscoveryInv
  <2>3. at' <= Len(Last(received').items)
    BY <1>1, <2>1
  <2> QED
    BY <1>2, <1>3, <2>2, <2>3, Zenon DEF Scanning, Disregarded
<1> QED
  BY <1>1, <1>4, <1>5 DEF DiscoveryInv, AddressWasOffered, Found

\* One item of it.
LEMMA ScanItemKeeps ==
  ASSUME DiscoveryInv, ScanItem
  PROVE  DiscoveryInv'
<1> DEFINE items == Last(received).items
           item  == items[at + 1]
<1>1. /\ step = "scanning" /\ at < Len(items) /\ at' = at + 1
      /\ IF IsPoint(item)
           THEN /\ address' = WritePort(WriteHost(address, item.kind, item.host), PortOf(item))
                /\ port' = PortOf(item)
           ELSE UNCHANGED <<address, port>>
      /\ UNCHANGED <<use_ipv6, iface, step, result, inbox, received, remaining, sinceSent>>
  BY DEF ScanItem, arguments, waits
<1>2. /\ received # <<>> /\ received \in Seq(Datagrams) /\ at \in Nat
      /\ address \in Storage /\ Scanning
  BY <1>1 DEF DiscoveryInv, DiscoveryTypeOK, Scanning
<1>3. Last(received) \in Datagrams /\ Len(items) \in Nat
  BY <1>2, FrontLast, DiscoveryAssumption DEF DiscoveryConstants, Datagram
<1>4. item \in Item /\ PortOf(item) \in Nat
  BY <1>1, <1>2, <1>3, ItemTyped
<1> HIDE DEF items
<1>5. address' \in Storage /\ port' \in Nat
  BY <1>1, <1>2, <1>4, Written DEF DiscoveryInv, DiscoveryTypeOK
<1>6. DiscoveryTypeOK'
  BY <1>1, <1>2, <1>5 DEF DiscoveryInv, DiscoveryTypeOK
<1>7. ASSUME address'.family # "none"
      PROVE  \E i \in 1..at' : FromPoint(items[i])'
  <2>1. CASE IsPoint(item)
    <3>1. /\ address'.length = item.kind /\ address'.family = item.kind
          /\ Endpoint(address') = Place(item) /\ port' = PortOf(item)
      BY <1>1, <1>2, <1>4, <2>1, Written
    <3>2. PICK i \in 1..at' : i = at + 1
      BY <1>1, <1>2
    <3>3. items'[i] = item
      BY <1>1, <3>2 DEF items
    <3>4. FromPoint(items[i])'
      BY <2>1, <3>1, <3>3 DEF FromPoint
    <3> QED
      BY <3>4
  <2>2. CASE ~IsPoint(item)
    <3>1. UNCHANGED <<address, port>> /\ items' = items
      BY <1>1, <2>2 DEF items
    <3>2. PICK i \in 1..at : FromPoint(items[i])
      BY <1>2, <1>7, <3>1 DEF Scanning, items
    <3>3. i \in 1..at' /\ items'[i] = items[i]
      BY <1>1, <1>2, <3>1
    <3>4. FromPoint(items[i])'
      BY <3>1, <3>2, <3>3 DEF FromPoint
    <3> QED
      BY <3>3, <3>4
  <2> QED
    BY <2>1, <2>2
<1>8. Scanning'
  <2>1. /\ received' = received /\ received # <<>> /\ Valid(Last(received))
        /\ Disregarded(Front(received)) /\ items' = items
    BY <1>1, <1>2 DEF Scanning, items
  <2>2. at' <= Len(items)
    BY <1>1, <1>2, <1>3
  <2>3. Disregarded(Front(received))' /\ Valid(Last(received))'
    BY <2>1 DEF Disregarded
  <2> QED
    BY <1>7, <2>1, <2>2, <2>3 DEF Scanning, items
<1> QED
  BY <1>1, <1>6, <1>8 DEF DiscoveryInv, AddressWasOffered, Found

\* The end of it.
LEMMA ScanEndKeeps ==
  ASSUME DiscoveryInv, ScanEnd
  PROVE  /\ DiscoveryInv'
         /\ result' => Endpoint(address') \in Usable(Last(received))
<1> DEFINE items == Last(received).items
<1>1. /\ step = "scanning" /\ step' = "returned" /\ at = Len(items)
      /\ result' = (address.family # "none" /\ port # 0)
      /\ address' = IF ~result' THEN address
                    ELSE [WritePort(address, port) EXCEPT
                            !.scope = IF use_ipv6 THEN Scope ELSE @]
      /\ UNCHANGED <<use_ipv6, iface, at, port, inbox, received, remaining, sinceSent>>
  BY DEF ScanEnd, Scanned, arguments, waits
<1>2. /\ received # <<>> /\ received \in Seq(Datagrams)
      /\ address \in Storage /\ Scanning /\ InterfaceIndex \in Nat
  BY <1>1, DiscoveryAssumption
     DEF DiscoveryInv, DiscoveryTypeOK, Scanning, DiscoveryConstants
<1>3. CASE ~result'
  <2>1. DiscoveryTypeOK'
    BY <1>1, <1>3 DEF DiscoveryInv, DiscoveryTypeOK
  <2> QED
    BY <1>1, <1>3, <2>1 DEF DiscoveryInv, AddressWasOffered, Found
<1>4. CASE result'
  <2>1. address.family # "none" /\ port # 0
    BY <1>1, <1>4
  <2>2. PICK i \in 1..at : FromPoint(items[i])
    BY <1>2, <2>1 DEF Scanning
  <2>3. address.port = port /\ address.port \in Nat
    BY <1>2, <2>2 DEF FromPoint, Endpoint, Target, Place, Storage
  <2> DEFINE scope == IF use_ipv6 THEN Scope ELSE WritePort(address, port).scope
  <2>4. scope \in Nat /\ address' = [WritePort(address, address.port) EXCEPT !.scope = scope]
    BY <1>1, <1>2, <1>4, <2>3 DEF WritePort, Storage, Scope
  <2>5. use_ipv6 => scope = Scope
    OBVIOUS
  <2> HIDE DEF scope
  <2>6. /\ address' \in Storage /\ address'.family = address.family
        /\ address'.length = address.length /\ Endpoint(address') = Endpoint(address)
        /\ address'.family = "ipv6" => Target(address').scope = scope
    BY <1>2, <2>4, PortAgain
  <2>7. Endpoint(address') \in Usable(Last(received))
    <3>1. i \in DOMAIN items
      <4>1. items \in Seq(Item)
        BY <1>2, FrontLast, DiscoveryAssumption DEF DiscoveryConstants, Datagram
      <4> QED
        BY <1>1, <4>1
    <3>2. Place(items[i]) \in Offered(Last(received))
      BY <2>2, <3>1 DEF FromPoint, Offered, Points
    <3>3. Place(items[i]).port = port
      BY <2>2 DEF FromPoint, Place
    <3> QED
      BY <2>1, <2>2, <2>6, <3>2, <3>3 DEF FromPoint, Usable
  <2>8. DiscoveryTypeOK'
    BY <1>1, <1>4, <2>6 DEF DiscoveryInv, DiscoveryTypeOK
  <2>9. AddressWasOffered'
    <3>1. \A j \in 1..(Len(received) - 1) : ~Valid(received[j])
      BY <1>2, FrontLast DEF Scanning, Disregarded
    <3>2. address'.length = address'.family
      BY <2>2, <2>6 DEF FromPoint
    <3>3. use_ipv6' /\ address'.family = "ipv6" => Target(address').scope = Scope'
      BY <1>1, <2>6, <2>5 DEF Scope
    <3> QED
      BY <1>1, <1>2, <2>7, <3>1, <3>2, <3>3 DEF AddressWasOffered, Scanning
  <2> QED
    BY <1>1, <2>7, <2>8, <2>9 DEF DiscoveryInv
<1> QED
  BY <1>3, <1>4

\* Time passes, and the network delivers.
LEMMA OutsideKeeps ==
  ASSUME DiscoveryInv, DiscoveryTick \/ \E d \in Datagrams : Arrives(d)
  PROVE  DiscoveryInv'
<1>1. CASE DiscoveryTick
  <2>1. /\ UNCHANGED <<use_ipv6, iface, step, address, result, at, port, inbox, received>>
        /\ remaining > 0 /\ remaining' = remaining - 1 /\ sinceSent' = sinceSent + 1
        /\ step = "waiting"
    BY <1>1 DEF DiscoveryTick, arguments, scan
  <2>2. DEFAULT_DISCOVERY_RETRY \in Nat
    BY DiscoveryAssumption DEF DiscoveryConstants
  <2>3. DiscoveryTypeOK' /\ sinceSent' + remaining' <= DEFAULT_DISCOVERY_RETRY
    BY <2>1, <2>2 DEF DiscoveryInv, DiscoveryTypeOK
  <2> QED
    BY <2>1, <2>3 DEF DiscoveryInv, AddressWasOffered, Found, Disregarded
<1>2. ASSUME NEW d \in Datagrams, Arrives(d) PROVE DiscoveryInv'
  <2>1. /\ UNCHANGED <<use_ipv6, iface, step, address, result, at, port, received,
                       remaining, sinceSent>>
        /\ step \in {"sending", "waiting"} /\ inbox' = Append(inbox, d)
    BY <1>2 DEF Arrives, arguments, scan, waits
  <2>2. inbox' \in Seq(Datagrams)
    BY <2>1, AppendProperties DEF DiscoveryInv, DiscoveryTypeOK
  <2>3. DiscoveryTypeOK'
    BY <2>1, <2>2 DEF DiscoveryInv, DiscoveryTypeOK
  <2> QED
    BY <2>1, <2>3 DEF DiscoveryInv, AddressWasOffered, Found, Disregarded
<1> QED
  BY <1>1, <1>2

\* A step that leaves discovery alone.
LEMMA DiscoveryStutters ==
  ASSUME DiscoveryInv, UNCHANGED discoveryVars
  PROVE  DiscoveryInv'
<1>1. UNCHANGED <<use_ipv6, iface, step, address, result, at, port, inbox, received,
                  remaining, sinceSent>>
  BY DEF discoveryVars, arguments, scan, waits
<1>2. DiscoveryTypeOK' /\ AddressWasOffered'
  BY <1>1 DEF DiscoveryInv, DiscoveryTypeOK, AddressWasOffered, Found, Scope
<1>3. step = "scanning" => Scanning'
  BY <1>1 DEF DiscoveryInv, Scanning, FromPoint, Disregarded
<1> QED
  BY <1>1, <1>2, <1>3 DEF DiscoveryInv, Disregarded

\* discover() is called with an address of any content.
LEMMA DiscoveryStarts ==
  ASSUME use_ipv6 \in BOOLEAN, iface \in BOOLEAN, address \in Storage,
         step = "socket", result = FALSE, at = 0, port = 0,
         inbox = <<>>, received = <<>>, remaining = 0, sinceSent = 0
  PROVE  DiscoveryInv
<1>1. DEFAULT_DISCOVERY_RETRY \in Nat /\ <<>> \in Seq(Datagrams) /\ Len(<<>>) = 0
  BY DiscoveryAssumption DEF DiscoveryConstants
<1>2. DiscoveryTypeOK
  <2>1. /\ at \in Nat /\ port \in Nat
        /\ remaining \in 0..DEFAULT_DISCOVERY_RETRY
        /\ sinceSent \in 0..DEFAULT_DISCOVERY_RETRY
    BY <1>1
  <2>2. inbox \in Seq(Datagrams) /\ received \in Seq(Datagrams)
    BY <1>1
  <2>3. result \in BOOLEAN /\ step \in {"socket", "sending", "waiting", "scanning", "returned"}
    OBVIOUS
  <2> QED
    BY <2>1, <2>2, <2>3 DEF DiscoveryTypeOK
<1>3. AddressWasOffered
  BY DEF AddressWasOffered, Found
<1>4. Disregarded(received)
  BY <1>1 DEF Disregarded
<1>5. sinceSent + remaining <= DEFAULT_DISCOVERY_RETRY
  BY <1>1
<1> QED
  BY <1>2, <1>3, <1>4, <1>5 DEF DiscoveryInv

\* Every step of discovery keeps the invariant.
LEMMA DiscoveryKeeps ==
  ASSUME DiscoveryInv, [DiscoveryNext]_discoveryVars
  PROVE  DiscoveryInv'
BY WaitKeeps, CallFailsKeeps, ReceiveOtherKeeps, ReceiveOfferKeeps, ScanItemKeeps,
   ScanEndKeeps, OutsideKeeps, DiscoveryStutters DEF DiscoveryNext, Discover

-----------------------------------------------------------------------------
(* The theorems.                                                           *)

\* The inductive invariant: what get_peer_offer() has done so far with the
\* datagrams, the clock and main()'s address.
THEOREM DiscoveryInvariance == DiscoverySpec => []DiscoveryInv
<1>1. DiscoveryInit => DiscoveryInv
  BY DiscoveryStarts, DiscoveryAssumption DEF DiscoveryInit, DiscoveryConstants
<1>2. DiscoveryInv /\ [DiscoveryNext]_discoveryVars => DiscoveryInv'
  BY DiscoveryKeeps
<1> QED
  BY <1>1, <1>2, PTL DEF DiscoverySpec

\* Discovery is type-correct; in particular neither select()'s timeout nor the time
\* since the last signal ever exceeds the time between signals.
THEOREM DiscoveryTypes == DiscoverySpec => []DiscoveryTypeOK
<1>1. DiscoveryInv => DiscoveryTypeOK
  BY DEF DiscoveryInv
<1> QED
  BY <1>1, DiscoveryInvariance, PTL

\* get_peer_offer() asks again in time, whatever arrives in between.
THEOREM Retries == DiscoverySpec => []RetriesInTime
<1>1. DiscoveryInv => RetriesInTime
  BY DEF DiscoveryInv, RetriesInTime
<1> QED
  BY <1>1, DiscoveryInvariance, PTL

\* The address that discover() leaves in main()'s memory is that of one usable
\* connection point of the first offer, in all its parts.
THEOREM AddressOffered == DiscoverySpec => []AddressWasOffered
<1>1. DiscoveryInv => AddressWasOffered
  BY DEF DiscoveryInv
<1> QED
  BY <1>1, DiscoveryInvariance, PTL

-----------------------------------------------------------------------------
(* An offer in the queue.                                                  *)

\* recvfrom() brings every other datagram one place forward.
LEMMA OnePlaceForward ==
  ASSUME DiscoveryTypeOK, NEW i \in DOMAIN inbox, i # 1
  PROVE  /\ i - 1 \in DOMAIN Tail(inbox) /\ Tail(inbox)[i - 1] = inbox[i]
         /\ i \in Nat /\ i - 1 \in Nat
<1>1. inbox \in Seq(Datagrams) /\ i \in 1..Len(inbox) /\ inbox # <<>>
  BY DEF DiscoveryTypeOK
<1>2. /\ Tail(inbox) \in Seq(Datagrams) /\ Len(Tail(inbox)) = Len(inbox) - 1
      /\ \A k \in 1..Len(Tail(inbox)) : Tail(inbox)[k] = inbox[k + 1]
  BY <1>1, HeadTailProperties
<1>3. i - 1 \in 1..Len(Tail(inbox)) /\ (i - 1) + 1 = i
  BY <1>1, <1>2
<1> QED
  BY <1>1, <1>2, <1>3

\* A datagram that arrives leaves those that are queued in their places.
LEMMA ArrivesLast ==
  ASSUME DiscoveryTypeOK, NEW d \in Datagrams, NEW i \in DOMAIN inbox
  PROVE  i \in DOMAIN Append(inbox, d) /\ Append(inbox, d)[i] = inbox[i]
<1>1. inbox \in Seq(Datagrams) /\ i \in 1..Len(inbox)
  BY DEF DiscoveryTypeOK
<1>2. /\ Append(inbox, d) \in Seq(Datagrams) /\ Len(Append(inbox, d)) = Len(inbox) + 1
      /\ \A k \in 1..Len(inbox) : Append(inbox, d)[k] = inbox[k]
  BY <1>1, AppendProperties
<1>3. i \in 1..(Len(inbox) + 1)
  BY <1>1
<1> QED
  BY <1>1, <1>2, <1>3

\* Each step of discovery brings an offer that waits in the queue nearer.
LEMMA ComesUp ==
  ASSUME DiscoveryTypeOK, DiscoveryNext, NEW i \in DOMAIN inbox,
         step \in {"sending", "waiting"}, Valid(inbox[i])
  PROVE  \/ step' \in {"scanning", "returned"}
         \/ \E j \in DOMAIN inbox' : inbox'[j] = inbox[i] /\ CallsTo(j)' < CallsTo(i)
         \/ i \in DOMAIN inbox' /\ inbox'[i] = inbox[i] /\ UNCHANGED <<step, waits, received>>
<1>1. i \in Nat /\ inbox # <<>> /\ inbox \in Seq(Datagrams)
  BY DEF DiscoveryTypeOK
<1>2. CASE OpenSocket \/ ScanItem \/ ScanEnd
  BY <1>2 DEF OpenSocket, ScanItem, ScanEnd, Scanned
<1>3. CASE SendSignal
  <2>1. step = "sending" /\ step' = "waiting" /\ inbox' = inbox
    BY <1>3 DEF SendSignal
  <2>2. CallsTo(i) = 2 * i + 1 /\ CallsTo(i)' = 2 * i
    BY <2>1, <1>1 DEF CallsTo
  <2>3. CallsTo(i)' < CallsTo(i)
    BY <2>2, <1>1
  <2> QED
    BY <2>1, <2>3
<1>4. CASE ReceiveOther
  <2>1. /\ step = "waiting" /\ step' = "sending" /\ ~Valid(Head(inbox))
        /\ inbox' = Tail(inbox)
    BY <1>4 DEF ReceiveOther
  <2>2. Head(inbox) = inbox[1]
    BY <1>1
  <2>3. i # 1
    BY <2>1, <2>2
  <2>4. i - 1 \in DOMAIN inbox' /\ inbox'[i - 1] = inbox[i] /\ i - 1 \in Nat
    BY <2>1, <2>3, OnePlaceForward
  <2>5. CallsTo(i - 1)' = 2 * (i - 1) + 1
    BY <2>1 DEF CallsTo
  <2>6. CallsTo(i) = 2 * i
    BY <2>1, <1>1 DEF CallsTo
  <2>7. CallsTo(i - 1)' < CallsTo(i)
    BY <2>4, <2>5, <2>6, <1>1
  <2> QED
    BY <2>4, <2>7
<1>5. CASE ReceiveOffer \/ CallFails
  BY <1>5 DEF ReceiveOffer, CallFails
<1>6. CASE WaitTimesOut \/ DiscoveryTick
  BY <1>1, <1>6 DEF WaitTimesOut, DiscoveryTick
<1>7. CASE \E d \in Datagrams : Arrives(d)
  <2>1. PICK d \in Datagrams : Arrives(d)
    BY <1>7
  <2>2. inbox' = Append(inbox, d) /\ UNCHANGED <<step, waits, received>>
    BY <2>1 DEF Arrives
  <2> QED
    BY <2>2, ArrivesLast
<1> QED
  BY <1>2, <1>3, <1>4, <1>5, <1>6, <1>7 DEF DiscoveryNext, Discover

\* And the scan of one goes forward to its end.
LEMMA ScanGoesForward ==
  ASSUME DiscoveryTypeOK, DiscoveryNext, step = "scanning"
  PROVE  step' = "returned" \/ (step' = "scanning" /\ at' > at)
<1>1. ScanItem \/ ScanEnd
  BY DEF DiscoveryNext, Discover, OpenSocket, SendSignal, WaitTimesOut, ReceiveOther,
         ReceiveOffer, CallFails, DiscoveryTick, Arrives
<1>2. CASE ScanItem
  <2>1. step' = step /\ at' = at + 1 /\ at \in Nat
    BY <1>2 DEF ScanItem, DiscoveryTypeOK
  <2> QED
    BY <2>1
<1>3. CASE ScanEnd
  BY <1>3 DEF ScanEnd
<1> QED
  BY <1>1, <1>2, <1>3

\* get_peer_offer() does not pass over a valid Peer Offer: whatever is queued before it,
\* however late it arrives, at most two calls for each datagram are made before it, or
\* one before it, is read; and what is read as an offer is scanned to its end.
THEOREM OffersComeUp == DiscoverySpec => OfferComesUp
<1>1. ASSUME DiscoveryInv, DiscoveryNext
      PROVE  /\ \A i \in DOMAIN inbox : step \in {"sending", "waiting"} /\ Valid(inbox[i]) =>
                  \/ step' \in {"scanning", "returned"}
                  \/ \E j \in DOMAIN inbox' : inbox'[j] = inbox[i] /\ CallsTo(j)' < CallsTo(i)
                  \/ i \in DOMAIN inbox' /\ inbox'[i] = inbox[i]
                     /\ UNCHANGED <<step, waits, received>>
             /\ step = "scanning" =>
                  step' = "returned" \/ (step' = "scanning" /\ at' > at)
  BY <1>1, ComesUp, ScanGoesForward DEF DiscoveryInv
<1> QED
  BY <1>1, DiscoveryInvariance, PTL DEF DiscoverySpec, OfferComesUp

-----------------------------------------------------------------------------
(* The abstract specification.                                             *)

\* While discovery asks, nothing is found.
LEMMA StillAsking ==
  ASSUME step # "returned", step' # "returned",
         IF step' = "scanning"
           THEN Front(received') = IF step = "scanning" THEN Front(received) ELSE received
           ELSE step # "scanning" /\ received' = received
  PROVE  UNCHANGED Abstractly!abstractVars
BY DEF Abstractly!abstractVars, Found

\* Sockets, signals, time and items are no business of the abstract specification.
LEMMA InnerStepsMap ==
  ASSUME DiscoveryInv,
         \/ OpenSocket \/ SendSignal \/ WaitTimesOut \/ DiscoveryTick \/ ScanItem
         \/ ReceiveOffer \/ \E d \in Datagrams : Arrives(d)
  PROVE  UNCHANGED Abstractly!abstractVars
<1>1. CASE ReceiveOffer
  <2>1. Front(received') = received /\ step = "waiting" /\ step' = "scanning"
    BY <1>1, MoveHead DEF DiscoveryInv, ReceiveOffer
  <2> QED
    BY <2>1, StillAsking
<1>2. CASE ScanItem
  BY <1>2, StillAsking DEF ScanItem
<1>3. CASE OpenSocket \/ SendSignal \/ WaitTimesOut \/ DiscoveryTick
           \/ \E d \in Datagrams : Arrives(d)
  <2>1. /\ received' = received /\ step \in {"socket", "sending", "waiting"}
        /\ step' \in {"sending", "waiting"}
    BY <1>3 DEF OpenSocket, SendSignal, WaitTimesOut, DiscoveryTick, Arrives
  <2> QED
    BY <2>1, StillAsking
<1> QED
  BY <1>1, <1>2, <1>3

\* A datagram that is no offer is disregarded.
LEMMA ReceiveOtherMaps ==
  ASSUME DiscoveryInv, ReceiveOther
  PROVE  Abstractly!AbsNext
<1> DEFINE d == Head(inbox)
<1>1. /\ step = "waiting" /\ step' = "sending" /\ inbox # <<>> /\ ~Valid(d)
      /\ received' = Append(received, d)
  BY DEF ReceiveOther
<1>2. d \in Datagrams
  BY <1>1, MoveHead DEF DiscoveryInv
<1> HIDE DEF d
<1>3. Abstractly!Disregard(d)
  BY <1>1 DEF Abstractly!Disregard, Found
<1> QED
  BY <1>2, <1>3 DEF Abstractly!AbsNext

\* A call that fails ends discovery where it stands.
LEMMA CallFailsMaps ==
  ASSUME DiscoveryInv, CallFails
  PROVE  Abstractly!AbsNext
<1>1. /\ step \in {"socket", "sending", "waiting"} /\ step' = "returned"
      /\ result' = FALSE /\ received' = received
  BY DEF CallFails
<1>2. Abstractly!Fail
  BY <1>1 DEF Abstractly!Fail, Found
<1> QED
  BY <1>2 DEF Abstractly!AbsNext

\* The end of a scan finds what the offer names, or fails.
LEMMA ScanEndMaps ==
  ASSUME DiscoveryInv, ScanEnd
  PROVE  Abstractly!AbsNext
<1> DEFINE d == Last(received)
<1>1. /\ step = "scanning" /\ step' = "returned" /\ received' = received
      /\ result' \in BOOLEAN /\ Scanning
  BY DEF ScanEnd, Scanned, DiscoveryInv
<1>2. Valid(d) /\ received # <<>> /\ received \in Seq(Datagrams)
  BY <1>1 DEF Scanning, DiscoveryInv, DiscoveryTypeOK
<1>3. d \in Datagrams /\ received' = Append(Front(received), d)
  BY <1>1, <1>2, FrontLast
<1>4. result' => Endpoint(address') \in Usable(d)
  BY ScanEndKeeps
<1> HIDE DEF d
<1>5. CASE result'
  <2>1. Abstractly!Find(d)
    BY <1>1, <1>2, <1>3, <1>4, <1>5 DEF Abstractly!Find, Found
  <2> QED
    BY <1>3, <2>1 DEF Abstractly!AbsNext
<1>6. CASE ~result'
  <2>1. Abstractly!Fail
    BY <1>1, <1>2, <1>3, <1>6 DEF Abstractly!Fail, Found
  <2> QED
    BY <2>1 DEF Abstractly!AbsNext
<1> QED
  BY <1>5, <1>6

\* Every step of discovery is one of the abstract specification or none of it.
LEMMA DiscoveryMaps ==
  ASSUME DiscoveryInv, [DiscoveryNext]_discoveryVars
  PROVE  [Abstractly!AbsNext]_(Abstractly!abstractVars)
<1>1. CASE UNCHANGED discoveryVars
  <2>1. UNCHANGED <<step, address, result, received>>
    BY <1>1 DEF discoveryVars, scan
  <2> QED
    BY <2>1 DEF Abstractly!abstractVars, Found
<1> QED
  BY <1>1, InnerStepsMap, ReceiveOtherMaps, CallFailsMaps, ScanEndMaps
     DEF DiscoveryNext, Discover

\* discover() hears datagrams until one of them is an offer and then either finds a
\* place that this very offer names, and that can be connected to, or fails: what
\* main() may rely on, whatever the steps in between.
THEOREM DiscoveryRefines == DiscoverySpec => FindsWhatIsOffered
<1>1. DiscoveryInit => Abstractly!AbsInit
  BY DEF DiscoveryInit, Abstractly!AbsInit, Found
<1>2. DiscoveryInv /\ [DiscoveryNext]_discoveryVars
        => [Abstractly!AbsNext]_(Abstractly!abstractVars)
  BY DiscoveryMaps
<1> QED
  BY <1>1, <1>2, DiscoveryInvariance, PTL
     DEF DiscoverySpec, FindsWhatIsOffered, Abstractly!AbsSpec
=============================================================================
