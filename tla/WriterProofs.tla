---------------------------- MODULE WriterProofs ----------------------------
(***************************************************************************)
(* What is written is what is read, for every number; no message runs past *)
(* its array, for every peer type; and a receiver that goes by the lengths *)
(* finds the message that was meant.                                       *)
(***************************************************************************)
EXTENDS Writer, SequenceTheorems, WellFoundedInduction, TLAPS

\* Quotient and remainder are numbers, and put together they make the dividend.
LEMMA DivMod ==
  ASSUME NEW v \in Nat, NEW k \in Nat, k > 0
  PROVE  /\ v \div k \in Nat /\ v % k \in Nat /\ v % k < k
         /\ v = (v \div k) * k + (v % k)
  <1>. DEFINE q == v \div k
              r == v % k
  <1>1. q \in Nat /\ r \in Nat /\ r < k
    OBVIOUS
  <1>2. v = q * k + r
    <2>1. ASSUME NEW x \in Int, x = q, NEW y \in Int, y = r PROVE v = x * k + y
      BY <2>1
    <2>. QED BY <1>1, <2>1
  <1>. QED BY <1>1, <1>2, Zenon

\* The digits of a number below 256^2 to the base 256.
LEMMA Digits16 ==
  ASSUME NEW v \in Nat, v < 65536
  PROVE  v = ((v \div 256) % 256) * 256 + (v % 256)
  <1>. DEFINE q == v \div 256
              b == v % 256
              p == q \div 256
              a == q % 256
  <1>1. q \in Nat /\ b \in Nat /\ b < 256 /\ v = q * 256 + b
    BY DivMod
  <1>2. p \in Nat /\ a \in Nat /\ a < 256 /\ q = p * 256 + a
    BY <1>1, DivMod
  <1>. HIDE DEF q, b, p, a
  <1>3. p = 0
    <2>1. p * 65536 <= v
      BY <1>1, <1>2, SMT
    <2>. QED BY <2>1, <1>2, SMT
  <1>4. v = a * 256 + b
    BY <1>1, <1>2, <1>3
  <1>. QED BY <1>4 DEF a, b, q

\* The octets of a number.
LEMMA Digit == \A q \in Nat : q % 256 \in Octet
  BY DivMod DEF Octet

\* read_uint16() reads the number that write_uint16() wrote.
THEOREM Uint16Kept ==
  ASSUME NEW v \in Nat, v < 65536
  PROVE  write_uint16(v) \in Seq(Octet) /\ read_uint16(write_uint16(v)) = v
  <1>. DEFINE a == (v \div 256) % 256
              b == v % 256
  <1>1. a \in Octet /\ b \in Octet
    BY DivMod, Digit
  <1>2. write_uint16(v) = <<a, b>>
    BY DEF write_uint16
  <1>3. a * 256 + b = v
    BY Digits16
  <1>. HIDE DEF a, b
  <1>4. write_uint16(v) \in Seq(Octet) /\ read_uint16(write_uint16(v)) = a * 256 + b
    BY <1>1, <1>2 DEF read_uint16
  <1>. QED BY <1>3, <1>4

\* Dividing by 256 again and again is dividing by its powers.
LEMMA Powers ==
  ASSUME NEW v \in Nat
  PROVE  /\ v \div 65536 = (v \div 256) \div 256
         /\ v \div 16777216 = (v \div 65536) \div 256
  <1>. DEFINE q == v \div 256
              p == v \div 65536
              o == v \div 16777216
  <1>1. q \in Nat /\ p \in Nat /\ o \in Nat
    BY DivMod
  <1>2. \E r \in Nat : v = q * 256 + r /\ r < 256
    BY DivMod
  <1>3. \E r \in Nat : v = p * 65536 + r /\ r < 65536
    BY DivMod
  <1>4. \E r \in Nat : v = o * 16777216 + r /\ r < 16777216
    BY DivMod
  <1>5. \E s \in Nat : q = (q \div 256) * 256 + s /\ s < 256 /\ q \div 256 \in Nat
    BY <1>1, DivMod
  <1>6. \E s \in Nat : p = (p \div 256) * 256 + s /\ s < 256 /\ p \div 256 \in Nat
    BY <1>1, DivMod
  <1>. HIDE DEF q, p, o
  <1>7. p = q \div 256
    <2>. DEFINE x == q \div 256
    <2>1. \E s \in Nat : q = x * 256 + s /\ s < 256 /\ x \in Nat
      BY <1>5
    <2>. HIDE DEF x
    <2>2. p = x
      BY <1>1, <1>2, <1>3, <2>1, SMTT(60)
    <2>. QED BY <2>2 DEF x
  <1>8. o = p \div 256
    <2>. DEFINE x == p \div 256
    <2>1. \E s \in Nat : p = x * 256 + s /\ s < 256 /\ x \in Nat
      BY <1>6
    <2>. HIDE DEF x
    <2>2. o = x
      BY <1>1, <1>3, <1>4, <2>1, SMTT(60)
    <2>. QED BY <2>2 DEF x
  <1>. QED BY <1>7, <1>8 DEF q, p, o

\* read_uint32() reads the number that write_uint32() wrote.
THEOREM Uint32Kept ==
  ASSUME NEW v \in Nat, v < 4294967296
  PROVE  write_uint32(v) \in Seq(Octet) /\ read_uint32(write_uint32(v)) = v
  <1>. DEFINE q == v \div 256
              p == v \div 65536
              o == v \div 16777216
              a == o % 256
              b == p % 256
              c == q % 256
              d == v % 256
  <1>1. q \in Nat /\ p \in Nat /\ o \in Nat
    BY DivMod
  <1>2. a \in Octet /\ b \in Octet /\ c \in Octet /\ d \in Octet
    BY <1>1, Digit
  <1>3. write_uint32(v) = <<a, b, c, d>>
    BY DEF write_uint32
  <1>4. v = q * 256 + d /\ q = p * 256 + c /\ p = o * 256 + b
    <2>1. v = q * 256 + d
      BY DivMod
    <2>2. q = (q \div 256) * 256 + c /\ p = (p \div 256) * 256 + b
      BY <1>1, DivMod
    <2>3. p = q \div 256 /\ o = p \div 256
      BY Powers
    <2>. QED BY <2>1, <2>2, <2>3
  <1>5. \E x \in Nat : o = x * 256 + a /\ a < 256 /\ a \in Nat
    BY <1>1, DivMod
  <1>. HIDE DEF a, b, c, d, q, p, o
  <1>6. /\ write_uint32(v) \in Seq(Octet)
        /\ read_uint32(write_uint32(v)) = ((a * 256 + b) * 256 + c) * 256 + d
    BY <1>2, <1>3 DEF read_uint32
  <1>7. a \in Nat /\ b \in Nat /\ c \in Nat /\ d \in Nat
    BY <1>2 DEF Octet
  <1>8. o = a
    <2>1. PICK x \in Nat : o = x * 256 + a
      BY <1>5
    <2>2. x = 0
      <3>1. x * 4294967296 <= v
        BY <1>1, <1>4, <1>7, <2>1, SMT
      <3>. QED BY <3>1, <2>1, SMT
    <2>. QED BY <2>1, <2>2, <1>7
  <1>. QED BY <1>1, <1>4, <1>6, <1>7, <1>8, SMT

-----------------------------------------------------------------------------
Items == [type : Nat, data : Seq(Octet)]

\* At most two data items, and the octets they take.
Left(items, n) ==
  \/ items = <<>> /\ n = 0
  \/ \E x \in Items : items = <<x>> /\ n = 4 + Len(x.data)
  \/ \E x, y \in Items : items = <<x, y>> /\ n = 8 + Len(x.data) + Len(y.data)

Fits(c) ==
  /\ c.header \in {4, 8} /\ c.number \in Nat /\ c.size \in Nat
  /\ \E n \in Nat : Left(c.items, n) /\ c.header + n <= c.size

\* The numbers written are octets, two or four of them.
LEMMA Written16 ==
  ASSUME NEW v \in Nat
  PROVE  write_uint16(v) \in Seq(Octet) /\ Len(write_uint16(v)) = 2
  <1>1. (v \div 256) % 256 \in Octet /\ v % 256 \in Octet
    BY DivMod, Digit
  <1>. QED BY <1>1 DEF write_uint16

\* So are the numbers of 32 bits.
LEMMA Written32 ==
  ASSUME NEW v \in Nat
  PROVE  write_uint32(v) \in Seq(Octet) /\ Len(write_uint32(v)) = 4
  <1>1. /\ (v \div 16777216) % 256 \in Octet /\ (v \div 65536) % 256 \in Octet
        /\ (v \div 256) % 256 \in Octet /\ v % 256 \in Octet
    BY DivMod, Digit
  <1>. QED BY <1>1 DEF write_uint32

\* The peer type is cut to the room there is.
LEMMA PeerTypeFits ==
  ASSUME NEW text \in Seq(Octet), NEW room \in Nat
  PROVE  /\ PeerTypeItem(text, room) \in Items
         /\ Len(PeerTypeItem(text, room).data) <= 1 + room
  <1>. DEFINE cut == IF Len(text) > room THEN room ELSE Len(text)
              described == SubSeq(text, 1, cut)
  <1>1. cut \in Nat /\ cut <= room /\ cut <= Len(text)
    OBVIOUS
  <1>. HIDE DEF cut
  <1>2. described \in Seq(Octet) /\ Len(described) = cut
    BY <1>1
  <1>3. PeerTypeItem(text, room) = [type |-> PEER_TYPE, data |-> <<0>> \o described]
    BY DEF PeerTypeItem, DataItem, cut
  <1>. HIDE DEF described
  <1>4. <<0>> \o described \in Seq(Octet) /\ Len(<<0>> \o described) = 1 + cut
    <2>1. <<0>> \in Seq(Octet) /\ Len(<<0>>) = 1
      BY DEF Octet
    <2>. QED BY <2>1, <1>1, <1>2
  <1>. QED BY <1>1, <1>3, <1>4 DEF Items, PEER_TYPE

\* Every message the router writes has an array with room for it.
LEMMA SessionInitFits ==
  ASSUME NEW interval \in Intervals, NEW text \in PeerTypes
  PROVE  Fits(SessionInit(interval, text))
  <1>. DEFINE x == DataItem(HEARTBEAT, write_uint32(interval))
              y == PeerTypeItem(text, 300 - 17)
              n == 8 + Len(x.data) + Len(y.data)
  <1>1. interval \in Nat /\ text \in Seq(Octet)
    BY WriterAssumption
  <1>2. x \in Items /\ Len(x.data) = 4
    BY <1>1, Written32 DEF DataItem, Items, HEARTBEAT
  <1>3. y \in Items /\ Len(y.data) <= 284 /\ Len(y.data) \in Nat
    BY <1>1, PeerTypeFits DEF Items
  <1>4. SessionInit(interval, text) =
          [header |-> 4, number |-> SESSION_INIT, items |-> <<x, y>>, size |-> 300]
    BY DEF SessionInit, Message, Call
  <1>. HIDE DEF x, y
  <1>5. n \in Nat /\ Left(<<x, y>>, n) /\ 4 + n <= 300
    <2>1. n \in Nat /\ 4 + n <= 300
      BY <1>2, <1>3
    <2>2. Left(<<x, y>>, n)
      BY <1>2, <1>3, Zenon DEF Left
    <2>. QED BY <2>1, <2>2
  <1>. DEFINE c == SessionInit(interval, text)
  <1>6. c.header = 4 /\ c.number = 1 /\ c.items = <<x, y>> /\ c.size = 300
    BY <1>4 DEF SESSION_INIT
  <1>. HIDE DEF n, c
  <1>7. Fits(c)
    BY <1>5, <1>6 DEF Fits
  <1>. QED BY <1>7 DEF c

\* send_peer_discovery_signal()'s, with its peer type.
LEMMA PeerDiscoveryFits ==
  ASSUME NEW text \in PeerTypes
  PROVE  Fits(PeerDiscovery(text))
  <1>. DEFINE x == PeerTypeItem(text, 100 - 13)
              n == 4 + Len(x.data)
  <1>1. text \in Seq(Octet)
    BY WriterAssumption
  <1>2. x \in Items /\ Len(x.data) <= 88 /\ Len(x.data) \in Nat
    BY <1>1, PeerTypeFits DEF Items
  <1>3. PeerDiscovery(text) =
          [header |-> 8, number |-> PEER_DISCOVERY, items |-> <<x>>, size |-> 100]
    BY DEF PeerDiscovery, Call
  <1>. HIDE DEF x
  <1>4. n \in Nat /\ Left(<<x>>, n) /\ 8 + n <= 100
    BY <1>2 DEF Left
  <1>. QED BY <1>3, <1>4 DEF Fits, PEER_DISCOVERY

\* A status item holds one octet.
LEMMA StatusItemIs ==
  ASSUME NEW sc \in Octet
  PROVE  StatusItem(sc) \in Items /\ Len(StatusItem(sc).data) = 1
  <1>1. <<sc>> \in Seq(Octet) /\ Len(<<sc>>) = 1
    OBVIOUS
  <1>. QED BY <1>1 DEF StatusItem, DataItem, Items, STATUS

\* send_session_term()'s, whatever the status.
LEMMA SessionTermFits ==
  ASSUME NEW sc \in Octet
  PROVE  Fits(SessionTerm(sc))
  <1>. DEFINE x == StatusItem(sc)
  <1>1. SessionTerm(sc) =
          [header |-> 4, number |-> SESSION_TERM, items |-> <<x>>, size |-> 9]
    BY DEF SessionTerm, Message, Call
  <1>2. x \in Items /\ Len(x.data) = 1
    BY StatusItemIs
  <1>. HIDE DEF x
  <1>3. Left(<<x>>, 5)
    <2>1. 5 = 4 + Len(x.data)
      BY <1>2
    <2>. QED BY <2>1, <1>2, Zenon DEF Left
  <1>. QED BY <1>1, <1>3 DEF Fits, SESSION_TERM

\* That of a message of a header alone.
LEMMA BareFits ==
  ASSUME NEW number \in Nat
  PROVE  Fits(Bare(number))
  <1>1. Left(<<>>, 0)
    BY DEF Left
  <1>. QED BY <1>1 DEF Fits, Bare, Message, Call

\* send_destination_up_resp()'s and send_destination_down_resp()'s.
LEMMA DestResponseFits ==
  ASSUME NEW number \in Nat, NEW mac \in Macs
  PROVE  Fits(DestResponse(number, mac))
  <1>. DEFINE x == DataItem(MAC, mac)
              y == StatusItem(SC_SUCCESS)
              c == DestResponse(number, mac)
  <1>1. c.header = 4 /\ c.number = number /\ c.items = <<x, y>> /\ c.size = 30
    BY DEF DestResponse, Message, Call
  <1>2. x \in Items /\ Len(x.data) = 6
    BY WriterAssumption DEF DataItem, Items, MAC
  <1>3. y \in Items /\ Len(y.data) = 1
    BY StatusItemIs DEF SC_SUCCESS, Octet
  <1>. HIDE DEF x, y, c
  <1>4. Left(<<x, y>>, 15)
    <2>1. 15 = 8 + Len(x.data) + Len(y.data)
      BY <1>2, <1>3
    <2>. QED BY <2>1, <1>2, <1>3, Zenon DEF Left
  <1>5. Fits(c)
    BY <1>1, <1>4 DEF Fits
  <1>. QED BY <1>5 DEF c

\* No call is left out.
LEMMA CallsFit == \A c \in Calls : Fits(c)
  <1>1. {SC_UNKNOWN_MESSAGE, SC_UNEXPECTED_MESSAGE, SC_INVALID_DATA, SC_TIMEDOUT, SC_SHUTDOWN}
          \subseteq Octet
    BY DEF SC_UNKNOWN_MESSAGE, SC_UNEXPECTED_MESSAGE, SC_INVALID_DATA, SC_TIMEDOUT,
           SC_SHUTDOWN, Octet
  <1>2. {PEER_HEARTBEAT, SESSION_TERM_RESP, DEST_UP_RESP, DEST_DOWN_RESP} \subseteq Nat
    BY DEF PEER_HEARTBEAT, SESSION_TERM_RESP, DEST_UP_RESP, DEST_DOWN_RESP
  <1>. SUFFICES ASSUME NEW c \in Calls PROVE Fits(c)
    OBVIOUS
  <1>3. \/ \E interval \in Intervals, text \in PeerTypes : c = SessionInit(interval, text)
        \/ \E text \in PeerTypes : c = PeerDiscovery(text)
        \/ \E sc \in Octet : c = SessionTerm(sc)
        \/ \E number \in Nat : c = Bare(number)
        \/ \E number \in Nat, mac \in Macs : c = DestResponse(number, mac)
    BY <1>1, <1>2 DEF Calls
  <1>. QED BY <1>3, SessionInitFits, PeerDiscoveryFits, SessionTermFits, BareFits,
             DestResponseFits, Zenon

-----------------------------------------------------------------------------
\* What is written and what is left make up a message that fits its array.
Room ==
  /\ call \in Calls /\ buf \in Seq(Octet)
  /\ writes \in {"header", "items", "sent"}
  /\ writes = "header" => left = call.items /\ buf = <<>>
  /\ writes = "items" => /\ Len(buf) >= call.header
                         /\ \E n \in Nat : Left(left, n) /\ Len(buf) + n <= call.size
  /\ writes = "sent" => Len(buf) <= call.size

\* Writing one item takes its octets from what is left.
LEMMA OneLess ==
  ASSUME NEW items, NEW n \in Nat, Left(items, n), items # <<>>
  PROVE  /\ Head(items) \in Items
         /\ \E m \in Nat : Left(Tail(items), m) /\ m + 4 + Len(Head(items).data) = n
  <1>1. CASE \E x \in Items : items = <<x>> /\ n = 4 + Len(x.data)
    <2>1. PICK x \in Items : items = <<x>> /\ n = 4 + Len(x.data)
      BY <1>1
    <2>2. Head(items) = x /\ Tail(items) = <<>> /\ Len(x.data) \in Nat
      BY <2>1 DEF Items
    <2>3. Left(<<>>, 0)
      BY DEF Left
    <2>4. 0 + 4 + Len(x.data) = n
      BY <2>1, <2>2
    <2>. QED BY <2>1, <2>2, <2>3, <2>4
  <1>2. CASE \E x, y \in Items : items = <<x, y>> /\ n = 8 + Len(x.data) + Len(y.data)
    <2>1. PICK x \in Items, y \in Items :
            items = <<x, y>> /\ n = 8 + Len(x.data) + Len(y.data)
      BY <1>2
    <2>2. Head(items) = x /\ Tail(items) = <<y>> /\ Len(x.data) \in Nat /\ Len(y.data) \in Nat
      BY <2>1 DEF Items
    <2>3. Left(<<y>>, 4 + Len(y.data))
      BY Zenon DEF Left
    <2>4. 4 + Len(y.data) \in Nat /\ 4 + Len(y.data) + 4 + Len(x.data) = n
      <3>1. \A a, b \in Nat :
              n = 8 + a + b => 4 + b \in Nat /\ 4 + b + 4 + a = n
        OBVIOUS
      <3>. QED BY <2>1, <2>2, <3>1, Zenon
    <2>. QED BY <2>1, <2>2, <2>3, <2>4
  <1>. QED BY <1>1, <1>2 DEF Left

\* Octets after octets.
LEMMA Joined ==
  ASSUME NEW s \in Seq(Octet), NEW t \in Seq(Octet)
  PROVE  s \o t \in Seq(Octet) /\ Len(s \o t) = Len(s) + Len(t)
         /\ Len(s) \in Nat /\ Len(t) \in Nat
  OBVIOUS

\* Room holds when a function begins,
LEMMA RoomInit == WriterInit => Room
  BY DEF WriterInit, Room

\* A header is as long as the number and the length it holds, and the magic word.
LEMMA HeaderKeeps == Room /\ WriteHeader => Room'
  <1>. SUFFICES ASSUME Room, WriteHeader PROVE Room'
    OBVIOUS
  <1>1. /\ call' = call /\ left' = left /\ writes' = "items" /\ call \in Calls
        /\ left = call.items /\ Fits(call)
    BY CallsFit DEF WriteHeader, Room
  <1>2. call.number \in Nat /\ call.header \in {4, 8}
    BY <1>1 DEF Fits
  <1>. DEFINE magic == IF call.header = 8 THEN <<68, 76, 69, 80>> ELSE <<>>
              number == write_uint16(call.number)
              zero == write_uint16(0)
  <1>3. magic \in Seq(Octet) /\ Len(magic) = call.header - 4
    <2>1. {68, 76, 69, 80} \subseteq Octet
      BY DEF Octet
    <2>2. <<68, 76, 69, 80>> \in Seq(Octet) /\ Len(<<68, 76, 69, 80>>) = 4
      BY <2>1
    <2>3. CASE call.header = 8
      BY <2>2, <2>3
    <2>4. CASE call.header = 4
      BY <2>4
    <2>. QED BY <2>3, <2>4, <1>2
  <1>4. /\ number \in Seq(Octet) /\ Len(number) = 2
        /\ zero \in Seq(Octet) /\ Len(zero) = 2
    BY <1>2, Written16
  <1>5. buf' = magic \o number \o zero
    BY DEF WriteHeader
  <1>. HIDE DEF magic, number, zero
  <1>6. buf' \in Seq(Octet) /\ Len(buf') = call.header
    <2>1. magic \o number \in Seq(Octet) /\ Len(magic \o number) = call.header - 2
      <3>1. magic \o number \in Seq(Octet) /\ Len(magic \o number) = Len(magic) + Len(number)
        BY <1>3, <1>4, Joined
      <3>2. Len(magic) + Len(number) = call.header - 2
        BY <1>2, <1>3, <1>4
      <3>. QED BY <3>1, <3>2
    <2>2. buf' \in Seq(Octet) /\ Len(buf') = Len(magic \o number) + Len(zero)
      BY <2>1, <1>4, <1>5, Joined
    <2>3. Len(magic \o number) + Len(zero) = call.header
      BY <2>1, <1>2, <1>4
    <2>. QED BY <2>2, <2>3
  <1>7. \E n \in Nat : Left(left', n) /\ Len(buf') + n <= call'.size
    BY <1>1, <1>6 DEF Fits
  <1>. QED BY <1>1, <1>2, <1>6, <1>7 DEF Room

\* An item takes no more than was left for it.
LEMMA ItemKeeps == Room /\ WriteItem => Room'
  <1>. SUFFICES ASSUME Room, WriteItem PROVE Room'
    OBVIOUS
  <1>1. /\ call' = call /\ writes' = writes /\ writes = "items" /\ call \in Calls
        /\ left # <<>> /\ left' = Tail(left) /\ buf \in Seq(Octet) /\ Len(buf) >= call.header
    BY DEF WriteItem, Room
  <1>2. PICK n \in Nat : Left(left, n) /\ Len(buf) + n <= call.size
    BY <1>1 DEF Room
  <1>. DEFINE item == Head(left)
              type == write_uint16(item.type)
              length == write_uint16(Len(item.data))
  <1>3. item \in Items
    BY <1>1, <1>2, OneLess
  <1>4. PICK m \in Nat : Left(left', m) /\ m + 4 + Len(item.data) = n
    BY <1>1, <1>2, OneLess
  <1>5. item.type \in Nat /\ item.data \in Seq(Octet) /\ Len(item.data) \in Nat
    BY <1>3 DEF Items
  <1>6. /\ type \in Seq(Octet) /\ Len(type) = 2
        /\ length \in Seq(Octet) /\ Len(length) = 2
    BY <1>5, Written16
  <1>7. buf' = buf \o type \o length \o item.data
    BY DEF WriteItem
  <1>. HIDE DEF item, type, length
  <1>8. buf' \in Seq(Octet) /\ Len(buf') = Len(buf) + 4 + Len(item.data)
    <2>1. buf \o type \in Seq(Octet) /\ Len(buf \o type) = Len(buf) + 2
      BY <1>1, <1>6, Joined
    <2>2. /\ buf \o type \o length \in Seq(Octet)
          /\ Len(buf \o type \o length) = Len(buf \o type) + 2
      BY <2>1, <1>6, Joined
    <2>3. buf' \in Seq(Octet) /\ Len(buf') = Len(buf \o type \o length) + Len(item.data)
      BY <2>2, <1>5, <1>7, Joined
    <2>4. \A b, d \in Nat : ((b + 2) + 2) + d = b + 4 + d
      OBVIOUS
    <2>5. Len(buf) \in Nat
      BY <1>1
    <2>6. Len(buf') = ((Len(buf) + 2) + 2) + Len(item.data)
      BY <2>1, <2>2, <2>3, Zenon
    <2>. QED BY <2>3, <2>4, <2>5, <2>6, <1>5
  <1>9. Fits(call) /\ Len(buf) \in Nat
    BY <1>1, CallsFit
  <1>10. Len(buf') + m <= call.size /\ Len(buf') >= call.header
    <2>1. call.size \in Nat /\ call.header \in Nat
      BY <1>9 DEF Fits
    <2>2. \A b, d, size, header \in Nat :
            b + n <= size /\ b >= header /\ m + 4 + d = n
              => (b + 4 + d) + m <= size /\ b + 4 + d >= header
      BY <1>2, <1>4
    <2>. QED BY <2>1, <2>2, <1>1, <1>2, <1>4, <1>5, <1>8, <1>9
  <1>. QED BY <1>1, <1>4, <1>8, <1>10 DEF Room

\* The length goes over octets that are there.
LEMMA LengthKeeps == Room /\ WriteLength => Room'
  <1>. SUFFICES ASSUME Room, WriteLength PROVE Room'
    OBVIOUS
  <1>1. /\ call' = call /\ writes' = "sent" /\ writes = "items" /\ call \in Calls
        /\ left' = left /\ buf \in Seq(Octet) /\ Len(buf) >= call.header
    BY DEF WriteLength, Room
  <1>2. call.header \in {4, 8} /\ call.size \in Nat
    BY <1>1, CallsFit DEF Fits
  <1>3. Len(buf) \in Nat /\ Len(buf) <= call.size
    BY <1>1, <1>2 DEF Room
  <1>. DEFINE before == SubSeq(buf, 1, call.header - 2)
              length == write_uint16(Len(buf) - call.header)
              after == SubSeq(buf, call.header + 1, Len(buf))
  <1>4. before \in Seq(Octet) /\ Len(before) = call.header - 2
    BY <1>1, <1>2, <1>3
  <1>5. length \in Seq(Octet) /\ Len(length) = 2
    BY <1>1, <1>2, <1>3, Written16
  <1>6. after \in Seq(Octet) /\ Len(after) = Len(buf) - call.header
    BY <1>1, <1>2, <1>3
  <1>7. buf' = before \o length \o after
    BY DEF WriteLength
  <1>. HIDE DEF before, length, after
  <1>8. buf' \in Seq(Octet) /\ Len(buf') = Len(buf)
    <2>1. before \o length \in Seq(Octet) /\ Len(before \o length) = call.header
      <3>1. before \o length \in Seq(Octet) /\ Len(before \o length) = Len(before) + Len(length)
        BY <1>4, <1>5, Joined
      <3>2. Len(before) + Len(length) = call.header
        BY <1>2, <1>4, <1>5
      <3>. QED BY <3>1, <3>2
    <2>2. buf' \in Seq(Octet) /\ Len(buf') = Len(before \o length) + Len(after)
      BY <2>1, <1>6, <1>7, Joined
    <2>3. Len(before \o length) + Len(after) = Len(buf)
      BY <2>1, <1>2, <1>3, <1>6
    <2>. QED BY <2>2, <2>3
  <1>. QED BY <1>1, <1>3, <1>8 DEF Room

\* No message the router writes runs past its array, whatever PEER_TYPE is.
THEOREM ArraysHold == WriterSpec => []WithinArray
  <1>1. Room /\ UNCHANGED writerVars => Room'
    BY DEF Room, Left, writerVars
  <1>2. Room /\ [WriterNext]_writerVars => Room'
    BY <1>1, HeaderKeeps, ItemKeeps, LengthKeeps DEF WriterNext
  <1>3. ASSUME Room PROVE WithinArray
    <2>1. call.size \in Nat /\ Len(buf) \in Nat
      BY <1>3, CallsFit DEF Room, Fits
    <2>2. CASE writes = "header"
      BY <2>1, <2>2, <1>3 DEF Room, WithinArray
    <2>3. CASE writes = "items"
      BY <2>1, <2>3, <1>3 DEF Room, WithinArray
    <2>4. CASE writes = "sent"
      BY <2>4, <1>3 DEF Room, WithinArray
    <2>. QED BY <2>2, <2>3, <2>4, <1>3 DEF Room
  <1>. QED BY RoomInit, <1>2, <1>3, PTL DEF WriterSpec

-----------------------------------------------------------------------------
(* What the array holds, octet by octet.                                   *)

\* The octets of b from p on are those of s.
At(b, p, s) ==
  /\ p \in Nat \ {0} /\ p + Len(s) <= Len(b) + 1
  /\ \A i \in 1..Len(s) : b[i + p - 1] = s[i]

ItemAt(b, p, x) ==
  /\ At(b, p, write_uint16(x.type))
  /\ At(b, p + 2, write_uint16(Len(x.data)))
  /\ At(b, p + 4, x.data)

\* Octet after octet of one sequence and then of the other.
LEMMA Octets2 ==
  ASSUME NEW s \in Seq(Octet), NEW t \in Seq(Octet)
  PROVE  /\ s \o t \in Seq(Octet)
         /\ Len(s) \in Nat /\ Len(t) \in Nat /\ Len(s \o t) = Len(s) + Len(t)
         /\ \A i \in 1..Len(s) : (s \o t)[i] = s[i]
         /\ \A i \in 1..Len(t) : (s \o t)[i + Len(s)] = t[i]
  <1>1. Len(s) \in Nat /\ Len(t) \in Nat
    OBVIOUS
  <1>2. /\ s \o t \in Seq(Octet) /\ Len(s \o t) = Len(s) + Len(t)
        /\ \A i \in 1..(Len(s) + Len(t)) :
             (s \o t)[i] = IF i <= Len(s) THEN s[i] ELSE t[i - Len(s)]
    BY ConcatProperties
  <1>3. ASSUME NEW i \in 1..Len(s) PROVE (s \o t)[i] = s[i]
    BY <1>1, <1>2
  <1>4. ASSUME NEW i \in 1..Len(t) PROVE (s \o t)[i + Len(s)] = t[i]
    <2>1. /\ i + Len(s) \in 1..(Len(s) + Len(t)) /\ ~(i + Len(s) <= Len(s))
          /\ (i + Len(s)) - Len(s) = i
      BY <1>1
    <2>2. (s \o t)[i + Len(s)] = t[(i + Len(s)) - Len(s)]
      BY <1>2, <2>1
    <2>. QED BY <2>1, <2>2
  <1>. QED BY <1>1, <1>2, <1>3, <1>4

\* What is added is at the end,
LEMMA AddedAt ==
  ASSUME NEW s \in Seq(Octet), NEW t \in Seq(Octet)
  PROVE  At(s \o t, Len(s) + 1, t)
  <1>. DEFINE b == s \o t
              p == Len(s) + 1
  <1>1. /\ Len(s) \in Nat /\ Len(t) \in Nat /\ Len(b) = Len(s) + Len(t)
        /\ \A i \in 1..Len(t) : b[i + Len(s)] = t[i]
    BY Octets2
  <1>. HIDE DEF b
  <1>2. p \in Nat \ {0} /\ p + Len(t) <= Len(b) + 1
    BY <1>1
  <1>3. ASSUME NEW i \in 1..Len(t) PROVE b[i + p - 1] = t[i]
    <2>1. i + p - 1 = i + Len(s)
      BY <1>1
    <2>. QED BY <1>1, <2>1
  <1>4. At(b, p, t)
    BY <1>2, <1>3, Zenon DEF At
  <1>. QED BY <1>4 DEF b

\* and what was there stays.
LEMMA StaysAt ==
  ASSUME NEW s \in Seq(Octet), NEW t \in Seq(Octet), NEW r \in Seq(Octet), NEW p,
         At(s, p, r)
  PROVE  At(s \o t, p, r)
  <1>. DEFINE b == s \o t
  <1>1. /\ Len(s) \in Nat /\ Len(t) \in Nat /\ Len(b) = Len(s) + Len(t)
        /\ \A i \in 1..Len(s) : b[i] = s[i]
    BY Octets2
  <1>2. /\ Len(r) \in Nat /\ p \in Nat \ {0} /\ p + Len(r) <= Len(s) + 1
        /\ \A i \in 1..Len(r) : s[i + p - 1] = r[i]
    BY DEF At
  <1>. HIDE DEF b
  <1>3. p + Len(r) <= Len(b) + 1
    BY <1>1, <1>2
  <1>4. ASSUME NEW i \in 1..Len(r) PROVE b[i + p - 1] = r[i]
    <2>1. i + p - 1 \in 1..Len(s)
      BY <1>1, <1>2
    <2>. QED BY <1>1, <1>2, <2>1
  <1>5. At(b, p, r)
    BY <1>2, <1>3, <1>4, Zenon DEF At
  <1>. QED BY <1>5 DEF b

\* c holds s and then t.
Extends(c, s, t) ==
  /\ c \in Seq(Octet) /\ Len(s) \in Nat /\ Len(t) \in Nat
  /\ Len(c) = Len(s) + Len(t)
  /\ \A i \in 1..Len(s) : c[i] = s[i]
  /\ \A i \in 1..Len(t) : c[i + Len(s)] = t[i]
  /\ At(c, Len(s) + 1, t)
  /\ \A p : \A r \in Seq(Octet) : At(s, p, r) => At(c, p, r)

\* So does their concatenation.
LEMMA Extended ==
  \A s, t \in Seq(Octet) : Extends(s \o t, s, t)
  <1>. SUFFICES ASSUME NEW s \in Seq(Octet), NEW t \in Seq(Octet), NEW c, c = s \o t
               PROVE  Extends(c, s, t)
    OBVIOUS
  <1>1. At(c, Len(s) + 1, t)
    BY AddedAt, Zenon
  <1>2. \A p : \A r \in Seq(Octet) : At(s, p, r) => At(c, p, r)
    BY StaysAt, Zenon
  <1>3. /\ c \in Seq(Octet) /\ Len(s) \in Nat /\ Len(t) \in Nat
        /\ Len(c) = Len(s) + Len(t)
        /\ \A i \in 1..Len(s) : c[i] = s[i]
        /\ \A i \in 1..Len(t) : c[i + Len(s)] = t[i]
    BY Octets2, Zenon
  <1>. QED BY <1>1, <1>2, <1>3, Zenon DEF Extends

\* c is b with a data item behind it.
Added(c, b, x) == c = b \o write_uint16(x.type) \o write_uint16(Len(x.data)) \o x.data

\* It is written behind what is there.
LEMMA ItemWritten ==
  ASSUME NEW b \in Seq(Octet), NEW x \in Items, NEW c, Added(c, b, x)
  PROVE  /\ c \in Seq(Octet) /\ Len(c) = Len(b) + 4 + Len(x.data)
         /\ ItemAt(c, Len(b) + 1, x)
         /\ \A p : \A r \in Seq(Octet) : At(b, p, r) => At(c, p, r)
  <1>. DEFINE type == write_uint16(x.type)
              length == write_uint16(Len(x.data))
              b1 == b \o type
              b2 == b1 \o length
  <1>1. /\ x.type \in Nat /\ x.data \in Seq(Octet) /\ Len(x.data) \in Nat
        /\ Len(b) \in Nat
    BY DEF Items
  <1>2. /\ type \in Seq(Octet) /\ Len(type) = 2
        /\ length \in Seq(Octet) /\ Len(length) = 2
    BY <1>1, Written16
  <1>3. b1 = b \o type /\ b2 = b1 \o length /\ c = b2 \o x.data
    BY DEF Added
  <1>. HIDE DEF type, length, b1, b2
  <1>4. /\ b1 \in Seq(Octet) /\ Len(b1) = Len(b) + Len(type) /\ At(b1, Len(b) + 1, type)
        /\ \A p : \A r \in Seq(Octet) : At(b, p, r) => At(b1, p, r)
    <2>1. Extends(b1, b, type)
      BY <1>2, <1>3, Extended, Zenon
    <2>. QED BY <2>1, Zenon DEF Extends
  <1>5. /\ b2 \in Seq(Octet) /\ Len(b2) = Len(b1) + Len(length)
        /\ At(b2, Len(b1) + 1, length)
        /\ \A p : \A r \in Seq(Octet) : At(b1, p, r) => At(b2, p, r)
    <2>1. Extends(b2, b1, length)
      BY <1>2, <1>3, <1>4, Extended, Zenon
    <2>. QED BY <2>1, Zenon DEF Extends
  <1>6. /\ c \in Seq(Octet) /\ Len(c) = Len(b2) + Len(x.data)
        /\ At(c, Len(b2) + 1, x.data)
        /\ \A p : \A r \in Seq(Octet) : At(b2, p, r) => At(c, p, r)
    <2>1. Extends(c, b2, x.data)
      BY <1>1, <1>3, <1>5, Extended, Zenon
    <2>. QED BY <2>1, Zenon DEF Extends
  <1>7. /\ Len(b1) + 1 = Len(b) + 1 + 2 /\ Len(b2) + 1 = Len(b) + 1 + 4
        /\ Len(c) = Len(b) + 4 + Len(x.data)
    BY <1>1, <1>2, <1>4, <1>5, <1>6
  <1>8. ItemAt(c, Len(b) + 1, x)
    <2>1. At(c, Len(b) + 1, type)
      BY <1>2, <1>4, <1>5, <1>6
    <2>2. At(c, Len(b) + 1 + 2, length)
      BY <1>2, <1>5, <1>6, <1>7
    <2>3. At(c, Len(b) + 1 + 4, x.data)
      BY <1>6, <1>7
    <2>. QED BY <2>1, <2>2, <2>3 DEF ItemAt, type, length
  <1>. QED BY <1>4, <1>5, <1>6, <1>7, <1>8

\* c is b with two octets written over the last two of a header of h octets.
Patched(c, b, h, l) == c = SubSeq(b, 1, h - 2) \o l \o SubSeq(b, h + 1, Len(b))

\* Nothing else changes.
LEMMA Overwritten ==
  ASSUME NEW b \in Seq(Octet), NEW h \in Nat, h >= 4, Len(b) >= h,
         NEW l \in Seq(Octet), Len(l) = 2, NEW c, Patched(c, b, h, l)
  PROVE  /\ Len(c) = Len(b) /\ At(c, h - 1, l)
         /\ \A p : \A r \in Seq(Octet) :
              At(b, p, r) /\ (p + Len(r) <= h - 1 \/ p > h) => At(c, p, r)
  <1>. DEFINE before == SubSeq(b, 1, h - 2)
              after  == SubSeq(b, h + 1, Len(b))
              b1     == before \o l
  <1>1. Len(b) \in Nat /\ h - 2 \in Nat
    OBVIOUS
  <1>2. /\ before \in Seq(Octet) /\ Len(before) = h - 2
        /\ \A i \in 1..(h - 2) : before[i] = b[i]
    <2>1. \A i \in 1..(h - 2) : b[i] \in Octet
      BY <1>1
    <2>2. /\ before \in Seq(Octet)
          /\ Len(before) = IF 1 <= h - 2 THEN (h - 2) - 1 + 1 ELSE 0
          /\ \A i \in 1..((h - 2) - 1 + 1) : before[i] = b[1 + i - 1]
      BY <1>1, <2>1, SubSeqProperties
    <2>. HIDE DEF before
    <2>3. ASSUME NEW i \in 1..(h - 2) PROVE before[i] = b[i]
      <3>1. i \in 1..((h - 2) - 1 + 1) /\ 1 + i - 1 = i
        BY <1>1
      <3>. QED BY <2>2, <3>1
    <2>. QED BY <1>1, <2>2, <2>3
  <1>3. /\ after \in Seq(Octet) /\ Len(after) = Len(b) - h
        /\ \A i \in 1..(Len(b) - h) : after[i] = b[i + h]
    <2>1. \A i \in (h + 1)..Len(b) : b[i] \in Octet
      BY <1>1
    <2>2. /\ after \in Seq(Octet)
          /\ Len(after) = IF h + 1 <= Len(b) THEN Len(b) - (h + 1) + 1 ELSE 0
          /\ \A i \in 1..(Len(b) - (h + 1) + 1) : after[i] = b[(h + 1) + i - 1]
      BY <1>1, <2>1, SubSeqProperties
    <2>. HIDE DEF after
    <2>3. ASSUME NEW i \in 1..(Len(b) - h) PROVE after[i] = b[i + h]
      <3>1. i \in 1..(Len(b) - (h + 1) + 1) /\ (h + 1) + i - 1 = i + h
        BY <1>1
      <3>. QED BY <2>2, <3>1
    <2>. QED BY <1>1, <2>2, <2>3
  <1>4. b1 = before \o l /\ c = b1 \o after
    BY DEF Patched
  <1>. HIDE DEF before, after, b1
  <1>5. /\ b1 \in Seq(Octet) /\ Len(b1) = h
        /\ \A i \in 1..(h - 2) : b1[i] = b[i]
        /\ At(b1, h - 1, l)
    <2>1. /\ b1 \in Seq(Octet) /\ Len(b1) = Len(before) + Len(l)
          /\ \A i \in 1..Len(before) : b1[i] = before[i]
          /\ At(b1, Len(before) + 1, l)
      <3>1. Extends(b1, before, l)
        BY <1>2, <1>4, Extended, Zenon
      <3>. QED BY <3>1, Zenon DEF Extends
    <2>2. Len(before) + 1 = h - 1 /\ Len(before) + Len(l) = h
      BY <1>1, <1>2
    <2>. QED BY <1>2, <2>1, <2>2
  <1>6. /\ c \in Seq(Octet) /\ Len(c) = Len(b1) + Len(after)
        /\ \A i \in 1..Len(b1) : c[i] = b1[i]
        /\ \A i \in 1..Len(after) : c[i + Len(b1)] = after[i]
        /\ \A p : \A r \in Seq(Octet) : At(b1, p, r) => At(c, p, r)
    <2>1. Extends(c, b1, after)
      BY <1>3, <1>4, <1>5, Extended, Zenon
    <2>. QED BY <2>1, Zenon DEF Extends
  <1>7. At(c, h - 1, l)
    BY <1>5, <1>6
  <1>8. Len(c) = Len(b)
    <2>1. Len(c) = Len(b1) + Len(after)
      BY <1>6, Zenon
    <2>2. Len(b1) = h /\ Len(after) = Len(b) - h
      BY <1>3, <1>5, Zenon
    <2>. QED BY <1>1, <2>1, <2>2
  <1>9. \A i \in 1..(h - 2) : c[i] = b[i]
    <2>1. ASSUME NEW i \in 1..(h - 2) PROVE c[i] = b[i]
      <3>1. i \in 1..Len(b1)
        BY <1>1, <1>5
      <3>. QED BY <1>5, <1>6, <3>1
    <2>. QED BY <2>1
  <1>10. \A i \in (h + 1)..Len(b) : c[i] = b[i]
    <2>1. ASSUME NEW i \in (h + 1)..Len(b) PROVE c[i] = b[i]
      <3>1. i - h \in 1..Len(after) /\ i - h \in 1..(Len(b) - h) /\ (i - h) + h = i
        BY <1>1, <1>3
      <3>2. c[(i - h) + h] = after[i - h] /\ after[i - h] = b[(i - h) + h]
        BY <1>3, <1>5, <1>6, <3>1
      <3>. QED BY <3>1, <3>2
    <2>. QED BY <2>1
  <1>11. ASSUME NEW p, NEW r \in Seq(Octet), At(b, p, r), p + Len(r) <= h - 1 \/ p > h
         PROVE  At(c, p, r)
    <2>0. Len(r) \in Nat
      OBVIOUS
    <2>1. /\ p \in Nat \ {0} /\ p + Len(r) <= Len(c) + 1
          /\ \A i \in 1..Len(r) : b[i + p - 1] = r[i]
      BY <1>8, <1>11, Zenon DEF At
    <2>2. ASSUME NEW i \in 1..Len(r) PROVE c[i + p - 1] = r[i]
      <3>1. i + p - 1 \in 1..(h - 2) \/ i + p - 1 \in (h + 1)..Len(b)
        <4>1. /\ p \in Nat /\ p >= 1 /\ p + Len(r) <= Len(b) + 1
              /\ p + Len(r) <= h - 1 \/ p > h
          <5>1. /\ p \in Nat \ {0} /\ p + Len(r) <= Len(c) + 1
                /\ p + Len(r) <= h - 1 \/ p > h
            BY <1>11, <2>1, Zenon
          <5>. QED BY <1>8, <5>1
        <4>. QED BY <1>1, <2>0, <4>1
      <3>. QED BY <1>9, <1>10, <2>1, <3>1
    <2>. QED BY <2>1, <2>2, Zenon DEF At
  <1>. QED BY <1>7, <1>8, <1>11

-----------------------------------------------------------------------------
(* What a message is made of as it is written.                             *)

\* The items are those of the message, and no octet follows the last one.
Laid(b, p, items) ==
  \/ items = <<>> /\ Len(b) + 1 = p
  \/ \E x \in Items : /\ items = <<x>> /\ ItemAt(b, p, x)
                      /\ Len(b) + 1 = p + 4 + Len(x.data)
  \/ \E x, y \in Items : /\ items = <<x, y>> /\ ItemAt(b, p, x)
                         /\ ItemAt(b, p + 4 + Len(x.data), y)
                         /\ Len(b) + 1 = p + 4 + Len(x.data) + 4 + Len(y.data)

\* Some of them are, and the rest is left to write.
Partly(b, p, items, rest) ==
  \/ Laid(b, p, items) /\ rest = <<>>
  \/ rest # <<>> /\ rest = items /\ Len(b) + 1 = p /\ \E n \in Nat : Left(items, n)
  \/ \E x, y \in Items : /\ items = <<x, y>> /\ rest = <<y>>
                         /\ Laid(b, p, <<x>>)

\* Sums of lengths, once for all.
LEMMA Sums ==
  /\ \A n, k \in Nat : (n + 4 + k) + 1 = (n + 1) + 4 + k
  /\ \A p, k \in Nat : p >= p /\ p + 4 + k \in Nat /\ p + 4 + k >= p
  OBVIOUS

\* An item stays where it is as more is written.
LEMMA ItemStays ==
  ASSUME NEW b, NEW c, \A p : \A r \in Seq(Octet) : At(b, p, r) => At(c, p, r),
         NEW q, NEW x \in Items, ItemAt(b, q, x)
  PROVE  ItemAt(c, q, x)
  <1>1. /\ write_uint16(x.type) \in Seq(Octet)
        /\ write_uint16(Len(x.data)) \in Seq(Octet)
        /\ x.data \in Seq(Octet)
    <2>1. x.type \in Nat /\ Len(x.data) \in Nat /\ x.data \in Seq(Octet)
      BY DEF Items
    <2>. QED BY <2>1, Written16
  <1>. QED BY <1>1, Zenon DEF ItemAt

\* Writing the first of the items left makes one more of them written.
LEMMA OneMore ==
  ASSUME NEW b \in Seq(Octet), NEW p \in Nat, NEW items, NEW rest,
         Partly(b, p, items, rest), rest # <<>>, NEW c, Added(c, b, Head(rest))
  PROVE  Partly(c, p, items, Tail(rest))
  <1>1. ASSUME NEW x \in Items, Added(c, b, x)
        PROVE  /\ Len(b) \in Nat /\ Len(x.data) \in Nat
               /\ Len(c) = Len(b) + 4 + Len(x.data) /\ ItemAt(c, Len(b) + 1, x)
               /\ \A q : \A r \in Seq(Octet) : At(b, q, r) => At(c, q, r)
    <2>1. Len(b) \in Nat /\ Len(x.data) \in Nat
      BY DEF Items
    <2>2. /\ Len(c) = Len(b) + 4 + Len(x.data) /\ ItemAt(c, Len(b) + 1, x)
          /\ \A q : \A r \in Seq(Octet) : At(b, q, r) => At(c, q, r)
      BY <1>1, ItemWritten, Zenon
    <2>. QED BY <2>1, <2>2, Zenon
  <1>2. Added(c, b, Head(rest))
    OBVIOUS
  <1>3. CASE rest = items /\ Len(b) + 1 = p /\ \E n \in Nat : Left(items, n)
    <2>1. CASE \E x \in Items : items = <<x>>
      <3>1. PICK x \in Items : items = <<x>>
        BY <2>1
      <3>2. Head(rest) = x /\ Tail(rest) = <<>>
        BY <1>3, <3>1
      <3>3. /\ Len(b) \in Nat /\ Len(x.data) \in Nat
            /\ Len(c) = Len(b) + 4 + Len(x.data) /\ ItemAt(c, Len(b) + 1, x)
        BY <1>1, <1>2, <3>2, Zenon
      <3>4. ItemAt(c, p, x)
        BY <1>3, <3>3, Zenon
      <3>5. Len(c) + 1 = p + 4 + Len(x.data)
        <4>1. (Len(b) + 4 + Len(x.data)) + 1 = (Len(b) + 1) + 4 + Len(x.data)
          BY <3>3, Sums, Zenon
        <4>. QED BY <1>3, <3>3, <4>1, Zenon
      <3>6. Laid(c, p, items)
        BY <3>1, <3>4, <3>5, Zenon DEF Laid
      <3>. QED BY <3>2, <3>6, Zenon DEF Partly
    <2>2. CASE \E x, y \in Items : items = <<x, y>>
      <3>1. PICK x \in Items, y \in Items : items = <<x, y>>
        BY <2>2
      <3>2. Head(rest) = x /\ Tail(rest) = <<y>>
        BY <1>3, <3>1
      <3>3. /\ Len(b) \in Nat /\ Len(x.data) \in Nat
            /\ Len(c) = Len(b) + 4 + Len(x.data) /\ ItemAt(c, Len(b) + 1, x)
        BY <1>1, <1>2, <3>2, Zenon
      <3>4. ItemAt(c, p, x)
        BY <1>3, <3>3, Zenon
      <3>5. Len(c) + 1 = p + 4 + Len(x.data)
        <4>1. (Len(b) + 4 + Len(x.data)) + 1 = (Len(b) + 1) + 4 + Len(x.data)
          BY <3>3, Sums, Zenon
        <4>. QED BY <1>3, <3>3, <4>1, Zenon
      <3>6. Laid(c, p, <<x>>)
        BY <3>4, <3>5, Zenon DEF Laid
      <3>. QED BY <3>1, <3>2, <3>6, Zenon DEF Partly
    <2>. QED BY <1>3, <2>1, <2>2, Zenon DEF Left
  <1>4. CASE \E x, y \in Items : /\ items = <<x, y>> /\ rest = <<y>>
                                 /\ Laid(b, p, <<x>>)
    <2>1. PICK x \in Items, y \in Items :
            items = <<x, y>> /\ rest = <<y>> /\ Laid(b, p, <<x>>)
      BY <1>4
    <2>2. Head(rest) = y /\ Tail(rest) = <<>>
      BY <2>1
    <2>3. ItemAt(b, p, x) /\ Len(b) + 1 = p + 4 + Len(x.data)
      <3>1. <<x>> # <<>> /\ \A z, w : <<x>> # <<z, w>>
        OBVIOUS
      <3>2. \A z : <<x>> = <<z>> => x = z
        OBVIOUS
      <3>. QED BY <2>1, <3>1, <3>2, Zenon DEF Laid
    <2>4. /\ Len(b) \in Nat /\ Len(y.data) \in Nat
          /\ Len(c) = Len(b) + 4 + Len(y.data) /\ ItemAt(c, Len(b) + 1, y)
          /\ \A q : \A r \in Seq(Octet) : At(b, q, r) => At(c, q, r)
      BY <1>1, <1>2, <2>2, Zenon
    <2>5. ItemAt(c, p, x) /\ ItemAt(c, p + 4 + Len(x.data), y)
      <3>1. ItemAt(c, p, x)
        BY <2>3, <2>4, ItemStays, Zenon
      <3>. QED BY <2>3, <2>4, <3>1, Zenon
    <2>6. Len(c) + 1 = p + 4 + Len(x.data) + 4 + Len(y.data)
      <3>1. (Len(b) + 4 + Len(y.data)) + 1 = (Len(b) + 1) + 4 + Len(y.data)
        BY <2>4, Sums, Zenon
      <3>. QED BY <2>3, <2>4, <3>1, Zenon
    <2>7. Laid(c, p, items)
      BY <2>1, <2>5, <2>6, Zenon DEF Laid
    <2>. QED BY <2>2, <2>7, Zenon DEF Partly
  <1>. QED BY <1>3, <1>4, Zenon DEF Partly

\* The octets written over the header's last two leave the items as they are.
LEMMA LaidStays ==
  ASSUME NEW b, NEW c, NEW p \in Nat, Len(c) = Len(b),
         \A q : \A r \in Seq(Octet) : At(b, q, r) /\ q >= p => At(c, q, r),
         NEW items, Laid(b, p, items)
  PROVE  Laid(c, p, items)
  <1>1. ASSUME NEW q \in Nat, q >= p, NEW x \in Items, ItemAt(b, q, x)
        PROVE  ItemAt(c, q, x)
    <2>1. /\ write_uint16(x.type) \in Seq(Octet)
          /\ write_uint16(Len(x.data)) \in Seq(Octet)
          /\ x.data \in Seq(Octet)
      <3>1. x.type \in Nat /\ Len(x.data) \in Nat /\ x.data \in Seq(Octet)
        BY DEF Items
      <3>. QED BY <3>1, Written16
    <2>2. q >= p /\ q + 2 >= p /\ q + 4 >= p
      BY <1>1
    <2>. QED BY <1>1, <2>1, <2>2, Zenon DEF ItemAt
  <1>2. CASE items = <<>> /\ Len(b) + 1 = p
    BY <1>2, Zenon DEF Laid
  <1>3. CASE \E x \in Items : /\ items = <<x>> /\ ItemAt(b, p, x)
                              /\ Len(b) + 1 = p + 4 + Len(x.data)
    <2>1. p >= p
      OBVIOUS
    <2>. QED BY <1>1, <1>3, <2>1, Zenon DEF Laid
  <1>4. CASE \E x, y \in Items :
               /\ items = <<x, y>> /\ ItemAt(b, p, x)
               /\ ItemAt(b, p + 4 + Len(x.data), y)
               /\ Len(b) + 1 = p + 4 + Len(x.data) + 4 + Len(y.data)
    <2>1. PICK x \in Items, y \in Items :
               /\ items = <<x, y>> /\ ItemAt(b, p, x)
               /\ ItemAt(b, p + 4 + Len(x.data), y)
               /\ Len(b) + 1 = p + 4 + Len(x.data) + 4 + Len(y.data)
      BY <1>4
    <2>2. /\ p >= p /\ p + 4 + Len(x.data) \in Nat /\ p + 4 + Len(x.data) >= p
      <3>1. Len(x.data) \in Nat
        BY DEF Items
      <3>. QED BY <3>1, Sums, Zenon
    <2>3. ItemAt(c, p, x) /\ ItemAt(c, p + 4 + Len(x.data), y)
      BY <1>1, <2>1, <2>2, Zenon
    <2>. QED BY <2>1, <2>3, Zenon DEF Laid
  <1>. QED BY <1>2, <1>3, <1>4, Zenon DEF Laid

-----------------------------------------------------------------------------
(* The message as it is written, and as it was sent.                       *)

\* The number is in the header, the items written are behind it, and once the
\* message is sent its length is there too.
Text ==
  /\ Room
  /\ writes = "items" =>
       /\ At(buf, call.header - 3, write_uint16(call.number))
       /\ Partly(buf, call.header + 1, call.items, left)
  /\ writes = "sent" =>
       /\ At(buf, call.header - 3, write_uint16(call.number))
       /\ At(buf, call.header - 1, write_uint16(Len(buf) - call.header))
       /\ Laid(buf, call.header + 1, call.items)

\* What Room and the arrays' sizes say of a call.
LEMMA CallFacts ==
  ASSUME Room
  PROVE  /\ call \in Calls /\ buf \in Seq(Octet) /\ Len(buf) \in Nat
         /\ call.header \in {4, 8} /\ call.header \in Nat /\ call.number \in Nat
         /\ \E n \in Nat : Left(call.items, n)
  <1>1. Fits(call) /\ call \in Calls /\ buf \in Seq(Octet)
    BY CallsFit DEF Room
  <1>2. call.header \in {4, 8} /\ call.number \in Nat /\ \E n \in Nat : Left(call.items, n)
    BY <1>1, Zenon DEF Fits
  <1>3. \A h \in {4, 8} : h \in Nat
    OBVIOUS
  <1>4. Len(buf) \in Nat
    BY <1>1
  <1>. QED BY <1>1, <1>2, <1>3, <1>4, Zenon

\* The number stands in the last two but two octets of the header, which ends
\* where the items begin.
LEMMA HeaderText == Text /\ WriteHeader => Text'
  <1>. SUFFICES ASSUME Text, WriteHeader PROVE Text'
    OBVIOUS
  <1>1. Room /\ Room'
    BY HeaderKeeps DEF Text
  <1>2. /\ call \in Calls /\ call.header \in {4, 8} /\ call.number \in Nat
        /\ \E n \in Nat : Left(call.items, n)
    BY <1>1, CallFacts, Zenon
  <1>3. /\ call' = call /\ left' = left /\ writes' = "items" /\ left = call.items
    BY <1>1 DEF WriteHeader, Room
  <1>. DEFINE magic == IF call.header = 8 THEN <<68, 76, 69, 80>> ELSE <<>>
              number == write_uint16(call.number)
              zero == write_uint16(0)
              start == magic \o number
  <1>4. magic \in Seq(Octet) /\ Len(magic) = call.header - 4
    <2>1. {68, 76, 69, 80} \subseteq Octet
      BY DEF Octet
    <2>2. <<68, 76, 69, 80>> \in Seq(Octet) /\ Len(<<68, 76, 69, 80>>) = 4
      BY <2>1
    <2>3. CASE call.header = 8
      BY <2>2, <2>3
    <2>4. CASE call.header = 4
      BY <2>4
    <2>. QED BY <2>3, <2>4, <1>2
  <1>5. /\ number \in Seq(Octet) /\ Len(number) = 2
        /\ zero \in Seq(Octet) /\ Len(zero) = 2
    BY <1>2, Written16
  <1>6. start = magic \o number /\ buf' = start \o zero
    BY DEF WriteHeader
  <1>7. number = write_uint16(call.number)
    OBVIOUS
  <1>. HIDE DEF magic, number, zero, start
  <1>8. /\ start \in Seq(Octet) /\ Len(start) = Len(magic) + Len(number)
        /\ At(start, Len(magic) + 1, number)
    <2>1. Extends(start, magic, number)
      BY <1>4, <1>5, <1>6, Extended, Zenon
    <2>. QED BY <2>1, Zenon DEF Extends
  <1>9. /\ Len(buf') = Len(start) + Len(zero)
        /\ \A p : \A r \in Seq(Octet) : At(start, p, r) => At(buf', p, r)
    <2>1. Extends(buf', start, zero)
      BY <1>5, <1>6, <1>8, Extended, Zenon
    <2>. QED BY <2>1, Zenon DEF Extends
  <1>10. Len(magic) + 1 = call.header - 3 /\ Len(buf') + 1 = call.header + 1
    <2>1. /\ Len(magic) = call.header - 4 /\ Len(number) = 2 /\ Len(zero) = 2
          /\ Len(start) = Len(magic) + Len(number) /\ Len(buf') = Len(start) + Len(zero)
      BY <1>4, <1>5, <1>8, <1>9, Zenon
    <2>. QED BY <1>2, <2>1
  <1>11. At(buf', call.header - 3, write_uint16(call.number))
    BY <1>5, <1>7, <1>8, <1>9, <1>10, Zenon
  <1>12. Partly(buf', call.header + 1, call.items, left)
    <2>1. CASE left = <<>>
      BY <1>3, <1>10, <2>1, Zenon DEF Partly, Laid
    <2>2. CASE left # <<>>
      BY <1>2, <1>3, <1>10, <2>2, Zenon DEF Partly
    <2>. QED BY <2>1, <2>2, Zenon
  <1>13. writes' # "sent"
    BY <1>3
  <1>. QED BY <1>1, <1>3, <1>11, <1>12, <1>13, Zenon DEF Text

\* One item more is written, and the number stays.
LEMMA ItemText == Text /\ WriteItem => Text'
  <1>. SUFFICES ASSUME Text, WriteItem PROVE Text'
    OBVIOUS
  <1>1. Room /\ Room'
    BY ItemKeeps DEF Text
  <1>2. /\ call.header \in Nat /\ call.number \in Nat /\ buf \in Seq(Octet)
    BY <1>1, CallFacts, Zenon
  <1>3. /\ call' = call /\ writes' = writes /\ writes = "items"
        /\ left # <<>> /\ left' = Tail(left)
    BY DEF WriteItem
  <1>4. Added(buf', buf, Head(left))
    BY DEF WriteItem, Added
  <1>5. /\ At(buf, call.header - 3, write_uint16(call.number))
        /\ Partly(buf, call.header + 1, call.items, left)
    BY <1>3, Zenon DEF Text
  <1>6. PICK n \in Nat : Left(left, n)
    BY <1>1, <1>3, Zenon DEF Room
  <1>7. Head(left) \in Items
    BY <1>3, <1>6, OneLess, Zenon
  <1>8. \A p : \A r \in Seq(Octet) : At(buf, p, r) => At(buf', p, r)
    BY <1>2, <1>4, <1>7, ItemWritten, Zenon
  <1>9. At(buf', call.header - 3, write_uint16(call.number))
    BY <1>2, <1>5, <1>8, Written16, Zenon
  <1>10. Partly(buf', call.header + 1, call.items, left')
    <2>1. call.header + 1 \in Nat
      BY <1>2
    <2>. QED BY <1>2, <1>3, <1>4, <1>5, <2>1, OneMore, Zenon
  <1>11. writes' = "items" /\ writes' # "sent"
    BY <1>3
  <1>. QED BY <1>1, <1>3, <1>9, <1>10, <1>11, Zenon DEF Text

\* The length is written where no number and no item is.
LEMMA LengthText == Text /\ WriteLength => Text'
  <1>. SUFFICES ASSUME Text, WriteLength PROVE Text'
    OBVIOUS
  <1>1. Room /\ Room'
    BY LengthKeeps DEF Text
  <1>2. /\ call.header \in Nat /\ call.number \in Nat /\ call.header \in {4, 8}
        /\ buf \in Seq(Octet) /\ Len(buf) \in Nat
    BY <1>1, CallFacts, Zenon
  <1>3. /\ call' = call /\ writes' = "sent" /\ writes = "items" /\ left = <<>>
        /\ Len(buf) >= call.header
    BY <1>1 DEF WriteLength, Room
  <1>. DEFINE h == call.header
              number == write_uint16(call.number)
              length == write_uint16(Len(buf) - h)
  <1>4. Patched(buf', buf, h, length)
    BY DEF WriteLength, Patched
  <1>5. At(buf, h - 3, number) /\ Partly(buf, h + 1, call.items, left)
    BY <1>3, Zenon DEF Text
  <1>6. Laid(buf, h + 1, call.items)
    <2>1. \A y : <<y>> # <<>>
      OBVIOUS
    <2>. QED BY <1>3, <1>5, <2>1, Zenon DEF Partly
  <1>7. /\ number \in Seq(Octet) /\ Len(number) = 2
        /\ length \in Seq(Octet) /\ Len(length) = 2
    <2>1. Len(buf) - h \in Nat
      BY <1>2, <1>3
    <2>. QED BY <1>2, <2>1, Written16
  <1>8. h >= 4 /\ h + 1 \in Nat /\ (h - 3) + 2 <= h - 1 /\ h \in Nat /\ Len(buf) >= h
    BY <1>2, <1>3
  <1>9. length = write_uint16(Len(buf) - call.header) /\ number = write_uint16(call.number)
    OBVIOUS
  <1>. HIDE DEF number, length
  <1>10. /\ Len(buf') = Len(buf) /\ At(buf', h - 1, length)
         /\ \A p : \A r \in Seq(Octet) :
              At(buf, p, r) /\ (p + Len(r) <= h - 1 \/ p > h) => At(buf', p, r)
    BY <1>2, <1>4, <1>7, <1>8, Overwritten, Zenon
  <1>11. At(buf', h - 3, number)
    BY <1>5, <1>7, <1>8, <1>10, Zenon
  <1>12. Laid(buf', h + 1, call.items)
    <2>1. \A q : \A r \in Seq(Octet) : At(buf, q, r) /\ q >= h + 1 => At(buf', q, r)
      <3>1. \A q \in Nat : q >= h + 1 => q > h
        BY <1>8
      <3>2. ASSUME NEW q, NEW r \in Seq(Octet), At(buf, q, r), q >= h + 1
            PROVE  At(buf', q, r)
        <4>1. q \in Nat
          BY <3>2 DEF At
        <4>. QED BY <1>10, <3>1, <3>2, <4>1, Zenon
      <3>. QED BY <3>2, Zenon
    <2>. QED BY <1>6, <1>8, <1>10, <2>1, LaidStays, Zenon
  <1>13. At(buf', call'.header - 1, write_uint16(Len(buf') - call'.header))
    BY <1>3, <1>9, <1>10, Zenon
  <1>14. writes' # "items"
    BY <1>3
  <1>. QED BY <1>1, <1>3, <1>9, <1>11, <1>12, <1>13, <1>14, Zenon DEF Text

-----------------------------------------------------------------------------
(* What a receiver reads.                                                  *)

\* The octets that were written.
LEMMA ReadBack ==
  ASSUME buf \in Seq(Octet), NEW p, NEW s \in Seq(Octet), At(buf, p, s)
  PROVE  From(p, Len(s)) = s
  <1>. DEFINE r == SubSeq(buf, p, p + Len(s) - 1)
  <1>1. /\ Len(s) \in Nat /\ Len(buf) \in Nat /\ p \in Nat /\ p >= 1
        /\ p + Len(s) <= Len(buf) + 1
        /\ \A i \in 1..Len(s) : buf[i + p - 1] = s[i]
    BY DEF At
  <1>2. From(p, Len(s)) = r
    <2>1. ~(p + Len(s) - 1 > Len(buf))
      BY <1>1
    <2>. QED BY <2>1, Zenon DEF From
  <1>3. /\ r \in Seq(Octet)
        /\ Len(r) = (IF p <= p + Len(s) - 1 THEN (p + Len(s) - 1) - p + 1 ELSE 0)
        /\ \A i \in 1..((p + Len(s) - 1) - p + 1) : r[i] = buf[p + i - 1]
    <2>1. \A i \in p..(p + Len(s) - 1) : buf[i] \in Octet
      BY <1>1
    <2>2. p \in Int /\ p + Len(s) - 1 \in Int
      BY <1>1
    <2>. QED BY <2>1, <2>2, SubSeqProperties
  <1>. HIDE DEF r
  <1>4. Len(r) = Len(s)
    BY <1>1, <1>3
  <1>5. ASSUME NEW i \in 1..Len(s) PROVE r[i] = s[i]
    <2>1. i \in 1..((p + Len(s) - 1) - p + 1) /\ p + i - 1 = i + p - 1
      BY <1>1
    <2>. QED BY <1>1, <1>3, <2>1
  <1>6. r = s
    BY <1>3, <1>4, <1>5, SeqEqual
  <1>. QED BY <1>2, <1>6

\* A number of 16 bits.
Short(v) == v \in Nat /\ v < 65536

\* It is read from the octets it was written to.
LEMMA ShortKept ==
  \A v : Short(v) => /\ v \in Nat /\ write_uint16(v) \in Seq(Octet)
                     /\ Len(write_uint16(v)) = 2 /\ read_uint16(write_uint16(v)) = v
  BY Uint16Kept, Written16 DEF Short

\* Also when other octets are around them.
LEMMA NumberRead ==
  ASSUME buf \in Seq(Octet), NEW p, NEW v, Short(v), At(buf, p, write_uint16(v))
  PROVE  read_uint16(From(p, 2)) = v
  <1>1. /\ write_uint16(v) \in Seq(Octet) /\ Len(write_uint16(v)) = 2
        /\ read_uint16(write_uint16(v)) = v
    BY ShortKept, Zenon
  <1>2. From(p, Len(write_uint16(v))) = write_uint16(v)
    BY <1>1, ReadBack, Zenon
  <1>. QED BY <1>1, <1>2, Zenon

\* Two octets make a number.
LEMMA TwoOctets ==
  ASSUME NEW r \in Seq(Octet), Len(r) = 2
  PROVE  read_uint16(r) \in Nat
  <1>1. r[1] \in Octet /\ r[2] \in Octet
    OBVIOUS
  <1>2. \A a, b \in Octet : a * 256 + b \in Nat
    BY DEF Octet
  <1>. QED BY <1>1, <1>2, Zenon DEF read_uint16

\* So do those that are there.
LEMMA NumberThere ==
  ASSUME buf \in Seq(Octet), NEW p \in Nat, p >= 1, p + 1 <= Len(buf)
  PROVE  read_uint16(From(p, 2)) \in Nat
  <1>. DEFINE r == SubSeq(buf, p, p + 1)
  <1>1. From(p, 2) = r
    BY DEF From
  <1>2. r \in Seq(Octet) /\ Len(r) = 2
    <2>1. \A i \in p..(p + 1) : buf[i] \in Octet
      OBVIOUS
    <2>2. /\ r \in Seq(Octet)
          /\ Len(r) = (IF p <= p + 1 THEN (p + 1) - p + 1 ELSE 0)
      BY <2>1, SubSeqProperties
    <2>3. p <= p + 1 /\ (p + 1) - p + 1 = 2
      OBVIOUS
    <2>. QED BY <2>2, <2>3, Zenon
  <1>. QED BY <1>1, <1>2, TwoOctets, Zenon

\* One step of a walk.
WalkBody(f, p) ==
  IF p + 3 > Len(buf) THEN <<>>
  ELSE LET length == read_uint16(From(p + 2, 2))
       IN  <<DataItem(read_uint16(From(p, 2)), From(p + 4, length))>> \o f[p + 4 + length]

\* From an octet on, it looks at the octets behind it only.
LEMMA WalkLooksAhead ==
  ASSUME buf \in Seq(Octet), NEW p \in Nat, NEW f, NEW g,
         \A q \in Nat : q > p => f[q] = g[q]
  PROVE  WalkBody(f, p) = WalkBody(g, p)
  <1>. DEFINE length == read_uint16(From(p + 2, 2))
  <1>1. CASE p + 3 > Len(buf)
    BY <1>1, Zenon DEF WalkBody
  <1>2. CASE ~(p + 3 > Len(buf))
    <2>1. length \in Nat
      <3>1. p + 2 \in Nat /\ p + 2 >= 1 /\ (p + 2) + 1 <= Len(buf)
        BY <1>2
      <3>. QED BY <3>1, NumberThere, Zenon
    <2>2. \A n \in Nat : p + 4 + n \in Nat /\ p + 4 + n > p
      OBVIOUS
    <2>3. f[p + 4 + length] = g[p + 4 + length]
      BY <2>1, <2>2, Zenon
    <2>. QED BY <1>2, <2>3, Zenon DEF WalkBody
  <1>. QED BY <1>1, <1>2, Zenon

\* A set of numbers with 0 and every successor in it has every number in it.
LEMMA Induction ==
  ASSUME NEW T, T \subseteq Nat, 0 \in T, \A n \in T : n + 1 \in T
  PROVE  T = Nat
  <1>. SUFFICES ASSUME T # Nat PROVE FALSE
    OBVIOUS
  <1>1. PICK x \in Nat \ T : \A y \in Nat \ T : <<y, x>> \notin OpToRel(<, Nat)
    <2>1. Nat \ T # {} /\ Nat \ T \subseteq Nat
      OBVIOUS
    <2>. QED BY <2>1, NatLessThanWellFounded, WFMin
  <1>2. x # 0 /\ x - 1 \in Nat /\ (x - 1) + 1 = x
    OBVIOUS
  <1>3. x - 1 \in Nat \ T
    BY <1>2
  <1>4. <<x - 1, x>> \in OpToRel(<, Nat)
    BY <1>2 DEF OpToRel
  <1>. QED BY <1>1, <1>3, <1>4

\* f walks from every octet but those more than k before the end.
Walks(f, k) ==
  /\ f = [p \in Nat |-> f[p]]
  /\ \A p \in Nat : p + k > Len(buf) => f[p] = WalkBody(f, p)

\* However far back, there is a walk.
LEMMA WalkExists ==
  ASSUME buf \in Seq(Octet), NEW k \in Nat
  PROVE  \E f : Walks(f, k)
  <1>. DEFINE T == {n \in Nat : \E f : Walks(f, n)}
  <1>0. Len(buf) \in Nat
    OBVIOUS
  <1>1. 0 \in T
    <2>. DEFINE f == [p \in Nat |-> <<>>]
    <2>1. f = [p \in Nat |-> f[p]]
      OBVIOUS
    <2>2. ASSUME NEW p \in Nat, p + 0 > Len(buf) PROVE f[p] = WalkBody(f, p)
      <3>1. p + 3 > Len(buf)
        BY <1>0, <2>2
      <3>2. WalkBody(f, p) = <<>>
        BY <3>1, Zenon DEF WalkBody
      <3>. QED BY <3>2
    <2>. HIDE DEF f
    <2>3. Walks(f, 0)
      BY <2>1, <2>2, Zenon DEF Walks
    <2>4. 0 \in Nat
      OBVIOUS
    <2>. QED BY <2>3, <2>4, Zenon
  <1>2. ASSUME NEW n \in T PROVE n + 1 \in T
    <2>1. n \in Nat /\ n + 1 \in Nat
      OBVIOUS
    <2>2. PICK f : Walks(f, n)
      OBVIOUS
    <2>. DEFINE g == [p \in Nat |-> IF p + n > Len(buf) THEN f[p] ELSE WalkBody(f, p)]
    <2>3. g = [p \in Nat |-> g[p]]
      OBVIOUS
    <2>4. /\ \A p \in Nat : p + n > Len(buf) => g[p] = f[p]
          /\ \A p \in Nat : ~(p + n > Len(buf)) => g[p] = WalkBody(f, p)
      BY Zenon
    <2>. HIDE DEF g
    <2>5. ASSUME NEW p \in Nat, p + (n + 1) > Len(buf) PROVE g[p] = WalkBody(g, p)
      <3>1. \A q \in Nat : q > p => f[q] = g[q]
        <4>1. ASSUME NEW q \in Nat, q > p PROVE f[q] = g[q]
          <5>1. q + n > Len(buf)
            BY <1>0, <2>1, <2>5, <4>1
          <5>. QED BY <2>4, <5>1, Zenon
        <4>. QED BY <4>1, Zenon
      <3>2. WalkBody(f, p) = WalkBody(g, p)
        BY <3>1, WalkLooksAhead, Zenon
      <3>3. g[p] = WalkBody(f, p)
        BY <2>2, <2>4, Zenon DEF Walks
      <3>. QED BY <3>2, <3>3, Zenon
    <2>6. Walks(g, n + 1)
      BY <2>3, <2>5, Zenon DEF Walks
    <2>. QED BY <2>1, <2>6, Zenon
  <1>3. T \subseteq Nat
    OBVIOUS
  <1>. HIDE DEF T
  <1>4. T = Nat
    BY <1>1, <1>2, <1>3, Induction, Zenon
  <1>5. k \in T
    BY <1>4, Zenon
  <1>. QED BY <1>5, Zenon DEF T

\* So Walk is one.
LEMMA WalkIs ==
  ASSUME buf \in Seq(Octet), NEW p \in Nat
  PROVE  Walk[p] = WalkBody(Walk, p)
  <1>1. Len(buf) + 1 \in Nat /\ \A q \in Nat : q + (Len(buf) + 1) > Len(buf)
    OBVIOUS
  <1>2. PICK f : Walks(f, Len(buf) + 1)
    BY <1>1, WalkExists, Zenon
  <1>3. f = [q \in Nat |-> WalkBody(f, q)]
    <2>1. \A q \in Nat : f[q] = WalkBody(f, q)
      BY <1>1, <1>2, Zenon DEF Walks
    <2>2. f = [q \in Nat |-> f[q]]
      BY <1>2, Zenon DEF Walks
    <2>. QED BY <2>1, <2>2, Zenon
  <1>4. Walk = CHOOSE g : g = [q \in Nat |-> WalkBody(g, q)]
    BY Zenon DEF Walk, WalkBody
  <1>5. Walk = [q \in Nat |-> WalkBody(Walk, q)]
    BY <1>3, <1>4, Zenon
  <1>. QED BY <1>5, Zenon

\* Where an item is, a receiver finds it, and goes on behind it.
LEMMA ItemRead ==
  ASSUME buf \in Seq(Octet), NEW p \in Nat, NEW x \in Items, Short(x.type),
         Short(Len(x.data)), ItemAt(buf, p, x)
  PROVE  Walk[p] = <<x>> \o Walk[p + 4 + Len(x.data)]
  <1>1. /\ x.data \in Seq(Octet) /\ Len(x.data) \in Nat
        /\ x = DataItem(x.type, x.data)
    BY DEF Items, DataItem
  <1>2. /\ At(buf, p, write_uint16(x.type)) /\ At(buf, p + 2, write_uint16(Len(x.data)))
        /\ At(buf, p + 4, x.data)
    BY Zenon DEF ItemAt
  <1>3. /\ read_uint16(From(p, 2)) = x.type
        /\ read_uint16(From(p + 2, 2)) = Len(x.data)
    BY <1>2, NumberRead, Zenon
  <1>4. From(p + 4, Len(x.data)) = x.data
    BY <1>1, <1>2, ReadBack, Zenon
  <1>5. ~(p + 3 > Len(buf))
    <2>1. p + 4 + Len(x.data) <= Len(buf) + 1
      BY <1>2, Zenon DEF At
    <2>2. \A k, n \in Nat : p + 4 + k <= n + 1 => ~(p + 3 > n)
      OBVIOUS
    <2>3. Len(buf) \in Nat
      OBVIOUS
    <2>. QED BY <1>1, <2>1, <2>2, <2>3, Zenon
  <1>6. WalkBody(Walk, p) = <<DataItem(x.type, x.data)>> \o Walk[p + 4 + Len(x.data)]
    BY <1>3, <1>4, <1>5, Zenon DEF WalkBody
  <1>. QED BY <1>1, <1>6, WalkIs, Zenon

\* Behind the last one there is nothing.
LEMMA NothingMore ==
  ASSUME buf \in Seq(Octet), NEW p \in Nat, Len(buf) + 1 = p
  PROVE  Walk[p] = <<>>
  <1>1. p + 3 > Len(buf)
    OBVIOUS
  <1>. QED BY <1>1, WalkIs, Zenon DEF WalkBody

\* Every number of the items is of 16 bits.
Brief(items) ==
  \A i \in 1..Len(items) : Short(items[i].type) /\ Short(Len(items[i].data))

\* Two items, one after the other.
LEMMA TwoItems == \A x, y : <<x>> \o (<<y>> \o <<>>) = <<x, y>>
  <1>1. \A y : <<y>> \o <<>> = <<y>>
    OBVIOUS
  <1>2. ASSUME NEW x, NEW y PROVE <<x>> \o <<y>> = <<x, y>>
    <2>. DEFINE S == {x, y}
                s == <<x>> \o <<y>>
                t == <<x, y>>
    <2>1. /\ <<x>> \in Seq(S) /\ <<y>> \in Seq(S) /\ t \in Seq(S) /\ Len(t) = 2
          /\ Len(<<x>>) = 1 /\ Len(<<y>>) = 1 /\ <<x>>[1] = x /\ <<y>>[1] = y
          /\ t[1] = x /\ t[2] = y
      OBVIOUS
    <2>2. /\ s \in Seq(S) /\ Len(s) = Len(<<x>>) + Len(<<y>>)
          /\ \A i \in 1..(Len(<<x>>) + Len(<<y>>)) :
               s[i] = IF i <= Len(<<x>>) THEN <<x>>[i] ELSE <<y>>[i - Len(<<x>>)]
      BY <2>1, ConcatProperties, Zenon
    <2>. HIDE DEF S, s, t
    <2>3. Len(s) = 2 /\ s[1] = x /\ s[2] = y
      BY <2>1, <2>2
    <2>4. \A i \in 1..Len(s) : s[i] = t[i]
      BY <2>1, <2>3
    <2>5. s = t
      BY <2>1, <2>2, <2>3, <2>4, SeqEqual
    <2>. QED BY <2>5 DEF s, t
  <1>. QED BY <1>1, <1>2, Zenon

\* So the receiver finds the items that were laid down.
LEMMA ItemsRead ==
  ASSUME buf \in Seq(Octet), NEW p \in Nat, NEW items, Brief(items), Laid(buf, p, items)
  PROVE  Walk[p] = items
  <1>1. CASE items = <<>> /\ Len(buf) + 1 = p
    BY <1>1, NothingMore, Zenon
  <1>2. CASE \E x \in Items : /\ items = <<x>> /\ ItemAt(buf, p, x)
                              /\ Len(buf) + 1 = p + 4 + Len(x.data)
    <2>1. PICK x \in Items : /\ items = <<x>> /\ ItemAt(buf, p, x)
                             /\ Len(buf) + 1 = p + 4 + Len(x.data)
      BY <1>2
    <2>2. 1 \in 1..Len(items) /\ items[1] = x
      BY <2>1
    <2>3. Short(x.type) /\ Short(Len(x.data))
      BY <2>2, Zenon DEF Brief
    <2>4. Len(x.data) \in Nat /\ <<x>> \o <<>> = <<x>>
      BY DEF Items
    <2>5. p + 4 + Len(x.data) \in Nat
      BY <2>4, Sums, Zenon
    <2>6. Walk[p + 4 + Len(x.data)] = <<>>
      BY <2>1, <2>5, NothingMore, Zenon
    <2>7. Walk[p] = <<x>> \o Walk[p + 4 + Len(x.data)]
      BY <2>1, <2>3, ItemRead, Zenon
    <2>. QED BY <2>1, <2>4, <2>6, <2>7, Zenon
  <1>3. CASE \E x, y \in Items :
               /\ items = <<x, y>> /\ ItemAt(buf, p, x)
               /\ ItemAt(buf, p + 4 + Len(x.data), y)
               /\ Len(buf) + 1 = p + 4 + Len(x.data) + 4 + Len(y.data)
    <2>1. PICK x \in Items, y \in Items :
               /\ items = <<x, y>> /\ ItemAt(buf, p, x)
               /\ ItemAt(buf, p + 4 + Len(x.data), y)
               /\ Len(buf) + 1 = p + 4 + Len(x.data) + 4 + Len(y.data)
      BY <1>3
    <2>. DEFINE q == p + 4 + Len(x.data)
    <2>2. 1 \in 1..Len(items) /\ items[1] = x /\ 2 \in 1..Len(items) /\ items[2] = y
      BY <2>1
    <2>3. Short(x.type) /\ Short(Len(x.data)) /\ Short(y.type) /\ Short(Len(y.data))
      BY <2>2, Zenon DEF Brief
    <2>4. Len(x.data) \in Nat /\ Len(y.data) \in Nat
      BY DEF Items
    <2>5. q \in Nat /\ q + 4 + Len(y.data) \in Nat
      BY <2>4, Sums, Zenon
    <2>6. ItemAt(buf, q, y) /\ Len(buf) + 1 = q + 4 + Len(y.data)
      BY <2>1, Zenon
    <2>7. Walk[p] = <<x>> \o Walk[q]
      BY <2>1, <2>3, ItemRead, Zenon
    <2>. HIDE DEF q
    <2>8. Walk[q] = <<y>> \o Walk[q + 4 + Len(y.data)]
      BY <2>3, <2>5, <2>6, ItemRead, Zenon
    <2>9. Walk[q + 4 + Len(y.data)] = <<>>
      BY <2>5, <2>6, NothingMore, Zenon
    <2>10. <<x>> \o (<<y>> \o <<>>) = <<x, y>>
      BY TwoItems, Zenon
    <2>. QED BY <2>1, <2>7, <2>8, <2>9, <2>10, Zenon
  <1>. QED BY <1>1, <1>2, <1>3, Zenon DEF Laid

-----------------------------------------------------------------------------
(* No number of a message the router writes is of more than 16 bits.       *)

\* No item is longer than the message.
LEMMA BriefWhenShort ==
  ASSUME NEW items, NEW n \in Nat, Left(items, n), n <= 300,
         \A i \in 1..Len(items) : Short(items[i].type)
  PROVE  Brief(items)
  <1>1. \A k \in Nat : k <= 300 => Short(k)
    BY DEF Short
  <1>2. CASE items = <<>>
    BY <1>2 DEF Brief
  <1>3. CASE \E x \in Items : items = <<x>> /\ n = 4 + Len(x.data)
    <2>1. PICK x \in Items : items = <<x>> /\ n = 4 + Len(x.data)
      BY <1>3
    <2>2. Len(x.data) \in Nat
      BY DEF Items
    <2>3. \A k \in Nat : n = 4 + k => k <= 300
      OBVIOUS
    <2>4. Short(Len(x.data))
      BY <1>1, <2>1, <2>2, <2>3, Zenon
    <2>5. \A i \in 1..Len(items) : items[i] = x
      BY <2>1
    <2>. QED BY <2>4, <2>5, Zenon DEF Brief
  <1>4. CASE \E x, y \in Items : items = <<x, y>> /\ n = 8 + Len(x.data) + Len(y.data)
    <2>1. PICK x \in Items, y \in Items :
            items = <<x, y>> /\ n = 8 + Len(x.data) + Len(y.data)
      BY <1>4
    <2>2. Len(x.data) \in Nat /\ Len(y.data) \in Nat
      BY DEF Items
    <2>3. \A k, l \in Nat : n = 8 + k + l => k <= 300 /\ l <= 300
      OBVIOUS
    <2>4. Short(Len(x.data)) /\ Short(Len(y.data))
      BY <1>1, <2>1, <2>2, <2>3, Zenon
    <2>5. \A i \in 1..Len(items) : items[i] = x \/ items[i] = y
      BY <2>1
    <2>. QED BY <2>4, <2>5, Zenon DEF Brief
  <1>. QED BY <1>2, <1>3, <1>4, Zenon DEF Left

\* The protocol's numbers are small.
LEMMA SmallNumbers ==
  /\ Short(STATUS) /\ Short(PEER_TYPE) /\ Short(HEARTBEAT) /\ Short(MAC)
  /\ Short(PEER_DISCOVERY) /\ Short(SESSION_INIT) /\ Short(SESSION_TERM)
  /\ \A number \in {PEER_HEARTBEAT, SESSION_TERM_RESP, DEST_UP_RESP, DEST_DOWN_RESP} :
       Short(number)
  BY DEF Short, STATUS, PEER_TYPE, HEARTBEAT, MAC, PEER_DISCOVERY, SESSION_INIT,
         SESSION_TERM, PEER_HEARTBEAT, SESSION_TERM_RESP, DEST_UP_RESP, DEST_DOWN_RESP

\* The number and the types of the items of a call, and the size of its array.
Small(c) ==
  /\ Short(c.number) /\ c.size \in Nat /\ c.size <= 300
  /\ \A i \in 1..Len(c.items) : Short(c.items[i].type)

\* The types of one item or two.
LEMMA TypesOf ==
  /\ \A x : Short(x.type) => \A i \in 1..Len(<<x>>) : Short(<<x>>[i].type)
  /\ \A x, y : Short(x.type) /\ Short(y.type)
                => \A i \in 1..Len(<<x, y>>) : Short(<<x, y>>[i].type)
  <1>1. ASSUME NEW x, Short(x.type), NEW i \in 1..Len(<<x>>)
        PROVE  Short(<<x>>[i].type)
    <2>1. <<x>>[i] = x
      OBVIOUS
    <2>. QED BY <1>1, <2>1, Zenon
  <1>2. ASSUME NEW x, NEW y, Short(x.type), Short(y.type), NEW i \in 1..Len(<<x, y>>)
        PROVE  Short(<<x, y>>[i].type)
    <2>1. <<x, y>>[i] = x \/ <<x, y>>[i] = y
      OBVIOUS
    <2>2. CASE <<x, y>>[i] = x
      BY <1>2, <2>2, Zenon
    <2>3. CASE <<x, y>>[i] = y
      BY <1>2, <2>3, Zenon
    <2>. QED BY <2>1, <2>2, <2>3, Zenon
  <1>. QED BY <1>1, <1>2, Zenon

\* They are small in every call.
LEMMA CallsSmall == \A c \in Calls : Small(c)
  <1>1. ASSUME NEW interval \in Intervals, NEW text \in PeerTypes
        PROVE  Small(SessionInit(interval, text))
    <2>. DEFINE x == DataItem(HEARTBEAT, write_uint32(interval))
                y == PeerTypeItem(text, 300 - 17)
                c == SessionInit(interval, text)
    <2>1. x.type = HEARTBEAT /\ y.type = PEER_TYPE
      BY DEF DataItem, PeerTypeItem
    <2>2. c.number = SESSION_INIT /\ c.items = <<x, y>> /\ c.size = 300
      BY DEF SessionInit, Message, Call
    <2>. HIDE DEF x, y, c
    <2>3. \A i \in 1..Len(c.items) : Short(c.items[i].type)
      <3>1. Short(x.type) /\ Short(y.type)
        BY <2>1, SmallNumbers, Zenon
      <3>2. \A i \in 1..Len(<<x, y>>) : Short(<<x, y>>[i].type)
        BY <3>1, TypesOf, Zenon
      <3>. QED BY <2>2, <3>2, Zenon
    <2>4. Small(c)
      <3>1. c.size \in Nat /\ c.size <= 300
        BY <2>2
      <3>. QED BY <2>2, <2>3, <3>1, SmallNumbers, Zenon DEF Small
    <2>. QED BY <2>4 DEF c
  <1>2. ASSUME NEW text \in PeerTypes PROVE Small(PeerDiscovery(text))
    <2>. DEFINE x == PeerTypeItem(text, 100 - 13)
                c == PeerDiscovery(text)
    <2>1. x.type = PEER_TYPE
      BY DEF DataItem, PeerTypeItem
    <2>2. c.number = PEER_DISCOVERY /\ c.items = <<x>> /\ c.size = 100
      BY DEF PeerDiscovery, Call
    <2>. HIDE DEF x, c
    <2>3. \A i \in 1..Len(c.items) : Short(c.items[i].type)
      <3>1. Short(x.type)
        BY <2>1, SmallNumbers, Zenon
      <3>2. \A i \in 1..Len(<<x>>) : Short(<<x>>[i].type)
        BY <3>1, TypesOf, Zenon
      <3>. QED BY <2>2, <3>2, Zenon
    <2>4. Small(c)
      <3>1. c.size \in Nat /\ c.size <= 300
        BY <2>2
      <3>. QED BY <2>2, <2>3, <3>1, SmallNumbers, Zenon DEF Small
    <2>. QED BY <2>4 DEF c
  <1>3. ASSUME NEW sc PROVE Small(SessionTerm(sc))
    <2>. DEFINE x == StatusItem(sc)
                c == SessionTerm(sc)
    <2>1. x.type = STATUS
      BY DEF DataItem, StatusItem
    <2>2. c.number = SESSION_TERM /\ c.items = <<x>> /\ c.size = 9
      BY DEF SessionTerm, Message, Call
    <2>. HIDE DEF x, c
    <2>3. \A i \in 1..Len(c.items) : Short(c.items[i].type)
      <3>1. Short(x.type)
        BY <2>1, SmallNumbers, Zenon
      <3>2. \A i \in 1..Len(<<x>>) : Short(<<x>>[i].type)
        BY <3>1, TypesOf, Zenon
      <3>. QED BY <2>2, <3>2, Zenon
    <2>4. Small(c)
      <3>1. c.size \in Nat /\ c.size <= 300
        BY <2>2
      <3>. QED BY <2>2, <2>3, <3>1, SmallNumbers, Zenon DEF Small
    <2>. QED BY <2>4 DEF c
  <1>4. ASSUME NEW number \in {PEER_HEARTBEAT, SESSION_TERM_RESP} PROVE Small(Bare(number))
    <2>. DEFINE c == Bare(number)
    <2>1. c.number = number /\ c.items = <<>> /\ c.size = 30
      BY DEF Bare, Message, Call
    <2>. HIDE DEF c
    <2>2. Short(number)
      BY SmallNumbers
    <2>3. Small(c)
      <3>1. c.size \in Nat /\ c.size <= 300 /\ \A i \in 1..Len(c.items) : FALSE
        BY <2>1
      <3>. QED BY <2>1, <2>2, <3>1, Zenon DEF Small
    <2>. QED BY <2>3 DEF c
  <1>5. ASSUME NEW number \in {DEST_UP_RESP, DEST_DOWN_RESP}, NEW mac \in Macs
        PROVE  Small(DestResponse(number, mac))
    <2>. DEFINE x == DataItem(MAC, mac)
                y == StatusItem(SC_SUCCESS)
                c == DestResponse(number, mac)
    <2>1. x.type = MAC /\ y.type = STATUS
      BY DEF DataItem, StatusItem
    <2>2. c.number = number /\ c.items = <<x, y>> /\ c.size = 30
      BY DEF DestResponse, Message, Call
    <2>. HIDE DEF x, y, c
    <2>3. Short(number)
      BY SmallNumbers
    <2>4. \A i \in 1..Len(c.items) : Short(c.items[i].type)
      <3>1. Short(x.type) /\ Short(y.type)
        BY <2>1, SmallNumbers, Zenon
      <3>2. \A i \in 1..Len(<<x, y>>) : Short(<<x, y>>[i].type)
        BY <3>1, TypesOf, Zenon
      <3>. QED BY <2>2, <3>2, Zenon
    <2>5. Small(c)
      <3>1. c.size \in Nat /\ c.size <= 300
        BY <2>2
      <3>. QED BY <2>2, <2>3, <2>4, <3>1, Zenon DEF Small
    <2>. QED BY <2>5 DEF c
  <1>. SUFFICES ASSUME NEW c \in Calls PROVE Small(c)
    OBVIOUS
  <1>6. \/ \E interval \in Intervals, text \in PeerTypes : c = SessionInit(interval, text)
        \/ \E text \in PeerTypes : c = PeerDiscovery(text)
        \/ \E sc : c = SessionTerm(sc)
        \/ \E number \in {PEER_HEARTBEAT, SESSION_TERM_RESP} : c = Bare(number)
        \/ \E number \in {DEST_UP_RESP, DEST_DOWN_RESP}, mac \in Macs :
             c = DestResponse(number, mac)
    BY DEF Calls
  <1>. QED BY <1>1, <1>2, <1>3, <1>4, <1>5, <1>6, Zenon

\* Nor is any other number in it large.
LEMMA CallsBrief == \A c \in Calls : Brief(c.items)
  <1>. SUFFICES ASSUME NEW c \in Calls PROVE Brief(c.items)
    OBVIOUS
  <1>1. Fits(c) /\ Small(c)
    BY CallsFit, CallsSmall, Zenon
  <1>2. PICK n \in Nat : Left(c.items, n) /\ c.header + n <= c.size
    BY <1>1, Zenon DEF Fits
  <1>3. n <= 300
    <2>1. c.header \in {4, 8} /\ c.size \in Nat /\ c.size <= 300
      BY <1>1 DEF Fits, Small
    <2>. QED BY <1>2, <2>1
  <1>. QED BY <1>1, <1>2, <1>3, BriefWhenShort, Zenon DEF Small

\* A receiver reads the number, the length, the items and the heartbeat interval
\* that the function meant, in every message the router writes.
THEOREM ReceiverReadsIt == WriterSpec => []ReadAsMeant
  <1>1. WriterInit => Text
    <2>1. WriterInit => Room /\ writes # "items" /\ writes # "sent"
      BY RoomInit DEF WriterInit
    <2>. QED BY <2>1, Zenon DEF Text
  <1>2. Text /\ UNCHANGED writerVars => Text'
    <2>1. Room /\ UNCHANGED writerVars => Room'
      BY DEF Room, Left, writerVars
    <2>2. UNCHANGED writerVars =>
            call' = call /\ writes' = writes /\ left' = left /\ buf' = buf
      BY DEF writerVars
    <2>. QED BY <2>1, <2>2, Zenon DEF Text
  <1>3. Text /\ [WriterNext]_writerVars => Text'
    BY <1>2, HeaderText, ItemText, LengthText, Zenon DEF WriterNext
  <1>4. ASSUME Text PROVE ReadAsMeant
    <2>. SUFFICES ASSUME writes = "sent"
                 PROVE  /\ read_uint16(From(call.header - 3, 2)) = call.number
                        /\ read_uint16(From(call.header - 1, 2)) = Len(buf) - call.header
                        /\ Walk[call.header + 1] = call.items
                        /\ \A interval \in Intervals, text \in PeerTypes :
                             call = SessionInit(interval, text)
                               => read_uint32(call.items[1].data) = interval
      BY Zenon DEF ReadAsMeant
    <2>1. /\ call \in Calls /\ buf \in Seq(Octet) /\ Len(buf) \in Nat /\ call.header \in Nat
          /\ At(buf, call.header - 3, write_uint16(call.number))
          /\ At(buf, call.header - 1, write_uint16(Len(buf) - call.header))
          /\ Laid(buf, call.header + 1, call.items)
      BY <1>4, CallFacts, Zenon DEF Text
    <2>2. read_uint16(From(call.header - 3, 2)) = call.number
      BY <2>1, CallsSmall, NumberRead, Zenon DEF Small
    <2>3. read_uint16(From(call.header - 1, 2)) = Len(buf) - call.header
      <3>1. Short(Len(buf) - call.header)
        <4>1. Len(buf) <= call.size
          BY <1>4 DEF Text, Room
        <4>2. call.size \in Nat /\ call.size <= 300
          BY <2>1, CallsSmall DEF Small
        <4>3. call.header <= Len(buf)
          <5>1. call.header - 1 + Len(write_uint16(Len(buf) - call.header)) <= Len(buf) + 1
            BY <2>1, Zenon DEF At
          <5>2. Len(write_uint16(Len(buf) - call.header)) = 2
            BY DEF write_uint16
          <5>3. call.header - 1 + 2 <= Len(buf) + 1
            BY <5>1, <5>2, Zenon
          <5>. QED BY <2>1, <5>3
        <4>. QED BY <2>1, <4>1, <4>2, <4>3 DEF Short
      <3>. QED BY <2>1, <3>1, NumberRead, Zenon
    <2>4. Walk[call.header + 1] = call.items
      <3>1. call.header + 1 \in Nat
        BY <2>1
      <3>. QED BY <2>1, <3>1, CallsBrief, ItemsRead, Zenon
    <2>5. ASSUME NEW interval \in Intervals, NEW text \in PeerTypes,
                 call = SessionInit(interval, text)
          PROVE  read_uint32(call.items[1].data) = interval
      <3>1. call.items[1].data = write_uint32(interval)
        BY <2>5 DEF SessionInit, Message, Call, DataItem
      <3>2. interval \in Nat /\ interval < 4294967296
        <4>1. interval \in Nat /\ interval \div 16777216 \in Octet
          BY WriterAssumption
        <4>2. /\ interval % 16777216 \in Nat /\ interval % 16777216 < 16777216
              /\ interval = (interval \div 16777216) * 16777216 + (interval % 16777216)
          BY <4>1, DivMod
        <4>. DEFINE q == interval \div 16777216
                    r == interval % 16777216
        <4>3. q \in 0..255 /\ r \in Nat /\ r < 16777216 /\ interval = q * 16777216 + r
          BY <4>1, <4>2 DEF Octet
        <4>. HIDE DEF q, r
        <4>. QED BY <4>1, <4>3
      <3>. QED BY <3>1, <3>2, Uint32Kept
    <2>. QED BY <2>2, <2>3, <2>4, <2>5, Zenon
  <1>. QED BY <1>1, <1>3, <1>4, PTL DEF WriterSpec
=============================================================================
