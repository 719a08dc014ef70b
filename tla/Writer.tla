------------------------------- MODULE Writer -------------------------------
(***************************************************************************)
(* How the router puts what it sends together: the send_*() functions of   *)
(* src/session.c and send_peer_discovery_signal() of src/discovery.c write *)
(* a header with a length of 0, one data item after the other, and then    *)
(* the length over the 0, in an array of a size each of them fixes.  The   *)
(* peer type is text of any length and cut to what the array has left.     *)
(***************************************************************************)
EXTENDS Dlep, Octets, Sequences

CONSTANTS
  PeerTypes,  \* what PEER_TYPE may be defined as
  Intervals,  \* the router's heartbeat interval in a Session Initialization
  Macs        \* the addresses that responses name

\* An interval is a uint32_t: it takes four octets.
ASSUME WriterAssumption ==
  /\ PeerTypes \subseteq Seq(Octet)
  /\ \A interval \in Intervals : interval \in Nat /\ interval \div 16777216 \in Octet
  /\ \A mac \in Macs : mac \in Seq(Octet) /\ Len(mac) = 6

PEER_DISCOVERY == 1
STATUS    == 1
PEER_TYPE == 4
HEARTBEAT == 5
MAC       == 7

\* A call: the message's header and items, and the size of the array.
DataItem(type, data) == [type |-> type, data |-> data]

Call(header, number, items, size) ==
  [header |-> header, number |-> number, items |-> items, size |-> size]

Message(number, items, size) == Call(4, number, items, size)

StatusItem(sc) == DataItem(STATUS, <<sc>>)

\* The text is cut to leave room for the octets around it.
PeerTypeItem_ForgetsFlags(text, room) ==
  DataItem(PEER_TYPE,
    <<0>> \o SubSeq(text, 1, IF Len(text) > room + 1 THEN room + 1 ELSE Len(text)))

PeerTypeItem(text, room) ==
  DataItem(PEER_TYPE,
    <<0>> \o SubSeq(text, 1, IF Len(text) > room THEN room ELSE Len(text)))

SessionInit(interval, text) ==
  Message(SESSION_INIT,
    <<DataItem(HEARTBEAT, write_uint32(interval)), PeerTypeItem(text, 300 - 17)>>, 300)

PeerDiscovery(text) ==
  Call(8, PEER_DISCOVERY, <<PeerTypeItem(text, 100 - 13)>>, 100)

SessionTerm(sc) == Message(SESSION_TERM, <<StatusItem(sc)>>, 9)

Bare(number) == Message(number, <<>>, 30)

DestResponse(number, mac) ==
  Message(number, <<DataItem(MAC, mac), StatusItem(SC_SUCCESS)>>, 30)

Calls ==
  {SessionInit(interval, text) : interval \in Intervals, text \in PeerTypes}
    \cup {PeerDiscovery(text) : text \in PeerTypes}
    \cup {SessionTerm(sc) : sc \in {SC_UNKNOWN_MESSAGE, SC_UNEXPECTED_MESSAGE,
                                    SC_INVALID_DATA, SC_TIMEDOUT, SC_SHUTDOWN}}
    \cup {Bare(number) : number \in {PEER_HEARTBEAT, SESSION_TERM_RESP}}
    \cup {DestResponse(number, mac) : number \in {DEST_UP_RESP, DEST_DOWN_RESP}, mac \in Macs}

-----------------------------------------------------------------------------
VARIABLES
  call,    \* the function's arguments
  writes,  \* "header", "items", "length" or "sent"
  left,    \* the data items still to write
  buf      \* the octets of the array written so far, up to p

writerVars == <<call, writes, left, buf>>

WriterInit == call \in Calls /\ writes = "header" /\ left = call.items /\ buf = <<>>

\* A signal has a magic word before its number.
WriteHeader ==
  /\ writes = "header" /\ writes' = "items"
  /\ buf' = (IF call.header = 8 THEN <<68, 76, 69, 80>> ELSE <<>>)
              \o write_uint16(call.number) \o write_uint16(0)
  /\ UNCHANGED <<call, left>>

\* write_data_item() and what follows it.
WriteItem ==
  /\ writes = "items" /\ left # <<>>
  /\ LET item == Head(left)
     IN  buf' = buf \o write_uint16(item.type) \o write_uint16(Len(item.data)) \o item.data
  /\ left' = Tail(left)
  /\ UNCHANGED <<call, writes>>

\* "the message length, minus the length of the header", over the last two octets
\* of the header.
WriteLength_WithHeader ==
  /\ writes = "items" /\ left = <<>> /\ writes' = "sent"
  /\ buf' = SubSeq(buf, 1, call.header - 2) \o write_uint16(Len(buf))
              \o SubSeq(buf, call.header + 1, Len(buf))
  /\ UNCHANGED <<call, left>>

WriteLength ==
  /\ writes = "items" /\ left = <<>> /\ writes' = "sent"
  /\ buf' = SubSeq(buf, 1, call.header - 2) \o write_uint16(Len(buf) - call.header)
              \o SubSeq(buf, call.header + 1, Len(buf))
  /\ UNCHANGED <<call, left>>

WriterNext == WriteHeader \/ WriteItem \/ WriteLength

WriterSpec == WriterInit /\ [][WriterNext]_writerVars

-----------------------------------------------------------------------------
\* The n octets from p on, or those that there are.
From(p, n) == SubSeq(buf, p, IF p + n - 1 > Len(buf) THEN Len(buf) ELSE p + n - 1)

\* The data items a receiver finds from an octet on, going by their lengths.
Walk[p \in Nat] ==
  IF p + 3 > Len(buf) THEN <<>>
  ELSE LET length == read_uint16(From(p + 2, 2))
       IN  <<DataItem(read_uint16(From(p, 2)), From(p + 4, length))>> \o Walk[p + 4 + length]

\* No function writes past its array, whatever PEER_TYPE is.
WithinArray == Len(buf) <= call.size

\* A receiver that reads numbers as read_uint16() and read_uint32() do, and walks
\* the items as the router's own validators do, finds the message that was meant,
\* and nothing else: its number, its length, every item, the interval.
ReadAsMeant ==
  writes = "sent" =>
    /\ read_uint16(From(call.header - 3, 2)) = call.number
    /\ read_uint16(From(call.header - 1, 2)) = Len(buf) - call.header
    /\ Walk[call.header + 1] = call.items
    /\ \A interval \in Intervals, text \in PeerTypes :
         call = SessionInit(interval, text) => read_uint32(call.items[1].data) = interval
=============================================================================
