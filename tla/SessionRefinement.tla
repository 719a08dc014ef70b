------------------------- MODULE SessionRefinement -------------------------
(***************************************************************************)
(* Session.tla implements SessionAbs.tla: every step of the byte-level     *)
(* session is a step of the queue of messages or changes nothing the queue *)
(* knows of.  What the session owes its peer and its caller then follows   *)
(* from the steps of the queue: the goodbyes, and the answers.             *)
(***************************************************************************)
EXTENDS SessionProofs, WellFoundedInduction

-----------------------------------------------------------------------------
(* Messages that arrive whole.                                             *)

\* What FrameEnd speaks of: the bytes of a framed sequence, one by one.
Typed(b, msgs) ==
  \A i \in 1..Len(b) : b[i].at \in Nat /\ msgs[b[i].n].len \in Nat

\* The bytes received and those on their way are bytes of messages written.
LEMMA QueuesTyped ==
  ASSUME IInv
  PROVE  /\ Typed(stream, sent) /\ Typed(flight, sent)
         /\ \A i \in 1..Len(stream) : stream[i].n \in 1..Len(sent)
         /\ \A i \in 1..Len(flight) : flight[i].n \in 1..Len(sent)
<1>1. /\ stream \in Seq(Cell) /\ flight \in Seq(Cell) /\ Unread \in Seq(Cell)
      /\ Len(stream) \in Nat /\ Len(flight) \in Nat
      /\ Len(Unread) = Len(stream) + Len(flight)
      /\ sent \in Seq(Message) /\ Framing(Unread, sent)
  BY NetworkFacts
<1>2. /\ \A i \in 1..Len(stream) : Unread[i] = stream[i]
      /\ \A i \in 1..Len(flight) : Unread[i + Len(stream)] = flight[i]
  BY <1>1, Concatenation DEF Unread
<1>3. \A i \in 1..Len(Unread) : /\ Unread[i].n \in 1..Len(sent)
                                /\ Unread[i].at \in Nat
                                /\ sent[Unread[i].n].len \in Nat
  BY <1>1, FramingTypes
<1>4. ASSUME NEW i \in 1..Len(stream)
      PROVE  stream[i].n \in 1..Len(sent) /\ stream[i].at \in Nat
             /\ sent[stream[i].n].len \in Nat
  <2>1. i \in 1..Len(Unread) /\ Unread[i] = stream[i]
    BY <1>1, <1>2
  <2> QED
    BY <1>3, <2>1
<1>5. ASSUME NEW i \in 1..Len(flight)
      PROVE  flight[i].n \in 1..Len(sent) /\ flight[i].at \in Nat
             /\ sent[flight[i].n].len \in Nat
  <2>1. i + Len(stream) \in 1..Len(Unread) /\ Unread[i + Len(stream)] = flight[i]
    BY <1>1, <1>2
  <2> QED
    BY <1>3, <2>1
<1> QED
  BY <1>4, <1>5 DEF Typed

\* What is read from the front leaves the end of every message where it was.
LEMMA DropKeepsWhole ==
  ASSUME NEW b \in Seq(Cell), NEW c \in Seq(Cell), NEW msgs, NEW k \in Nat,
         Len(b) = Len(c) + k, \A i \in 1..Len(c) : c[i] = b[i + k],
         Typed(b, msgs), Whole(b, msgs)
  PROVE  Whole(c, msgs)
<1> SUFFICES ASSUME NEW i \in 1..Len(c)
             PROVE  FrameEnd(c, msgs, i) <= Len(c)
  BY DEF Whole
<1>1. i + k \in 1..Len(b) /\ c[i] = b[i + k] /\ Len(c) \in Nat
  OBVIOUS
<1> DEFINE len == msgs[b[i + k].n].len
           at  == b[i + k].at
<1>2. len \in Nat /\ at \in Nat
  BY <1>1 DEF Typed
<1>3. (i + k) + 3 + len - at <= Len(b)
  BY <1>1 DEF Whole, FrameEnd
<1>4. FrameEnd(c, msgs, i) = i + 3 + len - at
  BY <1>1, Zenon DEF FrameEnd
<1> HIDE DEF len, at
<1> QED
  BY <1>1, <1>2, <1>3, <1>4

\* Whole messages after whole messages are whole.
LEMMA JoinKeepsWhole ==
  ASSUME NEW b \in Seq(Cell), NEW c \in Seq(Cell), NEW msgs,
         Typed(b, msgs), Typed(c, msgs), Whole(b, msgs), Whole(c, msgs)
  PROVE  Whole(b \o c, msgs)
<1>1. /\ Len(b) \in Nat /\ Len(c) \in Nat /\ Len(b \o c) = Len(b) + Len(c)
      /\ \A i \in 1..Len(b) : (b \o c)[i] = b[i]
      /\ \A i \in 1..Len(c) : (b \o c)[i + Len(b)] = c[i]
  BY Concatenation
<1> DEFINE d == b \o c
<1>2. /\ Len(d) = Len(b) + Len(c)
      /\ \A i \in 1..Len(b) : d[i] = b[i]
      /\ \A i \in 1..Len(c) : d[i + Len(b)] = c[i]
  BY <1>1
<1> HIDE DEF d
<1>3. ASSUME NEW i \in 1..Len(d)
      PROVE  FrameEnd(d, msgs, i) <= Len(d)
  <2>1. CASE i \in 1..Len(b)
    <3> DEFINE len == msgs[b[i].n].len
               at  == b[i].at
    <3>1. len \in Nat /\ at \in Nat
      BY <2>1 DEF Typed
    <3>2. i + 3 + len - at <= Len(b)
      BY <2>1 DEF Whole, FrameEnd
    <3>3. FrameEnd(d, msgs, i) = i + 3 + len - at
      BY <1>2, <2>1, Zenon DEF FrameEnd
    <3> HIDE DEF len, at
    <3> QED
      BY <1>1, <1>2, <3>1, <3>2, <3>3
  <2>2. CASE i \notin 1..Len(b)
    <3> DEFINE j == i - Len(b)
    <3>1. j \in 1..Len(c) /\ i = j + Len(b)
      BY <1>1, <1>2, <2>2
    <3>2. d[i] = c[j]
      BY <1>2, <3>1
    <3> HIDE DEF j
    <3> DEFINE len == msgs[c[j].n].len
               at  == c[j].at
    <3>3. len \in Nat /\ at \in Nat
      BY <3>1 DEF Typed
    <3>4. j + 3 + len - at <= Len(c)
      BY <3>1 DEF Whole, FrameEnd
    <3>5. FrameEnd(d, msgs, i) = i + 3 + len - at
      BY <3>2, Zenon DEF FrameEnd
    <3> HIDE DEF len, at
    <3> QED
      BY <1>1, <1>2, <3>1, <3>3, <3>4, <3>5
  <2> QED
    BY <2>1, <2>2
<1> QED
  BY <1>3 DEF Whole, d

\* A message written is whole.
LEMMA BytesWhole ==
  ASSUME NEW msgs \in Seq(Message), NEW m \in Message
  PROVE  /\ Whole(Bytes(Len(msgs) + 1, m), Append(msgs, m))
         /\ Typed(Bytes(Len(msgs) + 1, m), Append(msgs, m))
<1> DEFINE n == Len(msgs) + 1
           b == Bytes(n, m)
           more == Append(msgs, m)
<1>1. n \in Nat \ {0} /\ more[n] = m
  BY AppendProperties
<1>2. /\ Len(b) = 4 + m.len /\ m.len \in Nat
      /\ \A i \in 1..(4 + m.len) : b[i] = [n |-> n, at |-> i - 1]
  BY <1>1, BytesOfMessage
<1> HIDE DEF n, b, more
<1>3. ASSUME NEW i \in 1..Len(b)
      PROVE  FrameEnd(b, more, i) <= Len(b) /\ b[i].at \in Nat /\ more[b[i].n].len \in Nat
  <2>1. b[i].n = n /\ b[i].at = i - 1
    <3>1. b[i] = [n |-> n, at |-> i - 1]
      BY <1>2
    <3> QED
      BY <3>1, CellFields
  <2>2. more[b[i].n].len = m.len
    BY <1>1, <2>1
  <2>3. FrameEnd(b, more, i) = i + 3 + m.len - (i - 1)
    BY <2>1, <2>2, Zenon DEF FrameEnd
  <2> QED
    BY <1>2, <2>1, <2>2, <2>3
<1> QED
  BY <1>3 DEF Whole, Typed, n, b, more

\* One more message written changes nothing for the bytes of the others.
LEMMA AppendKeepsWhole ==
  ASSUME NEW b \in Seq(Cell), NEW msgs \in Seq(Message), NEW m \in Message,
         \A i \in 1..Len(b) : b[i].n \in 1..Len(msgs),
         Typed(b, msgs), Whole(b, msgs)
  PROVE  Typed(b, Append(msgs, m)) /\ Whole(b, Append(msgs, m))
<1> DEFINE more == Append(msgs, m)
<1>1. \A n \in 1..Len(msgs) : more[n] = msgs[n]
  BY AppendProperties
<1> HIDE DEF more
<1>2. ASSUME NEW i \in 1..Len(b)
      PROVE  /\ FrameEnd(b, more, i) = FrameEnd(b, msgs, i)
             /\ more[b[i].n] = msgs[b[i].n]
  <2>1. more[b[i].n] = msgs[b[i].n]
    BY <1>1
  <2> QED
    BY <2>1, Zenon DEF FrameEnd
<1> QED
  BY <1>2 DEF Typed, Whole, more

-----------------------------------------------------------------------------
(* What recv_message() hands over to the session's handlers.               *)

\* The message at hand, of which so many bytes were received: the first one not
\* handled yet, if all of it is there; and a Session Termination only if it is.
HandedOver(m, received) ==
  /\ Len(accepted) < Len(sent)
  /\ received = 4 + m.len => m = Abstract!First
  /\ m.type = SESSION_TERM /\ phase = "in" => Abstract!First.type = SESSION_TERM
  /\ ~Segmented => received = 4 + m.len

\* What handling it leaves: the start of the message after it.
LeftAfter(m, received) ==
  received = 4 + m.len =>
    /\ bufType' = m.type
    /\ Len(Unread') > 0 => Len(accepted) + 2 <= Len(sent) /\ Unread'[1].at = 0

\* A message read to its end leaves the start of the next one.
LEMMA FrameTaken ==
  ASSUME IInv, NEW size \in 0..Len(stream), Take(size), Len(Unread) > 0,
         Unread[1].n = Len(accepted) + 1, FrameEnd(Unread, sent, 1) = size,
         Len(Unread') > 0
  PROVE  Len(accepted) + 2 <= Len(sent) /\ Unread'[1].at = 0
<1>1. /\ Unread' \in Seq(Cell) /\ Len(Unread) = Len(Unread') + size
      /\ \A i \in 1..Len(Unread') : Unread'[i] = Unread[i + size]
      /\ Framed' /\ sent' = sent
  BY TakeKeeps
<1>2. Unread'[1] = [n |-> Unread[1].n + 1, at |-> 0]
  <2>1. ASSUME NEW c \in Seq(Cell), Len(Unread) = Len(c) + size, Len(c) > 0,
               \A i \in 1..Len(c) : c[i] = Unread[i + size]
        PROVE  c[1] = [n |-> Unread[1].n + 1, at |-> 0]
    <3>1. size \in Nat
      BY NetworkFacts
    <3> QED
      BY <2>1, <3>1, NetworkFacts, FrameRead
  <2> QED
    BY <1>1, <2>1
<1>3. Unread'[1].n = Len(accepted) + 2 /\ Unread'[1].at = 0
  <2>1. Unread'[1].n = Unread[1].n + 1 /\ Unread'[1].at = 0
    BY <1>2, CellFields
  <2> QED
    BY <2>1, NetworkFacts
<1>4. Unread'[1].n \in 1..Len(sent)
  BY <1>1 DEF Framed, CellsOf
<1> QED
  BY <1>3, <1>4, NetworkFacts

\* recv() returns all that is asked for when it is there.
LEMMA LeastWhole ==
  ASSUME NEW a \in Nat, NEW b \in Nat, b >= a
  PROVE  Least(a, b) = a
BY DEF Least

\* The header that recv_message() reads is that of the first message not handled.
LEMMA HeaderHandsOver ==
  ASSUME IInv, ReaderInv, phase \in {"init", "in"}, RecvHeader
  PROVE  LET size == Least(4, Len(stream))
             m    == Abstract!First
             mm   == [m EXCEPT !.type = HeaderType(m, size)]
         IN  /\ bufType' = HeaderType(m, size)
             /\ \/ /\ size = 4 /\ m.len > 0 /\ pc' = "body" /\ cur' = m
                   /\ UNCHANGED <<phase, ret, history, timers, quiet>>
                \/ /\ mm \in Message /\ size \in Nat
                   /\ Received(mm, size)
                   /\ HandedOver(mm, size) /\ LeftAfter(mm, size)
             /\ Take(size) /\ size \in 0..Len(stream)
<1> DEFINE size == Least(4, Len(stream))
           m    == Abstract!First
           mm   == [m EXCEPT !.type = HeaderType(m, size)]
<1>1. pc = "header" /\ stream # <<>> /\ Take(size)
  BY DEF RecvHeader
<1>2. /\ Len(stream) > 0 /\ Len(Unread) > 0 /\ stream[1] = Unread[1]
      /\ Unread[1].n = Len(accepted) + 1 /\ Unread[1].at = 0
      /\ Len(accepted) < Len(sent)
      /\ Decode(stream[1]) = {m}
      /\ m \in Messages
  BY <1>1, NextMessage DEF Abstract!First
<1>3. /\ bufType' = HeaderType(m, size)
      /\ IF size = 4 /\ m.len > 0
           THEN /\ pc' = "body" /\ cur' = m
                /\ UNCHANGED <<phase, ret, history, timers, quiet>>
           ELSE Received(mm, size)
  BY <1>2 DEF RecvHeader
<1>4. size \in 1..4 /\ size \in 0..Len(stream) /\ size <= Len(stream)
      /\ (Len(stream) >= 4 => size = 4)
  <2>1. Len(stream) \in Nat /\ Len(stream) > 0 /\ 4 \in Nat
    BY <1>2, NetworkFacts
  <2>2. /\ size \in 0..Len(stream) /\ size \in Nat /\ size <= 4
        /\ Len(stream) >= 4 => size = 4
        /\ 4 > 0 /\ Len(stream) > 0 => size > 0
    BY <2>1, LeastOK, LeastWhole, Zenon
  <2> HIDE DEF size
  <2> QED
    BY <2>1, <2>2
<1>5. m \in Message /\ m.len \in Nat /\ m.type \in Nat
  BY <1>2, MessagesAssumption DEF Message
<1>6. bufType \in Nat
  BY DEF IInv, TypeOK
<1>7. sent[Unread[1].n] = m
  BY <1>2 DEF Abstract!First
<1>8. FrameEnd(Unread, sent, 1) = 4 + m.len
  <2>1. FrameEnd(Unread, sent, 1) = 1 + 3 + m.len - 0
    BY <1>2, <1>7, Zenon DEF FrameEnd
  <2> QED
    BY <1>5, <2>1
<1>9. ~Segmented => size = 4
  <2> SUFFICES ASSUME ~Segmented PROVE Len(stream) >= 4
    BY <1>4
  <2>1. FrameEnd(stream, sent, 1) <= Len(stream)
    <3>1. 1 \in 1..Len(stream)
      BY <1>2, NetworkFacts
    <3> QED
      BY <3>1 DEF ReaderInv, NotCutUp, Whole
  <2>2. FrameEnd(stream, sent, 1) = FrameEnd(Unread, sent, 1)
    BY <1>2, Zenon DEF FrameEnd
  <2> QED
    BY <1>5, <1>8, <2>1, <2>2, NetworkFacts
<1> HIDE DEF size, m
<1>10. mm \in Message /\ mm.len = m.len /\ mm.type = HeaderType(m, size)
  BY <1>4, <1>5, <1>6, HeaderTypeOK DEF Message
<1>11. size >= 2 => mm = m
  BY <1>5 DEF Message, HeaderType
<1> HIDE DEF mm
<1>12. CASE ~(size = 4 /\ m.len > 0)
  <2>1. size = 4 + mm.len => size = 4 /\ mm = m
    BY <1>4, <1>5, <1>10, <1>11
  <2>2. ~Segmented => size = 4 + mm.len
    BY <1>5, <1>9, <1>10, <1>12
  <2>3. mm.type = SESSION_TERM /\ phase = "in" => m.type = SESSION_TERM
    <3>1. CASE size >= 2
      BY <1>11, <3>1
    <3>2. CASE ~(size >= 2)
      <4>1. mm.type = (m.type \div 256) * 256 + (bufType % 256)
        BY <1>10, <3>2 DEF HeaderType
      <4>2. phase = "in" => bufType \in Served \cup {SESSION_INIT_RESP}
        BY <1>1 DEF ReaderInv, BufferHolds
      <4>3. phase = "in" => bufType \in 0..255 /\ bufType # SESSION_TERM
        BY <4>2 DEF Served, SESSION_TERM, SESSION_INIT_RESP, SESSION_UPDATE,
                    DEST_UP, DEST_DOWN, DEST_UPDATE, PEER_HEARTBEAT
      <4>4. phase = "in" => mm.type # SESSION_TERM
        BY <1>5, <4>1, <4>3 DEF SESSION_TERM
      <4> QED
        BY <4>4
    <3> QED
      BY <3>1, <3>2
  <2>4. HandedOver(mm, size)
    BY <1>2, <2>1, <2>2, <2>3 DEF HandedOver, m
  <2>5. LeftAfter(mm, size)
    <3> SUFFICES ASSUME size = 4 + mm.len
                 PROVE  /\ bufType' = mm.type
                        /\ Len(Unread') > 0 =>
                             Len(accepted) + 2 <= Len(sent) /\ Unread'[1].at = 0
      BY DEF LeftAfter
    <3>1. FrameEnd(Unread, sent, 1) = size
      BY <1>8, <1>10
    <3> QED
      BY <1>1, <1>2, <1>3, <1>4, <1>10, <3>1, FrameTaken
  <2> QED
    BY <1>1, <1>3, <1>4, <1>10, <1>12, <2>4, <2>5 DEF size, m, mm
<1>13. CASE size = 4 /\ m.len > 0
  BY <1>1, <1>3, <1>4, <1>13 DEF size, m
<1> QED
  BY <1>12, <1>13

\* So is the message whose body it reads.
LEMMA BodyHandsOver ==
  ASSUME IInv, ReaderInv, phase \in {"init", "in"}, RecvBody
  PROVE  LET size == Least(cur.len, Len(stream))
         IN  /\ cur \in Message /\ 4 + size \in Nat
             /\ Received(cur, 4 + size)
             /\ HandedOver(cur, 4 + size) /\ LeftAfter(cur, 4 + size)
             /\ Take(size) /\ size \in 0..Len(stream)
<1> DEFINE size == Least(cur.len, Len(stream))
           m    == Abstract!First
<1>1. /\ pc = "body" /\ Take(size) /\ Received(cur, 4 + size) /\ bufType' = bufType
  BY DEF RecvBody
<1>2. /\ cur \in Messages /\ cur \in Message /\ cur.len \in Nat
      /\ Len(stream) \in Nat /\ Len(flight) \in Nat
      /\ Len(Unread) = Len(stream) + Len(flight)
  BY <1>1, MessagesAssumption, NetworkFacts DEF IInv, Control, Message
<1>3. size \in 0..Len(stream) /\ size \in Nat /\ size <= cur.len
      /\ (Len(stream) >= cur.len => size = cur.len)
  BY <1>2 DEF Least
<1>4. /\ Len(accepted) < Len(sent) /\ cur = m /\ cur.len > 0
      /\ Len(Unread) > 0 => Unread[1] = [n |-> Len(accepted) + 1, at |-> 4]
  BY <1>1 DEF IInv, AlignedAtBody, Abstract!First
<1>5. bufType = cur.type
  BY <1>1 DEF ReaderInv, BufferHolds
<1> HIDE DEF size, m
<1>6. Len(Unread) > 0 =>
        /\ Unread[1].n = Len(accepted) + 1
        /\ FrameEnd(Unread, sent, 1) = cur.len
  <2> SUFFICES ASSUME Len(Unread) > 0
               PROVE  /\ Unread[1].n = Len(accepted) + 1
                      /\ FrameEnd(Unread, sent, 1) = cur.len
    OBVIOUS
  <2>1. Unread[1].n = Len(accepted) + 1 /\ Unread[1].at = 4
    BY <1>4, CellFields
  <2>2. FrameEnd(Unread, sent, 1) = 1 + 3 + cur.len - 4
    BY <1>4, <2>1, Zenon DEF FrameEnd, m, Abstract!First
  <2> QED
    BY <1>2, <2>1, <2>2
<1>7. ~Segmented => 4 + size = 4 + cur.len
  <2> SUFFICES ASSUME ~Segmented PROVE Len(stream) >= cur.len
    BY <1>3
  <2>1. stream # <<>> /\ Whole(stream, sent)
    BY <1>1 DEF ReaderInv, NotCutUp
  <2>2. Len(stream) # 0
    BY <2>1, NetworkFacts, EmptySeq
  <2>3. 1 \in 1..Len(stream) /\ Len(Unread) > 0
    BY <1>2, <2>2
  <2>4. stream[1] = Unread[1]
    BY <2>3, NetworkFacts, Concatenation DEF Unread
  <2>5. FrameEnd(stream, sent, 1) = FrameEnd(Unread, sent, 1)
    BY <2>4, Zenon DEF FrameEnd
  <2>6. FrameEnd(stream, sent, 1) <= Len(stream)
    BY <2>1, <2>3 DEF Whole
  <2> QED
    BY <1>2, <1>6, <2>3, <2>5, <2>6
<1>8. HandedOver(cur, 4 + size)
  BY <1>4, <1>7 DEF HandedOver, m
<1>9. LeftAfter(cur, 4 + size)
  <2> SUFFICES ASSUME 4 + size = 4 + cur.len, Len(Unread') > 0
               PROVE  Len(accepted) + 2 <= Len(sent) /\ Unread'[1].at = 0
    BY <1>1, <1>5 DEF LeftAfter
  <2>1. size = cur.len /\ Len(Unread) > 0
    BY <1>2, <1>3, <1>4
  <2>2. FrameEnd(Unread, sent, 1) = size /\ Unread[1].n = Len(accepted) + 1
    BY <1>6, <2>1
  <2> QED
    BY <1>1, <1>3, <2>1, <2>2, FrameTaken
<1>10. 4 + size \in Nat
  BY <1>3
<1> QED
  BY <1>1, <1>2, <1>3, <1>8, <1>9, <1>10 DEF size

-----------------------------------------------------------------------------
(* What the handlers do, as the abstract session sees it.                  *)

\* Both specifications speak of the numbers of src/dlep_iana.h.
LEMMA SameNumbers ==
  /\ Abstract!SESSION_INIT = SESSION_INIT
  /\ Abstract!SESSION_INIT_RESP = SESSION_INIT_RESP
  /\ Abstract!SESSION_TERM = SESSION_TERM
  /\ Abstract!SESSION_TERM_RESP = SESSION_TERM_RESP
  /\ Abstract!PEER_HEARTBEAT = PEER_HEARTBEAT
  /\ Abstract!SC_SUCCESS = SC_SUCCESS
  /\ Abstract!SC_UNKNOWN_MESSAGE = SC_UNKNOWN_MESSAGE
  /\ Abstract!SC_UNEXPECTED_MESSAGE = SC_UNEXPECTED_MESSAGE
  /\ Abstract!SC_INVALID_DATA = SC_INVALID_DATA
  /\ Abstract!SC_TIMEDOUT = SC_TIMEDOUT
  /\ Abstract!SC_SHUTDOWN = SC_SHUTDOWN
BY DEF SESSION_INIT, SESSION_INIT_RESP, SESSION_TERM, SESSION_TERM_RESP, PEER_HEARTBEAT,
       SC_SUCCESS, SC_UNKNOWN_MESSAGE, SC_UNEXPECTED_MESSAGE, SC_INVALID_DATA,
       SC_TIMEDOUT, SC_SHUTDOWN, Abstract!SESSION_INIT, Abstract!SESSION_INIT_RESP,
       Abstract!SESSION_TERM, Abstract!SESSION_TERM_RESP, Abstract!PEER_HEARTBEAT,
       Abstract!SC_SUCCESS, Abstract!SC_UNKNOWN_MESSAGE,
       Abstract!SC_UNEXPECTED_MESSAGE, Abstract!SC_INVALID_DATA,
       Abstract!SC_TIMEDOUT, Abstract!SC_SHUTDOWN

\* And divide them in the same way.
LEMMA SamePartition ==
  /\ Abstract!Known = Known /\ Abstract!Served = Served
  /\ Abstract!Unexpected = Unexpected /\ Abstract!Requests = Requests
  /\ \A type : Abstract!ResponseTo(type) = ResponseTo(type)
BY DEF SESSION_UPDATE, SESSION_TERM, DEST_UP, DEST_DOWN, DEST_UPDATE, PEER_HEARTBEAT,
       DEST_UP_RESP, DEST_DOWN_RESP, Known, Served, Unexpected, Requests,
       ResponseTo, Abstract!SESSION_UPDATE, Abstract!SESSION_TERM, Abstract!DEST_UP,
       Abstract!DEST_DOWN, Abstract!DEST_UPDATE, Abstract!PEER_HEARTBEAT,
       Abstract!DEST_UP_RESP, Abstract!DEST_DOWN_RESP, Abstract!Known,
       Abstract!Served, Abstract!Unexpected, Abstract!Requests, Abstract!ResponseTo

\* A send() that does not deliver gives the session up.
LEMMA GivenUp ==
  ASSUME NEW result \in SendResults \cup {"no memory"}, result # "sent",
         Return(Outcome(result))
  PROVE  Abstract!GiveUp
<1>1. Outcome(result) = IF result = "sigpipe" THEN "killed" ELSE "fail"
  BY DEF Outcome
<1>2. result = "sigpipe" => peer = "reset"
  BY DEF SendResults
<1> QED
  BY <1>1, <1>2 DEF Return, Abstract!GiveUp, Abstract!Finish

\* send_session_term() writes the termination to a live modem, or gives up.
LEMMA TermMaps ==
  ASSUME NEW sc, NEW h, NEW written, SendSessionTerm(sc, h, written)
  PROVE  /\ Abstract!Terminate(sc, written)
         /\ phase' \in {"term", "ended"} /\ pc' \in {"select", "none"}
<1>1. PICK result \in SendResults \cup {"no memory"} :
        /\ out' = After(result, Output(SESSION_TERM, NoDest, sc), written)
        /\ IF result = "sent" THEN TermSession(h) ELSE Return(Outcome(result))
  BY DEF SendSessionTerm
<1>2. CASE result = "sent"
  <2>1. peer # "reset"
    BY <1>1, <1>2 DEF SendResults
  <2>2. out' = Append(written, Abstract!Term(sc))
    BY <1>1, <1>2, SameNumbers DEF After, Output, Abstract!Term, Abstract!Output
  <2> QED
    BY <1>1, <1>2, <2>1, <2>2 DEF TermSession, Abstract!Terminate
<1>3. CASE result # "sent"
  <2>1. out' = written /\ Return(Outcome(result))
    BY <1>1, <1>3 DEF After
  <2>2. Abstract!GiveUp
    BY <1>3, <2>1, GivenUp
  <2> QED
    BY <2>1, <2>2 DEF Abstract!Terminate, Return
<1> QED
  BY <1>2, <1>3

\* The first response is accepted or the session fails.
LEMMA InitResponseMaps ==
  ASSUME phase = "init", NEW m, NEW received, m.len \in Nat,
         HandedOver(m, received), InitResponse(m, received), UNCHANGED <<peer, sent>>
  PROVE  /\ Abstract!Accept \/ Abstract!Fail
         /\ phase' # "init" /\ pc' \in {"select", "none"}
         /\ phase' = "in" => received = 4 + m.len /\ m.type = SESSION_INIT_RESP
         /\ phase' = "term" => received = 4 + m.len /\ accepted' = Append(accepted, m)
<1> DEFINE valid == m.type = SESSION_INIT_RESP /\ Verdict(m, received) = SC_SUCCESS
<1>1. valid => /\ received = 4 + m.len /\ m.ok /\ m.type = SESSION_INIT_RESP
               /\ m = Abstract!First /\ Abstract!Pending
  BY DEF Verdict, SC_SUCCESS, SC_INVALID_DATA, HandedOver, Abstract!Pending
<1>2. /\ accepted' = IF valid THEN Append(accepted, m) ELSE accepted
      /\ \/ ~valid /\ Return("fail") /\ UNCHANGED out
         \/ valid /\ m.sc # SC_SUCCESS /\ SendSessionTerm(SC_SHUTDOWN, m.hb, out)
         \/ valid /\ m.sc = SC_SUCCESS /\ InSession(m.hb) /\ UNCHANGED out
  BY DEF InitResponse
<1> HIDE DEF valid
<1>3. CASE ~valid /\ Return("fail") /\ UNCHANGED out
  BY <1>2, <1>3 DEF Return, Abstract!Fail, Abstract!Finish, Abstract!Live
<1>4. CASE valid /\ m.sc # SC_SUCCESS /\ SendSessionTerm(SC_SHUTDOWN, m.hb, out)
  <2>1. /\ Abstract!Terminate(SC_SHUTDOWN, out)
        /\ phase' \in {"term", "ended"} /\ pc' \in {"select", "none"}
    BY <1>4, TermMaps
  <2>2. accepted' = Append(accepted, m)
    BY <1>2, <1>4
  <2>3. Abstract!Accept
    BY <1>1, <1>4, <2>1, <2>2, SameNumbers DEF Abstract!Accept
  <2> QED
    BY <1>1, <1>4, <2>1, <2>2, <2>3
<1>5. CASE valid /\ m.sc = SC_SUCCESS /\ InSession(m.hb) /\ UNCHANGED out
  BY <1>1, <1>2, <1>5, SameNumbers DEF InSession, Abstract!Accept
<1> QED
  BY <1>2, <1>3, <1>4, <1>5

\* What is served is the first message, and the answer is the one it asks for.
LEMMA ServeMaps ==
  ASSUME phase = "in", NEW m, m = Abstract!First, Abstract!Pending,
         m.type \in Served, m.ok, accepted' = Append(accepted, m),
         Serve(m), UNCHANGED <<peer, sent>>
  PROVE  /\ Abstract!Serve
         /\ phase' \in {"in", "ended"} /\ pc' \in {"select", "none"}
<1> DEFINE answer == Output(ResponseTo(m.type), m.dest, SC_SUCCESS)
<1>1. PICK result \in IF m.type \in Requests THEN SendResults ELSE {"no answer"} :
        /\ out' = After(result, answer, out)
        /\ IF result = "sigpipe" THEN Return("killed") ELSE WaitAgain(nowAge)
  BY DEF Serve
<1>2. answer = Abstract!Output(ResponseTo(m.type), m.dest, SC_SUCCESS)
  BY DEF Output, Abstract!Output
<1> HIDE DEF answer
<1>3. \/ result = "sigpipe" /\ phase' = "ended" /\ pc' = "none" /\ ret' = "killed"
      \/ result # "sigpipe" /\ phase' = phase /\ pc' = "select" /\ ret' = ret
  BY <1>1 DEF Return, WaitAgain
<1>4. CASE m.type \in Requests
  <2>1. /\ result = "sent" => peer # "reset"
        /\ result # "sent" => peer = "reset"
    BY <1>1, <1>4 DEF SendResults
  <2>2. Abstract!Writes(answer)
    BY <1>1, <2>1 DEF After, Abstract!Writes
  <2>3. Abstract!GoOn \/ (peer = "reset" /\ Abstract!Finish("killed"))
    BY <1>3, <2>1 DEF Abstract!GoOn, Abstract!Finish
  <2> QED
    BY <1>2, <1>3, <1>4, <2>2, <2>3, SameNumbers, SamePartition DEF Abstract!Serve
<1>5. CASE m.type \notin Requests
  <2>1. result = "no answer"
    BY <1>1, <1>5
  <2>2. out' = out /\ Abstract!GoOn
    BY <1>1, <1>3, <2>1 DEF After, Abstract!GoOn
  <2> QED
    BY <1>3, <1>5, <2>1, <2>2, SamePartition DEF Abstract!Serve
<1> QED
  BY <1>4, <1>5

\* The modem's Session Termination is acknowledged or the session given up.
LEMMA TerminatedMaps ==
  ASSUME phase = "in", Abstract!Pending, Abstract!First.type = SESSION_TERM,
         accepted' \in {accepted, Append(accepted, Abstract!First)},
         Segmented \/ (accepted' # accepted <=> Abstract!First.ok),
         Terminated, UNCHANGED <<peer, sent>>
  PROVE  Abstract!Acknowledge /\ phase' = "ended" /\ pc' = "none"
<1>1. PICK result \in SendResults :
        /\ out' = After(result, Output(SESSION_TERM_RESP, NoDest, 0), out)
        /\ Return(Outcome(result))
  BY DEF Terminated
<1>2. phase' = "ended" /\ pc' = "none"
  BY <1>1 DEF Return
<1>3. CASE result = "sent"
  <2>1. peer # "reset"
    BY <1>1, <1>3 DEF SendResults
  <2>2. Abstract!Writes(Abstract!Output(SESSION_TERM_RESP, NoDest, 0))
    BY <1>1, <1>3, <2>1 DEF After, Output, Abstract!Output, Abstract!Writes
  <2>3. Abstract!Finish("ok")
    BY <1>1, <1>3 DEF Outcome, Return, Abstract!Finish
  <2> QED
    BY <1>2, <2>1, <2>2, <2>3, SameNumbers DEF Abstract!Acknowledge
<1>4. CASE result # "sent"
  <2>1. peer = "reset" /\ out' = out
    BY <1>1, <1>4 DEF After, SendResults
  <2>2. Abstract!GiveUp
    BY <1>1, <1>4, GivenUp
  <2> QED
    BY <1>2, <2>1, <2>2, SameNumbers DEF Abstract!Acknowledge
<1> QED
  BY <1>3, <1>4

\* A message received whole is found to be what it deserves.
LEMMA DeservedStatus ==
  ASSUME NEW m, NEW received, received = 4 + m.len, m.type # SESSION_TERM
  PROVE  StatusOf(m, received) = Abstract!Deserved(m)
<1>1. m.type \notin Served /\ m.type \notin Unexpected => m.type \notin Known
  BY DEF Unexpected
<1>2. m.type \in Served => m.type \in Known /\ m.type \notin Unexpected
  BY DEF Served, Unexpected, Known, SESSION_UPDATE, DEST_UP, DEST_DOWN, DEST_UPDATE,
         PEER_HEARTBEAT
<1> QED
  BY <1>1, <1>2, SameNumbers, SamePartition DEF StatusOf, Abstract!Deserved, Verdict

\* handle_message() serves, acknowledges or blames the first message.
LEMMA HandleMessageMaps ==
  ASSUME phase = "in", NEW m, NEW received, m.len \in Nat, accepted \in Seq(Messages),
         HandedOver(m, received), HandleMessage(m, received), UNCHANGED <<peer, sent>>
  PROVE  /\ Abstract!Next
         /\ phase' # "init" /\ pc' \in {"select", "none"}
         /\ phase' = "in" => received = 4 + m.len /\ m.type \in Served
         /\ phase' = "term" => accepted' = accepted
<1> DEFINE sc    == StatusOf(m, received)
           valid == sc = SC_SUCCESS /\ Verdict(m, received) = SC_SUCCESS
<1>1. valid => received = 4 + m.len /\ m.ok /\ m = Abstract!First
  BY DEF Verdict, SC_SUCCESS, SC_INVALID_DATA, HandedOver
<1>2. /\ accepted' = IF valid THEN Append(accepted, m) ELSE accepted
      /\ \/ m.type = SESSION_TERM /\ Terminated
         \/ m.type # SESSION_TERM /\ sc = SC_SUCCESS /\ Serve(m)
         \/ m.type # SESSION_TERM /\ sc # SC_SUCCESS
            /\ SendSessionTerm(sc, modem_heartbeat_interval, out)
  BY DEF HandleMessage
<1>3. sc \in {SC_SUCCESS, SC_UNKNOWN_MESSAGE, SC_UNEXPECTED_MESSAGE, SC_INVALID_DATA}
  BY DEF StatusOf, Verdict
<1>4. m.type # SESSION_TERM /\ sc = SC_SUCCESS => valid /\ m.type \in Served
  BY DEF StatusOf, SC_SUCCESS, SC_UNEXPECTED_MESSAGE, SC_UNKNOWN_MESSAGE,
         Unexpected, Known, Served
<1>5. m.type = SESSION_TERM =>
        /\ sc = SC_SUCCESS
        /\ valid <=> received = 4 + m.len /\ m.ok
  BY DEF StatusOf, Verdict, SC_SUCCESS, SC_INVALID_DATA, Unexpected, Known, Served,
         SESSION_TERM, SESSION_UPDATE, DEST_UP, DEST_DOWN, DEST_UPDATE, PEER_HEARTBEAT
<1>6. m.type # SESSION_TERM /\ received = 4 + m.len => sc = Abstract!Deserved(m)
  BY DeservedStatus
<1> HIDE DEF sc, valid
<1>7. Abstract!Pending
  BY DEF HandedOver, Abstract!Pending
<1>8. Append(accepted, m) # accepted
  BY AppendProperties
<1>9. CASE m.type = SESSION_TERM /\ Terminated
  <2>1. Abstract!First.type = SESSION_TERM
    BY <1>9 DEF HandedOver
  <2>2. accepted' \in {accepted, Append(accepted, Abstract!First)}
    BY <1>1, <1>2
  <2>3. Segmented \/ (accepted' # accepted <=> Abstract!First.ok)
    <3> SUFFICES ASSUME ~Segmented PROVE accepted' # accepted <=> Abstract!First.ok
      OBVIOUS
    <3>1. received = 4 + m.len /\ m = Abstract!First
      BY DEF HandedOver
    <3> QED
      BY <1>2, <1>5, <1>8, <1>9, <3>1
  <2>4. Abstract!Acknowledge /\ phase' = "ended" /\ pc' = "none"
    BY <1>7, <1>9, <2>1, <2>2, <2>3, TerminatedMaps
  <2> QED
    BY <2>4 DEF Abstract!Next
<1>10. CASE m.type # SESSION_TERM /\ sc = SC_SUCCESS /\ Serve(m)
  <2>1. Abstract!Serve /\ phase' \in {"in", "ended"} /\ pc' \in {"select", "none"}
    BY <1>1, <1>2, <1>4, <1>7, <1>10, ServeMaps
  <2> QED
    BY <1>1, <1>4, <1>10, <2>1 DEF Abstract!Next
<1>11. CASE m.type # SESSION_TERM /\ sc # SC_SUCCESS
            /\ SendSessionTerm(sc, modem_heartbeat_interval, out)
  <2>1. /\ Abstract!Terminate(sc, out)
        /\ phase' \in {"term", "ended"} /\ pc' \in {"select", "none"}
    BY <1>11, TermMaps
  <2>2. accepted' = accepted
    BY <1>2, <1>11 DEF valid
  <2>3. Segmented \/ (Abstract!First.type # SESSION_TERM /\ sc = Abstract!Deserved(Abstract!First))
    BY <1>6, <1>11 DEF HandedOver
  <2>4. Abstract!Blame(sc)
    BY <1>7, <2>1, <2>2, <2>3, SameNumbers DEF Abstract!Blame
  <2> QED
    BY <1>3, <1>11, <2>1, <2>2, <2>4, SameNumbers DEF Abstract!Next
<1> QED
  BY <1>2, <1>9, <1>10, <1>11

-----------------------------------------------------------------------------
(* Receiving a message.                                                    *)

\* recv() takes from the front of the queue alone.
LEMMA TakeKeepsWhole ==
  ASSUME IInv, NotCutUp, NEW size \in 0..Len(stream), Take(size)
  PROVE  ~Segmented => Whole(stream', sent') /\ Whole(flight', sent')
<1> SUFFICES ASSUME ~Segmented PROVE Whole(stream', sent') /\ Whole(flight', sent')
  OBVIOUS
<1>1. /\ stream' = SubSeq(stream, size + 1, Len(stream))
      /\ sent' = sent /\ flight' = flight
  BY DEF Take, network
<1>2. /\ stream \in Seq(Cell) /\ Len(stream) \in Nat
      /\ Typed(stream, sent) /\ Whole(stream, sent) /\ Whole(flight, sent)
  BY NetworkFacts, QueuesTyped DEF NotCutUp
<1>3. /\ stream' \in Seq(Cell) /\ Len(stream) = Len(stream') + size
      /\ \A i \in 1..Len(stream') : stream'[i] = stream[i + size]
  BY <1>1, <1>2, Part
<1>4. ASSUME NEW c \in Seq(Cell), Len(stream) = Len(c) + size,
             \A i \in 1..Len(c) : c[i] = stream[i + size]
      PROVE  Whole(c, sent)
  BY <1>2, <1>4, DropKeepsWhole
<1>5. Whole(stream', sent)
  BY <1>3, <1>4
<1> QED
  BY <1>1, <1>2, <1>5

\* A message handled in the initialization or the in-session state.
LEMMA HandledMaps ==
  ASSUME IInv, ReaderInv, phase \in {"init", "in"},
         NEW size \in 0..Len(stream), Take(size),
         NEW m \in Message, NEW received \in Nat,
         Received(m, received), HandedOver(m, received), LeftAfter(m, received)
  PROVE  Abstract!Next /\ ReaderInv'
<1>1. /\ UNCHANGED <<peer, sent>>
      /\ Len(accepted) \in Nat /\ Len(sent) \in Nat /\ accepted \in Seq(Messages)
      /\ Len(Unread') \in Nat
  BY TakeKeeps, NetworkFacts
<1>2. m.len \in Nat
  BY DEF Message
<1>3. /\ Abstract!Next
      /\ phase' # "init" /\ pc' \in {"select", "none"}
      /\ phase' = "in" =>
           received = 4 + m.len /\ m.type \in Served \cup {SESSION_INIT_RESP}
      /\ phase' = "term" =>
           accepted' = accepted
           \/ (received = 4 + m.len /\ accepted' = Append(accepted, m))
  <2>1. CASE phase = "init"
    <3>1. InitResponse(m, received)
      BY <2>1 DEF Received
    <3>2. /\ Abstract!Accept \/ Abstract!Fail
          /\ phase' # "init" /\ pc' \in {"select", "none"}
          /\ phase' = "in" => received = 4 + m.len /\ m.type = SESSION_INIT_RESP
          /\ phase' = "term" => received = 4 + m.len /\ accepted' = Append(accepted, m)
      BY <1>1, <1>2, <2>1, <3>1, InitResponseMaps
    <3> QED
      BY <3>2 DEF Abstract!Next
  <2>2. CASE phase = "in"
    <3>1. HandleMessage(m, received)
      BY <2>2 DEF Received
    <3> QED
      BY <1>1, <1>2, <2>2, <3>1, HandleMessageMaps
  <2> QED
    BY <2>1, <2>2
<1>4. BufferHolds'
  BY <1>3 DEF BufferHolds, LeftAfter
<1>5. NotCutUp'
  <2>1. ~Segmented => Whole(stream', sent') /\ Whole(flight', sent')
    BY TakeKeepsWhole DEF ReaderInv
  <2> QED
    BY <1>3, <2>1 DEF NotCutUp
<1>6. StillToCome'
  <2> SUFFICES ASSUME phase' = "term"
               PROVE  Len(accepted') < Len(sent') \/ Len(Unread') = 0
    BY <1>3 DEF StillToCome
  <2>1. Len(accepted) < Len(sent)
    BY DEF HandedOver
  <2>2. CASE accepted' = accepted
    BY <1>1, <2>1, <2>2
  <2>3. CASE received = 4 + m.len /\ accepted' = Append(accepted, m)
    <3>1. Len(accepted') = Len(accepted) + 1
      BY <1>1, <2>3, AppendProperties
    <3>2. Len(Unread') > 0 => Len(accepted) + 2 <= Len(sent)
      BY <2>3 DEF LeftAfter
    <3> QED
      BY <1>1, <3>1, <3>2
  <2> QED
    BY <1>3, <2>2, <2>3
<1> QED
  BY <1>3, <1>4, <1>5, <1>6 DEF ReaderInv

\* In the termination state whatever was received was not handled before.
LEMMA PendingInTerm ==
  ASSUME IInv, ReaderInv, phase = "term", stream # <<>> \/ pc = "body"
  PROVE  Abstract!Pending
<1>1. stream # <<>> => Len(Unread) > 0
  <2> SUFFICES ASSUME stream # <<>> PROVE Len(Unread) > 0
    OBVIOUS
  <2>1. Len(stream) # 0
    BY NetworkFacts, EmptySeq
  <2> QED
    BY <2>1, NetworkFacts
<1> QED
  BY <1>1 DEF ReaderInv, StillToCome, Abstract!Pending

\* And ends the session.
LEMMA TermMessageMaps ==
  ASSUME IInv, ReaderInv, phase = "term", stream # <<>> \/ pc = "body",
         NEW size \in 0..Len(stream), Take(size),
         NEW m, NEW received, Received(m, received)
  PROVE  Abstract!Next /\ ReaderInv'
<1>1. /\ Return("ok") /\ UNCHANGED <<out, accepted, peer, sent>>
  BY TakeKeeps DEF Received, TermMessage, history
<1>2. Abstract!Answered
  BY <1>1, PendingInTerm DEF Return, Abstract!Answered, Abstract!Finish
<1>3. ~Segmented => Whole(stream', sent') /\ Whole(flight', sent')
  BY TakeKeepsWhole DEF ReaderInv
<1>4. ReaderInv'
  BY <1>1, <1>3 DEF ReaderInv, BufferHolds, NotCutUp, StillToCome, Return
<1> QED
  BY <1>2, <1>4 DEF Abstract!Next

\* Of a message that arrived whole, the body is there behind its header.
LEMMA BodyFollows ==
  ASSUME IInv, ReaderInv, ~Segmented, stream # <<>>, stream[1].at = 0,
         sent[stream[1].n].len > 0, Take(4)
  PROVE  stream' # <<>>
<1> DEFINE m == sent[stream[1].n]
<1>1. 1 \in 1..Len(stream) /\ Len(stream) \in Nat
  <2>1. Len(stream) # 0 /\ Len(stream) \in Nat
    BY NetworkFacts, EmptySeq
  <2> QED
    BY <2>1
<1>2. m \in Messages
  <2>1. stream[1] = Unread[1] /\ 1 \in 1..Len(Unread)
    BY <1>1, NetworkFacts, Concatenation DEF Unread
  <2>2. stream[1].n \in 1..Len(sent)
    BY <2>1 DEF IInv, Framed, CellsOf
  <2> QED
    BY <2>2, NetworkFacts, ElementOfSeq
<1>3. m.len \in Nat
  BY <1>2, MessagesAssumption DEF Message
<1>4. FrameEnd(stream, sent, 1) <= Len(stream)
  BY <1>1 DEF ReaderInv, NotCutUp, Whole
<1>5. FrameEnd(stream, sent, 1) = 1 + 3 + m.len - 0
  BY Zenon DEF FrameEnd
<1>6. m.len > 0
  OBVIOUS
<1> HIDE DEF m
<1>7. Len(stream) > 4
  BY <1>1, <1>3, <1>4, <1>5, <1>6
<1>8. Len(SubSeq(stream, 4 + 1, Len(stream))) = Len(stream) - 4
  <2>1. /\ 4 \in Nat /\ Len(stream) \in Nat /\ stream \in Seq(Cell)
        /\ 4 <= Len(stream) /\ Len(stream) <= Len(stream)
    BY <1>7, NetworkFacts
  <2> QED
    BY <2>1, Part, Zenon
<1>9. stream' = SubSeq(stream, 4 + 1, Len(stream))
  BY DEF Take
<1>10. Len(stream') > 0
  BY <1>1, <1>7, <1>8, <1>9
<1> QED
  BY <1>10

\* recv_message()'s first recv(): the whole of a message, too little of one, or a
\* header with a body to wait for.
LEMMA RecvHeaderMaps ==
  ASSUME IInv, ReaderInv, IInv', RecvHeader
  PROVE  [Abstract!Next]_(Abstract!vars) /\ ReaderInv'
<1> DEFINE size == Least(4, Len(stream))
<1>1. pc = "header" /\ stream # <<>> /\ phase \in Live /\ Take(size)
  BY DEF RecvHeader, IInv, Control
<1>2. size \in 0..Len(stream)
  BY NetworkFacts, LeastOK
<1>3. ASSUME NEW m, size = 4, m.len > 0, pc' = "body", cur' = m, bufType' = m.type,
             UNCHANGED <<phase, ret, history, timers, quiet>>,
             phase = "term" \/ (m = Abstract!First /\ Len(accepted) < Len(sent))
      PROVE  UNCHANGED Abstract!vars /\ ReaderInv'
  <2>1. UNCHANGED <<phase, ret, out, accepted, peer, sent, flight>>
    BY <1>1, <1>2, <1>3, TakeKeeps DEF history
  <2>2. BufferHolds'
    BY <1>3, <2>1 DEF BufferHolds
  <2>3. NotCutUp'
    <3> SUFFICES ASSUME ~Segmented
                 PROVE  /\ Whole(stream', sent') /\ Whole(flight', sent')
                        /\ phase \in {"init", "in"} => stream' # <<>>
      BY <2>1 DEF NotCutUp
    <3>1. Whole(stream', sent') /\ Whole(flight', sent')
      BY <1>1, <1>2, TakeKeepsWhole DEF ReaderInv
    <3>2. ASSUME phase \in {"init", "in"}
          PROVE  stream' # <<>>
      <4>1. /\ stream[1] = Unread[1]
            /\ Unread[1].n = Len(accepted) + 1 /\ Unread[1].at = 0
        BY <1>1, <3>2, NextMessage
      <4>2. sent[stream[1].n] = m /\ stream[1].at = 0
        BY <1>3, <3>2, <4>1 DEF Abstract!First
      <4>3. Take(4)
        BY <1>1, <1>3
      <4> QED
        BY <1>1, <1>3, <4>2, <4>3, BodyFollows
    <3> QED
      BY <3>1, <3>2
  <2>4. StillToCome'
    BY <1>1, <2>1, PendingInTerm DEF StillToCome, Abstract!Pending
  <2> QED
    BY <2>1, <2>2, <2>3, <2>4 DEF Abstract!vars, ReaderInv
<1>4. CASE phase \in {"init", "in"}
  <2> DEFINE m  == Abstract!First
             mm == [m EXCEPT !.type = HeaderType(m, size)]
  <2>1. /\ bufType' = HeaderType(m, size)
        /\ \/ /\ size = 4 /\ m.len > 0 /\ pc' = "body" /\ cur' = m
              /\ UNCHANGED <<phase, ret, history, timers, quiet>>
           \/ /\ mm \in Message /\ size \in Nat
              /\ Received(mm, size)
              /\ HandedOver(mm, size) /\ LeftAfter(mm, size)
    BY <1>4, HeaderHandsOver
  <2>2. Len(accepted) < Len(sent)
    BY <1>1, <1>4, NextMessage
  <2> HIDE DEF size, m, mm
  <2>3. CASE /\ size = 4 /\ m.len > 0 /\ pc' = "body" /\ cur' = m
             /\ UNCHANGED <<phase, ret, history, timers, quiet>>
    <3>1. bufType' = m.type
      BY <2>1, <2>3 DEF HeaderType
    <3> QED
      BY <1>3, <2>2, <2>3, <3>1 DEF m
  <2>4. CASE /\ mm \in Message /\ size \in Nat
             /\ Received(mm, size)
             /\ HandedOver(mm, size) /\ LeftAfter(mm, size)
    BY <1>1, <1>2, <1>4, <2>4, HandledMaps
  <2> QED
    BY <2>1, <2>3, <2>4
<1>5. CASE phase = "term"
  <2>1. PICK m \in Decode(stream[1]) :
          LET type == HeaderType(m, size) IN
          /\ bufType' = type
          /\ IF size = 4 /\ m.len > 0
               THEN /\ pc' = "body" /\ cur' = m
                    /\ UNCHANGED <<phase, ret, history, timers, quiet>>
               ELSE Received([m EXCEPT !.type = type], size)
    BY DEF RecvHeader
  <2> HIDE DEF size
  <2>2. CASE size = 4 /\ m.len > 0
    <3>1. bufType' = m.type
      BY <2>1, <2>2 DEF HeaderType
    <3> QED
      BY <1>3, <1>5, <2>1, <2>2, <3>1
  <2>3. CASE ~(size = 4 /\ m.len > 0)
    <3>1. Received([m EXCEPT !.type = HeaderType(m, size)], size)
      BY <2>1, <2>3
    <3> QED
      BY <1>1, <1>2, <1>5, <3>1, TermMessageMaps
  <2> QED
    BY <2>2, <2>3
<1> QED
  BY <1>1, <1>4, <1>5 DEF Live

\* Its second recv() completes a message or cuts it short.
LEMMA RecvBodyMaps ==
  ASSUME IInv, ReaderInv, RecvBody
  PROVE  Abstract!Next /\ ReaderInv'
<1> DEFINE size == Least(cur.len, Len(stream))
<1>1. pc = "body" /\ phase \in Live /\ Take(size) /\ Received(cur, 4 + size)
  BY DEF RecvBody, IInv, Control
<1>2. CASE phase \in {"init", "in"}
  <2>1. /\ cur \in Message /\ 4 + size \in Nat
        /\ HandedOver(cur, 4 + size) /\ LeftAfter(cur, 4 + size)
        /\ size \in 0..Len(stream)
    BY <1>2, BodyHandsOver
  <2> HIDE DEF size
  <2> QED
    BY <1>1, <1>2, <2>1, HandledMaps
<1>3. CASE phase = "term"
  <2>1. size \in 0..Len(stream)
    <3>1. cur.len \in Nat /\ Len(stream) \in Nat
      BY <1>1, MessagesAssumption, NetworkFacts DEF IInv, Control, Message
    <3> QED
      BY <3>1, LeastOK
  <2> HIDE DEF size
  <2> QED
    BY <1>1, <1>3, <2>1, TermMessageMaps
<1> QED
  BY <1>1, <1>2, <1>3 DEF Live

-----------------------------------------------------------------------------
(* The other steps.                                                        *)

\* Steps that take nothing from the queue and write nothing to it.
LEMMA QueueUntouched ==
  ASSUME IInv, ReaderInv, UNCHANGED <<stream, flight, sent, accepted, bufType, cur>>,
         \/ phase' = "ended"
         \/ phase' = "init" /\ pc' = "header"
         \/ phase' = phase /\ phase # "idle"
            /\ (pc' = pc \/ {pc, pc'} \subseteq {"select", "header"})
         \/ phase = "in" /\ pc = "select" /\ phase' = "term" /\ pc' = "select"
  PROVE  ReaderInv'
<1>1. BufferHolds'
  BY DEF ReaderInv, BufferHolds
<1>2. NotCutUp'
  BY DEF ReaderInv, NotCutUp, Whole, FrameEnd
<1>3. Unread' = Unread
  BY DEF Unread
<1>4. StillToCome'
  <2>1. CASE phase = "in" /\ pc = "select" /\ phase' = "term" /\ pc' = "select"
    <3>1. CASE Len(Unread) > 0
      <4>1. Unread[1] = [n |-> Len(accepted) + 1, at |-> 0]
        BY <2>1, <3>1 DEF IInv, AlignedAtHeader
      <4>2. Unread[1].n \in 1..Len(sent)
        BY <3>1, NetworkFacts DEF Framing, CellsOf
      <4>3. Unread[1].n = Len(accepted) + 1
        BY <4>1, CellFields
      <4> QED
        BY <4>2, <4>3, NetworkFacts DEF StillToCome
    <3>2. CASE ~(Len(Unread) > 0)
      BY <1>3, <2>1, <3>2, NetworkFacts DEF StillToCome
    <3> QED
      BY <3>1, <3>2
  <2>2. CASE ~(phase = "in" /\ pc = "select" /\ phase' = "term" /\ pc' = "select")
    BY <1>3, <2>2 DEF ReaderInv, StillToCome
  <2> QED
    BY <2>1, <2>2
<1> QED
  BY <1>1, <1>2, <1>4 DEF ReaderInv

\* A failing recv(), select() or realloc().
LEMMA FailsMaps ==
  ASSUME IInv, ReaderInv, RecvFails \/ SystemFails
  PROVE  Abstract!Next /\ ReaderInv'
<1>1. /\ Return("fail") /\ phase \in Live
      /\ UNCHANGED <<peer, sent, flight, stream, cur, bufType, out, accepted>>
  BY DEF RecvFails, SystemFails, network, buffer, history, IInv, Control
<1>2. Abstract!Fail
  BY <1>1 DEF Return, Abstract!Fail, Abstract!Finish, Abstract!Live, Live
<1>3. ReaderInv'
  BY <1>1, QueueUntouched DEF Return
<1> QED
  BY <1>2, <1>3 DEF Abstract!Next

\* connect() and the first send().
LEMMA ConnectMaps ==
  ASSUME IInv, ReaderInv, Connect
  PROVE  Abstract!Next /\ ReaderInv'
<1>1. Output(SESSION_INIT, NoDest, 0) = Abstract!Output(Abstract!SESSION_INIT, NoDest, 0)
  BY SameNumbers DEF Output, Abstract!Output
<1>2. Abstract!Open
  BY <1>1 DEF Connect, Abstract!Open
<1>3. ReaderInv'
  BY QueueUntouched DEF Connect, buffer
<1> QED
  BY <1>2, <1>3 DEF Abstract!Next

\* A heartbeat that is due is written to a live modem; one more of a run counts once.
LEMMA BeatWritten ==
  ASSUME NEW result \in HeartbeatResults
  PROVE  /\ AfterHeartbeat(result) # out =>
              peer # "reset" /\ AfterHeartbeat(result) = Append(out, Abstract!Beat)
         /\ result = "sigpipe" => peer = "reset" /\ AfterHeartbeat(result) = out
<1>1. Heartbeat = Abstract!Beat
  BY SameNumbers DEF Heartbeat, Output, Abstract!Beat, Abstract!Output
<1>2. result = "sent" => peer # "reset"
  BY DEF HeartbeatResults, SendResults
<1>3. result = "sigpipe" => peer = "reset"
  BY DEF HeartbeatResults, SendResults
<1> QED
  BY <1>1, <1>2, <1>3 DEF AfterHeartbeat, After

\* in_session() with a message to read.
LEMMA SelectReadyMaps ==
  ASSUME IInv, ReaderInv, SelectReady
  PROVE  [Abstract!Next]_(Abstract!vars) /\ ReaderInv'
<1>1. PICK result \in HeartbeatResults :
        /\ out' = AfterHeartbeat(result)
        /\ IF result = "sigpipe"
             THEN Return("killed")
             ELSE /\ pc' = "header"
                  /\ sentAge' = IF result = "not due" THEN sentAge ELSE 0
                  /\ UNCHANGED <<phase, ret, modem_heartbeat_interval, timeout, recvAge>>
  BY DEF SelectReady
<1>2. /\ phase = "in" /\ pc = "select"
      /\ UNCHANGED <<peer, sent, flight, stream, cur, bufType, accepted>>
  BY DEF SelectReady, network, buffer
<1>3. /\ out' # out => peer # "reset" /\ out' = Append(out, Abstract!Beat)
      /\ result = "sigpipe" => peer = "reset" /\ out' = out
  BY <1>1, BeatWritten
<1>4. CASE result = "sigpipe"
  <2>1. phase' = "ended" /\ ret' = "killed"
    BY <1>1, <1>4 DEF Return
  <2>2. Abstract!Heartbeat
    BY <1>2, <1>3, <1>4, <2>1 DEF Abstract!Heartbeat, Abstract!Finish
  <2> QED
    BY <1>2, <2>1, <2>2, QueueUntouched DEF Abstract!Next
<1>5. CASE result # "sigpipe"
  <2>1. phase' = phase /\ ret' = ret /\ pc' = "header"
    BY <1>1, <1>5
  <2>2. Abstract!Heartbeat \/ UNCHANGED Abstract!vars
    BY <1>2, <1>3, <2>1 DEF Abstract!Heartbeat, Abstract!GoOn, Abstract!vars
  <2> QED
    BY <1>2, <2>1, <2>2, QueueUntouched DEF Abstract!Next
<1> QED
  BY <1>4, <1>5

\* in_session() with its timeout used up.
LEMMA SelectTimeoutMaps ==
  ASSUME IInv, ReaderInv, SelectTimeout
  PROVE  [Abstract!Next]_(Abstract!vars) /\ ReaderInv'
<1>1. PICK result \in HeartbeatResults :
        IF ModemSilent
          THEN SendSessionTerm(SC_TIMEDOUT, modem_heartbeat_interval, AfterHeartbeat(result))
          ELSE /\ out' = AfterHeartbeat(result)
               /\ sentAge' = IF result = "not due" THEN sentAge ELSE 0
               /\ UNCHANGED <<control, modem_heartbeat_interval, timeout, recvAge>>
  BY DEF SelectTimeout
<1>2. /\ phase = "in" /\ pc = "select"
      /\ UNCHANGED <<peer, sent, flight, stream, cur, bufType, accepted>>
  BY DEF SelectTimeout, network, buffer
<1>3. AfterHeartbeat(result) # out =>
        peer # "reset" /\ AfterHeartbeat(result) = Append(out, Abstract!Beat)
  BY BeatWritten
<1>4. CASE ModemSilent
  <2>1. /\ Abstract!Terminate(SC_TIMEDOUT, AfterHeartbeat(result))
        /\ phase' \in {"term", "ended"}
    BY <1>1, <1>4, TermMaps
  <2>2. Abstract!TimeOut
    <3>1. CASE AfterHeartbeat(result) = out
      BY <1>2, <2>1, <3>1, SameNumbers DEF Abstract!TimeOut
    <3>2. CASE AfterHeartbeat(result) # out
      BY <1>2, <1>3, <2>1, <3>2, SameNumbers DEF Abstract!TimeOut
    <3> QED
      BY <3>1, <3>2
  <2>3. phase' = "term" => pc' = "select"
    BY <1>1, <1>4 DEF SendSessionTerm, TermSession, Return
  <2> QED
    BY <1>2, <2>1, <2>2, <2>3, QueueUntouched DEF Abstract!Next
<1>5. CASE ~ModemSilent
  <2>1. out' = AfterHeartbeat(result) /\ UNCHANGED <<phase, pc, ret>>
    BY <1>1, <1>5 DEF control
  <2>2. Abstract!Heartbeat \/ UNCHANGED Abstract!vars
    BY <1>2, <1>3, <2>1 DEF Abstract!Heartbeat, Abstract!GoOn, Abstract!vars
  <2> QED
    BY <1>2, <2>1, <2>2, QueueUntouched DEF Abstract!Next
<1> QED
  BY <1>4, <1>5

\* term_session() waits, or gives up.
LEMMA TermSelectMaps ==
  ASSUME IInv, ReaderInv, TermSelectReady \/ TermSelectTimeout
  PROVE  [Abstract!Next]_(Abstract!vars) /\ ReaderInv'
<1>1. /\ phase = "term" /\ pc = "select"
      /\ UNCHANGED <<peer, sent, flight, stream, cur, bufType, out, accepted>>
      /\ \/ Return("fail")
         \/ phase' = phase /\ ret' = ret /\ pc' \in {"select", "header"}
  BY DEF TermSelectReady, TermSelectTimeout, network, buffer, history, control
<1>2. CASE Return("fail")
  <2>1. Abstract!Fail
    BY <1>1, <1>2 DEF Return, Abstract!Fail, Abstract!Finish, Abstract!Live
  <2> QED
    BY <1>1, <1>2, <2>1, QueueUntouched DEF Return, Abstract!Next
<1>3. CASE phase' = phase /\ ret' = ret /\ pc' \in {"select", "header"}
  BY <1>1, <1>3, QueueUntouched DEF Abstract!vars
<1> QED
  BY <1>1, <1>2, <1>3

\* A message written is whole, and one more to come.
LEMMA ModemSendMaps ==
  ASSUME IInv, ReaderInv, NEW m \in Messages, ModemSend(m)
  PROVE  Abstract!Next /\ ReaderInv'
<1> DEFINE t == Bytes(Len(sent) + 1, m)
<1>1. /\ phase \in Live /\ peer = "open" /\ Len(sent) < MaxSent
      /\ sent' = Append(sent, m) /\ flight' = flight \o t
      /\ UNCHANGED <<phase, pc, ret, peer, stream, cur, bufType, out, accepted>>
  BY DEF ModemSend, control, buffer, history
<1>2. Abstract!ModemStep
  BY <1>1 DEF Abstract!ModemStep, Abstract!Live, Live
<1>3. /\ m \in Message /\ sent \in Seq(Message) /\ Len(sent) + 1 \in Nat \ {0}
      /\ stream \in Seq(Cell) /\ flight \in Seq(Cell)
      /\ Len(accepted) \in Nat /\ Len(sent) \in Nat
      /\ Len(accepted) <= Len(sent) /\ Len(sent') = Len(sent) + 1
  BY <1>1, MessagesAssumption, NetworkFacts, AppendProperties DEF IInv, InOrder
<1>4. t \in Seq(Cell) /\ Whole(t, sent') /\ Typed(t, sent')
  BY <1>1, <1>3, BytesOfMessage, BytesWhole
<1> HIDE DEF t
<1>5. ~Segmented => Whole(stream', sent') /\ Whole(flight', sent')
  <2> SUFFICES ASSUME ~Segmented
               PROVE  Whole(stream, sent') /\ Whole(flight \o t, sent')
    BY <1>1
  <2>1. /\ \A i \in 1..Len(stream) : stream[i].n \in 1..Len(sent)
        /\ \A i \in 1..Len(flight) : flight[i].n \in 1..Len(sent)
        /\ Typed(stream, sent) /\ Whole(stream, sent)
        /\ Typed(flight, sent) /\ Whole(flight, sent)
    BY QueuesTyped DEF ReaderInv, NotCutUp
  <2>2. Whole(stream, sent')
    BY <1>1, <1>3, <2>1, AppendKeepsWhole
  <2>3. Typed(flight, sent') /\ Whole(flight, sent')
    BY <1>1, <1>3, <2>1, AppendKeepsWhole
  <2> QED
    BY <1>3, <1>4, <2>2, <2>3, JoinKeepsWhole
<1>6. BufferHolds'
  BY <1>1 DEF ReaderInv, BufferHolds
<1>7. NotCutUp'
  BY <1>1, <1>5 DEF ReaderInv, NotCutUp
<1>8. StillToCome'
  BY <1>1, <1>3 DEF StillToCome
<1> QED
  BY <1>2, <1>6, <1>7, <1>8 DEF ReaderInv, Abstract!Next

\* Delivery is the network's business.
LEMMA DeliverMaps ==
  ASSUME IInv, ReaderInv, NEW k \in 1..Len(flight), Deliver(k)
  PROVE  UNCHANGED Abstract!vars /\ ReaderInv'
<1>1. /\ Segmented \/ k = Len(flight)
      /\ stream' = stream \o SubSeq(flight, 1, k)
      /\ flight' = SubSeq(flight, k + 1, Len(flight))
      /\ UNCHANGED <<phase, pc, ret, peer, sent, cur, bufType, out, accepted>>
  BY DEF Deliver, control, buffer, history
<1>2. Unread' = Unread
  BY <1>1, NetworkFacts, DeliverBytes DEF Unread
<1>3. BufferHolds' /\ StillToCome'
  BY <1>1, <1>2 DEF ReaderInv, BufferHolds, StillToCome
<1>4. NotCutUp'
  <2> SUFFICES ASSUME ~Segmented
               PROVE  /\ Whole(stream', sent) /\ Whole(flight', sent)
                      /\ stream # <<>> => stream' # <<>>
    BY <1>1 DEF ReaderInv, NotCutUp
  <2>1. /\ stream \in Seq(Cell) /\ flight \in Seq(Cell)
        /\ Typed(stream, sent) /\ Whole(stream, sent)
        /\ Typed(flight, sent) /\ Whole(flight, sent)
    BY NetworkFacts, QueuesTyped DEF ReaderInv, NotCutUp
  <2>2. stream' = stream \o flight /\ flight' = <<>>
    <3>1. SubSeq(flight, 1, Len(flight)) = flight
      BY <2>1, SubSeqFull
    <3>2. SubSeq(flight, Len(flight) + 1, Len(flight)) = <<>>
      BY <2>1
    <3> QED
      BY <1>1, <3>1, <3>2
  <2>3. Whole(stream', sent) /\ Whole(flight', sent)
    <3>1. Whole(stream \o flight, sent)
      BY <2>1, JoinKeepsWhole
    <3>2. Whole(<<>>, sent)
      BY DEF Whole
    <3> QED
      BY <2>2, <3>1, <3>2
  <2>4. stream # <<>> => stream' # <<>>
    BY <2>1, <2>2
  <2> QED
    BY <2>3, <2>4
<1> QED
  BY <1>1, <1>3, <1>4 DEF ReaderInv, Abstract!vars

\* The modem goes away.
LEMMA ModemGoneMaps ==
  ASSUME IInv, ReaderInv, ModemClose \/ ModemReset
  PROVE  Abstract!Next /\ ReaderInv'
<1>1. /\ phase \in Live /\ flight' \in {flight, <<>>}
      /\ \/ peer = "open" /\ peer' = "closed"
         \/ peer \in {"open", "closed"} /\ peer' = "reset"
      /\ UNCHANGED <<phase, pc, ret, sent, stream, cur, bufType, out, accepted>>
  BY DEF ModemClose, ModemReset, control, buffer, history
<1>2. Abstract!ModemStep
  BY <1>1 DEF Abstract!ModemStep, Abstract!Live, Live
<1>3. BufferHolds' /\ NotCutUp'
  BY <1>1 DEF ReaderInv, BufferHolds, NotCutUp, Whole, FrameEnd
<1>4. StillToCome'
  <2>1. Len(Unread) = 0 => Len(Unread') = 0
    <3>0. stream \in Seq(Cell) /\ flight \in Seq(Cell) /\ <<>> \in Seq(Cell)
      BY NetworkFacts
    <3>1. /\ Unread' = stream \o flight' /\ Unread = stream \o flight
          /\ stream \in Seq(Cell) /\ flight \in Seq(Cell) /\ flight' \in Seq(Cell)
      BY <1>1, <3>0, Zenon DEF Unread
    <3>2. /\ Len(Unread') = Len(stream) + Len(flight')
          /\ Len(Unread) = Len(stream) + Len(flight)
      BY <3>1, Concatenation
    <3> QED
      BY <1>1, <3>1, <3>2
  <2> QED
    BY <1>1, <2>1 DEF ReaderInv, StillToCome
<1> QED
  BY <1>2, <1>3, <1>4 DEF ReaderInv, Abstract!Next

\* So is the passing of time the clock's.
LEMMA TickMaps ==
  ASSUME IInv, ReaderInv, Tick
  PROVE  UNCHANGED Abstract!vars /\ ReaderInv'
<1>1. /\ phase # "idle"
      /\ UNCHANGED <<phase, pc, ret, peer, sent, flight, stream, cur, bufType, out, accepted>>
  BY DEF Tick, Live, control, network, buffer, history
<1> QED
  BY <1>1, QueueUntouched DEF Abstract!vars

-----------------------------------------------------------------------------
(* The theorem.                                                            *)

\* Before connect() nothing is read, written or buffered.
LEMMA InitMaps == Init => Abstract!Init /\ ReaderInv
<1> SUFFICES ASSUME Init PROVE Abstract!Init /\ ReaderInv
  OBVIOUS
<1>1. Abstract!Init
  BY DEF Init, Abstract!Init
<1>2. ReaderInv
  BY DEF Init, ReaderInv, BufferHolds, NotCutUp, StillToCome, Whole
<1> QED
  BY <1>1, <1>2

\* Every step of the session is a step of the abstract session or leaves it alone.
LEMMA NextMaps ==
  ASSUME IInv, IInv', ReaderInv, [Next]_vars
  PROVE  [Abstract!Next]_(Abstract!vars) /\ ReaderInv'
<1>1. CASE Connect
  BY <1>1, ConnectMaps
<1>2. CASE RecvHeader
  BY <1>2, RecvHeaderMaps
<1>3. CASE RecvBody
  BY <1>3, RecvBodyMaps
<1>4. CASE RecvFails \/ SystemFails
  BY <1>4, FailsMaps
<1>5. CASE SelectReady
  BY <1>5, SelectReadyMaps
<1>6. CASE SelectTimeout
  BY <1>6, SelectTimeoutMaps
<1>7. CASE TermSelectReady \/ TermSelectTimeout
  BY <1>7, TermSelectMaps
<1>8. CASE \E m \in Messages : ModemSend(m)
  BY <1>8, ModemSendMaps
<1>9. CASE \E k \in 1..Len(flight) : Deliver(k)
  BY <1>9, DeliverMaps
<1>10. CASE ModemClose \/ ModemReset
  BY <1>10, ModemGoneMaps
<1>11. CASE Tick
  BY <1>11, TickMaps
<1>12. CASE UNCHANGED vars
  <2>1. UNCHANGED <<phase, pc, ret, peer, sent, flight, stream, cur, bufType, out, accepted>>
    BY <1>12 DEF vars, control, network, buffer, history
  <2>2. ReaderInv'
    BY <2>1 DEF ReaderInv, BufferHolds, NotCutUp, StillToCome, Whole, FrameEnd, Unread
  <2> QED
    BY <2>1, <2>2 DEF Abstract!vars
<1> QED
  BY <1>1, <1>2, <1>3, <1>4, <1>5, <1>6, <1>7, <1>8, <1>9, <1>10, <1>11, <1>12
     DEF Next, RouterStep, Receive, Select, ModemStep

\* The message buffer, the queues and the termination state are as recv_message()
\* and term_session() take them to be.
THEOREM ReaderInvariance == Spec => []ReaderInv
<1>1. Init => ReaderInv
  BY InitMaps
<1>2. IInv /\ IInv' /\ ReaderInv /\ [Next]_vars => ReaderInv'
  BY NextMaps
<1> QED
  BY <1>1, <1>2, Invariance, PTL DEF Spec

\* However the bytes of the modem's messages arrive, session() handles them as a
\* queue, one at a time and in order; it answers each request in the step that
\* handles it, blames only the message at the head of the queue, writes nothing
\* after a termination and succeeds only after having exchanged one.
THEOREM Refinement == Spec => KeepsPromise
<1>1. Init => Abstract!Init
  BY InitMaps
<1>2. IInv /\ IInv' /\ ReaderInv /\ [Next]_vars => [Abstract!Next]_(Abstract!vars)
  BY NextMaps
<1> QED
  BY <1>1, <1>2, Invariance, ReaderInvariance, PTL DEF Spec, KeepsPromise, Abstract!Spec

-----------------------------------------------------------------------------
(* What the abstract session's steps keep: its goodbyes.                   *)

\* No goodbye among the messages.
NoGoodbye(s) == \A i \in 1..Len(s) : ~IsGoodbye(s[i])

\* What is added to a sequence of messages is its last element.
LEMMA Appended ==
  ASSUME NEW s \in Seq(OutMessage), NEW o \in OutMessage
  PROVE  /\ Append(s, o) \in Seq(OutMessage)
         /\ Append(s, o) # <<>> /\ Append(s, o)[Len(Append(s, o))] = o
         /\ Len(Append(s, o)) = Len(s) + 1
         /\ \A i \in 1..Len(s) : Append(s, o)[i] = s[i]
<1>1. /\ Append(s, o) \in Seq(OutMessage) /\ Len(Append(s, o)) = Len(s) + 1
      /\ \A i \in 1..Len(s) : Append(s, o)[i] = s[i]
      /\ Append(s, o)[Len(s) + 1] = o
  BY AppendProperties
<1> QED
  BY <1>1

\* One more message that is no goodbye leaves none among them.
LEMMA AppendNoGoodbye ==
  ASSUME NEW s \in Seq(OutMessage), NEW o \in OutMessage, NoGoodbye(s), ~IsGoodbye(o)
  PROVE  NoGoodbye(Append(s, o))
<1>1. /\ Len(Append(s, o)) = Len(s) + 1 /\ Len(s) \in Nat
      /\ \A i \in 1..Len(s) : Append(s, o)[i] = s[i]
      /\ Append(s, o)[Len(s) + 1] = o
  BY AppendProperties
<1>2. \A i \in 1..(Len(s) + 1) : i \in 1..Len(s) \/ i = Len(s) + 1
  BY <1>1
<1> QED
  BY <1>1, <1>2 DEF NoGoodbye

\* A session whose last message is no goodbye owes nothing yet.
LEMMA NothingSaid ==
  ASSUME NEW o, NEW s \in Seq(OutMessage), NoGoodbye(s), out' = s,
         ret' # "ok", phase' # "term", phase' # "ended" => ret' = "none"
  PROVE  GoodbyeInv'
<1>1. Len(s) \in Nat
  OBVIOUS
<1>2. s # <<>> => ~IsGoodbye(s[Len(s)])
  <2>1. s # <<>> => Len(s) \in 1..Len(s)
    BY <1>1
  <2> QED
    BY <2>1 DEF NoGoodbye
<1>3. LastWord'
  <2>1. \A i \in 1..(Len(s) - 1) : i \in 1..Len(s)
    BY <1>1
  <2> QED
    BY <2>1 DEF LastWord, NoGoodbye
<1>4. SuccessMeansGoodbye' /\ TermRespAnswersTerm'
  BY <1>2 DEF SuccessMeansGoodbye, TermRespAnswersTerm, IsGoodbye
<1> QED
  BY <1>3, <1>4 DEF GoodbyeInv, NoGoodbye

\* A goodbye is the last message of a history that held none.
LEMMA GoodbyeLast ==
  ASSUME NEW s \in Seq(OutMessage), NEW o \in OutMessage, NoGoodbye(s), IsGoodbye(o),
         out' = Append(s, o)
  PROVE  /\ LastWord' /\ out' # <<>> /\ out'[Len(out')] = o
         /\ SuccessMeansGoodbye'
<1>1. out' # <<>> /\ out'[Len(out')] = o
  BY Appended, Zenon
<1>2. /\ Len(out') = Len(s) + 1 /\ \A i \in 1..Len(s) : out'[i] = s[i]
      /\ (Len(s) + 1) - 1 = Len(s)
  BY Appended
<1>3. LastWord'
  BY <1>2 DEF LastWord, NoGoodbye
<1> QED
  BY <1>1, <1>3 DEF SuccessMeansGoodbye

\* The messages of the abstract session, and what they are not.
LEMMA AbstractOutputs ==
  /\ Abstract!Beat \in OutMessage /\ ~IsGoodbye(Abstract!Beat)
  /\ \A sc \in Nat : /\ Abstract!Term(sc) \in OutMessage /\ IsGoodbye(Abstract!Term(sc))
                     /\ Abstract!Term(sc).type = SESSION_TERM
<1>1. Abstract!Beat = Output(PEER_HEARTBEAT, NoDest, 0)
  BY SameNumbers DEF Abstract!Beat, Abstract!Output, Output
<1>2. \A sc : Abstract!Term(sc) = Output(SESSION_TERM, NoDest, sc)
  BY SameNumbers DEF Abstract!Term, Abstract!Output, Output
<1>3. Abstract!Beat \in OutMessage
  BY <1>1, OutputOK DEF PEER_HEARTBEAT
<1>4. \A sc \in Nat : Abstract!Term(sc) \in OutMessage
  BY <1>2, OutputOK DEF SESSION_TERM
<1>5. ~IsGoodbye(Abstract!Beat)
  BY <1>1 DEF IsGoodbye, Output, PEER_HEARTBEAT, SESSION_TERM, SESSION_TERM_RESP
<1>6. \A sc : IsGoodbye(Abstract!Term(sc)) /\ Abstract!Term(sc).type = SESSION_TERM
  BY <1>2 DEF IsGoodbye, Output
<1> QED
  BY <1>3, <1>4, <1>5, <1>6

\* A termination is said once and the session waits for the answer, or it is over.
LEMMA TerminateSays ==
  ASSUME NEW sc \in Nat, NEW s \in Seq(OutMessage), NoGoodbye(s), ret = "none",
         Abstract!Terminate(sc, s)
  PROVE  GoodbyeInv'
<1>1. CASE out' = Append(s, Abstract!Term(sc)) /\ phase' = "term" /\ ret' = ret
  <2>1. /\ LastWord' /\ out' # <<>> /\ out'[Len(out')] = Abstract!Term(sc)
        /\ SuccessMeansGoodbye'
    BY <1>1, AbstractOutputs, GoodbyeLast
  <2>2. out'[Len(out')].type = SESSION_TERM
    BY <2>1, AbstractOutputs
  <2>3. TermRespAnswersTerm'
    BY <2>2 DEF TermRespAnswersTerm, SESSION_TERM, SESSION_TERM_RESP
  <2> QED
    BY <1>1, <2>1, <2>2, <2>3 DEF GoodbyeInv
<1>2. CASE out' = s /\ Abstract!GiveUp
  BY <1>2, NothingSaid DEF Abstract!GiveUp, Abstract!Finish
<1> QED
  BY <1>1, <1>2 DEF Abstract!Terminate

\* Before the goodbyes.
LEMMA StillTalking ==
  ASSUME IInv, GoodbyeInv, phase \in {"idle", "init", "in"}
  PROVE  out \in Seq(OutMessage) /\ NoGoodbye(out) /\ ret = "none"
BY DEF IInv, TypeOK, GoodbyeInv, NoGoodbye

\* session() opens.
LEMMA OpenSays ==
  ASSUME IInv, GoodbyeInv, Abstract!Open
  PROVE  GoodbyeInv'
<1>1. out \in Seq(OutMessage) /\ NoGoodbye(out) /\ ret = "none"
  BY StillTalking DEF Abstract!Open
<1>2. CASE phase' = "init" /\ ret' = ret
           /\ out' = <<Abstract!Output(Abstract!SESSION_INIT, NoDest, 0)>>
  <2> DEFINE o == Output(SESSION_INIT, NoDest, 0)
  <2>1. out' = <<o>> /\ o \in OutMessage
    BY <1>2, SameNumbers, OutputOK DEF Abstract!Output, Output, SESSION_INIT
  <2>2. ~IsGoodbye(o)
    BY DEF IsGoodbye, Output, SESSION_INIT, SESSION_TERM, SESSION_TERM_RESP
  <2> HIDE DEF o
  <2>3. <<o>> \in Seq(OutMessage) /\ NoGoodbye(<<o>>)
    BY <2>1, <2>2 DEF NoGoodbye
  <2> QED
    BY <1>1, <1>2, <2>1, <2>3, NothingSaid
<1>3. CASE phase' = "ended" /\ out' = out /\ ret' \in {"fail", "killed"}
  BY <1>1, <1>3, NothingSaid
<1> QED
  BY <1>2, <1>3 DEF Abstract!Open

\* A message is accepted, served or refused.
LEMMA AcceptSays ==
  ASSUME IInv, GoodbyeInv, Abstract!Accept
  PROVE  GoodbyeInv'
<1>1. out \in Seq(OutMessage) /\ NoGoodbye(out) /\ ret = "none"
  BY StillTalking DEF Abstract!Accept
<1>2. CASE phase' = "in" /\ UNCHANGED <<ret, out>>
  BY <1>1, <1>2, NothingSaid
<1>3. CASE Abstract!Terminate(SC_SHUTDOWN, out)
  BY <1>1, <1>3, TerminateSays DEF SC_SHUTDOWN
<1> QED
  BY <1>2, <1>3, SameNumbers DEF Abstract!Accept

\* A message blamed is answered by a termination.
LEMMA BlameSays ==
  ASSUME IInv, GoodbyeInv, NEW sc \in Nat, Abstract!Blame(sc)
  PROVE  GoodbyeInv'
<1>1. out \in Seq(OutMessage) /\ NoGoodbye(out) /\ ret = "none"
  BY StillTalking DEF Abstract!Blame
<1> QED
  BY <1>1, TerminateSays DEF Abstract!Blame

\* An answer to a request is typed, and no goodbye.
LEMMA AnswerTyped ==
  ASSUME NEW m \in Messages
  PROVE  Owed(m) \in OutMessage /\ ~IsGoodbye(Owed(m)) /\ Owed(m) \in ResponseMessages
<1>1. m \in Message /\ m.dest \in Dest \cup {NoDest}
  BY MessagesAssumption DEF Message
<1>2. ResponseTo(m.type) \in {DEST_UP_RESP, DEST_DOWN_RESP}
  BY DEF ResponseTo
<1>3. Owed(m) \in OutMessage
  BY <1>1, <1>2, OutputOK DEF Owed, DEST_UP_RESP, DEST_DOWN_RESP, SC_SUCCESS
<1>4. Owed(m).type = ResponseTo(m.type)
  BY DEF Owed, Output
<1>5. ~IsGoodbye(Owed(m))
  BY <1>2, <1>4
     DEF IsGoodbye, DEST_UP_RESP, DEST_DOWN_RESP, SESSION_TERM, SESSION_TERM_RESP
<1> QED
  BY <1>2, <1>3, <1>4, <1>5 DEF ResponseMessages

\* The first message not handled is one of the modem's.
LEMMA FirstTyped ==
  ASSUME IInv, Abstract!Pending
  PROVE  /\ Abstract!First \in Messages
         /\ Len(accepted) + 1 \in DOMAIN sent
         /\ Abstract!First = sent[Len(accepted) + 1]
<1>1. Len(accepted) \in Nat /\ Len(sent) \in Nat /\ sent \in Seq(Messages)
  BY NetworkFacts
<1>2. Len(accepted) + 1 \in 1..Len(sent)
  BY <1>1 DEF Abstract!Pending
<1>3. sent[Len(accepted) + 1] \in Messages /\ DOMAIN sent = 1..Len(sent)
  BY <1>1, <1>2
<1> QED
  BY <1>2, <1>3 DEF Abstract!First

\* What serving a message writes is the answer owed.
LEMMA ServeWrites ==
  ASSUME Abstract!Serve
  PROVE  out' \in {out, Append(out, Owed(Abstract!First))}
<1>1. Abstract!Output(Abstract!ResponseTo(Abstract!First.type), Abstract!First.dest,
                      Abstract!SC_SUCCESS) = Owed(Abstract!First)
  BY SameNumbers, SamePartition DEF Abstract!Output, Owed, Output
<1> QED
  BY <1>1 DEF Abstract!Serve, Abstract!Writes

\* An acknowledgement is no goodbye.
LEMMA ServeSays ==
  ASSUME IInv, GoodbyeInv, Abstract!Serve
  PROVE  GoodbyeInv'
<1>1. out \in Seq(OutMessage) /\ NoGoodbye(out) /\ ret = "none"
  BY StillTalking DEF Abstract!Serve
<1>2. Abstract!First \in Messages
  BY FirstTyped DEF Abstract!Serve
<1>3. out' \in Seq(OutMessage) /\ NoGoodbye(out')
  BY <1>1, <1>2, ServeWrites, AnswerTyped, Appended, AppendNoGoodbye
<1>4. /\ ret' \in {ret, "killed"} /\ phase' \in {"in", "ended"}
      /\ phase' # "ended" => ret' = ret
  BY DEF Abstract!Serve, Abstract!GoOn, Abstract!Finish
<1> QED
  BY <1>1, <1>3, <1>4, NothingSaid

\* The modem's termination is acknowledged by a Session Termination Response.
LEMMA AcknowledgeSays ==
  ASSUME IInv, GoodbyeInv, Abstract!Acknowledge
  PROVE  GoodbyeInv'
<1>1. out \in Seq(OutMessage) /\ NoGoodbye(out) /\ ret = "none"
  BY StillTalking DEF Abstract!Acknowledge
<1>2. CASE peer = "reset" /\ out' = out /\ Abstract!GiveUp
  BY <1>1, <1>2, NothingSaid DEF Abstract!GiveUp, Abstract!Finish
<1>3. CASE peer # "reset" /\ phase' = "ended" /\ ret' = "ok"
           /\ Abstract!Writes(Abstract!Output(Abstract!SESSION_TERM_RESP, NoDest, 0))
  <2> DEFINE o == Output(SESSION_TERM_RESP, NoDest, 0)
  <2>1. o = Abstract!Output(Abstract!SESSION_TERM_RESP, NoDest, 0)
    BY SameNumbers DEF Output, Abstract!Output
  <2>2. out' = Append(out, o)
    BY <1>3, <2>1 DEF Abstract!Writes
  <2>3. o \in OutMessage /\ IsGoodbye(o)
    BY OutputOK DEF IsGoodbye, Output, SESSION_TERM_RESP
  <2> HIDE DEF o
  <2>4. LastWord' /\ out' # <<>> /\ SuccessMeansGoodbye'
    BY <1>1, <2>2, <2>3, GoodbyeLast
  <2>5. TermRespAnswersTerm'
    <3>1. /\ Len(accepted) + 1 \in DOMAIN sent
          /\ sent[Len(accepted) + 1].type = SESSION_TERM
      BY FirstTyped, SameNumbers DEF Abstract!Acknowledge
    <3>2. sent' = sent /\ accepted' \in {accepted, Append(accepted, Abstract!First)}
      BY DEF Abstract!Acknowledge
    <3>3. Len(accepted') \in {Len(accepted), Len(accepted) + 1}
      BY <3>2, FirstTyped, NetworkFacts, AppendProperties DEF Abstract!Acknowledge
    <3>4. Len(accepted) + 1 \in {Len(accepted'), Len(accepted') + 1} \cap DOMAIN sent'
      BY <3>1, <3>2, <3>3
    <3> QED
      BY <3>1, <3>2, <3>4 DEF TermRespAnswersTerm
  <2> QED
    BY <1>3, <2>4, <2>5 DEF GoodbyeInv
<1> QED
  BY <1>2, <1>3 DEF Abstract!Acknowledge, Abstract!Finish

\* A heartbeat is no goodbye; the termination after it is.
LEMMA HeartbeatSays ==
  ASSUME IInv, GoodbyeInv, Abstract!Heartbeat
  PROVE  GoodbyeInv'
<1>1. out \in Seq(OutMessage) /\ NoGoodbye(out) /\ ret = "none"
  BY StillTalking DEF Abstract!Heartbeat
<1>2. out' \in {out, Append(out, Abstract!Beat)}
  BY DEF Abstract!Heartbeat
<1>3. out' \in Seq(OutMessage) /\ NoGoodbye(out')
  BY <1>1, <1>2, AbstractOutputs, Appended, AppendNoGoodbye
<1>4. /\ ret' \in {ret, "killed"} /\ phase' \in {"in", "ended"}
      /\ phase' # "ended" => ret' = ret
  BY DEF Abstract!Heartbeat, Abstract!GoOn, Abstract!Finish
<1> QED
  BY <1>1, <1>3, <1>4, NothingSaid

\* A silent modem is told so in a termination.
LEMMA TimeOutSays ==
  ASSUME IInv, GoodbyeInv, Abstract!TimeOut
  PROVE  GoodbyeInv'
<1>1. out \in Seq(OutMessage) /\ NoGoodbye(out) /\ ret = "none"
  BY StillTalking DEF Abstract!TimeOut
<1>2. /\ Append(out, Abstract!Beat) \in Seq(OutMessage)
      /\ NoGoodbye(Append(out, Abstract!Beat))
  BY <1>1, AbstractOutputs, Appended, AppendNoGoodbye
<1>3. SC_TIMEDOUT \in Nat /\ Abstract!SC_TIMEDOUT = SC_TIMEDOUT
  BY SameNumbers DEF SC_TIMEDOUT
<1>4. CASE Abstract!Terminate(SC_TIMEDOUT, out)
  BY <1>1, <1>3, <1>4, TerminateSays
<1>5. CASE Abstract!Terminate(SC_TIMEDOUT, Append(out, Abstract!Beat))
  BY <1>1, <1>2, <1>3, <1>5, TerminateSays
<1> QED
  BY <1>3, <1>4, <1>5 DEF Abstract!TimeOut

\* Once the goodbye is said nothing is added to it.
LEMMA NothingAdded ==
  ASSUME GoodbyeInv, phase = "term", out' = out,
         phase' \in {"term", "ended"}, phase' = "term" => ret' = "none"
  PROVE  GoodbyeInv'
<1>1. out # <<>> /\ out[Len(out)].type = SESSION_TERM /\ LastWord
  BY DEF GoodbyeInv
<1>2. LastWord' /\ SuccessMeansGoodbye'
  BY <1>1 DEF LastWord, SuccessMeansGoodbye, IsGoodbye
<1>3. TermRespAnswersTerm'
  BY <1>1 DEF TermRespAnswersTerm, SESSION_TERM, SESSION_TERM_RESP
<1> QED
  BY <1>1, <1>2, <1>3 DEF GoodbyeInv

\* The session is given up, or its modem goes on.
LEMMA SilentSteps ==
  ASSUME IInv, GoodbyeInv, Abstract!Fail \/ Abstract!ModemStep \/ Abstract!Answered
  PROVE  GoodbyeInv'
<1>1. /\ out' = out /\ phase \in Live
      /\ phase' # phase => phase' = "ended"
      /\ phase' # "ended" => ret' = ret
      /\ ret' = "ok" => ret = "ok" \/ phase = "term"
  BY DEF Abstract!Fail, Abstract!ModemStep, Abstract!Answered, Abstract!Finish,
         Abstract!Live, Live
<1>2. ret = "none"
  BY <1>1 DEF GoodbyeInv, Live
<1>3. CASE phase = "term"
  BY <1>1, <1>2, <1>3, NothingAdded
<1>4. CASE phase # "term"
  <2>1. phase \in {"init", "in"}
    BY <1>1, <1>4 DEF Live
  <2>2. out \in Seq(OutMessage) /\ NoGoodbye(out)
    BY <2>1, StillTalking
  <2> QED
    BY <1>1, <1>2, <2>1, <2>2, NothingSaid
<1> QED
  BY <1>3, <1>4

\* Every step of the abstract session keeps the goodbyes in order.
LEMMA GoodbyesKept ==
  ASSUME IInv, GoodbyeInv, [Abstract!Next]_(Abstract!vars)
  PROVE  GoodbyeInv'
<1>1. CASE Abstract!Open
  BY <1>1, OpenSays
<1>2. CASE Abstract!Accept
  BY <1>2, AcceptSays
<1>3. CASE Abstract!Serve
  BY <1>3, ServeSays
<1>4. CASE Abstract!Acknowledge
  BY <1>4, AcknowledgeSays
<1>5. CASE Abstract!Heartbeat
  BY <1>5, HeartbeatSays
<1>6. CASE Abstract!TimeOut
  BY <1>6, TimeOutSays
<1>7. CASE Abstract!Fail \/ Abstract!ModemStep \/ Abstract!Answered
  BY <1>7, SilentSteps
<1>8. CASE \E sc \in {SC_UNKNOWN_MESSAGE, SC_UNEXPECTED_MESSAGE, SC_INVALID_DATA} :
             Abstract!Blame(sc)
  BY <1>8, BlameSays DEF SC_UNKNOWN_MESSAGE, SC_UNEXPECTED_MESSAGE, SC_INVALID_DATA
<1>9. CASE UNCHANGED Abstract!vars
  BY <1>9 DEF Abstract!vars, GoodbyeInv, LastWord, SuccessMeansGoodbye, TermRespAnswersTerm
<1> QED
  BY <1>1, <1>2, <1>3, <1>4, <1>5, <1>6, <1>7, <1>8, <1>9, SameNumbers
     DEF Abstract!Next

\* Before connect() nothing has been said.
LEMMA GoodbyeStarts == Init => GoodbyeInv
<1> SUFFICES ASSUME Init PROVE GoodbyeInv
  OBVIOUS
<1>1. /\ out = <<>> /\ ret = "none" /\ phase = "idle" /\ Len(<<>>) = 0
  BY DEF Init
<1> QED
  BY <1>1 DEF GoodbyeInv, LastWord, SuccessMeansGoodbye, TermRespAnswersTerm

\* How far the goodbyes have come, phase by phase: none while in_session() goes on,
\* a termination as the last word while term_session() waits, and no result before
\* session() returns.  The invariant behind the three theorems below.
THEOREM Goodbyes == Spec => []GoodbyeInv
<1>1. IInv /\ IInv' /\ ReaderInv /\ GoodbyeInv /\ [Next]_vars => GoodbyeInv'
  BY NextMaps, GoodbyesKept
<1> QED
  BY <1>1, GoodbyeStarts, Invariance, ReaderInvariance, PTL DEF Spec

\* send_session_term() and send_session_term_resp() have the last word: whatever
\* the modem does, in_session() writes no heartbeat, answer or second termination
\* after either.
THEOREM Farewell == Spec => []LastWord
<1>1. GoodbyeInv => LastWord
  BY DEF GoodbyeInv
<1> QED
  BY <1>1, Goodbyes, PTL

\* session() returns 0 only when the last thing it wrote was a termination or the
\* acknowledgement of one: a lost connection, a bad message and an error of the
\* system are never taken for an orderly end.
THEOREM SuccessIsAgreed == Spec => []SuccessMeansGoodbye
<1>1. GoodbyeInv => SuccessMeansGoodbye
  BY DEF GoodbyeInv
<1> QED
  BY <1>1, Goodbyes, PTL

\* A Session Termination Response is written for a Session Termination of the
\* modem that stands where handle_message() found it, and for nothing else.
THEOREM GoodbyeAnswered == Spec => []TermRespAnswersTerm
<1>1. GoodbyeInv => TermRespAnswersTerm
  BY DEF GoodbyeInv
<1> QED
  BY <1>1, Goodbyes, PTL

-----------------------------------------------------------------------------
(* What Among() picks out of a history that grows.                         *)

\* A set of numbers that holds 0 and the successor of each of its own holds all.
LEMMA Induction ==
  ASSUME NEW T, T \subseteq Nat, 0 \in T, \A n \in T : n + 1 \in T
  PROVE  T = Nat
<1> SUFFICES ASSUME T # Nat PROVE FALSE
  OBVIOUS
<1>1. PICK x \in Nat \ T : \A y \in Nat \ T : <<y, x>> \notin OpToRel(<, Nat)
  <2>1. Nat \ T # {} /\ Nat \ T \subseteq Nat
    OBVIOUS
  <2> QED
    BY <2>1, NatLessThanWellFounded, WFMin
<1>2. x # 0 /\ x - 1 \in Nat /\ (x - 1) + 1 = x
  OBVIOUS
<1>3. x - 1 \in Nat \ T
  BY <1>2
<1>4. <<x - 1, x>> \in OpToRel(<, Nat)
  BY <1>2 DEF OpToRel
<1> QED
  BY <1>1, <1>3, <1>4

\* The function that Among() is read off, for the first m elements.
Filters(f, s, S, m) ==
  /\ f = [n \in 0..m |-> f[n]]
  /\ f[0] = <<>>
  /\ \A n \in 1..m : f[n] = IF s[n] \in S THEN Append(f[n - 1], s[n]) ELSE f[n - 1]

\* There is one,
LEMMA FilterExists ==
  ASSUME NEW s, NEW S, NEW m \in Nat
  PROVE  \E f : Filters(f, s, S, m)
<1> DEFINE T == {k \in Nat : \E f : Filters(f, s, S, k)}
<1>1. 0 \in T
  <2>1. Filters([n \in 0..0 |-> <<>>], s, S, 0)
    BY DEF Filters
  <2> QED
    BY <2>1
<1>2. ASSUME NEW k \in T PROVE k + 1 \in T
  <2>1. PICK f : Filters(f, s, S, k)
    OBVIOUS
  <2> DEFINE g == [n \in 0..(k + 1) |->
                     IF n <= k THEN f[n]
                     ELSE IF s[n] \in S THEN Append(f[n - 1], s[n]) ELSE f[n - 1]]
  <2>2. g = [n \in 0..(k + 1) |-> g[n]]
    OBVIOUS
  <2>3. g[0] = <<>>
    BY <2>1 DEF Filters
  <2>4. ASSUME NEW n \in 1..(k + 1)
        PROVE  g[n] = IF s[n] \in S THEN Append(g[n - 1], s[n]) ELSE g[n - 1]
    <3>1. n - 1 \in 0..k /\ n \in 0..(k + 1)
      OBVIOUS
    <3>2. g[n - 1] = f[n - 1]
      BY <3>1
    <3>3. CASE n <= k
      <4>1. n \in 1..k /\ g[n] = f[n]
        BY <3>1, <3>3
      <4> HIDE DEF g
      <4> QED
        BY <2>1, <3>2, <4>1 DEF Filters
    <3>4. CASE ~(n <= k)
      <4>1. g[n] = IF s[n] \in S THEN Append(f[n - 1], s[n]) ELSE f[n - 1]
        BY <3>1, <3>4
      <4> HIDE DEF g
      <4> QED
        BY <3>2, <4>1
    <3> QED
      BY <3>3, <3>4
  <2> HIDE DEF g
  <2>5. Filters(g, s, S, k + 1)
    BY <2>2, <2>3, <2>4 DEF Filters
  <2> QED
    BY <2>5
<1> HIDE DEF T
<1>3. T \subseteq Nat
  BY DEF T
<1>4. T = Nat
  BY <1>1, <1>2, <1>3, Induction
<1> QED
  BY <1>4 DEF T

\* and only one.
LEMMA FilterUnique ==
  ASSUME NEW s, NEW t, NEW S, NEW m \in Nat, NEW k \in Nat, NEW f, NEW g,
         Filters(f, s, S, m), Filters(g, t, S, k), m <= k,
         \A i \in 1..m : s[i] = t[i]
  PROVE  f[m] = g[m]
<1> DEFINE T == {n \in Nat : n <= m => f[n] = g[n]}
<1>1. 0 \in T
  BY DEF Filters
<1>2. ASSUME NEW n \in T PROVE n + 1 \in T
  <2> SUFFICES ASSUME n + 1 <= m PROVE f[n + 1] = g[n + 1]
    OBVIOUS
  <2>1. n \in Nat /\ f[n] = g[n] /\ n + 1 \in 1..m /\ n + 1 \in 1..k /\ (n + 1) - 1 = n
    OBVIOUS
  <2>2. f[n + 1] = IF s[n + 1] \in S THEN Append(f[n], s[n + 1]) ELSE f[n]
    BY <2>1 DEF Filters
  <2>3. g[n + 1] = IF t[n + 1] \in S THEN Append(g[n], t[n + 1]) ELSE g[n]
    BY <2>1 DEF Filters
  <2> QED
    BY <2>1, <2>2, <2>3
<1> HIDE DEF T
<1>3. T \subseteq Nat
  BY DEF T
<1>4. T = Nat
  BY <1>1, <1>2, <1>3, Induction
<1> QED
  BY <1>4 DEF T

\* Among() reads its value off it.
LEMMA AmongFilters ==
  ASSUME NEW s, NEW S, Len(s) \in Nat
  PROVE  \E f : Filters(f, s, S, Len(s)) /\ Among(s, S) = f[Len(s)]
<1> DEFINE F(f) == f = [n \in 0..Len(s) |->
                     IF n = 0 THEN <<>>
                     ELSE IF s[n] \in S THEN Append(f[n - 1], s[n]) ELSE f[n - 1]]
           c == CHOOSE f : F(f)
<1> DEFINE m == Len(s)
           E(f, n) == IF n = 0 THEN <<>>
                      ELSE IF s[n] \in S THEN Append(f[n - 1], s[n]) ELSE f[n - 1]
<1>0. m \in Nat
  OBVIOUS
<1>1. ASSUME NEW f PROVE Filters(f, s, S, m) <=> F(f)
  <2> HIDE DEF m
  <2>1. ASSUME Filters(f, s, S, m) PROVE f = [n \in 0..m |-> E(f, n)]
    <3>1. f = [n \in 0..m |-> f[n]]
      BY <2>1 DEF Filters
    <3>2. \A n \in 0..m : f[n] = E(f, n)
      <4>1. f[0] = E(f, 0)
        BY <2>1 DEF Filters
      <4>2. ASSUME NEW n \in 1..m PROVE f[n] = E(f, n)
        BY <1>0, <2>1 DEF Filters
      <4>3. \A n \in 0..m : n = 0 \/ n \in 1..m
        BY <1>0
      <4> HIDE DEF E
      <4> QED
        BY <4>1, <4>2, <4>3
    <3> HIDE DEF E
    <3> QED
      BY <3>1, <3>2
  <2>2. ASSUME f = [n \in 0..m |-> E(f, n)] PROVE Filters(f, s, S, m)
    <3>1. \A n \in 0..m : f[n] = E(f, n)
      <4> HIDE DEF E
      <4> QED
        BY <2>2
    <3>2. f = [n \in 0..m |-> f[n]]
      <4> HIDE DEF E
      <4> QED
        BY <2>2
    <3>3. f[0] = <<>>
      BY <1>0, <3>1
    <3>4. \A n \in 1..m : n \in 0..m /\ n # 0
      BY <1>0
    <3> QED
      BY <3>1, <3>2, <3>3, <3>4 DEF Filters
  <2> QED
    BY <2>1, <2>2 DEF m
<1>2. PICK f : Filters(f, s, S, Len(s))
  BY FilterExists
<1>3. F(f)
  BY <1>1, <1>2
<1>4. F(c)
  BY <1>3
<1>5. Among(s, S) = c[Len(s)]
  BY DEF Among
<1> HIDE DEF c, F
<1> QED
  BY <1>1, <1>4, <1>5

\* It keeps elements of the sequence alone, and
LEMMA AmongType ==
  ASSUME NEW A, NEW s \in Seq(A), NEW S
  PROVE  Among(s, S) \in Seq(A)
<1> DEFINE m == Len(s)
<1>0. m \in Nat /\ \A i \in 1..m : s[i] \in A
  OBVIOUS
<1>1. PICK f : Filters(f, s, S, m) /\ Among(s, S) = f[m]
  BY <1>0, AmongFilters
<1> HIDE DEF m
<1> DEFINE T == {n \in Nat : n <= m => f[n] \in Seq(A)}
<1>2. 0 \in T
  <2>1. <<>> \in Seq(A)
    OBVIOUS
  <2> QED
    BY <1>1, <2>1 DEF Filters
<1>3. ASSUME NEW n \in T PROVE n + 1 \in T
  <2> SUFFICES ASSUME n + 1 <= m PROVE f[n + 1] \in Seq(A)
    OBVIOUS
  <2>1. n \in Nat /\ f[n] \in Seq(A) /\ n + 1 \in 1..m /\ (n + 1) - 1 = n
    BY <1>0
  <2>2. f[n + 1] = IF s[n + 1] \in S THEN Append(f[n], s[n + 1]) ELSE f[n]
    BY <1>1, <2>1 DEF Filters
  <2>3. s[n + 1] \in A
    BY <1>0, <2>1
  <2>4. Append(f[n], s[n + 1]) \in Seq(A)
    BY <2>1, <2>3, AppendProperties
  <2> QED
    BY <2>1, <2>2, <2>4
<1> HIDE DEF T
<1>4. T \subseteq Nat
  BY DEF T
<1>5. T = Nat
  BY <1>2, <1>3, <1>4, Induction
<1> QED
  BY <1>0, <1>1, <1>5 DEF T

\* none of an empty one;
LEMMA AmongEmpty ==
  ASSUME NEW S
  PROVE  Among(<<>>, S) = <<>>
<1>1. PICK f : Filters(f, <<>>, S, Len(<<>>)) /\ Among(<<>>, S) = f[Len(<<>>)]
  BY AmongFilters
<1> QED
  BY <1>1 DEF Filters

\* and an element added is kept or not, the others as they were.
LEMMA AmongAppend ==
  ASSUME NEW A, NEW s \in Seq(A), NEW e \in A, NEW S
  PROVE  Among(Append(s, e), S) =
           IF e \in S THEN Append(Among(s, S), e) ELSE Among(s, S)
<1> DEFINE t == Append(s, e)
           m == Len(s)
<1>1. /\ m \in Nat /\ Len(t) = m + 1
      /\ \A i \in 1..m : t[i] = s[i]
      /\ t[m + 1] = e
  BY AppendProperties
<1>2. PICK f : Filters(f, s, S, m) /\ Among(s, S) = f[m]
  BY <1>1, AmongFilters
<1> HIDE DEF t, m
<1>3. PICK g : Filters(g, t, S, m + 1) /\ Among(t, S) = g[m + 1]
  BY <1>1, AmongFilters
<1>4. f[m] = g[m]
  BY <1>1, <1>2, <1>3, FilterUnique
<1>5. g[m + 1] = IF t[m + 1] \in S THEN Append(g[m], t[m + 1]) ELSE g[m]
  BY <1>1, <1>3 DEF Filters
<1> QED
  BY <1>1, <1>2, <1>3, <1>4, <1>5 DEF t

-----------------------------------------------------------------------------
(* What the abstract session's steps keep: its answers.                    *)

\* What the requests handled are owed, one after the other.
OwedFor(a) ==
  LET asked == Among(a, RequestMessages)
  IN  [i \in 1..Len(asked) |-> Owed(asked[i])]

\* One more request is owed one more answer.
LEMMA OwedAppend ==
  ASSUME NEW a \in Seq(Messages), NEW m \in Messages
  PROVE  OwedFor(Append(a, m)) =
           IF m.type \in Requests THEN Append(OwedFor(a), Owed(m)) ELSE OwedFor(a)
<1>1. m \in RequestMessages <=> m.type \in Requests
  BY DEF RequestMessages
<1>2. Among(Append(a, m), RequestMessages) =
        IF m \in RequestMessages THEN Append(Among(a, RequestMessages), m)
        ELSE Among(a, RequestMessages)
  BY AmongAppend
<1> DEFINE asked == Among(a, RequestMessages)
           more  == Append(asked, m)
<1>3. asked \in Seq(Messages)
  BY AmongType
<1> HIDE DEF asked
<1>4. /\ Len(asked) \in Nat /\ Len(more) = Len(asked) + 1
      /\ \A i \in 1..Len(asked) : more[i] = asked[i]
      /\ more[Len(asked) + 1] = m
  BY <1>3, AppendProperties
<1> DEFINE old == [i \in 1..Len(asked) |-> Owed(asked[i])]
           new == [i \in 1..Len(more) |-> Owed(more[i])]
<1>5. new = Append(old, Owed(m))
  <2>1. old \in Seq(OutMessage) /\ Len(old) = Len(asked)
    <3>1. \A i \in 1..Len(asked) : Owed(asked[i]) \in OutMessage
      BY <1>3, AnswerTyped
    <3> QED
      BY <1>4, <3>1
  <2>2. /\ Len(Append(old, Owed(m))) = Len(old) + 1
        /\ Append(old, Owed(m)) \in Seq(OutMessage)
        /\ \A i \in 1..Len(old) : Append(old, Owed(m))[i] = old[i]
        /\ Append(old, Owed(m))[Len(old) + 1] = Owed(m)
    BY <2>1, AnswerTyped, AppendProperties
  <2>3. new \in Seq(OutMessage) /\ Len(new) = Len(asked) + 1
    <3> HIDE DEF more
    <3>1. \A i \in 1..(Len(asked) + 1) : i \in 1..Len(asked) \/ i = Len(asked) + 1
      BY <1>4
    <3>2. \A i \in 1..Len(more) : more[i] \in Messages
      BY <1>3, <1>4, <3>1
    <3>3. \A i \in 1..Len(more) : Owed(more[i]) \in OutMessage
      BY <3>2, AnswerTyped
    <3> QED
      BY <1>4, <3>3
  <2>4. ASSUME NEW i \in 1..(Len(asked) + 1)
        PROVE  new[i] = Append(old, Owed(m))[i]
    <3> HIDE DEF more
    <3>1. new[i] = Owed(more[i])
      BY <1>4
    <3>2. CASE i \in 1..Len(asked)
      <4>1. old[i] = Owed(asked[i])
        BY <3>2
      <4> QED
        BY <1>4, <2>1, <2>2, <3>1, <3>2, <4>1
    <3>3. CASE i = Len(asked) + 1
      BY <1>4, <2>1, <2>2, <3>1, <3>3
    <3> QED
      BY <1>4, <3>2, <3>3
  <2> HIDE DEF new, old
  <2> QED
    BY <1>4, <2>1, <2>2, <2>3, <2>4, SeqEqual
<1>6. OwedFor(a) = old
  BY DEF OwedFor, asked
<1>7. CASE m.type \in Requests
  <2>1. Among(Append(a, m), RequestMessages) = more
    BY <1>1, <1>2, <1>7 DEF asked
  <2>2. OwedFor(Append(a, m)) = new
    BY <2>1, Zenon DEF OwedFor
  <2> HIDE DEF old, new
  <2> QED
    BY <1>5, <1>6, <1>7, <2>2
<1>8. CASE m.type \notin Requests
  <2>1. Among(Append(a, m), RequestMessages) = Among(a, RequestMessages)
    BY <1>1, <1>2, <1>8
  <2> QED
    BY <1>8, <2>1, Zenon DEF OwedFor
<1> QED
  BY <1>7, <1>8

\* What is no answer does not count as one.
LEMMA NoAnswer ==
  ASSUME NEW s \in Seq(OutMessage), NEW o \in OutMessage, o \notin ResponseMessages
  PROVE  Among(Append(s, o), ResponseMessages) = Among(s, ResponseMessages)
BY AmongAppend

\* A termination, an acknowledgement of one, a heartbeat and an initialization.
LEMMA NoResponses ==
  ASSUME NEW o, o.type \in {SESSION_INIT, SESSION_TERM, SESSION_TERM_RESP, PEER_HEARTBEAT}
  PROVE  o \notin ResponseMessages
BY DEF ResponseMessages, SESSION_INIT, SESSION_TERM, SESSION_TERM_RESP, PEER_HEARTBEAT,
       DEST_UP_RESP, DEST_DOWN_RESP

\* Answers, as the lemmas speak of it.
LEMMA AnswersMeans ==
  Answers <=> (peer # "reset" => Among(out, ResponseMessages) = OwedFor(accepted))
BY DEF Answers, OwedFor

\* A step that neither handles a request nor writes an answer.
LEMMA NothingOwed ==
  ASSUME Answers, NEW s \in Seq(OutMessage), out' = s,
         peer' # "reset" => peer # "reset",
         OwedFor(accepted') = OwedFor(accepted),
         Among(s, ResponseMessages) = Among(out, ResponseMessages)
  PROVE  Answers'
<1>1. (peer # "reset" => Among(out, ResponseMessages) = OwedFor(accepted))
  BY AnswersMeans
<1>2. peer' # "reset" => Among(out', ResponseMessages) = OwedFor(accepted')
  BY <1>1
<1> QED
  BY <1>2 DEF Answers, OwedFor

\* A termination is no answer.
LEMMA TerminateOwes ==
  ASSUME NEW sc \in Nat, NEW s \in Seq(OutMessage), Abstract!Terminate(sc, s)
  PROVE  /\ out' \in Seq(OutMessage)
         /\ Among(out', ResponseMessages) = Among(s, ResponseMessages)
<1>1. out' \in {s, Append(s, Abstract!Term(sc))}
  BY DEF Abstract!Terminate
<1>2. Abstract!Term(sc) \in OutMessage /\ Abstract!Term(sc) \notin ResponseMessages
  BY AbstractOutputs, NoResponses
<1> QED
  BY <1>1, <1>2, NoAnswer, Appended

\* A heartbeat is no answer.
LEMMA BeatOwes ==
  ASSUME NEW s \in Seq(OutMessage)
  PROVE  /\ Append(s, Abstract!Beat) \in Seq(OutMessage)
         /\ Among(Append(s, Abstract!Beat), ResponseMessages) = Among(s, ResponseMessages)
<1>1. Abstract!Beat.type = PEER_HEARTBEAT
  BY SameNumbers DEF Abstract!Beat, Abstract!Output
<1>2. Abstract!Beat \in OutMessage /\ Abstract!Beat \notin ResponseMessages
  BY <1>1, AbstractOutputs, NoResponses
<1> QED
  BY <1>2, NoAnswer, Appended

\* session() opens with no request handled.
LEMMA OpenOwes ==
  ASSUME IInv, Answers, Abstract!Open
  PROVE  Answers'
<1>1. out \in Seq(OutMessage)
  BY DEF IInv, TypeOK
<1>2. accepted = <<>> /\ accepted' = accepted
  BY DEF IInv, Control, Abstract!Open
<1>3. CASE out' = <<Abstract!Output(Abstract!SESSION_INIT, NoDest, 0)>>
  <2> DEFINE o == Output(SESSION_INIT, NoDest, 0)
  <2>1. out' = <<o>>
    BY <1>3, SameNumbers DEF Abstract!Output, Output
  <2>2. o \in OutMessage /\ o \notin ResponseMessages
    <3>1. o.type = SESSION_INIT /\ o \in OutMessage
      BY OutputOK DEF Output, SESSION_INIT
    <3> QED
      BY <3>1, NoResponses
  <2> HIDE DEF o
  <2>3. <<o>> = Append(<<>>, o) /\ <<>> \in Seq(OutMessage)
    OBVIOUS
  <2>4. Among(out', ResponseMessages) = <<>>
    BY <2>1, <2>2, <2>3, NoAnswer, AmongEmpty
  <2>5. OwedFor(accepted') = <<>>
    <3>1. Among(<<>>, RequestMessages) = <<>>
      BY AmongEmpty
    <3>2. OwedFor(<<>>) = [i \in 1..0 |-> Owed(<<>>[i])]
      BY <3>1 DEF OwedFor
    <3> QED
      BY <1>2, <3>2
  <2> QED
    BY <2>4, <2>5 DEF Answers, OwedFor
<1>4. CASE out' = out /\ (peer' = peer \/ peer' = "reset")
  BY <1>1, <1>2, <1>4, NothingOwed
<1> QED
  BY <1>3, <1>4 DEF Abstract!Open

\* A message that is no request is owed nothing.
LEMMA OtherOwes ==
  ASSUME IInv, Abstract!Pending, Abstract!First.type \notin Requests,
         accepted' \in {accepted, Append(accepted, Abstract!First)}
  PROVE  OwedFor(accepted') = OwedFor(accepted)
BY OwedAppend, FirstTyped, NetworkFacts

\* The initialization response is no request.
LEMMA AcceptOwes ==
  ASSUME IInv, Answers, Abstract!Accept
  PROVE  Answers'
<1>1. out \in Seq(OutMessage) /\ peer' = peer
  BY DEF IInv, TypeOK, Abstract!Accept
<1>2. OwedFor(accepted') = OwedFor(accepted)
  <2>1. Abstract!First.type = SESSION_INIT_RESP
    BY SameNumbers DEF Abstract!Accept
  <2>2. Abstract!First.type \notin Requests
    BY <2>1 DEF Requests, SESSION_INIT_RESP, DEST_UP, DEST_DOWN
  <2> QED
    BY <2>2, OtherOwes DEF Abstract!Accept
<1>3. CASE out' = out
  BY <1>1, <1>2, <1>3, NothingOwed
<1>4. CASE Abstract!Terminate(SC_SHUTDOWN, out)
  <2>1. SC_SHUTDOWN \in Nat
    BY DEF SC_SHUTDOWN
  <2> QED
    BY <1>1, <1>2, <1>4, <2>1, TerminateOwes, NothingOwed
<1> QED
  BY <1>3, <1>4, SameNumbers DEF Abstract!Accept

\* A request is answered in the step that handles it.
LEMMA ServeOwes ==
  ASSUME IInv, Answers, Abstract!Serve
  PROVE  Answers'
<1> DEFINE m == Abstract!First
<1>1. out \in Seq(OutMessage) /\ accepted \in Seq(Messages) /\ m \in Messages
  BY FirstTyped DEF IInv, TypeOK, Abstract!Serve
<1>2. peer' = peer /\ accepted' = Append(accepted, m)
  BY DEF Abstract!Serve
<1>3. CASE m.type \in Requests /\ peer # "reset"
  <2>1. out' = Append(out, Owed(m))
    BY <1>3, SameNumbers, SamePartition
       DEF Abstract!Serve, Abstract!Writes, Abstract!Output, Owed, Output
  <2> HIDE DEF m
  <2>2. Among(out', ResponseMessages) = Append(Among(out, ResponseMessages), Owed(m))
    BY <1>1, <2>1, AnswerTyped, AmongAppend
  <2>3. OwedFor(accepted') = Append(OwedFor(accepted), Owed(m))
    BY <1>1, <1>2, <1>3, OwedAppend
  <2>4. Among(out', ResponseMessages) = OwedFor(accepted')
    BY <1>3, <2>2, <2>3, AnswersMeans
  <2> QED
    BY <2>4 DEF Answers, OwedFor
<1>4. CASE m.type \notin Requests
  <2>1. out' = out
    BY <1>4, SamePartition DEF Abstract!Serve
  <2>2. OwedFor(accepted') = OwedFor(accepted)
    BY <1>2, <1>4, OtherOwes DEF Abstract!Serve
  <2> QED
    BY <1>1, <1>2, <2>1, <2>2, NothingOwed
<1>5. CASE peer = "reset"
  BY <1>2, <1>5 DEF Answers
<1> QED
  BY <1>3, <1>4, <1>5

\* A message blamed is neither handled nor answered.
LEMMA BlameOwes ==
  ASSUME IInv, Answers, NEW sc \in Nat, Abstract!Blame(sc)
  PROVE  Answers'
<1>1. out \in Seq(OutMessage) /\ UNCHANGED <<peer, accepted>>
  BY DEF IInv, TypeOK, Abstract!Blame
<1> QED
  BY <1>1, TerminateOwes, NothingOwed DEF Abstract!Blame

\* Neither is a termination a request, nor its acknowledgement an answer.
LEMMA AcknowledgeOwes ==
  ASSUME IInv, Answers, Abstract!Acknowledge
  PROVE  Answers'
<1>1. out \in Seq(OutMessage) /\ peer' = peer
  BY DEF IInv, TypeOK, Abstract!Acknowledge
<1>2. OwedFor(accepted') = OwedFor(accepted)
  <2>1. Abstract!First.type = SESSION_TERM
    BY SameNumbers DEF Abstract!Acknowledge
  <2>2. Abstract!First.type \notin Requests
    BY <2>1 DEF Requests, SESSION_TERM, DEST_UP, DEST_DOWN
  <2> QED
    BY <2>2, OtherOwes DEF Abstract!Acknowledge
<1> DEFINE o == Output(SESSION_TERM_RESP, NoDest, 0)
<1>3. out' \in {out, Append(out, o)}
  BY SameNumbers DEF Abstract!Acknowledge, Abstract!Writes, Abstract!Output, Output
<1>4. o \in OutMessage /\ o \notin ResponseMessages
  <2>1. o.type = SESSION_TERM_RESP /\ o \in OutMessage
    BY OutputOK DEF Output, SESSION_TERM_RESP
  <2> QED
    BY <2>1, NoResponses
<1> HIDE DEF o
<1>5. /\ out' \in Seq(OutMessage)
      /\ Among(out', ResponseMessages) = Among(out, ResponseMessages)
  BY <1>1, <1>3, <1>4, NoAnswer, Appended
<1> QED
  BY <1>1, <1>2, <1>5, NothingOwed

\* The timers handle no message and answer none.
LEMMA TimersOwe ==
  ASSUME IInv, Answers, Abstract!Heartbeat \/ Abstract!TimeOut
  PROVE  Answers'
<1>1. out \in Seq(OutMessage) /\ UNCHANGED <<peer, accepted>>
  BY DEF IInv, TypeOK, Abstract!Heartbeat, Abstract!TimeOut
<1>2. SC_TIMEDOUT \in Nat
  BY DEF SC_TIMEDOUT
<1>3. CASE out' \in {out, Append(out, Abstract!Beat)}
  BY <1>1, <1>3, BeatOwes, NothingOwed
<1>4. CASE Abstract!Terminate(SC_TIMEDOUT, out)
  BY <1>1, <1>2, <1>4, TerminateOwes, NothingOwed
<1>5. CASE Abstract!Terminate(SC_TIMEDOUT, Append(out, Abstract!Beat))
  BY <1>1, <1>2, <1>5, TerminateOwes, BeatOwes, NothingOwed
<1> QED
  BY <1>3, <1>4, <1>5, SameNumbers DEF Abstract!Heartbeat, Abstract!TimeOut

\* A modem that has reset the connection does not take it up again.
LEMMA SilentOwes ==
  ASSUME IInv, Answers,
         Abstract!Fail \/ Abstract!ModemStep \/ Abstract!Answered \/ UNCHANGED Abstract!vars
  PROVE  Answers'
<1>1. /\ out' = out /\ accepted' = accepted
      /\ peer' # "reset" => peer # "reset"
  BY DEF Abstract!Fail, Abstract!ModemStep, Abstract!Answered, Abstract!vars
<1>2. out \in Seq(OutMessage)
  BY DEF IInv, TypeOK
<1> QED
  BY <1>1, <1>2, NothingOwed

\* Every step of the abstract session keeps the answers in step with the requests.
LEMMA AnswersKept ==
  ASSUME IInv, Answers, [Abstract!Next]_(Abstract!vars)
  PROVE  Answers'
<1>1. CASE Abstract!Open
  BY <1>1, OpenOwes
<1>2. CASE Abstract!Accept
  BY <1>2, AcceptOwes
<1>3. CASE Abstract!Serve
  BY <1>3, ServeOwes
<1>4. CASE Abstract!Acknowledge
  BY <1>4, AcknowledgeOwes
<1>5. CASE Abstract!Heartbeat \/ Abstract!TimeOut
  BY <1>5, TimersOwe
<1>6. CASE \E sc \in {SC_UNKNOWN_MESSAGE, SC_UNEXPECTED_MESSAGE, SC_INVALID_DATA} :
             Abstract!Blame(sc)
  BY <1>6, BlameOwes DEF SC_UNKNOWN_MESSAGE, SC_UNEXPECTED_MESSAGE, SC_INVALID_DATA
<1>7. CASE Abstract!Fail \/ Abstract!ModemStep \/ Abstract!Answered
           \/ UNCHANGED Abstract!vars
  BY <1>7, SilentOwes
<1> QED
  BY <1>1, <1>2, <1>3, <1>4, <1>5, <1>6, <1>7, SameNumbers DEF Abstract!Next

\* Before connect() nothing is handled and nothing answered.
LEMMA AnswersStart == Init => Answers
<1> SUFFICES ASSUME Init PROVE Answers
  OBVIOUS
<1>1. out = <<>> /\ accepted = <<>>
  BY DEF Init
<1>2. Among(<<>>, ResponseMessages) = <<>> /\ Among(<<>>, RequestMessages) = <<>>
  BY AmongEmpty
<1>3. [i \in 1..Len(<<>>) |-> Owed(<<>>[i])] = <<>>
  OBVIOUS
<1> QED
  BY <1>1, <1>2, <1>3 DEF Answers

\* While the connection lasts, the Destination Up and Down Responses written answer
\* the requests handled, one each, in order and for the same destination, for any
\* number of messages: a proof over the length of the history.
THEOREM RequestsAnswered == Spec => []Answers
<1>1. IInv /\ IInv' /\ ReaderInv /\ Answers /\ [Next]_vars => Answers'
  BY NextMaps, AnswersKept
<1> QED
  BY <1>1, AnswersStart, Invariance, ReaderInvariance, PTL DEF Spec
=============================================================================
