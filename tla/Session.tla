------------------------------ MODULE Session ------------------------------
(***************************************************************************)
(* One DLEP session, src/session.c: session() connects, sends Session      *)
(* Initialization and waits for the response; in_session() serves the      *)
(* modem's messages and watches two heartbeat timers; term_session()       *)
(* waits for the answer to a Session Termination.                          *)
(*                                                                         *)
(* The router is one thread that blocks in select() or in recv().  TCP is  *)
(* a sequence of bytes: recv() returns what has arrived, up to what was    *)
(* asked for.  A byte is a cell [n, at], byte number "at" of the modem's   *)
(* n-th message; what the bytes spell is read off the history "sent".      *)
(* The modem is arbitrary: it sends any messages, closes or resets.        *)
(***************************************************************************)
EXTENDS Dlep, Clock, Sequences

CONSTANTS
  Dest,        \* the destinations (MAC addresses) a message may be about
  Messages,    \* what a modem may send
  NoMessage,   \* no header has been read
  NoDest,      \* the message is about no destination
  router_heartbeat_interval,
  Word,        \* interval arithmetic wraps here; 2^32 in the program
  AgeCap,      \* clocks count up to here, past every deadline
  MaxSent,     \* bound on the modem's messages
  Segmented,   \* TRUE: TCP may deliver part of a message at a time
  Urgent       \* TRUE: time passes only while the router has nothing to do

\* A message: the header's type and length; whether its data items are valid;
\* and the items the session reads: destination, heartbeat interval and status.
Message == [type : Nat, len : Nat, ok : BOOLEAN,
            dest : Dest \cup {NoDest}, hb : Nat, sc : Nat]

\* check_heartbeat_interval() refuses an interval of 0.
ASSUME MessagesAssumption ==
  /\ Messages \subseteq Message
  /\ \A m \in Messages : m.type = SESSION_INIT_RESP /\ m.ok => m.hb > 0
  /\ NoMessage \notin Messages

ASSUME NumbersAssumption ==
  /\ {router_heartbeat_interval, AgeCap, MaxSent} \subseteq Nat
  /\ Word \in Nat \ {0}
  /\ {Segmented, Urgent} \subseteq BOOLEAN

ASSUME AgeCapAssumption ==
  /\ AgeCap > router_heartbeat_interval * TicksPerSec
  /\ \A m \in Messages : /\ AgeCap > ((m.hb * 4) % Word) * TicksPerSec
                         /\ AgeCap > ((m.hb * 2) % Word) * TicksPerSec
                         /\ AgeCap > m.hb * 4

VARIABLES
  phase,      \* "idle", "init", "in", "term" or "ended"
  pc,         \* where it blocks: "select", "header" or "body" of recv_message
  ret,        \* session()'s result: "none", "ok" (0), "fail" (-1), or "killed"
  peer,       \* the modem's end: "none", "open", "closed" or "reset"
  sent,       \* the messages the modem has written
  flight,     \* bytes on their way
  stream,     \* bytes in the router's receive queue
  cur,        \* the message whose header is read and whose body is awaited
  bufType,    \* the type field the message buffer holds
  out,        \* the messages the router has written, a run of heartbeats as one
  accepted,   \* the modem's messages handled as valid
  modem_heartbeat_interval,
  timeout,    \* what is left of select()'s timeout, which select() updates
  recvAge, sentAge, nowAge,  \* time since last_recv_time, last_sent_time, now_time
  quiet       \* time since the router last finished handling a message

control == <<phase, pc, ret>>
network == <<peer, sent, flight>>
buffer  == <<cur, bufType>>
history == <<out, accepted>>
timers  == <<modem_heartbeat_interval, timeout, recvAge, sentAge>>
vars    == <<control, network, stream, buffer, history, timers, nowAge, quiet>>

Live    == {"init", "in", "term"}
Cell    == [n : Nat \ {0}, at : Nat]
OutMessage == [type : Nat, dest : Dest \cup {NoDest}, sc : Nat]
Least(a, b) == IF a < b THEN a ELSE b
Older(age)  == Least(age + 1, AgeCap)

TypeOK ==
  /\ phase \in Live \cup {"idle", "ended"}
  /\ pc \in {"none", "select", "header", "body"}
  /\ ret \in {"none", "ok", "fail", "killed"}
  /\ peer \in {"none", "open", "closed", "reset"}
  /\ sent \in Seq(Messages)
  /\ flight \in Seq(Cell) /\ stream \in Seq(Cell)
  /\ cur \in Messages \cup {NoMessage}
  /\ bufType \in Nat
  /\ out \in Seq(OutMessage)
  /\ accepted \in Seq(Messages)
  /\ modem_heartbeat_interval \in Nat /\ timeout \in Nat
  /\ {recvAge, sentAge, nowAge, quiet} \subseteq 0..AgeCap

-----------------------------------------------------------------------------
(* What the router writes.  A blocking send() to a live connection writes  *)
(* the whole message.  After a reset it returns -1 (the pending error) or  *)
(* raises SIGPIPE, whose default action ends the process.                  *)

Output(type, dest, sc) == [type |-> type, dest |-> dest, sc |-> sc]

SendResults == IF peer = "reset" THEN {"failed", "sigpipe"} ELSE {"sent"}

After(result, msg, written) ==
  IF result = "sent" THEN Append(written, msg) ELSE written

Heartbeat == Output(PEER_HEARTBEAT, NoDest, 0)

HeartbeatDue_SinceReceived == Expired(recvAge, router_heartbeat_interval)

HeartbeatDue == Expired(sentAge, router_heartbeat_interval)

HeartbeatResults == IF HeartbeatDue THEN SendResults ELSE {"not due"}

AfterHeartbeat(result) ==
  IF out[Len(out)] = Heartbeat THEN out ELSE After(result, Heartbeat, out)

-----------------------------------------------------------------------------
(* session() returns: the socket is closed and its locals are gone.        *)
Return(r) ==
  /\ phase' = "ended" /\ pc' = "none" /\ ret' = r
  /\ UNCHANGED timers

Outcome(result) == CASE result = "sent"    -> "ok"
                     [] result = "sigpipe" -> "killed"
                     [] OTHER              -> "fail"

\* Enter the Session Termination state with a fresh clock.  The termination was
\* written in the message buffer, whose type field is not looked at any more.
TermSession(h) ==
  /\ phase' = "term" /\ pc' = "select" /\ timeout' = h /\ recvAge' = 0
  /\ modem_heartbeat_interval' = h
  /\ UNCHANGED <<ret, sentAge>>

\* realloc() may fail, then send() may; only then is the termination state entered.
SendSessionTerm(sc, h, written) ==
  \E result \in SendResults \cup {"no memory"} :
    /\ out' = After(result, Output(SESSION_TERM, NoDest, sc), written)
    /\ IF result = "sent" THEN TermSession(h) ELSE Return(Outcome(result))

-----------------------------------------------------------------------------
(* The validators of src/check.c, as far as the session depends on them:   *)
(* a message is valid when the bytes received are those its header reports *)
(* and its data items are in order.                                        *)
Verdict_NoLengthCheck(m, received) == IF m.ok THEN SC_SUCCESS ELSE SC_INVALID_DATA

Verdict(m, received) ==
  IF received = 4 + m.len /\ m.ok THEN SC_SUCCESS ELSE SC_INVALID_DATA

\* handle_message()'s switch on the message type.
StatusOf(m, received) ==
  CASE m.type \in Served     -> Verdict(m, received)
    [] m.type \in Unexpected -> SC_UNEXPECTED_MESSAGE
    [] m.type \notin Known   -> SC_UNKNOWN_MESSAGE
    [] OTHER                 -> SC_SUCCESS

InSession(h) ==
  /\ phase' = "in" /\ pc' = "select"
  /\ modem_heartbeat_interval' = h
  /\ timeout' = Least(h, router_heartbeat_interval)
  /\ recvAge' = 0 /\ sentAge' = 0
  /\ UNCHANGED ret

\* The first message: anything but a valid response ends the session at once.
InitResponse_AnyType(m, received) ==
  LET valid == Verdict(m, received) = SC_SUCCESS
  IN  /\ accepted' = IF valid THEN Append(accepted, m) ELSE accepted
      /\ \/ ~valid /\ Return("fail") /\ UNCHANGED out
         \/ valid /\ m.sc # SC_SUCCESS /\ SendSessionTerm(SC_SHUTDOWN, m.hb, out)
         \/ valid /\ m.sc = SC_SUCCESS /\ InSession(m.hb) /\ UNCHANGED out

InitResponse(m, received) ==
  LET valid == m.type = SESSION_INIT_RESP /\ Verdict(m, received) = SC_SUCCESS
  IN  /\ accepted' = IF valid THEN Append(accepted, m) ELSE accepted
      /\ \/ ~valid /\ Return("fail") /\ UNCHANGED out
         \/ valid /\ m.sc # SC_SUCCESS /\ SendSessionTerm(SC_SHUTDOWN, m.hb, out)
         \/ valid /\ m.sc = SC_SUCCESS /\ InSession(m.hb) /\ UNCHANGED out

\* last_recv_time = now_time, read before the message was received.
WaitAgain_Forgets(age) ==
  /\ pc' = "select" /\ recvAge' = recvAge
  /\ UNCHANGED <<phase, ret, modem_heartbeat_interval, timeout, sentAge>>

WaitAgain(age) ==
  /\ pc' = "select" /\ recvAge' = age
  /\ UNCHANGED <<phase, ret, modem_heartbeat_interval, timeout, sentAge>>

\* A valid message is logged; a destination coming up or down is acknowledged.
Serve_NoAddress(m) ==
  \E result \in IF m.type \in Requests THEN SendResults ELSE {"no answer"} :
    /\ out' = After(result, Output(ResponseTo(m.type), NoDest, SC_SUCCESS), out)
    /\ IF result = "sigpipe" THEN Return("killed") ELSE WaitAgain(nowAge)

Serve(m) ==
  \E result \in IF m.type \in Requests THEN SendResults ELSE {"no answer"} :
    /\ out' = After(result, Output(ResponseTo(m.type), m.dest, SC_SUCCESS), out)
    /\ IF result = "sigpipe" THEN Return("killed") ELSE WaitAgain(nowAge)

\* The modem ends the session: always acknowledged, valid or not.
Terminated_StaysOpen ==
  \E result \in SendResults :
    /\ out' = After(result, Output(SESSION_TERM_RESP, NoDest, 0), out)
    /\ IF result = "sent" THEN WaitAgain(nowAge) ELSE Return(Outcome(result))

Terminated ==
  \E result \in SendResults :
    /\ out' = After(result, Output(SESSION_TERM_RESP, NoDest, 0), out)
    /\ Return(Outcome(result))

HandleMessage_EitherTerm(m, received) ==
  LET sc == StatusOf(m, received)
      end == m.type \in {SESSION_TERM, SESSION_TERM_RESP}
  IN  /\ accepted' = IF sc = SC_SUCCESS /\ Verdict(m, received) = SC_SUCCESS
                       THEN Append(accepted, m) ELSE accepted
      /\ \/ end /\ Terminated
         \/ ~end /\ sc = SC_SUCCESS /\ Serve(m)
         \/ ~end /\ sc # SC_SUCCESS
            /\ SendSessionTerm(sc, modem_heartbeat_interval, out)

HandleMessage(m, received) ==
  LET sc == StatusOf(m, received)
  IN  /\ accepted' = IF sc = SC_SUCCESS /\ Verdict(m, received) = SC_SUCCESS
                       THEN Append(accepted, m) ELSE accepted
      /\ \/ m.type = SESSION_TERM /\ Terminated
         \/ m.type # SESSION_TERM /\ sc = SC_SUCCESS /\ Serve(m)
         \/ m.type # SESSION_TERM /\ sc # SC_SUCCESS
            /\ SendSessionTerm(sc, modem_heartbeat_interval, out)

\* Whatever arrives in the termination state, all of it or part, ends the session.
TermMessage == Return("ok") /\ UNCHANGED history

Received(m, received) ==
  /\ cur' = NoMessage /\ quiet' = 0
  /\ \/ phase = "init" /\ InitResponse(m, received)
     \/ phase = "in"   /\ HandleMessage(m, received)
     \/ phase = "term" /\ TermMessage

-----------------------------------------------------------------------------
(* The socket.                                                             *)
Eof == peer = "closed" /\ flight = <<>> /\ stream = <<>>

Readable == stream # <<>> \/ Eof \/ peer = "reset"

\* The header that starts at a cell; bytes out of step may spell any message.
Decode(cell) == IF cell.at = 0 THEN {sent[cell.n]} ELSE Messages

\* One byte of header leaves the low byte of the type as the last message left it.
HeaderType(m, received) ==
  IF received >= 2 THEN m.type ELSE (m.type \div 256) * 256 + (bufType % 256)

\* recv() of at most size bytes.
Take(size) ==
  /\ stream' = SubSeq(stream, size + 1, Len(stream))
  /\ UNCHANGED <<network, nowAge>>

RecvHeader ==
  LET size == Least(4, Len(stream)) IN
  /\ pc = "header" /\ stream # <<>>
  /\ Take(size)
  /\ \E m \in Decode(stream[1]) :
       LET type == HeaderType(m, size) IN
       /\ bufType' = type
       /\ IF size = 4 /\ m.len > 0
            THEN /\ pc' = "body" /\ cur' = m
                 /\ UNCHANGED <<phase, ret, history, timers, quiet>>
            ELSE Received([m EXCEPT !.type = type], size)

\* One recv() for the body; end of file counts as no bytes of it.  A reset
\* reads as end of file once a failed send() has taken the error.
RecvBody ==
  LET size == Least(cur.len, Len(stream)) IN
  /\ pc = "body"
  /\ stream # <<>> \/ Eof \/ (peer = "reset" /\ phase = "in")
  /\ Take(size)
  /\ Received(cur, 4 + size)
  /\ UNCHANGED bufType

RecvFails_Orderly ==
  /\ \/ pc = "header" /\ Eof
     \/ pc \in {"header", "body"} /\ peer = "reset" /\ stream = <<>>
  /\ Return(IF Eof THEN "ok" ELSE "fail")
  /\ UNCHANGED <<network, stream, buffer, history, nowAge, quiet>>

RecvFails_TriesAgain ==
  /\ \/ pc = "header" /\ Eof
     \/ pc \in {"header", "body"} /\ peer = "reset" /\ stream = <<>>
  /\ IF peer = "reset" THEN Return("fail")
     ELSE pc' = "select" /\ UNCHANGED <<phase, ret, timers>>
  /\ UNCHANGED <<network, stream, buffer, history, nowAge, quiet>>

RecvFails ==
  /\ \/ pc = "header" /\ Eof
     \/ pc \in {"header", "body"} /\ peer = "reset" /\ stream = <<>>
  /\ Return("fail")
  /\ UNCHANGED <<network, stream, buffer, history, nowAge, quiet>>

\* select() or realloc() fails.
SystemFails ==
  /\ pc \in {"select", "header"}
  /\ Return("fail")
  /\ UNCHANGED <<network, stream, buffer, history, nowAge, quiet>>

-----------------------------------------------------------------------------
(* connect() and the first send(), which the modem may already refuse.     *)
Connect ==
  /\ phase = "idle"
  /\ \/ /\ phase' = "init" /\ pc' = "header" /\ peer' = "open" /\ ret' = ret
        /\ out' = <<Output(SESSION_INIT, NoDest, 0)>>
     \/ /\ phase' = "ended" /\ pc' = pc /\ out' = out
        /\ \/ peer' = peer    /\ ret' = "fail"
           \/ peer' = "reset" /\ ret' \in {"fail", "killed"}
  /\ UNCHANGED <<sent, flight, stream, buffer, accepted, timers, nowAge, quiet>>

(* in_session()                                                            *)
SelectReady ==
  /\ phase = "in" /\ pc = "select" /\ Readable
  /\ \E result \in HeartbeatResults :
       /\ out' = AfterHeartbeat(result)
       /\ IF result = "sigpipe"
            THEN Return("killed")
            ELSE /\ pc' = "header"
                 /\ sentAge' = IF result = "not due" THEN sentAge ELSE 0
                 /\ UNCHANGED <<phase, ret, modem_heartbeat_interval, timeout, recvAge>>
  /\ nowAge' = 0
  /\ UNCHANGED <<network, stream, buffer, accepted, quiet>>

\* "check for 2 missed intervals"
InDeadline(h) == (h * 2) % Word

ModemSilent_ThisTurn == Expired(nowAge, InDeadline(modem_heartbeat_interval))

ModemSilent == Expired(recvAge, InDeadline(modem_heartbeat_interval))

\* select() times out, and what is then due is sent before anything else arrives.
SelectTimeout ==
  /\ phase = "in" /\ pc = "select" /\ timeout = 0 /\ ~Readable
  /\ \E result \in HeartbeatResults :
       IF ModemSilent
         THEN SendSessionTerm(SC_TIMEDOUT, modem_heartbeat_interval, AfterHeartbeat(result))
         ELSE /\ out' = AfterHeartbeat(result)
              /\ sentAge' = IF result = "not due" THEN sentAge ELSE 0
              /\ UNCHANGED <<control, modem_heartbeat_interval, timeout, recvAge>>
  /\ nowAge' = 0
  /\ UNCHANGED <<network, stream, buffer, accepted, quiet>>

(* term_session()                                                          *)
TermDeadline(h) == (h * 4) % Word

TermSilent_ThisTurn == Expired(nowAge, TermDeadline(modem_heartbeat_interval))

TermSilent == Expired(recvAge, TermDeadline(modem_heartbeat_interval))

TermSelectReady ==
  /\ phase = "term" /\ pc = "select" /\ Readable
  /\ pc' = "header" /\ nowAge' = 0
  /\ UNCHANGED <<phase, ret, network, stream, buffer, history, timers, quiet>>

TermSelectTimeout ==
  /\ phase = "term" /\ pc = "select" /\ timeout = 0 /\ ~Readable
  /\ IF TermSilent THEN Return("fail") ELSE UNCHANGED <<control, timers>>
  /\ nowAge' = 0
  /\ UNCHANGED <<network, stream, buffer, history, quiet>>

-----------------------------------------------------------------------------
(* Time.  The router has nothing to do when the call it blocks in does not *)
(* return, or, with select()'s timeout used up, when a turn of its loop    *)
(* finds no timer expired.                                                 *)
NothingDue == ~HeartbeatDue /\ ~ModemSilent

Idle ==
  \/ pc = "select" /\ ~Readable
     /\ (timeout = 0 => IF phase = "in" THEN NothingDue ELSE ~TermSilent)
  \/ pc \in {"header", "body"} /\ stream = <<>> /\ ~Eof /\ peer # "reset"

Tick ==
  /\ phase \in Live
  /\ Urgent => Idle
  /\ timeout' = IF pc = "select" /\ timeout > 0 THEN timeout - 1 ELSE timeout
  /\ recvAge' = Older(recvAge) /\ sentAge' = Older(sentAge)
  /\ nowAge' = Older(nowAge) /\ quiet' = Older(quiet)
  /\ UNCHANGED <<control, network, stream, buffer, history, modem_heartbeat_interval>>

-----------------------------------------------------------------------------
(* The modem and the network.                                              *)
Bytes(n, m) == [i \in 1..(4 + m.len) |-> [n |-> n, at |-> i - 1]]

ModemSend(m) ==
  /\ phase \in Live /\ peer = "open" /\ Len(sent) < MaxSent
  /\ sent' = Append(sent, m)
  /\ flight' = flight \o Bytes(Len(sent) + 1, m)
  /\ UNCHANGED <<control, peer, stream, buffer, history, timers, nowAge, quiet>>

Deliver(k) ==
  /\ phase \in Live
  /\ Segmented \/ k = Len(flight)
  /\ stream' = stream \o SubSeq(flight, 1, k)
  /\ flight' = SubSeq(flight, k + 1, Len(flight))
  /\ UNCHANGED <<control, peer, sent, buffer, history, timers, nowAge, quiet>>

ModemClose ==
  /\ phase \in Live /\ peer = "open"
  /\ peer' = "closed"
  /\ UNCHANGED <<control, sent, flight, stream, buffer, history, timers, nowAge, quiet>>

\* A reset discards what is on its way, not what has arrived.
ModemReset ==
  /\ phase \in Live /\ peer \in {"open", "closed"}
  /\ peer' = "reset" /\ flight' = <<>>
  /\ UNCHANGED <<control, sent, stream, buffer, history, timers, nowAge, quiet>>

-----------------------------------------------------------------------------
Init ==
  /\ phase = "idle" /\ pc = "none" /\ ret = "none"
  /\ peer = "none" /\ sent = <<>> /\ flight = <<>> /\ stream = <<>>
  /\ cur = NoMessage /\ bufType = 0
  /\ out = <<>> /\ accepted = <<>>
  /\ modem_heartbeat_interval = 0 /\ timeout = 0
  /\ recvAge = 0 /\ sentAge = 0 /\ nowAge = 0 /\ quiet = 0

Receive == RecvHeader \/ RecvBody \/ RecvFails

Select == SelectReady \/ SelectTimeout \/ TermSelectReady \/ TermSelectTimeout

RouterStep == Connect \/ Receive \/ Select \/ SystemFails

ModemStep ==
  \/ \E m \in Messages : ModemSend(m)
  \/ \E k \in 1..Len(flight) : Deliver(k)
  \/ ModemClose
  \/ ModemReset

Next == RouterStep \/ ModemStep \/ Tick

Spec == Init /\ [][Next]_vars

\* The process is scheduled and time passes; the modem owes nothing.
Fairness ==
  /\ WF_vars(Connect) /\ WF_vars(Receive) /\ WF_vars(Select)
  /\ WF_vars(Tick)

FairSpec == Spec /\ Fairness

-----------------------------------------------------------------------------
(* What the session owes its peer and its caller.                          *)

\* However TCP cuts the stream up, the messages recv_message() hands over as
\* valid are the ones the modem wrote: none lost, repeated, reordered or made
\* of two halves.
InOrder ==
  /\ Len(accepted) <= Len(sent)
  /\ \A i \in 1..Len(accepted) : accepted[i] = sent[i]

\* The elements of s that are in S, in the order of s.
Among(s, S) ==
  LET upto[n \in 0..Len(s)] ==
        IF n = 0 THEN <<>>
        ELSE IF s[n] \in S THEN Append(upto[n - 1], s[n]) ELSE upto[n - 1]
  IN  upto[Len(s)]

RequestMessages  == {m \in Messages : m.type \in Requests}
ResponseMessages == {o \in OutMessage : o.type \in {DEST_UP_RESP, DEST_DOWN_RESP}}
Owed(m)          == Output(ResponseTo(m.type), m.dest, SC_SUCCESS)

\* While the connection lasts, the Destination Up and Down Responses written by
\* parse_destination_up_message() and parse_destination_down_message() answer
\* the requests handled so far, one each, in order and for the same destination.
Answers ==
  LET asked == Among(accepted, RequestMessages)
  IN  peer # "reset" =>
        Among(out, ResponseMessages) = [i \in 1..Len(asked) |-> Owed(asked[i])]

IsGoodbye(o) == o.type \in {SESSION_TERM, SESSION_TERM_RESP}

\* send_session_term() and send_session_term_resp() have the last word: no
\* heartbeat, response or second termination is written after either.
LastWord == \A i \in 1..(Len(out) - 1) : ~IsGoodbye(out[i])

\* session() returns 0, on which main() starts over, only after a termination
\* was exchanged; a lost connection is never taken for an orderly end.
SuccessMeansGoodbye ==
  ret = "ok" => out # <<>> /\ IsGoodbye(out[Len(out)])

\* A Session Termination Response answers a Session Termination of the modem,
\* the first message not handled before it, and nothing else.
TermRespAnswersTerm ==
  (out # <<>> /\ out[Len(out)].type = SESSION_TERM_RESP) =>
    \E n \in {Len(accepted), Len(accepted) + 1} \cap (DOMAIN sent) :
      sent[n].type = SESSION_TERM

\* The session is given up for silence only after more time without a message than
\* in_session() checks for: two heartbeat intervals, as it says, short of a wrap.
TimeoutMeansSilence ==
  [][(Len(out') > Len(out) /\ out'[Len(out')] = Output(SESSION_TERM, NoDest, SC_TIMEDOUT))
       => /\ quiet > InDeadline(modem_heartbeat_interval) * TicksPerSec
          /\ 2 * modem_heartbeat_interval < Word => quiet > 2 * modem_heartbeat_interval]_vars

\* A modem that goes on sending nothing, or that is gone, does not hold the
\* router in the in-session state for ever.
SilenceEndsSession ==
  (phase = "in" /\ (Len(sent) = MaxSent \/ peer # "open")) ~> (phase # "in")

\* Where a timer that is looked at from the end of select()'s timeout on expires at
\* the latest: at that end, or in the tick after its interval of seconds is over.
Latest(wait, limit) ==
  LET expired == limit * TicksPerSec + 1 IN IF expired < wait THEN wait ELSE expired

\* select()'s timeout in in_session(), which is set once, before the loop.
Wait == Least(modem_heartbeat_interval, router_heartbeat_interval)

\* While every message arrives whole, in_session() is late with neither timer: its
\* own heartbeat goes out, and a silent modem is given up, in the millisecond after
\* interval_compare() calls the time over, or, of an interval whose double wraps, as
\* soon as select()'s timeout is used up.  Polling from then on costs it nothing
\* but the processor.
InSessionInTime ==
  phase = "in" =>
    /\ sentAge <= router_heartbeat_interval * TicksPerSec + 1
    /\ quiet <= Latest(Wait, InDeadline(modem_heartbeat_interval))

\* Nor does term_session() wait longer, whatever four intervals come to in 32 bits,
\* for an answer that does not come: it looks at one message, and only if its header
\* came alone does it wait for the rest with no timer running.
TerminationInTime ==
  phase = "term" =>
    recvAge <= Latest(modem_heartbeat_interval, TermDeadline(modem_heartbeat_interval))

\* No timer of the session is found late, in whichever loop it is in: although the
\* timeout is set once for all of a loop's turns, and whatever interval a modem states.
DeadlinesKept == InSessionInTime /\ TerminationInTime

\* A modem that is gone ends the session from wherever the router stands, even
\* while it awaits the first response, where no timer runs.
GoneEndsSession ==
  (phase \in Live /\ (Eof \/ peer = "reset")) ~> (phase = "ended")

\* What is left to do for a router whose modem is gone: bytes to read, and at most
\* two calls for each of them.
Gone == Eof \/ peer = "reset"

CallsLeft ==
  IF phase \notin Live THEN 0
  ELSE 1 + 3 * Len(stream) + (CASE pc = "body"   -> 2
                                [] pc = "select" -> 1
                                [] OTHER         -> 0)

\* It comes about step by step: from then on the modem stays gone, and whatever the
\* router does next, reading, answering, giving up or failing, brings its end nearer.
GoneForGood ==
  [][(phase \in Live /\ Gone) =>
       /\ Gone'
       /\ CallsLeft' < CallsLeft \/ UNCHANGED <<control, stream, buffer, history>>]_vars

\* term_session() always returns.
TerminationEnds == (phase = "term") ~> (phase = "ended")

\* The session as its peer and its caller see it: a queue of messages handled in
\* order, each answered as it is handled, and one goodbye (SessionAbs).  Bytes,
\* buffers, blocking and clocks are the implementation's own business.
Abstract == INSTANCE SessionAbs
KeepsPromise == Abstract!Spec
=============================================================================
