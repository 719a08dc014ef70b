---------------------------- MODULE Backpressure ----------------------------
(***************************************************************************)
(* What in_session() and term_session() read and write, over a connection  *)
(* that holds only so much.  send() blocks while the modem leaves too much *)
(* unread; a modem of one thread, blocked in a send() of its own, reads    *)
(* nothing.  If both block they wait for each other for ever: neither has  *)
(* a timeout on send().                                                    *)
(*                                                                         *)
(* Session takes every send() to complete at once.  Here messages are only *)
(* counted, the clock may find a heartbeat due at any turn, and a message  *)
(* received may be any.                                                    *)
(***************************************************************************)
EXTENDS Naturals

CONSTANTS
  InCap,   \* the messages to the router that the connection holds
  OutCap,  \* those to the modem
  Unread   \* what the modem may leave unread when it begins to write

ASSUME CapacityAssumption ==
  InCap \in Nat \ {0} /\ OutCap \in Nat \ {0} /\ Unread \in Nat

VARIABLES
  pc,        \* the call the router is in, or what it is sending
  ready,     \* FD_ISSET() after the last select()
  toRouter,  \* messages on their way, unread
  toModem,
  modem      \* "free" to read and to begin to write, or "writing"

vars == <<pc, ready, toRouter, toModem, modem>>

Sending == {"heartbeat", "response", "terminate", "acknowledge"}

-----------------------------------------------------------------------------
\* send() completes when there is room.
Send == toModem < OutCap /\ toModem' = toModem + 1 /\ UNCHANGED <<toRouter, modem>>

Recv == toRouter > 0 /\ toRouter' = toRouter - 1 /\ UNCHANGED <<toModem, modem>>

\* A turn goes on to receive; or, on a timeout, waits again or gives the modem up.
Onward(isReady) == IF isReady THEN {"recv"} ELSE {"select", "terminate"}

\* select() returns, and the heartbeat may be due, message or not.
SelectReturns ==
  /\ pc = "select"
  /\ ready' = (toRouter > 0)
  /\ pc' \in {"heartbeat"} \cup Onward(toRouter > 0)
  /\ UNCHANGED <<toRouter, toModem, modem>>

SendHeartbeat_TurnsBack ==
  /\ pc = "heartbeat" /\ Send
  /\ pc' = "select"
  /\ UNCHANGED ready

SendHeartbeat ==
  /\ pc = "heartbeat" /\ Send
  /\ pc' \in Onward(ready)
  /\ UNCHANGED ready

\* handle_message(): nothing to say, a response, a termination, or the modem's own
\* to acknowledge.
Receive ==
  /\ pc = "recv" /\ Recv
  /\ pc' \in {"select", "response", "terminate", "acknowledge"}
  /\ UNCHANGED ready

Then(sending) == CASE sending = "response"    -> "select"
                   [] sending = "terminate"   -> "term"
                   [] sending = "acknowledge" -> "ended"

SendAnswer ==
  /\ pc \in {"response", "terminate", "acknowledge"} /\ Send
  /\ pc' = Then(pc)
  /\ UNCHANGED ready

\* The first message: the session begins, is given up, or is not worth a word.
ReceiveFirst ==
  /\ pc = "init" /\ Recv
  /\ pc' \in {"select", "terminate", "ended"}
  /\ UNCHANGED ready

\* term_session(): any message will do, or four intervals of silence.
TermReceive ==
  /\ pc = "term" /\ pc' = "ended"
  /\ Recv \/ (toRouter = 0 /\ UNCHANGED <<toRouter, toModem, modem>>)
  /\ UNCHANGED ready

-----------------------------------------------------------------------------
(* The modem.                                                              *)
BeginsToWrite ==
  /\ pc # "ended" /\ modem = "free" /\ toModem <= Unread
  /\ modem' = "writing"
  /\ UNCHANGED <<pc, ready, toRouter, toModem>>

Written ==
  /\ pc # "ended" /\ modem = "writing" /\ toRouter < InCap
  /\ modem' = "free" /\ toRouter' = toRouter + 1
  /\ UNCHANGED <<pc, ready, toModem>>

Reads ==
  /\ pc # "ended" /\ modem = "free" /\ toModem > 0
  /\ toModem' = toModem - 1
  /\ UNCHANGED <<pc, ready, toRouter, modem>>

-----------------------------------------------------------------------------
\* The Session Initialization has been sent.
Init ==
  /\ pc = "init" /\ ready = FALSE
  /\ toRouter = 0 /\ toModem = 1 /\ modem = "free"

RouterStep ==
  \/ SelectReturns \/ SendHeartbeat \/ Receive
  \/ SendAnswer \/ ReceiveFirst \/ TermReceive

Next == RouterStep \/ BeginsToWrite \/ Written \/ Reads

Spec == Init /\ [][Next]_vars

\* A call that may return does, on either side; the modem need never write.
Fairness == WF_vars(RouterStep) /\ WF_vars(Written) /\ WF_vars(Reads)

FairSpec == Spec /\ Fairness

-----------------------------------------------------------------------------
TypeOK ==
  /\ pc \in {"init", "select", "recv", "term", "ended"} \cup Sending
  /\ ready \in BOOLEAN
  /\ toRouter \in 0..InCap /\ toModem \in 0..OutCap
  /\ modem \in {"free", "writing"}

\* The modem's write waits for the router, which has yet to send and cannot.
Standoff ==
  /\ pc \in Sending /\ toModem = OutCap
  /\ modem = "writing" /\ toRouter = InCap

\* The router and the modem never block each other: a turn of in_session() sends
\* at most a heartbeat and one more message before it receives, so two messages
\* of room beyond what the modem leaves unread are enough.
NoStandoff == Unread + 2 <= OutCap => ~Standoff

\* The modem's write is always accepted, or the session over: the router comes
\* back to read however often its own sends block.
WritesComplete == (modem = "writing") ~> (modem = "free" \/ pc = "ended")

\* The calls a router makes, at the most, before it takes a message from a full
\* connection or its session is over.
CallsToReceive ==
  CASE pc = "ended"                                         -> 0
    [] pc \in {"init", "recv", "term", "acknowledge"}       -> 1
    [] pc = "terminate" \/ (pc = "heartbeat" /\ ready)      -> 2
    [] pc = "select"                                        -> 3
    [] pc = "response" \/ (pc = "heartbeat" /\ ~ready)      -> 4

\* A write the connection has no room for is not passed over: each call that returns
\* makes room for it or leaves the router fewer calls before the one that does.
RoomIsMade ==
  [][(modem = "writing" /\ toRouter = InCap) =>
       toRouter' < InCap \/ CallsToReceive' < CallsToReceive]_vars

\* What the router sends while a write has its half of the connection full, since
\* that write began.
SentSince ==
  IF pc \in {"init", "response", "acknowledge"} \/ (pc = "heartbeat" /\ ~ready) THEN 0
  ELSE IF pc \in {"heartbeat", "select", "terminate"} THEN 1
  ELSE 2

NoStandoffInv ==
  /\ TypeOK
  /\ modem = "writing" /\ toRouter = InCap => toModem <= Unread + SentSince
=============================================================================
