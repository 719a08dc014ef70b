----------------------------- MODULE SessionInv -----------------------------
(***************************************************************************)
(* The inductive invariant behind Session's ordering property: at every    *)
(* moment the bytes not yet read, those received and those on their way,   *)
(* are whole messages in the order the modem wrote them, but for the first *)
(* one, of which a part may have been read; and, as long as the session    *)
(* goes on, that part is exactly what recv_message() has consumed.  With   *)
(* it, what the implementation of SessionAbs rests on besides.             *)
(***************************************************************************)
EXTENDS Session

\* The bytes not yet read: those received, then those on their way.
Unread == stream \o flight

\* Where, in the bytes b of the messages msgs, the message of byte i ends.
FrameEnd(b, msgs, i) == i + 3 + msgs[b[i].n].len - b[i].at

CellsOf(b, msgs) ==
  \A i \in 1..Len(b) : /\ b[i].n \in 1..Len(msgs)
                       /\ b[i].at <= 3 + msgs[b[i].n].len

\* Byte after byte of one message, and then the next message from its start.
Contiguous(b, msgs) ==
  \A i \in 1..Len(b) :
    /\ \A j \in i..Len(b) :
         j <= FrameEnd(b, msgs, i) => b[j] = [n |-> b[i].n, at |-> b[i].at + (j - i)]
    /\ FrameEnd(b, msgs, i) < Len(b) =>
         b[FrameEnd(b, msgs, i) + 1] = [n |-> b[i].n + 1, at |-> 0]

\* Nothing is missing at the end.
Complete(b, msgs) ==
  \A i \in 1..Len(b) :
    /\ FrameEnd(b, msgs, i) <= Len(b)
    /\ FrameEnd(b, msgs, i) = Len(b) => b[i].n = Len(msgs)

\* A reset discards the end of what was on its way.
Framed ==
  /\ CellsOf(Unread, sent) /\ Contiguous(Unread, sent)
  /\ peer # "reset" => Complete(Unread, sent)

\* Between messages the next byte starts the first message not yet handled.
AlignedAtHeader ==
  (phase \in {"init", "in"} /\ pc \in {"select", "header"}) =>
    /\ Len(Unread) > 0 => Unread[1] = [n |-> Len(accepted) + 1, at |-> 0]
    /\ Len(Unread) = 0 /\ peer # "reset" => Len(accepted) = Len(sent)

\* Within a message, the four bytes of its header are gone.
AlignedAtBody ==
  (phase \in {"init", "in"} /\ pc = "body") =>
    /\ Len(accepted) < Len(sent)
    /\ cur = sent[Len(accepted) + 1] /\ cur.len > 0
    /\ Len(Unread) > 0 => Unread[1] = [n |-> Len(accepted) + 1, at |-> 4]
    /\ Len(Unread) = 0 => peer = "reset"

Control ==
  /\ phase = "idle" => stream = <<>> /\ flight = <<>> /\ sent = <<>> /\ accepted = <<>>
  /\ pc = "body" => cur \in Messages
  /\ pc # "none" => phase \in Live

\* Nothing is on its way to a router whose connection was reset.
Discarded == phase \in Live /\ peer = "reset" => flight = <<>>

IInv ==
  /\ TypeOK /\ InOrder /\ Control
  /\ Framed /\ AlignedAtHeader /\ AlignedAtBody

-----------------------------------------------------------------------------
(* The part of a message that the buffer and the queue may hold.           *)

\* The buffer's type field, on which a header of one byte falls back: the last
\* message served, which was no Session Termination, or the one being read.
BufferHolds ==
  /\ phase = "in" /\ pc \in {"select", "header"} =>
       bufType \in Served \cup {SESSION_INIT_RESP}
  /\ phase \in {"init", "in"} /\ pc = "body" => bufType = cur.type

Whole(b, msgs) == \A i \in 1..Len(b) : FrameEnd(b, msgs, i) <= Len(b)

\* Messages that arrive whole stay whole until they are read.
NotCutUp ==
  ~Segmented =>
    /\ Whole(stream, sent) /\ Whole(flight, sent)
    /\ phase \in {"init", "in"} /\ pc = "body" => stream # <<>>

\* What is received after a termination was written was not handled before it.
StillToCome ==
  phase = "term" =>
    Len(accepted) < Len(sent) \/ (Len(Unread) = 0 /\ pc # "body")

ReaderInv == BufferHolds /\ NotCutUp /\ StillToCome

-----------------------------------------------------------------------------
(* How far the goodbyes have come, phase by phase.                         *)

GoodbyeInv ==
  /\ LastWord /\ SuccessMeansGoodbye /\ TermRespAnswersTerm
  /\ phase \in {"idle", "init", "in"} => \A i \in 1..Len(out) : ~IsGoodbye(out[i])
  /\ phase = "term" => out # <<>> /\ out[Len(out)].type = SESSION_TERM
  /\ phase # "ended" => ret = "none"

-----------------------------------------------------------------------------
(* The timers of in_session() and term_session(), while nothing keeps the  *)
(* router waiting inside a message.                                        *)
Prompt == ~Segmented /\ Urgent

\* What is left of select()'s timeout never reaches past the wait it was set for;
\* with none left, every turn of the loop looks at the age.
OnTime(age, left, wait, limit) ==
  IF left > 0 THEN age + left <= wait ELSE age <= Latest(wait, limit)

\* The clock is read after select() and the message is there by then, so that
\* last_recv_time is as recent as the message, and time passes in select() alone.
InSessionTimers ==
  phase = "in" =>
    /\ recvAge = quiet
    /\ pc = "header" => Readable
    /\ pc # "select" => nowAge = 0
    /\ OnTime(sentAge, timeout, Wait, router_heartbeat_interval)
    /\ OnTime(quiet, timeout, Wait, InDeadline(modem_heartbeat_interval))

\* The same of term_session(), which looks at one message more: the next byte
\* starts it, or it is there behind its header.
TermTimers ==
  phase = "term" =>
    /\ pc # "body" /\ Len(Unread) > 0 => Unread[1].at = 0
    /\ pc = "header" => Readable
    /\ pc = "body" => stream # <<>>
    /\ OnTime(recvAge, timeout, modem_heartbeat_interval,
              TermDeadline(modem_heartbeat_interval))

TimersInv == InSessionTimers /\ TermTimers
=============================================================================
