----------------------------- MODULE SessionAbs -----------------------------
(***************************************************************************)
(* What a session promises, without bytes, buffers, blocking calls or      *)
(* clocks: the modem's messages are a queue, handled one at a time from    *)
(* its head; each request handled is answered in the step that handles it; *)
(* a message is blamed only if it stands at the head of the queue; a       *)
(* termination is the last thing written; and only a session that has      *)
(* exchanged one returns "ok".  Session.tla implements this.               *)
(***************************************************************************)
EXTENDS Dlep, Sequences

CONSTANTS Messages, NoDest, MaxSent,
          Segmented  \* TRUE: a message may be cut short and so blamed wrongly

VARIABLES phase, ret, peer, sent, accepted, out

vars == <<phase, ret, peer, sent, accepted, out>>

Live == {"init", "in", "term"}

Output(type, dest, sc) == [type |-> type, dest |-> dest, sc |-> sc]
Beat     == Output(PEER_HEARTBEAT, NoDest, 0)
Term(sc) == Output(SESSION_TERM, NoDest, sc)

Init ==
  /\ phase = "idle" /\ ret = "none" /\ peer = "none"
  /\ sent = <<>> /\ accepted = <<>> /\ out = <<>>

Pending == Len(accepted) < Len(sent)
First   == sent[Len(accepted) + 1]

\* The status a message deserves once all of it is there.
Deserved(m) ==
  CASE m.type \in Unexpected -> SC_UNEXPECTED_MESSAGE
    [] m.type \notin Known   -> SC_UNKNOWN_MESSAGE
    [] OTHER                 -> IF m.ok THEN SC_SUCCESS ELSE SC_INVALID_DATA

Finish(r) == phase' = "ended" /\ ret' = r
GiveUp    == Finish("fail") \/ (peer = "reset" /\ Finish("killed"))
GoOn      == UNCHANGED <<phase, ret>>

\* What "out" may be after a write: a reset peer reads nothing more.
Writes(o)  == out' = IF peer = "reset" THEN out ELSE Append(out, o)
Terminate(sc, written) ==
  \/ peer # "reset" /\ out' = Append(written, Term(sc)) /\ phase' = "term" /\ ret' = ret
  \/ out' = written /\ GiveUp

Open ==
  /\ phase = "idle"
  /\ \/ phase' = "init" /\ peer' = "open" /\ ret' = ret
        /\ out' = <<Output(SESSION_INIT, NoDest, 0)>>
     \/ phase' = "ended" /\ out' = out
        /\ \/ peer' = peer    /\ ret' = "fail"
           \/ peer' = "reset" /\ ret' \in {"fail", "killed"}
  /\ UNCHANGED <<sent, accepted>>

\* The first message must be a valid Session Initialization Response.
Accept ==
  /\ phase = "init" /\ Pending
  /\ First.type = SESSION_INIT_RESP /\ First.ok
  /\ accepted' = Append(accepted, First)
  /\ \/ First.sc = SC_SUCCESS /\ phase' = "in" /\ UNCHANGED <<ret, out>>
     \/ First.sc # SC_SUCCESS /\ Terminate(SC_SHUTDOWN, out)
  /\ UNCHANGED <<peer, sent>>

Serve ==
  /\ phase = "in" /\ Pending
  /\ First.type \in Served /\ First.ok
  /\ accepted' = Append(accepted, First)
  /\ IF First.type \in Requests
       THEN /\ Writes(Output(ResponseTo(First.type), First.dest, SC_SUCCESS))
            /\ GoOn \/ (peer = "reset" /\ Finish("killed"))
       ELSE out' = out /\ GoOn
  /\ UNCHANGED <<peer, sent>>

Blame(sc) ==
  /\ phase = "in" /\ Pending
  /\ First.type # SESSION_TERM \/ Segmented
  /\ Segmented \/ sc = Deserved(First)
  /\ Terminate(sc, out)
  /\ UNCHANGED <<peer, sent, accepted>>

\* The modem's own termination is always acknowledged.
Acknowledge ==
  /\ phase = "in" /\ Pending
  /\ First.type = SESSION_TERM
  /\ accepted' \in {accepted, Append(accepted, First)}
  /\ Segmented \/ (accepted' # accepted <=> First.ok)
  /\ \/ peer # "reset" /\ Writes(Output(SESSION_TERM_RESP, NoDest, 0)) /\ Finish("ok")
     \/ peer = "reset" /\ out' = out /\ GiveUp
  /\ UNCHANGED <<peer, sent>>

Heartbeat ==
  /\ phase = "in"
  /\ \/ peer # "reset" /\ out' = Append(out, Beat) /\ GoOn
     \/ peer = "reset" /\ out' = out /\ Finish("killed")
  /\ UNCHANGED <<peer, sent, accepted>>

TimeOut ==
  /\ phase = "in"
  /\ \/ Terminate(SC_TIMEDOUT, out)
     \/ peer # "reset" /\ Terminate(SC_TIMEDOUT, Append(out, Beat))
  /\ UNCHANGED <<peer, sent, accepted>>

\* After a termination anything the modem sends will do for an answer.
Answered ==
  /\ phase = "term" /\ Pending
  /\ Finish("ok")
  /\ UNCHANGED <<peer, sent, accepted, out>>

Fail ==
  /\ phase \in Live /\ Finish("fail")
  /\ UNCHANGED <<peer, sent, accepted, out>>

ModemStep ==
  /\ phase \in Live
  /\ \/ peer = "open" /\ Len(sent) < MaxSent /\ peer' = peer
        /\ \E m \in Messages : sent' = Append(sent, m)
     \/ peer = "open" /\ peer' = "closed" /\ sent' = sent
     \/ peer \in {"open", "closed"} /\ peer' = "reset" /\ sent' = sent
  /\ UNCHANGED <<phase, ret, accepted, out>>

Next ==
  \/ Open \/ Accept \/ Serve \/ Acknowledge \/ Heartbeat \/ TimeOut \/ Answered \/ Fail
  \/ \E sc \in {SC_UNKNOWN_MESSAGE, SC_UNEXPECTED_MESSAGE, SC_INVALID_DATA} : Blame(sc)
  \/ ModemStep

Spec == Init /\ [][Next]_vars
=============================================================================
