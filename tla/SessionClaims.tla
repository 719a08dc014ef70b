--------------------------- MODULE SessionClaims ---------------------------
(***************************************************************************)
(* What comments of src/session.c say of a session and the code does not   *)
(* do.  Each is the property of a run in which TLC finds a counterexample. *)
(***************************************************************************)
EXTENDS Session

\* "Make sure we send and check heartbeats promptly" (session.c:940), "check for
\* 2 missed intervals" (session.c:973): once a router interval is over its
\* heartbeat is sent before a second one is, and two silent modem intervals are
\* noticed before a third is over.  The intervals are milliseconds everywhere
\* but in interval_compare(), which counts them as seconds.
TimersPrompt ==
  (phase = "in" /\ pc = "select") =>
    /\ sentAge <= 2 * router_heartbeat_interval
    /\ quiet <= 3 * modem_heartbeat_interval

\* A termination for invalid data is on its way, and nothing was received since.
JustBlamed ==
  /\ phase = "term" /\ pc = "select"
  /\ out[Len(out)] = Output(SESSION_TERM, NoDest, SC_INVALID_DATA)

\* The next byte to receive is one of a message's body: its header was read whole.
WithinBody ==
  LET unread == stream \o flight IN unread # <<>> /\ unread[1].at >= 4

\* "Receive the rest of the message" (session.c:50): a message of which a header and
\* then a part of the body were received is blamed only if it is invalid, not because
\* the second recv() returned the part that had arrived.
RestOfMessage ==
  (JustBlamed /\ WithinBody) => ~sent[Len(accepted) + 1].ok
=============================================================================
