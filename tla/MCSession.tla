----------------------------- MODULE MCSession -----------------------------
(***************************************************************************)
(* Small instances of Session for TLC.                                     *)
(***************************************************************************)
EXTENDS SessionInv, SessionClaims

CONSTANTS d1, d2

BothDests == {d1, d2}

Msg(type, len, ok, dest, hb, sc) ==
  [type |-> type, len |-> len, ok |-> ok, dest |-> dest, hb |-> hb, sc |-> sc]

Accepting(hb) == Msg(SESSION_INIT_RESP, 2, TRUE, NoDest, hb, SC_SUCCESS)
Refusing(hb)  == Msg(SESSION_INIT_RESP, 2, TRUE, NoDest, hb, 2)
Up(d)         == Msg(DEST_UP, 1, TRUE, d, 0, 0)
Down(d)       == Msg(DEST_DOWN, 1, TRUE, d, 0, 0)
LongUp(d)     == Msg(DEST_UP, 2, TRUE, d, 0, 0)
BadUp(d)      == Msg(DEST_UP, 1, FALSE, d, 0, 0)
Update(d)     == Msg(DEST_UPDATE, 1, TRUE, d, 0, 0)
Beat          == Msg(PEER_HEARTBEAT, 0, TRUE, NoDest, 0, 0)
Goodbye       == Msg(SESSION_TERM, 1, TRUE, NoDest, 0, 0)
Unasked       == Msg(SESSION_TERM_RESP, 0, TRUE, NoDest, 0, 0)
Unheard       == Msg(263, 0, TRUE, NoDest, 0, 0)

\* Framing: bodies of zero, one and two bytes, valid and not; and a type that
\* needs both of its octets.
StreamMessages == {Accepting(1), Up(d1), BadUp(d1), Goodbye, Beat, Unheard}

\* A body that a session serves and that may come in two parts.
SplitMessages == {Accepting(1), LongUp(d1)}

\* Dispatch: every branch of handle_message().
AllMessages == {Accepting(1), Refusing(1), Up(d1), Up(d2), Down(d1), BadUp(d1),
                Update(d1), Beat, Goodbye, Unasked, Unheard}

\* Timing: heartbeat intervals of the modem, and messages to keep it alive.
TimerMessages ==
  {Accepting(1), Accepting(2), Accepting(3), Refusing(1), Beat, Goodbye}

\* A message with a body, which can be slow to arrive after its header.
TimerBodies == {Accepting(2), Update(d1)}

=============================================================================
