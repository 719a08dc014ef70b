-------------------------------- MODULE Dlep --------------------------------
(***************************************************************************)
(* The protocol numbers of src/dlep_iana.h, as the router's code names     *)
(* them, and the way handle_message() partitions them.                     *)
(***************************************************************************)
EXTENDS Naturals

SESSION_INIT       == 1
SESSION_INIT_RESP  == 2
SESSION_UPDATE     == 3
SESSION_TERM       == 5
SESSION_TERM_RESP  == 6
DEST_UP            == 7
DEST_UP_RESP       == 8
DEST_DOWN          == 11
DEST_DOWN_RESP     == 12
DEST_UPDATE        == 13
PEER_HEARTBEAT     == 16

SC_SUCCESS            == 0
SC_UNKNOWN_MESSAGE    == 128
SC_UNEXPECTED_MESSAGE == 129
SC_INVALID_DATA       == 130
SC_TIMEDOUT           == 132
SC_SHUTDOWN           == 255

\* The message numbers of enum dlep_message.
Known == 1..16

\* The messages a modem may send in a session, each with a validator of its own.
Served == {SESSION_UPDATE, DEST_UP, DEST_DOWN, DEST_UPDATE, PEER_HEARTBEAT}

\* Every other known number, SESSION_TERM apart, is answered "unexpected".
Unexpected == Known \ (Served \cup {SESSION_TERM})

\* The requests the router acknowledges, and the number of the acknowledgement.
Requests == {DEST_UP, DEST_DOWN}
ResponseTo(type) == IF type = DEST_UP THEN DEST_UP_RESP ELSE DEST_DOWN_RESP
=============================================================================
