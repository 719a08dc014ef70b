---------------------------- MODULE DiscoveryAbs ----------------------------
(***************************************************************************)
(* What discover(), src/discovery.c, promises main(): it hears datagrams   *)
(* until one of them is a Peer Offer, and then either finds a place to     *)
(* connect to, one that this offer names, or fails; it may fail at any     *)
(* time.  Sockets, signals, timeouts and the memory that the address is    *)
(* put together in are its own business.                                   *)
(***************************************************************************)
EXTENDS Sequences

CONSTANTS
  Datagrams,
  IsOffer(_),  \* whether a datagram is a valid Peer Offer
  Offered(_),  \* the places that an offer names
  Nowhere

VARIABLES
  status,  \* "asking", "found" or "failed"
  heard,   \* the datagrams that were considered
  target   \* the place found

abstractVars == <<status, heard, target>>

AbsInit == status = "asking" /\ heard = <<>> /\ target = Nowhere

\* A datagram that is no offer decides nothing.
Disregard(d) ==
  /\ status = "asking" /\ ~IsOffer(d)
  /\ heard' = Append(heard, d)
  /\ UNCHANGED <<status, target>>

Find(d) ==
  /\ status = "asking" /\ IsOffer(d)
  /\ heard' = Append(heard, d)
  /\ status' = "found" /\ target' \in Offered(d)

\* A call fails, or an offer cannot be used.
Fail ==
  /\ status = "asking" /\ status' = "failed"
  /\ \/ UNCHANGED heard
     \/ \E d \in Datagrams : IsOffer(d) /\ heard' = Append(heard, d)
  /\ UNCHANGED target

AbsNext == Fail \/ \E d \in Datagrams : Disregard(d) \/ Find(d)

AbsSpec == AbsInit /\ [][AbsNext]_abstractVars
=============================================================================
