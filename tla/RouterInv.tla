----------------------------- MODULE RouterInv -----------------------------
(***************************************************************************)
(* The inductive invariant of main(): in each of its places the command    *)
(* line, discovery and the session are where they may be, and each of them *)
(* is in a state that its own invariant allows, however many rounds have   *)
(* gone before.                                                            *)
(***************************************************************************)
EXTENDS Router, SessionInv

\* What the command line has established, as long as it decides anything.
Arguments ==
  /\ Line!LineTypeOK /\ Line!LineKnows
  /\ place # "arguments" => line \in {"ready", "exited"}
  /\ HostAsNamed /\ Refusals

\* discover() has not been called in this round.
NotCalled ==
  /\ step = "socket" /\ result = FALSE /\ at = 0 /\ port = 0
  /\ inbox = <<>> /\ received = <<>> /\ remaining = 0 /\ sinceSent = 0

\* Discovery starts from nothing but the address, whose scope only discovery over
\* IPv6 has written, and ends before a session.
Finding ==
  /\ place = "arguments" \/ Line!Named => NotCalled
  /\ NotCalled \/ Peer!DiscoveryInv
  /\ place = "session" => IF Line!Named THEN line = "ready" ELSE Peer!Found
  /\ place = "discover" => ~Line!Named
  /\ ~Line!Named /\ ~typed.ipv6 => address.scope = 0

\* A session starts from nothing at all, and is held in its own place only.
Holding ==
  /\ Init \/ (IInv /\ ReaderInv /\ GoodbyeInv /\ Answers /\ (Prompt => TimersInv))
  /\ place \in {"arguments", "discover"} => Init

RouterInv ==
  /\ place \in {"arguments", "discover", "session", "exited"}
  /\ Arguments /\ Finding /\ Holding
=============================================================================
