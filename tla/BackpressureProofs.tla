------------------------- MODULE BackpressureProofs -------------------------
(***************************************************************************)
(* For every capacity of the connection: the router and a modem that reads *)
(* before it writes never wait for each other.                             *)
(***************************************************************************)
EXTENDS Backpressure, TLAPS

\* While a write has its half of the connection full, what the router has sent
\* since it began is bounded by the place in the turn.
LEMMA Bounds ==
  ASSUME TypeOK
  PROVE  /\ SentSince \in 0..2
         /\ pc \in {"init", "response", "acknowledge"} => SentSince = 0
         /\ pc = "heartbeat" => SentSince = IF ready THEN 1 ELSE 0
         /\ pc \in {"select", "terminate"} => SentSince = 1
         /\ pc \in {"recv", "term", "ended"} => SentSince = 2
  BY DEF TypeOK, Sending, SentSince

\* The router has sent one message, and the modem is not writing.
LEMMA StandoffInit == Init => NoStandoffInv
  <1>. SUFFICES ASSUME Init PROVE NoStandoffInv
    OBVIOUS
  <1>1. 0 \in 0..InCap /\ 1 \in 0..OutCap
    BY CapacityAssumption
  <1>2. TypeOK
    BY <1>1 DEF Init, TypeOK
  <1>. QED BY <1>2 DEF Init, NoStandoffInv

\* Every step of the router counts what it sends or makes room for the modem.
LEMMA RouterKeeps ==
  ASSUME NoStandoffInv, RouterStep
  PROVE  NoStandoffInv'
  <1>1. /\ TypeOK /\ (modem = "writing" /\ toRouter = InCap => toModem <= Unread + SentSince)
        /\ InCap \in Nat \ {0} /\ OutCap \in Nat \ {0} /\ Unread \in Nat
    BY CapacityAssumption DEF NoStandoffInv
  <1>2. CASE SelectReturns
    <2>1. TypeOK'
      BY <1>1, <1>2 DEF SelectReturns, Onward, TypeOK, Sending
    <2>2. ASSUME modem' = "writing", toRouter' = InCap PROVE SentSince' >= SentSince
      <3>1. ready' = TRUE /\ SentSince = 1 /\ pc' \in {"heartbeat", "recv"}
        <4>1. toRouter > 0 /\ pc = "select"
          BY <1>1, <1>2, <2>2 DEF SelectReturns
        <4>. QED BY <4>1, <1>1, <1>2, Bounds DEF SelectReturns, Onward
      <3>2. SentSince' \in {1, 2}
        BY <3>1 DEF SentSince
      <3>. QED BY <3>1, <3>2
    <2>3. toModem' = toModem /\ toRouter' = toRouter /\ modem' = modem
      BY <1>2 DEF SelectReturns
    <2>4. SentSince \in Nat /\ SentSince' \in 0..2
      BY <1>1, <2>1, Bounds DEF SentSince, TypeOK, Sending
    <2>5. toModem \in Nat
      BY <1>1 DEF TypeOK
    <2>6. ASSUME modem' = "writing", toRouter' = InCap
          PROVE  toModem' <= Unread + SentSince'
      <3>1. toModem <= Unread + SentSince /\ SentSince <= SentSince' /\ SentSince' \in Nat
        BY <1>1, <2>2, <2>3, <2>4, <2>6
      <3>2. \A m, u, s, t \in Nat : m <= u + s /\ s <= t => m <= u + t
        OBVIOUS
      <3>. QED BY <3>1, <3>2, <1>1, <2>3, <2>4, <2>5
    <2>. QED BY <2>1, <2>6 DEF NoStandoffInv
  <1>3. CASE SendHeartbeat
    <2>1. TypeOK'
      BY <1>1, <1>3 DEF SendHeartbeat, Send, Onward, TypeOK, Sending
    <2>2. toModem' = toModem + 1 /\ toRouter' = toRouter /\ modem' = modem
      BY <1>3 DEF SendHeartbeat, Send
    <2>3. SentSince' = SentSince + 1 /\ SentSince \in Nat
      <3>1. SentSince = IF ready THEN 1 ELSE 0
        BY <1>1, <1>3, Bounds DEF SendHeartbeat
      <3>2. SentSince' = IF ready THEN 2 ELSE 1
        BY <1>1, <1>3 DEF SendHeartbeat, Onward, SentSince, TypeOK
      <3>. QED BY <3>1, <3>2, <1>1 DEF TypeOK
    <2>. QED BY <1>1, <2>1, <2>2, <2>3 DEF NoStandoffInv, TypeOK
  <1>4. CASE Receive \/ ReceiveFirst
    <2>1. TypeOK'
      BY <1>1, <1>4 DEF Receive, ReceiveFirst, Recv, TypeOK, Sending
    <2>2. toRouter' # InCap
      BY <1>1, <1>4 DEF Receive, ReceiveFirst, Recv, TypeOK
    <2>. QED BY <2>1, <2>2 DEF NoStandoffInv
  <1>5. CASE SendAnswer
    <2>1. pc' = Then(pc) /\ Then(pc) \in {"select", "term", "ended"}
      BY <1>5 DEF SendAnswer, Then
    <2>2. TypeOK'
      BY <1>1, <1>5, <2>1 DEF SendAnswer, Send, TypeOK, Sending
    <2>3. toModem' = toModem + 1 /\ toRouter' = toRouter /\ modem' = modem
      BY <1>5 DEF SendAnswer, Send
    <2>4. SentSince' >= SentSince + 1 /\ SentSince \in Nat /\ SentSince' \in Nat
      <3>1. CASE pc = "terminate"
        BY <3>1, <1>1, <1>5, Bounds DEF SendAnswer, Then, SentSince
      <3>2. CASE pc \in {"response", "acknowledge"}
        BY <3>2, <1>1, <1>5, <2>1, Bounds DEF SentSince
      <3>. QED BY <3>1, <3>2, <1>5 DEF SendAnswer
    <2>5. toModem \in Nat
      BY <1>1 DEF TypeOK
    <2>6. ASSUME modem' = "writing", toRouter' = InCap
          PROVE  toModem' <= Unread + SentSince'
      <3>1. toModem <= Unread + SentSince
        BY <1>1, <2>3, <2>6
      <3>2. \A m, u, s, t \in Nat : m <= u + s /\ s + 1 <= t => m + 1 <= u + t
        OBVIOUS
      <3>3. SentSince + 1 <= SentSince'
        BY <2>4
      <3>. QED BY <3>1, <3>2, <3>3, <1>1, <2>3, <2>4, <2>5
    <2>. QED BY <2>2, <2>6 DEF NoStandoffInv
  <1>6. CASE TermReceive
    <2>1. TypeOK'
      BY <1>1, <1>6 DEF TermReceive, Recv, TypeOK, Sending
    <2>2. toRouter' # InCap
      BY <1>1, <1>6 DEF TermReceive, Recv, TypeOK
    <2>. QED BY <2>1, <2>2 DEF NoStandoffInv
  <1>. QED BY <1>2, <1>3, <1>4, <1>5, <1>6 DEF RouterStep

\* A write begins with little unread; when it is over the modem reads again.
LEMMA ModemKeeps ==
  ASSUME NoStandoffInv, BeginsToWrite \/ Written \/ Reads
  PROVE  NoStandoffInv'
  <1>1. /\ TypeOK /\ InCap \in Nat \ {0} /\ OutCap \in Nat \ {0} /\ Unread \in Nat
        /\ SentSince \in 0..2
    BY CapacityAssumption, Bounds DEF NoStandoffInv
  <1>2. SentSince' = SentSince
    BY DEF BeginsToWrite, Written, Reads, SentSince
  <1>3. TypeOK'
    BY <1>1 DEF BeginsToWrite, Written, Reads, TypeOK
  <1>4. modem' = "writing" => toModem' <= Unread
    BY <1>1 DEF BeginsToWrite, Written, Reads
  <1>. QED BY <1>1, <1>2, <1>3, <1>4 DEF NoStandoffInv, TypeOK

\* What the router has sent since the modem's write began is bounded, for every
\* capacity.
THEOREM StandoffInvariant == Spec => []NoStandoffInv
  <1>1. NoStandoffInv /\ UNCHANGED vars => NoStandoffInv'
    BY DEF NoStandoffInv, TypeOK, SentSince, vars
  <1>2. NoStandoffInv /\ [Next]_vars => NoStandoffInv'
    BY <1>1, RouterKeeps, ModemKeeps DEF Next
  <1>. QED BY StandoffInit, <1>2, PTL DEF Spec

\* A connection with room for two messages beyond what the modem leaves unread
\* never has the router and the modem blocked on each other's send().
THEOREM NeverAStandoff == Spec => []NoStandoff
  <1>1. ASSUME NoStandoffInv PROVE NoStandoff
    <2>. SUFFICES ASSUME Unread + 2 <= OutCap, Standoff PROVE FALSE
      BY DEF NoStandoff
    <2>1. SentSince \in {0, 1}
      BY <1>1, Bounds DEF NoStandoffInv, Standoff, Sending, TypeOK
    <2>2. OutCap <= Unread + SentSince
      BY <1>1 DEF NoStandoffInv, Standoff
    <2>. QED BY <2>1, <2>2, CapacityAssumption
  <1>. QED BY <1>1, StandoffInvariant, PTL

\* How far each call is from the next message.
LEMMA CallsToReceiveIs ==
  ASSUME TypeOK
  PROVE  /\ pc = "ended" => CallsToReceive = 0
         /\ pc \in {"init", "recv", "term", "acknowledge"} => CallsToReceive = 1
         /\ pc = "terminate" => CallsToReceive = 2
         /\ pc = "heartbeat" => CallsToReceive = IF ready THEN 2 ELSE 4
         /\ pc = "select" => CallsToReceive = 3
         /\ pc = "response" => CallsToReceive = 4
  BY DEF TypeOK, Sending, CallsToReceive

\* A write for which there is no room gets it within four calls of the router, or the
\* session is over, for every capacity: in_session() receives between one select() and
\* the next, and the heartbeat and the answer it may send do not start it over.
THEOREM RoomIsAlwaysMade == Spec => RoomIsMade
  <1>1. ASSUME TypeOK, TypeOK', [Next]_vars, modem = "writing", toRouter = InCap
        PROVE  toRouter' < InCap \/ CallsToReceive' < CallsToReceive \/ UNCHANGED vars
    <2>0. toRouter > 0 /\ toRouter \in Nat
      BY <1>1, CapacityAssumption
    <2>1. CASE SelectReturns
      <3>1. pc = "select" /\ ready' /\ pc' \in {"heartbeat", "recv"}
        BY <2>0, <2>1 DEF SelectReturns, Onward
      <3>2. CallsToReceive = 3
        BY <1>1, <3>1, CallsToReceiveIs
      <3>3. CallsToReceive' \in {1, 2}
        BY <3>1 DEF CallsToReceive
      <3>. QED BY <3>2, <3>3
    <2>2. CASE SendHeartbeat
      <3>1. pc = "heartbeat" /\ ready' = ready /\ ready \in BOOLEAN
            /\ pc' \in IF ready THEN {"recv"} ELSE {"select", "terminate"}
        BY <1>1, <2>2 DEF SendHeartbeat, Onward, TypeOK
      <3>2. CallsToReceive = IF ready THEN 2 ELSE 4
        BY <1>1, <3>1, CallsToReceiveIs
      <3>3. ready => CallsToReceive' = 1
        BY <3>1 DEF CallsToReceive
      <3>4. ~ready => CallsToReceive' \in {2, 3}
        BY <3>1 DEF CallsToReceive
      <3>. QED BY <3>1, <3>2, <3>3, <3>4
    <2>3. CASE Receive \/ ReceiveFirst
      BY <1>1, <2>0, <2>3 DEF Receive, ReceiveFirst, Recv
    <2>4. CASE SendAnswer
      <3>1. \/ pc = "response" /\ pc' = "select"
            \/ pc = "terminate" /\ pc' = "term"
            \/ pc = "acknowledge" /\ pc' = "ended"
        BY <2>4 DEF SendAnswer, Then
      <3>2. CASE pc = "response"
        <4>1. CallsToReceive = 4 /\ CallsToReceive' = 3
          BY <1>1, <3>1, <3>2, CallsToReceiveIs DEF CallsToReceive
        <4>. QED BY <4>1
      <3>3. CASE pc = "terminate"
        BY <1>1, <3>1, <3>3, CallsToReceiveIs DEF CallsToReceive
      <3>4. CASE pc = "acknowledge"
        BY <1>1, <3>1, <3>4, CallsToReceiveIs DEF CallsToReceive
      <3>. QED BY <3>1, <3>2, <3>3, <3>4
    <2>5. CASE TermReceive
      BY <1>1, <2>0, <2>5 DEF TermReceive, Recv
    <2>6. CASE BeginsToWrite \/ Written \/ Reads
      BY <1>1, <2>0, <2>6 DEF BeginsToWrite, Written, Reads
    <2>. QED BY <1>1, <2>1, <2>2, <2>3, <2>4, <2>5, <2>6 DEF Next, RouterStep
  <1>2. NoStandoffInv => TypeOK
    BY DEF NoStandoffInv
  <1>. QED BY <1>1, <1>2, StandoffInvariant, PTL DEF Spec, RoomIsMade
=============================================================================
