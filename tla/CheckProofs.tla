---------------------------- MODULE CheckProofs ----------------------------
(***************************************************************************)
(* For every message: the walk of a validator accepts exactly the messages *)
(* that satisfy its rules, and the walk of a parser takes from an accepted *)
(* message what the message states.                                        *)
(***************************************************************************)
EXTENDS Check, TLAPS

\* Some items of the message satisfy its rules, as far as they go.
Fine(some) ==
  LET rule == Rule(expected) IN
  /\ \A i \in some :
       LET item == msg.items[i] IN
       /\ item.kind \in rule.once \cup rule.several => ItemOK(item, rule.addOnly)
       /\ item.kind \in rule.once \cup rule.several \/ rule.lenient
  /\ \A i, j \in some :
       msg.items[i].kind \in rule.once /\ msg.items[i].kind = msg.items[j].kind => i = j

Unlearnt == modem_heartbeat_interval = 60000 /\ init_sc = SC_SUCCESS /\ answered = <<>>

\* What the parser knows once it has passed some items of a message that conforms.
LearntFrom(some) ==
  /\ expected = SESSION_INIT_RESP =>
       /\ \A i \in some : msg.items[i].kind = "heartbeat"
                            => modem_heartbeat_interval = msg.items[i].value
       /\ \A i \in some : msg.items[i].kind = "status" => init_sc = msg.items[i].value
  /\ expected \in Requests =>
       \/ answered = <<>> /\ \A i \in some : msg.items[i].kind # "mac"
       \/ \E i \in some : msg.items[i].kind = "mac" /\ answered = <<msg.items[i].value>>
  /\ expected \notin Requests => answered = <<>>

AtHeader ==
  stage = "header" => at = 0 /\ checked = 0 /\ seen = {} /\ sc = SC_SUCCESS /\ Unlearnt

AtCheck ==
  stage = "check" =>
    /\ msg.type = expected /\ Whole /\ 1..at \subseteq Items
    /\ seen = {msg.items[i].kind : i \in 1..at}
    /\ IF sc = SC_SUCCESS THEN Fine(1..at) ELSE ~Fine(Items)
    /\ Unlearnt

AtParse ==
  stage = "parse" =>
    /\ Conforms /\ sc = SC_SUCCESS /\ expected \in Parsed
    /\ 1..at \subseteq Items /\ Items = 1..checked
    /\ LearntFrom(1..at)

AtEnd ==
  stage = "done" =>
    /\ sc = SC_SUCCESS <=> Conforms
    /\ sc = SC_SUCCESS /\ expected \in Parsed => LearntFrom(Items) /\ at = checked
    /\ expected \notin Parsed => Unlearnt

CheckInv == TypeOK /\ msg \in Buffers /\ AtHeader /\ AtCheck /\ AtParse /\ AtEnd

-----------------------------------------------------------------------------
\* The messages are the buffers' own: their items are a sequence of data items.
LEMMA Buffered ==
  ASSUME msg \in Buffer
  PROVE  /\ msg.type \in Nat /\ msg.reported \in Nat /\ msg.received \in Nat
         /\ msg.items \in Seq(Item)
         /\ Len(msg.items) \in Nat
         /\ \A i \in 1..Len(msg.items) :
              msg.items[i] \in Item /\ msg.items[i].kind \in Kinds
                /\ msg.items[i].value \in Nat
                /\ msg.items[i].start \in Nat /\ msg.items[i].len \in Nat
         /\ Items \subseteq 1..Len(msg.items)
  <1>1. msg.type \in Nat /\ msg.reported \in Nat /\ msg.received \in Nat
          /\ msg.items \in Seq(Item)
    BY DEF Buffer
  <1>2. Len(msg.items) \in Nat /\ \A i \in 1..Len(msg.items) : msg.items[i] \in Item
    BY <1>1
  <1>3. \A x \in Item : x.kind \in Kinds /\ x.value \in Nat /\ x.start \in Nat /\ x.len \in Nat
    BY DEF Item
  <1>4. Items \subseteq 1..Len(msg.items)
    BY DEF Items
  <1>. QED BY <1>1, <1>2, <1>3, <1>4

\* The two walks of a whole message agree on where it ends: they go on while there
\* is an item left that starts within it.
LEMMA WalkEnds ==
  ASSUME msg \in Buffers, Whole, at \in 0..Len(msg.items), 1..at \subseteq Items
  PROVE  /\ MoreToCheck <=> MoreToParse
         /\ MoreToCheck => at + 1 \in Items /\ 1..(at + 1) \subseteq Items
         /\ ~MoreToCheck => Items = 1..at
  <1>1. msg \in Buffer /\ Laid(msg.items)
    BY BuffersAssumption
  <1>2. /\ msg.reported \in Nat /\ msg.received \in Nat /\ Len(msg.items) \in Nat
        /\ at \in Nat /\ at <= Len(msg.items)
        /\ \A i \in 1..Len(msg.items) : msg.items[i].start \in Nat /\ msg.items[i].len \in Nat
    BY <1>1, Buffered
  <1>3. MoreToCheck <=> MoreToParse
    BY <1>2 DEF Whole, MoreToCheck, MoreToParse
  <1>4. MoreToParse <=> at < Len(msg.items) /\ msg.items[at + 1].start < msg.reported
    <2>. SUFFICES ASSUME at < Len(msg.items)
                  PROVE  4 + msg.items[at + 1].start < msg.received
                           <=> msg.items[at + 1].start < msg.reported
      BY DEF MoreToParse
    <2>1. at + 1 \in 1..Len(msg.items)
      BY <1>2
    <2>2. msg.items[at + 1].start \in Nat
      BY <2>1, <1>2
    <2>. QED BY <2>2, <1>2 DEF Whole
  <1>5. ASSUME MoreToParse PROVE at + 1 \in Items /\ 1..(at + 1) \subseteq Items
    <2>1. at + 1 \in Items
      BY <1>2, <1>5, <1>4 DEF Items
    <2>2. 1..(at + 1) = (1..at) \cup {at + 1}
      BY <1>2
    <2>. QED BY <2>1, <2>2
  <1>6. ASSUME ~MoreToParse, NEW i \in Items PROVE i \in 1..at
    <2>1. i \in 1..Len(msg.items) /\ msg.items[i].start < msg.reported
      BY DEF Items
    <2>2. i # at + 1
      BY <2>1, <1>2, <1>6, <1>4
    <2>3. ASSUME i > at + 1 PROVE FALSE
      <3>1. at + 1 \in 1..(i - 1) /\ at + 1 \in 1..Len(msg.items)
        BY <2>1, <2>3, <1>2
      <3>2. End(msg.items[at + 1]) <= msg.items[i].start
        BY <3>1, <2>1, <1>1 DEF Laid
      <3>3. msg.items[at + 1].start \in Nat /\ msg.items[at + 1].len \in Nat
              /\ msg.items[i].start \in Nat
        BY <3>1, <2>1, <1>2
      <3>4. msg.items[at + 1].start < msg.reported
        <4>1. msg.items[at + 1].start + 4 + msg.items[at + 1].len <= msg.items[i].start
          BY <3>2 DEF End
        <4>2. \A s, l, t, r \in Nat : s + 4 + l <= t /\ t < r => s < r
          OBVIOUS
        <4>. QED BY <4>1, <4>2, <3>3, <2>1, <1>2
      <3>. QED BY <3>1, <3>4, <1>2, <1>6, <1>4
    <2>. QED BY <2>1, <2>2, <2>3, <1>2
  <1>. QED BY <1>3, <1>5, <1>6

\* The rules of a message are those of its items and those of the whole.
LEMMA ConformsIsFine ==
  ASSUME msg \in Buffer, msg.type = expected, Whole
  PROVE  Conforms <=> /\ Fine(Items)
                      /\ Rule(expected).mandatory \subseteq
                           {msg.items[i].kind : i \in Items}
  <1>1. \A kind : Of(kind) = {i \in Items : msg.items[i].kind = kind}
    BY DEF Of
  <1>2. (\A kind \in Rule(expected).once : \A i, j \in Of(kind) : i = j)
          <=> \A i, j \in Items :
                msg.items[i].kind \in Rule(expected).once
                  /\ msg.items[i].kind = msg.items[j].kind => i = j
    <2>1. ASSUME \A kind \in Rule(expected).once : \A i, j \in Of(kind) : i = j,
                 NEW i \in Items, NEW j \in Items,
                 msg.items[i].kind \in Rule(expected).once,
                 msg.items[i].kind = msg.items[j].kind
          PROVE  i = j
      <3>1. i \in Of(msg.items[i].kind) /\ j \in Of(msg.items[i].kind)
        BY <2>1, <1>1
      <3>. QED BY <3>1, <2>1
    <2>2. ASSUME \A i, j \in Items :
                   msg.items[i].kind \in Rule(expected).once
                     /\ msg.items[i].kind = msg.items[j].kind => i = j,
                 NEW kind \in Rule(expected).once, NEW i \in Of(kind), NEW j \in Of(kind)
          PROVE  i = j
      <3>1. /\ i \in Items /\ msg.items[i].kind = kind
            /\ j \in Items /\ msg.items[j].kind = kind
        BY <1>1
      <3>. QED BY <3>1, <2>2
    <2>. QED BY <2>1, <2>2
  <1>3. (\A kind \in Rule(expected).mandatory : Of(kind) # {})
          <=> Rule(expected).mandatory \subseteq
                {msg.items[i].kind : i \in Items}
    BY <1>1
  <1>. QED BY <1>2, <1>3 DEF Conforms, Fine

\* The kinds the parsers act upon are ones their validators take once and ask for.
LEMMA ActedUpon ==
  /\ {"heartbeat", "status"} \subseteq Rule(SESSION_INIT_RESP).once
  /\ {"heartbeat", "status"} \subseteq Rule(SESSION_INIT_RESP).mandatory
  /\ \A type \in Requests : "mac" \in Rule(type).once /\ "mac" \in Rule(type).mandatory
  /\ SESSION_INIT_RESP \notin Requests
  <1>1. Rule(SESSION_INIT_RESP) = InitRespRule
    BY DEF Rule, SESSION_INIT_RESP, SESSION_TERM, SESSION_UPDATE, DEST_UP,
           DEST_UPDATE, DEST_DOWN
  <1>2. Rule(DEST_UP) = DestUpRule /\ Rule(DEST_DOWN) = DestDownRule
    BY DEF Rule, SESSION_INIT_RESP, SESSION_TERM, SESSION_UPDATE, DEST_UP,
           DEST_UPDATE, DEST_DOWN
  <1>3. {"heartbeat", "status"} \subseteq InitRespRule.once
    BY DEF InitRespRule
  <1>4. {"heartbeat", "status"} \subseteq InitRespRule.mandatory
    BY DEF InitRespRule
  <1>5. "mac" \in DestUpRule.once /\ "mac" \in DestUpRule.mandatory
    BY DEF DestUpRule
  <1>6. "mac" \in DestDownRule.once /\ "mac" \in DestDownRule.mandatory
    BY DEF DestDownRule, HeartbeatRule
  <1>7. SESSION_INIT_RESP \notin Requests
    BY DEF Requests, SESSION_INIT_RESP, DEST_UP, DEST_DOWN
  <1>. QED BY <1>1, <1>2, <1>3, <1>4, <1>5, <1>6, <1>7 DEF Requests

\* The messages that are not parsed teach the session nothing.
LEMMA RequestsParsed == Requests \subseteq Parsed /\ SESSION_INIT_RESP \in Parsed
  BY DEF Parsed, Checked, Served, Requests, SESSION_INIT_RESP, SESSION_TERM,
         PEER_HEARTBEAT, DEST_UP, DEST_DOWN

\* The validator's verdict on an item is what the rules say of it after the others.
LEMMA OneItem ==
  ASSUME msg \in Buffer, NEW n \in Nat, n < Len(msg.items), Fine(1..n)
  PROVE  LET verdict == ItemVerdict(msg.items[n + 1], {msg.items[i].kind : i \in 1..n})
         IN  /\ verdict \in {SC_SUCCESS, SC_INVALID_DATA}
             /\ verdict = SC_SUCCESS <=> Fine(1..(n + 1))
  <1>. DEFINE rule == Rule(expected)
              item == msg.items[n + 1]
              before == {msg.items[i].kind : i \in 1..n}
              known == item.kind \in rule.once \cup rule.several
              good == /\ known => ItemOK(item, rule.addOnly)
                      /\ known \/ rule.lenient
                      /\ item.kind \in rule.once => item.kind \notin before
  <1>1. /\ ItemVerdict(item, before) \in {SC_SUCCESS, SC_INVALID_DATA}
        /\ ItemVerdict(item, before) = SC_SUCCESS <=> good
    BY DEF ItemVerdict, SC_SUCCESS, SC_INVALID_DATA
  <1>2. 1..(n + 1) = (1..n) \cup {n + 1}
    BY Buffered
  <1>3. Fine(1..(n + 1)) <=> good
    <2>1. ASSUME Fine(1..(n + 1)) PROVE good
      <3>1. item.kind \in rule.once => item.kind \notin before
        BY <2>1, <1>2 DEF Fine
      <3>. QED BY <3>1, <2>1, <1>2 DEF Fine
    <2>2. ASSUME good PROVE Fine(1..(n + 1))
      <3>1. \A i \in 1..(n + 1) :
              /\ msg.items[i].kind \in rule.once \cup rule.several
                   => ItemOK(msg.items[i], rule.addOnly)
              /\ msg.items[i].kind \in rule.once \cup rule.several \/ rule.lenient
        BY <2>2, <1>2 DEF Fine
      <3>2. ASSUME NEW i \in 1..(n + 1), NEW j \in 1..(n + 1),
                   msg.items[i].kind \in rule.once, msg.items[i].kind = msg.items[j].kind
            PROVE  i = j
        <4>1. CASE i \in 1..n /\ j \in 1..n
          BY <4>1, <3>2 DEF Fine
        <4>2. CASE i = n + 1 /\ j \in 1..n
          BY <4>2, <3>2, <2>2
        <4>3. CASE j = n + 1 /\ i \in 1..n
          BY <4>3, <3>2, <2>2
        <4>. QED BY <4>1, <4>2, <4>3, <1>2
      <3>. QED BY <3>1, <3>2 DEF Fine
    <2>. QED BY <2>1, <2>2
  <1>. QED BY <1>1, <1>3

\* A fault found early is a fault of the whole message.
LEMMA FineBefore ==
  ASSUME NEW some, some \subseteq Items, Fine(Items)
  PROVE  Fine(some)
  BY DEF Fine

\* One turn of a parser keeps what it knows in step with what it has passed.
LEMMA OneTurn ==
  ASSUME TypeOK, msg \in Buffers, Conforms, expected \in Parsed, stage = "parse",
         1..at \subseteq Items, LearntFrom(1..at), ParseItem
  PROVE  LearntFrom(1..at)' /\ 1..(at + 1) \subseteq Items
  <1>. DEFINE item == msg.items[at + 1]
  <1>1. /\ msg' = msg /\ expected' = expected /\ at < Len(msg.items) /\ at' = at + 1
        /\ at \in Nat /\ at + 1 \in 1..Len(msg.items) /\ msg \in Buffer /\ MoreToParse
    BY Buffered DEF ParseItem, TypeOK, MoreToParse
  <1>0. 1..(at + 1) \subseteq Items
    BY <1>1, WalkEnds DEF Conforms, TypeOK
  <1>2. 1..(at + 1) = (1..at) \cup {at + 1} /\ 1..(at + 1) \subseteq Items
    BY <1>0, <1>1
  <1>3. ASSUME NEW kind \in Rule(expected).once, NEW i \in 1..(at + 1),
               NEW j \in 1..(at + 1), msg.items[i].kind = kind, msg.items[j].kind = kind
        PROVE  i = j
    BY <1>2, <1>3 DEF Conforms, Of
  <1>4. CASE expected = SESSION_INIT_RESP
    <2>1. "heartbeat" \in Rule(expected).once /\ "status" \in Rule(expected).once
      BY <1>4, ActedUpon
    <2>2. ASSUME NEW i \in 1..(at + 1), msg.items[i].kind = "heartbeat"
          PROVE  modem_heartbeat_interval' = msg.items[i].value
      <3>1. CASE item.kind = "heartbeat"
        <4>1. i = at + 1
          BY <3>1, <2>2, <2>1, <1>3, <1>2
        <4>. QED BY <4>1, <3>1, <1>4 DEF ParseItem
      <3>2. CASE item.kind # "heartbeat"
        <4>1. i \in 1..at
          BY <3>2, <2>2, <1>2
        <4>. QED BY <4>1, <3>2, <2>2, <1>4 DEF ParseItem, LearntFrom
      <3>. QED BY <3>1, <3>2
    <2>3. ASSUME NEW i \in 1..(at + 1), msg.items[i].kind = "status"
          PROVE  init_sc' = msg.items[i].value
      <3>1. CASE item.kind = "status"
        <4>1. i = at + 1
          BY <3>1, <2>3, <2>1, <1>3, <1>2
        <4>. QED BY <4>1, <3>1, <1>4 DEF ParseItem
      <3>2. CASE item.kind # "status"
        <4>1. i \in 1..at
          BY <3>2, <2>3, <1>2
        <4>. QED BY <4>1, <3>2, <2>3, <1>4 DEF ParseItem, LearntFrom
      <3>. QED BY <3>1, <3>2
    <2>4. answered' = <<>>
      BY <1>4, ActedUpon DEF ParseItem, LearntFrom
    <2>5. LearntFrom(1..at)'
      BY <2>2, <2>3, <2>4, <1>1, <1>4, ActedUpon DEF LearntFrom
    <2>. QED BY <2>5, <1>0
  <1>5. CASE expected \in Requests
    <2>1. "mac" \in Rule(expected).once
      BY <1>5, ActedUpon
    <2>2. CASE item.kind = "mac"
      <3>1. ASSUME NEW i \in 1..at, msg.items[i].kind = "mac" PROVE FALSE
        <4>1. i \in 1..(at + 1) /\ at + 1 \in 1..(at + 1) /\ i # at + 1
          BY <1>1, <3>1
        <4>. QED BY <4>1, <3>1, <2>2, <2>1, <1>3
      <3>2. answered = <<>>
        BY <3>1, <1>5 DEF LearntFrom
      <3>3. answered' = <<item.value>>
        BY <3>2, <2>2, <1>5 DEF ParseItem
      <3>. QED BY <3>3, <2>2, <1>1, <1>2, <1>5, ActedUpon DEF LearntFrom
    <2>3. CASE item.kind # "mac"
      <3>1. answered' = answered
        BY <2>3 DEF ParseItem
      <3>2. CASE answered = <<>> /\ \A i \in 1..at : msg.items[i].kind # "mac"
        <4>1. \A i \in 1..(at + 1) : msg.items[i].kind # "mac"
          BY <3>2, <2>3, <1>2
        <4>2. LearntFrom(1..at)'
          BY <4>1, <3>1, <3>2, <1>1, <1>5, ActedUpon DEF LearntFrom
        <4>. QED BY <4>2, <1>0
      <3>3. CASE \E i \in 1..at : msg.items[i].kind = "mac"
                                /\ answered = <<msg.items[i].value>>
        <4>1. \E i \in 1..(at + 1) : msg.items[i].kind = "mac"
                                /\ answered = <<msg.items[i].value>>
          BY <3>3, <1>2
        <4>2. LearntFrom(1..at)'
          BY <4>1, <3>1, <1>1, <1>5, ActedUpon DEF LearntFrom
        <4>. QED BY <4>2, <1>0
      <3>. QED BY <3>2, <3>3, <1>5 DEF LearntFrom
    <2>. QED BY <2>2, <2>3
  <1>6. CASE expected # SESSION_INIT_RESP /\ expected \notin Requests
    BY <1>0, <1>6, <1>1 DEF ParseItem, LearntFrom
  <1>. QED BY <1>0, <1>4, <1>5, <1>6

-----------------------------------------------------------------------------
\* The buffer is examined from its first item, with nothing seen and nothing learnt.
LEMMA CheckInit == Init => CheckInv
  <1>. SUFFICES ASSUME Init PROVE CheckInv
    OBVIOUS
  <1>1. msg \in Buffer /\ msg \in Buffers
    BY BuffersAssumption DEF Init
  <1>2. TypeOK
    BY <1>1, Buffered DEF Init, TypeOK, Checked, Served, SC_SUCCESS, SC_INVALID_DATA,
         SC_UNEXPECTED_MESSAGE
  <1>. QED BY <1>1, <1>2 DEF Init, CheckInv, AtHeader, AtCheck, AtParse, AtEnd, Unlearnt

\* check_message() lets a message on to its items only if it is the expected one, whole.
LEMMA CheckMessageKeeps == CheckInv /\ CheckMessage => CheckInv'
  <1>. SUFFICES ASSUME CheckInv, CheckMessage PROVE CheckInv'
    OBVIOUS
  <1>1. /\ UNCHANGED <<msg, expected, at, checked, seen, modem_heartbeat_interval, init_sc,
                       answered>>
        /\ stage = "header" /\ at = 0 /\ checked = 0 /\ seen = {} /\ Unlearnt /\ TypeOK
        /\ msg \in Buffers
    BY DEF CheckMessage, CheckInv, AtHeader, learnt
  <1>2. sc' \in {SC_SUCCESS, SC_UNEXPECTED_MESSAGE, SC_INVALID_DATA}
    BY DEF CheckMessage
  <1>3. TypeOK' /\ (msg \in Buffers)'
    BY <1>1, <1>2 DEF CheckMessage, TypeOK
  <1>4. CASE sc' = SC_SUCCESS
    <2>1. msg.type = expected /\ Whole /\ stage' = "check"
      BY <1>4 DEF CheckMessage, SC_SUCCESS, SC_UNEXPECTED_MESSAGE, SC_INVALID_DATA
    <2>2. 1..at = {}
      BY <1>1
    <2>3. Fine(1..at)' /\ (1..at \subseteq Items)' /\ seen' = {msg'.items[i].kind : i \in 1..at'}
      BY <2>2, <1>1 DEF Fine
    <2>4. Whole'
      BY <2>1, <1>1 DEF Whole
    <2>5. AtCheck'
      BY <2>1, <2>3, <2>4, <1>1, <1>4 DEF AtCheck, Unlearnt
    <2>. QED BY <2>1, <2>5, <1>3 DEF CheckInv, AtHeader, AtParse, AtEnd
  <1>5. CASE sc' # SC_SUCCESS
    <2>1. ~(msg.type = expected /\ Whole) /\ stage' = "done"
      <3>1. msg.received < 4 => ~Whole
        BY <1>1, Buffered DEF Whole, TypeOK
      <3>. QED BY <3>1, <1>5 DEF CheckMessage
    <2>2. ~Conforms'
      BY <2>1, <1>1 DEF Conforms, Whole
    <2>3. AtEnd'
      BY <2>2, <1>1, <1>5 DEF AtEnd, Unlearnt
    <2>. QED BY <2>1, <2>3, <1>3 DEF CheckInv, AtHeader, AtParse, AtCheck
  <1>. QED BY <1>4, <1>5

\* One turn of the validator's loop extends the checked prefix by one item.
LEMMA CheckItemKeeps == CheckInv /\ CheckItem => CheckInv'
  <1>. SUFFICES ASSUME CheckInv, CheckItem PROVE CheckInv'
    OBVIOUS
  <1>. DEFINE item == msg.items[at + 1]
  <1>1. /\ UNCHANGED <<msg, expected, stage, checked, modem_heartbeat_interval, init_sc,
                       answered>>
        /\ stage = "check" /\ sc = SC_SUCCESS /\ MoreToCheck /\ at' = at + 1
        /\ TypeOK /\ AtCheck /\ msg \in Buffers
    BY DEF CheckItem, CheckInv, learnt
  <1>2. /\ msg.type = expected /\ Whole /\ 1..at \subseteq Items /\ Fine(1..at) /\ Unlearnt
        /\ seen = {msg.items[i].kind : i \in 1..at}
    BY <1>1 DEF AtCheck
  <1>3. /\ at \in Nat /\ msg \in Buffer /\ at + 1 \in 1..Len(msg.items) /\ item.kind \in Kinds
        /\ at < Len(msg.items)
    <2>1. msg \in Buffer /\ at \in 0..Len(msg.items) /\ at < Len(msg.items)
      BY <1>1 DEF TypeOK, MoreToCheck
    <2>2. at \in Nat /\ at + 1 \in 1..Len(msg.items)
      BY <2>1, Buffered
    <2>. QED BY <2>1, <2>2, Buffered
  <1>4. /\ sc' \in {SC_SUCCESS, SC_INVALID_DATA}
        /\ sc' = SC_SUCCESS <=> Fine(1..(at + 1))
    BY <1>1, <1>2, <1>3, OneItem DEF CheckItem
  <1>5. 1..(at + 1) = (1..at) \cup {at + 1}
    BY <1>3
  <1>6. seen' = {msg.items[i].kind : i \in 1..(at + 1)}
    BY <1>2, <1>5 DEF CheckItem
  <1>7. seen' \subseteq Kinds
    BY <1>1, <1>3 DEF CheckItem, TypeOK
  <1>8. TypeOK' /\ (msg \in Buffers)'
    BY <1>1, <1>3, <1>4, <1>7 DEF TypeOK
  <1>9. 1..(at + 1) \subseteq Items
    BY <1>1, <1>2, WalkEnds DEF TypeOK
  <1>10. Items' = Items /\ Whole'
    BY <1>1, <1>2 DEF Items, Whole
  <1>11. sc' # SC_SUCCESS => ~Fine(Items)
    BY <1>4, <1>9, FineBefore
  <1>12. (Fine(Items))' <=> Fine(Items)
    BY <1>1, <1>10 DEF Fine
  <1>13. (Fine(1..at))' <=> Fine(1..(at + 1))
    BY <1>1 DEF Fine
  <1>14. AtCheck'
    BY <1>1, <1>2, <1>4, <1>6, <1>9, <1>10, <1>11, <1>12, <1>13 DEF AtCheck, Unlearnt
  <1>. QED BY <1>1, <1>8, <1>14 DEF CheckInv, AtHeader, AtParse, AtEnd

\* After its last item a message is accepted if no mandatory kind is missing.
LEMMA CheckEndKeeps == CheckInv /\ CheckEnd => CheckInv'
  <1>. SUFFICES ASSUME CheckInv, CheckEnd PROVE CheckInv'
    OBVIOUS
  <1>1. /\ UNCHANGED <<msg, expected, seen, modem_heartbeat_interval, init_sc, answered>>
        /\ stage = "check" /\ at' = 0 /\ checked' = at /\ (sc = SC_SUCCESS => ~MoreToCheck)
        /\ TypeOK /\ AtCheck /\ msg \in Buffers
    BY DEF CheckEnd, CheckInv, learnt
  <1>2. /\ msg.type = expected /\ Whole /\ Unlearnt /\ msg \in Buffer
        /\ 1..at \subseteq Items /\ seen = {msg.items[i].kind : i \in 1..at}
    BY <1>1 DEF AtCheck, TypeOK
  <1>3. (Conforms' <=> Conforms) /\ Items' = Items
    BY <1>1 DEF Conforms, Of, Items, Whole
  <1>4. sc' = SC_SUCCESS <=> Conforms
    <2>1. CASE sc = SC_SUCCESS
      <3>1. Items = 1..at
        BY <2>1, <1>1, <1>2, WalkEnds DEF TypeOK
      <3>2. Fine(Items) /\ seen = {msg.items[i].kind : i \in Items}
        BY <3>1, <2>1, <1>1, <1>2 DEF AtCheck
      <3>3. Conforms <=> Rule(expected).mandatory \subseteq seen
        BY <3>2, <1>2, ConformsIsFine
      <3>. QED BY <3>3, <2>1 DEF CheckEnd, SC_SUCCESS, SC_INVALID_DATA
    <2>2. CASE sc # SC_SUCCESS
      <3>1. ~Fine(Items)
        BY <2>2, <1>1 DEF AtCheck
      <3>. QED BY <3>1, <2>2, <1>2, ConformsIsFine DEF CheckEnd
    <2>. QED BY <2>1, <2>2
  <1>5. TypeOK' /\ (msg \in Buffers)'
    <2>1. sc' \in {SC_SUCCESS, SC_UNEXPECTED_MESSAGE, SC_INVALID_DATA}
      BY <1>1 DEF CheckEnd, TypeOK
    <2>2. 0 \in 0..Len(msg.items) /\ stage' \in {"parse", "done"}
      BY <1>2, Buffered DEF CheckEnd
    <2>. QED BY <1>1, <2>1, <2>2 DEF TypeOK
  <1>6. 1..at' = {}
    BY <1>1
  <1>7. CASE sc' = SC_SUCCESS /\ expected \in Parsed
    <2>1. stage' = "parse" /\ sc = SC_SUCCESS
      BY <1>7 DEF CheckEnd, SC_SUCCESS
    <2>2. (LearntFrom(1..at))' /\ (1..at \subseteq Items)'
      BY <1>6, <1>1, <1>2 DEF LearntFrom, Unlearnt
    <2>3. Items' = 1..checked'
      BY <2>1, <1>1, <1>2, <1>3, WalkEnds DEF TypeOK
    <2>4. AtParse'
      BY <2>1, <2>2, <2>3, <1>1, <1>3, <1>4, <1>7 DEF AtParse
    <2>. QED BY <2>1, <2>4, <1>5 DEF CheckInv, AtHeader, AtCheck, AtEnd
  <1>8. CASE ~(sc' = SC_SUCCESS /\ expected \in Parsed)
    <2>1. stage' = "done"
      BY <1>8 DEF CheckEnd
    <2>2. Unlearnt'
      BY <1>1, <1>2 DEF Unlearnt
    <2>. QED BY <2>1, <2>2, <1>1, <1>3, <1>4, <1>5, <1>8
         DEF CheckInv, AtHeader, AtCheck, AtParse, AtEnd
  <1>. QED BY <1>7, <1>8

\* A turn of the parser's loop reads one more item of a message that conforms.
LEMMA ParseItemKeeps == CheckInv /\ ParseItem => CheckInv'
  <1>. SUFFICES ASSUME CheckInv, ParseItem PROVE CheckInv'
    OBVIOUS
  <1>. DEFINE item == msg.items[at + 1]
  <1>1. /\ UNCHANGED <<msg, expected, stage, checked, seen, sc>>
        /\ stage = "parse" /\ MoreToParse /\ at' = at + 1
        /\ TypeOK /\ AtParse /\ msg \in Buffers
    BY DEF ParseItem, CheckInv
  <1>2. /\ Conforms /\ sc = SC_SUCCESS /\ expected \in Parsed /\ LearntFrom(1..at)
        /\ 1..at \subseteq Items /\ Items = 1..checked
    BY <1>1 DEF AtParse
  <1>3. LearntFrom(1..at)' /\ 1..(at + 1) \subseteq Items
    BY <1>1, <1>2, OneTurn
  <1>4. Conforms' /\ Items' = Items
    BY <1>1, <1>2 DEF Conforms, Of, Items, Whole
  <1>5. at + 1 \in 0..Len(msg.items) /\ item.value \in Nat
    <2>1. at < Len(msg.items)
      BY <1>1 DEF MoreToParse
    <2>2. at \in Nat /\ Len(msg.items) \in Nat
      BY <1>1, Buffered DEF TypeOK
    <2>3. at + 1 \in 1..Len(msg.items) /\ at + 1 \in 0..Len(msg.items)
      BY <2>1, <2>2
    <2>. QED BY <2>3, <1>1, Buffered DEF TypeOK
  <1>6. TypeOK' /\ (msg \in Buffers)'
    <2>1. modem_heartbeat_interval' \in Nat /\ init_sc' \in Nat
      BY <1>1, <1>5 DEF ParseItem, TypeOK
    <2>2. answered' \in Seq(Nat)
      BY <1>1, <1>5 DEF ParseItem, TypeOK
    <2>. QED BY <2>1, <2>2, <1>1, <1>5 DEF TypeOK
  <1>7. AtParse'
    BY <1>1, <1>2, <1>3, <1>4 DEF AtParse
  <1>. QED BY <1>1, <1>6, <1>7 DEF CheckInv, AtHeader, AtCheck, AtEnd

\* When the parser has passed every item, it knows what the message states.
LEMMA ParseEndKeeps == CheckInv /\ ParseEnd => CheckInv'
  <1>. SUFFICES ASSUME CheckInv, ParseEnd PROVE CheckInv'
    OBVIOUS
  <1>1. /\ UNCHANGED <<msg, expected, at, checked, seen, sc, modem_heartbeat_interval,
                       init_sc, answered>>
        /\ stage = "parse" /\ stage' = "done" /\ ~MoreToParse
        /\ TypeOK /\ AtParse /\ msg \in Buffers
    BY DEF ParseEnd, CheckInv, learnt
  <1>2. /\ Conforms /\ sc = SC_SUCCESS /\ expected \in Parsed /\ LearntFrom(1..at)
        /\ 1..at \subseteq Items /\ Items = 1..checked /\ Whole
    BY <1>1 DEF AtParse, Conforms
  <1>3. Items = 1..at
    BY <1>1, <1>2, WalkEnds DEF TypeOK
  <1>4. at = checked
    <2>1. at \in Nat /\ checked \in Nat
      BY <1>1, Buffered DEF TypeOK
    <2>. QED BY <2>1, <1>2, <1>3
  <1>5. Conforms' /\ (LearntFrom(Items))'
    BY <1>1, <1>2, <1>3 DEF Conforms, Of, Items, Whole, LearntFrom
  <1>6. TypeOK' /\ (msg \in Buffers)'
    BY <1>1 DEF TypeOK
  <1>7. AtEnd'
    BY <1>1, <1>2, <1>4, <1>5 DEF AtEnd
  <1>. QED BY <1>1, <1>6, <1>7 DEF CheckInv, AtHeader, AtCheck, AtParse

\* The walks keep their invariant, from whatever message they start.
THEOREM WalksInvariant == Spec => []CheckInv
  <1>1. CheckInv /\ UNCHANGED vars => CheckInv'
    BY DEF CheckInv, AtHeader, AtCheck, AtParse, AtEnd, TypeOK, Fine, Conforms, Of,
           Items, Whole, Unlearnt, LearntFrom, vars
  <1>2. CheckInv /\ [Next]_vars => CheckInv'
    BY <1>1, CheckMessageKeeps, CheckItemKeeps, CheckEndKeeps, ParseItemKeeps,
       ParseEndKeeps DEF Next
  <1>. QED BY CheckInit, <1>2, PTL DEF Spec

\* The validators of check.c accept a message if and only if it satisfies its
\* rules, whatever its data items and their order.
THEOREM ValidatorsExact == Spec => []VerdictIsRule
  <1>1. CheckInv => VerdictIsRule
    BY DEF CheckInv, AtParse, AtEnd, VerdictIsRule
  <1>. QED BY <1>1, WalksInvariant, PTL

\* A parser starts on the items its validator passed, all of them, and on no other,
\* although the two take the end of the message from different lengths.
THEOREM ParsersStayWithin == Spec => []ParsesWhatWasChecked
  <1>1. ASSUME CheckInv PROVE ParsesWhatWasChecked
    <2>1. ASSUME stage = "parse" PROVE at <= checked
      <3>1. 1..at \subseteq 1..checked /\ at \in Nat /\ checked \in Nat
        <4>1. TypeOK /\ AtParse
          BY <1>1 DEF CheckInv
        <4>2. 1..at \subseteq 1..checked
          BY <4>1, <2>1 DEF AtParse
        <4>3. msg \in Buffer /\ at \in 0..Len(msg.items) /\ checked \in 0..Len(msg.items)
          BY <4>1 DEF TypeOK
        <4>4. Len(msg.items) \in Nat
          BY <4>3, Buffered
        <4>5. at \in Nat /\ checked \in Nat
          BY <4>3, <4>4
        <4>. QED BY <4>2, <4>5
      <3>2. at = 0 \/ at \in 1..at
        BY <3>1
      <3>. QED BY <3>1, <3>2
    <2>2. stage = "done" /\ sc = SC_SUCCESS /\ expected \in Parsed => at = checked
      BY <1>1 DEF CheckInv, AtEnd
    <2>. QED BY <2>1, <2>2 DEF ParsesWhatWasChecked
  <1>. QED BY <1>1, WalksInvariant, PTL

\* The parsers of session.c take from a valid message what it states: the interval,
\* which is not 0, and the status, or one response for the destination it names.
THEOREM ParsersExact == Spec => []ParsedAsChecked
  <1>1. ASSUME CheckInv PROVE ParsedAsChecked
    <2>. SUFFICES ASSUME stage = "done", sc = SC_SUCCESS
                  PROVE  /\ expected = SESSION_INIT_RESP =>
                              /\ modem_heartbeat_interval > 0
                              /\ \A i \in Of("heartbeat") :
                                   modem_heartbeat_interval = msg.items[i].value
                              /\ \A i \in Of("status") : init_sc = msg.items[i].value
                              /\ Of("heartbeat") # {} /\ Of("status") # {}
                         /\ expected \in Requests =>
                              \E i \in Of("mac") : answered = <<msg.items[i].value>>
                         /\ expected \notin Requests => answered = <<>>
      BY DEF ParsedAsChecked
    <2>1. Conforms /\ msg \in Buffer /\ AtEnd
      BY <1>1 DEF CheckInv, AtEnd, TypeOK
    <2>2. \A kind \in Rule(expected).mandatory : Of(kind) # {}
      BY <2>1 DEF Conforms
    <2>3. ASSUME expected = SESSION_INIT_RESP
          PROVE  /\ modem_heartbeat_interval > 0
                 /\ \A i \in Of("heartbeat") : modem_heartbeat_interval = msg.items[i].value
                 /\ \A i \in Of("status") : init_sc = msg.items[i].value
                 /\ Of("heartbeat") # {} /\ Of("status") # {}
      <3>1. LearntFrom(Items)
        BY <2>1, <2>3, RequestsParsed DEF AtEnd
      <3>2. /\ \A i \in Of("heartbeat") : modem_heartbeat_interval = msg.items[i].value
            /\ \A i \in Of("status") : init_sc = msg.items[i].value
        BY <3>1, <2>3 DEF LearntFrom, Of
      <3>3. Of("heartbeat") # {} /\ Of("status") # {}
        BY <2>2, <2>3, ActedUpon
      <3>4. PICK i \in Items : msg.items[i].kind = "heartbeat"
        BY <3>3 DEF Of
      <3>5. msg.items[i].kind \in Rule(expected).once
        BY <3>4, <2>3, ActedUpon
      <3>6. ItemOK(msg.items[i], Rule(expected).addOnly)
        BY <3>5, <2>1 DEF Conforms
      <3>7. HeartbeatIntervalOK(msg.items[i])
        BY <3>6, <3>4 DEF ItemOK, Addresses, Subnets
      <3>8. msg.items[i].value \in Nat /\ msg.items[i].value # 0
        BY <3>4, <3>7, <2>1, Buffered DEF HeartbeatIntervalOK
      <3>9. modem_heartbeat_interval > 0
        BY <3>2, <3>4, <3>8 DEF Of
      <3>. QED BY <3>2, <3>3, <3>9
    <2>4. ASSUME expected \in Requests
          PROVE  \E i \in Of("mac") : answered = <<msg.items[i].value>>
      <3>1. LearntFrom(Items)
        BY <2>1, <2>4, RequestsParsed DEF AtEnd
      <3>2. Of("mac") # {}
        BY <2>2, <2>4, ActedUpon
      <3>. QED BY <3>1, <3>2, <2>4 DEF LearntFrom, Of
    <2>5. ASSUME expected \notin Requests PROVE answered = <<>>
      BY <2>1, <2>5 DEF AtEnd, LearntFrom, Unlearnt
    <2>. QED BY <2>3, <2>4, <2>5
  <1>. QED BY <1>1, WalksInvariant, PTL
=============================================================================
