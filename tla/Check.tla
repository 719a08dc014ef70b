------------------------------- MODULE Check -------------------------------
(***************************************************************************)
(* How a message is validated and then read: the validators of src/check.c *)
(* walk the data items of a message, and for a valid one the parsers of    *)
(* src/session.c walk the same data items again, trusting the first walk.  *)
(*                                                                         *)
(* A data item is its kind, the length its header states, its first octet  *)
(* (the flags of the kinds that have flags) and the number the rest of it  *)
(* spells: an interval, a prefix, a percentage, a code, an address.  Only  *)
(* the header of an item says where it ends.  So the buffer's octets after *)
(* the message header are items one after the other, and both walks go on  *)
(* as long as an item STARTS within the message: the last one may end, and *)
(* its octets be what the buffer held, after the message does.             *)
(***************************************************************************)
EXTENDS Dlep, Sequences

CONSTANT
  Buffers  \* the messages that may be examined

Metrics   == {"mdrr", "mdrt", "cdrr", "cdrt", "latency", "resources", "rlqr", "rlqt", "mtu"}
Addresses == {"ipv4 address", "ipv6 address"}
Subnets   == {"ipv4 subnet", "ipv6 subnet"}
Kinds     == Metrics \cup Addresses \cup Subnets
               \cup {"status", "peer type", "heartbeat", "extensions", "mac", "other"}

\* "start" counts octets from the end of the message header.
Item == [kind : Kinds, start : Nat, len : Nat, flags : Nat, value : Nat]

\* The header's type and length, the octets received, and the items that a walk
\* of the buffer finds, up to its end.
Buffer == [type : Nat, reported : Nat, received : Nat, items : Seq(Item)]

\* Each item follows the four octets of its predecessor's header and its data.
End(item) == item.start + 4 + item.len

Laid(items) ==
  \A i \in 1..Len(items) :
    /\ items[i].start = IF i = 1 THEN 0 ELSE End(items[i - 1])
    /\ \A j \in 1..(i - 1) : End(items[j]) <= items[i].start

\* No walk runs out of octets, whichever of the two lengths it goes by.
Filled(b) ==
  LET size == IF b.items = <<>> THEN 0 ELSE End(b.items[Len(b.items)])
  IN  b.reported <= size /\ b.received <= 4 + size

ASSUME BuffersAssumption ==
  Buffers \subseteq Buffer /\ \A b \in Buffers : Laid(b.items) /\ Filled(b)

-----------------------------------------------------------------------------
(* The check of one data item.                                             *)
FlagsOK(item, addOnly) == item.flags <= 1 /\ (addOnly => item.flags = 1)

PeerTypeOK(item) == item.len >= 1 /\ item.flags <= 1

HeartbeatIntervalOK_AllowsZero(item) == item.len = 4

HeartbeatIntervalOK(item) == item.len = 4 /\ item.value # 0

AddressOK(item, addOnly) ==
  /\ item.len = IF item.kind = "ipv4 address" THEN 5 ELSE 17
  /\ FlagsOK(item, addOnly)

SubnetOK(item, addOnly) ==
  /\ item.len = IF item.kind = "ipv4 subnet" THEN 6 ELSE 18
  /\ FlagsOK(item, addOnly)
  /\ item.value <= IF item.kind = "ipv4 subnet" THEN 32 ELSE 128

RateOK(item) == item.len = 8

PercentageOK(item) == item.len = 1 /\ item.value <= 100

MtuOK(item) == item.len = 2

ExtensionsOK(item) ==
  item.len % 2 = 0 /\ (item.len > 0 => item.value \notin {0, 65535})

StatusOK(item) == item.len >= 1

MacOK(item) == item.len = 6

ItemOK(item, addOnly) ==
  CASE item.kind = "peer type"  -> PeerTypeOK(item)
    [] item.kind = "heartbeat"  -> HeartbeatIntervalOK(item)
    [] item.kind \in Addresses  -> AddressOK(item, addOnly)
    [] item.kind \in Subnets    -> SubnetOK(item, addOnly)
    [] item.kind \in {"mdrr", "mdrt", "cdrr", "cdrt", "latency"} -> RateOK(item)
    [] item.kind \in {"resources", "rlqr", "rlqt"} -> PercentageOK(item)
    [] item.kind = "mtu"        -> MtuOK(item)
    [] item.kind = "extensions" -> ExtensionsOK(item)
    [] item.kind = "status"     -> StatusOK(item)
    [] item.kind = "mac"        -> MacOK(item)
    [] OTHER                    -> FALSE

-----------------------------------------------------------------------------
(* The rules of each validator: the kinds it takes once or any number of   *)
(* times, those it must see, whether an address may only be added, and     *)
(* whether an item of any other kind is passed over or refused.            *)
InitRespRule ==
  [once      |-> Metrics \cup {"status", "peer type", "heartbeat", "extensions"},
   several   |-> Addresses \cup Subnets,
   mandatory |-> {"status", "peer type", "heartbeat",
                  "mdrr", "mdrt", "cdrr", "cdrt", "latency"},
   addOnly   |-> TRUE, lenient |-> TRUE]

HeartbeatRule ==
  [once |-> {}, several |-> {}, mandatory |-> {}, addOnly |-> FALSE, lenient |-> FALSE]

SessionTermRule == [HeartbeatRule EXCEPT !.once = {"status"}, !.mandatory = {"status"}]

SessionUpdateRule ==
  [HeartbeatRule EXCEPT !.once = Metrics, !.several = Addresses \cup Subnets]

DestUpRule ==
  [once |-> Metrics \cup {"mac"}, several |-> Addresses \cup Subnets,
   mandatory |-> {"mac"}, addOnly |-> TRUE, lenient |-> FALSE]

DestUpdateRule ==
  [once |-> Metrics \cup {"mac"}, several |-> Addresses \cup Subnets,
   mandatory |-> {"mac"}, addOnly |-> FALSE, lenient |-> FALSE]

DestDownRule == [HeartbeatRule EXCEPT !.once = {"mac"}, !.mandatory = {"mac"}]

Checked == Served \cup {SESSION_INIT_RESP, SESSION_TERM}

Rule(type) ==
  CASE type = SESSION_INIT_RESP -> InitRespRule
    [] type = SESSION_TERM      -> SessionTermRule
    [] type = SESSION_UPDATE    -> SessionUpdateRule
    [] type = DEST_UP           -> DestUpRule
    [] type = DEST_UPDATE       -> DestUpdateRule
    [] type = DEST_DOWN         -> DestDownRule
    [] OTHER                    -> HeartbeatRule

-----------------------------------------------------------------------------
VARIABLES
  msg,       \* the message examined
  expected,  \* the message whose validator examines it
  stage,     \* "header", "check", "parse" or "done"
  at,        \* the data items this walk has passed
  checked,   \* the data items the validator has passed, once it is done
  seen,      \* the kinds seen, the validator's seen_ flags
  sc,        \* the validator's verdict
  modem_heartbeat_interval,  \* what the session learns from the parser
  init_sc,
  answered   \* the MAC addresses of the responses the parser sent

vars == <<msg, expected, stage, at, checked, seen, sc,
          modem_heartbeat_interval, init_sc, answered>>
learnt == <<modem_heartbeat_interval, init_sc, answered>>

\* session() passes whatever it gets first to the validator of the response it
\* awaits; handle_message() chooses the validator by the type.
Init ==
  /\ msg \in Buffers
  /\ expected \in {SESSION_INIT_RESP} \cup ({msg.type} \cap Checked)
  /\ stage = "header" /\ at = 0 /\ checked = 0 /\ seen = {} /\ sc = SC_SUCCESS
  /\ modem_heartbeat_interval = 60000 /\ init_sc = SC_SUCCESS /\ answered = <<>>

\* check_message()
Whole == msg.received = 4 + msg.reported

CheckMessage_AnyLength ==
  /\ stage = "header"
  /\ sc' = IF msg.received < 4 THEN SC_INVALID_DATA
           ELSE IF msg.type # expected THEN SC_UNEXPECTED_MESSAGE ELSE SC_SUCCESS
  /\ stage' = IF sc' = SC_SUCCESS THEN "check" ELSE "done"
  /\ UNCHANGED <<msg, expected, at, checked, seen, learnt>>

CheckMessage ==
  /\ stage = "header"
  /\ sc' = IF msg.received < 4 THEN SC_INVALID_DATA
           ELSE IF msg.type # expected THEN SC_UNEXPECTED_MESSAGE
           ELSE IF Whole THEN SC_SUCCESS ELSE SC_INVALID_DATA
  /\ stage' = IF sc' = SC_SUCCESS THEN "check" ELSE "done"
  /\ UNCHANGED <<msg, expected, at, checked, seen, learnt>>

\* while (data_item < end): the next item starts before the end of the message,
\* which validators, and session() for its parser, take from the octets received,
\* and handle_message(), for all other parsers, from the length reported.
MoreToCheck == at < Len(msg.items) /\ 4 + msg.items[at + 1].start < msg.received

MoreToParse ==
  /\ at < Len(msg.items)
  /\ IF expected = SESSION_INIT_RESP
       THEN 4 + msg.items[at + 1].start < msg.received
       ELSE msg.items[at + 1].start < msg.reported

\* What the validator says of one data item, having seen those before it.
ItemVerdict_ForgetsSeen(item, before) ==
  LET rule == Rule(expected) IN
  IF item.kind \in rule.once \cup rule.several
    THEN IF ItemOK(item, rule.addOnly) THEN SC_SUCCESS ELSE SC_INVALID_DATA
    ELSE IF rule.lenient THEN SC_SUCCESS ELSE SC_INVALID_DATA

ItemVerdict(item, before) ==
  LET rule == Rule(expected) IN
  IF item.kind \in rule.once \cup rule.several
    THEN IF /\ item.kind \in rule.once => item.kind \notin before
            /\ ItemOK(item, rule.addOnly)
           THEN SC_SUCCESS ELSE SC_INVALID_DATA
    ELSE IF rule.lenient THEN SC_SUCCESS ELSE SC_INVALID_DATA

\* One turn of the validator's loop, which ends with the message or at a fault.
CheckItem ==
  /\ stage = "check" /\ sc = SC_SUCCESS /\ MoreToCheck
  /\ LET item == msg.items[at + 1]
     IN  sc' = ItemVerdict(item, seen) /\ seen' = seen \cup {item.kind}
  /\ at' = at + 1
  /\ UNCHANGED <<msg, expected, stage, checked, learnt>>

\* The messages whose data items are read once they are valid.
Parsed == Checked \ {SESSION_TERM, PEER_HEARTBEAT}

\* After the loop: is a mandatory item missing?  A valid message is then parsed.
CheckEnd ==
  /\ stage = "check" /\ (sc = SC_SUCCESS => ~MoreToCheck)
  /\ sc' = IF sc = SC_SUCCESS /\ ~(Rule(expected).mandatory \subseteq seen)
             THEN SC_INVALID_DATA ELSE sc
  /\ stage' = IF sc' = SC_SUCCESS /\ expected \in Parsed THEN "parse" ELSE "done"
  /\ at' = 0 /\ checked' = at
  /\ UNCHANGED <<msg, expected, seen, learnt>>

\* One turn of a parser's loop: a response goes out as a MAC address is read.
ParseItem ==
  /\ stage = "parse" /\ MoreToParse
  /\ LET item == msg.items[at + 1] IN
     /\ modem_heartbeat_interval' =
          IF expected = SESSION_INIT_RESP /\ item.kind = "heartbeat" THEN item.value
          ELSE modem_heartbeat_interval
     /\ init_sc' =
          IF expected = SESSION_INIT_RESP /\ item.kind = "status" THEN item.value
          ELSE init_sc
     /\ answered' =
          IF expected \in Requests /\ item.kind = "mac" THEN Append(answered, item.value)
          ELSE answered
  /\ at' = at + 1
  /\ UNCHANGED <<msg, expected, stage, checked, seen, sc>>

\* parse_address() and parse_attached_subnet() tell the families by the length.
AddressOctets(item) == IF item.len = 5 THEN 5 ELSE 17

SubnetOctets(item) == IF item.len = 6 THEN 6 ELSE 18

\* The octets of an item that a parser reads: its switch has a case for each kind
\* that the switch of its validator has one for, and no other.
OctetsRead(item) ==
  IF item.kind \notin Rule(expected).once \cup Rule(expected).several THEN 0
  ELSE CASE item.kind \in {"mdrr", "mdrt", "cdrr", "cdrt", "latency"} -> 8
         [] item.kind \in {"heartbeat", "mtu"} -> 4
         [] item.kind \in {"resources", "rlqr", "rlqt", "status"} -> 1
         [] item.kind = "mac" -> 6
         [] item.kind \in Addresses -> AddressOctets(item)
         [] item.kind \in Subnets -> SubnetOctets(item)
         [] OTHER -> item.len

ParseEnd ==
  /\ stage = "parse" /\ ~MoreToParse
  /\ stage' = "done"
  /\ UNCHANGED <<msg, expected, at, checked, seen, sc, learnt>>

Next == CheckMessage \/ CheckItem \/ CheckEnd \/ ParseItem \/ ParseEnd

Spec == Init /\ [][Next]_vars

-----------------------------------------------------------------------------
TypeOK ==
  /\ msg \in Buffer /\ expected \in Checked
  /\ stage \in {"header", "check", "parse", "done"}
  /\ at \in 0..Len(msg.items) /\ checked \in 0..Len(msg.items) /\ seen \subseteq Kinds
  /\ sc \in {SC_SUCCESS, SC_UNEXPECTED_MESSAGE, SC_INVALID_DATA}
  /\ modem_heartbeat_interval \in Nat /\ init_sc \in Nat
  /\ answered \in Seq(Nat)

\* The items that start within the message, and those of a kind among them.
Items == {i \in 1..Len(msg.items) : msg.items[i].start < msg.reported}

Of(kind) == {i \in Items : msg.items[i].kind = kind}

\* The rules of a message, whatever the order of its data items.
Conforms ==
  LET rule == Rule(expected) IN
  /\ msg.type = expected /\ Whole
  /\ \A i \in Items :
       LET item == msg.items[i] IN
       /\ item.kind \in rule.once \cup rule.several => ItemOK(item, rule.addOnly)
       /\ item.kind \in rule.once \cup rule.several \/ rule.lenient
  /\ \A kind \in rule.once : \A i, j \in Of(kind) : i = j
  /\ \A kind \in rule.mandatory : Of(kind) # {}

\* The one-pass validators, with their early exits and seen_ flags, accept a
\* message if and only if it satisfies its rules, in whatever order its data
\* items come; only an accepted message is parsed.
VerdictIsRule ==
  /\ stage = "parse" => Conforms
  /\ stage = "done"  => (sc = SC_SUCCESS <=> Conforms)

\* Two walks with two notions of where the message ends: a parser reads the items
\* its validator passed, all of them, and starts on no other, for which it would
\* trust octets that nobody checked or that were never received.
ParsesWhatWasChecked ==
  /\ stage = "parse" => at <= checked
  /\ (stage = "done" /\ sc = SC_SUCCESS /\ expected \in Parsed) => at = checked

\* What the parsers take from a valid message is what the message states, once:
\* the session never keeps the default interval of 60000 or gets one of 0 (the
\* assumption Session makes of every valid response), never keeps the default
\* status, and answers each request exactly once, for the destination it names.
ParsedAsChecked ==
  (stage = "done" /\ sc = SC_SUCCESS) =>
    /\ expected = SESSION_INIT_RESP =>
         /\ modem_heartbeat_interval > 0
         /\ \A i \in Of("heartbeat") : modem_heartbeat_interval = msg.items[i].value
         /\ \A i \in Of("status") : init_sc = msg.items[i].value
         /\ Of("heartbeat") # {} /\ Of("status") # {}
    /\ expected \in Requests =>
         \E i \in Of("mac") : answered = <<msg.items[i].value>>
    /\ expected \notin Requests => answered = <<>>
=============================================================================
