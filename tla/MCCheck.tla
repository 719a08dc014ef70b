------------------------------ MODULE MCCheck ------------------------------
(***************************************************************************)
(* A small instance of Check for TLC: for each type a valid message, and   *)
(* that message with one data item left out, added or replaced.            *)
(***************************************************************************)
EXTENDS Check, SequencesExt

Good(kind) ==
  [kind |-> kind, start |-> 0, flags |-> 1, value |-> 7,
   len |-> CASE kind \in {"mdrr", "mdrt", "cdrr", "cdrt", "latency"} -> 8
             [] kind = "ipv4 address" -> 5   [] kind = "ipv6 address" -> 17
             [] kind = "ipv4 subnet" -> 6    [] kind = "ipv6 subnet" -> 18
             [] kind = "heartbeat" -> 4      [] kind = "mac" -> 6
             [] kind \in {"mtu", "extensions", "status"} -> 2
             [] OTHER -> 1]

\* A data item of a kind, good or at a boundary of one of its checks.
Variants(kind) ==
  {Good(kind)} \cup {[Good(kind) EXCEPT !.len = n] : n \in {0, Good(kind).len + 1}}
    \cup {[Good(kind) EXCEPT !.flags = n] : n \in {0, 2}}
    \cup {[Good(kind) EXCEPT !.value = n] : n \in {0, 32, 33, 100, 101, 128, 129, 65535}}

AnyItem == UNION {Variants(kind) : kind \in Kinds}

Types == Checked \cup {SESSION_TERM_RESP}

Base(type) ==
  LET mandatory == SelectSeq(<<"status", "peer type", "heartbeat", "mdrr", "mdrt",
                               "cdrr", "cdrt", "latency", "mac">>,
                             LAMBDA kind : type \in Checked /\ kind \in Rule(type).mandatory)
  IN  [i \in 1..Len(mandatory) |-> Good(mandatory[i])]

Variations(items) ==
  {items}
    \cup {RemoveAt(items, i) : i \in DOMAIN items}
    \cup {InsertAt(items, i, x) : i \in {1, Len(items) + 1}, x \in AnyItem}
    \cup {ReplaceAt(items, i, x) : i \in DOMAIN items, x \in AnyItem}

\* Items in the places that their predecessors' lengths give them.
Size(items) == FoldLeft(LAMBDA octets, item : octets + 4 + item.len, 0, items)

Place(items) ==
  [i \in DOMAIN items |-> [items[i] EXCEPT !.start = Size(SubSeq(items, 1, i - 1))]]

Message(type, items) ==
  [type |-> type, items |-> Place(items),
   reported |-> Size(items), received |-> 4 + Size(items)]

\* A message the last item of which ends after it does.
Short(m, octets) == [m EXCEPT !.reported = @ - octets, !.received = @ - octets]

\* A message behind which the buffer holds one more item, left there by an earlier
\* one, and which the header may report or recv() may have returned.
Behind(m, kind) ==
  LET longer == Message(m.type, Append(m.items, Good(kind)))
  IN  {[longer EXCEPT !.reported = n[1], !.received = n[2]] :
         n \in {m.reported, longer.reported} \X {m.received, longer.received}}

\* The header may report more or less than is received, less than a header included.
Torn(m) == {[m EXCEPT !.received = n] : n \in {1, 4, m.received - 1} \cap 0..m.received}
             \cup {[m EXCEPT !.reported = n] : n \in {0, m.reported - 1} \cap Nat}

SomeBuffers ==
  UNION {
    LET base == Message(type, Base(type))
    IN  {Message(type, items) : items \in Variations(Base(type))}
          \cup Torn(base)
          \cup UNION {Behind(base, kind) : kind \in {"mac", "mtu", "other"}}
          \cup {Short(base, n) : n \in 1..5 \cap 0..base.reported}
    : type \in Types}

-----------------------------------------------------------------------------
\* "The message has been validated so just scan for the relevant data_items"
\* (session.c:541): what a parser reads of a data item is part of the item, and of
\* the message.  But the check of an MTU asks for two octets and the parsers read
\* four; and only check_peer_offer_signal() asks whether the last item ends where
\* the message does.
ReadsItsOwnItem ==
  (stage = "parse" /\ at > 0) =>
    LET item == msg.items[at]
    IN  OctetsRead(item) <= item.len /\ item.start + 4 + OctetsRead(item) <= msg.reported
=============================================================================
