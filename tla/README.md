# A TLA+ specification of dlep_router

`dlep_router` is a small, single-threaded router for the Dynamic Link Exchange
Protocol (RFC 8175). It looks for a modem, holds one TCP session with it, logs what
the modem reports and starts over when the session ends in order. This directory
specifies that program in TLA+, checks it with TLC on small instances and proves
its central properties with TLAPS. Paths below are relative to the repository;
`session.c` is `src/session.c`, and so on.

## 1. Inventory

| Part | Code | State it keeps | Operations |
|---|---|---|---|
| Session | `session.c` | socket, message buffer, `modem_heartbeat_interval`, `timeout`, `last_recv_time`, `last_sent_time`, `now_time` | `session()`, `in_session()`, `term_session()`, `recv_message()`, `handle_message()`, `send_*()` |
| Validation and parsing | `check.c`, the `parse_*()` of `session.c` | position in the message, `seen_*` flags, status | `check_*_message()`, `check_<data item>()`, `parse_*_message()` |
| Message writing | the `send_*()` of `session.c`, `send_peer_discovery_signal()` | an array and a position in it | header, data items, length |
| Peer discovery | `discovery.c`, `check_peer_offer_signal()` | socket, `select()`'s timeout, `modem_address` | `discover()`, `get_peer_offer()`, `recv_peer_offer()`, `send_peer_discovery_signal()` |
| Interval arithmetic | `util.c` | none | `interval_compare()` |
| Main loop | `main.c`, from line 174 | `address` | discovery, session, repeat or exit |
| Command line | `main.c`, to line 165 | `use_ipv6`, `address`, `router_heartbeat_interval`, `errno` | options, the address and its port |
| Protocol numbers | `dlep_iana.h` | none | |
| Byte order | `util.c`, `util.h` | none | `read_uint*()`, `write_uint*()` |
| Logging | all files | none | `printf()`, `formatAddress()`, `printf_*()` |

**How they interact.** `main()` calls `discover()` (unless an address is on the
command line) and passes the address to `session()`; both block until they are done
and return a result on which `main()` goes on or exits. `session()` connects, sends
Session Initialization, blocks in `recv_message()` for the response and enters
`in_session()`, whose loop waits in `select()`, looks at the heartbeat timer, and
either checks the modem's silence (timeout) or receives a message and hands it to
`handle_message()`. That calls a validator, then a parser, which may write a
response; any status of 128 and above goes to `send_session_term()` and from there to
`term_session()`, a second loop. There are no threads, callbacks or shared state: the
concurrency is between the router, the modem, the network and the clock.

**What is hard.** A TCP stream is not a sequence of messages, and `recv_message()` makes
two `recv()` calls and no loop. `select()` modifies its timeout. Time passes while the
router is blocked in `recv()`, and the clock is read before it. Either end may terminate,
close or reset at any moment, both at once included. UDP loses, repeats and
reorders, and anybody may send. `send()` blocks when the modem does not read. Two walks over
a message, by two functions, have two notions of where it ends. Two structures share the
memory of one address, which nobody clears. Intervals wrap, and their unit changes on the way.
`PROJECT.json` lists each of these hazards at its line.

**What makes each part correct.**

- *Session*: messages are handled in the order they were written, none lost,
  repeated or put together from two; every request is answered once, for its
  destination; nothing follows a goodbye; a result of 0 means that one was exchanged;
  a modem is given up for silence if, and only if, it was silent; no timer is found late;
  a modem that is gone ends the session, and termination ends; router and modem never
  block each other.
- *Validation and parsing*: a message is accepted exactly when it satisfies the rules
  of its type, in whatever order its data items come; the items parsed are those that were
  checked, and what is parsed is what the message states.
- *Message writing*: nothing is written past the array, and a receiver reads what was meant.
- *Discovery*: an address is used only if a modem offered it, as a whole, whatever the
  memory held; signals are repeated in time; an offer ends discovery and silence does not.
- *Interval arithmetic*: the comparison is exact at every reading.
- *Main loop*: a session is held where the round's own discovery found a modem; only an
  orderly end starts another round, and then it does start.
- *Command line*: with `-6` the session is held with the IPv4 host and the port that were
  named, and a command line is refused only for a reason.

## 2. Modules

| Module | What it is |
|---|---|
| `Dlep` | message numbers, status codes, and how `handle_message()` partitions them |
| `Clock` | `struct timespec`, `interval_compare()`, and what it is for |
| `Stopwatch` | a timer as `session.c` uses `interval_compare()`: started, compared, started again |
| `Session` | the session, with a modem and a TCP connection as its environment; its properties |
| `SessionAbs` | what a session promises, without bytes, buffers, blocking or clocks |
| `SessionInv` | the inductive invariants of the session: `IInv`, `ReaderInv`, `GoodbyeInv`, `TimersInv` |
| `SessionClaims` | comments of `session.c` that the code does not keep |
| `Backpressure` | the session's `send()`s and `recv()`s over a connection that holds only so much |
| `Check` | the validators and parsers as two walks over the data items of a message |
| `Octets` | `read_uint*()` and `write_uint*()` |
| `Writer` | how each message and signal of the router is put together in its array |
| `Sockaddr` | the `struct sockaddr_storage` that the command line and discovery write to |
| `Discovery` | peer discovery, with a network that may deliver any datagrams |
| `DiscoveryAbs` | what discovery promises: one of the places an offer names, or none |
| `CommandLine` | what `main()` makes of its arguments |
| `Router` | `main()`: composes `CommandLine`, `Discovery` (instances) and `Session` (extended) |
| `RouterInv` | the inductive invariant of `main()` and its parts |
| `MC*` | small instances for TLC |
| `SessionProofs`, `SessionRefinement`, `TimerProofs`, `CheckProofs`, `BackpressureProofs`, `WriterProofs`, `DiscoveryProofs`, `RouterProofs` | theorems and their proofs |

`PROJECT.json` maps each definition to the lines it stands for. A definition whose
name has a suffix (`Verdict_NoLengthCheck`) is a deliberate mistake: the form the code
would have with a plausible bug. No specification uses it; it shows that the
property it is listed with can fail.

### Session

`phase` is the function the router is in ("init": waiting in `session()`, "in":
`in_session()`, "term": `term_session()`) and `pc` the call it blocks in: `select`, or
`recv()` for a header or for a body. Each action runs from one blocking call to the next:

| Action | Code |
|---|---|
| `Connect` | `socket()`, `connect()`, `send_session_init_message()` |
| `SelectReady`, `SelectTimeout` | a turn of `in_session()`'s loop after `select()`: read the clock, send a heartbeat if it is due, then receive, or check the modem's silence |
| `TermSelectReady`, `TermSelectTimeout` | the same of `term_session()` |
| `RecvHeader`, `RecvBody` | the two `recv()` calls of `recv_message()`, and all that follows when the message is as complete as it will get: `InitResponse`, `HandleMessage` or `TermMessage` |
| `RecvFails`, `SystemFails` | end of file, `ECONNRESET`, failing `select()` or `realloc()` |
| `ModemSend`, `Deliver`, `ModemClose`, `ModemReset` | the modem and TCP |
| `Tick` | a millisecond |

A byte is a cell `[n, at]`: byte `at` of the modem's `n`-th message. `recv()` takes what has
arrived, up to what was asked for. So a header of fewer than four bytes, a body in
two parts and a stream that has lost its framing are all states of the model; bytes
read out of step decode to *any* message (`Decode`), and a header of one byte leaves half
of the type to the previous one (`HeaderType`, `bufType`). `TypeOK`'s histories `sent`,
`accepted` and `out` are what the properties speak of. In `out` a run of heartbeats is
one, so that idling keeps the state space finite.

A `send()` to a reset connection returns the pending error or raises `SIGPIPE`, which
kills the process (`"killed"`). Responses and heartbeats ignore a failed `send()`;
terminations do not: the model follows each call.

Clocks are ages: `recvAge` is the time since `last_recv_time`, `nowAge` since `now_time`;
`quiet`, a history variable, is the time since a message was really handled.
`Expired(age, i)` is `interval_compare()`, with `TicksPerSec` ticks to the second: a tick is a
millisecond, the unit of every interval, and `interval_compare()` counts seconds.

`SessionAbs` is a queue of messages: the head is accepted, served with its answer in
the same step, or blamed; at most one goodbye is written and is the last word; only
a session with a goodbye returns 0. `Session` implements it under the identity mapping on
`phase`, `ret`, `peer`, `sent`, `accepted` and `out` (`KeepsPromise`); blocking, framing and time
are stutters.

### Backpressure

`Session` takes every `send()` to complete at once; `Backpressure` asks what happens when it does not.
Messages are only counted: `toRouter` and `toModem` are those each half of the connection holds,
at most `InCap` and `OutCap`. `pc` is the call the router is in or the kind of message it is sending;
whether a heartbeat is due, what a message is and whether the modem was silent are left open, so
that the turns of `in_session()` and `term_session()` are those of `Session` and more. The modem has one
thread: in state "writing" it is blocked in a `send()` and reads nothing. It is external to the
code, and one thing is assumed of it: it does not begin to write with more than `Unread` messages unread.

### Check

A data item is its kind, where it starts, the length it states, its first octet and the number
the rest spells. Only an item's header says where it ends, so the buffer behind the message
header is a sequence of items, which may go on behind the message with what an earlier one
left there. Each validator of `check.c` is one rule (`InitRespRule`, ...): the kinds taken
once or several times, those that are mandatory, whether addresses may only be added, and
whether other kinds are passed over. The walk itself (`CheckItem`: early exit at the first
fault, `seen_` flags; `CheckEnd`: what is missing) is separate from what it should
decide (`Conforms`), and the parser's walk (`ParseItem`) follows only on success. Both go on as
long as an item *starts* within the message; where that ends they take from different
lengths (`MoreToCheck`, `MoreToParse`), which `check_message()` has compared. The
initial states have what the program has: the response validator is given any message,
every other one only messages of its type.

### Octets, Writer

A call of a `send_*()` is a header, a number, its data items and the size of its array. `WriteHeader`,
`WriteItem` and `WriteLength` are the three things each of these functions does, in that order, on a
sequence of octets; the length is written over the two octets that were 0. The peer type is
text of any length, cut to the room that is left. `ReadAsMeant` reads the octets back with `read_uint16()`
and a walk like the validators'.

### Sockaddr, CommandLine, Discovery, Router

An address is the fields of `sockaddr_in` and `sockaddr_in6` as they lie in one `sockaddr_storage`: family
and port are shared, `quad` is `sin_addr` and `sin6_flowinfo`, `long` and `scope` are IPv6's alone. A writer sets the
fields of its family and leaves the others. `Target` is all that
`connect()` makes of it, `sin6_flowinfo` and the scope included; `Endpoint` is the part of that which an offer or a
command line can name.

`CommandLine` keeps the two nested short-circuits of lines 129 and 151, `inet_pton()`
writing to `address_buffer` only when it is called and succeeds, and `strtoul()`, which saturates and
sets an `errno` that nothing clears.

`Discovery` has one action per outcome of `get_peer_offer()`'s loop: `SendSignal`, `ReceiveOther`
(empty or invalid: the next signal at once), `ReceiveOffer`, `WaitTimesOut`, and `CallFails` for any call. An
offer is scanned item by item (`ScanItem`: each connection point overwrites the last, in the fields it
has), and `ScanEnd` fails for a port of 0. IPv4 and IPv6 discovery differ in socket options, which are one
step, and in the scope id. It implements `DiscoveryAbs` (`FindsWhatIsOffered`) under the mapping that takes an
offer as heard once it is scanned, and as the place found the family, host and port that `connect()` would read in the memory then.

`Router` reads the arguments by the real `LineNext` and runs the real `DiscoveryNext` and `Next` in turn; `address`
and `use_ipv6` are what `main()` keeps from one round to the next, while sockets and locals are new. It is
therefore checked against the components and not against summaries of them.

## 3. Runs

Run one with `tlc -config <cfg> <module>`. Behind a semicolon stand the inductive invariants, which
a run checks before they are relied on in a proof; section 4 says what each is for. `IInv` and
`DiscoveryInv` begin with the type invariants `TypeOK` and `DiscoveryTypeOK`.

| Run | Shows | Instance |
|---|---|---|
| `SessionDispatch` | `Answers`, `LastWord`, `SuccessMeansGoodbye`, `TermRespAnswersTerm`, `KeepsPromise`; `GoodbyeInv` | every branch of `handle_message()` and `session()`: 11 messages, any 3 of them; two destinations; close and reset at any time; a router that may be slow |
| `SessionStream` | `InOrder`, `KeepsPromise`, `GoneForGood`; `IInv`, `ReaderInv` | bodies of 0, 1 and 2 bytes, valid and not, a type of two octets that are not 0, any 3 messages, every way of cutting the stream |
| `SessionTimers` | `DeadlinesKept`, `TimeoutMeansSilence`, `SilenceEndsSession`, `GoneEndsSession`, `TerminationEnds`; `TimersInv` | three modem intervals, of which neither the double nor the fourfold wraps, the fourfold alone, and both; two ticks to the second, messages whole, fairness |
| `Backpressure` | `NoStandoff`, `RoomIsMade`, `WritesComplete`; `NoStandoffInv` | the least room with which it holds: four messages to the modem, two of them left unread; fairness |
| `Check` | `VerdictIsRule`, `ParsesWhatWasChecked`, `ParsedAsChecked` | for each type a valid message, and it with any one item left out, added or replaced by any item at any boundary of its checks; torn, cut within its last item, and with another item behind it |
| `Util` (`MCUtil`) | `TimerExact` (`Stopwatch`), `WithinArray`, `ReadAsMeant` (`Writer`) | all readings within four seconds of four ticks, intervals to three; every message, with peer types that just fit, and do not, and intervals at the boundaries of each octet |
| `Discovery` | `AddressWasOffered`, `RetriesInTime`, `OfferComesUp`, `OfferEndsDiscovery`, `KeepsAsking`, `FindsWhatIsOffered`; `DiscoveryInv` | ten datagrams, one for each way to be refused and to name an address; any three; memory blank and used before; fairness |
| `Router` | `SessionsWhereOffered`, `HostAsNamed`, `Refusals`, `StartsOverInOrder`, `ComesBack`; `RouterInv` | any number of rounds, thirteen command lines with and without an address, one of each way to be refused, `-H` out of range with a port and without; fairness |
| `SessionUnits` | `TimersPrompt` **fails** | see section 6 |
| `SessionSplit` | `RestOfMessage` **fails** | a response that opens the session, and a request with a body of two bytes |
| `CheckMtu` | `ReadsItsOwnItem` **fails** | |
| `CommandLineHost` | `ConnectsWhereTold` **fails** | every command line of four texts, ports and intervals |

### Bounds

- `MaxSent = 3`: the response that opens the session, a message in it, and one behind it in
  the stream or after a goodbye. Any hazard of ordering or framing needs two messages and
  the border between them. The proofs have no such bound.
- Bodies of up to two bytes: a body may be absent, present, or cut. Longer ones add
  places to cut of the same kind.
- `AgeCap`: clocks stop counting past every deadline and twice every interval, where
  no comparison changes any more; `AgeCapAssumption` states that it is far enough.
- `Word` is 2^32 in the program and small here. In `SessionTimers` it is 6, with intervals of 1, 2
  and 3, so that doubling and quadrupling wrap; in the other runs of the session nothing wraps.
- `TicksPerSec` is 1000 in the program; 2 distinguishes a whole second from a part of one,
  and 4 is enough for the two units to fall apart.
- `Urgent`: time passes only while the router has nothing to do. It is used where a
  property is about durations, since otherwise any delay is possible, and to reduce
  the stream run. `SessionDispatch` does without.
- `Segmented = FALSE`: messages arrive whole. It is used where splitting is not the
  question, and where a property fails with it (section 6).
- `MaxDatagrams = 3`: one before, the offer, and one behind. Silence is unbounded. Two connection points
  to an offer: the second overwrites the first.
- One item of a message at a time is varied in `Check`: its rules relate at most two
  items (a duplicate), and the proof covers all messages.
- `InCap = 3`, `OutCap = 4`, `Unread = 2`: with `Unread = 3` TLC finds the standoff, so that the two messages of
  room in `NoStandoff` are needed. The proof is for all capacities.
- The peer types of `Util` are those at the ends of what the two arrays hold; the proof is for all.

`CHECK_DEADLOCK FALSE` throughout: sessions, discoveries, validations and the process end.

### Fairness

`Session`: weak fairness of `Connect`, `Receive`, `Select` and `Tick`. The process is scheduled, calls
return when they can, and time goes on. Each is a disjunction of the steps of one thread that
are never enabled together with each other for good, so weak fairness is enough. None for
`ModemSend`, `Deliver`, `ModemClose`, `ModemReset`, `SystemFails`: a modem owes nothing, and neither
does TCP. `SilenceEndsSession` assumes in its premise that the modem will not write any
more; a modem that goes on sending may hold a session for ever, as it should.

`Backpressure`: weak fairness of the router's steps and of the modem's calls: a `send()` that has room and a
`recv()` that has a message return. None for `BeginsToWrite`: a modem need never write.

`Discovery`: weak fairness of the loop's own steps and of the passage of time in `select()`; none for
arrivals or failures. `Router`: weak fairness of `main()`'s own steps and of the first
steps of each round; how long a session lasts is left open.

## 4. Proofs

Checked by TLAPS (SMT, Zenon, PTL) for every value of the constants that satisfies
the named assumptions of the modules (`MessagesAssumption`, `NumbersAssumption`, `AgeCapAssumption`,
`TicksPerSecAssumption`, `BuffersAssumption`, `CapacityAssumption`, `WriterAssumption`, `DiscoveryAssumption`, `StopwatchAssumption` and those of
`CommandLine`), each of which TLC evaluates in a run. The theorems about the
session's timers have one more hypothesis, `Prompt`.

### The session

**`SessionProofs`** – `Invariance`: `Spec => []IInv`; from it `TypeCorrectness` (`TypeOK`) and
`MessagesInOrder` (`InOrder`): for any set of messages, any bound on them, any intervals and any
way TCP cuts the stream, the messages accepted as valid are a prefix of those written.

`InOrder` alone is not inductive: it does not say what the unread bytes are.
`IInv` (`SessionInv`) adds

- `Framed`: the unread bytes, received or on their way, are whole messages in order; a reset
  may have cut the end off, and part of the first may have been read;
- `AlignedAtHeader`: in the first two states, between messages, the next byte is byte 0 of the
  first message not handled;
- `AlignedAtBody`: within one, the next byte is byte 4 of that message;
- `Control`: what `pc` and `phase` imply of each other and of `cur`.

It holds because `check_message()` compares the length received with the one reported: a
message that came short is not accepted, *and* the session then leaves the loop, so that
the misaligned rest is read only in the termination state, where nothing is accepted.
With the comparison dropped (`Verdict_NoLengthCheck`) TLC finds messages put together from two.

`ModemStaysGone` (`GoneForGood`) is about a modem that is gone, because it reset the connection, or closed it and nothing is left to read:
it stays gone, and every step of the router from then on has fewer calls left to make (`CallsLeft`: up to three for each
byte still to read, as long as the session lives) or changes nothing. That is the part of `GoneEndsSession` that is about the code; what is left is that
a router that may act does act. It needs one more invariant, `Discarded`: nothing is on its way after a reset.

The proof of `IInv` has lemmas on the framing of a byte sequence (what dropping, truncating and
appending preserve), on the byte operations of the actions, on the control state after each
handler, and then one lemma per action, gathered in `NextKeeps`.

**`SessionRefinement`** – `Refinement`: `Spec => KeepsPromise`, the session implements `SessionAbs`. `InitMaps` and `NextMaps` map the
initial states and every step: connecting, ending and the modem's writes each map to their own step of the queue, a message read
to accepting, serving or blaming the head of it, and selecting, receiving a header, timers, deliveries and
time to a stutter. `IInv` is not enough for it. `ReaderInv` adds

- `BufferHolds`: the type field of the buffer, on which a header of one byte falls back, is that of a message
  that was served or of the one being read. Without it a torn header could pass for the response to a termination, and
  the session end in an order that the queue does not know;
- `NotCutUp`: messages that arrive whole stay whole until they are read, so that none of them is blamed for
  its length;
- `StillToCome`: in the termination state what is received was not handled before, unless nothing is left.

`ReaderInvariance` is its proof. What the session owes its peer and its caller then follows from steps of the
queue and not of the bytes: `Farewell` (`LastWord`), `SuccessIsAgreed` (`SuccessMeansGoodbye`) and `GoodbyeAnswered`
(`TermRespAnswersTerm`) from `GoodbyeInv` (`Goodbyes`), which says, phase by phase, how far the goodbyes have come (none while the session
goes on; the last word is a termination while its response is waited for); and `RequestsAnswered` (`Answers`): the
responses are those owed for the requests accepted, one each, in order. `Answers` filters two histories
(`Among`, defined by a recursive function); the lemmas say what appending to them does to it.

**`TimerProofs`** – `IntervalCompareExact`: the borrow of a second makes the comparison exact for all
readings, all intervals and any number of ticks to the second; `ExpiredExact`: a timer
has expired exactly when more than `interval * TicksPerSec` ticks have passed; and `TimersAreExact` (`TimerExact`) that this is so
of a timer at work, however often it is started again. From these, for the two loops:

- `TimersInvariance` (`TimersInv`): `select()`'s timeout is set once, before the loop, to the smaller interval and counted down from there.
  While any of it is left, an age and what is left of it never reach past the interval (`OnTime`); when none is left, every
  turn of the loop looks at the ages. And `last_recv_time` is as recent as the last message, since the clock is
  read after `select()` and the message is there by then (`recvAge = quiet`). `InSessionTimers` says this of `in_session()`; `TermTimers` says
  of `term_session()`, which looks at one message more, that its header or its body is there when it is received;
- `DeadlinesAreKept` (`DeadlinesKept`, which is `InSessionInTime` and `TerminationInTime`): no timer of either loop is found late by more than the
  tick that `interval_compare()` itself needs, or, where a limit wrapped to less than `select()`'s timeout, than what is left of that;
- `GivenUpForSilence` (`TimeoutMeansSilence`): a session is given up for silence only when nothing was received for longer than the
  time `in_session()` checks for, and that is two of the modem's intervals unless their double wraps.

Doubling and quadrupling are in 32 bits, as in the code (`InDeadline`, `TermDeadline`): the theorems hold for every interval, and say of one that
wraps what is kept instead. Their hypothesis `Prompt` is that messages arrive whole and that the router is not slow. Neither is
there for the proof's sake: section 6 has the counterexamples TLC finds without the first, and a router that is not
scheduled keeps no deadline.

### Discovery and `main()`

**`DiscoveryProofs`** – `DiscoveryInvariance` (`DiscoveryInv`), and from it `DiscoveryTypes` (`DiscoveryTypeOK`), `AddressOffered` (`AddressWasOffered`), `Retries`
(`RetriesInTime`), `OffersComeUp` (`OfferComesUp`) and `DiscoveryRefines` (`FindsWhatIsOffered`), for any datagrams, any number of them and any contents of the memory
before. The invariant says of the memory in the middle of a scan what may be said at its end: if a family is set, then what
`connect()` would make of the memory is the place that one of the items passed names, family, port and host together, although each point
overwrites only the fields it has (`Scanning`), and at its end the scope is that of the interface asked on; that no datagram disregarded was an offer; and that the time since the last signal and what is left of the
timeout never exceed the retry interval together, which a datagram received in between cannot change. `OfferComesUp` is the step-wise form of
`OfferEndsDiscovery`: every call that returns while an offer is queued brings it nearer to being read, a timeout included, and a scan goes forward.

**`RouterProofs`** – `RouterInvariance` (`RouterInv`), and from it `HeldWhereOffered` (`SessionsWhereOffered`), `NamedHost` (`HostAsNamed`), `RefusedForCause`
(`Refusals`), `LoopsInOrder` (`StartsOverInOrder`), and four theorems on the parts as they work in the program, round after round: `EverySession` (each of the session's invariants
holds of every session), `EverySessionInTime` (so does `DeadlinesKept`, with `Prompt`), `EverySessionAsPromised` and `EveryDiscoveryAsPromised` (each session and each discovery begins in the
initial state of its abstract specification, and is a run of it until it returns). `Router` extends `Session` and takes discovery and the command line as instances, and so does the proof: `NextKeeps` and
`NextMaps` are used as they are, and the lemmas of `DiscoveryProofs` through `Proven == INSTANCE DiscoveryProofs`. What `RouterInv` adds is the seams:
where the program is, its other parts are at rest or in the states that their invariants
allow; a round of discovery starts from nothing but the address, which still holds what the round before made of it, its scope excepted, which
without `-6` nobody writes; and a session starts from nothing, in its own place only. `HeldWhereOffered` needs the second of these, since discovery clears
the family of the address and nothing else, so that its lemmas may assume nothing of the memory they are given: where no modem is named, the session is held with the
connection point offered, over the interface that `-6` asked on or, without `-6`, over none in particular. Where one is named it is `NamedHost` that says
where: at the port typed and, with `-6`, at the IPv4 host typed; without `-6` at 0.0.0.0 (section 6). `LoopsInOrder` says that the session before a new round
returned 0 and ended with a goodbye; a termination that was not answered is one too, but returns -1.

### Validation, sending and writing

**`CheckProofs`** – `ValidatorsExact` (`VerdictIsRule`), `ParsersStayWithin` (`ParsesWhatWasChecked`) and `ParsersExact`
(`ParsedAsChecked`) for every set of messages of every length, from `WalksInvariant`: after `at` items the `seen_` flags
are exactly the kinds passed, the items passed are in order on their own and without duplicates as
long as the verdict is success, and otherwise the message has a fault; in the second walk the interval,
status and answers are those of the items passed. `WalkEnds` is the lemma that the two walks agree on the end
of a message whose lengths agree. `ParsersExact` contains that an accepted
Session Initialization Response never states an interval of 0: the fact `Session` assumes
in `MessagesAssumption`.

**`BackpressureProofs`** – `StandoffInvariant` (`NoStandoffInv`) and from it `NeverAStandoff` (`NoStandoff`), for all capacities.
The invariant counts: while the modem is blocked in a write and the router's inbox is full, `select()` returns ready, so
from anywhere in the loop the router sends at most a heartbeat and one more message (`SentSince`) before
it is in a `recv()` that does not block. `RoomIsAlwaysMade` (`RoomIsMade`) counts the calls to that `recv()`: each step of either side, while a write waits for
room, makes room or leaves the router fewer of them.

**`WriterProofs`** – `Uint16Kept` and `Uint32Kept`: what the octet helpers write they read back, for every number of their width;
`ArraysHold` (`WithinArray`): no function writes past its array, for any peer type, interval or address; `ReceiverReadsIt`
(`ReadAsMeant`): a receiver finds the message that was meant. The invariant behind the first (`Room`) is that the octets written and those of
the items left never exceed the array. The second needs to know what the octets are (`Text`): the number is where the header says,
the items written lie one behind the other from its end on (`Partly`, `Laid`), and the length, which is written last and over octets that are there already,
touches neither (`Overwritten`). The reader's walk is then followed item by item (`ItemRead`); that the number of octets of an item
fits in the 16 bits it is written in follows from the size of the arrays.

### Recursive functions

`Among` (`Session`) and `Walk` (`Writer`) are recursive functions. To use their equations one has to show that a function
satisfying them exists, which is an induction on their argument. The library's induction theorems
have an operator as a parameter and cannot be applied; a lemma about sets can (`Induction`: a set of numbers with 0 in it and every successor is `Nat`), and it follows
from the library's theorem that a non-empty set of numbers has a least element. `FilterExists` and `WalkExists` are the two uses of it.

### Only model-checked

- Liveness: `SilenceEndsSession`, `GoneEndsSession`, `TerminationEnds`, `WritesComplete`, `OfferEndsDiscovery`, `KeepsAsking`, `ComesBack`. Fairness and `ENABLED` are
  out of the prover's reach. What such a property needs of the code, as distinct from the scheduler, is proved where it is more than one step:
  that the steps taken lead there, each nearer than the last (`GoneForGood` for `GoneEndsSession`, `RoomIsMade` for `WritesComplete`,
  `OfferComesUp` for `OfferEndsDiscovery`), or by when (the two parts of `DeadlinesKept`, for `SilenceEndsSession` and `TerminationEnds`).
  That a step is enabled and taken is TLC's part.
- The four runs of section 6, which are expected to fail.

No module uses `RECURSIVE`.

## 5. What is not modelled, and why

- **Logging.** Metrics, names and texts appear as far as a check or a parser depends on them;
  `formatAddress()` and the other printing functions are wording, without state.
- **Protocol numbers** that no model tells apart (`Dlep`, `Writer`): `Check` speaks of data items by name.
- **Bytes under back-pressure.** `Backpressure` counts messages, whole; what a router that is killed in a
  `send()` has written of one is not modelled.
- **A datagram dropped between `select()` and `recvfrom()`** for its checksum, which would block
  discovery.
- **The wait for the Session Initialization Response** has no timeout: a modem that accepts
  the connection, stays and says nothing holds the router for ever. It is in the model (`Tick` and the
  modem's steps are all that is left); `GoneEndsSession` is what is promised, of a modem that is gone.
- **Signals** that would interrupt `select()`: any failure of it is `SystemFails`.

## 6. Where the code and its comments part

Runs that end in a counterexample; `PROJECT.json` quotes the lines.

- `SessionUnits`: intervals are milliseconds for the protocol, `-H` and `select()`, and seconds for
  `interval_compare()`. Heartbeats "promptly" sent and checked come 1000 times late.
- `SessionSplit`: "Receive the rest of the message" receives what has arrived of it. A valid request
  whose header and half of whose body have arrived is answered with Session Termination, Invalid Data. (`RestOfMessage` is about bodies
  only: `WithinBody` says that the header came whole.)
- `CheckMtu`: an MTU data item is valid with two octets, and four are read; and the last item of a message may
  state more octets than the message has, since only `check_peer_offer_signal()` asks.
- `CommandLineHost`: without `-6` the text of an IPv4 address is never parsed, and the session is held
  with 0.0.0.0. (An IPv6 address is refused with or without `-6`, since it has to be one of
  IPv4 as well; and without `-H` the interval is 30 milliseconds, which `-h` calls 0.)

**Limits of properties that hold.** Some properties hold under conditions the code does not enforce, as
changing constants of their runs shows:

- `SilenceEndsSession` and `TerminationEnds` need messages that arrive whole. With `Segmented = TRUE`, `Messages <- StreamMessages`,
  `MaxSent = 2`, `TicksPerSec = 1`, `router_heartbeat_interval = 1`, `Word = 16` and `AgeCap = 5` TLC shows a modem that stops within a message:
  `select()` has returned for the header, and the `recv()` for the body has no timeout. No heartbeat is sent or checked, and a termination
  does not end.
- `TimeoutMeansSilence` and both parts of `DeadlinesKept` need the same. With `Segmented = TRUE`, `Messages <- TimerBodies`, `Word = 32`,
  `router_heartbeat_interval = 3`, `TicksPerSec = 1`, `AgeCap = 17` and `MaxSent = 2` a message that takes long to arrive counts from when it
  began, since `last_recv_time` is the clock reading before `recv()`: the modem is given up too early, and
  while the message is waited for no timer is looked at.
- An interval whose double does not fit in 32 bits is held to the wrapped number. In `SessionTimers`, where `Word = 6`, a modem that announces
  3 is given up when `select()`'s timeout of 3 is used up, before it has missed a heartbeat; `TimeoutMeansSilence` says what
  holds then.
- `NoStandoff` needs two messages of room beyond what the modem leaves unread. A modem that leaves more may block in a write
  while the router blocks in its own `send()`, for ever: neither has a timeout.
- `AddressWasOffered` and `SessionsWhereOffered` say nothing of `sin6_flowinfo`, which no function writes as such: when an IPv6 connection
  point follows an IPv4 one, in an offer or from round to round, the IPv4 address is still there, and `connect()` reads it. For `Discovery`,
  `Target(address).flow = Zeros` fails in TLC; what flow a modem should be called with, no line of the repository says.
- `SelectTimeout` takes `select()`'s return and the sends of the same turn as one step: a reset that arrives in between is not explored as a
  step of its own. A session that such a reset ends, by `SIGPIPE` or with a failed `send()` or `recv()`, ends as one that was reset before
  (`SelectReady`) or after.
- `DeadlinesKept` holds although `select()`'s timeout is set once, before the loop (line 943), and counted
  down by `select()`. Once it is used up the loop no longer waits but polls, until the session ends: the timers
  are kept, at the processor's expense.

Further: `SessionAbs` lets any message pass for the answer to a Session Termination,
as `term_session()` does (its TODO says so). A modem that does not answer a
termination makes `term_session()` announce that it is "resetting session" and return -1, on
which the process exits, although the last message written was a termination: `StartsOverInOrder` therefore asks for the result of 0 as well. A modem that
was silent and does answer the termination is called upon again. And an invalid datagram is followed by the next Peer Discovery
signal at once, so that `DEFAULT_DISCOVERY_RETRY` is a longest and not a shortest delay
(`RetriesInTime` states the one that holds).

## 7. Plan

All four blocks are done.

1. `Dlep`, `Clock`, `Session` with its dispatch, stream and timer runs; `SessionAbs` and the refinement;
   `SessionInv` and `SessionProofs`; `Check` and `CheckProofs`; `TimerProofs`; `Discovery`; `Router`; `CommandLine`.
2. `CommandLine` as the first part of `Router`; the fields of `struct sockaddr_storage` (`Sockaddr`); `DiscoveryAbs` and its refinement;
   where a message ends for each walk of `Check`; connections that hold only so much (`Backpressure`); the
   octets of what is written (`Octets`, `Writer`); deadlines and a modem that is gone in `Session`.
3. Every safety invariant that a run checks, from an inductive invariant of its own; the two refinements, step by
   step; the timers; the composition in `Router`, where each discovery and session implements its abstract specification; the message as a receiver reads it.
4. The step-wise halves of the liveness properties (`GoneForGood`, `RoomIsMade`, `OfferComesUp`); the timers of both loops for
   every interval, those that wrap included, and in every session of the program. What is left is liveness
   itself, for a prover that has `ENABLED` and fairness.

`Check` in place of `Session`'s `ok` (a session over messages with data items) is left out: `ParsedAsChecked` and
`VerdictIsRule`, proved for every message, are what `Session` takes from it.
