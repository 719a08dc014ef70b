---------------------------- MODULE TimerProofs ----------------------------
(***************************************************************************)
(* interval_compare() is exact for every pair of readings, every interval  *)
(* and every resolution of the clock; and with it in_session()'s two       *)
(* timers, whatever their intervals and whatever the modem sends, as long  *)
(* as its messages arrive whole.                                           *)
(***************************************************************************)
EXTENDS SessionRefinement, Stopwatch

-----------------------------------------------------------------------------
(* interval_compare().                                                     *)

\* Multiplying by the ticks of a second keeps the order.
LEMMA Scaled ==
  ASSUME NEW a \in Int, NEW b \in Int, a < b
  PROVE  a * TicksPerSec + TicksPerSec <= b * TicksPerSec
<1>1. TicksPerSec \in Nat /\ TicksPerSec > 0
  BY TicksPerSecAssumption
<1>2. PICK d \in Nat : b = a + 1 + d
  <2>1. b - a - 1 \in Nat /\ b = a + 1 + (b - a - 1)
    OBVIOUS
  <2> QED
    BY <2>1
<1>3. b * TicksPerSec = a * TicksPerSec + TicksPerSec + d * TicksPerSec
  BY <1>1, <1>2
<1>4. d * TicksPerSec \in Nat /\ a * TicksPerSec \in Int
  BY <1>1
<1> QED
  BY <1>1, <1>3, <1>4

\* The difference is normalised and stands for the time between the readings.
LEMMA DifferenceExact ==
  ASSUME NEW start \in Timespec, NEW end \in Timespec
  PROVE  LET diff == Difference(start, end) IN
         /\ diff.sec \in Int /\ diff.nsec \in 0..(TicksPerSec - 1)
         /\ diff.sec * TicksPerSec + diff.nsec = Ticks(end) - Ticks(start)
<1>1. /\ start.sec \in Nat /\ end.sec \in Nat
      /\ start.nsec \in 0..(TicksPerSec - 1) /\ end.nsec \in 0..(TicksPerSec - 1)
      /\ TicksPerSec \in Nat /\ TicksPerSec > 0
  BY TicksPerSecAssumption DEF Timespec
<1>2. /\ (end.sec - start.sec) * TicksPerSec
           = end.sec * TicksPerSec - start.sec * TicksPerSec
      /\ (end.sec - start.sec - 1) * TicksPerSec
           = end.sec * TicksPerSec - start.sec * TicksPerSec - TicksPerSec
      /\ end.sec * TicksPerSec \in Int /\ start.sec * TicksPerSec \in Int
  BY <1>1
<1>3. CASE end.nsec < start.nsec
  <2>1. /\ Difference(start, end).sec = end.sec - start.sec - 1
        /\ Difference(start, end).nsec = end.nsec - start.nsec + TicksPerSec
    BY <1>3 DEF Difference
  <2> QED
    BY <1>1, <1>2, <1>3, <2>1 DEF Ticks
<1>4. CASE ~(end.nsec < start.nsec)
  <2>1. /\ Difference(start, end).sec = end.sec - start.sec
        /\ Difference(start, end).nsec = end.nsec - start.nsec
    BY <1>4 DEF Difference
  <2> QED
    BY <1>1, <1>2, <1>4, <2>1 DEF Ticks
<1> QED
  BY <1>3, <1>4

\* interval_compare() says "more" exactly when more than the interval has passed
\* between the readings, and "less" exactly when less has.
THEOREM IntervalCompareExact ==
  ASSUME NEW start \in Timespec, NEW end \in Timespec, NEW interval \in Nat
  PROVE  ComparesElapsedTime(start, end, interval)
<1> DEFINE diff    == Difference(start, end)
           elapsed == Ticks(end) - Ticks(start)
           limit   == interval * TicksPerSec
<1>1. /\ diff.sec \in Int /\ diff.nsec \in 0..(TicksPerSec - 1)
      /\ diff.sec * TicksPerSec + diff.nsec = elapsed
      /\ TicksPerSec \in Nat
  BY DifferenceExact, TicksPerSecAssumption
<1>2. interval_compare(start, end, interval) =
        IF diff.sec < interval THEN -1
        ELSE IF diff.sec > interval \/ diff.nsec > 0 THEN 1 ELSE 0
  BY DEF interval_compare
<1>3. diff.sec * TicksPerSec \in Int /\ limit \in Int /\ elapsed \in Int
  BY <1>1
<1>4. /\ diff.sec < interval => diff.sec * TicksPerSec + TicksPerSec <= limit
      /\ diff.sec > interval => limit + TicksPerSec <= diff.sec * TicksPerSec
      /\ diff.sec = interval => diff.sec * TicksPerSec = limit
  BY <1>1, Scaled
<1> HIDE DEF diff, limit, elapsed
<1>5. CASE diff.sec < interval
  <2>1. elapsed < limit
    BY <1>1, <1>3, <1>4, <1>5
  <2>2. interval_compare(start, end, interval) = -1
    BY <1>2, <1>5
  <2> QED
    BY <1>3, <2>1, <2>2 DEF ComparesElapsedTime, elapsed, limit
<1>6. CASE diff.sec > interval
  <2>1. elapsed > limit
    BY <1>1, <1>3, <1>4, <1>6
  <2>2. interval_compare(start, end, interval) = 1
    BY <1>1, <1>2, <1>6
  <2> QED
    BY <1>3, <2>1, <2>2 DEF ComparesElapsedTime, elapsed, limit
<1>7. CASE diff.sec = interval
  <2>1. elapsed = limit + diff.nsec
    BY <1>1, <1>4, <1>7
  <2>2. interval_compare(start, end, interval) = IF diff.nsec > 0 THEN 1 ELSE 0
    BY <1>1, <1>2, <1>7
  <2> QED
    BY <1>1, <1>3, <2>1, <2>2 DEF ComparesElapsedTime, elapsed, limit
<1> QED
  BY <1>1, <1>5, <1>6, <1>7

\* The reading of the clock at an age stands for that age.
LEMMA TimespecExact ==
  ASSUME NEW age \in Nat
  PROVE  ToTimespec(age) \in Timespec /\ Ticks(ToTimespec(age)) = age
<1>1. TicksPerSec \in Nat /\ TicksPerSec > 0
  BY TicksPerSecAssumption
<1> DEFINE q == age \div TicksPerSec
           r == age % TicksPerSec
<1>2. q \in Nat /\ r \in 0..(TicksPerSec - 1)
  BY <1>1
<1>3. age = q * TicksPerSec + r
  <2>1. ASSUME NEW x \in Int, x = q, NEW y \in Int, y = r
        PROVE  age = x * TicksPerSec + y
    BY <1>1, <2>1
  <2> QED
    BY <1>2, <2>1
<1>4. /\ ToTimespec(age) \in Timespec
      /\ ToTimespec(age).sec = q /\ ToTimespec(age).nsec = r
  BY <1>2 DEF ToTimespec, Timespec
<1> HIDE DEF q, r
<1> QED
  BY <1>3, <1>4 DEF Ticks

\* The session's timers expire when more than the interval, counted in seconds,
\* is over.
THEOREM ExpiredExact ==
  ASSUME NEW age \in Nat, NEW interval \in Nat
  PROVE  Expired(age, interval) <=> age > interval * TicksPerSec
<1>1. /\ ToTimespec(0) \in Timespec /\ Ticks(ToTimespec(0)) = 0
      /\ ToTimespec(age) \in Timespec /\ Ticks(ToTimespec(age)) = age
  BY TimespecExact
<1>2. ComparesElapsedTime(ToTimespec(0), ToTimespec(age), interval)
  BY <1>1, IntervalCompareExact
<1> QED
  BY <1>1, <1>2 DEF ComparesElapsedTime, Expired

-----------------------------------------------------------------------------
(* Ages, and what is left of select()'s timeout.                           *)

\* A tick makes an age at most one tick older.
LEMMA OlderByOne ==
  ASSUME NEW age \in 0..AgeCap
  PROVE  Older(age) \in Nat /\ Older(age) <= age + 1
<1>1. AgeCap \in Nat /\ age \in Nat
  BY NumbersAssumption
<1>2. Older(age) = IF age + 1 < AgeCap THEN age + 1 ELSE AgeCap
  BY DEF Older, Least
<1> QED
  BY <1>1, <1>2

\* An interval takes no more ticks when they are counted in milliseconds.
LEMMA ShortInTicks ==
  ASSUME NEW interval \in Nat, NEW limit \in Nat, interval <= limit
  PROVE  limit * TicksPerSec \in Nat /\ interval <= limit * TicksPerSec
<1>1. TicksPerSec \in Nat /\ TicksPerSec > 0
  BY TicksPerSecAssumption
<1>2. PICK d \in Nat : TicksPerSec = d + 1
  <2>1. TicksPerSec - 1 \in Nat /\ TicksPerSec = (TicksPerSec - 1) + 1
    BY <1>1
  <2> QED
    BY <2>1
<1>3. limit * TicksPerSec = limit * d + limit /\ limit * d \in Nat
  BY <1>2
<1> QED
  BY <1>3

\* A limit is a number, however many intervals it is and wherever they wrap.
LEMMA LimitsTyped ==
  ASSUME NEW h \in Nat
  PROVE  InDeadline(h) \in Nat /\ TermDeadline(h) \in Nat
<1>1. Word \in Nat /\ Word > 0 /\ h * 2 \in Nat /\ h * 4 \in Nat
  BY NumbersAssumption
<1>2. (h * 2) % Word \in Nat /\ (h * 4) % Word \in Nat
  BY <1>1
<1> QED
  BY <1>2 DEF InDeadline, TermDeadline

\* The latest a timer expires is no sooner than the wait and the tick after its limit.
LEMMA LatestBounds ==
  ASSUME NEW wait \in Nat, NEW limit \in Nat
  PROVE  /\ limit * TicksPerSec \in Nat
         /\ Latest(wait, limit) \in Nat
         /\ wait <= Latest(wait, limit)
         /\ limit * TicksPerSec + 1 <= Latest(wait, limit)
         /\ wait <= limit => Latest(wait, limit) = limit * TicksPerSec + 1
<1> DEFINE ticks == limit * TicksPerSec
<1>1. ticks \in Nat /\ (wait <= limit => wait <= ticks)
  <2>1. ticks \in Nat
    BY TicksPerSecAssumption
  <2> QED
    BY <2>1, ShortInTicks
<1>2. Latest(wait, limit) = IF ticks + 1 < wait THEN wait ELSE ticks + 1
  BY DEF Latest
<1> HIDE DEF ticks
<1>3. /\ Latest(wait, limit) \in Nat
      /\ wait <= Latest(wait, limit)
      /\ ticks + 1 <= Latest(wait, limit)
      /\ wait <= limit => Latest(wait, limit) = ticks + 1
  BY <1>1, <1>2
<1> QED
  BY <1>1, <1>3 DEF ticks

\* A timer restarted is on time.
LEMMA RestartedOnTime ==
  ASSUME NEW left \in Nat, NEW wait \in Nat, NEW limit \in Nat, left <= wait
  PROVE  OnTime(0, left, wait, limit)
<1>1. Latest(wait, limit) \in Nat
  BY LatestBounds
<1> QED
  BY <1>1 DEF OnTime

\* So is one restarted while another goes on.
LEMMA RestartKeepsTime ==
  ASSUME NEW age \in Nat, NEW left \in Nat, NEW wait \in Nat, NEW limit \in Nat,
         OnTime(age, left, wait, limit)
  PROVE  OnTime(0, left, wait, limit)
<1>1. Latest(wait, limit) \in Nat
  BY LatestBounds
<1> QED
  BY <1>1 DEF OnTime

\* A tick keeps a timer on time that select() waits for, or that has not expired
\* once there is nothing left to wait for.
LEMMA TickOnTime ==
  ASSUME NEW age \in Nat, NEW later \in Nat, NEW left \in Nat,
         NEW wait \in Nat, NEW limit \in Nat,
         later <= age + 1, OnTime(age, left, wait, limit),
         left = 0 => ~Expired(age, limit)
  PROVE  OnTime(later, IF left > 0 THEN left - 1 ELSE left, wait, limit)
<1> DEFINE ticks == limit * TicksPerSec
           latest == Latest(wait, limit)
<1>1. /\ ticks \in Nat /\ latest \in Nat
      /\ wait <= latest /\ ticks + 1 <= latest
  BY LatestBounds
<1>2. left = 0 => age <= ticks
  BY <1>1, ExpiredExact
<1>3. IF left > 0 THEN age + left <= wait ELSE age <= latest
  BY DEF OnTime
<1> HIDE DEF ticks, latest
<1>4. LET rest == IF left > 0 THEN left - 1 ELSE left
      IN  IF rest > 0 THEN later + rest <= wait ELSE later <= latest
  BY <1>1, <1>2, <1>3
<1> QED
  BY <1>4 DEF OnTime, latest

\* A timer that is on time has not passed the latest moment of its expiry.
LEMMA OnTimeMeans ==
  ASSUME NEW age \in Nat, NEW left \in Nat, NEW wait \in Nat, NEW limit \in Nat,
         OnTime(age, left, wait, limit)
  PROVE  age <= Latest(wait, limit)
<1>1. Latest(wait, limit) \in Nat /\ wait <= Latest(wait, limit)
  BY LatestBounds
<1> DEFINE latest == Latest(wait, limit)
<1>2. IF left > 0 THEN age + left <= wait ELSE age <= latest
  BY DEF OnTime
<1> HIDE DEF latest
<1>3. age <= latest
  BY <1>1, <1>2 DEF latest
<1> QED
  BY <1>3 DEF latest

\* Short of a wrap, two intervals are two intervals.
LEMMA TwoIntervals ==
  ASSUME NEW h \in Nat, 2 * h < Word
  PROVE  InDeadline(h) = 2 * h
<1>1. Word \in Nat /\ Word > 0
  BY NumbersAssumption
<1>2. h * 2 \in Nat /\ h * 2 < Word /\ h * 2 = 2 * h
  BY <1>1
<1>3. (h * 2) % Word = h * 2
  BY <1>1, <1>2
<1> QED
  BY <1>2, <1>3 DEF InDeadline

-----------------------------------------------------------------------------
(* The timers of in_session(), step by step.                               *)

\* The state that the timers are in.
LEMMA TimerTypes ==
  ASSUME TypeOK
  PROVE  /\ {recvAge, sentAge, nowAge, quiet} \subseteq 0..AgeCap
         /\ {recvAge, sentAge, nowAge, quiet} \subseteq Nat
         /\ modem_heartbeat_interval \in Nat /\ timeout \in Nat
         /\ router_heartbeat_interval \in Nat
         /\ Wait \in Nat /\ Wait <= router_heartbeat_interval
<1>1. /\ {recvAge, sentAge, nowAge, quiet} \subseteq 0..AgeCap
      /\ {recvAge, sentAge, nowAge, quiet} \subseteq Nat
      /\ modem_heartbeat_interval \in Nat /\ timeout \in Nat
      /\ router_heartbeat_interval \in Nat
  BY NumbersAssumption DEF TypeOK
<1> QED
  BY <1>1 DEF Wait, Least

\* A message received restarts the modem's timer, the first one both.
LEMMA ReceivedInTime ==
  ASSUME TypeOK, InSessionTimers, phase \in {"init", "in"}, pc # "select",
         NEW m \in Message, NEW received \in Nat,
         Received(m, received)
  PROVE  InSessionTimers'
<1> SUFFICES ASSUME phase' = "in" PROVE InSessionTimers'
  BY DEF InSessionTimers
<1>1. m.hb \in Nat /\ router_heartbeat_interval \in Nat /\ quiet' = 0
  BY NumbersAssumption DEF Message, Received
<1>2. CASE phase = "init"
  <2>1. InSession(m.hb)
    <3>1. InitResponse(m, received)
      BY <1>2 DEF Received
    <3>2. ~Return("fail") /\ ~SendSessionTerm(SC_SHUTDOWN, m.hb, out)
      BY DEF Return, SendSessionTerm, TermSession
    <3> QED
      BY <3>1, <3>2 DEF InitResponse
  <2>2. /\ modem_heartbeat_interval' = m.hb
        /\ timeout' = Least(m.hb, router_heartbeat_interval)
        /\ recvAge' = 0 /\ sentAge' = 0 /\ pc' = "select"
    BY <2>1 DEF InSession
  <2>3. Wait' = timeout'
    BY <2>2 DEF Wait
  <2>4. timeout' \in Nat /\ timeout' <= timeout'
    BY <1>1, <2>2 DEF Least
  <2>5. InDeadline(m.hb) \in Nat
    BY <1>1, LimitsTyped
  <2>6. /\ OnTime(0, timeout', timeout', router_heartbeat_interval)
        /\ OnTime(0, timeout', timeout', InDeadline(m.hb))
    BY <1>1, <2>4, <2>5, RestartedOnTime
  <2> QED
    BY <1>1, <2>2, <2>3, <2>6 DEF InSessionTimers
<1>3. CASE phase = "in"
  <2>1. m.type # SESSION_TERM /\ Serve(m)
    <3>1. HandleMessage(m, received)
      BY <1>3 DEF Received
    <3>2. /\ ~Terminated
          /\ ~SendSessionTerm(StatusOf(m, received), modem_heartbeat_interval, out)
      BY DEF Return, SendSessionTerm, TermSession, Terminated
    <3> QED
      BY <3>1, <3>2 DEF HandleMessage
  <2>2. WaitAgain(nowAge)
    <3>1. ~Return("killed")
      BY DEF Return
    <3> QED
      BY <2>1, <3>1 DEF Serve
  <2>3. /\ pc' = "select" /\ recvAge' = 0
        /\ UNCHANGED <<modem_heartbeat_interval, timeout, sentAge>>
    BY <1>3, <2>2 DEF WaitAgain, InSessionTimers
  <2>4. InDeadline(modem_heartbeat_interval) \in Nat
    BY TimerTypes, LimitsTyped
  <2>5. OnTime(0, timeout, Wait, InDeadline(modem_heartbeat_interval))
    BY <1>3, <2>4, TimerTypes, RestartKeepsTime DEF InSessionTimers
  <2>6. Wait' = Wait
    BY <2>3 DEF Wait
  <2> QED
    BY <1>1, <1>3, <2>3, <2>5, <2>6 DEF InSessionTimers
<1> QED
  BY <1>2, <1>3

\* recv() of a header does, or leaves a body to wait for.
LEMMA RecvHeaderInTime ==
  ASSUME IInv, InSessionTimers, RecvHeader
  PROVE  InSessionTimers'
<1> SUFFICES ASSUME phase' = "in" PROVE InSessionTimers'
  BY DEF InSessionTimers
<1> DEFINE size == Least(4, Len(stream))
<1>1. pc = "header" /\ stream # <<>> /\ Take(size)
  BY DEF RecvHeader
<1>2. PICK m \in Decode(stream[1]) :
        LET mm == [m EXCEPT !.type = HeaderType(m, size)]
        IN  \/ /\ pc' = "body" /\ cur' = m
               /\ UNCHANGED <<phase, ret, history, timers, quiet>>
            \/ Received(mm, size)
  BY DEF RecvHeader
<1>3. m \in Messages /\ m \in Message /\ m.hb \in Nat
  BY <1>1, NextMessage, MessagesAssumption DEF Message
<1>4. CASE UNCHANGED <<phase, timers, quiet>> /\ pc' = "body"
  <2>1. nowAge' = nowAge /\ UNCHANGED <<modem_heartbeat_interval, timeout, recvAge, sentAge>>
    BY <1>1, <1>4 DEF Take, timers
  <2>2. Wait' = Wait
    BY <2>1 DEF Wait
  <2> QED
    BY <1>1, <1>4, <2>1, <2>2 DEF InSessionTimers
<1>5. CASE Received([m EXCEPT !.type = HeaderType(m, size)], size)
  <2> DEFINE mm == [m EXCEPT !.type = HeaderType(m, size)]
  <2>1. TypeOK /\ bufType \in Nat /\ m.type \in Nat
    BY <1>3 DEF IInv, TypeOK, Message
  <2>2. size \in Nat
    BY NetworkFacts DEF Least
  <2>3. mm \in Message
    <3>1. HeaderType(m, size) \in Nat
      BY <1>3, <2>1, <2>2, HeaderTypeOK
    <3> QED
      BY <1>3, <3>1 DEF Message
  <2>4. phase \in {"init", "in"}
    BY <1>5 DEF Received, TermMessage, Return
  <2>5. Received(mm, size)
    BY <1>5
  <2> HIDE DEF mm, size
  <2> QED
    BY <1>1, <1>3, <2>1, <2>2, <2>3, <2>4, <2>5, ReceivedInTime
<1> QED
  BY <1>2, <1>4, <1>5

\* So does recv() of a body.
LEMMA RecvBodyInTime ==
  ASSUME IInv, InSessionTimers, RecvBody
  PROVE  InSessionTimers'
<1> SUFFICES ASSUME phase' = "in" PROVE InSessionTimers'
  BY DEF InSessionTimers
<1> DEFINE size == Least(cur.len, Len(stream))
<1>1. pc = "body" /\ Received(cur, 4 + size)
  BY DEF RecvBody
<1>2. TypeOK /\ cur \in Messages
  BY <1>1 DEF IInv, Control
<1>3. cur \in Message /\ cur.len \in Nat
  BY <1>2, MessagesAssumption DEF Message
<1>4. 4 + size \in Nat
  BY <1>3, NetworkFacts DEF Least
<1>5. phase \in {"init", "in"}
  BY <1>1 DEF Received, TermMessage, Return
<1> QED
  BY <1>1, <1>2, <1>3, <1>4, <1>5, ReceivedInTime

\* select() returns because there is something to read; a heartbeat that is due
\* restarts the router's timer.
LEMMA SelectReadyInTime ==
  ASSUME IInv, InSessionTimers, SelectReady
  PROVE  InSessionTimers'
<1> SUFFICES ASSUME phase' = "in" PROVE InSessionTimers'
  BY DEF InSessionTimers
<1>1. PICK result \in HeartbeatResults :
        IF result = "sigpipe"
          THEN Return("killed")
          ELSE /\ pc' = "header"
               /\ sentAge' = IF result = "not due" THEN sentAge ELSE 0
               /\ UNCHANGED <<phase, ret, modem_heartbeat_interval, timeout, recvAge>>
  BY DEF SelectReady
<1>2. ~Return("killed")
  BY DEF Return
<1>3. /\ phase = "in" /\ Readable /\ nowAge' = 0 /\ pc' = "header"
      /\ UNCHANGED <<peer, sent, flight, stream, quiet,
                     modem_heartbeat_interval, timeout, recvAge>>
      /\ sentAge' \in {sentAge, 0}
  BY <1>1, <1>2 DEF SelectReady, network
<1>4. Readable' /\ Wait' = Wait
  BY <1>3 DEF Readable, Eof, Wait
<1>5. TypeOK
  BY DEF IInv
<1>6. OnTime(sentAge', timeout, Wait, router_heartbeat_interval)
  BY <1>3, <1>5, TimerTypes, RestartKeepsTime DEF InSessionTimers
<1> QED
  BY <1>3, <1>4, <1>6 DEF InSessionTimers

\* With the timeout used up the loop turns, and goes on if the modem is not late.
LEMMA SelectTimeoutInTime ==
  ASSUME IInv, InSessionTimers, SelectTimeout
  PROVE  InSessionTimers'
<1> SUFFICES ASSUME phase' = "in" PROVE InSessionTimers'
  BY DEF InSessionTimers
<1>1. PICK result \in HeartbeatResults :
        IF ModemSilent
          THEN SendSessionTerm(SC_TIMEDOUT, modem_heartbeat_interval, AfterHeartbeat(result))
          ELSE /\ sentAge' = IF result = "not due" THEN sentAge ELSE 0
               /\ UNCHANGED <<control, modem_heartbeat_interval, timeout, recvAge>>
  BY DEF SelectTimeout
<1>2. ~SendSessionTerm(SC_TIMEDOUT, modem_heartbeat_interval, AfterHeartbeat(result))
  BY DEF Return, SendSessionTerm, TermSession
<1>3. /\ phase = "in" /\ pc' = "select" /\ quiet' = quiet
      /\ UNCHANGED <<modem_heartbeat_interval, timeout, recvAge>>
      /\ sentAge' \in {sentAge, 0}
  BY <1>1, <1>2 DEF SelectTimeout, control
<1>4. TypeOK /\ Wait' = Wait
  BY <1>3 DEF IInv, Wait
<1>5. OnTime(sentAge', timeout, Wait, router_heartbeat_interval)
  BY <1>3, <1>4, TimerTypes, RestartKeepsTime DEF InSessionTimers
<1> QED
  BY <1>3, <1>4, <1>5 DEF InSessionTimers

\* Time passes while select() waits, or while neither timer has expired.
LEMMA TickInTime ==
  ASSUME Prompt, IInv, ReaderInv, InSessionTimers, Tick
  PROVE  InSessionTimers'
<1> SUFFICES ASSUME phase = "in" PROVE InSessionTimers'
  BY DEF InSessionTimers, Tick, control
<1>1. /\ timeout' = IF pc = "select" /\ timeout > 0 THEN timeout - 1 ELSE timeout
      /\ recvAge' = Older(recvAge) /\ sentAge' = Older(sentAge) /\ quiet' = Older(quiet)
      /\ UNCHANGED <<phase, pc, modem_heartbeat_interval>>
      /\ Idle
  BY DEF Tick, control, Prompt
<1>2. pc = "select"
  <2>1. pc = "header" => Readable
    BY DEF InSessionTimers
  <2>2. pc = "body" => stream # <<>>
    BY DEF ReaderInv, NotCutUp, Prompt
  <2> QED
    BY <1>1, <2>1, <2>2 DEF Idle, Readable
<1>3. timeout = 0 => ~HeartbeatDue /\ ~ModemSilent
  BY <1>1, <1>2 DEF Idle, NothingDue
<1>4. TypeOK /\ Wait' = Wait
  BY <1>1 DEF IInv, Wait
<1>5. InDeadline(modem_heartbeat_interval) \in Nat /\ recvAge = quiet
  BY <1>4, TimerTypes, LimitsTyped DEF InSessionTimers
<1>6. timeout = 0 => /\ ~Expired(sentAge, router_heartbeat_interval)
                     /\ ~Expired(quiet, InDeadline(modem_heartbeat_interval))
  BY <1>3, <1>5 DEF HeartbeatDue, ModemSilent
<1>7. /\ sentAge' \in Nat /\ sentAge' <= sentAge + 1
      /\ quiet' \in Nat /\ quiet' <= quiet + 1
  BY <1>1, <1>4, TimerTypes, OlderByOne
<1>8. timeout' = IF timeout > 0 THEN timeout - 1 ELSE timeout
  BY <1>1, <1>2
<1>9. /\ OnTime(sentAge, timeout, Wait, router_heartbeat_interval)
      /\ OnTime(quiet, timeout, Wait, InDeadline(modem_heartbeat_interval))
  BY DEF InSessionTimers
<1>10. OnTime(sentAge', timeout', Wait, router_heartbeat_interval)
  BY <1>4, <1>6, <1>7, <1>8, <1>9, TimerTypes, TickOnTime
<1>11. OnTime(quiet', timeout', Wait, InDeadline(modem_heartbeat_interval))
  BY <1>4, <1>5, <1>6, <1>7, <1>8, <1>9, TimerTypes, TickOnTime
<1> QED
  BY <1>1, <1>2, <1>4, <1>5, <1>10, <1>11 DEF InSessionTimers

\* What the modem and the network do leaves something to read where there was.
LEMMA NetworkLeavesReadable ==
  ASSUME IInv, ModemStep
  PROVE  /\ UNCHANGED <<phase, pc, modem_heartbeat_interval, timeout,
                        recvAge, sentAge, nowAge, quiet>>
         /\ Readable => Readable'
         /\ stream # <<>> => stream' # <<>>
<1>1. UNCHANGED <<phase, pc, modem_heartbeat_interval, timeout,
                  recvAge, sentAge, nowAge, quiet>>
  BY DEF ModemStep, ModemSend, Deliver, ModemClose, ModemReset, control, timers
<1>2. CASE \E m \in Messages : ModemSend(m)
  BY <1>1, <1>2 DEF ModemSend, Readable, Eof
<1>3. CASE \E k \in 1..Len(flight) : Deliver(k)
  <2>1. PICK k \in 1..Len(flight) : Deliver(k)
    BY <1>3
  <2>2. flight # <<>> /\ peer' = peer
    BY <2>1 DEF Deliver
  <2>3. stream # <<>> => stream' # <<>>
    <3>1. /\ stream' = stream \o SubSeq(flight, 1, k)
          /\ stream \in Seq(Cell) /\ SubSeq(flight, 1, k) \in Seq(Cell)
      BY <2>1, NetworkFacts, Part DEF Deliver
    <3>2. Len(stream') = Len(stream) + Len(SubSeq(flight, 1, k))
      BY <3>1, Concatenation
    <3>3. Len(stream) \in Nat /\ Len(SubSeq(flight, 1, k)) \in Nat
      BY <3>1, LenProperties
    <3>4. stream # <<>> => Len(stream) # 0
      BY <3>1, EmptySeq
    <3>5. stream' = <<>> => Len(stream') = 0
      BY EmptySeq
    <3> QED
      BY <3>2, <3>3, <3>4, <3>5
  <2> QED
    BY <1>1, <2>2, <2>3 DEF Readable, Eof
<1>4. CASE ModemClose
  BY <1>1, <1>4 DEF ModemClose, Readable, Eof
<1>5. CASE ModemReset
  BY <1>1, <1>5 DEF ModemReset, Readable
<1> QED
  BY <1>2, <1>3, <1>4, <1>5 DEF ModemStep

\* Every step keeps the timers of in_session().
LEMMA NextInTime ==
  ASSUME Prompt, IInv, ReaderInv, InSessionTimers, [Next]_vars
  PROVE  InSessionTimers'
<1>1. CASE Connect
  BY <1>1 DEF Connect, InSessionTimers
<1>2. CASE RecvHeader \/ RecvBody
  BY <1>2, RecvHeaderInTime, RecvBodyInTime
<1>3. CASE RecvFails \/ SystemFails
  BY <1>3 DEF RecvFails, SystemFails, Return, InSessionTimers
<1>4. CASE SelectReady \/ SelectTimeout
  BY <1>4, SelectReadyInTime, SelectTimeoutInTime
<1>5. CASE TermSelectReady \/ TermSelectTimeout
  BY <1>5 DEF TermSelectReady, TermSelectTimeout, Return, control, InSessionTimers
<1>6. CASE ModemStep
  <2>1. Wait' = Wait
    BY <1>6, NetworkLeavesReadable DEF Wait
  <2> QED
    BY <1>6, <2>1, NetworkLeavesReadable DEF InSessionTimers
<1>7. CASE Tick
  BY <1>7, TickInTime
<1>8. CASE UNCHANGED vars
  <2>1. UNCHANGED <<phase, pc, peer, flight, stream, modem_heartbeat_interval,
                    timeout, recvAge, sentAge, nowAge, quiet>>
    BY <1>8 DEF vars, control, network, timers
  <2> QED
    BY <2>1 DEF InSessionTimers, Readable, Eof, Wait
<1> QED
  BY <1>1, <1>2, <1>3, <1>4, <1>5, <1>6, <1>7, <1>8
     DEF Next, RouterStep, Receive, Select

-----------------------------------------------------------------------------
(* The timer of term_session(), step by step.                              *)

\* The next byte starts a message.
AtStart == Len(Unread) > 0 => Unread[1].at = 0

\* It is entered with a timer that has just been started.
LEMMA TermStarts ==
  ASSUME NEW h \in Nat, TermSession(h), AtStart'
  PROVE  TermTimers'
<1>1. /\ pc' = "select" /\ timeout' = h /\ recvAge' = 0
      /\ modem_heartbeat_interval' = h
  BY DEF TermSession
<1>2. OnTime(0, h, h, TermDeadline(h))
  <2>1. h <= h /\ TermDeadline(h) \in Nat
    BY LimitsTyped
  <2> QED
    BY <2>1, RestartedOnTime
<1> QED
  BY <1>1, <1>2 DEF TermTimers, AtStart

\* A message that ends the session in that state is read to its end.
LEMMA ReceivedToTerm ==
  ASSUME TypeOK, ~Segmented, phase \in {"init", "in"}, NEW m \in Message, NEW received,
         Received(m, received), HandedOver(m, received), LeftAfter(m, received)
  PROVE  TermTimers'
<1> SUFFICES ASSUME phase' = "term" PROVE TermTimers'
  BY DEF TermTimers
<1>1. AtStart'
  BY DEF HandedOver, LeftAfter, AtStart
<1>2. ASSUME NEW sc, NEW h \in Nat, SendSessionTerm(sc, h, out)
      PROVE  TermTimers'
  <2>1. TermSession(h)
    <3>1. ~ \E r : Return(r)
      BY DEF Return
    <3> QED
      BY <1>2, <3>1 DEF SendSessionTerm
  <2> QED
    BY <1>1, <2>1, TermStarts
<1>3. CASE phase = "init"
  <2>1. InitResponse(m, received)
    BY <1>3 DEF Received
  <2>2. ~Return("fail") /\ ~InSession(m.hb)
    BY DEF Return, InSession
  <2>3. SendSessionTerm(SC_SHUTDOWN, m.hb, out)
    BY <2>1, <2>2 DEF InitResponse
  <2> QED
    BY <1>2, <2>3 DEF Message
<1>4. CASE phase = "in"
  <2>1. HandleMessage(m, received)
    BY <1>4 DEF Received
  <2>2. ~Terminated /\ ~Serve(m)
    BY <1>4 DEF Return, Terminated, Serve, WaitAgain
  <2>3. SendSessionTerm(StatusOf(m, received), modem_heartbeat_interval, out)
    BY <2>1, <2>2 DEF HandleMessage
  <2> QED
    BY <1>2, <2>3 DEF TypeOK
<1> QED
  BY <1>3, <1>4

\* The message read in the termination state ends the session, unless its body is
\* still to be read, which is there.
LEMMA RecvHeaderTerm ==
  ASSUME Prompt, IInv, ReaderInv, TermTimers, RecvHeader
  PROVE  TermTimers'
<1> SUFFICES ASSUME phase' = "term" PROVE TermTimers'
  BY DEF TermTimers
<1> DEFINE size == Least(4, Len(stream))
<1>1. pc = "header" /\ stream # <<>> /\ phase \in Live /\ Take(size) /\ TypeOK
  BY DEF RecvHeader, IInv, Control
<1>2. CASE phase \in {"init", "in"}
  <2> DEFINE m  == Abstract!First
             mm == [m EXCEPT !.type = HeaderType(m, size)]
  <2>1. \/ UNCHANGED phase
        \/ mm \in Message /\ Received(mm, size) /\ HandedOver(mm, size) /\ LeftAfter(mm, size)
    BY <1>2, HeaderHandsOver
  <2> HIDE DEF size, m, mm
  <2> QED
    BY <1>1, <1>2, <2>1, ReceivedToTerm DEF Prompt
<1>3. CASE phase = "term"
  <2>1. /\ stream[1] = Unread[1] /\ Len(Unread) > 0
    BY <1>1, NextMessage
  <2>2. stream[1].at = 0 /\ Decode(stream[1]) = {sent[stream[1].n]}
    BY <1>1, <1>3, <2>1 DEF TermTimers, Decode
  <2> DEFINE m == sent[stream[1].n]
  <2>3. ~Received([m EXCEPT !.type = HeaderType(m, size)], size)
    BY <1>3 DEF Received, TermMessage, Return
  <2>4. /\ size = 4 /\ m.len > 0 /\ pc' = "body"
        /\ UNCHANGED <<phase, ret, history, timers, quiet>>
    BY <2>2, <2>3 DEF RecvHeader
  <2>5. stream' # <<>>
    <3>1. Take(4) /\ m.len > 0
      BY <1>1, <2>4
    <3> QED
      BY <1>1, <2>2, <3>1, BodyFollows DEF Prompt
  <2>6. UNCHANGED <<modem_heartbeat_interval, timeout, recvAge>>
    BY <2>4 DEF timers
  <2> QED
    BY <1>3, <2>4, <2>5, <2>6 DEF TermTimers
<1> QED
  BY <1>1, <1>2, <1>3 DEF Live

\* So does the body.
LEMMA RecvBodyTerm ==
  ASSUME Prompt, IInv, ReaderInv, TermTimers, RecvBody
  PROVE  TermTimers'
<1> SUFFICES ASSUME phase' = "term" PROVE TermTimers'
  BY DEF TermTimers
<1> DEFINE size == Least(cur.len, Len(stream))
<1>1. TypeOK /\ Received(cur, 4 + size)
  BY DEF IInv, RecvBody
<1>2. phase \in {"init", "in"}
  BY <1>1 DEF Received, TermMessage, Return
<1>3. cur \in Message /\ HandedOver(cur, 4 + size) /\ LeftAfter(cur, 4 + size)
  BY <1>2, BodyHandsOver
<1> QED
  BY <1>1, <1>2, <1>3, ReceivedToTerm DEF Prompt

\* A modem given up for silence is given up between its messages.
LEMMA SelectTimeoutTerm ==
  ASSUME IInv, SelectTimeout
  PROVE  TermTimers'
<1> SUFFICES ASSUME phase' = "term" PROVE TermTimers'
  BY DEF TermTimers
<1>1. /\ phase = "in" /\ pc = "select"
      /\ UNCHANGED <<sent, flight, stream>>
  BY DEF SelectTimeout, network
<1>2. AtStart
  <2> SUFFICES ASSUME Len(Unread) > 0 PROVE Unread[1].at = 0
    BY DEF AtStart
  <2>1. Unread[1] = [n |-> Len(accepted) + 1, at |-> 0]
    BY <1>1 DEF IInv, AlignedAtHeader
  <2> QED
    BY <2>1
<1>3. AtStart'
  BY <1>1, <1>2 DEF AtStart, Unread
<1>4. PICK result :
        SendSessionTerm(SC_TIMEDOUT, modem_heartbeat_interval, AfterHeartbeat(result))
  BY <1>1 DEF SelectTimeout, control
<1>5. TermSession(modem_heartbeat_interval)
  <2>1. ~ \E r : Return(r)
    BY DEF Return
  <2> QED
    BY <1>4, <2>1 DEF SendSessionTerm
<1> QED
  BY <1>3, <1>5, TermStarts DEF IInv, TypeOK

\* The loop turns.
LEMMA TermSelectTerm ==
  ASSUME TermTimers, TermSelectReady \/ TermSelectTimeout
  PROVE  TermTimers'
<1> SUFFICES ASSUME phase' = "term" PROVE TermTimers'
  BY DEF TermTimers
<1>1. /\ phase = "term" /\ pc = "select"
      /\ UNCHANGED <<peer, sent, flight, stream>>
  BY DEF TermSelectReady, TermSelectTimeout, network
<1>2. UNCHANGED Unread /\ UNCHANGED Readable
  BY <1>1 DEF Unread, Readable, Eof
<1>3. CASE TermSelectReady
  BY <1>1, <1>2, <1>3 DEF TermSelectReady, timers, TermTimers
<1>4. CASE TermSelectTimeout
  <2>1. UNCHANGED control /\ UNCHANGED timers
    BY <1>4 DEF TermSelectTimeout, Return
  <2> QED
    BY <1>1, <1>2, <2>1 DEF control, timers, TermTimers
<1> QED
  BY <1>3, <1>4

\* Time passes in select() alone, and there only until the timer has expired.
LEMMA TickTerm ==
  ASSUME Prompt, IInv, TermTimers, Tick
  PROVE  TermTimers'
<1> SUFFICES ASSUME phase = "term" PROVE TermTimers'
  BY DEF TermTimers, Tick, control
<1>1. /\ timeout' = IF pc = "select" /\ timeout > 0 THEN timeout - 1 ELSE timeout
      /\ recvAge' = Older(recvAge)
      /\ UNCHANGED <<phase, pc, stream, flight, modem_heartbeat_interval>>
      /\ Idle
  BY DEF Tick, control, network, Prompt
<1>2. pc = "select" /\ (timeout = 0 => ~TermSilent)
  <2>1. /\ pc = "header" => Readable
        /\ pc = "body" => stream # <<>>
    BY DEF TermTimers
  <2> QED
    BY <1>1, <2>1 DEF Idle, Readable
<1>3. TypeOK
  BY DEF IInv
<1>4. /\ TermDeadline(modem_heartbeat_interval) \in Nat
      /\ recvAge' \in Nat /\ recvAge' <= recvAge + 1
  BY <1>1, <1>3, TimerTypes, LimitsTyped, OlderByOne
<1>5. timeout = 0 => ~Expired(recvAge, TermDeadline(modem_heartbeat_interval))
  BY <1>2 DEF TermSilent
<1>6. timeout' = IF timeout > 0 THEN timeout - 1 ELSE timeout
  BY <1>1, <1>2
<1>7. OnTime(recvAge, timeout, modem_heartbeat_interval,
             TermDeadline(modem_heartbeat_interval))
  BY DEF TermTimers
<1>8. OnTime(recvAge', timeout', modem_heartbeat_interval,
             TermDeadline(modem_heartbeat_interval))
  BY <1>3, <1>4, <1>5, <1>6, <1>7, TimerTypes, TickOnTime
<1>9. Unread' = Unread
  BY <1>1 DEF Unread
<1> QED
  BY <1>1, <1>2, <1>8, <1>9 DEF TermTimers

\* What the modem writes, and what a reset takes away, is whole at its start.
LEMMA NetworkAtStart ==
  ASSUME IInv, ModemStep, AtStart
  PROVE  AtStart'
<1>1. /\ Len(Unread) \in Nat /\ stream \in Seq(Cell) /\ flight \in Seq(Cell)
      /\ Unread \in Seq(Cell) /\ Len(sent) \in Nat
  BY NetworkFacts
<1>2. CASE \E m \in Messages : ModemSend(m)
  <2>1. PICK m \in Messages : ModemSend(m)
    BY <1>2
  <2> DEFINE t == Bytes(Len(sent) + 1, m)
  <2>2. /\ flight' = flight \o t /\ stream' = stream
        /\ m \in Message /\ m.len \in Nat /\ Len(sent) + 1 \in Nat \ {0}
    BY <1>1, <2>1, MessagesAssumption DEF ModemSend, Message
  <2>3. t \in Seq(Cell)
    BY <2>2, BytesOfMessage
  <2>4. /\ Len(Unread \o t) = Len(Unread) + 4 + m.len
        /\ \A i \in 1..Len(Unread) : (Unread \o t)[i] = Unread[i]
        /\ \A i \in (Len(Unread) + 1)..Len(Unread \o t) :
             (Unread \o t)[i] = [n |-> Len(sent) + 1, at |-> i - Len(Unread) - 1]
    BY <1>1, <2>2, WriteBytes
  <2> HIDE DEF t
  <2>5. Unread' = Unread \o t
    <3>1. (stream \o flight) \o t = stream \o (flight \o t)
      BY <1>1, <2>3, Regroup, Zenon
    <3> QED
      BY <2>2, <3>1 DEF Unread
  <2>6. CASE Len(Unread) > 0
    <3>1. Unread'[1] = Unread[1]
      BY <1>1, <2>4, <2>5, <2>6
    <3> QED
      BY <2>6, <3>1 DEF AtStart
  <2>7. CASE Len(Unread) = 0
    <3>1. 1 \in (Len(Unread) + 1)..Len(Unread \o t) /\ (1 - Len(Unread)) - 1 = 0
      BY <2>2, <2>4, <2>7
    <3>2. Unread'[1] = [n |-> Len(sent) + 1, at |-> (1 - Len(Unread)) - 1]
      BY <2>4, <2>5, <3>1
    <3> QED
      BY <3>1, <3>2 DEF AtStart
  <2> QED
    BY <1>1, <2>6, <2>7
<1>3. CASE \E k \in 1..Len(flight) : Deliver(k)
  <2>1. PICK k \in 1..Len(flight) : Deliver(k)
    BY <1>3
  <2>2. /\ stream' = stream \o SubSeq(flight, 1, k)
        /\ flight' = SubSeq(flight, k + 1, Len(flight))
    BY <2>1 DEF Deliver
  <2>3. (stream \o SubSeq(flight, 1, k)) \o SubSeq(flight, k + 1, Len(flight))
          = stream \o flight
    BY <1>1, DeliverBytes
  <2>4. Unread' = Unread
    BY <2>2, <2>3, Zenon DEF Unread
  <2> QED
    BY <2>4 DEF AtStart
<1>4. CASE ModemClose
  BY <1>4 DEF ModemClose, AtStart, Unread
<1>5. CASE ModemReset
  <2>1. Unread' = stream
    BY <1>1, <1>5 DEF ModemReset, Unread
  <2>2. Len(stream) > 0 => Len(Unread) > 0 /\ Unread[1] = stream[1]
    BY <1>1, NetworkFacts, Concatenation DEF Unread
  <2> QED
    BY <2>1, <2>2 DEF AtStart
<1> QED
  BY <1>2, <1>3, <1>4, <1>5 DEF ModemStep

\* Every step keeps the timer of term_session().
LEMMA NextTerm ==
  ASSUME Prompt, IInv, ReaderInv, TermTimers, [Next]_vars
  PROVE  TermTimers'
<1>1. CASE Connect
  BY <1>1 DEF Connect, TermTimers
<1>2. CASE RecvHeader \/ RecvBody
  BY <1>2, RecvHeaderTerm, RecvBodyTerm
<1>3. CASE RecvFails \/ SystemFails
  BY <1>3 DEF RecvFails, SystemFails, Return, TermTimers
<1>4. CASE SelectReady
  BY <1>4 DEF SelectReady, Return, TermTimers
<1>5. CASE SelectTimeout
  BY <1>5, SelectTimeoutTerm
<1>6. CASE TermSelectReady \/ TermSelectTimeout
  BY <1>6, TermSelectTerm
<1>7. CASE ModemStep
  <2> SUFFICES ASSUME phase' = "term" PROVE TermTimers'
    BY DEF TermTimers
  <2>1. /\ UNCHANGED <<phase, pc, modem_heartbeat_interval, timeout, recvAge>>
        /\ Readable => Readable'
        /\ stream # <<>> => stream' # <<>>
    BY <1>7, NetworkLeavesReadable
  <2>2. AtStart => AtStart'
    BY <1>7, NetworkAtStart
  <2> QED
    BY <2>1, <2>2 DEF TermTimers, AtStart
<1>8. CASE Tick
  BY <1>8, TickTerm
<1>9. CASE UNCHANGED vars
  <2>1. UNCHANGED <<phase, pc, peer, flight, stream, modem_heartbeat_interval,
                    timeout, recvAge>>
    BY <1>9 DEF vars, control, network, timers
  <2> QED
    BY <2>1 DEF TermTimers, Readable, Eof, Unread
<1> QED
  BY <1>1, <1>2, <1>3, <1>4, <1>5, <1>6, <1>7, <1>8, <1>9
     DEF Next, RouterStep, Receive, Select

-----------------------------------------------------------------------------
\* A session begins with no timer running.
LEMMA TimersStart == Init => TimersInv
BY DEF Init, TimersInv, InSessionTimers, TermTimers

\* And every step keeps the timers.
LEMMA TimersKept ==
  ASSUME Prompt, IInv, ReaderInv, TimersInv, [Next]_vars
  PROVE  TimersInv'
BY NextInTime, NextTerm DEF TimersInv

\* On time, in_session() is late with neither of its timers.
LEMMA OnTimeInSession ==
  ASSUME TypeOK, TimersInv
  PROVE  InSessionInTime
<1> SUFFICES ASSUME phase = "in"
             PROVE  /\ sentAge <= router_heartbeat_interval * TicksPerSec + 1
                    /\ quiet <= Latest(Wait, InDeadline(modem_heartbeat_interval))
  BY DEF InSessionInTime
<1>1. /\ OnTime(sentAge, timeout, Wait, router_heartbeat_interval)
      /\ OnTime(quiet, timeout, Wait, InDeadline(modem_heartbeat_interval))
  BY DEF TimersInv, InSessionTimers
<1>2. Latest(Wait, router_heartbeat_interval) = router_heartbeat_interval * TicksPerSec + 1
  BY TimerTypes, LatestBounds
<1>3. sentAge <= Latest(Wait, router_heartbeat_interval)
  BY <1>1, TimerTypes, OnTimeMeans
<1>4. InDeadline(modem_heartbeat_interval) \in Nat
  BY TimerTypes, LimitsTyped
<1>5. quiet <= Latest(Wait, InDeadline(modem_heartbeat_interval))
  BY <1>1, <1>4, TimerTypes, OnTimeMeans
<1> QED
  BY <1>2, <1>3, <1>5

\* Nor is term_session() with its own.
LEMMA OnTimeInTermination ==
  ASSUME TypeOK, TimersInv
  PROVE  TerminationInTime
<1> SUFFICES ASSUME phase = "term"
             PROVE  recvAge <= Latest(modem_heartbeat_interval,
                                      TermDeadline(modem_heartbeat_interval))
  BY DEF TerminationInTime
<1>1. OnTime(recvAge, timeout, modem_heartbeat_interval,
             TermDeadline(modem_heartbeat_interval))
  BY DEF TimersInv, TermTimers
<1>2. TermDeadline(modem_heartbeat_interval) \in Nat
  BY TimerTypes, LimitsTyped
<1> QED
  BY <1>1, <1>2, TimerTypes, OnTimeMeans

\* As long as messages arrive whole, select()'s used-up timeout makes no timer late,
\* last_recv_time is the time of the last message, and term_session() never waits
\* inside one.
THEOREM TimersInvariance ==
  ASSUME Prompt
  PROVE  Spec => []TimersInv
<1>1. IInv /\ ReaderInv /\ TimersInv /\ [Next]_vars => TimersInv'
  BY TimersKept
<1> QED
  BY <1>1, TimersStart, Invariance, ReaderInvariance, PTL DEF Spec

\* Then the router's heartbeat goes out, a silent modem is given up, and the wait for
\* the answer to a termination ends, no more than a millisecond after
\* interval_compare() calls the time over, or as soon as select()'s timeout is used up
\* where the limit wrapped to less.
THEOREM DeadlinesAreKept ==
  ASSUME Prompt
  PROVE  Spec => []DeadlinesKept
<1>1. TypeOK /\ TimersInv => DeadlinesKept
  BY OnTimeInSession, OnTimeInTermination DEF DeadlinesKept
<1> QED
  BY <1>1, TypeCorrectness, TimersInvariance, PTL

\* What a send() adds is the message it was called with.
LEMMA AddedIs ==
  ASSUME NEW o \in OutMessage, NEW written \in Seq(OutMessage), NEW result,
         NEW new, new = After(result, o, written), Len(new) > Len(written)
  PROVE  new[Len(new)] = o
<1>1. new = Append(written, o)
  BY DEF After
<1> QED
  BY <1>1, AppendProperties

\* The step gives the session up for silence.
GivesUp ==
  /\ Len(out') > Len(out)
  /\ out'[Len(out')] = Output(SESSION_TERM, NoDest, SC_TIMEDOUT)

\* Messages are told apart by their type and their status.
LEMMA OtherOutput ==
  ASSUME TypeOK, NEW type \in Nat, NEW dest \in Dest \cup {NoDest}, NEW sc \in Nat,
         type # SESSION_TERM \/ sc # SC_TIMEDOUT,
         NEW result, out' = After(result, Output(type, dest, sc), out)
  PROVE  ~GivesUp
<1>1. Output(type, dest, sc) \in OutMessage /\ out \in Seq(OutMessage)
  BY OutputOK DEF TypeOK
<1>2. Output(type, dest, sc) # Output(SESSION_TERM, NoDest, SC_TIMEDOUT)
  <2>1. /\ Output(type, dest, sc).type = type
        /\ Output(type, dest, sc).sc = sc
        /\ Output(SESSION_TERM, NoDest, SC_TIMEDOUT).type = SESSION_TERM
        /\ Output(SESSION_TERM, NoDest, SC_TIMEDOUT).sc = SC_TIMEDOUT
    BY DEF Output
  <2> QED
    BY <2>1
<1>3. Len(out') > Len(out) => out'[Len(out')] = Output(type, dest, sc)
  BY <1>1, AddedIs
<1> QED
  BY <1>2, <1>3 DEF GivesUp

\* Nor is a heartbeat or nothing at all a termination.
LEMMA HeartbeatGoesOn ==
  ASSUME TypeOK, NEW result, out' = AfterHeartbeat(result)
  PROVE  ~GivesUp
<1>1. CASE out' = out
  <2>1. Len(out) \in Nat
    BY LenProperties DEF TypeOK
  <2> QED
    BY <1>1, <2>1 DEF GivesUp
<1>2. CASE out' = After(result, Output(PEER_HEARTBEAT, NoDest, 0), out)
  BY <1>2, OtherOutput DEF PEER_HEARTBEAT, SESSION_TERM
<1> QED
  BY <1>1, <1>2 DEF AfterHeartbeat, Heartbeat

\* A verdict is no time-out.
LEMMA VerdictsDiffer ==
  \A sc \in {SC_SHUTDOWN, SC_INVALID_DATA, SC_UNEXPECTED_MESSAGE, SC_UNKNOWN_MESSAGE,
             SC_SUCCESS} :
    sc \in Nat /\ sc # SC_TIMEDOUT
BY DEF SC_SHUTDOWN, SC_INVALID_DATA, SC_UNEXPECTED_MESSAGE, SC_UNKNOWN_MESSAGE,
       SC_SUCCESS, SC_TIMEDOUT

\* No message that is received ends the session as timed out.
LEMMA ReceivedGoesOn ==
  ASSUME TypeOK, NEW m \in Message, NEW received \in Nat, Received(m, received)
  PROVE  ~GivesUp
<1>1. ASSUME NEW sc, sc \in {SC_SHUTDOWN, SC_INVALID_DATA, SC_UNEXPECTED_MESSAGE,
                                 SC_UNKNOWN_MESSAGE, SC_SUCCESS},
             NEW h, SendSessionTerm(sc, h, out)
      PROVE  ~GivesUp
  <2>1. PICK result \in SendResults \cup {"no memory"} :
          out' = After(result, Output(SESSION_TERM, NoDest, sc), out)
    BY <1>1 DEF SendSessionTerm
  <2>2. sc \in Nat /\ sc # SC_TIMEDOUT /\ SESSION_TERM \in Nat
    BY <1>1, VerdictsDiffer DEF SESSION_TERM
  <2> QED
    BY <2>1, <2>2, OtherOutput
<1>2. ASSUME out' = out PROVE ~GivesUp
  <2>1. Len(out) \in Nat
    BY LenProperties DEF TypeOK
  <2> QED
    BY <1>2, <2>1 DEF GivesUp
<1>3. CASE phase = "init" /\ InitResponse(m, received)
  <2>1. SendSessionTerm(SC_SHUTDOWN, m.hb, out) \/ out' = out
    BY <1>3 DEF InitResponse
  <2> QED
    BY <1>1, <1>2, <2>1
<1>4. CASE phase = "in" /\ HandleMessage(m, received)
  <2>1. StatusOf(m, received) \in {SC_SHUTDOWN, SC_INVALID_DATA, SC_UNEXPECTED_MESSAGE,
                                   SC_UNKNOWN_MESSAGE, SC_SUCCESS}
    BY DEF StatusOf, Verdict
  <2>2. CASE Terminated
    <3>1. PICK result \in SendResults :
            out' = After(result, Output(SESSION_TERM_RESP, NoDest, 0), out)
      BY <2>2 DEF Terminated
    <3> QED
      BY <3>1, OtherOutput DEF SESSION_TERM_RESP, SESSION_TERM
  <2>3. CASE Serve(m)
    <3>1. PICK result :
            out' = After(result, Output(ResponseTo(m.type), m.dest, SC_SUCCESS), out)
      BY <2>3 DEF Serve
    <3>2. ResponseTo(m.type) \in Nat /\ ResponseTo(m.type) # SESSION_TERM
      BY DEF ResponseTo, DEST_UP_RESP, DEST_DOWN_RESP, SESSION_TERM
    <3>3. m.dest \in Dest \cup {NoDest} /\ SC_SUCCESS \in Nat
      BY DEF Message, SC_SUCCESS
    <3> QED
      BY <3>1, <3>2, <3>3, OtherOutput
  <2> QED
    BY <1>1, <1>4, <2>1, <2>2, <2>3 DEF HandleMessage
<1>5. CASE phase = "term" /\ TermMessage
  BY <1>2, <1>5 DEF TermMessage, history
<1> QED
  BY <1>3, <1>4, <1>5 DEF Received

\* Only in_session(), turning with its timeout used up, gives the session up for
\* silence, and then the modem has been silent for as long as it checks for.
LEMMA SilenceIsLong ==
  ASSUME IInv, TimersInv, [Next]_vars, GivesUp
  PROVE  /\ quiet > InDeadline(modem_heartbeat_interval) * TicksPerSec
         /\ 2 * modem_heartbeat_interval < Word => quiet > 2 * modem_heartbeat_interval
<1>1. TypeOK /\ out \in Seq(OutMessage) /\ Len(out) \in Nat
  BY LenProperties DEF IInv, TypeOK
<1>2. out' # out
  BY <1>1 DEF GivesUp
<1>3. ~Connect
  <2> SUFFICES ASSUME Connect PROVE FALSE
    OBVIOUS
  <2>1. out' = <<Output(SESSION_INIT, NoDest, 0)>>
    BY <1>2 DEF Connect
  <2>2. out'[Len(out')] = Output(SESSION_INIT, NoDest, 0)
    BY <2>1
  <2>3. Output(SESSION_INIT, NoDest, 0).type = SESSION_INIT
    BY DEF Output
  <2>4. Output(SESSION_TERM, NoDest, SC_TIMEDOUT).type = SESSION_TERM
    BY DEF Output
  <2> QED
    BY <2>2, <2>3, <2>4 DEF GivesUp, SESSION_INIT, SESSION_TERM
<1>4. ~RecvHeader
  <2> SUFFICES ASSUME RecvHeader PROVE FALSE
    OBVIOUS
  <2> DEFINE size == Least(4, Len(stream))
  <2>1. pc = "header" /\ stream # <<>>
    BY DEF RecvHeader
  <2>2. PICK m \in Decode(stream[1]) :
          Received([m EXCEPT !.type = HeaderType(m, size)], size)
    BY <1>2 DEF RecvHeader, history
  <2>3. m \in Message /\ m.type \in Nat /\ bufType \in Nat /\ size \in Nat
    BY <1>1, <2>1, NextMessage, MessagesAssumption, NetworkFacts
       DEF Message, TypeOK, Least
  <2>4. [m EXCEPT !.type = HeaderType(m, size)] \in Message
    <3>1. HeaderType(m, size) \in Nat
      BY <2>3, HeaderTypeOK
    <3> QED
      BY <2>3, <3>1 DEF Message
  <2> QED
    BY <1>1, <2>2, <2>3, <2>4, ReceivedGoesOn
<1>5. ~RecvBody
  <2> SUFFICES ASSUME RecvBody PROVE FALSE
    OBVIOUS
  <2>1. pc = "body" /\ Received(cur, 4 + Least(cur.len, Len(stream)))
    BY DEF RecvBody
  <2>2. cur \in Message /\ cur.len \in Nat
    BY <2>1, MessagesAssumption DEF IInv, Control, Message
  <2>3. 4 + Least(cur.len, Len(stream)) \in Nat
    BY <2>2, NetworkFacts DEF Least
  <2> QED
    BY <1>1, <2>1, <2>2, <2>3, ReceivedGoesOn
<1>6. ~SelectReady
  BY <1>1, HeartbeatGoesOn DEF SelectReady
<1>7. ~(RecvFails \/ SystemFails \/ TermSelectReady \/ TermSelectTimeout \/ Tick
        \/ UNCHANGED vars)
  BY <1>2 DEF RecvFails, SystemFails, TermSelectReady, TermSelectTimeout, Tick,
              vars, history
<1>8. ~ModemStep
  BY <1>2 DEF ModemStep, ModemSend, Deliver, ModemClose, ModemReset, history
<1>9. SelectTimeout
  BY <1>3, <1>4, <1>5, <1>6, <1>7, <1>8 DEF Next, RouterStep, Receive, Select
<1>10. ModemSilent /\ phase = "in"
  <2>1. ModemSilent \/ \E result : out' = AfterHeartbeat(result)
    BY <1>9 DEF SelectTimeout
  <2> QED
    BY <1>1, <1>9, <2>1, HeartbeatGoesOn DEF SelectTimeout
<1>11. Expired(quiet, InDeadline(modem_heartbeat_interval))
  BY <1>10 DEF ModemSilent, TimersInv, InSessionTimers
<1> DEFINE h == modem_heartbeat_interval
<1>12. /\ quiet \in Nat /\ h \in Nat /\ InDeadline(h) \in Nat
       /\ InDeadline(h) * TicksPerSec \in Nat
  BY <1>1, TimerTypes, LimitsTyped, LatestBounds
<1> HIDE DEF h
<1>13. quiet > InDeadline(h) * TicksPerSec
  BY <1>11, <1>12, ExpiredExact DEF h
<1>14. ASSUME 2 * h < Word
       PROVE  quiet > 2 * h
  <2>1. InDeadline(h) = 2 * h
    BY <1>12, <1>14, TwoIntervals
  <2>2. 2 * h \in Nat /\ 2 * h <= 2 * h
    BY <1>12
  <2>3. 2 * h <= (2 * h) * TicksPerSec /\ (2 * h) * TicksPerSec \in Nat
    BY <2>2, ShortInTicks
  <2>4. quiet > (2 * h) * TicksPerSec
    BY <1>13, <2>1
  <2> QED
    BY <1>12, <2>2, <2>3, <2>4
<1> QED
  BY <1>13, <1>14 DEF h

\* While messages arrive whole, a modem is given up as timed out only after more time
\* without a message than in_session() checks for, which is two of its intervals short
\* of a wrap.
THEOREM GivenUpForSilence ==
  ASSUME Prompt
  PROVE  Spec => TimeoutMeansSilence
<1>1. IInv /\ TimersInv /\ [Next]_vars =>
        [(Len(out') > Len(out)
            /\ out'[Len(out')] = Output(SESSION_TERM, NoDest, SC_TIMEDOUT))
           => /\ quiet > InDeadline(modem_heartbeat_interval) * TicksPerSec
              /\ 2 * modem_heartbeat_interval < Word
                   => quiet > 2 * modem_heartbeat_interval]_vars
  BY SilenceIsLong DEF GivesUp
<1> QED
  BY <1>1, Invariance, TimersInvariance, PTL DEF Spec, TimeoutMeansSilence

-----------------------------------------------------------------------------
(* A timer of its own, whatever the readings of the clock and whatever the *)
(* interval (Stopwatch).                                                   *)

\* Wherever the clock has moved and whenever the timer was restarted, it is compared
\* with its interval exactly: neither a fraction borrowed wrongly nor one forgotten.
THEOREM TimersAreExact == TimerSpec => []TimerExact
<1> DEFINE Inv == started \in Readings /\ reading \in Readings /\ awaited \in Waits
<1>1. TimerInit => Inv
  BY DEF TimerInit
<1>2. Inv /\ [TimerNext]_timer => Inv'
  BY DEF TimerNext, ClockMoves, TimerRestarts, timer
<1>3. Inv => TimerExact
  BY StopwatchAssumption, IntervalCompareExact DEF TimerExact
<1> QED
  BY <1>1, <1>2, <1>3, PTL DEF TimerSpec
=============================================================================
