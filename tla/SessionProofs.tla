--------------------------- MODULE SessionProofs ---------------------------
(***************************************************************************)
(* Spec => []TypeOK and Spec => []InOrder, for every set of messages,      *)
(* every segmentation of the stream and every scheduling.                  *)
(***************************************************************************)
EXTENDS SessionInv, SequenceTheorems, TLAPS

-----------------------------------------------------------------------------
(* Framing, as a property of a sequence of bytes.                          *)

Framing(b, msgs) == CellsOf(b, msgs) /\ Contiguous(b, msgs)

\* A cell is its message's number and the byte's place in the message.
LEMMA CellFields ==
  ASSUME NEW c, NEW x, NEW y, c = [n |-> x, at |-> y]
  PROVE  c.n = x /\ c.at = y
OBVIOUS

\* The messages written are messages, and the bytes of a framed sequence are cells.
LEMMA FramingTypes ==
  ASSUME NEW b \in Seq(Cell), NEW msgs \in Seq(Message), Framing(b, msgs),
         NEW i \in 1..Len(b)
  PROVE  /\ b[i].n \in 1..Len(msgs) /\ b[i].at \in Nat
         /\ msgs[b[i].n].len \in Nat
         /\ b[i].at <= 3 + msgs[b[i].n].len
<1>1. b[i] \in Cell
  BY ElementOfSeq
<1>2. b[i].n \in 1..Len(msgs) /\ b[i].at <= 3 + msgs[b[i].n].len
  BY DEF Framing, CellsOf
<1>3. msgs[b[i].n] \in Message
  BY <1>2, ElementOfSeq
<1> QED
  BY <1>1, <1>2, <1>3 DEF Cell, Message

\* A message does not end before any of its bytes.
LEMMA FrameEndBounds ==
  ASSUME NEW b \in Seq(Cell), NEW msgs \in Seq(Message), Framing(b, msgs),
         NEW i \in 1..Len(b)
  PROVE  FrameEnd(b, msgs, i) \in Int /\ FrameEnd(b, msgs, i) >= i
<1> DEFINE len == msgs[b[i].n].len
           at  == b[i].at
<1>1. len \in Nat /\ at \in Nat /\ at <= 3 + len
  BY FramingTypes
<1>2. FrameEnd(b, msgs, i) = i + 3 + len - at
  BY DEF FrameEnd
<1> HIDE DEF len, at
<1> QED
  BY <1>1, <1>2

\* Reading k bytes leaves the framing of the others as it was.
LEMMA DropKeepsFraming ==
  ASSUME NEW b \in Seq(Cell), NEW c \in Seq(Cell), NEW msgs \in Seq(Message),
         NEW k \in Nat, Len(b) = Len(c) + k,
         \A i \in 1..Len(c) : c[i] = b[i + k],
         Framing(b, msgs)
  PROVE  /\ Framing(c, msgs)
         /\ Complete(b, msgs) => Complete(c, msgs)
<1>1. \A i \in 1..Len(c) : i + k \in 1..Len(b) /\ c[i] = b[i + k]
  OBVIOUS
<1>2. \A i \in 1..Len(b) : /\ b[i].n \in 1..Len(msgs) /\ b[i].at \in Nat
                           /\ msgs[b[i].n].len \in Nat
                           /\ b[i].at <= 3 + msgs[b[i].n].len
  BY FramingTypes
<1>3. ASSUME NEW i \in 1..Len(c)
      PROVE  /\ FrameEnd(b, msgs, i + k) = FrameEnd(c, msgs, i) + k
             /\ FrameEnd(c, msgs, i) \in Int /\ FrameEnd(c, msgs, i) >= i
  <2>1. /\ msgs[b[i + k].n].len \in Nat /\ b[i + k].at \in Nat
        /\ b[i + k].at <= 3 + msgs[b[i + k].n].len
        /\ c[i] = b[i + k]
    BY <1>1, <1>2
  <2> DEFINE len == msgs[b[i + k].n].len
             at  == b[i + k].at
  <2>2. FrameEnd(b, msgs, i + k) = (i + k) + 3 + len - at
    BY DEF FrameEnd
  <2>3. FrameEnd(c, msgs, i) = i + 3 + len - at
    BY <2>1, Zenon DEF FrameEnd
  <2>4. len \in Nat /\ at \in Nat /\ at <= 3 + len
    BY <2>1
  <2> HIDE DEF len, at
  <2> QED
    BY <2>2, <2>3, <2>4
<1>4. CellsOf(c, msgs)
  BY <1>1 DEF Framing, CellsOf
<1>5. ASSUME NEW i \in 1..Len(c), NEW j \in i..Len(c), j <= FrameEnd(c, msgs, i)
      PROVE  c[j] = [n |-> c[i].n, at |-> c[i].at + (j - i)]
  <2>1. j + k \in (i + k)..Len(b) /\ j + k <= FrameEnd(b, msgs, i + k)
    BY <1>3, <1>5
  <2>2. b[j + k] = [n |-> b[i + k].n, at |-> b[i + k].at + ((j + k) - (i + k))]
    BY <1>1, <2>1 DEF Framing, Contiguous
  <2>3. (j + k) - (i + k) = j - i
    OBVIOUS
  <2>4. c[i] = b[i + k] /\ c[j] = b[j + k]
    BY <1>1
  <2> QED
    BY <2>2, <2>3, <2>4, Zenon
<1>6. ASSUME NEW i \in 1..Len(c), FrameEnd(c, msgs, i) < Len(c)
      PROVE  c[FrameEnd(c, msgs, i) + 1] = [n |-> c[i].n + 1, at |-> 0]
  <2>1. FrameEnd(b, msgs, i + k) < Len(b)
    BY <1>3, <1>6
  <2>2. b[FrameEnd(b, msgs, i + k) + 1] = [n |-> b[i + k].n + 1, at |-> 0]
    BY <1>1, <2>1 DEF Framing, Contiguous
  <2>3. FrameEnd(c, msgs, i) + 1 \in 1..Len(c)
    BY <1>3, <1>6
  <2>4. c[FrameEnd(c, msgs, i) + 1] = b[(FrameEnd(c, msgs, i) + k) + 1]
    <3>1. (FrameEnd(c, msgs, i) + 1) + k = (FrameEnd(c, msgs, i) + k) + 1
      BY <1>3
    <3> QED
      BY <1>1, <2>3, <3>1
  <2> QED
    BY <1>1, <1>3, <2>2, <2>4
<1>7. Complete(b, msgs) => Complete(c, msgs)
  <2> SUFFICES ASSUME Complete(b, msgs), NEW i \in 1..Len(c)
               PROVE  /\ FrameEnd(c, msgs, i) <= Len(c)
                      /\ FrameEnd(c, msgs, i) = Len(c) => c[i].n = Len(msgs)
    BY DEF Complete
  <2>1. /\ FrameEnd(b, msgs, i + k) <= Len(b)
        /\ FrameEnd(b, msgs, i + k) = Len(b) => b[i + k].n = Len(msgs)
    BY <1>1 DEF Complete
  <2>2. /\ FrameEnd(b, msgs, i + k) = FrameEnd(c, msgs, i) + k
        /\ FrameEnd(c, msgs, i) \in Int
    BY <1>3
  <2>3. b[i + k].n = c[i].n
    BY <1>1
  <2>4. FrameEnd(c, msgs, i) <= Len(c)
    BY <2>1, <2>2
  <2>5. FrameEnd(c, msgs, i) = Len(c) => FrameEnd(b, msgs, i + k) = Len(b)
    BY <2>2
  <2> QED
    BY <2>1, <2>3, <2>4, <2>5, Zenon
<1> QED
  BY <1>4, <1>5, <1>6, <1>7 DEF Framing, Contiguous

\* So does losing the end.
LEMMA TruncateKeepsFraming ==
  ASSUME NEW b \in Seq(Cell), NEW c \in Seq(Cell), NEW msgs \in Seq(Message),
         Len(c) <= Len(b), \A i \in 1..Len(c) : c[i] = b[i],
         Framing(b, msgs)
  PROVE  Framing(c, msgs)
<1>1. \A i \in 1..Len(c) : i \in 1..Len(b) /\ c[i] = b[i]
  OBVIOUS
<1>2. ASSUME NEW i \in 1..Len(c)
      PROVE  /\ FrameEnd(c, msgs, i) = FrameEnd(b, msgs, i)
             /\ FrameEnd(b, msgs, i) \in Int /\ FrameEnd(b, msgs, i) >= i
  <2>1. FrameEnd(c, msgs, i) = FrameEnd(b, msgs, i)
    BY <1>1, Zenon DEF FrameEnd
  <2> QED
    BY <1>1, <2>1, FrameEndBounds
<1>3. CellsOf(c, msgs)
  BY <1>1 DEF Framing, CellsOf
<1>4. ASSUME NEW i \in 1..Len(c), NEW j \in i..Len(c), j <= FrameEnd(c, msgs, i)
      PROVE  c[j] = [n |-> c[i].n, at |-> c[i].at + (j - i)]
  <2>1. j \in i..Len(b) /\ j \in 1..Len(c) /\ j <= FrameEnd(b, msgs, i)
    BY <1>2, <1>4
  <2>2. b[j] = [n |-> b[i].n, at |-> b[i].at + (j - i)]
    BY <1>1, <2>1 DEF Framing, Contiguous
  <2> QED
    BY <1>1, <2>1, <2>2
<1>5. ASSUME NEW i \in 1..Len(c), FrameEnd(c, msgs, i) < Len(c)
      PROVE  c[FrameEnd(c, msgs, i) + 1] = [n |-> c[i].n + 1, at |-> 0]
  <2>1. FrameEnd(b, msgs, i) < Len(b) /\ FrameEnd(b, msgs, i) + 1 \in 1..Len(c)
    BY <1>2, <1>5
  <2>2. b[FrameEnd(b, msgs, i) + 1] = [n |-> b[i].n + 1, at |-> 0]
    BY <1>1, <2>1 DEF Framing, Contiguous
  <2> QED
    BY <1>1, <1>2, <2>1, <2>2
<1> QED
  BY <1>3, <1>4, <1>5 DEF Framing, Contiguous

\* From byte number i - p - 1 of a message with q bytes of body to its last.
LEMMA LastByte ==
  ASSUME NEW p \in Nat, NEW q \in Nat, NEW i \in Int
  PROVE  i + 3 + q - (i - p - 1) = p + 4 + q
OBVIOUS

\* And so does writing one more message, when nothing is missing before it.
LEMMA AppendKeepsFraming ==
  ASSUME NEW b \in Seq(Cell), NEW c \in Seq(Cell), NEW msgs \in Seq(Message),
         NEW m \in Message,
         Len(c) = Len(b) + 4 + m.len,
         \A i \in 1..Len(b) : c[i] = b[i],
         \A i \in (Len(b) + 1)..Len(c) :
           c[i] = [n |-> Len(msgs) + 1, at |-> i - Len(b) - 1],
         Framing(b, msgs), Complete(b, msgs)
  PROVE  Framing(c, Append(msgs, m)) /\ Complete(c, Append(msgs, m))
<1> DEFINE more == Append(msgs, m)
<1>1. /\ more \in Seq(Message) /\ Len(more) = Len(msgs) + 1
      /\ \A n \in 1..Len(msgs) : more[n] = msgs[n]
      /\ more[Len(msgs) + 1] = m
      /\ m.len \in Nat
  BY AppendProperties DEF Message
<1> HIDE DEF more
<1>2. ASSUME NEW i \in 1..Len(b)
      PROVE  /\ FrameEnd(c, more, i) = FrameEnd(b, msgs, i)
             /\ FrameEnd(b, msgs, i) \in i..Len(b)
             /\ b[i].n \in 1..Len(msgs) /\ b[i].at <= 3 + more[b[i].n].len
             /\ FrameEnd(b, msgs, i) = Len(b) => b[i].n = Len(msgs)
  <2>1. /\ b[i].n \in 1..Len(msgs)
        /\ msgs[b[i].n].len \in Nat /\ b[i].at \in Nat
        /\ b[i].at <= 3 + msgs[b[i].n].len
    BY FramingTypes
  <2>2. more[b[i].n] = msgs[b[i].n] /\ c[i] = b[i]
    BY <1>1, <2>1
  <2>3. FrameEnd(c, more, i) = FrameEnd(b, msgs, i)
    BY <2>2, Zenon DEF FrameEnd
  <2>4. FrameEnd(b, msgs, i) \in Int /\ FrameEnd(b, msgs, i) >= i
    BY FrameEndBounds
  <2> QED
    BY <2>1, <2>2, <2>3, <2>4 DEF Complete
<1>3. ASSUME NEW i \in (Len(b) + 1)..Len(c)
      PROVE  /\ c[i].n = Len(msgs) + 1 /\ c[i].at = i - Len(b) - 1
             /\ more[c[i].n].len = m.len
             /\ FrameEnd(c, more, i) = Len(c)
  <2>1. c[i].n = Len(msgs) + 1 /\ c[i].at = i - Len(b) - 1
    <3>1. c[i] = [n |-> Len(msgs) + 1, at |-> i - Len(b) - 1]
      OBVIOUS
    <3> QED
      BY <3>1, CellFields
  <2>2. more[c[i].n].len = m.len
    BY <1>1, <2>1
  <2>3. FrameEnd(c, more, i) = i + 3 + m.len - (i - Len(b) - 1)
    BY <2>1, <2>2, Zenon DEF FrameEnd
  <2>4. Len(b) \in Nat /\ m.len \in Nat /\ i \in Int
    BY <1>1
  <2>5. i + 3 + m.len - (i - Len(b) - 1) = Len(b) + 4 + m.len
    BY <2>4, LastByte, Zenon
  <2> QED
    BY <2>1, <2>2, <2>3, <2>5
<1>4. \A i \in 1..Len(c) : i \in 1..Len(b) \/ i \in (Len(b) + 1)..Len(c)
  BY <1>1
<1>5. CellsOf(c, more)
  <2> SUFFICES ASSUME NEW i \in 1..Len(c)
               PROVE  c[i].n \in 1..Len(more) /\ c[i].at <= 3 + more[c[i].n].len
    BY DEF CellsOf
  <2>1. CASE i \in 1..Len(b)
    <3>1. c[i] = b[i]
      BY <2>1
    <3>2. b[i].n \in 1..Len(more) /\ b[i].at <= 3 + more[b[i].n].len
      BY <1>1, <1>2, <2>1
    <3> QED
      BY <3>1, <3>2
  <2>2. CASE i \in (Len(b) + 1)..Len(c)
    BY <1>1, <1>3, <2>2
  <2> QED
    BY <1>4, <2>1, <2>2
<1>6. ASSUME NEW i \in 1..Len(c), NEW j \in i..Len(c), j <= FrameEnd(c, more, i)
      PROVE  c[j] = [n |-> c[i].n, at |-> c[i].at + (j - i)]
  <2>1. CASE i \in 1..Len(b)
    <3>1. j \in i..Len(b) /\ j <= FrameEnd(b, msgs, i)
      BY <1>2, <1>6, <2>1
    <3>2. b[j] = [n |-> b[i].n, at |-> b[i].at + (j - i)]
      BY <2>1, <3>1 DEF Framing, Contiguous
    <3> QED
      BY <2>1, <3>1, <3>2
  <2>2. CASE i \in (Len(b) + 1)..Len(c)
    <3>1. j \in (Len(b) + 1)..Len(c)
      BY <2>2
    <3>2. c[j] = [n |-> Len(msgs) + 1, at |-> j - Len(b) - 1]
      BY <3>1
    <3>3. c[i].n = Len(msgs) + 1 /\ c[i].at + (j - i) = j - Len(b) - 1
      BY <1>3, <2>2
    <3> QED
      BY <3>2, <3>3
  <2> QED
    BY <1>4, <2>1, <2>2
<1>7. ASSUME NEW i \in 1..Len(c), FrameEnd(c, more, i) < Len(c)
      PROVE  c[FrameEnd(c, more, i) + 1] = [n |-> c[i].n + 1, at |-> 0]
  <2>1. i \in 1..Len(b)
    BY <1>3, <1>4, <1>7
  <2>2. c[i] = b[i]
    BY <2>1
  <2>3. CASE FrameEnd(b, msgs, i) < Len(b)
    <3>1. b[FrameEnd(b, msgs, i) + 1] = [n |-> b[i].n + 1, at |-> 0]
      BY <2>1, <2>3 DEF Framing, Contiguous
    <3>2. FrameEnd(b, msgs, i) + 1 \in 1..Len(b)
      BY <1>2, <2>1, <2>3
    <3> QED
      BY <1>2, <2>1, <2>2, <3>1, <3>2
  <2>4. CASE FrameEnd(b, msgs, i) = Len(b)
    <3>1. Len(b) + 1 \in (Len(b) + 1)..Len(c)
      BY <1>1
    <3>2. c[Len(b) + 1] = [n |-> Len(msgs) + 1, at |-> (Len(b) + 1) - Len(b) - 1]
      BY <3>1
    <3>3. b[i].n = Len(msgs) /\ FrameEnd(c, more, i) = Len(b)
      BY <1>2, <2>1, <2>4
    <3>4. c[Len(b) + 1] = [n |-> Len(msgs) + 1, at |-> 0]
      BY <3>2
    <3> QED
      BY <2>2, <3>3, <3>4, Zenon
  <2> QED
    BY <1>2, <2>1, <2>3, <2>4
<1>8. Complete(c, more)
  <2> SUFFICES ASSUME NEW i \in 1..Len(c)
               PROVE  /\ FrameEnd(c, more, i) <= Len(c)
                      /\ FrameEnd(c, more, i) = Len(c) => c[i].n = Len(more)
    BY DEF Complete
  <2>1. CASE i \in 1..Len(b)
    BY <1>1, <1>2, <2>1
  <2>2. CASE i \in (Len(b) + 1)..Len(c)
    BY <1>1, <1>3, <2>2
  <2> QED
    BY <1>4, <2>1, <2>2
<1> QED
  BY <1>5, <1>6, <1>7, <1>8 DEF Framing, Contiguous, more

-----------------------------------------------------------------------------
(* The unread bytes, stream \o flight, as the network's operations move them. *)

\* Two sequences of bytes are joined one after the other, nothing lost of either.
LEMMA Concatenation ==
  ASSUME NEW s \in Seq(Cell), NEW f \in Seq(Cell)
  PROVE  /\ s \o f \in Seq(Cell)
         /\ Len(s) \in Nat /\ Len(f) \in Nat /\ Len(s \o f) = Len(s) + Len(f)
         /\ \A i \in 1..Len(s) : (s \o f)[i] = s[i]
         /\ \A i \in 1..Len(f) : (s \o f)[i + Len(s)] = f[i]
<1>1. Len(s) \in Nat /\ Len(f) \in Nat
  OBVIOUS
<1>2. /\ s \o f \in Seq(Cell) /\ Len(s \o f) = Len(s) + Len(f)
      /\ \A i \in 1..(Len(s) + Len(f)) :
           (s \o f)[i] = IF i <= Len(s) THEN s[i] ELSE f[i - Len(s)]
  BY ConcatProperties
<1>3. ASSUME NEW i \in 1..Len(s) PROVE (s \o f)[i] = s[i]
  BY <1>1, <1>2
<1>4. ASSUME NEW i \in 1..Len(f) PROVE (s \o f)[i + Len(s)] = f[i]
  <2>1. i + Len(s) \in 1..(Len(s) + Len(f)) /\ ~(i + Len(s) <= Len(s))
        /\ (i + Len(s)) - Len(s) = i
    BY <1>1
  <2>2. (s \o f)[i + Len(s)] = f[(i + Len(s)) - Len(s)]
    BY <1>2, <2>1
  <2> QED
    BY <2>1, <2>2
<1> QED
  BY <1>1, <1>2, <1>3, <1>4

\* A stretch of a sequence of bytes is a sequence of bytes, numbered from its start.
LEMMA Part ==
  ASSUME NEW s \in Seq(Cell), NEW k \in Nat, NEW n \in Nat, k <= n, n <= Len(s)
  PROVE  /\ SubSeq(s, k + 1, n) \in Seq(Cell)
         /\ Len(SubSeq(s, k + 1, n)) = n - k
         /\ \A i \in 1..(n - k) : SubSeq(s, k + 1, n)[i] = s[i + k]
<1>1. \A i \in (k + 1)..n : s[i] \in Cell
  BY ElementOfSeq
<1>2. /\ SubSeq(s, k + 1, n) \in Seq(Cell)
      /\ Len(SubSeq(s, k + 1, n)) = IF k + 1 <= n THEN n - (k + 1) + 1 ELSE 0
      /\ \A i \in 1..(n - (k + 1) + 1) : SubSeq(s, k + 1, n)[i] = s[(k + 1) + i - 1]
  BY <1>1, SubSeqProperties
<1>3. ASSUME NEW i \in 1..(n - k)
      PROVE  SubSeq(s, k + 1, n)[i] = s[i + k]
  <2>1. i \in 1..(n - (k + 1) + 1) /\ (k + 1) + i - 1 = i + k
    OBVIOUS
  <2> QED
    BY <1>2, <2>1
<1> QED
  BY <1>2, <1>3

\* What recv() leaves is the rest of the unread bytes, wherever TCP had cut them.
LEMMA TakeBytes ==
  ASSUME NEW s \in Seq(Cell), NEW f \in Seq(Cell), NEW k \in 0..Len(s),
         NEW t \in Seq(Cell), Len(t) = Len(s) - k,
         \A i \in 1..(Len(s) - k) : t[i] = s[i + k]
  PROVE  /\ t \o f \in Seq(Cell) /\ s \o f \in Seq(Cell)
         /\ Len(s \o f) = Len(t \o f) + k
         /\ \A i \in 1..Len(t \o f) : (t \o f)[i] = (s \o f)[i + k]
<1>2. /\ t \o f \in Seq(Cell) /\ s \o f \in Seq(Cell)
      /\ Len(t \o f) = Len(t) + Len(f) /\ Len(s \o f) = Len(s) + Len(f)
      /\ Len(f) \in Nat /\ Len(s) \in Nat /\ Len(t) \in Nat
  BY Concatenation
<1>5. Len(s \o f) = Len(t \o f) + k
  BY <1>2
<1>3. ASSUME NEW i \in 1..Len(t \o f)
      PROVE  (t \o f)[i] = (s \o f)[i + k]
  <2>1. CASE i <= Len(t)
    <3>1. i \in 1..Len(t) /\ i + k \in 1..Len(s)
      BY <1>2, <2>1
    <3>2. (t \o f)[i] = t[i] /\ (s \o f)[i + k] = s[i + k]
      BY <3>1, Concatenation
    <3> QED
      BY <3>1, <3>2
  <2>2. CASE i > Len(t)
    <3> DEFINE j == i - Len(t)
    <3>0. i \in Nat /\ i <= Len(t) + Len(f) /\ Len(t) \in Nat /\ Len(f) \in Nat
      BY <1>2
    <3>1. j \in 1..Len(f) /\ i = j + Len(t) /\ i + k = j + Len(s)
      BY <2>2, <3>0
    <3> HIDE DEF j
    <3>2. (t \o f)[j + Len(t)] = f[j] /\ (s \o f)[j + Len(s)] = f[j]
      BY <3>1, Concatenation
    <3> QED
      BY <3>1, <3>2
  <2> QED
    BY <1>2, <2>1, <2>2
<1> QED
  BY <1>2, <1>3, <1>5

\* Bytes may be joined in any grouping.
LEMMA Regroup ==
  ASSUME NEW s \in Seq(Cell), NEW h \in Seq(Cell), NEW g \in Seq(Cell)
  PROVE  (s \o h) \o g = s \o (h \o g)
BY ConcatAssociative

\* The network moves bytes from the flight to the stream; the unread bytes stay.
LEMMA DeliverBytes ==
  ASSUME NEW s \in Seq(Cell), NEW f \in Seq(Cell), NEW k \in 1..Len(f)
  PROVE  /\ s \o SubSeq(f, 1, k) \in Seq(Cell)
         /\ SubSeq(f, k + 1, Len(f)) \in Seq(Cell)
         /\ (s \o SubSeq(f, 1, k)) \o SubSeq(f, k + 1, Len(f)) = s \o f
<1> DEFINE h == SubSeq(f, 1, k)
           g == SubSeq(f, k + 1, Len(f))
<1>1. k \in Nat /\ Len(f) \in Nat /\ k <= Len(f)
  OBVIOUS
<1>2. h \in Seq(Cell) /\ g \in Seq(Cell)
  <2>1. SubSeq(f, 0 + 1, k) \in Seq(Cell)
    BY <1>1, Part
  <2> QED
    BY <1>1, <2>1, Part
<1>3. h \o g = f
  <2>1. 1 \in 1..(Len(f) + 1) /\ k \in (1 - 1)..Len(f) /\ Len(f) \in k..Len(f)
    BY <1>1
  <2>2. h \o g = SubSeq(f, 1, Len(f))
    BY <2>1, ConcatAdjacentSubSeq
  <2>3. SubSeq(f, 1, Len(f)) = f
    BY SubSeqFull
  <2> QED
    BY <2>2, <2>3
<1> HIDE DEF h, g
<1>4. (s \o h) \o g = s \o (h \o g)
  BY <1>2, Regroup, Zenon
<1>5. s \o h \in Seq(Cell)
  BY <1>2, Concatenation
<1> QED
  BY <1>2, <1>3, <1>4, <1>5 DEF h, g

\* The bytes of one message: its header and its body, from the first on.
LEMMA BytesOfMessage ==
  ASSUME NEW n \in Nat \ {0}, NEW m \in Message
  PROVE  /\ Bytes(n, m) \in Seq(Cell) /\ Len(Bytes(n, m)) = 4 + m.len
         /\ m.len \in Nat
         /\ \A i \in 1..(4 + m.len) : Bytes(n, m)[i] = [n |-> n, at |-> i - 1]
<1>1. m.len \in Nat
  BY DEF Message
<1>2. \A i \in 1..(4 + m.len) : [n |-> n, at |-> i - 1] \in Cell
  BY DEF Cell
<1> QED
  BY <1>1, <1>2 DEF Bytes

\* A message written to the socket is added to the unread bytes as a whole.
LEMMA WriteBytes ==
  ASSUME NEW b \in Seq(Cell), NEW n \in Nat \ {0}, NEW m \in Message
  PROVE  /\ b \o Bytes(n, m) \in Seq(Cell)
         /\ Len(b \o Bytes(n, m)) = Len(b) + 4 + m.len
         /\ \A i \in 1..Len(b) : (b \o Bytes(n, m))[i] = b[i]
         /\ \A i \in (Len(b) + 1)..Len(b \o Bytes(n, m)) :
              (b \o Bytes(n, m))[i] = [n |-> n, at |-> i - Len(b) - 1]
<1> DEFINE t == Bytes(n, m)
<1>1. /\ t \in Seq(Cell) /\ Len(t) = 4 + m.len /\ m.len \in Nat
      /\ \A i \in 1..(4 + m.len) : t[i] = [n |-> n, at |-> i - 1]
  BY BytesOfMessage
<1> HIDE DEF t
<1>2. /\ b \o t \in Seq(Cell) /\ Len(b \o t) = Len(b) + Len(t) /\ Len(b) \in Nat
      /\ \A i \in 1..Len(b) : (b \o t)[i] = b[i]
      /\ \A i \in 1..Len(t) : (b \o t)[i + Len(b)] = t[i]
  BY <1>1, Concatenation
<1>3. Len(b \o t) = Len(b) + 4 + m.len
  BY <1>1, <1>2
<1>4. ASSUME NEW i \in (Len(b) + 1)..Len(b \o t)
      PROVE  (b \o t)[i] = [n |-> n, at |-> i - Len(b) - 1]
  <2> DEFINE j == i - Len(b)
  <2>1. j \in 1..(4 + m.len) /\ i = j + Len(b) /\ j \in 1..Len(t)
    BY <1>1, <1>2, <1>3
  <2> HIDE DEF j
  <2>2. (b \o t)[j + Len(b)] = t[j] /\ t[j] = [n |-> n, at |-> j - 1]
    BY <1>1, <1>2, <2>1
  <2>3. j - 1 = i - Len(b) - 1
    BY <1>2, <2>1
  <2> QED
    BY <2>1, <2>2, <2>3, Zenon
<1> QED
  BY <1>2, <1>3, <1>4 DEF t

-----------------------------------------------------------------------------
(* What the continuations of a received message do to the router's state.  *)

\* The parts of TypeOK that Return() and its like are responsible for.
ControlOK ==
  /\ phase \in Live \cup {"idle", "ended"}
  /\ pc \in {"none", "select", "header", "body"}
  /\ ret \in {"none", "ok", "fail", "killed"}

TimersOK ==
  /\ modem_heartbeat_interval \in Nat /\ timeout \in Nat
  /\ {recvAge, sentAge} \subseteq 0..AgeCap

\* session()'s return leaves the types and the timers' types as they were.
LEMMA ReturnOK ==
  ASSUME TypeOK, NEW r \in {"ok", "fail", "killed"}, Return(r)
  PROVE  ControlOK' /\ TimersOK' /\ phase' = "ended" /\ pc' = "none"
BY DEF TypeOK, Return, ControlOK, TimersOK, timers, Live

\* The outcome of a send() is one of session()'s results.
LEMMA OutcomeOK ==
  ASSUME NEW result \in {"sent", "failed", "sigpipe", "no memory"}
  PROVE  Outcome(result) \in {"ok", "fail", "killed"}
BY DEF Outcome

\* send() delivers, fails or raises SIGPIPE, and nothing else.
LEMMA SendResultsOK == SendResults \subseteq {"sent", "failed", "sigpipe"}
BY DEF SendResults

\* What the router writes is an outgoing message.
LEMMA OutputOK ==
  ASSUME NEW type \in Nat, NEW dest \in Dest \cup {NoDest}, NEW sc \in Nat
  PROVE  Output(type, dest, sc) \in OutMessage
BY DEF Output, OutMessage

\* Whatever a send() does, the written messages remain a sequence of messages.
LEMMA AfterOK ==
  ASSUME NEW result, NEW o \in OutMessage, NEW written \in Seq(OutMessage)
  PROVE  After(result, o, written) \in Seq(OutMessage)
<1>1. Append(written, o) \in Seq(OutMessage)
  BY AppendProperties
<1> QED
  BY <1>1 DEF After

\* So they do after a heartbeat, sent or merged into the run of heartbeats.
LEMMA AfterHeartbeatOK ==
  ASSUME TypeOK, NEW result
  PROVE  AfterHeartbeat(result) \in Seq(OutMessage)
<1>1. Heartbeat \in OutMessage
  BY OutputOK DEF Heartbeat, PEER_HEARTBEAT
<1>2. After(result, Heartbeat, out) \in Seq(OutMessage)
  BY <1>1, AfterOK DEF TypeOK
<1> QED
  BY <1>2 DEF AfterHeartbeat, TypeOK

\* send_session_term() enters the termination state or returns, its types intact.
LEMMA SendSessionTermOK ==
  ASSUME TypeOK, NEW sc \in Nat, NEW h \in Nat, NEW written \in Seq(OutMessage),
         SendSessionTerm(sc, h, written)
  PROVE  /\ ControlOK' /\ TimersOK' /\ out' \in Seq(OutMessage)
         /\ \/ phase' = "term" /\ pc' = "select"
            \/ phase' = "ended" /\ pc' = "none"
<1>1. PICK result \in SendResults \cup {"no memory"} :
        /\ out' = After(result, Output(SESSION_TERM, NoDest, sc), written)
        /\ IF result = "sent" THEN TermSession(h) ELSE Return(Outcome(result))
  BY DEF SendSessionTerm
<1>2. out' \in Seq(OutMessage)
  BY <1>1, OutputOK, AfterOK DEF SESSION_TERM
<1>3. CASE result = "sent"
  BY <1>1, <1>2, <1>3, NumbersAssumption DEF TypeOK, TermSession, ControlOK, TimersOK, Live
<1>4. CASE result # "sent"
  <2>1. Outcome(result) \in {"ok", "fail", "killed"}
    BY <1>1, SendResultsOK, OutcomeOK
  <2> QED
    BY <1>1, <1>2, <1>4, <2>1, ReturnOK
<1> QED
  BY <1>3, <1>4

\* The first message is accepted only if valid, and leaves init in every case.
LEMMA InitResponseOK ==
  ASSUME TypeOK, NEW m \in Message, NEW received \in Nat,
         received = 4 + m.len => m \in Messages,
         InitResponse(m, received)
  PROVE  /\ ControlOK' /\ TimersOK'
         /\ out' \in Seq(OutMessage) /\ accepted' \in Seq(Messages)
         /\ \/ phase' \in {"in", "term"} /\ pc' = "select"
            \/ phase' = "ended" /\ pc' = "none"
         /\ \/ accepted' = accepted /\ phase' # "in"
            \/ received = 4 + m.len /\ accepted' = Append(accepted, m)
<1> DEFINE valid == m.type = SESSION_INIT_RESP /\ Verdict(m, received) = SC_SUCCESS
<1>1. valid => received = 4 + m.len /\ m \in Messages
  BY DEF Verdict, SC_SUCCESS, SC_INVALID_DATA
<1>2. /\ accepted' = IF valid THEN Append(accepted, m) ELSE accepted
      /\ \/ ~valid /\ Return("fail") /\ UNCHANGED out
         \/ valid /\ SendSessionTerm(SC_SHUTDOWN, m.hb, out)
         \/ valid /\ InSession(m.hb) /\ UNCHANGED out
  BY DEF InitResponse
<1> HIDE DEF valid
<1>3. m.hb \in Nat /\ out \in Seq(OutMessage) /\ accepted \in Seq(Messages)
  BY DEF Message, TypeOK
<1>4. accepted' \in Seq(Messages)
  BY <1>1, <1>2, <1>3, AppendProperties
<1>5. CASE ~valid /\ Return("fail") /\ UNCHANGED out
  BY <1>2, <1>3, <1>4, <1>5, ReturnOK
<1>6. CASE valid /\ SendSessionTerm(SC_SHUTDOWN, m.hb, out)
  <2>1. SC_SHUTDOWN \in Nat
    BY DEF SC_SHUTDOWN
  <2> QED
    BY <1>1, <1>2, <1>3, <1>4, <1>6, <2>1, SendSessionTermOK
<1>7. CASE valid /\ InSession(m.hb) /\ UNCHANGED out
  <2>1. Least(m.hb, router_heartbeat_interval) \in Nat /\ 0 \in 0..AgeCap
    BY <1>3, NumbersAssumption DEF Least
  <2> QED
    BY <1>1, <1>2, <1>3, <1>4, <1>7, <2>1 DEF InSession, ControlOK, TimersOK, TypeOK, Live
<1> QED
  BY <1>2, <1>5, <1>6, <1>7

\* A served message is followed by another wait or by the end of the process.
LEMMA ServeOK ==
  ASSUME TypeOK, NEW m \in Message, Serve(m)
  PROVE  /\ ControlOK' /\ TimersOK' /\ out' \in Seq(OutMessage)
         /\ \/ phase' = phase /\ pc' = "select"
            \/ phase' = "ended" /\ pc' = "none"
<1>1. PICK result :
        /\ out' = After(result, Output(ResponseTo(m.type), m.dest, SC_SUCCESS), out)
        /\ IF result = "sigpipe" THEN Return("killed") ELSE WaitAgain(nowAge)
  BY DEF Serve
<1>2. Output(ResponseTo(m.type), m.dest, SC_SUCCESS) \in OutMessage
  <2>1. ResponseTo(m.type) \in Nat /\ SC_SUCCESS \in Nat /\ m.dest \in Dest \cup {NoDest}
    BY DEF ResponseTo, DEST_UP_RESP, DEST_DOWN_RESP, SC_SUCCESS, Message
  <2> QED
    BY <2>1, OutputOK
<1>3. out' \in Seq(OutMessage)
  BY <1>1, <1>2, AfterOK DEF TypeOK
<1>4. CASE result = "sigpipe"
  BY <1>1, <1>3, <1>4, ReturnOK
<1>5. CASE result # "sigpipe"
  BY <1>1, <1>3, <1>5 DEF WaitAgain, ControlOK, TimersOK, TypeOK
<1> QED
  BY <1>4, <1>5

\* A Session Termination of the modem ends the session.
LEMMA TerminatedOK ==
  ASSUME TypeOK, Terminated
  PROVE  /\ ControlOK' /\ TimersOK' /\ out' \in Seq(OutMessage)
         /\ phase' = "ended" /\ pc' = "none"
<1>1. PICK result \in SendResults :
        /\ out' = After(result, Output(SESSION_TERM_RESP, NoDest, 0), out)
        /\ Return(Outcome(result))
  BY DEF Terminated
<1>2. Outcome(result) \in {"ok", "fail", "killed"}
  BY <1>1, SendResultsOK, OutcomeOK
<1>3. out' \in Seq(OutMessage)
  BY <1>1, OutputOK, AfterOK DEF SESSION_TERM_RESP, TypeOK
<1> QED
  BY <1>1, <1>2, <1>3, ReturnOK

\* handle_message() accepts at most the message at hand, and only a whole one.
LEMMA HandleMessageOK ==
  ASSUME TypeOK, NEW m \in Message, NEW received \in Nat, phase = "in",
         received = 4 + m.len => m \in Messages,
         HandleMessage(m, received)
  PROVE  /\ ControlOK' /\ TimersOK'
         /\ out' \in Seq(OutMessage) /\ accepted' \in Seq(Messages)
         /\ \/ phase' \in {"in", "term"} /\ pc' = "select"
            \/ phase' = "ended" /\ pc' = "none"
         /\ \/ accepted' = accepted /\ phase' # "in"
            \/ received = 4 + m.len /\ accepted' = Append(accepted, m)
<1> DEFINE sc == StatusOf(m, received)
           valid == sc = SC_SUCCESS /\ Verdict(m, received) = SC_SUCCESS
<1>1. valid => received = 4 + m.len /\ m \in Messages
  BY DEF Verdict, SC_SUCCESS, SC_INVALID_DATA
<1>2. /\ accepted' = IF valid THEN Append(accepted, m) ELSE accepted
      /\ \/ Terminated
         \/ m.type # SESSION_TERM /\ sc = SC_SUCCESS /\ Serve(m)
         \/ SendSessionTerm(sc, modem_heartbeat_interval, out)
  BY DEF HandleMessage
<1>3. sc \in Nat
  BY DEF StatusOf, Verdict, SC_SUCCESS, SC_INVALID_DATA, SC_UNEXPECTED_MESSAGE,
         SC_UNKNOWN_MESSAGE
<1>4. (m.type # SESSION_TERM /\ sc = SC_SUCCESS) => valid
  BY DEF StatusOf, SC_SUCCESS, SC_UNEXPECTED_MESSAGE, SC_UNKNOWN_MESSAGE,
         Unexpected, Known, Served
<1> HIDE DEF sc, valid
<1>5. accepted' \in Seq(Messages)
  BY <1>1, <1>2, AppendProperties DEF TypeOK
<1>6. CASE Terminated
  BY <1>1, <1>2, <1>5, <1>6, TerminatedOK
<1>7. CASE m.type # SESSION_TERM /\ sc = SC_SUCCESS /\ Serve(m)
  BY <1>1, <1>2, <1>4, <1>5, <1>7, ServeOK
<1>8. CASE SendSessionTerm(sc, modem_heartbeat_interval, out)
  <2>1. modem_heartbeat_interval \in Nat /\ out \in Seq(OutMessage)
    BY DEF TypeOK
  <2> QED
    BY <1>1, <1>2, <1>3, <1>5, <1>8, <2>1, SendSessionTermOK
<1> QED
  BY <1>2, <1>6, <1>7, <1>8

\* A message received is appended to "accepted" only when all of it was there,
\* and the session goes on only then.
LEMMA ReceivedOK ==
  ASSUME TypeOK, NEW m \in Message, NEW received \in Nat,
         received = 4 + m.len => m \in Messages,
         Received(m, received)
  PROVE  /\ ControlOK' /\ TimersOK' /\ cur' = NoMessage /\ quiet' = 0
         /\ out' \in Seq(OutMessage) /\ accepted' \in Seq(Messages)
         /\ \/ phase' \in {"in", "term"} /\ pc' = "select"
            \/ phase' = "ended" /\ pc' = "none"
         /\ \/ accepted' = accepted /\ phase' # "in"
            \/ /\ phase \in {"init", "in"}
               /\ received = 4 + m.len /\ accepted' = Append(accepted, m)
<1>1. CASE phase = "init" /\ InitResponse(m, received)
  BY <1>1, InitResponseOK DEF Received
<1>2. CASE phase = "in" /\ HandleMessage(m, received)
  BY <1>2, HandleMessageOK DEF Received
<1>3. CASE phase = "term" /\ TermMessage
  BY <1>3, ReturnOK DEF Received, TermMessage, history, TypeOK
<1> QED
  BY <1>1, <1>2, <1>3 DEF Received

-----------------------------------------------------------------------------
(* Reading a whole frame, or the header of one, leaves the reader where    *)
(* the next part starts.                                                   *)

\* A frame read to its end leaves the unread bytes at the start of the next one.
LEMMA FrameRead ==
  ASSUME NEW b \in Seq(Cell), NEW c \in Seq(Cell), NEW msgs \in Seq(Message),
         NEW k \in Nat, Len(b) = Len(c) + k,
         \A i \in 1..Len(c) : c[i] = b[i + k],
         Framing(b, msgs), Len(b) > 0, FrameEnd(b, msgs, 1) = k
  PROVE  /\ Len(c) > 0 => c[1] = [n |-> b[1].n + 1, at |-> 0]
         /\ Len(c) = 0 /\ Complete(b, msgs) => b[1].n = Len(msgs)
<1>1. 1 \in 1..Len(b) /\ Len(c) \in Nat /\ Len(b) \in Nat
  OBVIOUS
<1>2. ASSUME Len(c) > 0
      PROVE  c[1] = [n |-> b[1].n + 1, at |-> 0]
  <2>1. k < Len(b) /\ k + 1 = 1 + k /\ 1 \in 1..Len(c)
    BY <1>1, <1>2
  <2>2. b[k + 1] = [n |-> b[1].n + 1, at |-> 0]
    BY <1>1, <2>1 DEF Framing, Contiguous
  <2> QED
    BY <2>1, <2>2
<1>3. ASSUME Len(c) = 0, Complete(b, msgs)
      PROVE  b[1].n = Len(msgs)
  <2>1. FrameEnd(b, msgs, 1) = Len(b)
    BY <1>1, <1>3
  <2> QED
    BY <1>1, <1>3, <2>1 DEF Complete
<1> QED
  BY <1>2, <1>3

\* The lesser of two numbers is one of them.
LEMMA LeastOK ==
  ASSUME NEW a \in Nat, NEW b \in Nat
  PROVE  /\ Least(a, b) \in 0..b /\ Least(a, b) \in Nat /\ Least(a, b) <= a
         /\ a > 0 /\ b > 0 => Least(a, b) > 0
BY DEF Least

\* After a header that announces a body, the first byte of that body is next.
LEMMA HeaderRead ==
  ASSUME NEW b \in Seq(Cell), NEW c \in Seq(Cell), NEW msgs \in Seq(Message),
         Len(b) = Len(c) + 4,
         \A i \in 1..Len(c) : c[i] = b[i + 4],
         Framing(b, msgs), b[1].at = 0, msgs[b[1].n].len > 0
  PROVE  /\ Len(c) > 0 => c[1] = [n |-> b[1].n, at |-> 4]
         /\ Len(c) = 0 => ~Complete(b, msgs)
<1>1. 1 \in 1..Len(b) /\ Len(c) \in Nat /\ Len(b) \in Nat
  OBVIOUS
<1>2. msgs[b[1].n].len \in Nat
  BY <1>1, FramingTypes
<1>3. FrameEnd(b, msgs, 1) = 4 + msgs[b[1].n].len
  BY <1>2 DEF FrameEnd
<1>4. FrameEnd(b, msgs, 1) >= 5
  BY <1>2, <1>3
<1>5. ASSUME Len(c) > 0
      PROVE  c[1] = [n |-> b[1].n, at |-> 4]
  <2>1. 5 \in 1..Len(b) /\ 1 \in 1..Len(c) /\ 1 + 4 = 5
    BY <1>1, <1>5
  <2>2. b[5] = [n |-> b[1].n, at |-> b[1].at + (5 - 1)]
    BY <1>1, <1>4, <2>1 DEF Framing, Contiguous
  <2>3. c[1] = b[5]
    BY <2>1
  <2> QED
    BY <2>2, <2>3
<1>6. ASSUME Len(c) = 0
      PROVE  ~Complete(b, msgs)
  <2>1. ~(FrameEnd(b, msgs, 1) <= Len(b))
    BY <1>1, <1>3, <1>2, <1>6
  <2> QED
    BY <1>1, <2>1 DEF Complete
<1> QED
  BY <1>5, <1>6

-----------------------------------------------------------------------------
(* The invariant, action by action.                                        *)

\* What IInv says of the network, in the terms of the lemmas above.
LEMMA NetworkFacts ==
  ASSUME IInv
  PROVE  /\ stream \in Seq(Cell) /\ flight \in Seq(Cell) /\ Unread \in Seq(Cell)
         /\ Len(stream) \in Nat /\ Len(flight) \in Nat
         /\ Len(Unread) = Len(stream) + Len(flight)
         /\ sent \in Seq(Messages) /\ sent \in Seq(Message)
         /\ accepted \in Seq(Messages) /\ Len(accepted) \in Nat /\ Len(sent) \in Nat
         /\ Framing(Unread, sent)
<1>1. /\ stream \in Seq(Cell) /\ flight \in Seq(Cell)
      /\ sent \in Seq(Messages) /\ accepted \in Seq(Messages)
  BY DEF IInv, TypeOK
<1>2. sent \in Seq(Message)
  BY <1>1, MessagesAssumption
<1>3. Unread \in Seq(Cell) /\ Len(Unread) = Len(stream) + Len(flight)
  BY <1>1, Concatenation DEF Unread
<1>4. Framing(Unread, sent)
  BY DEF IInv, Framed, Framing
<1> QED
  BY <1>1, <1>2, <1>3, <1>4

\* A step that leaves the bytes to be read, and the history of messages, alone.
LEMMA NetworkUntouched ==
  ASSUME IInv, Unread' = Unread, UNCHANGED <<sent, accepted>>,
         peer' = "reset" <=> peer = "reset",
         TypeOK', Control',
         phase' \in {"init", "in"} =>
           /\ phase' = phase
           /\ \/ pc' = pc /\ cur' = cur
              \/ {pc, pc'} \subseteq {"select", "header"}
  PROVE  IInv'
<1>1. Framed' /\ InOrder'
  BY DEF IInv, Framed, CellsOf, Contiguous, Complete, FrameEnd, InOrder
<1>2. AlignedAtHeader'
  BY DEF IInv, AlignedAtHeader
<1>3. AlignedAtBody'
  BY DEF IInv, AlignedAtBody
<1> QED
  BY <1>1, <1>2, <1>3 DEF IInv

\* recv() of some of the bytes.
LEMMA TakeKeeps ==
  ASSUME IInv, NEW size \in 0..Len(stream), Take(size)
  PROVE  /\ stream' \in Seq(Cell) /\ Unread' \in Seq(Cell) /\ Framed'
         /\ Len(Unread) = Len(Unread') + size
         /\ \A i \in 1..Len(Unread') : Unread'[i] = Unread[i + size]
         /\ UNCHANGED <<peer, sent, flight, nowAge>>
<1>1. /\ stream' = SubSeq(stream, size + 1, Len(stream))
      /\ UNCHANGED <<peer, sent, flight, nowAge>>
  BY DEF Take, network
<1>2. /\ stream' \in Seq(Cell) /\ Len(stream') = Len(stream) - size
      /\ \A i \in 1..(Len(stream) - size) : stream'[i] = stream[i + size]
  <2>1. size \in Nat /\ Len(stream) \in Nat /\ size <= Len(stream) /\ stream \in Seq(Cell)
    BY NetworkFacts
  <2> QED
    BY <1>1, <2>1, Part
<1>3. Unread' = stream' \o flight /\ Unread = stream \o flight
  BY <1>1 DEF Unread
<1>4. /\ Unread' \in Seq(Cell)
      /\ Len(Unread) = Len(Unread') + size
      /\ \A i \in 1..Len(Unread') : Unread'[i] = Unread[i + size]
  <2>1. stream \in Seq(Cell) /\ flight \in Seq(Cell)
    BY NetworkFacts
  <2>2. ASSUME NEW t \in Seq(Cell), Len(t) = Len(stream) - size,
               \A i \in 1..(Len(stream) - size) : t[i] = stream[i + size]
        PROVE  /\ t \o flight \in Seq(Cell)
               /\ Len(stream \o flight) = Len(t \o flight) + size
               /\ \A i \in 1..Len(t \o flight) :
                    (t \o flight)[i] = (stream \o flight)[i + size]
    BY <2>1, <2>2, TakeBytes
  <2>3. /\ stream' \o flight \in Seq(Cell)
        /\ Len(stream \o flight) = Len(stream' \o flight) + size
        /\ \A i \in 1..Len(stream' \o flight) :
             (stream' \o flight)[i] = (stream \o flight)[i + size]
    BY <1>2, <2>2
  <2> QED
    BY <1>3, <2>3, Zenon
<1>5. /\ Framing(Unread', sent)
      /\ Complete(Unread, sent) => Complete(Unread', sent)
  BY <1>4, NetworkFacts, DropKeepsFraming
<1>6. Framed'
  BY <1>1, <1>5 DEF IInv, Framed, Framing
<1> QED
  BY <1>1, <1>2, <1>4, <1>6

\* A message handed to its handler, with its bytes taken: whole and next in turn,
\* or else the session ends.
LEMMA ReceivedKeeps ==
  ASSUME IInv, NEW size \in 0..Len(stream), Take(size), bufType' \in Nat,
         NEW m \in Message, NEW received \in Nat,
         received = 4 + m.len => m \in Messages,
         Received(m, received),
         phase \in {"init", "in"} /\ received = 4 + m.len =>
           /\ Len(accepted) < Len(sent) /\ m = sent[Len(accepted) + 1]
           /\ Len(Unread') > 0 => Unread'[1] = [n |-> Len(accepted) + 2, at |-> 0]
           /\ Len(Unread') = 0 /\ peer # "reset" => Len(accepted) + 1 = Len(sent)
  PROVE  IInv'
<1>1. /\ ControlOK' /\ TimersOK' /\ cur' = NoMessage /\ quiet' = 0
      /\ out' \in Seq(OutMessage) /\ accepted' \in Seq(Messages)
      /\ \/ phase' \in {"in", "term"} /\ pc' = "select"
         \/ phase' = "ended" /\ pc' = "none"
      /\ \/ accepted' = accepted /\ phase' # "in"
         \/ /\ phase \in {"init", "in"}
            /\ received = 4 + m.len /\ accepted' = Append(accepted, m)
  BY ReceivedOK DEF IInv
<1>2. /\ stream' \in Seq(Cell) /\ Framed' /\ UNCHANGED <<peer, sent, flight, nowAge>>
  BY TakeKeeps
<1>3. 0 \in 0..AgeCap
  BY NumbersAssumption
<1>4. TypeOK'
  BY <1>1, <1>2, <1>3 DEF IInv, TypeOK, ControlOK, TimersOK
<1>5. Control'
  BY <1>1 DEF Control, Live
<1>6. AlignedAtBody'
  BY <1>1 DEF AlignedAtBody
<1>7. CASE accepted' = accepted /\ phase' # "in"
  <2>1. InOrder'
    BY <1>2, <1>7 DEF IInv, InOrder
  <2>2. AlignedAtHeader'
    BY <1>1, <1>7 DEF AlignedAtHeader
  <2> QED
    BY <1>2, <1>4, <1>5, <1>6, <2>1, <2>2 DEF IInv
<1>8. CASE /\ phase \in {"init", "in"}
           /\ received = 4 + m.len /\ accepted' = Append(accepted, m)
  <2>1. /\ Len(accepted) < Len(sent) /\ m = sent[Len(accepted) + 1]
        /\ Len(Unread') > 0 => Unread'[1] = [n |-> Len(accepted) + 2, at |-> 0]
        /\ Len(Unread') = 0 /\ peer # "reset" => Len(accepted) + 1 = Len(sent)
    BY <1>8
  <2>2. Len(accepted) \in Nat /\ Len(sent) \in Nat /\ accepted \in Seq(Messages)
        /\ m \in Messages
    BY <1>8, NetworkFacts
  <2>3. /\ Len(accepted') = Len(accepted) + 1
        /\ \A i \in 1..Len(accepted) : accepted'[i] = accepted[i]
        /\ accepted'[Len(accepted) + 1] = m
    BY <1>8, <2>2, AppendProperties
  <2>4. InOrder'
    <3>1. Len(accepted') <= Len(sent')
      BY <1>2, <2>1, <2>2, <2>3
    <3>2. ASSUME NEW i \in 1..Len(accepted')
          PROVE  accepted'[i] = sent[i]
      <4>1. i \in 1..Len(accepted) \/ i = Len(accepted) + 1
        BY <2>2, <2>3
      <4> QED
        BY <2>1, <2>3, <4>1 DEF IInv, InOrder
    <3> QED
      BY <1>2, <3>1, <3>2 DEF InOrder
  <2>5. AlignedAtHeader'
    <3>1. (Len(accepted) + 1) + 1 = Len(accepted) + 2
      BY <2>2
    <3>2. Len(Unread') > 0 => Unread'[1] = [n |-> Len(accepted') + 1, at |-> 0]
      BY <2>1, <2>3, <3>1
    <3>3. Len(Unread') = 0 /\ peer' # "reset" => Len(accepted') = Len(sent')
      BY <1>2, <2>1, <2>3
    <3> QED
      BY <3>2, <3>3 DEF AlignedAtHeader
  <2> QED
    BY <1>2, <1>4, <1>5, <1>6, <2>4, <2>5 DEF IInv
<1> QED
  BY <1>1, <1>7, <1>8

\* The first of the bytes to come, while the router is between messages.
LEMMA NextMessage ==
  ASSUME IInv, pc = "header", stream # <<>>
  PROVE  /\ Len(stream) > 0 /\ Len(Unread) > 0 /\ stream[1] = Unread[1]
         /\ Decode(stream[1]) \subseteq Messages
         /\ phase \in {"init", "in"} =>
              /\ Unread[1].n = Len(accepted) + 1 /\ Unread[1].at = 0
              /\ Len(accepted) < Len(sent)
              /\ Decode(stream[1]) = {sent[Len(accepted) + 1]}
<1>1. Len(stream) > 0 /\ Len(Unread) > 0
  <2>1. Len(stream) # 0
    BY NetworkFacts, EmptySeq
  <2> QED
    BY <2>1, NetworkFacts
<1>2. stream[1] = Unread[1]
  <2>1. 1 \in 1..Len(stream) /\ Unread = stream \o flight
        /\ stream \in Seq(Cell) /\ flight \in Seq(Cell)
    BY <1>1, NetworkFacts DEF Unread
  <2> QED
    BY <2>1, Concatenation
<1>3. /\ Unread[1].n \in 1..Len(sent) /\ sent \in Seq(Messages)
  BY <1>1, NetworkFacts, FramingTypes
<1>4. Decode(stream[1]) \subseteq Messages
  BY <1>2, <1>3, ElementOfSeq DEF Decode
<1>5. ASSUME phase \in {"init", "in"}
      PROVE  /\ Unread[1].n = Len(accepted) + 1 /\ Unread[1].at = 0
             /\ Len(accepted) < Len(sent)
             /\ Decode(stream[1]) = {sent[Len(accepted) + 1]}
  <2>1. Unread[1] = [n |-> Len(accepted) + 1, at |-> 0]
    BY <1>1, <1>5 DEF IInv, AlignedAtHeader
  <2>2. Unread[1].n = Len(accepted) + 1 /\ Unread[1].at = 0
    BY <2>1, CellFields
  <2>3. Len(accepted) < Len(sent)
    BY <1>3, <2>2, NetworkFacts
  <2> QED
    BY <1>2, <2>2, <2>3 DEF Decode
<1> QED
  BY <1>1, <1>2, <1>4, <1>5

\* The type that a header gives, whole or not, is a number.
LEMMA HeaderTypeOK ==
  ASSUME NEW m \in Message, NEW size \in Nat, bufType \in Nat
  PROVE  HeaderType(m, size) \in Nat
<1>1. m.type \in Nat
  BY DEF Message
<1>2. (m.type \div 256) * 256 + (bufType % 256) \in Nat
  BY <1>1
<1> QED
  BY <1>1, <1>2 DEF HeaderType

\* recv_message()'s first recv() keeps the invariant, whatever it returns.
LEMMA RecvHeaderKeeps ==
  ASSUME IInv, RecvHeader
  PROVE  IInv'
<1> DEFINE size == Least(4, Len(stream))
<1>1. pc = "header" /\ stream # <<>> /\ Take(size)
  BY DEF RecvHeader
<1>2. /\ Len(stream) > 0 /\ Len(Unread) > 0 /\ stream[1] = Unread[1]
      /\ Decode(stream[1]) \subseteq Messages
      /\ phase \in {"init", "in"} =>
           /\ Unread[1].n = Len(accepted) + 1 /\ Unread[1].at = 0
           /\ Len(accepted) < Len(sent)
           /\ Decode(stream[1]) = {sent[Len(accepted) + 1]}
  BY <1>1, NextMessage
<1>3. PICK m \in Decode(stream[1]) :
        LET type == HeaderType(m, size) IN
        /\ bufType' = type
        /\ IF size = 4 /\ m.len > 0
             THEN /\ pc' = "body" /\ cur' = m
                  /\ UNCHANGED <<phase, ret, history, timers, quiet>>
             ELSE Received([m EXCEPT !.type = type], size)
  BY DEF RecvHeader
<1>4. size \in 1..4 /\ size \in 0..Len(stream)
  <2>1. Len(stream) \in Nat /\ Len(stream) > 0 /\ 4 \in Nat /\ 4 > 0
    BY <1>2, NetworkFacts
  <2>2. size \in 0..Len(stream) /\ size \in Nat /\ size <= 4 /\ size > 0
    BY <2>1, LeastOK, Zenon
  <2> QED
    BY <2>2
<1> HIDE DEF size
<1>5. m \in Messages /\ m \in Message
  BY <1>2, MessagesAssumption
<1>6. bufType' = HeaderType(m, size) /\ bufType' \in Nat
  BY <1>3, <1>4, <1>5, HeaderTypeOK DEF IInv, TypeOK
<1>7. /\ stream' \in Seq(Cell) /\ Unread' \in Seq(Cell) /\ Framed'
      /\ Len(Unread) = Len(Unread') + size
      /\ \A i \in 1..Len(Unread') : Unread'[i] = Unread[i + size]
      /\ UNCHANGED <<peer, sent, flight, nowAge>>
  BY <1>1, <1>4, TakeKeeps
<1>8. CASE size = 4 /\ m.len > 0
  <2>1. /\ pc' = "body" /\ cur' = m
        /\ UNCHANGED <<phase, ret, history, timers, quiet>>
    BY <1>3, <1>8
  <2>2. TypeOK'
    BY <1>5, <1>6, <1>7, <2>1 DEF IInv, TypeOK, history, timers
  <2>3. InOrder' /\ Control'
    BY <1>1, <1>5, <1>7, <2>1 DEF IInv, InOrder, Control, history
  <2>4. AlignedAtHeader'
    BY <2>1 DEF AlignedAtHeader
  <2>5. AlignedAtBody'
    <3> SUFFICES ASSUME phase \in {"init", "in"}
                 PROVE  /\ Len(accepted) < Len(sent)
                        /\ m = sent[Len(accepted) + 1] /\ m.len > 0
                        /\ Len(Unread') > 0 =>
                             Unread'[1] = [n |-> Len(accepted) + 1, at |-> 4]
                        /\ Len(Unread') = 0 => peer = "reset"
      BY <1>7, <2>1 DEF AlignedAtBody, history
    <3>1. /\ Len(accepted) < Len(sent) /\ m = sent[Len(accepted) + 1]
          /\ Unread[1].n = Len(accepted) + 1 /\ Unread[1].at = 0
      BY <1>2
    <3>2. sent[Unread[1].n].len > 0
      BY <1>8, <3>1
    <3>3. /\ Len(Unread) = Len(Unread') + 4
          /\ \A i \in 1..Len(Unread') : Unread'[i] = Unread[i + 4]
      BY <1>7, <1>8
    <3>4. /\ Len(Unread') > 0 => Unread'[1] = [n |-> Unread[1].n, at |-> 4]
          /\ Len(Unread') = 0 => ~Complete(Unread, sent)
      <4>1. ASSUME NEW c \in Seq(Cell), Len(Unread) = Len(c) + 4,
                   \A i \in 1..Len(c) : c[i] = Unread[i + 4]
            PROVE  /\ Len(c) > 0 => c[1] = [n |-> Unread[1].n, at |-> 4]
                   /\ Len(c) = 0 => ~Complete(Unread, sent)
        BY <3>1, <3>2, <4>1, NetworkFacts, HeaderRead
      <4> QED
        BY <1>7, <3>3, <4>1
    <3>5. peer # "reset" => Complete(Unread, sent)
      BY DEF IInv, Framed
    <3> QED
      BY <1>8, <3>1, <3>4, <3>5
  <2> QED
    BY <1>7, <2>2, <2>3, <2>4, <2>5 DEF IInv
<1>9. CASE ~(size = 4 /\ m.len > 0)
  <2> DEFINE mm == [m EXCEPT !.type = HeaderType(m, size)]
  <2>1. Received(mm, size)
    BY <1>3, <1>9
  <2>2. mm \in Message /\ mm.len = m.len /\ m.len \in Nat /\ size \in Nat
    BY <1>4, <1>5, <1>6 DEF Message
  <2>3. ASSUME size = 4 + mm.len
        PROVE  size = 4 /\ m.len = 0 /\ mm = m
    <3>1. size = 4 /\ m.len = 0
      BY <1>4, <2>2, <2>3
    <3>2. HeaderType(m, size) = m.type
      BY <3>1 DEF HeaderType
    <3> QED
      BY <1>5, <3>1, <3>2 DEF Message
  <2>4. size = 4 + mm.len => mm \in Messages
    BY <1>5, <2>3
  <2> HIDE DEF mm
  <2>5. ASSUME phase \in {"init", "in"}, size = 4 + mm.len
        PROVE  /\ Len(accepted) < Len(sent) /\ mm = sent[Len(accepted) + 1]
               /\ Len(Unread') > 0 => Unread'[1] = [n |-> Len(accepted) + 2, at |-> 0]
               /\ Len(Unread') = 0 /\ peer # "reset" => Len(accepted) + 1 = Len(sent)
    <3>1. /\ Len(accepted) < Len(sent) /\ m = sent[Len(accepted) + 1]
          /\ Unread[1].n = Len(accepted) + 1 /\ Unread[1].at = 0
          /\ mm = m /\ m.len = 0 /\ size = 4
      BY <1>2, <2>3, <2>5
    <3>2. FrameEnd(Unread, sent, 1) = size
      BY <3>1 DEF FrameEnd
    <3>3. /\ Len(Unread') > 0 => Unread'[1] = [n |-> Unread[1].n + 1, at |-> 0]
          /\ Len(Unread') = 0 /\ Complete(Unread, sent) => Unread[1].n = Len(sent)
      <4>1. ASSUME NEW c \in Seq(Cell), Len(Unread) = Len(c) + size,
                   \A i \in 1..Len(c) : c[i] = Unread[i + size]
            PROVE  /\ Len(c) > 0 => c[1] = [n |-> Unread[1].n + 1, at |-> 0]
                   /\ Len(c) = 0 /\ Complete(Unread, sent) => Unread[1].n = Len(sent)
        BY <1>2, <2>2, <3>2, <4>1, NetworkFacts, FrameRead
      <4> QED
        BY <1>7, <4>1
    <3>4. peer # "reset" => Complete(Unread, sent)
      BY DEF IInv, Framed
    <3>5. (Len(accepted) + 1) + 1 = Len(accepted) + 2
      BY NetworkFacts
    <3> QED
      BY <3>1, <3>3, <3>4, <3>5
  <2> QED
    BY <1>1, <1>4, <1>6, <2>1, <2>2, <2>4, <2>5, ReceivedKeeps
<1> QED
  BY <1>8, <1>9

\* Its second recv() does: a body cut short ends the session, a whole one is handled.
LEMMA RecvBodyKeeps ==
  ASSUME IInv, RecvBody
  PROVE  IInv'
<1> DEFINE size == Least(cur.len, Len(stream))
<1>1. pc = "body" /\ Take(size) /\ Received(cur, 4 + size) /\ bufType' = bufType
  BY DEF RecvBody
<1>2. cur \in Messages /\ cur \in Message /\ cur.len \in Nat
  BY <1>1, MessagesAssumption DEF IInv, Control, Message
<1>3. size \in 0..Len(stream) /\ size \in Nat /\ size <= cur.len
  BY <1>2, NetworkFacts, LeastOK
<1> HIDE DEF size
<1>5. bufType' \in Nat
  BY <1>1 DEF IInv, TypeOK
<1>6. /\ Unread' \in Seq(Cell)
      /\ Len(Unread) = Len(Unread') + size
      /\ \A i \in 1..Len(Unread') : Unread'[i] = Unread[i + size]
  BY <1>1, <1>3, TakeKeeps
<1>7. ASSUME phase \in {"init", "in"}, 4 + size = 4 + cur.len
      PROVE  /\ Len(accepted) < Len(sent) /\ cur = sent[Len(accepted) + 1]
             /\ Len(Unread') > 0 => Unread'[1] = [n |-> Len(accepted) + 2, at |-> 0]
             /\ Len(Unread') = 0 /\ peer # "reset" => Len(accepted) + 1 = Len(sent)
  <2>1. /\ Len(accepted) < Len(sent)
        /\ cur = sent[Len(accepted) + 1] /\ cur.len > 0
        /\ Len(Unread) > 0 => Unread[1] = [n |-> Len(accepted) + 1, at |-> 4]
    BY <1>1, <1>7 DEF IInv, AlignedAtBody
  <2>2. size = cur.len /\ Len(Unread) > 0
    <3>1. size = cur.len
      BY <1>2, <1>3, <1>7
    <3>2. /\ Len(stream) \in Nat /\ Len(flight) \in Nat
          /\ Len(Unread) = Len(stream) + Len(flight)
      BY NetworkFacts
    <3> QED
      BY <1>3, <2>1, <3>1, <3>2
  <2>3. Unread[1].n = Len(accepted) + 1 /\ Unread[1].at = 4
    BY <2>1, <2>2, CellFields
  <2>4. FrameEnd(Unread, sent, 1) = size
    <3>1. FrameEnd(Unread, sent, 1) = 1 + 3 + cur.len - 4
      BY <2>1, <2>3 DEF FrameEnd
    <3> QED
      BY <1>2, <2>2, <3>1
  <2>5. /\ Len(Unread') > 0 => Unread'[1] = [n |-> Unread[1].n + 1, at |-> 0]
        /\ Len(Unread') = 0 /\ Complete(Unread, sent) => Unread[1].n = Len(sent)
    <3>1. ASSUME NEW c \in Seq(Cell), Len(Unread) = Len(c) + size,
                 \A i \in 1..Len(c) : c[i] = Unread[i + size]
          PROVE  /\ Len(c) > 0 => c[1] = [n |-> Unread[1].n + 1, at |-> 0]
                 /\ Len(c) = 0 /\ Complete(Unread, sent) => Unread[1].n = Len(sent)
      BY <1>3, <2>2, <2>4, <3>1, NetworkFacts, FrameRead
    <3> QED
      BY <1>6, <3>1
  <2>6. peer # "reset" => Complete(Unread, sent)
    BY DEF IInv, Framed
  <2>7. (Len(accepted) + 1) + 1 = Len(accepted) + 2
    BY NetworkFacts
  <2> QED
    BY <2>1, <2>3, <2>5, <2>6, <2>7
<1>8. 4 + size \in Nat
  BY <1>3
<1> QED
  BY <1>1, <1>2, <1>3, <1>5, <1>7, <1>8, ReceivedKeeps

\* The remaining steps of the router write no more than its own state.
LEMMA RouterOnly ==
  ASSUME IInv, UNCHANGED <<network, stream, buffer, accepted, quiet>>,
         nowAge' \in {0, nowAge},
         ControlOK', TimersOK', out' \in Seq(OutMessage),
         \/ phase' \in {"term", "ended"} /\ pc' # "body"
         \/ phase' = phase /\ phase # "idle" /\ pc' = pc
         \/ phase' = phase /\ phase \in Live /\ {pc, pc'} \subseteq {"select", "header"},
         pc' # "none" => phase' \in Live
  PROVE  IInv'
<1>1. Unread' = Unread /\ UNCHANGED <<sent, accepted, peer, stream, flight, cur, bufType>>
  BY DEF network, buffer, Unread
<1>2. 0 \in 0..AgeCap
  BY NumbersAssumption
<1>3. TypeOK'
  BY <1>1, <1>2 DEF IInv, TypeOK, ControlOK, TimersOK
<1>4. Control'
  BY <1>1 DEF IInv, Control, Live
<1> QED
  BY <1>1, <1>3, <1>4, NetworkUntouched

\* A failing recv(), select() or realloc() ends the session and keeps the invariant.
LEMMA FailsKeeps ==
  ASSUME IInv, RecvFails \/ SystemFails
  PROVE  IInv'
<1>1. /\ Return("fail")
      /\ UNCHANGED <<network, stream, buffer, history, nowAge, quiet>>
  BY DEF RecvFails, SystemFails
<1>2. TypeOK
  BY DEF IInv
<1>3. ControlOK' /\ TimersOK' /\ phase' = "ended" /\ pc' = "none"
  BY <1>1, <1>2, ReturnOK
<1> QED
  BY <1>1, <1>2, <1>3, RouterOnly DEF history, TypeOK

\* select() finding the socket readable reads nothing and keeps the invariant.
LEMMA SelectReadyKeeps ==
  ASSUME IInv, SelectReady
  PROVE  IInv'
<1>1. PICK result \in HeartbeatResults :
        /\ out' = AfterHeartbeat(result)
        /\ IF result = "sigpipe"
             THEN Return("killed")
             ELSE /\ pc' = "header"
                  /\ sentAge' = IF result = "not due" THEN sentAge ELSE 0
                  /\ UNCHANGED <<phase, ret, modem_heartbeat_interval, timeout, recvAge>>
  BY DEF SelectReady
<1>2. /\ phase = "in" /\ pc = "select" /\ nowAge' = 0
      /\ UNCHANGED <<network, stream, buffer, accepted, quiet>>
  BY DEF SelectReady
<1>3. TypeOK
  BY DEF IInv
<1>4. out' \in Seq(OutMessage)
  BY <1>1, <1>3, AfterHeartbeatOK
<1>5. CASE result = "sigpipe"
  <2>1. ControlOK' /\ TimersOK' /\ phase' = "ended" /\ pc' = "none"
    BY <1>1, <1>3, <1>5, ReturnOK
  <2> QED
    BY <1>2, <1>4, <2>1, RouterOnly
<1>6. CASE result # "sigpipe"
  <2>1. 0 \in 0..AgeCap
    BY NumbersAssumption
  <2>2. ControlOK' /\ TimersOK'
    BY <1>1, <1>3, <1>6, <2>1 DEF TypeOK, ControlOK, TimersOK
  <2>3. phase' = phase /\ phase \in Live /\ {pc, pc'} \subseteq {"select", "header"}
        /\ phase' \in Live
    BY <1>1, <1>2, <1>6 DEF Live
  <2> QED
    BY <1>2, <1>4, <2>2, <2>3, RouterOnly
<1> QED
  BY <1>5, <1>6

\* A heartbeat or a termination for silence reads nothing and keeps the invariant.
LEMMA SelectTimeoutKeeps ==
  ASSUME IInv, SelectTimeout
  PROVE  IInv'
<1>1. PICK result \in HeartbeatResults :
        IF ModemSilent
          THEN SendSessionTerm(SC_TIMEDOUT, modem_heartbeat_interval, AfterHeartbeat(result))
          ELSE /\ out' = AfterHeartbeat(result)
               /\ sentAge' = IF result = "not due" THEN sentAge ELSE 0
               /\ UNCHANGED <<control, modem_heartbeat_interval, timeout, recvAge>>
  BY DEF SelectTimeout
<1>2. /\ phase = "in" /\ pc = "select" /\ nowAge' = 0
      /\ UNCHANGED <<network, stream, buffer, accepted, quiet>>
  BY DEF SelectTimeout
<1>3. TypeOK /\ modem_heartbeat_interval \in Nat /\ SC_TIMEDOUT \in Nat
  BY DEF IInv, TypeOK, SC_TIMEDOUT
<1>4. AfterHeartbeat(result) \in Seq(OutMessage)
  BY <1>3, AfterHeartbeatOK
<1>5. CASE ModemSilent
  <2>1. SendSessionTerm(SC_TIMEDOUT, modem_heartbeat_interval, AfterHeartbeat(result))
    BY <1>1, <1>5
  <2>2. /\ ControlOK' /\ TimersOK' /\ out' \in Seq(OutMessage)
        /\ \/ phase' = "term" /\ pc' = "select"
           \/ phase' = "ended" /\ pc' = "none"
    BY <1>3, <1>4, <2>1, SendSessionTermOK
  <2>3. pc' # "none" => phase' \in Live
    BY <2>2 DEF Live
  <2> QED
    BY <1>2, <2>2, <2>3, RouterOnly
<1>6. CASE ~ModemSilent
  <2>1. 0 \in 0..AgeCap
    BY NumbersAssumption
  <2>2. ControlOK' /\ TimersOK' /\ out' \in Seq(OutMessage)
    BY <1>1, <1>3, <1>4, <1>6, <2>1 DEF TypeOK, ControlOK, TimersOK, control
  <2>3. phase' = phase /\ phase # "idle" /\ pc' = pc /\ phase' \in Live
    BY <1>1, <1>2, <1>6 DEF control, Live
  <2> QED
    BY <1>2, <2>2, <2>3, RouterOnly
<1> QED
  BY <1>5, <1>6

\* The waits of term_session() read nothing and keep the invariant.
LEMMA TermSelectKeeps ==
  ASSUME IInv, TermSelectReady \/ TermSelectTimeout
  PROVE  IInv'
<1>1. TypeOK /\ out \in Seq(OutMessage)
  BY DEF IInv, TypeOK
<1>2. CASE TermSelectReady
  <2>1. /\ phase = "term" /\ phase' = phase /\ pc = "select" /\ pc' = "header"
        /\ nowAge' = 0 /\ out' = out
        /\ UNCHANGED <<network, stream, buffer, accepted, timers, ret, quiet>>
    BY <1>2 DEF TermSelectReady, history
  <2>2. ControlOK' /\ TimersOK'
    BY <1>1, <2>1 DEF TypeOK, ControlOK, TimersOK, timers
  <2>3. phase \in Live /\ phase' \in Live /\ {pc, pc'} \subseteq {"select", "header"}
    BY <2>1 DEF Live
  <2> QED
    BY <1>1, <2>1, <2>2, <2>3, RouterOnly
<1>3. CASE TermSelectTimeout
  <2>1. /\ phase = "term" /\ pc = "select" /\ nowAge' = 0 /\ out' = out
        /\ UNCHANGED <<network, stream, buffer, accepted, quiet>>
        /\ Return("fail") \/ UNCHANGED <<control, timers>>
    BY <1>3 DEF TermSelectTimeout, history
  <2>2. /\ ControlOK' /\ TimersOK'
        /\ \/ phase' = "ended" /\ pc' = "none"
           \/ phase' = "term" /\ pc' = "select"
    <3>1. CASE Return("fail")
      BY <1>1, <3>1, ReturnOK
    <3>2. CASE UNCHANGED <<control, timers>>
      BY <1>1, <2>1, <3>2 DEF TypeOK, ControlOK, TimersOK, control, timers
    <3> QED
      BY <2>1, <3>1, <3>2
  <2>3. pc' # "none" => phase' \in Live
    BY <2>2 DEF Live
  <2> QED
    BY <1>1, <2>1, <2>2, <2>3, RouterOnly
<1> QED
  BY <1>2, <1>3

\* An age that grows stays within its cap.
LEMMA OlderOK ==
  ASSUME NEW age \in 0..AgeCap
  PROVE  Older(age) \in 0..AgeCap
BY NumbersAssumption DEF Older, Least

\* Time moves the timers alone.
LEMMA TickKeeps ==
  ASSUME IInv, Tick
  PROVE  IInv'
<1>1. /\ timeout' = IF pc = "select" /\ timeout > 0 THEN timeout - 1 ELSE timeout
      /\ recvAge' = Older(recvAge) /\ sentAge' = Older(sentAge)
      /\ nowAge' = Older(nowAge) /\ quiet' = Older(quiet)
      /\ UNCHANGED <<phase, pc, ret, peer, sent, flight, stream, cur, bufType, out,
                     accepted, modem_heartbeat_interval>>
  BY DEF Tick, control, network, buffer, history
<1>2. TypeOK
  BY DEF IInv
<1>3. timeout' \in Nat
  BY <1>1, <1>2 DEF TypeOK
<1>4. {recvAge', sentAge', nowAge', quiet'} \subseteq 0..AgeCap
  BY <1>1, <1>2, OlderOK DEF TypeOK
<1>5. TypeOK'
  BY <1>1, <1>2, <1>3, <1>4 DEF TypeOK
<1>6. Control'
  BY <1>1 DEF IInv, Control
<1>7. Unread' = Unread
  BY <1>1 DEF Unread
<1> QED
  BY <1>1, <1>5, <1>6, <1>7, NetworkUntouched

\* A new connection starts with no byte written, on its way or received.
LEMMA ConnectKeeps ==
  ASSUME IInv, Connect
  PROVE  IInv'
<1>1. /\ phase = "idle" /\ stream = <<>> /\ flight = <<>> /\ sent = <<>> /\ accepted = <<>>
      /\ pc \in {"none", "select", "header", "body"} /\ TypeOK
  BY DEF IInv, Control, TypeOK, Connect
<1>2. /\ UNCHANGED <<sent, flight, stream, cur, bufType, accepted, modem_heartbeat_interval,
                     timeout, recvAge, sentAge, nowAge, quiet>>
      /\ \/ /\ phase' = "init" /\ pc' = "header" /\ peer' = "open" /\ ret' = ret
            /\ out' = <<Output(SESSION_INIT, NoDest, 0)>>
         \/ /\ phase' = "ended" /\ pc' = pc /\ out' = out
            /\ \/ peer' = peer    /\ ret' = "fail"
               \/ peer' = "reset" /\ ret' \in {"fail", "killed"}
  BY DEF Connect, buffer, timers
<1>3. pc = "none"
  BY <1>1 DEF IInv, Control, Live
<1>4. Output(SESSION_INIT, NoDest, 0) \in OutMessage
  BY OutputOK DEF SESSION_INIT
<1>5. out' \in Seq(OutMessage)
  <2>1. \A o \in OutMessage : <<o>> \in Seq(OutMessage)
    OBVIOUS
  <2>2. <<Output(SESSION_INIT, NoDest, 0)>> \in Seq(OutMessage)
    BY <1>4, <2>1, Zenon
  <2>3. out \in Seq(OutMessage)
    BY <1>1 DEF TypeOK
  <2> QED
    BY <1>2, <2>2, <2>3
<1>6. TypeOK'
  BY <1>1, <1>2, <1>3, <1>5 DEF TypeOK, Live
<1>7. Control'
  BY <1>2, <1>3 DEF Control, Live
<1>8. Len(Unread') = 0
  BY <1>1, <1>2 DEF Unread
<1>9. Framed'
  BY <1>8 DEF Framed, CellsOf, Contiguous, Complete
<1>10. InOrder' /\ Len(accepted') = Len(sent')
  BY <1>1, <1>2 DEF InOrder
<1>11. AlignedAtHeader' /\ AlignedAtBody'
  BY <1>2, <1>3, <1>8, <1>10 DEF AlignedAtHeader, AlignedAtBody
<1> QED
  BY <1>6, <1>7, <1>9, <1>10, <1>11 DEF IInv

\* Delivery moves bytes from the network to the receive queue: the bytes not yet
\* read, taken together, are the same.
LEMMA DeliverKeeps ==
  ASSUME IInv, NEW k \in 1..Len(flight), Deliver(k)
  PROVE  IInv'
<1> DEFINE h == SubSeq(flight, 1, k)
           g == SubSeq(flight, k + 1, Len(flight))
<1>1. /\ stream' = stream \o h /\ flight' = g
      /\ UNCHANGED <<phase, pc, ret, peer, sent, cur, bufType, out, accepted,
                     modem_heartbeat_interval, timeout, recvAge, sentAge, nowAge, quiet>>
  BY DEF Deliver, control, buffer, history, timers
<1>2. stream \in Seq(Cell) /\ flight \in Seq(Cell)
  BY NetworkFacts
<1>3. /\ stream \o h \in Seq(Cell) /\ g \in Seq(Cell)
      /\ (stream \o h) \o g = stream \o flight
  BY <1>2, DeliverBytes
<1> HIDE DEF h, g
<1>6. Unread' = Unread
  BY <1>1, <1>3 DEF Unread
<1>7. stream' \in Seq(Cell) /\ flight' \in Seq(Cell)
  BY <1>1, <1>3
<1>8. TypeOK'
  BY <1>1, <1>7 DEF IInv, TypeOK
<1>9. phase # "idle"
  BY DEF Deliver, Live
<1>10. Control'
  BY <1>1, <1>9 DEF IInv, Control
<1> QED
  BY <1>1, <1>6, <1>8, <1>10, NetworkUntouched

\* A close by the modem leaves the bytes it wrote to be read.
LEMMA ModemCloseKeeps ==
  ASSUME IInv, ModemClose
  PROVE  IInv'
<1>1. /\ peer = "open" /\ peer' = "closed" /\ phase # "idle"
      /\ UNCHANGED <<phase, pc, ret, sent, flight, stream, cur, bufType, out, accepted,
                     modem_heartbeat_interval, timeout, recvAge, sentAge, nowAge, quiet>>
  BY DEF ModemClose, Live, control, buffer, history, timers
<1>2. TypeOK'
  BY <1>1 DEF IInv, TypeOK
<1>3. Control'
  BY <1>1 DEF IInv, Control
<1>4. Unread' = Unread
  BY <1>1 DEF Unread
<1> QED
  BY <1>1, <1>2, <1>3, <1>4, NetworkUntouched

\* A reset truncates the bytes to come.
LEMMA ModemResetKeeps ==
  ASSUME IInv, ModemReset
  PROVE  IInv'
<1>1. /\ peer' = "reset" /\ flight' = <<>> /\ peer # "reset" /\ phase # "idle"
      /\ UNCHANGED <<phase, pc, ret, sent, stream, cur, bufType, out, accepted,
                     modem_heartbeat_interval, timeout, recvAge, sentAge, nowAge, quiet>>
  BY DEF ModemReset, Live, control, buffer, history, timers
<1>2. TypeOK'
  BY <1>1 DEF IInv, TypeOK
<1>3. Control'
  BY <1>1 DEF IInv, Control
<1>4. /\ Unread = stream \o flight /\ stream \in Seq(Cell) /\ flight \in Seq(Cell)
      /\ Unread \in Seq(Cell) /\ Framing(Unread, sent) /\ sent \in Seq(Message)
  BY NetworkFacts DEF Unread
<1>5. Unread' = stream
  BY <1>1, <1>4 DEF Unread
<1>6. /\ Len(stream) \in Nat /\ Len(flight) \in Nat
      /\ Len(Unread) = Len(stream) + Len(flight)
      /\ \A i \in 1..Len(stream) : stream[i] = Unread[i]
  BY <1>4, Concatenation
<1>7. Len(stream) <= Len(Unread)
  BY <1>6
<1>8. Framing(stream, sent)
  BY <1>4, <1>6, <1>7, TruncateKeepsFraming
<1>9. Framed'
  BY <1>1, <1>5, <1>8 DEF Framed, Framing
<1>10. InOrder'
  BY <1>1 DEF IInv, InOrder
<1>11. Len(stream) > 0 => Len(Unread) > 0 /\ stream[1] = Unread[1]
  BY <1>6
<1>12. AlignedAtHeader'
  BY <1>1, <1>5, <1>11 DEF IInv, AlignedAtHeader
<1>13. AlignedAtBody'
  BY <1>1, <1>5, <1>11 DEF IInv, AlignedAtBody
<1> QED
  BY <1>2, <1>3, <1>9, <1>10, <1>12, <1>13 DEF IInv

\* A message written goes to the end of the bytes to come.
LEMMA ModemSendKeeps ==
  ASSUME IInv, NEW m \in Messages, ModemSend(m)
  PROVE  IInv'
<1> DEFINE t == Bytes(Len(sent) + 1, m)
<1>1. /\ phase # "idle" /\ peer = "open"
      /\ sent' = Append(sent, m) /\ flight' = flight \o t
      /\ UNCHANGED <<phase, pc, ret, peer, stream, cur, bufType, out, accepted,
                     modem_heartbeat_interval, timeout, recvAge, sentAge, nowAge, quiet>>
  BY DEF ModemSend, Live, control, buffer, history, timers
<1>2. /\ stream \in Seq(Cell) /\ flight \in Seq(Cell) /\ Unread \in Seq(Cell)
      /\ sent \in Seq(Messages) /\ sent \in Seq(Message)
      /\ Len(sent) \in Nat /\ Len(sent) + 1 \in Nat \ {0} /\ Len(accepted) \in Nat
      /\ Framing(Unread, sent)
  BY NetworkFacts
<1>3. m \in Message /\ m.len \in Nat
  BY MessagesAssumption DEF Message
<1>4. t \in Seq(Cell)
  BY <1>2, <1>3, BytesOfMessage
<1>5. /\ Unread \o t \in Seq(Cell)
      /\ Len(Unread \o t) = Len(Unread) + 4 + m.len
      /\ \A i \in 1..Len(Unread) : (Unread \o t)[i] = Unread[i]
      /\ \A i \in (Len(Unread) + 1)..Len(Unread \o t) :
           (Unread \o t)[i] = [n |-> Len(sent) + 1, at |-> i - Len(Unread) - 1]
  BY <1>2, <1>3, WriteBytes
<1> HIDE DEF t
<1>6. Unread' = Unread \o t /\ flight' \in Seq(Cell)
  <2>1. (stream \o flight) \o t = stream \o (flight \o t)
    BY <1>2, <1>4, Regroup, Zenon
  <2>2. flight \o t \in Seq(Cell)
    BY <1>2, <1>4, Concatenation
  <2> QED
    BY <1>1, <2>1, <2>2 DEF Unread
<1>7. /\ Unread' \in Seq(Cell)
      /\ Len(Unread') = Len(Unread) + 4 + m.len
      /\ \A i \in 1..Len(Unread) : Unread'[i] = Unread[i]
      /\ \A i \in (Len(Unread) + 1)..Len(Unread') :
           Unread'[i] = [n |-> Len(sent) + 1, at |-> i - Len(Unread) - 1]
  BY <1>5, <1>6, Zenon
<1>8. Complete(Unread, sent)
  BY <1>1 DEF IInv, Framed
<1>9. Framing(Unread', Append(sent, m)) /\ Complete(Unread', Append(sent, m))
  <2>1. ASSUME NEW c \in Seq(Cell), Len(c) = Len(Unread) + 4 + m.len,
               \A i \in 1..Len(Unread) : c[i] = Unread[i],
               \A i \in (Len(Unread) + 1)..Len(c) :
                 c[i] = [n |-> Len(sent) + 1, at |-> i - Len(Unread) - 1]
        PROVE  Framing(c, Append(sent, m)) /\ Complete(c, Append(sent, m))
    BY <1>2, <1>3, <1>8, <2>1, AppendKeepsFraming
  <2> QED
    BY <1>7, <2>1
<1>10. Framed'
  BY <1>1, <1>9 DEF Framed, Framing
<1>11. /\ sent' \in Seq(Messages) /\ Len(sent') = Len(sent) + 1
       /\ \A i \in 1..Len(sent) : sent'[i] = sent[i]
  BY <1>1, <1>2, AppendProperties
<1>12. TypeOK'
  BY <1>1, <1>6, <1>11 DEF IInv, TypeOK
<1>13. Control'
  BY <1>1 DEF IInv, Control
<1>14. InOrder'
  <2>1. /\ Len(accepted) <= Len(sent)
        /\ \A i \in 1..Len(accepted) : accepted[i] = sent[i]
    BY DEF IInv, InOrder
  <2>2. \A i \in 1..Len(accepted) : i \in 1..Len(sent)
    BY <1>2, <2>1
  <2>3. /\ Len(accepted) <= Len(sent')
        /\ \A i \in 1..Len(accepted) : accepted[i] = sent'[i]
    BY <1>2, <1>11, <2>1, <2>2
  <2> QED
    BY <1>1, <2>3 DEF InOrder
<1>15. Len(Unread) \in Nat /\ Len(Unread') > 0
  BY <1>2, <1>3, <1>7
<1>16. AlignedAtHeader'
  <2> SUFFICES ASSUME phase \in {"init", "in"}, pc \in {"select", "header"}
               PROVE  Unread'[1] = [n |-> Len(accepted) + 1, at |-> 0]
    BY <1>1, <1>15 DEF AlignedAtHeader
  <2>1. CASE Len(Unread) > 0
    <3>1. Unread[1] = [n |-> Len(accepted) + 1, at |-> 0]
      BY <2>1 DEF IInv, AlignedAtHeader
    <3>2. 1 \in 1..Len(Unread)
      BY <1>15, <2>1
    <3> QED
      BY <1>7, <3>1, <3>2
  <2>2. CASE Len(Unread) = 0
    <3>1. Len(accepted) = Len(sent)
      BY <1>1, <2>2 DEF IInv, AlignedAtHeader
    <3>2. 1 \in (Len(Unread) + 1)..Len(Unread') /\ (1 - Len(Unread)) - 1 = 0
      BY <1>15, <1>7, <1>3, <2>2
    <3>3. Unread'[1] = [n |-> Len(sent) + 1, at |-> (1 - Len(Unread)) - 1]
      BY <1>7, <3>2
    <3> QED
      BY <3>1, <3>2, <3>3
  <2> QED
    BY <1>15, <2>1, <2>2
<1>17. AlignedAtBody'
  <2> SUFFICES ASSUME phase \in {"init", "in"}, pc = "body"
               PROVE  /\ Len(accepted) < Len(sent')
                      /\ cur = sent'[Len(accepted) + 1] /\ cur.len > 0
                      /\ Unread'[1] = [n |-> Len(accepted) + 1, at |-> 4]
    BY <1>1, <1>15 DEF AlignedAtBody
  <2>1. /\ Len(accepted) < Len(sent)
        /\ cur = sent[Len(accepted) + 1] /\ cur.len > 0
        /\ Len(Unread) > 0 => Unread[1] = [n |-> Len(accepted) + 1, at |-> 4]
        /\ Len(Unread) = 0 => peer = "reset"
    BY DEF IInv, AlignedAtBody
  <2>2. 1 \in 1..Len(Unread) /\ Len(accepted) + 1 \in 1..Len(sent)
    BY <1>1, <1>2, <1>15, <2>1
  <2>3. Unread'[1] = [n |-> Len(accepted) + 1, at |-> 4]
    BY <1>7, <1>15, <2>1, <2>2
  <2> QED
    BY <1>2, <1>11, <2>1, <2>2, <2>3
<1> QED
  BY <1>10, <1>12, <1>13, <1>14, <1>16, <1>17 DEF IInv

-----------------------------------------------------------------------------
(* The theorems.                                                           *)

\* Before connect() there is nothing to read and nothing read.
LEMMA InitOK == Init => IInv
<1> SUFFICES ASSUME Init PROVE IInv
  OBVIOUS
<1>1. /\ phase = "idle" /\ pc = "none" /\ ret = "none" /\ peer = "none"
      /\ sent = <<>> /\ flight = <<>> /\ stream = <<>> /\ accepted = <<>> /\ out = <<>>
  BY DEF Init
<1>2. TypeOK
  BY NumbersAssumption DEF Init, TypeOK
<1>3. Unread = <<>>
  BY <1>1 DEF Unread
<1>4. Framed
  BY <1>1, <1>3 DEF Framed, CellsOf, Contiguous, Complete
<1>5. InOrder /\ Control /\ AlignedAtHeader /\ AlignedAtBody
  BY <1>1 DEF InOrder, Control, AlignedAtHeader, AlignedAtBody
<1> QED
  BY <1>2, <1>4, <1>5 DEF IInv

\* Every step of the router, the modem, the network and the clock keeps the
\* bytes framed and the router aligned with them.
LEMMA NextKeeps == IInv /\ [Next]_vars => IInv'
<1> SUFFICES ASSUME IInv, [Next]_vars PROVE IInv'
  OBVIOUS
<1>1. CASE RouterStep
  <2>1. CASE Connect
    BY <2>1, ConnectKeeps
  <2>2. CASE RecvHeader
    BY <2>2, RecvHeaderKeeps
  <2>3. CASE RecvBody
    BY <2>3, RecvBodyKeeps
  <2>4. CASE RecvFails \/ SystemFails
    BY <2>4, FailsKeeps
  <2>5. CASE SelectReady
    BY <2>5, SelectReadyKeeps
  <2>6. CASE SelectTimeout
    BY <2>6, SelectTimeoutKeeps
  <2>7. CASE TermSelectReady \/ TermSelectTimeout
    BY <2>7, TermSelectKeeps
  <2> QED
    BY <1>1, <2>1, <2>2, <2>3, <2>4, <2>5, <2>6, <2>7 DEF RouterStep, Receive, Select
<1>2. CASE ModemStep
  <2>1. CASE \E m \in Messages : ModemSend(m)
    BY <2>1, ModemSendKeeps
  <2>2. CASE \E k \in 1..Len(flight) : Deliver(k)
    BY <2>2, DeliverKeeps
  <2>3. CASE ModemClose
    BY <2>3, ModemCloseKeeps
  <2>4. CASE ModemReset
    BY <2>4, ModemResetKeeps
  <2> QED
    BY <1>2, <2>1, <2>2, <2>3, <2>4 DEF ModemStep
<1>3. CASE Tick
  BY <1>3, TickKeeps
<1>4. CASE UNCHANGED vars
  <2>1. UNCHANGED <<phase, pc, ret, peer, sent, flight, stream, cur, bufType, out,
                    accepted, modem_heartbeat_interval, timeout, recvAge, sentAge,
                    nowAge, quiet>>
    BY <1>4 DEF vars, control, network, buffer, history, timers
  <2>2. TypeOK' /\ Control' /\ Unread' = Unread
    BY <2>1 DEF IInv, TypeOK, Control, Unread
  <2> QED
    BY <2>1, <2>2, NetworkUntouched
<1> QED
  BY <1>1, <1>2, <1>3, <1>4 DEF Next

\* The bytes of session.c's connection stay framed, and recv_message() aligned
\* with them, in every reachable state.
THEOREM Invariance == Spec => []IInv
<1> QED
  BY InitOK, NextKeeps, PTL DEF Spec

\* Every variable of the session keeps its type.
THEOREM TypeCorrectness == Spec => []TypeOK
<1>1. IInv => TypeOK
  BY DEF IInv
<1> QED
  BY <1>1, Invariance, PTL

\* The messages handle_message() acts on as valid are those the modem wrote, in
\* order: for any messages of any lengths, however TCP cuts them up, whatever
\* the timing, and wherever the connection is lost.
THEOREM MessagesInOrder == Spec => []InOrder
<1>1. IInv => InOrder
  BY DEF IInv
<1> QED
  BY <1>1, Invariance, PTL

-----------------------------------------------------------------------------
(* The end of a session whose modem is gone.                               *)

\* Nothing the router does brings back a modem that is gone: it only takes bytes.
LEMMA StaysGone ==
  ASSUME Gone, UNCHANGED network, stream = <<>> => stream' = <<>>
  PROVE  Gone'
BY DEF Gone, Eof, network

\* A reset discards the bytes on their way, and nothing sends more.
LEMMA NothingOnItsWay == Spec => []Discarded
<1>1. Init => Discarded
  BY DEF Init, Discarded, Live
<1>2. IInv /\ Discarded /\ [Next]_vars => Discarded'
  <2> SUFFICES ASSUME IInv, Discarded, [Next]_vars PROVE Discarded'
    OBVIOUS
  <2>1. ASSUME UNCHANGED network, phase \in Live \/ phase' \notin Live
        PROVE  Discarded'
    BY <2>1 DEF Discarded, network
  <2>2. CASE Connect
    BY <2>2 DEF Connect, Discarded, Live
  <2>3. CASE Receive \/ Select \/ SystemFails
    <3>1. phase \in Live
      <4>1. pc # "none"
        BY <2>3, Zenon
        DEF Receive, RecvHeader, RecvBody, RecvFails, SystemFails, Select,
            SelectReady, SelectTimeout, TermSelectReady, TermSelectTimeout
      <4> QED
        BY <4>1 DEF IInv, Control
    <3>2. UNCHANGED network
      BY <2>3, Zenon
      DEF Receive, RecvHeader, RecvBody, RecvFails, SystemFails, Select, Take,
          SelectReady, SelectTimeout, TermSelectReady, TermSelectTimeout
    <3> QED
      BY <2>1, <3>1, <3>2
  <2>4. CASE ModemStep
    <3>1. CASE \E m \in Messages : ModemSend(m)
      BY <3>1 DEF ModemSend, Discarded
    <3>2. CASE \E k \in 1..Len(flight) : Deliver(k)
      <4>1. phase \in Live /\ Len(flight) # 0
        BY <3>2, NetworkFacts DEF Deliver
      <4>2. peer # "reset" /\ peer' = peer
        BY <3>2, <4>1, EmptySeq DEF Deliver, Discarded
      <4> QED
        BY <4>2 DEF Discarded
    <3>3. CASE ModemClose \/ ModemReset
      BY <3>3 DEF ModemClose, ModemReset, Discarded
    <3> QED
      BY <2>4, <3>1, <3>2, <3>3 DEF ModemStep
  <2>5. CASE Tick \/ UNCHANGED vars
    BY <2>1, <2>5 DEF Tick, vars, control, Discarded, Live
  <2> QED
    BY <2>2, <2>3, <2>4, <2>5 DEF Next, RouterStep
<1> QED
  BY <1>1, <1>2, Invariance, PTL DEF Spec

\* What CallsLeft says, case by case.
LEMMA CallsLeftIs ==
  ASSUME Len(stream) \in Nat
  PROVE  /\ phase \notin Live => CallsLeft = 0
         /\ phase \in Live /\ pc = "body" => CallsLeft = 3 + 3 * Len(stream)
         /\ phase \in Live /\ pc = "select" => CallsLeft = 2 + 3 * Len(stream)
         /\ phase \in Live /\ pc = "header" => CallsLeft = 1 + 3 * Len(stream)
BY DEF CallsLeft

\* A session that returns has no call left, and one that goes on had some.
LEMMA ReturnIsLess ==
  ASSUME phase \in Live, phase' = "ended", Len(stream) \in Nat
  PROVE  CallsLeft' < CallsLeft
<1>1. CallsLeft' = 0
  BY DEF CallsLeft, Live
<1>2. CallsLeft > 0
  BY DEF CallsLeft
<1> QED
  BY <1>1, <1>2

\* So has one that goes back to wait after the message it read.
LEMMA HandledIsLess ==
  ASSUME phase \in Live, pc \in {"header", "body"}, NEW k \in Nat,
         pc = "header" => k > 0,
         Len(stream) \in Nat, Len(stream') \in Nat, Len(stream) = Len(stream') + k,
         \/ phase' \in {"in", "term"} /\ pc' = "select"
         \/ phase' = "ended"
  PROVE  CallsLeft' < CallsLeft
<1>1. CASE phase' = "ended"
  BY <1>1, ReturnIsLess
<1>2. CASE phase' \in {"in", "term"} /\ pc' = "select"
  <2>1. CallsLeft' = 2 + 3 * Len(stream')
    BY <1>2 DEF CallsLeft, Live
  <2>2. CallsLeft = (IF pc = "body" THEN 3 ELSE 1) + 3 * Len(stream)
    BY CallsLeftIs
  <2> QED
    BY <2>1, <2>2
<1> QED
  BY <1>1, <1>2

\* What is left of the stream after a recv(), with the modem gone.
LEMMA TakenFromTheRest ==
  ASSUME IInv, Gone, NEW k \in 0..Len(stream), Take(k)
  PROVE  /\ Gone' /\ Len(stream) \in Nat /\ Len(stream') \in Nat
         /\ Len(stream) = Len(stream') + k
<1>1. stream \in Seq(Cell) /\ Len(stream) \in Nat /\ k \in Nat /\ k <= Len(stream)
  BY NetworkFacts
<1>2. stream' \in Seq(Cell) /\ Len(stream') = Len(stream) - k
  BY <1>1, Part DEF Take
<1>3. stream = <<>> => stream' = <<>>
  BY <1>1, <1>2, EmptySeq
<1>4. Gone'
  BY <1>3, StaysGone DEF Take
<1> QED
  BY <1>1, <1>2, <1>4

\* A message whose first bytes are there is read, or its body is next.
LEMMA RecvHeaderIsLess ==
  ASSUME IInv, phase \in Live, Gone, RecvHeader
  PROVE  Gone' /\ CallsLeft' < CallsLeft
<1> DEFINE size == Least(4, Len(stream))
<1>1. pc = "header" /\ stream # <<>> /\ Take(size)
  BY DEF RecvHeader
<1>2. Len(stream) > 0 /\ Decode(stream[1]) \subseteq Messages
  BY <1>1, NextMessage
<1>3. size \in 1..4 /\ size \in 0..Len(stream)
  <2>1. Len(stream) \in Nat /\ Len(stream) > 0 /\ 4 \in Nat /\ 4 > 0
    BY <1>2, NetworkFacts
  <2>2. size \in 0..Len(stream) /\ size \in Nat /\ size <= 4 /\ size > 0
    BY <2>1, LeastOK, Zenon
  <2> QED
    BY <2>2
<1>4. PICK m \in Decode(stream[1]) :
        LET type == HeaderType(m, size) IN
        /\ bufType' = type
        /\ IF size = 4 /\ m.len > 0
             THEN /\ pc' = "body" /\ cur' = m
                  /\ UNCHANGED <<phase, ret, history, timers, quiet>>
             ELSE Received([m EXCEPT !.type = type], size)
  BY DEF RecvHeader
<1> HIDE DEF size
<1>5. /\ Gone' /\ Len(stream) \in Nat /\ Len(stream') \in Nat
      /\ Len(stream) = Len(stream') + size
  BY <1>1, <1>3, TakenFromTheRest
<1>6. m \in Messages /\ m \in Message /\ HeaderType(m, size) \in Nat
  <2>1. m \in Messages /\ m \in Message
    BY <1>2, MessagesAssumption
  <2>2. bufType \in Nat /\ size \in Nat
    BY <1>3 DEF IInv, TypeOK
  <2> QED
    BY <2>1, <2>2, HeaderTypeOK
<1>7. CASE size = 4 /\ m.len > 0
  <2>1. pc' = "body" /\ phase' = phase
    BY <1>4, <1>7
  <2>2. CallsLeft = 1 + 3 * Len(stream)
    BY <1>1, <1>5, CallsLeftIs
  <2>3. CallsLeft' = 3 + 3 * Len(stream')
    BY <1>5, <2>1 DEF CallsLeft
  <2> QED
    BY <1>3, <1>5, <2>2, <2>3
<1>8. CASE ~(size = 4 /\ m.len > 0)
  <2> DEFINE mm == [m EXCEPT !.type = HeaderType(m, size)]
  <2>1. Received(mm, size)
    BY <1>4, <1>8
  <2>2. mm \in Message /\ mm.len = m.len /\ m.len \in Nat /\ size \in Nat
    BY <1>3, <1>6 DEF Message
  <2>3. size = 4 + mm.len => mm \in Messages
    <3>1. ASSUME size = 4 + mm.len
          PROVE  size = 4
      BY <1>3, <2>2, <3>1
    <3>2. size = 4 => HeaderType(m, size) = m.type
      BY DEF HeaderType
    <3>3. HeaderType(m, size) = m.type => mm = m
      BY <1>6 DEF Message
    <3> QED
      BY <1>6, <3>1, <3>2, <3>3
  <2> HIDE DEF mm
  <2>4. \/ phase' \in {"in", "term"} /\ pc' = "select"
        \/ phase' = "ended" /\ pc' = "none"
    BY <2>1, <2>2, <2>3, ReceivedOK DEF IInv
  <2>5. size > 0
    BY <1>3
  <2> QED
    BY <1>1, <1>5, <2>2, <2>4, <2>5, HandledIsLess
<1> QED
  BY <1>7, <1>8

\* The body of a message, or the lack of it, is handled.
LEMMA RecvBodyIsLess ==
  ASSUME IInv, phase \in Live, Gone, RecvBody
  PROVE  Gone' /\ CallsLeft' < CallsLeft
<1> DEFINE size == Least(cur.len, Len(stream))
<1>1. pc = "body" /\ Take(size) /\ Received(cur, 4 + size)
  BY DEF RecvBody
<1>2. cur \in Messages /\ cur \in Message /\ cur.len \in Nat
  BY <1>1, MessagesAssumption DEF IInv, Control, Message
<1>3. size \in 0..Len(stream) /\ size \in Nat
  BY <1>2, NetworkFacts, LeastOK
<1> HIDE DEF size
<1>4. /\ Gone' /\ Len(stream) \in Nat /\ Len(stream') \in Nat
      /\ Len(stream) = Len(stream') + size
  BY <1>1, <1>3, TakenFromTheRest
<1>5. 4 + size \in Nat
  BY <1>3
<1>6. \/ phase' \in {"in", "term"} /\ pc' = "select"
      \/ phase' = "ended" /\ pc' = "none"
  BY <1>1, <1>2, <1>5, ReceivedOK DEF IInv
<1> QED
  BY <1>1, <1>3, <1>4, <1>6, HandledIsLess

\* Of its other calls, one that fails ends the session, and select() finds the socket
\* readable: it cannot time out.
LEMMA CallIsLess ==
  ASSUME IInv, phase \in Live, Gone, RecvFails \/ Select \/ SystemFails
  PROVE  Gone' /\ CallsLeft' < CallsLeft
<1>1. Len(stream) \in Nat /\ Readable
  BY NetworkFacts DEF Gone, Readable
<1>2. UNCHANGED <<network, stream>>
  BY Zenon DEF RecvFails, SystemFails, Select, SelectReady, SelectTimeout, TermSelectReady,
               TermSelectTimeout
<1>3. Gone'
  BY <1>2, StaysGone
<1>4. \/ phase' = "ended"
      \/ pc = "select" /\ pc' = "header" /\ phase' = phase
  <2>1. CASE RecvFails \/ SystemFails
    BY <2>1 DEF RecvFails, SystemFails, Return
  <2>2. CASE SelectReady
    BY <2>2 DEF SelectReady, Return
  <2>3. CASE TermSelectReady
    BY <2>3 DEF TermSelectReady
  <2> QED
    BY <1>1, <2>1, <2>2, <2>3 DEF Select, SelectTimeout, TermSelectTimeout
<1>5. CASE phase' = "ended"
  BY <1>1, <1>3, <1>5, ReturnIsLess
<1>6. CASE pc = "select" /\ pc' = "header" /\ phase' = phase
  <2>1. CallsLeft = 2 + 3 * Len(stream)
    BY <1>1, <1>6, CallsLeftIs
  <2>2. CallsLeft' = 1 + 3 * Len(stream)
    BY <1>2, <1>6 DEF CallsLeft
  <2> QED
    BY <1>1, <1>3, <2>1, <2>2
<1> QED
  BY <1>4, <1>5, <1>6

\* A modem that closed its end or reset the connection stays gone, and session.c's
\* loops have a bound from there: every call the router makes leaves it fewer to make,
\* whatever has arrived, until session() returns.
THEOREM ModemStaysGone == Spec => GoneForGood
<1>1. ASSUME IInv, Discarded, [Next]_vars, phase \in Live, Gone
      PROVE  /\ Gone'
             /\ CallsLeft' < CallsLeft \/ UNCHANGED <<control, stream, buffer, history>>
  <2>1. CASE Connect
    BY <1>1, <2>1 DEF Connect, Live
  <2>2. CASE RecvHeader
    BY <1>1, <2>2, RecvHeaderIsLess
  <2>3. CASE RecvBody
    BY <1>1, <2>3, RecvBodyIsLess
  <2>4. CASE RecvFails \/ Select \/ SystemFails
    BY <1>1, <2>4, CallIsLess
  <2>5. CASE ModemStep
    <3>1. flight = <<>> /\ peer \in {"closed", "reset"}
      BY <1>1 DEF Gone, Eof, Discarded
    <3>2. CASE \E m \in Messages : ModemSend(m)
      BY <3>1, <3>2 DEF ModemSend
    <3>3. CASE \E k \in 1..Len(flight) : Deliver(k)
      BY <3>1, <3>3
    <3>4. CASE ModemClose
      BY <3>1, <3>4 DEF ModemClose
    <3>5. CASE ModemReset
      BY <3>5 DEF ModemReset, Gone
    <3> QED
      BY <2>5, <3>2, <3>3, <3>4, <3>5 DEF ModemStep
  <2>6. CASE Tick
    BY <1>1, <2>6, StaysGone DEF Tick
  <2>7. CASE UNCHANGED vars
    BY <1>1, <2>7, StaysGone DEF vars
  <2> QED
    BY <1>1, <2>1, <2>2, <2>3, <2>4, <2>5, <2>6, <2>7 DEF Next, RouterStep, Receive
<1> QED
  BY <1>1, Invariance, NothingOnItsWay, PTL DEF Spec, GoneForGood
=============================================================================
