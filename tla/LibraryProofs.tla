--------------------------- MODULE LibraryProofs ----------------------------
(***************************************************************************)
(* Three of the parts that Library puts side by side and the locks of      *)
(* Redox, each proved for its own specification: BufWriter and LineWriter, *)
(* at_exit with the lazy statics, thread-local values, and the futex mutex *)
(* with its Condvar (Spec and IInv are those of FutexLocks).  The steps of *)
(* a part change no variable of another.                                   *)
(***************************************************************************)
EXTENDS BufferedWriters, ExitHandlers, ThreadLocals, FutexLocks, SequenceTheorems, TLAPS

-----------------------------------------------------------------------------
(* BufWriter and LineWriter                                                *)

Stages == {"none", "first", "whole", "line", "after", "rest", "flush", "into", "drop"}
Calls == [stage : Stages, data : Seq(Nat), part : Seq(Nat), written : Nat, n : Nat]

WriterTypeOK ==
  /\ lineWriter \in BOOLEAN /\ newlines \subseteq Nat /\ (~lineWriter => newlines = {})
  /\ wbuf \in Seq(Nat) /\ sink \in Seq(Nat) /\ accepted \in Nat
  /\ needFlush \in BOOLEAN /\ panicked \in BOOLEAN /\ recovered \in BOOLEAN
  /\ wpc \in {"idle", "drain", "put", "sync", "unwound", "taken", "dropped"}
  /\ call \in Calls

\* The buffer holds the bytes behind Lo up to Hi: flush_buf has sent the first
\* `written' of it, and Hi is what the caller will be told.
Lo == Len(sink) - (IF wpc = "drain" THEN call.written ELSE 0)
Hi == accepted + call.n
BytesInv ==
  /\ sink = Bytes(1, Len(sink))
  /\ wpc \in {"idle", "drain", "put", "sync"} =>
       /\ 0 <= Lo /\ Len(sink) <= Hi /\ wbuf = Bytes(Lo + 1, Hi) /\ ~panicked
  /\ wpc = "sync" => wbuf = <<>>
  /\ wpc = "taken" => Len(sink) = accepted
  /\ wpc = "unwound" => panicked

\* What BufWriter was given is what the call has not dealt with yet, and of a line
\* the newline is the last byte.
Given(c) ==
  /\ c.stage \notin {"after", "rest"} => c.n = 0
  /\ c.stage \in {"first", "whole", "line", "after", "rest"} =>
       c.data = Bytes(accepted + 1, accepted + Len(c.data))
  /\ c.stage \in {"whole", "rest"} =>
       /\ c.n <= Len(c.data) /\ c.part = Bytes(accepted + c.n + 1, accepted + Len(c.data))
       /\ \A b \in newlines : ~(accepted + c.n < b /\ b <= accepted + Len(c.data))
  /\ c.stage \in {"line", "after"} =>
       /\ c.n <= Len(c.part) /\ Len(c.part) <= Len(c.data) /\ Len(c.part) > 0
       /\ c.part = Bytes(accepted + 1, accepted + Len(c.part))
       /\ accepted + Len(c.part) \in newlines
       /\ \A b \in newlines :
            ~(accepted + Len(c.part) < b /\ b <= accepted + Len(c.data))
CallInv ==
  /\ wpc = "idle" => call = NoCall
  /\ wpc = "drain" => call.stage # "none"
  /\ wpc = "put" => /\ call.stage \in {"whole", "line", "rest"}
                    /\ wbuf = <<>> \/ Len(wbuf) + Len(call.part) <= BufCap
  /\ wpc = "sync" => call.stage \in {"first", "after", "flush"}
  /\ wpc \in {"drain", "put", "sync"} => Given(call)

\* A newline is in the buffer only when one is at its end and need_flush is set.
LineInv ==
  wpc \in {"idle", "drain", "put", "sync"} =>
    /\ recovered \/ \A b \in newlines : Lo < b /\ b <= Hi => needFlush /\ Hi \in newlines
    /\ call.stage \in {"whole", "line", "rest"} => ~needFlush

WriterInv == WriterTypeOK /\ BytesInv /\ CallInv /\ LineInv

-----------------------------------------------------------------------------
\* The bytes behind a up to b: the length and the elements of the sequence.
LEMMA BytesShape ==
  ASSUME NEW a \in Nat, NEW b \in Nat, a <= b
  PROVE  /\ Bytes(a + 1, b) \in Seq(Nat) /\ Len(Bytes(a + 1, b)) = b - a
         /\ DOMAIN Bytes(a + 1, b) = 1..(b - a)
         /\ \A i \in 1..(b - a) : Bytes(a + 1, b)[i] = a + i
<1>1. b - (a + 1) + 1 = b - a /\ b - a \in Nat
  OBVIOUS
<1>2. \A i \in 1..(b - a) : a + 1 + i - 1 = a + i /\ a + i \in Nat
  OBVIOUS
<1>3. Bytes(a + 1, b) = [i \in 1..(b - a) |-> a + i]
  BY <1>1, <1>2 DEF Bytes
<1>4. QED
  BY <1>1, <1>2, <1>3

\* A run that ends where it begins is empty.
LEMMA BytesEmpty ==
  ASSUME NEW a \in Nat, NEW b \in Nat, a <= b
  PROVE  Bytes(a + 1, b) = <<>> <=> a = b
<1>1. Bytes(a + 1, b) \in Seq(Nat) /\ Len(Bytes(a + 1, b)) = b - a
  BY BytesShape
<1>2. QED
  BY <1>1, EmptySeq

\* Two runs that follow each other make one.
LEMMA BytesConcat ==
  ASSUME NEW a \in Nat, NEW b \in Nat, NEW c \in Nat, a <= b, b <= c
  PROVE  Bytes(a + 1, b) \o Bytes(b + 1, c) = Bytes(a + 1, c)
<1> DEFINE s == Bytes(a + 1, b)
           t == Bytes(b + 1, c)
           u == Bytes(a + 1, c)
<1>1. s \in Seq(Nat) /\ Len(s) = b - a /\ \A i \in 1..(b - a) : s[i] = a + i
  BY BytesShape
<1>2. t \in Seq(Nat) /\ Len(t) = c - b /\ \A i \in 1..(c - b) : t[i] = b + i
  BY BytesShape
<1>3. a <= c
  OBVIOUS
<1>4. u \in Seq(Nat) /\ Len(u) = c - a /\ \A i \in 1..(c - a) : u[i] = a + i
  BY <1>3, BytesShape
<1> HIDE DEF s, t, u
<1>5. /\ s \o t \in Seq(Nat) /\ Len(s \o t) = Len(s) + Len(t)
      /\ \A i \in 1..(Len(s) + Len(t)) :
           (s \o t)[i] = IF i <= Len(s) THEN s[i] ELSE t[i - Len(s)]
  BY <1>1, <1>2, ConcatProperties, Zenon
<1>6. Len(s \o t) = Len(u)
  BY <1>1, <1>2, <1>4, <1>5
<1>7. ASSUME NEW i \in 1..Len(s \o t) PROVE (s \o t)[i] = u[i]
  <2>1. i \in 1..(c - a) /\ i \in 1..(Len(s) + Len(t)) /\ u[i] = a + i
    BY <1>1, <1>2, <1>4, <1>5
  <2>2. CASE i <= b - a
    BY <2>1, <2>2, <1>1, <1>5
  <2>3. CASE ~(i <= b - a)
    <3>1. i - (b - a) \in 1..(c - b) /\ b + (i - (b - a)) = a + i
      BY <2>1, <2>3
    <3>2. (s \o t)[i] = t[i - (b - a)]
      BY <2>1, <2>3, <1>1, <1>5
    <3>3. QED
      BY <2>1, <3>1, <3>2, <1>2
  <2>4. QED
    BY <2>2, <2>3
<1>8. s \o t = u
  BY <1>4, <1>5, <1>6, <1>7, SeqEqual, Zenon
<1>9. QED
  BY <1>8 DEF s, t, u

\* A part of a run of bytes is a run of bytes.
LEMMA BytesPart ==
  ASSUME NEW a \in Nat, NEW p \in Nat, NEW q \in Nat, NEW b \in Nat, a <= p, p <= q, q <= b
  PROVE  SubSeq(Bytes(a + 1, b), p - a + 1, q - a) = Bytes(p + 1, q)
<1>a. PICK m \in Nat, j \in Nat : m = p - a + 1 /\ j = q - a
  OBVIOUS
<1>b. a <= b /\ 1 <= m /\ m <= j + 1 /\ j <= b - a /\ p + 1 = a + m /\ q = a + j
  BY <1>a
<1>1. q - p = j - m + 1
  BY <1>b
<1> DEFINE s == Bytes(a + 1, b)
           t == Bytes(p + 1, q)
<1>2. s \in Seq(Nat) /\ Len(s) = b - a /\ \A k \in 1..(b - a) : s[k] = a + k
  BY <1>b, BytesShape
<1>3. t \in Seq(Nat) /\ Len(t) = q - p /\ \A k \in 1..(q - p) : t[k] = p + k
  BY <1>1, BytesShape
<1> HIDE DEF s, t
<1>4. \A k \in m..j : s[k] \in Nat /\ s[k] = a + k
  BY <1>b, <1>2
<1>5. m \in Int /\ j \in Int /\ \A k \in m..j : s[k] \in Nat
  BY <1>4
<1>6. /\ SubSeq(s, m, j) \in Seq(Nat)
      /\ Len(SubSeq(s, m, j)) = IF m <= j THEN j - m + 1 ELSE 0
      /\ \A k \in 1..(j - m + 1) : SubSeq(s, m, j)[k] = s[m + k - 1]
  BY <1>5, SubSeqProperties
<1>7. Len(SubSeq(s, m, j)) = Len(t) /\ Len(t) = j - m + 1
  BY <1>1, <1>3, <1>6, <1>b
<1>8. ASSUME NEW k \in 1..Len(SubSeq(s, m, j)) PROVE SubSeq(s, m, j)[k] = t[k]
  <2>1. k \in 1..(q - p) /\ k \in 1..(j - m + 1) /\ m + k - 1 \in m..j
    BY <1>1, <1>7, <1>b
  <2>2. SubSeq(s, m, j)[k] = a + (m + k - 1)
    BY <2>1, <1>4, <1>6
  <2>3. t[k] = p + k /\ p + k = a + (m + k - 1)
    BY <2>1, <1>3, <1>b
  <2>4. QED
    BY <2>2, <2>3
<1>9. SubSeq(s, m, j) = t
  BY <1>3, <1>6, <1>7, <1>8, SeqEqual, Zenon
<1>10. QED
  BY <1>9, <1>a DEF s, t

\* The first j bytes of a run.
LEMMA BytesPrefix ==
  ASSUME NEW a \in Nat, NEW b \in Nat, NEW j \in Nat, a <= b, j <= b - a
  PROVE  SubSeq(Bytes(a + 1, b), 1, j) = Bytes(a + 1, a + j)
<1>1. PICK q \in Nat : q = a + j
  OBVIOUS
<1>2. a <= a /\ a <= q /\ q <= b
  BY <1>1
<1>3. SubSeq(Bytes(a + 1, b), a - a + 1, q - a) = Bytes(a + 1, q)
  <2>1. \A x \in Nat : x <= q /\ q <= b /\ a <= x =>
          SubSeq(Bytes(a + 1, b), x - a + 1, q - a) = Bytes(x + 1, q)
    BY BytesPart
  <2>2. QED
    BY <1>2, <2>1, Zenon
<1>4. a - a + 1 = 1 /\ q - a = j
  BY <1>1
<1>5. QED
  BY <1>1, <1>3, <1>4

\* What is left of a run behind the byte p.
LEMMA BytesSuffix ==
  ASSUME NEW a \in Nat, NEW p \in Nat, NEW b \in Nat, a <= p, p <= b
  PROVE  SubSeq(Bytes(a + 1, b), p - a + 1, b - a) = Bytes(p + 1, b)
<1>1. b <= b
  OBVIOUS
<1>2. QED
  BY <1>1, BytesPart, ZenonT(60)

\* What the inner writer has, from the first byte on.
LEMMA BytesFirst ==
  ASSUME NEW b \in Nat
  PROVE  /\ Bytes(1, b) \in Seq(Nat) /\ Len(Bytes(1, b)) = b
         /\ \A c \in Nat : b <= c => Bytes(1, b) \o Bytes(b + 1, c) = Bytes(1, c)
<1>1. 0 + 1 = 1 /\ 0 \in Nat /\ 0 <= b /\ b - 0 = b
  OBVIOUS
<1>2. Bytes(1, b) \in Seq(Nat) /\ Len(Bytes(1, b)) = b
  BY <1>1, BytesShape
<1>3. ASSUME NEW c \in Nat, b <= c
      PROVE  Bytes(1, b) \o Bytes(b + 1, c) = Bytes(1, c)
  <2>1. PICK z \in Nat : z = 0
    OBVIOUS
  <2>2. z <= b
    BY <2>1
  <2>3. Bytes(z + 1, b) \o Bytes(b + 1, c) = Bytes(z + 1, c)
    BY <1>3, <2>2, BytesConcat
  <2>4. z + 1 = 1
    BY <2>1
  <2>5. QED
    BY <2>3, <2>4
<1>4. QED
  BY <1>2, <1>3

\* What the conjuncts say in one place: lengths and types of the state.
LEMMA WriterFacts ==
  ASSUME WriterInv
  PROVE  /\ newlines \subseteq Nat /\ (~lineWriter => newlines = {})
         /\ Len(sink) \in Nat /\ accepted \in Nat /\ call \in Calls /\ Hi \in Nat
         /\ sink = Bytes(1, Len(sink)) /\ needFlush \in BOOLEAN /\ recovered \in BOOLEAN
         /\ panicked \in BOOLEAN
         /\ wpc \in {"idle", "drain", "put", "sync"} =>
              /\ Lo \in Nat /\ Lo <= Len(sink) /\ Len(sink) <= Hi /\ wbuf = Bytes(Lo + 1, Hi)
              /\ ~panicked /\ (wpc # "drain" => Lo = Len(sink))
<1>1. WriterTypeOK /\ BytesInv
  BY DEF WriterInv
<1>2. Len(sink) \in Nat /\ accepted \in Nat /\ call \in Calls
  BY <1>1 DEF WriterTypeOK
<1>3. call.n \in Nat /\ call.written \in Nat
  BY <1>2 DEF Calls
<1>4. Hi \in Nat /\ Lo \in Int /\ Lo <= Len(sink) /\ (wpc # "drain" => Lo = Len(sink))
  BY <1>2, <1>3 DEF Hi, Lo
<1>5. QED
  BY <1>1, <1>2, <1>4 DEF WriterTypeOK, BytesInv

\* Behind `from' up to `to' a newline is there only with a flush due and one at the end.
NoLine(from, to, due) ==
  \A b \in newlines : from < b /\ b <= to => due /\ to \in newlines

\* A call returns: the caller is told of everything up to the end of the buffer.
LEMMA Returns ==
  ASSUME WriterInv, UNCHANGED setup, NEW n \in Nat, Return(n), NEW s \in Nat,
         s <= accepted + n, sink' = Bytes(1, s), wbuf' = Bytes(s + 1, accepted + n),
         ~panicked, panicked' = panicked, needFlush' \in BOOLEAN, recovered' \in BOOLEAN,
         recovered' \/ NoLine(s, accepted + n, needFlush')
  PROVE  WriterInv'
<1>1. /\ wpc' = "idle" /\ call' = NoCall /\ accepted' = accepted + n
      /\ newlines' = newlines /\ lineWriter' = lineWriter
  BY DEF Return, setup
<1>2. accepted \in Nat
  BY WriterFacts
<1>3. /\ NoCall \in Calls /\ NoCall.n = 0 /\ NoCall.stage = "none"
  BY DEF NoCall, Calls, Stages
<1>4. sink' \in Seq(Nat) /\ Len(sink') = s
  BY BytesFirst
<1>5. accepted + n \in Nat /\ wbuf' \in Seq(Nat)
  <2>1. accepted + n \in Nat
    BY <1>2
  <2>2. QED
    BY <2>1, BytesShape
<1>6. WriterTypeOK'
  BY <1>1, <1>3, <1>4, <1>5 DEF WriterInv, WriterTypeOK
<1>7. Hi' = accepted + n /\ Lo' = s
  BY <1>1, <1>3, <1>4, <1>5 DEF Hi, Lo
<1>8. BytesInv'
  BY <1>1, <1>4, <1>7 DEF BytesInv
<1>9. CallInv'
  BY <1>1 DEF CallInv
<1>10. LineInv'
  BY <1>1, <1>3, <1>7 DEF LineInv, NoLine
<1>11. QED
  BY <1>6, <1>8, <1>9, <1>10 DEF WriterInv

\* A call begins to send the buffer on.
LEMMA Flushes ==
  ASSUME WriterInv, UNCHANGED setup, NEW c \in Calls, Flushing(c), c.stage # "none",
         Given(c), NEW s \in Nat, s <= accepted + c.n, sink' = Bytes(1, s),
         wbuf' = Bytes(s + 1, accepted + c.n),
         ~panicked, panicked' = panicked, needFlush' \in BOOLEAN, recovered' \in BOOLEAN,
         recovered' \/ NoLine(s, accepted + c.n, needFlush'),
         c.stage \in {"whole", "line", "rest"} => ~needFlush'
  PROVE  WriterInv'
<1>1. /\ wpc' = "drain" /\ call' = [c EXCEPT !.written = 0] /\ accepted' = accepted
      /\ newlines' = newlines /\ lineWriter' = lineWriter
  BY DEF Flushing, setup
<1>2. /\ call' \in Calls /\ call'.n = c.n /\ call'.stage = c.stage /\ call'.data = c.data
      /\ call'.part = c.part /\ call'.written = 0 /\ c.n \in Nat
  BY <1>1 DEF Calls
<1>3. accepted \in Nat
  BY WriterFacts
<1>4. sink' \in Seq(Nat) /\ Len(sink') = s
  BY BytesFirst
<1>5. accepted + c.n \in Nat /\ wbuf' \in Seq(Nat)
  <2>1. accepted + c.n \in Nat
    BY <1>2, <1>3
  <2>2. QED
    BY <2>1, BytesShape
<1>6. WriterTypeOK'
  BY <1>1, <1>2, <1>4, <1>5 DEF WriterInv, WriterTypeOK
<1>7. Hi' = accepted + c.n /\ Lo' = s
  BY <1>1, <1>2, <1>4 DEF Hi, Lo
<1>8. BytesInv'
  BY <1>1, <1>4, <1>7 DEF BytesInv
<1>9. Given(call)'
  BY <1>1, <1>2 DEF Given
<1>10. CallInv'
  BY <1>1, <1>2, <1>9 DEF CallInv
<1>11. LineInv'
  BY <1>1, <1>2, <1>7 DEF LineInv, NoLine
<1>12. QED
  BY <1>6, <1>8, <1>10, <1>11 DEF WriterInv

\* BufWriter::write is called: it flushes first when the part does not fit.
LEMMA WritesPart ==
  ASSUME WriterInv, wpc \in {"idle", "sync"}, UNCHANGED <<setup, sink, wbuf, panicked, recovered>>,
         NEW c \in Calls, WritePart(c, wbuf), c.stage \in {"whole", "line", "rest"}, Given(c),
         Hi = accepted + c.n, needFlush' = FALSE,
         recovered \/ NoLine(Len(sink), Hi, FALSE)
  PROVE  WriterInv'
<1>1. /\ sink' = Bytes(1, Len(sink)) /\ wbuf' = Bytes(Len(sink) + 1, accepted + c.n)
      /\ Len(sink) \in Nat /\ Len(sink) <= accepted + c.n /\ ~panicked
      /\ panicked' = panicked /\ needFlush' \in BOOLEAN /\ recovered' \in BOOLEAN
      /\ recovered' \/ NoLine(Len(sink), accepted + c.n, needFlush')
  BY WriterFacts
<1>2. CASE Len(wbuf) + Len(c.part) > BufCap
  <2>1. Flushing(c)
    BY <1>2 DEF WritePart, Flushing
  <2>2. QED
    BY <1>1, <2>1, Flushes
<1>3. CASE ~(Len(wbuf) + Len(c.part) > BufCap)
  <2>1. /\ wpc' = "put" /\ call' = [c EXCEPT !.written = 0] /\ accepted' = accepted
        /\ newlines' = newlines /\ lineWriter' = lineWriter /\ wbuf' = wbuf
    BY <1>3 DEF WritePart, setup
  <2>2. /\ call' \in Calls /\ call'.n = c.n /\ call'.stage = c.stage /\ call'.data = c.data
        /\ call'.part = c.part /\ call'.written = 0 /\ c.n \in Nat /\ c.part \in Seq(Nat)
    BY <2>1 DEF Calls
  <2>3. WriterTypeOK'
    BY <1>1, <2>1, <2>2 DEF WriterInv, WriterTypeOK
  <2>4. Hi' = accepted + c.n /\ Lo' = Len(sink) /\ Len(sink') = Len(sink)
    BY <1>1, <2>1, <2>2 DEF Hi, Lo
  <2>5. BytesInv'
    BY <1>1, <2>1, <2>4 DEF BytesInv
  <2>6. Given(call)'
    BY <2>1, <2>2 DEF Given
  <2>7. Len(wbuf) + Len(c.part) <= BufCap
    BY <1>3, <2>2, WriterAssumption DEF WriterInv, WriterTypeOK
  <2>8. CallInv'
    BY <2>1, <2>2, <2>6, <2>7 DEF CallInv
  <2>9. LineInv'
    BY <1>1, <2>1, <2>2, <2>4 DEF LineInv, NoLine
  <2>10. QED
    BY <2>3, <2>5, <2>8, <2>9 DEF WriterInv
<1>4. QED
  BY <1>2, <1>3

\* LineWriter::write gives BufWriter the bytes up to the last newline, or all.
LEMMA WritesLine ==
  ASSUME WriterInv, wpc \in {"idle", "sync"}, UNCHANGED <<setup, sink, wbuf, panicked, recovered>>,
         NEW c \in Calls, WriteLine(c, wbuf), c.n = 0, Hi = accepted,
         c.data = Bytes(accepted + 1, accepted + Len(c.data)),
         needFlush' = FALSE, recovered \/ NoLine(Len(sink), Hi, FALSE)
  PROVE  WriterInv'
<1> DEFINE len == Len(c.data)
           lineEnds == {i \in DOMAIN c.data : c.data[i] \in newlines}
<1>1. /\ accepted \in Nat /\ len \in Nat /\ newlines \subseteq Nat
      /\ (~lineWriter => newlines = {}) /\ Hi = accepted + 0
  BY WriterFacts DEF Calls
<1>2. /\ accepted + len \in Nat /\ accepted <= accepted + len
      /\ accepted + len - accepted = len
  BY <1>1
<1>3. DOMAIN c.data = 1..len /\ \A i \in 1..len : c.data[i] = accepted + i
  <2>1. PICK e \in Nat : e = accepted + len
    BY <1>2
  <2>2. c.data = Bytes(accepted + 1, e) /\ accepted <= e /\ e - accepted = len
    <3>1. accepted + Len(c.data) = e
      BY <2>1
    <3>2. c.data = Bytes(accepted + 1, e)
      BY <3>1
    <3>3. QED
      BY <1>1, <2>1, <3>2
  <2>3. QED
    BY <1>1, <2>2, BytesShape
<1>4. CASE (~lineWriter \/ lineEnds = {})
           /\ WritePart([c EXCEPT !.stage = "whole", !.part = c.data], wbuf)
  <2> DEFINE d == [c EXCEPT !.stage = "whole", !.part = c.data]
  <2>1. /\ d \in Calls /\ d.stage = "whole" /\ d.data = c.data /\ d.part = c.data /\ d.n = 0
    BY DEF Calls, Stages
  <2>2. \A b \in newlines : ~(accepted < b /\ b <= accepted + len)
    <3>1. SUFFICES ASSUME NEW b \in newlines, accepted < b, b <= accepted + len PROVE FALSE
      OBVIOUS
    <3>2. b - accepted \in 1..len /\ accepted + (b - accepted) = b
      BY <1>1, <3>1
    <3>3. c.data[b - accepted] \in newlines
      BY <1>3, <3>1, <3>2
    <3>4. QED
      BY <1>1, <1>3, <1>4, <3>2, <3>3
  <2> HIDE DEF d
  <2>3. Given(d)
    BY <1>1, <2>1, <2>2 DEF Given
  <2>4. WritePart(d, wbuf)
    BY <1>4 DEF d
  <2>5. QED
    BY <1>1, <2>1, <2>3, <2>4, WritesPart
<1>5. CASE lineWriter
           /\ \E last \in lineEnds :
                /\ \A i \in lineEnds : i <= last
                /\ WritePart([c EXCEPT !.stage = "line", !.part = SubSeq(c.data, 1, last)], wbuf)
  <2>1. PICK k \in lineEnds :
          /\ \A i \in lineEnds : i <= k
          /\ WritePart([c EXCEPT !.stage = "line", !.part = SubSeq(c.data, 1, k)], wbuf)
    BY <1>5
  <2>2. k \in 1..len /\ k \in Nat /\ k > 0 /\ k <= len /\ accepted + k \in newlines
    BY <1>3, <2>1
  <2>3. SubSeq(c.data, 1, k) = Bytes(accepted + 1, accepted + k)
    <3>1. PICK e \in Nat : e = accepted + len
      BY <1>2
    <3>2. c.data = Bytes(accepted + 1, e) /\ accepted <= e /\ k <= e - accepted
      <4>1. accepted + Len(c.data) = e
        BY <3>1
      <4>2. c.data = Bytes(accepted + 1, e)
        BY <4>1
      <4>3. QED
        BY <1>1, <2>2, <3>1, <4>2
    <3>3. QED
      BY <1>1, <2>2, <3>2, BytesPrefix
  <2>4. /\ Bytes(accepted + 1, accepted + k) \in Seq(Nat)
        /\ Len(Bytes(accepted + 1, accepted + k)) = k
    <3>1. PICK a \in Nat, e \in Nat : a = accepted /\ e = accepted + k /\ a <= e /\ e - a = k
      BY <1>1, <2>2
    <3>2. a <= e
      BY <3>1
    <3>3. Bytes(a + 1, e) \in Seq(Nat) /\ Len(Bytes(a + 1, e)) = e - a
      BY <3>2, BytesShape
    <3>4. QED
      BY <3>1, <3>3
  <2> DEFINE d == [c EXCEPT !.stage = "line", !.part = SubSeq(c.data, 1, k)]
  <2>5. /\ d \in Calls /\ d.stage = "line" /\ d.data = c.data /\ d.n = 0
        /\ d.part = Bytes(accepted + 1, accepted + k) /\ Len(d.part) = k
    BY <2>3, <2>4 DEF Calls, Stages
  <2>6. \A b \in newlines : ~(accepted + k < b /\ b <= accepted + len)
    <3>1. SUFFICES ASSUME NEW b \in newlines, accepted + k < b, b <= accepted + len PROVE FALSE
      OBVIOUS
    <3>2. b - accepted \in 1..len /\ accepted + (b - accepted) = b /\ ~(b - accepted <= k)
      BY <1>1, <2>2, <3>1
    <3>3. b - accepted \in lineEnds
      BY <1>3, <3>1, <3>2
    <3>4. QED
      BY <2>1, <3>2, <3>3
  <2>7. WritePart(d, wbuf)
    BY <2>1
  <2> HIDE DEF d
  <2>8. Given(d)
    BY <1>1, <2>2, <2>5, <2>6 DEF Given
  <2>9. QED
    BY <1>1, <2>5, <2>7, <2>8, WritesPart
<1>6. QED
  BY <1>4, <1>5 DEF WriteLine

\* An error is returned: what is not sent stays in the buffer.
LEMMA Fails ==
  ASSUME WriterInv, wpc \in {"drain", "put", "sync"}, UNCHANGED <<setup, sink, panicked>>,
         Failed, wbuf' = Bytes(Len(sink) + 1, Hi)
  PROVE  WriterInv'
<1> DEFINE s == Len(sink)
<1>1. /\ newlines \subseteq Nat /\ (~lineWriter => newlines = {}) /\ s \in Nat /\ accepted \in Nat
      /\ call \in Calls /\ Hi \in Nat /\ sink' = Bytes(1, s) /\ ~panicked
      /\ Lo \in Nat /\ Lo <= s /\ s <= Hi /\ panicked' = panicked
      /\ needFlush \in BOOLEAN /\ recovered \in BOOLEAN
  BY WriterFacts
<1>2. call.stage \in Stages /\ call.n \in Nat
  BY <1>1 DEF Calls
<1>3. needFlush' \in BOOLEAN /\ recovered' \in BOOLEAN
  BY <1>1 DEF Failed
<1>4. recovered' \/ NoLine(s, Hi, needFlush')
  <2>1. CASE newlines = {}
    BY <2>1 DEF NoLine
  <2>2. CASE lineWriter /\ call.stage = "into"
    BY <2>2 DEF Failed
  <2>3. CASE call.stage # "into"
    <3>1. (needFlush' <=> needFlush) /\ (recovered => recovered')
      BY <2>3, <1>1 DEF Failed
    <3>2. recovered \/ \A b \in newlines : Lo < b /\ b <= Hi => needFlush /\ Hi \in newlines
      BY DEF WriterInv, LineInv
    <3>3. \A b \in newlines : s < b => Lo < b
      BY <1>1
    <3>4. QED
      BY <3>1, <3>2, <3>3 DEF NoLine
  <2>4. QED
    BY <1>1, <2>1, <2>2, <2>3
<1>5. Given(call)
  BY DEF WriterInv, CallInv
<1>6. ASSUME NEW n \in Nat, Return(n), Hi = accepted + n PROVE WriterInv'
  <2>1. /\ s <= accepted + n /\ wbuf' = Bytes(s + 1, accepted + n)
        /\ recovered' \/ NoLine(s, accepted + n, needFlush')
    BY <1>1, <1>4, <1>6
  <2> HIDE DEF s
  <2>2. QED
    BY <1>1, <1>3, <1>6, <2>1, Returns
<1>7. CASE call.stage \in {"after", "rest"} /\ Return(call.n)
  BY <1>2, <1>6, <1>7 DEF Hi
<1>8. CASE call.stage \in {"first", "whole", "line", "flush", "into"} /\ Return(0)
  <2>1. call.n = 0
    BY <1>5, <1>8 DEF Given
  <2>2. Hi = accepted + 0
    BY <2>1 DEF Hi
  <2>3. QED
    BY <1>6, <1>8, <2>2
<1>9. CASE wpc' = "dropped" /\ UNCHANGED <<call, accepted>>
  <2>1. wbuf' \in Seq(Nat) /\ sink' \in Seq(Nat) /\ Len(sink') = s
    BY <1>1, BytesShape, BytesFirst
  <2>2. WriterTypeOK'
    BY <1>1, <1>3, <1>9, <2>1 DEF WriterInv, WriterTypeOK, setup
  <2>3. BytesInv' /\ CallInv' /\ LineInv'
    BY <1>1, <1>9, <2>1 DEF BytesInv, CallInv, LineInv
  <2>4. QED
    BY <2>2, <2>3 DEF WriterInv
<1>10. QED
  BY <1>7, <1>8, <1>9 DEF Failed

\* The inner writer panics, having taken some of what it was offered.
LEMMA Panics ==
  ASSUME WriterInv, UNCHANGED setup, NEW e \in Nat, Len(sink) <= e,
         Unwinds(Bytes(Len(sink) + 1, e))
  PROVE  WriterInv'
<1>1. PICK s \in Nat : s = Len(sink)
  BY WriterFacts
<1>2. sink = Bytes(1, s) /\ s <= e
  BY <1>1, WriterFacts
<1>3. Len(Bytes(s + 1, e)) = e - s
  BY <1>2, BytesShape
<1>4. PICK n \in 0..(e - s) : sink' = sink \o SubSeq(Bytes(s + 1, e), 1, n)
  BY <1>1, <1>3 DEF Unwinds
<1>5. SubSeq(Bytes(s + 1, e), 1, n) = Bytes(s + 1, s + n)
  BY <1>2, <1>4, BytesPrefix
<1>6. sink' = Bytes(1, s + n) /\ s + n \in Nat
  <2>1. s + n \in Nat /\ s <= s + n
    BY <1>4
  <2>2. QED
    BY <1>2, <1>4, <1>5, <2>1, BytesFirst
<1>7. sink' \in Seq(Nat) /\ Len(sink') = s + n
  BY <1>6, BytesFirst
<1>8. /\ panicked' = TRUE /\ wpc' = "unwound" /\ call' = NoCall
      /\ UNCHANGED <<wbuf, needFlush, accepted, recovered>>
  BY DEF Unwinds
<1>9. NoCall \in Calls
  BY DEF NoCall, Calls, Stages
<1>10. WriterTypeOK'
  BY <1>7, <1>8, <1>9 DEF WriterInv, WriterTypeOK, setup
<1>11. BytesInv' /\ CallInv' /\ LineInv'
  BY <1>6, <1>7, <1>8 DEF BytesInv, CallInv, LineInv
<1>12. QED
  BY <1>10, <1>11 DEF WriterInv

\* One round of flush_buf.
LEMMA FlushBufPreserves ==
  ASSUME WriterInv, FlushBuf PROVE WriterInv'
<1>1. PICK s \in Nat, lo \in Nat, hi \in Nat : s = Len(sink) /\ lo = Lo /\ hi = Hi
  BY WriterFacts DEF FlushBuf
<1>2. /\ wpc = "drain" /\ UNCHANGED setup /\ lo <= s /\ s <= hi /\ wbuf = Bytes(lo + 1, hi)
      /\ sink = Bytes(1, s) /\ call \in Calls /\ ~panicked /\ accepted \in Nat
  BY <1>1, WriterFacts DEF FlushBuf
<1>3. PICK w \in Nat : w = call.written /\ s = lo + w
  <2>1. call.written \in Nat
    BY <1>2 DEF Calls
  <2>2. lo = s - call.written
    BY <1>1, <1>2 DEF Lo
  <2>3. QED
    BY <2>1, <2>2
<1>4. lo <= hi
  BY <1>2
<1>5. Len(wbuf) = hi - lo
  BY <1>2, <1>4, BytesShape
<1>6. SubSeq(wbuf, w + 1, Len(wbuf)) = Bytes(s + 1, hi)
  <2>1. lo <= s /\ s <= hi
    BY <1>2
  <2>2. SubSeq(Bytes(lo + 1, hi), s - lo + 1, hi - lo) = Bytes(s + 1, hi)
    BY <2>1, BytesSuffix, Zenon
  <2>3. s - lo + 1 = w + 1
    BY <1>3
  <2>4. QED
    BY <1>2, <1>5, <2>2, <2>3
<1>7. Len(Bytes(s + 1, hi)) = hi - s /\ (Bytes(s + 1, hi) = <<>> <=> s = hi)
  BY <1>2, BytesShape, BytesEmpty
<1>inv. WriterTypeOK /\ CallInv /\ LineInv
  BY DEF WriterInv
<1>8. CASE Bytes(s + 1, hi) = <<>> /\ wbuf' = <<>> /\ Drained /\ UNCHANGED <<sink, panicked>>
  <2>1. s = hi /\ wbuf' \in Seq(Nat) /\ wbuf' = Bytes(s + 1, hi)
    BY <1>7, <1>8
  <2>2. UNCHANGED <<call, accepted, needFlush, recovered, sink, panicked, newlines, lineWriter>>
    BY <1>2, <1>8 DEF Drained, setup
  <2>3. Hi' = hi
    BY <1>1, <2>2 DEF Hi
  <2>4. call.stage \in Stages \ {"none"} /\ Given(call)
    BY <1>2, <1>inv DEF CallInv, Calls
  <2>5. /\ wpc' \in {"sync", "put", "taken", "dropped"}
        /\ wpc' = "sync" => call.stage \in {"first", "after", "flush"}
        /\ wpc' = "put" => call.stage \in {"whole", "line", "rest"}
        /\ wpc' = "taken" => call.stage = "into"
    BY <1>8, <2>4 DEF Drained, Stages
  <2>6. Lo' = s /\ Len(sink') = s
    BY <1>1, <2>2, <2>5 DEF Lo
  <2>7. WriterTypeOK'
    BY <1>inv, <2>1, <2>2, <2>5 DEF WriterTypeOK
  <2>8. wpc' = "taken" => s = accepted
    <3>1. call.stage = "into" => call.n = 0
      BY <2>4 DEF Given
    <3>2. QED
      BY <1>1, <1>2, <2>1, <2>5, <3>1 DEF Hi
  <2>9. BytesInv'
    BY <1>2, <1>8, <2>1, <2>2, <2>3, <2>5, <2>6, <2>8 DEF BytesInv
  <2>10. Given(call)'
    BY <2>2, <2>4 DEF Given
  <2>11. CallInv'
    BY <1>8, <2>2, <2>5, <2>10 DEF CallInv
  <2>12. LineInv'
    <3>1. \A b \in newlines : b \in Nat
      BY <1>inv DEF WriterTypeOK
    <3>2. \A b \in newlines : ~(s < b /\ b <= hi)
      BY <2>1, <3>1
    <3>3. call.stage \in {"whole", "line", "rest"} => ~needFlush
      BY <1>2, <1>inv DEF LineInv
    <3>4. QED
      BY <2>2, <2>3, <2>6, <3>2, <3>3 DEF LineInv
  <2>13. QED
    BY <2>7, <2>9, <2>11, <2>12 DEF WriterInv
<1>9. ASSUME NEW n \in 1..(hi - s), sink' = sink \o SubSeq(Bytes(s + 1, hi), 1, n),
             call' = [call EXCEPT !.written = call.written + n],
             UNCHANGED <<wbuf, needFlush, panicked, accepted, recovered, wpc>>
      PROVE  WriterInv'
  <2>1. n \in Nat /\ s + n \in Nat /\ s <= s + n /\ s + n <= hi
    BY <1>2
  <2>2. sink' = Bytes(1, s + n)
    <3>1. SubSeq(Bytes(s + 1, hi), 1, n) = Bytes(s + 1, s + n)
      BY <1>2, <1>9, <2>1, BytesPrefix
    <3>2. QED
      BY <1>2, <1>9, <2>1, <3>1, BytesFirst
  <2>3. sink' \in Seq(Nat) /\ Len(sink') = s + n
    BY <2>1, <2>2, BytesFirst
  <2>4. /\ call' \in Calls /\ call'.n = call.n /\ call'.stage = call.stage
        /\ call'.data = call.data /\ call'.part = call.part /\ call'.written = w + n
    <3>1. PICK v \in Nat : v = w + n
      BY <2>1
    <3>2. call' = [call EXCEPT !.written = v]
      BY <1>3, <1>9, <3>1
    <3>3. QED
      BY <1>2, <3>1, <3>2 DEF Calls
  <2>5. Hi' = hi /\ Lo' = lo
    <3>1. Hi' = hi
      BY <1>1, <1>9, <2>4 DEF Hi
    <3>2. Lo' = s + n - (w + n)
      BY <1>2, <1>9, <2>3, <2>4 DEF Lo
    <3>3. QED
      BY <1>3, <2>1, <3>1, <3>2
  <2>6. WriterTypeOK'
    BY <1>2, <1>9, <1>inv, <2>3, <2>4 DEF WriterTypeOK, setup
  <2>7. BytesInv'
    <3>1. sink' = Bytes(1, Len(sink'))
      BY <2>2, <2>3
    <3>2. /\ wpc' = "drain" /\ 0 <= Lo' /\ Len(sink') <= Hi' /\ wbuf' = Bytes(lo + 1, hi)
          /\ ~panicked'
      BY <1>2, <1>9, <2>1, <2>3, <2>5
    <3>3. QED
      BY <2>5, <3>1, <3>2 DEF BytesInv
  <2>8. CallInv'
    <3>1. Given(call) /\ call.stage # "none" /\ newlines' = newlines
      BY <1>2, <1>inv DEF CallInv, setup
    <3>2. Given(call)'
      BY <1>9, <2>4, <3>1 DEF Given
    <3>3. QED
      BY <1>2, <1>9, <2>4, <3>1, <3>2 DEF CallInv
  <2>9. LineInv'
    BY <1>1, <1>2, <1>9, <1>inv, <2>4, <2>5 DEF LineInv, setup
  <2>10. QED
    BY <2>6, <2>7, <2>8, <2>9 DEF WriterInv
<1>10. CASE wbuf' = Bytes(s + 1, hi) /\ Failed /\ UNCHANGED <<sink, panicked>>
  BY <1>1, <1>2, <1>10, Fails
<1>11. CASE Unwinds(Bytes(s + 1, hi))
  BY <1>1, <1>2, <1>11, Panics
<1>12. QED
  BY <1>3, <1>6, <1>7, <1>8, <1>9, <1>10, <1>11 DEF FlushBuf

\* The part that BufWriter::write was given follows the buffer.
LEMMA PartFollows ==
  ASSUME WriterInv, wpc = "put"
  PROVE  /\ call.part \in Seq(Nat) /\ Len(call.part) \in Nat
         /\ call.part = Bytes(Hi + 1, Hi + Len(call.part))
         /\ call.stage \in {"whole", "line", "rest"} /\ Given(call) /\ ~needFlush
         /\ call.stage \in {"whole", "rest"} =>
              \A b \in newlines : ~(Hi < b /\ b <= Hi + Len(call.part))
         /\ call.stage = "line" => Hi = accepted /\ call.n = 0
<1>1. /\ call.stage \in {"whole", "line", "rest"} /\ Given(call) /\ ~needFlush
  BY DEF WriterInv, CallInv, LineInv
<1>2. call \in Calls /\ accepted \in Nat /\ Hi \in Nat
  BY WriterFacts
<1>3. /\ call.part \in Seq(Nat) /\ Len(call.part) \in Nat /\ call.n \in Nat
      /\ Len(call.data) \in Nat
  BY <1>2 DEF Calls
<1>4. CASE call.stage = "line"
  <2>1. call.n = 0 /\ call.part = Bytes(accepted + 1, accepted + Len(call.part))
    BY <1>1, <1>4 DEF Given
  <2>2. Hi = accepted
    BY <1>2, <2>1 DEF Hi
  <2>3. QED
    BY <1>1, <1>3, <1>4, <2>1, <2>2
<1>5. CASE call.stage \in {"whole", "rest"}
  <2>1. PICK e \in Nat : e = accepted + Len(call.data)
    BY <1>2, <1>3
  <2>2. /\ call.n <= Len(call.data)
        /\ call.part = Bytes(accepted + call.n + 1, accepted + Len(call.data))
        /\ \A b \in newlines : ~(accepted + call.n < b /\ b <= accepted + Len(call.data))
    BY <1>1, <1>5 DEF Given
  <2>3. Hi = accepted + call.n
    BY DEF Hi
  <2>4. /\ call.part = Bytes(Hi + 1, e) /\ Hi <= e
        /\ \A b \in newlines : ~(Hi < b /\ b <= e)
    BY <1>2, <1>3, <2>1, <2>2, <2>3
  <2>5. Len(call.part) = e - Hi
    BY <1>2, <2>4, BytesShape
  <2>6. Hi + Len(call.part) = e
    BY <1>2, <2>5
  <2>7. QED
    BY <1>1, <1>3, <1>5, <2>4, <2>6
<1>6. QED
  BY <1>1, <1>4, <1>5

\* BufWriter::write returned: its bytes are in the buffer or with the inner writer.
LEMMA WritesEnd ==
  ASSUME WriterInv, wpc = "put", UNCHANGED <<setup, panicked, recovered>>,
         NEW n \in Nat, n <= Len(call.part), Wrote(n),
         NEW s \in Nat, Lo <= s, s <= Hi + n, n = Len(call.part) \/ s = Hi + n,
         sink' = Bytes(1, s), wbuf' = Bytes(s + 1, Hi + n)
  PROVE  WriterInv'
<1>1. /\ newlines \subseteq Nat /\ accepted \in Nat /\ Hi \in Nat /\ Lo \in Nat /\ ~panicked
      /\ recovered \in BOOLEAN /\ needFlush \in BOOLEAN /\ call \in Calls
  BY WriterFacts
<1>2. /\ Len(call.part) \in Nat /\ call.stage \in {"whole", "line", "rest"} /\ Given(call)
      /\ ~needFlush
      /\ call.stage \in {"whole", "rest"} =>
           \A b \in newlines : ~(Hi < b /\ b <= Hi + Len(call.part))
      /\ call.stage = "line" => Hi = accepted /\ call.n = 0
  BY PartFollows
<1>3. call.n \in Nat
  BY <1>1 DEF Calls
<1>4. recovered \/ \A b \in newlines : ~(Lo < b /\ b <= Hi)
  BY <1>2 DEF WriterInv, LineInv
<1>5. CASE call.stage \in {"whole", "rest"}
  <2>1. Return(call.n + n) /\ needFlush' = needFlush /\ recovered' = recovered
    BY <1>5 DEF Wrote
  <2>2. PICK k \in Nat : k = call.n + n
    BY <1>3
  <2>3. accepted + k = Hi + n
    BY <1>1, <1>3, <2>2 DEF Hi
  <2>4. recovered' \/ NoLine(s, Hi + n, needFlush')
    <3>1. ASSUME NEW b \in newlines, s < b, b <= Hi + n PROVE Lo < b /\ b <= Hi
      BY <1>1, <1>2, <1>5, <3>1
    <3>2. QED
      BY <1>4, <2>1, <3>1 DEF NoLine
  <2>5. Return(k) /\ s <= accepted + k /\ wbuf' = Bytes(s + 1, accepted + k)
    BY <2>1, <2>2, <2>3
  <2>6. recovered' \/ NoLine(s, accepted + k, needFlush')
    BY <2>3, <2>4
  <2>7. panicked' = panicked /\ needFlush' \in BOOLEAN /\ recovered' \in BOOLEAN
    BY <1>1, <2>1
  <2>8. QED
    BY <1>1, <2>5, <2>6, <2>7, Returns
<1>6. CASE call.stage = "line"
  <2> DEFINE c == [call EXCEPT !.stage = "after", !.n = n]
  <2>1. /\ Flushing(c) /\ needFlush' = TRUE /\ recovered' = recovered /\ panicked' = panicked
    BY <1>6 DEF Wrote
  <2>2. /\ c \in Calls /\ c.stage = "after" /\ c.n = n /\ c.part = call.part
        /\ c.data = call.data
    BY <1>1 DEF Calls, Stages
  <2> HIDE DEF c
  <2>3. Given(c)
    BY <1>2, <1>6, <2>2 DEF Given
  <2>4. Hi = accepted
    BY <1>2, <1>6
  <2>5. recovered' \/ NoLine(s, accepted + c.n, needFlush')
    <3>1. n = Len(call.part) => accepted + n \in newlines
      BY <1>2, <1>6 DEF Given
    <3>2. ASSUME NEW b \in newlines, s < b, b <= Hi + n PROVE accepted + n \in newlines
      <4>1. ~(s = Hi + n)
        BY <1>1, <3>2
      <4>2. QED
        BY <3>1, <4>1
    <3>3. QED
      BY <2>1, <2>2, <2>4, <3>2 DEF NoLine
  <2>6. /\ s <= accepted + c.n /\ wbuf' = Bytes(s + 1, accepted + c.n) /\ c.stage # "none"
        /\ needFlush' \in BOOLEAN /\ recovered' \in BOOLEAN
        /\ c.stage \in {"whole", "line", "rest"} => ~needFlush'
    BY <1>1, <2>1, <2>2, <2>4
  <2>7. QED
    BY <1>1, <2>1, <2>2, <2>3, <2>5, <2>6, Flushes
<1>7. QED
  BY <1>2, <1>5, <1>6

\* BufWriter::write behind its flush.
LEMMA PutPreserves ==
  ASSUME WriterInv, Put PROVE WriterInv'
<1>1. PICK s \in Nat, hi \in Nat, len \in Nat :
        s = Len(sink) /\ hi = Hi /\ len = Len(call.part)
  BY WriterFacts, PartFollows DEF Put
<1>2. /\ wpc = "put" /\ UNCHANGED setup /\ Lo = s /\ s <= hi /\ wbuf = Bytes(s + 1, hi)
      /\ sink = Bytes(1, s) /\ ~panicked
  BY <1>1, WriterFacts DEF Put
<1>3. call.part = Bytes(hi + 1, hi + len)
  BY <1>1, <1>2, PartFollows
<1>4. hi + len \in Nat /\ hi <= hi + len
  OBVIOUS
<1>5. CASE wbuf' = wbuf \o call.part /\ Wrote(len) /\ UNCHANGED <<sink, panicked, recovered>>
  <2>e. PICK e \in Nat : e = hi + len
    BY <1>4
  <2>a. s <= hi /\ hi <= e /\ s <= e
    BY <1>2, <2>e
  <2>b. Bytes(s + 1, hi) \o Bytes(hi + 1, e) = Bytes(s + 1, e)
    BY <2>a, BytesConcat
  <2>1. wbuf' = Bytes(s + 1, Hi + len)
    BY <1>1, <1>2, <1>3, <1>5, <2>b, <2>e
  <2>c. Hi + len = e
    BY <1>1, <2>e
  <2>2. /\ len <= Len(call.part) /\ Lo <= s /\ s <= Hi + len /\ sink' = Bytes(1, s)
        /\ len = Len(call.part)
    BY <1>1, <1>2, <1>5, <2>a, <2>c
  <2>3. UNCHANGED <<setup, panicked, recovered>>
    BY <1>2, <1>5
  <2>4. QED
    BY <1>2, <1>5, <2>1, <2>2, <2>3, WritesEnd
<1>6. ASSUME len >= BufCap PROVE s = hi /\ wbuf = <<>>
  <2>1. wbuf = <<>> \/ Len(wbuf) + Len(call.part) <= BufCap
    BY <1>2 DEF WriterInv, CallInv
  <2>2. Len(wbuf) = hi - s /\ (wbuf = <<>> <=> s = hi)
    BY <1>2, BytesShape, BytesEmpty
  <2>3. QED
    <3>1. s <= hi
      BY <1>2
    <3>2. CASE Len(wbuf) + len <= BufCap
      <4>1. hi - s + len <= BufCap
        BY <2>2, <3>2
      <4>2. s = hi
        BY <1>6, <3>1, <4>1, WriterAssumption
      <4>3. QED
        BY <2>2, <4>2
    <3>3. QED
      BY <1>1, <2>1, <2>2, <3>2
<1>7. ASSUME len >= BufCap, NEW n \in 0..len, sink' = sink \o SubSeq(call.part, 1, n),
             Wrote(n), UNCHANGED <<wbuf, panicked, recovered>>
      PROVE  WriterInv'
  <2>1. PICK e \in Nat : e = hi + n
    OBVIOUS
  <2>2. n \in Nat /\ s = hi /\ wbuf = <<>> /\ hi <= e /\ n <= hi + len - hi /\ e <= e
    BY <1>6, <1>7, <2>1
  <2>3. SubSeq(call.part, 1, n) = Bytes(hi + 1, e)
    <3>1. SubSeq(Bytes(hi + 1, hi + len), 1, n) = Bytes(hi + 1, hi + n)
      BY <1>4, <2>2, BytesPrefix
    <3>2. QED
      BY <1>3, <2>1, <3>1
  <2>4. sink' = Bytes(1, e)
    BY <1>2, <1>7, <2>2, <2>3, BytesFirst
  <2>5. wbuf' = Bytes(e + 1, e)
    BY <1>7, <2>2, BytesEmpty
  <2>6. /\ n <= Len(call.part) /\ Lo <= e /\ e <= Hi + n /\ e = Hi + n
        /\ wbuf' = Bytes(e + 1, Hi + n)
    BY <1>1, <1>2, <1>7, <2>1, <2>2, <2>5
  <2>7. UNCHANGED <<setup, panicked, recovered>>
    BY <1>2, <1>7
  <2>8. QED
    BY <1>2, <1>7, <2>2, <2>4, <2>6, <2>7, WritesEnd
<1>8. CASE Failed /\ UNCHANGED <<wbuf, sink, panicked>>
  BY <1>1, <1>2, <1>8, Fails
<1>9. CASE len >= BufCap /\ Unwinds(call.part)
  <2>1. s = hi
    BY <1>6, <1>9
  <2>2. PICK e \in Nat : e = hi + len /\ Len(sink) <= e
    BY <1>1, <2>1
  <2>3. Unwinds(Bytes(Len(sink) + 1, e))
    BY <1>1, <1>3, <1>9, <2>1, <2>2
  <2>4. QED
    BY <1>2, <2>2, <2>3, Panics
<1>10. QED
  BY <1>1, <1>5, <1>7, <1>8, <1>9 DEF Put

\* The record of no call.
LEMMA NoCallFacts == NoCall \in Calls /\ NoCall.n = 0 /\ NoCall.stage = "none"
  BY DEF NoCall, Calls, Stages

\* The flush of the inner writer.
LEMMA SyncPreserves ==
  ASSUME WriterInv, Sync PROVE WriterInv'
<1>1. PICK s \in Nat, hi \in Nat : s = Len(sink) /\ hi = Hi
  BY WriterFacts
<1>2. /\ wpc = "sync" /\ UNCHANGED <<setup, wbuf, sink, panicked>> /\ s <= hi
      /\ wbuf = Bytes(s + 1, hi) /\ sink = Bytes(1, s) /\ ~panicked /\ newlines \subseteq Nat
      /\ accepted \in Nat /\ call \in Calls /\ recovered \in BOOLEAN
  BY <1>1, WriterFacts DEF Sync
<1>3. wbuf = <<>> /\ call.stage \in {"first", "after", "flush"} /\ Given(call)
  BY <1>2 DEF WriterInv, BytesInv, CallInv
<1>4. s = hi
  BY <1>2, <1>3, BytesEmpty
<1>5. \A due \in BOOLEAN : NoLine(s, hi, due)
  BY <1>2, <1>4 DEF NoLine
<1>6. call.n \in Nat /\ Len(call.data) \in Nat /\ call.data \in Seq(Nat)
  BY <1>2 DEF Calls
<1>7. Hi = accepted + call.n
  BY DEF Hi
<1>8. CASE Failed
  BY <1>1, <1>2, <1>8, Fails
<1> DEFINE Flushed == needFlush' = FALSE /\ recovered' = recovered
<1>9. ASSUME Flushed, NEW n \in Nat, Return(n), Hi = accepted + n PROVE WriterInv'
  <2>1. /\ s <= accepted + n /\ sink' = Bytes(1, s) /\ wbuf' = Bytes(s + 1, accepted + n)
        /\ UNCHANGED setup /\ panicked' = panicked
        /\ needFlush' \in BOOLEAN /\ recovered' \in BOOLEAN
        /\ NoLine(s, accepted + n, needFlush')
    BY <1>1, <1>2, <1>5, <1>9
  <2>2. QED
    BY <1>2, <1>9, <2>1, Returns
<1>10. CASE call.stage = "first" /\ Flushed /\ WriteLine(call, wbuf)
  <2>1. call.n = 0 /\ call.data = Bytes(accepted + 1, accepted + Len(call.data))
    BY <1>3, <1>10 DEF Given
  <2>2. Hi = accepted
    BY <1>2, <1>7, <2>1
  <2>a. FALSE \in BOOLEAN
    OBVIOUS
  <2>b. NoLine(Len(sink), Hi, FALSE)
    BY <1>1, <1>5, <2>a
  <2>3. UNCHANGED <<setup, sink, wbuf, panicked, recovered>>
    BY <1>2, <1>10
  <2>4. QED
    BY <1>2, <1>10, <2>1, <2>2, <2>3, <2>b, WritesLine
<1>11. CASE call.stage = "flush" /\ Flushed /\ Return(0)
  <2>1. call.n = 0
    BY <1>3, <1>11 DEF Given
  <2>2. 0 \in Nat /\ Hi = accepted + 0
    BY <1>7, <2>1
  <2>3. QED
    BY <1>9, <1>11, <2>2
<1>12. CASE call.stage = "after" /\ Flushed /\ Return(call.n)
  BY <1>6, <1>7, <1>9, <1>12
<1>13. CASE /\ call.stage = "after" /\ Flushed /\ call.n = Len(call.part)
            /\ WritePart([call EXCEPT !.stage = "rest",
                            !.part = SubSeq(call.data, call.n + 1, Len(call.data))], wbuf)
  <2>1. /\ call.data = Bytes(accepted + 1, accepted + Len(call.data))
        /\ call.n <= Len(call.data)
        /\ \A b \in newlines : ~(accepted + call.n < b /\ b <= accepted + Len(call.data))
    BY <1>3, <1>13 DEF Given
  <2>2. PICK a \in Nat, e \in Nat :
          /\ a = accepted /\ e = accepted + Len(call.data) /\ a <= hi /\ hi <= e
          /\ hi - a + 1 = call.n + 1 /\ e - a = Len(call.data)
    <3>1. PICK a \in Nat, e \in Nat, n \in Nat, len \in Nat :
            a = accepted /\ n = call.n /\ len = Len(call.data) /\ e = a + len /\ n <= len
      <4>1. PICK a \in Nat, n \in Nat, len \in Nat :
              a = accepted /\ n = call.n /\ len = Len(call.data)
        BY <1>2, <1>6
      <4>2. PICK e \in Nat : e = a + len
        OBVIOUS
      <4>3. n <= len
        BY <2>1, <4>1
      <4>4. QED
        BY <4>1, <4>2, <4>3
    <3>2. hi = a + n
      BY <1>1, <1>7, <3>1
    <3>3. a <= hi /\ hi <= e /\ hi - a + 1 = n + 1 /\ e - a = len
      BY <3>1, <3>2
    <3>4. QED
      BY <3>1, <3>3
  <2>a. a <= hi /\ hi <= e
    BY <2>2
  <2>3. SubSeq(Bytes(a + 1, e), hi - a + 1, e - a) = Bytes(hi + 1, e)
    BY <2>a, BytesSuffix, Zenon
  <2>4. SubSeq(call.data, call.n + 1, Len(call.data)) = Bytes(hi + 1, e)
    BY <2>1, <2>2, <2>3
  <2>5. Bytes(hi + 1, e) \in Seq(Nat)
    BY <2>2, BytesShape
  <2> DEFINE d == [call EXCEPT !.stage = "rest",
                     !.part = SubSeq(call.data, call.n + 1, Len(call.data))]
  <2>6. /\ d \in Calls /\ d.stage = "rest" /\ d.data = call.data /\ d.n = call.n
        /\ d.part = Bytes(hi + 1, e)
    BY <1>2, <2>4, <2>5 DEF Calls, Stages
  <2>7. WritePart(d, wbuf)
    BY <1>13
  <2> HIDE DEF d
  <2>8. d.part = Bytes(accepted + d.n + 1, accepted + Len(d.data))
    BY <1>1, <1>7, <2>2, <2>6
  <2>9. Given(d)
    BY <2>1, <2>6, <2>8 DEF Given
  <2>10. Hi = accepted + d.n /\ NoLine(Len(sink), Hi, FALSE)
    BY <1>1, <1>5, <1>7, <2>6
  <2>11. UNCHANGED <<setup, sink, wbuf, panicked, recovered>> /\ needFlush' = FALSE
    BY <1>2, <1>13
  <2>12. QED
    BY <1>2, <2>6, <2>7, <2>9, <2>10, <2>11, WritesPart
<1>14. QED
  BY <1>8, <1>10, <1>11, <1>12, <1>13 DEF Sync

\* Between two calls.
LEMMA IdleFacts ==
  ASSUME WriterInv, wpc = "idle"
  PROVE  /\ call = NoCall /\ Hi = accepted /\ Len(sink) \in Nat /\ Len(sink) <= accepted
         /\ sink = Bytes(1, Len(sink)) /\ wbuf = Bytes(Len(sink) + 1, accepted)
         /\ ~panicked /\ (recovered \/ NoLine(Len(sink), accepted, needFlush))
<1>1. call = NoCall
  BY DEF WriterInv, CallInv
<1>2. Hi = accepted
  BY <1>1, WriterFacts DEF Hi, NoCall
<1>3. Lo = Len(sink)
  BY WriterFacts
<1>4. recovered \/ NoLine(Len(sink), accepted, needFlush)
  BY <1>2, <1>3 DEF WriterInv, LineInv, NoLine
<1>5. QED
  BY <1>1, <1>2, <1>3, <1>4, WriterFacts

\* A call that only flushes: flush, into_inner, or the destructor.
LEMMA FlushCalls ==
  ASSUME WriterInv, wpc = "idle", NEW stage \in {"flush", "into", "drop"},
         Flushing([NoCall EXCEPT !.stage = stage]),
         UNCHANGED <<setup, wbuf, needFlush, panicked, sink, recovered>>
  PROVE  WriterInv'
<1> DEFINE c == [NoCall EXCEPT !.stage = stage]
<1>1. c \in Calls /\ c.stage = stage /\ c.n = 0
  BY NoCallFacts DEF Calls, Stages
<1>2. Flushing(c) /\ UNCHANGED <<setup, wbuf, needFlush, panicked, sink, recovered>>
  OBVIOUS
<1> HIDE DEF c
<1>3. Given(c) /\ c.stage # "none"
  BY <1>1 DEF Given
<1>4. PICK s \in Nat : s = Len(sink)
  BY IdleFacts
<1>5. accepted + c.n = accepted
  BY <1>1, WriterFacts
<1>6. /\ s <= accepted + c.n /\ sink' = Bytes(1, s) /\ wbuf' = Bytes(s + 1, accepted + c.n)
      /\ ~panicked /\ panicked' = panicked /\ needFlush' \in BOOLEAN /\ recovered' \in BOOLEAN
      /\ recovered' \/ NoLine(s, accepted + c.n, needFlush')
      /\ c.stage \in {"whole", "line", "rest"} => ~needFlush'
  BY <1>1, <1>2, <1>4, <1>5, IdleFacts, WriterFacts
<1>7. QED
  BY <1>1, <1>2, <1>3, <1>6, Flushes

\* The caller's write.
LEMMA WritePreserves ==
  ASSUME WriterInv, NEW n \in 0..Total, Write(n) PROVE WriterInv'
<1>1. PICK a \in Nat, e \in Nat : a = accepted /\ e = accepted + n /\ a <= e
  BY WriterFacts, WriterAssumption
<1>2. wpc = "idle" /\ UNCHANGED <<setup, wbuf, needFlush, panicked, sink, recovered>>
  BY DEF Write
<1> DEFINE data == Bytes(accepted + 1, accepted + n)
           c == [NoCall EXCEPT !.data = data]
           f == [c EXCEPT !.stage = "first"]
<1>3. data \in Seq(Nat) /\ Len(data) = n
  <2>1. Bytes(a + 1, e) \in Seq(Nat) /\ Len(Bytes(a + 1, e)) = e - a
    BY <1>1, BytesShape
  <2>2. QED
    BY <1>1, <2>1
<1>4. data = Bytes(accepted + 1, accepted + Len(data))
  BY <1>3
<1>5. \/ needFlush /\ Flushing(f)
      \/ ~needFlush /\ WriteLine(c, wbuf)
  BY DEF Write
<1> HIDE DEF data
<1>6. c \in Calls /\ c.n = 0 /\ c.data = data
  BY <1>3, NoCallFacts DEF Calls, Stages
<1>7. f \in Calls /\ f.n = 0 /\ f.data = data /\ f.stage = "first"
  BY <1>3, NoCallFacts DEF Calls, Stages
<1> HIDE DEF c, f
<1>8. CASE needFlush /\ Flushing(f)
  <2>1. Given(f) /\ f.stage # "none"
    BY <1>4, <1>7 DEF Given
  <2>2. PICK s \in Nat : s = Len(sink)
    BY IdleFacts, <1>2
  <2>3. accepted + f.n = accepted
    BY <1>7, WriterFacts
  <2>4. /\ s <= accepted + f.n /\ sink' = Bytes(1, s) /\ wbuf' = Bytes(s + 1, accepted + f.n)
        /\ ~panicked /\ panicked' = panicked /\ needFlush' \in BOOLEAN /\ recovered' \in BOOLEAN
        /\ recovered' \/ NoLine(s, accepted + f.n, needFlush')
        /\ f.stage \in {"whole", "line", "rest"} => ~needFlush'
    BY <1>2, <1>7, <2>2, <2>3, IdleFacts, WriterFacts
  <2>5. QED
    BY <1>2, <1>7, <1>8, <2>1, <2>4, Flushes
<1>9. CASE ~needFlush /\ WriteLine(c, wbuf)
  <2>1. /\ c.data = Bytes(accepted + 1, accepted + Len(c.data)) /\ Hi = accepted
        /\ needFlush' = FALSE /\ UNCHANGED <<setup, sink, wbuf, panicked, recovered>>
    BY <1>2, <1>4, <1>6, <1>9, IdleFacts, WriterFacts
  <2>2. recovered \/ NoLine(Len(sink), Hi, FALSE)
    BY <1>2, <1>9, IdleFacts DEF NoLine
  <2>3. QED
    BY <1>2, <1>6, <1>9, <2>1, <2>2, WritesLine
<1>10. QED
  BY <1>5, <1>8, <1>9

\* The destructor sends nothing again after a panic of the inner writer.
LEMMA DropPreserves ==
  ASSUME WriterInv, DropWriter PROVE WriterInv'
<1>1. /\ wpc \in {"idle", "unwound"}
      /\ UNCHANGED <<setup, wbuf, needFlush, panicked, sink, recovered>>
  BY DEF DropWriter
<1>2. CASE DropFlushes /\ Flushing([NoCall EXCEPT !.stage = "drop"])
  <2>1. wpc = "idle"
    BY <1>1, <1>2 DEF DropFlushes, WriterInv, BytesInv
  <2>2. QED
    BY <1>1, <1>2, <2>1, FlushCalls
<1>3. CASE wpc' = "dropped" /\ UNCHANGED <<call, accepted>>
  <2>1. WriterTypeOK'
    BY <1>1, <1>3 DEF WriterInv, WriterTypeOK, setup
  <2>2. BytesInv' /\ CallInv' /\ LineInv'
    BY <1>1, <1>3 DEF WriterInv, BytesInv, CallInv, LineInv
  <2>3. QED
    BY <2>1, <2>2 DEF WriterInv
<1>4. QED
  BY <1>2, <1>3 DEF DropWriter

\* BufWriter::with_capacity and LineWriter::with_capacity.
LEMMA InitWriterInv == InitWriter => WriterInv
<1> SUFFICES ASSUME InitWriter PROVE WriterInv
  OBVIOUS
<1>1. /\ wbuf = <<>> /\ needFlush = FALSE /\ panicked = FALSE /\ sink = <<>> /\ accepted = 0
      /\ recovered = FALSE /\ wpc = "idle" /\ call = NoCall
      /\ lineWriter \in BOOLEAN /\ newlines \subseteq 1..Total /\ (~lineWriter => newlines = {})
  BY DEF InitWriter
<1>2. NoCall \in Calls /\ NoCall.n = 0 /\ NoCall.stage = "none"
  BY NoCallFacts
<1>a. newlines \subseteq Nat
  BY <1>1, WriterAssumption
<1>b. wbuf \in Seq(Nat) /\ sink \in Seq(Nat) /\ accepted \in Nat
  BY <1>1
<1>3. WriterTypeOK
  BY <1>1, <1>2, <1>a, <1>b DEF WriterTypeOK
<1>4. Len(sink) = 0 /\ Lo = 0 /\ Hi = 0
  BY <1>1, <1>2 DEF Lo, Hi
<1>5. Bytes(1, 0) = <<>>
  <2>1. 0 \in Nat /\ 0 <= 0 /\ 0 + 1 = 1
    OBVIOUS
  <2>2. Bytes(0 + 1, 0) = <<>>
    BY <2>1, BytesEmpty
  <2>3. QED
    BY <2>1, <2>2
<1>6. BytesInv
  BY <1>1, <1>4, <1>5 DEF BytesInv
<1>7. CallInv /\ LineInv
  BY <1>1, <1>2, <1>3, <1>4 DEF CallInv, LineInv, WriterTypeOK
<1>8. QED
  BY <1>3, <1>6, <1>7 DEF WriterInv

\* What BufWriter and LineWriter report is what happened to the bytes, for every
\* capacity, every placing of the newlines and every sequence of short writes, errors
\* and panics of the inner writer (WriterSound).
THEOREM WriterIsSound == SpecWriter => []WriterSound
<1>1. WriterInv /\ [NextWriter]_writerVars => WriterInv'
  <2> SUFFICES ASSUME WriterInv, [NextWriter]_writerVars PROVE WriterInv'
    OBVIOUS
  <2>1. CASE NextWriter
    <3>1. ASSUME NEW stage \in {"flush", "into"}, FlushOrInto(stage) PROVE WriterInv'
      BY <3>1, FlushCalls DEF FlushOrInto
    <3>2. QED
      BY <2>1, <3>1, WritePreserves, DropPreserves, FlushBufPreserves, PutPreserves,
         SyncPreserves DEF NextWriter
  <2>2. CASE UNCHANGED writerVars
    <3>1. UNCHANGED <<lineWriter, newlines, wbuf, needFlush, panicked, sink, accepted,
                      recovered, wpc, call>>
      BY <2>2 DEF writerVars, setup
    <3>2. WriterTypeOK' /\ BytesInv' /\ CallInv' /\ LineInv'
      BY <3>1 DEF WriterInv, WriterTypeOK, BytesInv, CallInv, LineInv, Given, Lo, Hi
    <3>3. QED
      BY <3>2 DEF WriterInv
  <2>3. QED
    BY <2>1, <2>2
<1>2. WriterInv => WriterSound
  <2> SUFFICES ASSUME WriterInv PROVE WriterSound
    OBVIOUS
  <2>1. sink = Bytes(1, Len(sink)) /\ (wpc = "taken" => Len(sink) = accepted)
    BY DEF WriterInv, BytesInv
  <2>2. ASSUME wpc = "idle"
        PROVE  /\ sink \o wbuf = Bytes(1, accepted)
               /\ ~recovered => \A i \in DOMAIN wbuf :
                    wbuf[i] \in newlines => needFlush /\ Last(wbuf) \in newlines
    <3>1. PICK s \in Nat, a \in Nat : s = Len(sink) /\ a = accepted
      BY <2>2, IdleFacts, WriterFacts
    <3>2. /\ sink = Bytes(1, s) /\ wbuf = Bytes(s + 1, a) /\ s <= a
          /\ recovered \/ NoLine(s, a, needFlush)
      BY <2>2, <3>1, IdleFacts
    <3>3. sink \o wbuf = Bytes(1, accepted)
      BY <3>1, <3>2, BytesFirst
    <3>4. /\ wbuf \in Seq(Nat) /\ Len(wbuf) = a - s /\ DOMAIN wbuf = 1..(a - s)
          /\ \A i \in 1..(a - s) : wbuf[i] = s + i
      BY <3>2, BytesShape
    <3>5. ASSUME ~recovered, NEW i \in DOMAIN wbuf, wbuf[i] \in newlines
          PROVE  needFlush /\ Last(wbuf) \in newlines
      <4>1. /\ s < wbuf[i] /\ wbuf[i] <= a /\ a - s \in 1..(a - s) /\ s + (a - s) = a
        BY <3>2, <3>4, <3>5
      <4>2. needFlush /\ a \in newlines
        BY <3>2, <3>5, <4>1 DEF NoLine
      <4>3. Last(wbuf) = wbuf[Len(wbuf)]
        BY DEF Last
      <4>4. QED
        BY <3>4, <4>1, <4>2, <4>3
    <3>6. QED
      BY <3>3, <3>5
  <2>3. QED
    BY <2>1, <2>2 DEF WriterSound
<1>3. QED
  BY InitWriterInv, <1>1, <1>2, PTL DEF SpecWriter

-----------------------------------------------------------------------------
(* at_exit and the lazy statics                                            *)

Handlers == Lazies \cup Closures

ExitTypeOK ==
  /\ exitQueue \in [open : BOOLEAN, handlers : Seq(Handlers)]
  /\ round \in 0..Iters /\ running \in Seq(Handlers) /\ freeing \in Lazies \cup {NoUser}
  /\ lazyPtr \in [Lazies -> {"null", "box", "dead"}]
  /\ lazyLock \in [Lazies -> Users \cup {NoUser}] /\ boxed \in [Lazies -> BOOLEAN]
  /\ user \in [Users -> [at : {"outside", "register", "build"},
                         lazy : Lazies \cup {NoUser}, registered : BOOLEAN]]
  /\ taken \subseteq Handlers /\ ran \in [Handlers -> {0, 1}]

\* QUEUE is given up when the last round begins, and never filled again.
RoundInv == (exitQueue.open <=> round < Iters) /\ (~exitQueue.open => exitQueue.handlers = <<>>)

InQueue(h) == \E i \in DOMAIN exitQueue.handlers : exitQueue.handlers[i] = h
InRound(h) == \E i \in DOMAIN running : running[i] = h

\* An accepted handler is in the queue, or in the round, or has run; once only.
HandlersInv ==
  /\ \A h \in Handlers : InQueue(h) \/ InRound(h) => h \in taken /\ ran[h] = 0
  /\ \A h \in Handlers : ~(InQueue(h) /\ InRound(h))
  /\ \A h \in taken : ran[h] = 1 \/ InQueue(h) \/ InRound(h)
  /\ \A h \in Handlers : ran[h] = 1 => h \in taken
  /\ \A i, j \in DOMAIN exitQueue.handlers :
       i # j => exitQueue.handlers[i] # exitQueue.handlers[j]
  /\ \A i, j \in DOMAIN running : i # j => running[i] # running[j]

\* Lazy::lock belongs to the thread that builds the value.
LockInv ==
  /\ \A u \in Users : IF user[u].at = "outside" THEN user[u] = Outside
                      ELSE user[u].lazy \in Lazies /\ lazyLock[user[u].lazy] = u
  /\ \A l \in Lazies : lazyLock[l] # NoUser =>
       /\ user[lazyLock[l]].at # "outside" /\ user[lazyLock[l]].lazy = l
       /\ lazyPtr[l] = "null"

\* The handler of a static is accepted before its box is there, but with the lock
\* held; then the box is there until the handler takes it.
Registered(l) ==
  /\ lazyLock[l] # NoUser
  /\ user[lazyLock[l]].at = "build" /\ user[lazyLock[l]].registered
BoxInv ==
  \A l \in Lazies :
    /\ l \in taken <=> lazyPtr[l] # "null" \/ Registered(l)
    /\ lazyPtr[l] = "dead" <=> ran[l] = 1
    /\ boxed[l] <=> lazyPtr[l] = "box" \/ freeing = l
    /\ freeing = l => lazyPtr[l] = "dead"

ExitInv == ExitTypeOK /\ RoundInv /\ HandlersInv /\ LockInv /\ BoxInv

\* at_exit_imp::init and the statics in their initial state satisfy ExitInv.
LEMMA InitExitInv == InitExit => ExitInv
<1> SUFFICES ASSUME InitExit PROVE ExitInv
  OBVIOUS
<1>1. exitQueue \in [open : BOOLEAN, handlers : Seq(Handlers)] /\ running \in Seq(Handlers)
  BY DEF InitExit
<1>2. user \in [Users -> [at : {"outside", "register", "build"},
                         lazy : Lazies \cup {NoUser}, registered : BOOLEAN]]
  BY DEF InitExit, Outside
<1>3. ExitTypeOK
  BY <1>1, <1>2, ExitAssumption DEF InitExit, ExitTypeOK, Handlers
<1>4. RoundInv /\ HandlersInv
  BY ExitAssumption DEF InitExit, RoundInv, HandlersInv, InQueue, InRound, Handlers
<1>5. LockInv /\ BoxInv
  BY ExitAssumption DEF InitExit, LockInv, BoxInv, Registered, Outside, Handlers
<1>6. QED
  BY <1>3, <1>4, <1>5 DEF ExitInv

\* push accepts a handler exactly once, unless the last round has begun.
LEMMA Pushes ==
  ASSUME ExitTypeOK, RoundInv, HandlersInv, NEW h \in Handlers, h \notin taken, Push(h),
         UNCHANGED <<round, running, ran>>
  PROVE  /\ exitQueue' \in [open : BOOLEAN, handlers : Seq(Handlers)]
         /\ taken' = (IF exitQueue.open THEN taken \cup {h} ELSE taken)
         /\ RoundInv' /\ HandlersInv'
<1>1. /\ exitQueue \in [open : BOOLEAN, handlers : Seq(Handlers)]
      /\ taken \subseteq Handlers /\ ran \in [Handlers -> {0, 1}]
  BY DEF ExitTypeOK
<1>2. CASE ~exitQueue.open
  <2>1. exitQueue' = exitQueue /\ taken' = taken
    BY <1>1, <1>2 DEF Push
  <2>2. QED
    BY <1>1, <1>2, <2>1 DEF RoundInv, HandlersInv, InQueue, InRound
<1>3. CASE exitQueue.open
  <2> DEFINE q == exitQueue.handlers
  <2>1. /\ exitQueue' = [open |-> TRUE, handlers |-> Append(q, h)]
        /\ taken' = taken \cup {h}
    BY <1>1, <1>3 DEF Push
  <2>2. /\ q \in Seq(Handlers) /\ exitQueue'.handlers = Append(q, h) /\ exitQueue'.open
        /\ Append(q, h) \in Seq(Handlers)
        /\ Len(q) \in Nat /\ DOMAIN q = 1..Len(q) /\ DOMAIN Append(q, h) = 1..(Len(q) + 1)
        /\ \A i \in 1..Len(q) : Append(q, h)[i] = q[i]
        /\ Append(q, h)[Len(q) + 1] = h
    BY <1>1, <2>1
  <2>3. \A x : InQueue(x)' <=> InQueue(x) \/ x = h
    BY <2>2 DEF InQueue
  <2>4. \A x : InRound(x)' <=> InRound(x)
    BY DEF InRound
  <2>5. ~InQueue(h) /\ ~InRound(h) /\ ran[h] = 0
    BY <1>1 DEF HandlersInv
  <2>6. ASSUME NEW i \in DOMAIN Append(q, h), NEW j \in DOMAIN Append(q, h), i # j
        PROVE  Append(q, h)[i] # Append(q, h)[j]
    <3>1. \A k \in 1..Len(q) : q[k] # h
      BY <2>2, <2>5 DEF InQueue
    <3>2. \A k, m \in 1..Len(q) : k # m => q[k] # q[m]
      BY <2>2 DEF HandlersInv
    <3>3. (i \in 1..Len(q) \/ i = Len(q) + 1) /\ (j \in 1..Len(q) \/ j = Len(q) + 1)
      BY <2>2, <2>6
    <3>4. QED
      BY <2>2, <2>6, <3>1, <3>2, <3>3
  <2>7. HandlersInv'
    BY <1>1, <2>1, <2>2, <2>3, <2>4, <2>5, <2>6 DEF HandlersInv
  <2>8. QED
    BY <1>3, <2>1, <2>2, <2>7 DEF RoundInv
<1>4. QED
  BY <1>2, <1>3

\* Every step of at_exit, Lazy::get and cleanup preserves ExitInv.
LEMMA ExitPreserves ==
  ASSUME ExitInv, [NextExit]_exitVars PROVE ExitInv'
<1> ExitTypeOK /\ RoundInv /\ HandlersInv /\ LockInv /\ BoxInv
  BY DEF ExitInv
<1>queue. exitQueue \in [open : BOOLEAN, handlers : Seq(Handlers)]
  BY DEF ExitTypeOK
<1>round. round \in 0..Iters /\ Iters \in Nat \ {0}
  BY ExitAssumption DEF ExitTypeOK
<1>running. running \in Seq(Handlers)
  BY DEF ExitTypeOK
<1>ptr. lazyPtr \in [Lazies -> {"null", "box", "dead"}]
  BY DEF ExitTypeOK
<1>lock. lazyLock \in [Lazies -> Users \cup {NoUser}]
  BY DEF ExitTypeOK
<1>boxed. boxed \in [Lazies -> BOOLEAN]
  BY DEF ExitTypeOK
<1>user. user \in [Users -> [at : {"outside", "register", "build"},
                             lazy : Lazies \cup {NoUser}, registered : BOOLEAN]]
  BY DEF ExitTypeOK
<1>taken. taken \subseteq Handlers /\ Lazies \subseteq Handlers /\ Closures \subseteq Handlers
  BY DEF ExitTypeOK, Handlers
<1>ran. ran \in [Handlers -> {0, 1}]
  BY DEF ExitTypeOK
<1>freeing. freeing \in Lazies \cup {NoUser} /\ NoUser \notin Lazies
  BY ExitAssumption DEF ExitTypeOK
<1>nouser. NoUser \notin Users /\ Lazies \cap Closures = {}
  BY ExitAssumption
<1>1. ASSUME NEW u \in Users, NEW c \in Closures, AtExit(u, c) PROVE ExitInv'
  <2>1. /\ c \in Handlers /\ c \notin taken /\ c \notin Lazies /\ Push(c)
        /\ UNCHANGED <<round, running, freeing, lazyPtr, lazyLock, boxed, user, ran>>
    BY <1>1, <1>taken, <1>nouser DEF AtExit
  <2>2. /\ exitQueue' \in [open : BOOLEAN, handlers : Seq(Handlers)]
        /\ taken' \in {taken, taken \cup {c}} /\ RoundInv' /\ HandlersInv'
    BY <2>1, Pushes
  <2>3. ExitTypeOK'
    BY <2>1, <2>2 DEF ExitTypeOK
  <2>4. LockInv' /\ BoxInv'
    BY <2>1, <2>2 DEF LockInv, BoxInv, Registered
  <2>5. QED
    BY <2>2, <2>3, <2>4 DEF ExitInv
<1>2. ASSUME NEW u \in Users, NEW l \in Lazies, Get(u, l) PROVE ExitInv'
  <2>1. /\ user[u] = Outside /\ user[u].at = "outside" /\ lazyLock[l] = NoUser
        /\ lazyPtr[l] = "null" /\ lazyLock' = [lazyLock EXCEPT ![l] = u]
        /\ user' = [user EXCEPT ![u] = [at |-> "register", lazy |-> l, registered |-> FALSE]]
        /\ UNCHANGED <<exitQueue, round, running, freeing, lazyPtr, boxed, taken, ran>>
    BY <1>2 DEF Get, Outside
  <2>2. ExitTypeOK'
    BY <2>1, <1>lock, <1>user DEF ExitTypeOK
  <2>3. RoundInv' /\ HandlersInv'
    BY <2>1 DEF RoundInv, HandlersInv, InQueue, InRound
  <2>4. LockInv'
    BY <2>1, <1>lock, <1>user, <1>nouser DEF LockInv
  <2>5. BoxInv'
    BY <2>1, <1>lock, <1>user, <1>nouser DEF BoxInv, LockInv, Registered
  <2>6. QED
    BY <2>2, <2>3, <2>4, <2>5 DEF ExitInv
<1>3. ASSUME NEW u \in Users, Register(u) PROVE ExitInv'
  <2>a. user[u].at = "register" /\ u # NoUser
    BY <1>3, <1>nouser DEF Register
  <2>b. PICK l \in Lazies : l = user[u].lazy
    BY <2>a DEF LockInv
  <2>1. /\ lazyLock[l] = u /\ lazyPtr[l] = "null" /\ l \notin taken /\ Push(l)
        /\ UNCHANGED <<round, running, freeing, lazyPtr, lazyLock, boxed, ran>>
    <3>1. lazyLock[l] = u /\ lazyPtr[l] = "null"
      BY <2>a, <2>b DEF LockInv
    <3>2. l \notin taken
      BY <2>a, <2>b, <3>1 DEF BoxInv, Registered
    <3>3. QED
      BY <1>3, <2>b, <3>1, <3>2 DEF Register
  <2>c. /\ user'[u].at = "build" /\ user'[u].lazy = l
        /\ user'[u].registered = exitQueue.open /\ \A v \in Users : v # u => user'[v] = user[v]
        /\ user' \in [Users -> [at : {"outside", "register", "build"},
                                lazy : Lazies \cup {NoUser}, registered : BOOLEAN]]
    <3>1. PICK r \in [at : {"outside", "register", "build"}, lazy : Lazies \cup {NoUser},
                      registered : BOOLEAN] :
            r = [user[u] EXCEPT !.at = "build", !.registered = exitQueue.open]
      BY <1>user, <1>queue
    <3>2. r.at = "build" /\ r.lazy = l /\ r.registered = exitQueue.open
      BY <1>user, <2>b, <3>1
    <3>3. user' = [user EXCEPT ![u] = r]
      BY <1>3, <1>user, <3>1 DEF Register
    <3>4. QED
      BY <1>user, <3>2, <3>3
  <2>2. /\ exitQueue' \in [open : BOOLEAN, handlers : Seq(Handlers)]
        /\ taken' = (IF exitQueue.open THEN taken \cup {l} ELSE taken)
        /\ RoundInv' /\ HandlersInv'
    BY <2>1, <1>taken, Pushes
  <2>3. ExitTypeOK'
    BY <2>1, <2>2, <2>c, <1>taken DEF ExitTypeOK
  <2>4. LockInv'
    BY <2>1, <2>a, <2>b, <2>c, <1>lock DEF LockInv
  <2>5. BoxInv'
    <3>1. \A x \in Lazies : x # l => lazyLock[x] # u
      BY <2>a, <2>b DEF LockInv
    <3>2. \A x \in Lazies : x # l => (Registered(x)' <=> Registered(x))
      BY <2>1, <2>c, <3>1, <1>lock DEF Registered
    <3>3. Registered(l)' <=> exitQueue.open
      BY <2>1, <2>a, <2>c DEF Registered
    <3>4. QED
      BY <2>1, <2>2, <3>2, <3>3 DEF BoxInv
  <2>6. QED
    BY <2>2, <2>3, <2>4, <2>5 DEF ExitInv
<1>4. ASSUME NEW u \in Users, Build(u) PROVE ExitInv'
  <2>a. user[u].at = "build" /\ u # NoUser
    BY <1>4, <1>nouser DEF Build
  <2>b. PICK l \in Lazies : l = user[u].lazy
    BY <2>a DEF LockInv
  <2>c. PICK k \in BOOLEAN : k = user[u].registered
    BY <1>user
  <2>1. lazyLock[l] = u /\ lazyPtr[l] = "null" /\ (Registered(l) <=> k)
    BY <2>a, <2>b, <2>c DEF LockInv, Registered
  <2>2. /\ lazyPtr' = [lazyPtr EXCEPT ![l] = IF k THEN "box" ELSE "null"]
        /\ boxed' = [boxed EXCEPT ![l] = k]
        /\ lazyLock' = [lazyLock EXCEPT ![l] = NoUser]
        /\ user' = [user EXCEPT ![u] = Outside]
        /\ UNCHANGED <<exitQueue, round, running, freeing, taken, ran>>
    <3>1. boxed[l] = FALSE
      BY <2>1, <1>boxed DEF BoxInv
    <3>2. QED
      BY <1>4, <2>b, <2>c, <2>1, <3>1 DEF Build, Keeps
  <2>3. ExitTypeOK'
    BY <2>1, <2>2, <1>ptr, <1>boxed, <1>lock, <1>user DEF ExitTypeOK, Outside
  <2>4. RoundInv' /\ HandlersInv'
    BY <2>2 DEF RoundInv, HandlersInv, InQueue, InRound
  <2>5. LockInv'
    <3>1. Outside.at = "outside"
      BY DEF Outside
    <3>2. \A v \in Users : v # u /\ user[v].at # "outside" => user[v].lazy # l
      BY <2>1, <2>b DEF LockInv
    <3>3. \A x \in Lazies : x # l => lazyLock[x] # u
      BY <2>a, <2>b DEF LockInv
    <3>4. QED
      BY <2>1, <2>2, <3>1, <3>2, <3>3, <1>lock, <1>user, <1>ptr DEF LockInv
  <2>6. BoxInv'
    <3>1. \A x \in Lazies : x # l => lazyLock[x] # u
      BY <2>a, <2>b DEF LockInv
    <3>2. \A x \in Lazies : x # l => Registered(x)' = Registered(x)
      BY <2>2, <3>1, <1>lock, <1>user DEF Registered
    <3>3. ~Registered(l)'
      BY <2>1, <2>2, <1>lock DEF Registered
    <3>4. QED
      BY <2>1, <2>2, <3>2, <3>3, <1>freeing, <1>ptr, <1>boxed, <1>ran, <1>taken DEF BoxInv
  <2>7. QED
    BY <2>3, <2>4, <2>5, <2>6 DEF ExitInv
<1>5. ASSUME Cleanup PROVE ExitInv'
  <2>1. /\ running = <<>> /\ round < Iters /\ round' = round + 1
        /\ running' = exitQueue.handlers
        /\ exitQueue' = [open |-> round # Iters - 1, handlers |-> <<>>]
        /\ UNCHANGED <<freeing, lazyPtr, lazyLock, boxed, user, taken, ran>>
    BY <1>5 DEF Cleanup
  <2>2. /\ exitQueue' \in [open : BOOLEAN, handlers : Seq(Handlers)]
        /\ exitQueue'.handlers = <<>> /\ (exitQueue'.open <=> round # Iters - 1)
    <3>1. CASE round = Iters - 1
      <4>1. exitQueue' = [open |-> FALSE, handlers |-> <<>>]
        BY <2>1, <3>1
      <4>2. QED
        BY <4>1, <3>1
    <3>2. CASE round # Iters - 1
      <4>1. exitQueue' = [open |-> TRUE, handlers |-> <<>>]
        BY <2>1, <3>2
      <4>2. QED
        BY <4>1, <3>2
    <3>3. QED
      BY <3>1, <3>2
  <2>3. ExitTypeOK'
    BY <2>1, <2>2, <1>round, <1>queue DEF ExitTypeOK
  <2>4. RoundInv'
    <3>1. round # Iters - 1 <=> round' < Iters
      BY <2>1, <1>round
    <3>2. QED
      BY <2>2, <3>1 DEF RoundInv
  <2>5. \A h : ~InRound(h) /\ ~InQueue(h)' /\ (InRound(h)' <=> InQueue(h))
    BY <2>1, <2>2 DEF InRound, InQueue
  <2>6. HandlersInv'
    BY <2>1, <2>2, <2>5 DEF HandlersInv
  <2>7. LockInv' /\ BoxInv'
    BY <2>1 DEF LockInv, BoxInv, Registered
  <2>8. QED
    BY <2>3, <2>4, <2>6, <2>7 DEF ExitInv
<1>6. ASSUME Run PROVE ExitInv'
  <2>a. running # <<>> /\ 1 \in DOMAIN running
    BY <1>6, <1>running DEF Run
  <2>b. PICK h \in Handlers : h = running[1]
    BY <2>a, <1>running
  <2>1. /\ Head(running) = h /\ Tail(running) \in Seq(Handlers)
        /\ \A i \in DOMAIN Tail(running) :
             i + 1 \in DOMAIN running /\ i + 1 # 1 /\ Tail(running)[i] = running[i + 1]
        /\ \A i \in DOMAIN running : i # 1 => i - 1 \in DOMAIN Tail(running) /\ (i - 1) + 1 = i
        /\ \A i \in DOMAIN Tail(running) : i \in Nat
    BY <2>a, <2>b, <1>running
  <2>2. InRound(h) /\ h \in taken /\ ran[h] = 0
    BY <2>a, <2>b DEF HandlersInv, InRound
  <2>3. /\ freeing = NoUser /\ running' = Tail(running) /\ ran' = [ran EXCEPT ![h] = 1]
        /\ UNCHANGED <<exitQueue, round, lazyLock, boxed, user, taken>>
        /\ \/ h \in Closures /\ UNCHANGED <<freeing, lazyPtr>>
           \/ /\ h \in Lazies /\ lazyLock[h] = NoUser
              /\ freeing' = h /\ lazyPtr' = [lazyPtr EXCEPT ![h] = "dead"]
    <3>1. ran' = [ran EXCEPT ![h] = ran[h] + 1]
      BY <1>6, <2>1 DEF Run
    <3>2. ran[h] + 1 = 1
      BY <2>2
    <3>3. ran' = [ran EXCEPT ![h] = 1]
      BY <3>1, <3>2
    <3>4. QED
      BY <1>6, <2>1, <3>3 DEF Run, Idle
  <2>4. ExitTypeOK'
    BY <2>1, <2>3, <1>ran, <1>ptr, <1>freeing DEF ExitTypeOK
  <2>5. RoundInv'
    BY <2>3 DEF RoundInv
  <2>6. \A x : InRound(x)' <=> InRound(x) /\ x # h
    <3>1. ASSUME NEW x, InRound(x)' PROVE InRound(x) /\ x # h
      BY <2>a, <2>b, <2>1, <2>3, <3>1 DEF InRound, HandlersInv
    <3>2. ASSUME NEW x, InRound(x), x # h PROVE InRound(x)'
      <4>1. PICK i \in DOMAIN running : running[i] = x /\ i # 1
        BY <2>b, <3>2 DEF InRound
      <4>2. i - 1 \in DOMAIN running' /\ running'[i - 1] = x
        BY <4>1, <2>1, <2>3
      <4>3. QED
        BY <4>2 DEF InRound
    <3>3. QED
      BY <3>1, <3>2
  <2>7. \A x : InQueue(x)' <=> InQueue(x)
    BY <2>3 DEF InQueue
  <2>8. HandlersInv'
    <3>1. \A i, j \in DOMAIN running' : i # j => running'[i] # running'[j]
      BY <2>1, <2>3 DEF HandlersInv
    <3>2. \A x \in Handlers : ran'[x] = IF x = h THEN 1 ELSE ran[x]
      BY <2>3, <1>ran
    <3>3. QED
      BY <2>1, <2>2, <2>3, <2>6, <2>7, <3>1, <3>2, <1>taken DEF HandlersInv
  <2>9. LockInv'
    BY <2>3, <1>ptr DEF LockInv
  <2>10. BoxInv'
    <3>1. \A l \in Lazies : Registered(l)' = Registered(l)
      BY <2>3 DEF Registered
    <3>2. CASE h \in Closures
      <4>1. h \notin Lazies /\ UNCHANGED <<freeing, lazyPtr>>
        BY <3>2, <2>3, <1>nouser
      <4>2. QED
        BY <2>3, <3>1, <4>1, <1>ran, <1>taken DEF BoxInv
    <3>3. CASE h \in Lazies
      <4>1. /\ lazyLock[h] = NoUser /\ freeing' = h /\ lazyPtr' = [lazyPtr EXCEPT ![h] = "dead"]
        BY <3>3, <2>3, <1>nouser
      <4>2. lazyPtr[h] = "box"
        BY <3>3, <4>1, <2>2, <1>ptr DEF BoxInv, Registered
      <4>3. QED
        BY <2>2, <2>3, <3>1, <3>3, <4>1, <4>2, <1>ran, <1>ptr, <1>taken, <1>freeing DEF BoxInv
    <3>4. QED
      BY <3>2, <3>3 DEF Handlers
  <2>11. QED
    BY <2>4, <2>5, <2>8, <2>9, <2>10 DEF ExitInv
<1>7. ASSUME Free PROVE ExitInv'
  <2>1. /\ freeing \in Lazies /\ freeing' = NoUser
        /\ boxed' = [boxed EXCEPT ![freeing] = FALSE]
        /\ UNCHANGED <<exitQueue, round, running, lazyPtr, lazyLock, user, taken, ran>>
    BY <1>7, <1>freeing DEF Free
  <2>2. ExitTypeOK'
    BY <2>1, <1>boxed DEF ExitTypeOK
  <2>3. RoundInv' /\ HandlersInv' /\ LockInv'
    BY <2>1 DEF RoundInv, HandlersInv, InQueue, InRound, LockInv
  <2>4. BoxInv'
    BY <2>1, <1>boxed, <1>freeing DEF BoxInv, Registered
  <2>5. QED
    BY <2>2, <2>3, <2>4 DEF ExitInv
<1>8. ASSUME UNCHANGED exitVars PROVE ExitInv'
  BY <1>8 DEF exitVars, ExitInv, ExitTypeOK, RoundInv, HandlersInv, InQueue, InRound, LockInv,
     BoxInv, Registered
<1>9. QED
  BY <1>1, <1>2, <1>3, <1>4, <1>5, <1>6, <1>7, <1>8 DEF NextExit

\* at_exit's answer is kept and no static's box is freed early, twice or never.
THEOREM HandlersExact == SpecExit => []ExitExact
<1>1. ExitInv => ExitExact
  <2> SUFFICES ASSUME ExitInv PROVE ExitExact
    OBVIOUS
  <2>1. ExitTypeOK /\ RoundInv /\ HandlersInv /\ BoxInv
    BY DEF ExitInv
  <2>2. /\ DOMAIN ran = Handlers /\ taken \subseteq Handlers
        /\ \A h \in Handlers : ran[h] \in {0, 1}
    BY <2>1 DEF ExitTypeOK
  <2>3. \A h \in DOMAIN ran : ran[h] <= (IF h \in taken THEN 1 ELSE 0)
    BY <2>1, <2>2 DEF HandlersInv
  <2>4. round = Iters /\ running = <<>> => \A h \in taken : ran[h] = 1
    <3>1. round = Iters => exitQueue.handlers = <<>>
      BY <2>1, ExitAssumption DEF RoundInv
    <3>2. QED
      BY <2>1, <3>1 DEF HandlersInv, InQueue, InRound
  <2>5. ASSUME NEW l \in Lazies, running # <<>>, Head(running) = l, lazyLock[l] = NoUser
        PROVE  lazyPtr[l] = "box"
    <3>1. running \in Seq(Handlers)
      BY <2>1 DEF ExitTypeOK
    <3>2. InRound(l)
      BY <2>5, <3>1 DEF InRound
    <3>3. l \in taken /\ ran[l] = 0
      BY <2>1, <3>2 DEF HandlersInv, Handlers
    <3>4. QED
      BY <2>1, <2>5, <3>3 DEF BoxInv, Registered, ExitTypeOK
  <2>6. \A l \in Lazies : lazyPtr[l] = "box" => boxed[l]
    BY <2>1 DEF BoxInv
  <2>7. ASSUME NEW l \in Lazies, round = Iters, running = <<>>, freeing = NoUser
        PROVE  ~boxed[l]
    <3>1. freeing # l
      BY <2>7, ExitAssumption
    <3>2. l \in taken => lazyPtr[l] = "dead"
      BY <2>1, <2>4, <2>7 DEF BoxInv
    <3>3. QED
      BY <2>1, <3>1, <3>2 DEF BoxInv
  <2>8. QED
    BY <2>3, <2>4, <2>5, <2>6, <2>7 DEF ExitExact
<1>2. QED
  BY InitExitInv, ExitPreserves, <1>1, PTL DEF SpecExit

-----------------------------------------------------------------------------
(* Thread-local values                                                     *)

SlotType == [value : {"none", "some", "dropping"}, registered : BOOLEAN, running : BOOLEAN]
UseType == [at : {"idle", "create", "cas"}, key : LocalKeys \cup {Dtors}, num : Nat]
EndType == [at : {"body", "scan", "list", "drop", "over"}, round : 1..Rounds, num : Nat,
            todo : Seq(FastKeys), key : LocalKeys \cup {Dtors}]

LocalsTypeOK ==
  /\ static \in [StaticKeys -> Nat] /\ owner \in [Numbers -> StaticKeys \cup {Unowned}]
  /\ spec \in [Locals -> [Numbers -> {"null", "one", "box"}]]
  /\ list \in [Locals -> Seq(FastKeys)] /\ slot \in [Locals -> [LocalKeys -> SlotType]]
  /\ use \in [Locals -> UseType] /\ exit \in [Locals -> EndType] /\ uses \in Nat
  /\ made \in [Locals -> [LocalKeys -> Nat]] /\ dropped \in [Locals -> [LocalKeys -> Nat]]

\* A created OS key belongs to its static; a second one that lost the race belongs to
\* the thread that is about to give it back, and nothing is stored under it.
KeyInv ==
  /\ \A s \in StaticKeys : static[s] # 0 => static[s] \in Numbers /\ owner[static[s]] = s
  /\ \A t, u \in Locals :
       use[t].at = "cas" /\ use[u].at = "cas" /\ t # u => use[t].num # use[u].num
UseInv(t) ==
  /\ use[t].at = "idle" => use[t] = NoUse
  /\ use[t].at # "idle" =>
       /\ use[t].key \in LocalKeys
       /\ ~slot[t][use[t].key].registered /\ ~slot[t][use[t].key].running
  /\ use[t].at = "cas" =>
       /\ use[t].num \in Numbers /\ owner[use[t].num] = StaticOf(use[t].key)
       /\ static[StaticOf(use[t].key)] # use[t].num
  /\ exit[t].at \notin {"body", "drop"} => use[t] = NoUse
  /\ \A n \in Numbers : spec[t][n] # "null" => owner[n] # Unowned /\ static[owner[n]] = n

Under(t, s) == IF static[s] = 0 THEN "null" ELSE spec[t][static[s]]

\* The value of an OS key is under it, and `1' is there while it is dropped.
OsInv(t) ==
  /\ \A k \in OsKeys :
       /\ slot[t][k].value = "some" => Under(t, k) = "box"
       /\ slot[t][k].value = "dropping" => exit[t].at = "drop" /\ exit[t].key = k
       /\ Under(t, k) = "one" <=> exit[t].at = "drop" /\ exit[t].key = k
       /\ ~slot[t][k].registered /\ ~slot[t][k].running
  /\ Under(t, Dtors) # "one"

\* The destructor of a fast key is on the list, with the list under its OS key, or in
\* what run_dtors has taken, until it runs; then there is no value again.
InSeq(k, q) == \E i \in DOMAIN q : q[i] = k
FastInv(t) ==
  /\ \A k \in FastKeys :
       /\ slot[t][k].registered /\ ~slot[t][k].running =>
            InSeq(k, list[t]) \/ InSeq(k, exit[t].todo)
       /\ slot[t][k].value = "some" => slot[t][k].registered /\ ~slot[t][k].running
       /\ slot[t][k].value = "dropping" => exit[t].at = "drop" /\ exit[t].key = k
       /\ exit[t].at = "drop" /\ exit[t].key = k => slot[t][k].running
  /\ list[t] # <<>> => Under(t, Dtors) = "box"
  /\ exit[t].todo # <<>> =>
       exit[t].at = "list" \/ (exit[t].at = "drop" /\ exit[t].key \in FastKeys)
  /\ exit[t].at = "list" \/ (exit[t].at = "drop" /\ exit[t].key \in FastKeys) =>
       static[Dtors] # 0
  /\ exit[t].at = "drop" => exit[t].key \in LocalKeys

\* A value is counted when it is made and when it is dropped; pthread gives up only
\* after its last round.
EndInv(t) ==
  /\ \A k \in LocalKeys :
       made[t][k] - dropped[t][k] = (IF slot[t][k].value = "none" THEN 0 ELSE 1)
  /\ exit[t].at = "over" => \A n \in Numbers : spec[t][n] # "null" => exit[t].round = Rounds

LocalsInv ==
  /\ LocalsTypeOK /\ KeyInv
  /\ \A t \in Locals : UseInv(t) /\ OsInv(t) /\ FastInv(t) /\ EndInv(t)

-----------------------------------------------------------------------------
\* No thread has begun, no key is created.
LEMMA InitLocalsInv == InitLocals => LocalsInv
<1> SUFFICES ASSUME InitLocals PROVE LocalsInv
  OBVIOUS
<1>1. LocalsTypeOK
  BY LocalsAssumption DEF InitLocals, LocalsTypeOK, SlotType, UseType, EndType, NoUse, Body,
     LocalKeys, StaticKeys
<1>2. ASSUME NEW t \in Locals
      PROVE  /\ use[t] = NoUse /\ exit[t] = Body /\ list[t] = <<>>
             /\ \A n \in Numbers : spec[t][n] = "null"
             /\ \A s \in StaticKeys : Under(t, s) = "null"
             /\ \A k \in LocalKeys :
                  /\ made[t][k] = 0 /\ dropped[t][k] = 0 /\ slot[t][k].value = "none"
                  /\ ~slot[t][k].registered /\ ~slot[t][k].running
  BY DEF InitLocals, Under
<1>3. KeyInv
  BY <1>2 DEF InitLocals, KeyInv, NoUse
<1>4. ASSUME NEW t \in Locals PROVE UseInv(t) /\ OsInv(t) /\ FastInv(t) /\ EndInv(t)
  <2>1. UseInv(t)
    BY <1>2 DEF UseInv, NoUse, Body
  <2>2. OsInv(t)
    BY <1>2 DEF OsInv, Body, LocalKeys, StaticKeys
  <2>3. FastInv(t)
    BY <1>2 DEF FastInv, Body, LocalKeys
  <2>4. EndInv(t)
    BY <1>2 DEF EndInv, Body
  <2>5. QED
    BY <2>1, <2>2, <2>3, <2>4
<1>5. QED
  BY <1>1, <1>3, <1>4 DEF LocalsInv

\* What the invariant says of one thread's state, with the types.
LEMMA LocalsFacts ==
  ASSUME LocalsInv, NEW t \in Locals
  PROVE  /\ spec[t] \in [Numbers -> {"null", "one", "box"}] /\ list[t] \in Seq(FastKeys)
         /\ slot[t] \in [LocalKeys -> SlotType] /\ use[t] \in UseType /\ exit[t] \in EndType
         /\ made[t] \in [LocalKeys -> Nat] /\ dropped[t] \in [LocalKeys -> Nat]
         /\ UseInv(t) /\ OsInv(t) /\ FastInv(t) /\ EndInv(t)
         /\ \A s \in StaticKeys : Under(t, s) \in {"null", "one", "box"}
<1>1. LocalsTypeOK /\ KeyInv /\ UseInv(t) /\ OsInv(t) /\ FastInv(t) /\ EndInv(t)
  BY DEF LocalsInv
<1>2. /\ spec[t] \in [Numbers -> {"null", "one", "box"}] /\ list[t] \in Seq(FastKeys)
      /\ slot[t] \in [LocalKeys -> SlotType] /\ use[t] \in UseType /\ exit[t] \in EndType
      /\ made[t] \in [LocalKeys -> Nat] /\ dropped[t] \in [LocalKeys -> Nat]
  BY <1>1 DEF LocalsTypeOK
<1>3. \A s \in StaticKeys : Under(t, s) \in {"null", "one", "box"}
  BY <1>1, <1>2 DEF Under, KeyInv
<1>4. QED
  BY <1>1, <1>2, <1>3

\* A thread that does nothing keeps its part of the invariant.
LEMMA OtherThread ==
  ASSUME LocalsInv, NEW u \in Locals,
         UNCHANGED <<spec[u], list[u], slot[u], exit[u], made[u], dropped[u]>>,
         \A s \in StaticKeys : Under(u, s)' = Under(u, s) /\ (static[s] # 0 => static'[s] # 0)
  PROVE  OsInv(u)' /\ FastInv(u)' /\ EndInv(u)'
<1>1. OsInv(u) /\ FastInv(u) /\ EndInv(u)
  BY LocalsFacts
<1>2. Dtors \in StaticKeys /\ OsKeys \subseteq StaticKeys
  BY DEF StaticKeys
<1>3. OsInv(u)'
  BY <1>1, <1>2 DEF OsInv
<1>4. FastInv(u)'
  BY <1>1, <1>2 DEF FastInv
<1>5. EndInv(u)'
  BY <1>1 DEF EndInv
<1>6. QED
  BY <1>3, <1>4, <1>5

\* What a list holds when an entry is added to it, and when one is taken from it.
LEMMA InList ==
  ASSUME NEW S, NEW q \in Seq(S)
  PROVE  /\ \A k \in S : /\ Append(q, k) \in Seq(S) /\ Append(q, k) # <<>>
                         /\ InSeq(k, Append(q, k))
                         /\ \A j \in S : InSeq(j, q) => InSeq(j, Append(q, k))
         /\ q # <<>> => /\ Head(q) \in S /\ Tail(q) \in Seq(S)
                        /\ \A j \in S : InSeq(j, q) => j = Head(q) \/ InSeq(j, Tail(q))
         /\ (\E j \in S : InSeq(j, q)) => q # <<>>
<1>1. ASSUME NEW k \in S
      PROVE  /\ Append(q, k) \in Seq(S) /\ Append(q, k) # <<>> /\ InSeq(k, Append(q, k))
             /\ \A j \in S : InSeq(j, q) => InSeq(j, Append(q, k))
  <2>1. /\ Append(q, k) \in Seq(S) /\ Append(q, k) # <<>> /\ Len(Append(q, k)) = Len(q) + 1
        /\ \A m \in 1..Len(q) : Append(q, k)[m] = q[m]
        /\ Append(q, k)[Len(q) + 1] = k /\ DOMAIN q = 1..Len(q)
        /\ DOMAIN Append(q, k) = 1..(Len(q) + 1) /\ Len(q) \in Nat
    BY AppendProperties
  <2>2. Len(q) + 1 \in 1..(Len(q) + 1) /\ \A m \in 1..Len(q) : m \in 1..(Len(q) + 1)
    BY <2>1
  <2>3. QED
    BY <2>1, <2>2 DEF InSeq
<1>2. ASSUME q # <<>>
      PROVE  /\ Head(q) \in S /\ Tail(q) \in Seq(S)
             /\ \A j \in S : InSeq(j, q) => j = Head(q) \/ InSeq(j, Tail(q))
  <2>1. /\ Head(q) \in S /\ Tail(q) \in Seq(S) /\ Len(Tail(q)) = Len(q) - 1
        /\ \A m \in 1..Len(Tail(q)) : Tail(q)[m] = q[m + 1]
        /\ Head(q) = q[1] /\ DOMAIN q = 1..Len(q) /\ DOMAIN Tail(q) = 1..Len(Tail(q))
    BY <1>2, HeadTailProperties
  <2>2. ASSUME NEW j \in S, NEW m \in 1..Len(q), q[m] = j, m # 1 PROVE InSeq(j, Tail(q))
    <3>1. m - 1 \in 1..Len(Tail(q)) /\ m - 1 + 1 = m
      BY <2>1, <2>2
    <3>2. QED
      BY <2>1, <2>2, <3>1 DEF InSeq
  <2>3. QED
    BY <2>1, <2>2 DEF InSeq
<1>3. (\E j \in S : InSeq(j, q)) => q # <<>>
  BY DEF InSeq
<1>4. QED
  BY <1>1, <1>2, <1>3

\* A value is made, or its initialisation panics, or it is there already.
LEMMA Initialises ==
  ASSUME LocalsInv, NEW t \in Locals, NEW k \in LocalKeys, Initialise(t, k),
         slot[t][k].value # "dropping"
  PROVE  /\ made' \in [Locals -> [LocalKeys -> Nat]]
         /\ \A u \in Locals \ {t} : made'[u] = made[u]
         /\ \A j \in LocalKeys \ {k} : made'[t][j] = made[t][j]
         /\ ValueAfter(t, k) \in {"none", "some"}
         /\ made'[t][k] - dropped[t][k] = (IF ValueAfter(t, k) = "none" THEN 0 ELSE 1)
<1>1. made \in [Locals -> [LocalKeys -> Nat]]
  BY DEF LocalsInv, LocalsTypeOK
<1>2. /\ slot[t][k] \in SlotType /\ made[t][k] \in Nat /\ dropped[t][k] \in Nat
      /\ made[t][k] - dropped[t][k] = (IF slot[t][k].value = "none" THEN 0 ELSE 1)
  BY LocalsFacts DEF EndInv
<1>3. slot[t][k].value \in {"none", "some"}
  BY <1>2 DEF SlotType
<1>4. CASE slot[t][k].value = "none" /\ made' = [made EXCEPT ![t][k] = @ + 1]
  <2>1. /\ made' \in [Locals -> [LocalKeys -> Nat]] /\ made'[t][k] = made[t][k] + 1
        /\ \A u \in Locals \ {t} : made'[u] = made[u]
        /\ \A j \in LocalKeys \ {k} : made'[t][j] = made[t][j]
    BY <1>1, <1>4
  <2>2. ValueAfter(t, k) = "some"
    BY <1>2, <2>1 DEF ValueAfter
  <2>3. QED
    BY <1>2, <1>4, <2>1, <2>2
<1>5. CASE UNCHANGED made
  <2>1. ValueAfter(t, k) = slot[t][k].value
    BY <1>2, <1>5 DEF ValueAfter
  <2>2. QED
    BY <1>1, <1>2, <1>3, <1>5, <2>1
<1>6. QED
  BY <1>4, <1>5 DEF Initialise

\* A change of one key's record of one thread.
LEMMA SlotStep ==
  ASSUME LocalsInv, NEW t \in Locals, NEW k \in LocalKeys, NEW r \in SlotType,
         slot' = [slot EXCEPT ![t][k] = r]
  PROVE  /\ slot' \in [Locals -> [LocalKeys -> SlotType]] /\ slot'[t][k] = r
         /\ \A j \in LocalKeys \ {k} : slot'[t][j] = slot[t][j]
         /\ \A u \in Locals \ {t} : slot'[u] = slot[u]
  BY DEF LocalsInv, LocalsTypeOK

\* What get does once the OS key has a number, whoever created it.
LEMMA Reaches ==
  ASSUME LocalsInv, NEW t \in Locals, NEW k \in LocalKeys, NEW n \in Numbers,
         Reach(t, k, n), UNCHANGED <<exit, dropped>>,
         ~slot[t][k].running, ~slot[t][k].registered, exit[t].at \in {"body", "drop"},
         n = static'[StaticOf(k)], n # 0,
         \A s, r \in StaticKeys : static'[s] # 0 /\ s # r => static'[s] # static'[r],
         \A s \in StaticKeys :
           /\ (IF static'[s] = 0 THEN "null" ELSE spec[t][static'[s]]) = Under(t, s)
           /\ static[s] # 0 => static'[s] # 0
           /\ static'[s] # 0 => static'[s] \in Numbers
  PROVE  /\ spec' \in [Locals -> [Numbers -> {"null", "one", "box"}]]
         /\ list' \in [Locals -> Seq(FastKeys)] /\ slot' \in [Locals -> [LocalKeys -> SlotType]]
         /\ made' \in [Locals -> [LocalKeys -> Nat]]
         /\ OsInv(t)' /\ FastInv(t)' /\ EndInv(t)'
         /\ \A u \in Locals \ {t} : UNCHANGED <<spec[u], list[u], slot[u], made[u]>>
         /\ \A m \in Numbers \ {n} : spec'[t][m] = spec[t][m]
<1>1. /\ spec \in [Locals -> [Numbers -> {"null", "one", "box"}]]
      /\ list \in [Locals -> Seq(FastKeys)] /\ slot \in [Locals -> [LocalKeys -> SlotType]]
      /\ made \in [Locals -> [LocalKeys -> Nat]] /\ dropped \in [Locals -> [LocalKeys -> Nat]]
      /\ exit \in [Locals -> EndType]
  BY DEF LocalsInv, LocalsTypeOK
<1>2. /\ OsInv(t) /\ FastInv(t) /\ EndInv(t)
      /\ \A s \in StaticKeys : Under(t, s) \in {"null", "one", "box"}
  BY LocalsFacts
<1>3. /\ Dtors \in StaticKeys /\ OsKeys \subseteq StaticKeys /\ StaticOf(k) \in StaticKeys
      /\ \A o \in OsKeys : o \notin FastKeys /\ o # Dtors
      /\ FastKeys \subseteq LocalKeys /\ OsKeys \subseteq LocalKeys
  BY LocalsAssumption DEF StaticKeys, StaticOf, LocalKeys
<1>4. CASE UNCHANGED <<spec, list, slot, made>>
  <2>1. \A s \in StaticKeys : Under(t, s)' = Under(t, s)
    BY <1>4 DEF Under
  <2>2. OsInv(t)' /\ FastInv(t)' /\ EndInv(t)'
    BY <1>4, <2>1, OtherThread
  <2>3. QED
    BY <1>1, <1>4, <2>2
<1> DEFINE v == ValueAfter(t, k)
<1>5. ASSUME Initialise(t, k), slot[t][k].value # "dropping"
      PROVE  /\ made' \in [Locals -> [LocalKeys -> Nat]]
             /\ \A u \in Locals \ {t} : made'[u] = made[u]
             /\ \A j \in LocalKeys \ {k} : made'[t][j] = made[t][j]
             /\ v \in {"none", "some"}
             /\ made'[t][k] - dropped[t][k] = (IF v = "none" THEN 0 ELSE 1)
  BY <1>5, Initialises
<1>6. ASSUME spec' = [spec EXCEPT ![t][n] = "box"]
      PROVE  /\ spec' \in [Locals -> [Numbers -> {"null", "one", "box"}]]
             /\ \A u \in Locals \ {t} : spec'[u] = spec[u]
             /\ \A m \in Numbers \ {n} : spec'[t][m] = spec[t][m]
             /\ Under(t, StaticOf(k))' = "box"
             /\ \A s \in StaticKeys \ {StaticOf(k)} : Under(t, s)' = Under(t, s)
  <2>1. /\ spec' \in [Locals -> [Numbers -> {"null", "one", "box"}]] /\ spec'[t][n] = "box"
        /\ \A u \in Locals \ {t} : spec'[u] = spec[u]
        /\ \A m \in Numbers \ {n} : spec'[t][m] = spec[t][m]
    BY <1>1, <1>6
  <2>2. Under(t, StaticOf(k))' = "box"
    BY <2>1 DEF Under
  <2>3. ASSUME NEW s \in StaticKeys \ {StaticOf(k)} PROVE Under(t, s)' = Under(t, s)
    <3>1. static'[s] # 0 => static'[s] \in Numbers \ {n}
      BY <1>3, <2>3
    <3>2. QED
      BY <2>1, <3>1 DEF Under
  <2>4. QED
    BY <2>1, <2>2, <2>3
<1>7. CASE /\ k \in FastKeys /\ Initialise(t, k) /\ spec' = [spec EXCEPT ![t][n] = "box"]
           /\ list' = [list EXCEPT ![t] = Append(@, k)]
           /\ slot' = [slot EXCEPT ![t][k].registered = TRUE, ![t][k].value = v]
  <2>1. slot[t][k].value # "dropping" /\ StaticOf(k) = Dtors
    BY <1>2, <1>7 DEF FastInv, StaticOf
  <2>2. /\ made' \in [Locals -> [LocalKeys -> Nat]]
        /\ \A u \in Locals \ {t} : made'[u] = made[u]
        /\ \A j \in LocalKeys \ {k} : made'[t][j] = made[t][j]
        /\ v \in {"none", "some"}
        /\ made'[t][k] - dropped[t][k] = (IF v = "none" THEN 0 ELSE 1)
    BY <1>5, <1>7, <2>1
  <2> HIDE DEF v
  <2>3. /\ slot' \in [Locals -> [LocalKeys -> SlotType]]
        /\ slot'[t][k].value = v /\ slot'[t][k].registered /\ ~slot'[t][k].running
        /\ \A j \in LocalKeys \ {k} : slot'[t][j] = slot[t][j]
        /\ \A u \in Locals \ {t} : slot'[u] = slot[u]
    <3>a. PICK q \in SlotType : q = slot[t][k]
      BY <1>1
    <3>b. v \in {"none", "some"}
      BY <2>2
    <3>c. [q EXCEPT !.registered = TRUE, !.value = v] \in SlotType
      BY <3>b DEF SlotType
    <3>1. PICK r \in SlotType : r = [slot[t][k] EXCEPT !.registered = TRUE, !.value = v]
      BY <3>a, <3>c
    <3>2. slot' = [slot EXCEPT ![t][k] = r]
      BY <1>1, <1>7, <3>1
    <3>3. /\ slot' \in [Locals -> [LocalKeys -> SlotType]] /\ slot'[t][k] = r
          /\ \A j \in LocalKeys \ {k} : slot'[t][j] = slot[t][j]
          /\ \A u \in Locals \ {t} : slot'[u] = slot[u]
      BY <1>1, <3>2
    <3>4. /\ r.value = v /\ r.running = slot[t][k].running
          /\ r.registered = TRUE
      BY <1>1, <3>1 DEF SlotType
    <3>5. QED
      BY <3>3, <3>4
  <2>4. /\ list' \in [Locals -> Seq(FastKeys)] /\ list'[t] = Append(list[t], k)
        /\ list'[t] # <<>> /\ InSeq(k, list'[t])
        /\ \A j \in FastKeys : InSeq(j, list[t]) => InSeq(j, list'[t])
        /\ \A u \in Locals \ {t} : list'[u] = list[u]
    <3>1. list[t] \in Seq(FastKeys) /\ list'[t] = Append(list[t], k)
      BY <1>1, <1>7
    <3>2. list'[t] \in Seq(FastKeys) /\ list'[t] # <<>> /\ InSeq(k, list'[t])
          /\ \A j \in FastKeys : InSeq(j, list[t]) => InSeq(j, list'[t])
      BY <1>7, <3>1, InList
    <3>3. QED
      BY <1>1, <1>7, <3>1, <3>2
  <2>5. /\ Under(t, Dtors)' = "box"
        /\ \A s \in StaticKeys \ {Dtors} : Under(t, s)' = Under(t, s)
    BY <1>6, <1>7, <2>1
  <2>6. OsInv(t)'
    BY <1>2, <1>3, <1>7, <2>3, <2>5 DEF OsInv
  <2>7. FastInv(t)'
    BY <1>2, <1>3, <1>7, <2>2, <2>3, <2>4, <2>5 DEF FastInv
  <2>8. EndInv(t)'
    BY <1>2, <2>2, <2>3 DEF EndInv
  <2>9. QED
    BY <1>6, <1>7, <2>2, <2>3, <2>4, <2>6, <2>7, <2>8
<1>8. CASE /\ k \in OsKeys /\ spec[t][n] # "one" /\ Initialise(t, k)
           /\ spec' = [spec EXCEPT ![t][n] = "box"] /\ UNCHANGED list
           /\ slot' = [slot EXCEPT ![t][k].value = v]
  <2>1. StaticOf(k) = k /\ Under(t, k) = spec[t][n]
    BY <1>3, <1>8 DEF StaticOf
  <2>2. slot[t][k].value # "dropping" /\ ~(exit[t].at = "drop" /\ exit[t].key = k)
    BY <1>2, <1>8, <2>1 DEF OsInv
  <2>3. /\ made' \in [Locals -> [LocalKeys -> Nat]]
        /\ \A u \in Locals \ {t} : made'[u] = made[u]
        /\ \A j \in LocalKeys \ {k} : made'[t][j] = made[t][j]
        /\ v \in {"none", "some"}
        /\ made'[t][k] - dropped[t][k] = (IF v = "none" THEN 0 ELSE 1)
    BY <1>5, <1>8, <2>2
  <2> HIDE DEF v
  <2>4. /\ slot' \in [Locals -> [LocalKeys -> SlotType]]
        /\ slot'[t][k].value = v /\ ~slot'[t][k].registered /\ ~slot'[t][k].running
        /\ \A j \in LocalKeys \ {k} : slot'[t][j] = slot[t][j]
        /\ \A u \in Locals \ {t} : slot'[u] = slot[u]
    <3>a. PICK q \in SlotType : q = slot[t][k]
      BY <1>1
    <3>b. v \in {"none", "some"}
      BY <2>3
    <3>c. [q EXCEPT !.value = v] \in SlotType
      BY <3>b DEF SlotType
    <3>1. PICK r \in SlotType : r = [slot[t][k] EXCEPT !.value = v]
      BY <3>a, <3>c
    <3>2. slot' = [slot EXCEPT ![t][k] = r]
      BY <1>1, <1>8, <3>1
    <3>3. /\ slot' \in [Locals -> [LocalKeys -> SlotType]] /\ slot'[t][k] = r
          /\ \A j \in LocalKeys \ {k} : slot'[t][j] = slot[t][j]
          /\ \A u \in Locals \ {t} : slot'[u] = slot[u]
      BY <1>1, <3>2
    <3>4. /\ r.value = v /\ r.running = slot[t][k].running
          /\ r.registered = slot[t][k].registered
      BY <1>1, <3>1 DEF SlotType
    <3>5. QED
      BY <3>3, <3>4
  <2>5. /\ Under(t, k)' = "box" /\ \A s \in StaticKeys \ {k} : Under(t, s)' = Under(t, s)
    BY <1>6, <1>8, <2>1
  <2>6. OsInv(t)'
    BY <1>2, <1>3, <1>8, <2>2, <2>3, <2>4, <2>5 DEF OsInv
  <2>7. FastInv(t)'
    BY <1>2, <1>3, <1>8, <2>4, <2>5 DEF FastInv
  <2>8. EndInv(t)'
    BY <1>2, <2>3, <2>4 DEF EndInv
  <2>9. QED
    BY <1>1, <1>6, <1>8, <2>3, <2>4, <2>6, <2>7, <2>8
<1>9. QED
  BY <1>4, <1>7, <1>8 DEF Reach

\* The numbers of the OS keys that were created are different.
LEMMA KeyFacts ==
  ASSUME LocalsInv
  PROVE  /\ \A s \in StaticKeys : static[s] \in Nat
         /\ \A s \in StaticKeys : static[s] # 0 => static[s] \in Numbers /\ owner[static[s]] = s
         /\ \A s, r \in StaticKeys : static[s] # 0 /\ s # r => static[s] # static[r]
         /\ \A k \in LocalKeys : StaticOf(k) \in StaticKeys
         /\ \A n \in Numbers : n \in Nat /\ n # 0
<1>1. \A s \in StaticKeys : static[s] # 0 => static[s] \in Numbers /\ owner[static[s]] = s
  BY DEF LocalsInv, KeyInv
<1>2. \A s \in StaticKeys : static[s] \in Nat
  BY DEF LocalsInv, LocalsTypeOK
<1>3. \A k \in LocalKeys : StaticOf(k) \in StaticKeys
  BY DEF StaticOf, LocalKeys, StaticKeys
<1>4. \A n \in Numbers : n \in Nat /\ n # 0
  BY DEF Numbers
<1>5. QED
  BY <1>1, <1>2, <1>3, <1>4

\* A step of one thread that creates no OS key and leaves the others alone.
LEMMA LocalStep ==
  ASSUME LocalsInv, NEW t \in Locals, UNCHANGED <<static, owner>>, LocalsTypeOK',
         \A u \in Locals \ {t} :
           UNCHANGED <<spec[u], list[u], slot[u], use[u], exit[u], made[u], dropped[u]>>,
         use'[t].at # "cas" \/ use'[t] = use[t],
         UseInv(t)', OsInv(t)', FastInv(t)', EndInv(t)'
  PROVE  LocalsInv'
<1>1. KeyInv'
  BY DEF LocalsInv, KeyInv
<1>2. ASSUME NEW u \in Locals \ {t} PROVE UseInv(u)' /\ OsInv(u)' /\ FastInv(u)' /\ EndInv(u)'
  <2>1. \A s \in StaticKeys : Under(u, s)' = Under(u, s)
    BY DEF Under
  <2>2. OsInv(u)' /\ FastInv(u)' /\ EndInv(u)'
    BY <2>1, OtherThread
  <2>3. UseInv(u)'
    BY LocalsFacts DEF UseInv
  <2>4. QED
    BY <2>2, <2>3
<1>3. QED
  BY <1>1, <1>2 DEF LocalsInv

\* LocalKey::try_with.
LEMMA TryWithPreserves ==
  ASSUME LocalsInv, NEW t \in Locals, NEW k \in LocalKeys, TryWith(t, k) PROVE LocalsInv'
<1>1. /\ use[t] = NoUse /\ exit[t].at \in {"body", "drop"} /\ uses' = uses + 1
      /\ UNCHANGED <<static, owner, exit, dropped>>
  BY DEF TryWith
<1>2. LocalsTypeOK
  BY DEF LocalsInv
<1>3. /\ UseInv(t) /\ OsInv(t) /\ FastInv(t) /\ EndInv(t) /\ slot[t][k] \in SlotType
  BY LocalsFacts
<1>4. CASE slot[t][k].running /\ UNCHANGED <<use, spec, list, slot, made>>
  <2>1. LocalsTypeOK'
    BY <1>1, <1>2, <1>4 DEF LocalsTypeOK
  <2>2. UseInv(t)' /\ EndInv(t)'
    BY <1>1, <1>3, <1>4 DEF UseInv, EndInv
  <2>3. OsInv(t)' /\ FastInv(t)'
    BY <1>1, <1>3, <1>4 DEF OsInv, FastInv, Under
  <2>4. QED
    BY <1>1, <1>4, <2>1, <2>2, <2>3, LocalStep
<1>5. CASE /\ ~slot[t][k].running /\ slot[t][k].registered /\ Initialise(t, k)
           /\ slot' = [slot EXCEPT ![t][k].value = ValueAfter(t, k)]
           /\ UNCHANGED <<use, spec, list>>
  <2>1. k \in FastKeys /\ slot[t][k].value # "dropping"
    BY <1>3, <1>5 DEF OsInv, FastInv, LocalKeys
  <2> DEFINE v == ValueAfter(t, k)
  <2>2. /\ made' \in [Locals -> [LocalKeys -> Nat]]
        /\ \A u \in Locals \ {t} : made'[u] = made[u]
        /\ \A j \in LocalKeys \ {k} : made'[t][j] = made[t][j]
        /\ v \in {"none", "some"}
        /\ made'[t][k] - dropped[t][k] = (IF v = "none" THEN 0 ELSE 1)
    BY <1>5, <2>1, Initialises
  <2>3. /\ slot' \in [Locals -> [LocalKeys -> SlotType]]
        /\ slot'[t][k].value = v /\ slot'[t][k].registered /\ ~slot'[t][k].running
        /\ \A j \in LocalKeys \ {k} : slot'[t][j] = slot[t][j]
        /\ \A u \in Locals \ {t} : slot'[u] = slot[u]
    <3> HIDE DEF v
    <3>1. v \in {"none", "some"}
      BY <2>2
    <3>2. PICK r \in SlotType : r = [slot[t][k] EXCEPT !.value = v]
      BY <1>3, <3>1 DEF SlotType
    <3>3. slot' = [slot EXCEPT ![t][k] = r]
      BY <1>2, <1>5, <3>2 DEF v, LocalsTypeOK
    <3>4. /\ r.value = v /\ r.running = slot[t][k].running
          /\ r.registered = slot[t][k].registered
      BY <1>3, <3>2 DEF SlotType
    <3>5. /\ slot' \in [Locals -> [LocalKeys -> SlotType]] /\ slot'[t][k] = r
          /\ \A j \in LocalKeys \ {k} : slot'[t][j] = slot[t][j]
          /\ \A u \in Locals \ {t} : slot'[u] = slot[u]
      BY <3>3, SlotStep
    <3>6. QED
      BY <1>5, <3>4, <3>5
  <2> HIDE DEF v
  <2>4. LocalsTypeOK'
    BY <1>1, <1>2, <1>5, <2>2, <2>3 DEF LocalsTypeOK
  <2>5. UseInv(t)'
    BY <1>1, <1>3, <1>5 DEF UseInv
  <2>6. \A s \in StaticKeys : Under(t, s)' = Under(t, s)
    BY <1>1, <1>5 DEF Under
  <2>7. /\ Dtors \in StaticKeys /\ OsKeys \subseteq StaticKeys
        /\ \A o \in OsKeys : o \in LocalKeys \ {k}
    BY <2>1, LocalsAssumption DEF StaticKeys, LocalKeys
  <2>8. OsInv(t)'
    BY <1>1, <1>3, <2>3, <2>6, <2>7 DEF OsInv
  <2>9. FastInv(t)'
    BY <1>1, <1>3, <1>5, <2>2, <2>3, <2>6, <2>7 DEF FastInv, LocalKeys
  <2>10. EndInv(t)'
    BY <1>1, <1>3, <1>5, <2>2, <2>3 DEF EndInv
  <2>11. QED
    BY <1>1, <1>5, <2>2, <2>3, <2>4, <2>5, <2>8, <2>9, <2>10, LocalStep
<1>6. CASE /\ ~slot[t][k].running /\ ~slot[t][k].registered
           /\ use' = [use EXCEPT ![t] = [at |-> "create", key |-> k, num |-> 0]]
           /\ UNCHANGED <<spec, list, slot, made>>
  <2>1. use'[t] = [at |-> "create", key |-> k, num |-> 0]
        /\ use' \in [Locals -> UseType] /\ \A u \in Locals \ {t} : use'[u] = use[u]
    BY <1>2, <1>6 DEF LocalsTypeOK, UseType
  <2>2. LocalsTypeOK'
    BY <1>1, <1>2, <1>6, <2>1 DEF LocalsTypeOK
  <2>3. UseInv(t)'
    BY <1>1, <1>3, <1>6, <2>1 DEF UseInv
  <2>4. OsInv(t)' /\ FastInv(t)' /\ EndInv(t)'
    BY <1>1, <1>3, <1>6 DEF OsInv, FastInv, EndInv, Under
  <2>5. QED
    BY <1>1, <1>6, <2>1, <2>2, <2>3, <2>4, LocalStep
<1>7. CASE /\ ~slot[t][k].running /\ ~slot[t][k].registered
           /\ static[StaticOf(k)] # 0 /\ Reach(t, k, static[StaticOf(k)]) /\ UNCHANGED use
  <2>1. PICK n \in Numbers : n = static[StaticOf(k)] /\ n # 0 /\ owner[n] = StaticOf(k)
    BY <1>7, KeyFacts
  <2>2. /\ \A s, r \in StaticKeys : static'[s] # 0 /\ s # r => static'[s] # static'[r]
        /\ \A s \in StaticKeys :
             /\ (IF static'[s] = 0 THEN "null" ELSE spec[t][static'[s]]) = Under(t, s)
             /\ static[s] # 0 => static'[s] # 0
             /\ static'[s] # 0 => static'[s] \in Numbers
    BY <1>1, KeyFacts DEF Under
  <2>3. /\ Reach(t, k, n) /\ UNCHANGED <<exit, dropped>> /\ n = static'[StaticOf(k)] /\ n # 0
    BY <1>1, <1>7, <2>1
  <2>4. /\ spec' \in [Locals -> [Numbers -> {"null", "one", "box"}]]
        /\ list' \in [Locals -> Seq(FastKeys)] /\ slot' \in [Locals -> [LocalKeys -> SlotType]]
        /\ made' \in [Locals -> [LocalKeys -> Nat]]
        /\ OsInv(t)' /\ FastInv(t)' /\ EndInv(t)'
        /\ \A u \in Locals \ {t} : UNCHANGED <<spec[u], list[u], slot[u], made[u]>>
        /\ \A m \in Numbers \ {n} : spec'[t][m] = spec[t][m]
    BY <1>1, <1>7, <2>2, <2>3, Reaches
  <2>5. LocalsTypeOK'
    BY <1>1, <1>2, <1>7, <2>4 DEF LocalsTypeOK
  <2>6. UseInv(t)'
    <3>1. \A m \in Numbers : spec'[t][m] # "null" => owner[m] # Unowned /\ static[owner[m]] = m
      <4>1. owner[n] # Unowned /\ static[owner[n]] = n
        BY <2>1, LocalsAssumption, KeyFacts DEF StaticKeys
      <4>2. QED
        BY <1>3, <2>4, <4>1 DEF UseInv
    <3>2. QED
      BY <1>1, <1>3, <1>7, <3>1 DEF UseInv, NoUse
  <2>7. QED
    BY <1>1, <1>7, <2>4, <2>5, <2>6, LocalStep
<1>8. QED
  BY <1>4, <1>5, <1>6, <1>7 DEF TryWith

\* StaticKey::lazy_init creates an OS key that nobody knows yet.
LEMMA LazyCreatePreserves ==
  ASSUME LocalsInv, NEW t \in Locals, LazyCreate(t) PROVE LocalsInv'
<1>1. LocalsTypeOK /\ KeyInv
  BY DEF LocalsInv
<1>2. /\ UseInv(t) /\ use[t] \in UseType /\ use[t].at = "create"
      /\ UNCHANGED <<static, spec, list, slot, exit, uses, made, dropped>>
  BY LocalsFacts DEF LazyCreate
<1>3. use[t].key \in LocalKeys /\ StaticOf(use[t].key) \in StaticKeys
  BY <1>2, KeyFacts DEF UseInv
<1>4. PICK n \in Numbers :
        /\ owner[n] = Unowned /\ owner' = [owner EXCEPT ![n] = StaticOf(use[t].key)]
        /\ use' = [use EXCEPT ![t].at = "cas", ![t].num = n]
  BY DEF LazyCreate
<1>5. /\ owner' \in [Numbers -> StaticKeys \cup {Unowned}] /\ owner'[n] = StaticOf(use[t].key)
      /\ \A m \in Numbers \ {n} : owner'[m] = owner[m]
  BY <1>1, <1>3, <1>4 DEF LocalsTypeOK
<1>6. /\ use' \in [Locals -> UseType] /\ use'[t].at = "cas" /\ use'[t].num = n
      /\ use'[t].key = use[t].key /\ \A u \in Locals \ {t} : use'[u] = use[u]
  <2>1. n \in Nat
    BY KeyFacts
  <2>2. PICK c \in UseType : c = [use[t] EXCEPT !.at = "cas", !.num = n]
    BY <1>2, <2>1 DEF UseType
  <2>3. use' = [use EXCEPT ![t] = c]
    BY <1>1, <1>4, <2>2 DEF LocalsTypeOK
  <2>4. c.at = "cas" /\ c.num = n /\ c.key = use[t].key
    BY <1>2, <2>2 DEF UseType
  <2>5. QED
    BY <1>1, <2>3, <2>4 DEF LocalsTypeOK
<1>7. LocalsTypeOK'
  BY <1>1, <1>2, <1>5, <1>6 DEF LocalsTypeOK
<1>8. \A s \in StaticKeys : s # Unowned /\ static[s] # n
  <2>1. \A s \in StaticKeys : s # Unowned
    BY LocalsAssumption DEF StaticKeys
  <2>2. QED
    BY <1>4, <2>1, KeyFacts
<1>9. ASSUME NEW u \in Locals, u # t, use[u].at = "cas" PROVE use[u].num # n
  <2>1. UseInv(u)
    BY LocalsFacts
  <2>2. owner[use[u].num] = StaticOf(use[u].key) /\ use[u].key \in LocalKeys
    BY <1>9, <2>1 DEF UseInv
  <2>3. QED
    BY <1>4, <1>8, <2>2, KeyFacts
<1>10. KeyInv'
  BY <1>1, <1>2, <1>4, <1>5, <1>6, <1>8, <1>9 DEF KeyInv
<1>11. ASSUME NEW u \in Locals
       PROVE  \A m \in Numbers : spec[u][m] # "null" =>
                m # n /\ owner[m] # Unowned /\ static[owner[m]] = m
  BY <1>4, LocalsFacts DEF UseInv
<1>12. ASSUME NEW u \in Locals PROVE UseInv(u)' /\ OsInv(u)' /\ FastInv(u)' /\ EndInv(u)'
  <2>1. \A s \in StaticKeys : Under(u, s)' = Under(u, s)
    BY <1>2 DEF Under
  <2>2. OsInv(u)' /\ FastInv(u)' /\ EndInv(u)'
    BY <1>2, <2>1, OtherThread
  <2>3. \A m \in Numbers :
          spec'[u][m] # "null" => owner'[m] # Unowned /\ static'[owner'[m]] = m
    BY <1>2, <1>5, <1>11
  <2>4. CASE u = t
    <3>1. /\ ~slot[t][use[t].key].registered /\ ~slot[t][use[t].key].running
          /\ exit[t].at \in {"body", "drop"}
      BY <1>2, LocalsFacts DEF UseInv, NoUse, EndType
    <3>2. slot'[t] = slot[t] /\ exit'[t] = exit[t] /\ static' = static
      BY <1>2
    <3>3. QED
      BY <1>3, <1>5, <1>6, <1>8, <2>2, <2>3, <2>4, <3>1, <3>2 DEF UseInv
  <2>5. CASE u # t
    <3>1. UseInv(u) /\ use'[u] = use[u]
      BY <1>6, <2>5, LocalsFacts
    <3>2. use[u].at = "cas" => owner'[use[u].num] = owner[use[u].num]
      BY <1>5, <1>9, <2>5, <3>1 DEF UseInv
    <3>3. slot'[u] = slot[u] /\ exit'[u] = exit[u] /\ static' = static
      BY <1>2
    <3>4. QED
      BY <2>2, <2>3, <3>1, <3>2, <3>3 DEF UseInv
  <2>6. QED
    BY <2>2, <2>4, <2>5
<1>13. QED
  BY <1>7, <1>10, <1>12 DEF LocalsInv

\* ... and the compare-and-swap makes it the static's, or it is given back.
LEMMA LazyCasPreserves ==
  ASSUME LocalsInv, NEW t \in Locals, LazyCas(t) PROVE LocalsInv'
<1>1. LocalsTypeOK /\ KeyInv
  BY DEF LocalsInv
<1>2. /\ UseInv(t) /\ use[t] \in UseType /\ use[t].at = "cas"
      /\ UNCHANGED <<exit, uses, dropped>> /\ use' = [use EXCEPT ![t] = NoUse]
  BY LocalsFacts DEF LazyCas
<1>3. PICK k \in LocalKeys, n \in Numbers, s \in StaticKeys :
        k = use[t].key /\ n = use[t].num /\ s = StaticOf(use[t].key)
  BY <1>2, KeyFacts DEF UseInv
<1>4. /\ owner[n] = s /\ static[s] # n /\ n \in Nat /\ n # 0 /\ exit[t].at \in {"body", "drop"}
      /\ ~slot[t][k].registered /\ ~slot[t][k].running
  <2>1. use[t] # NoUse /\ exit[t].at \in {"body", "scan", "list", "drop", "over"}
    BY <1>2, LocalsFacts DEF NoUse, EndType
  <2>2. QED
    BY <1>2, <1>3, <2>1, KeyFacts DEF UseInv
<1>5. /\ static' = [static EXCEPT ![s] = IF static[s] = 0 THEN n ELSE static[s]]
      /\ owner' = [owner EXCEPT ![n] = IF static[s] = 0 THEN owner[n] ELSE Unowned]
      /\ Reach(t, k, static'[s])
  BY <1>3 DEF LazyCas
<1>6. /\ static' \in [StaticKeys -> Nat] /\ static'[s] = (IF static[s] = 0 THEN n ELSE static[s])
      /\ \A q \in StaticKeys \ {s} : static'[q] = static[q]
  BY <1>1, <1>4, <1>5 DEF LocalsTypeOK
<1>7. /\ owner' \in [Numbers -> StaticKeys \cup {Unowned}]
      /\ owner'[n] = (IF static[s] = 0 THEN s ELSE Unowned)
      /\ \A m \in Numbers \ {n} : owner'[m] = owner[m]
  BY <1>1, <1>4, <1>5 DEF LocalsTypeOK
<1>8. /\ use' \in [Locals -> UseType] /\ use'[t] = NoUse
      /\ \A u \in Locals \ {t} : use'[u] = use[u]
  BY <1>1, <1>2 DEF LocalsTypeOK, UseType, NoUse
<1>9. \A q \in StaticKeys : static[q] # n
  BY <1>3, <1>4, KeyFacts
<1>10. \A q \in StaticKeys :
         /\ static'[q] # 0 => static'[q] \in Numbers /\ owner'[static'[q]] = q
         /\ static[q] # 0 => static'[q] # 0
  <2>1. ASSUME NEW q \in StaticKeys, q # s PROVE static'[q] = static[q] /\ static[q] # n
    BY <1>6, <1>9, <2>1
  <2>2. static'[s] # 0 => static'[s] \in Numbers /\ owner'[static'[s]] = s
    BY <1>4, <1>6, <1>7, <1>9, KeyFacts
  <2>3. static[s] # 0 => static'[s] # 0
    BY <1>6
  <2>4. QED
    BY <1>7, <2>1, <2>2, <2>3, KeyFacts
<1>11. ASSUME NEW u \in Locals, u # t, use[u].at = "cas" PROVE use[u].num # n
  BY <1>1, <1>2, <1>3, <1>11 DEF KeyInv
<1>12. KeyInv'
  BY <1>1, <1>8, <1>10 DEF KeyInv, NoUse
<1>13. \A u \in Locals : spec[u][n] = "null"
  <2>1. ASSUME NEW u \in Locals PROVE spec[u][n] = "null"
    BY <1>4, <1>9, LocalsFacts DEF UseInv
  <2>2. QED
    BY <2>1
<1>14. ASSUME NEW u \in Locals, NEW q \in StaticKeys
       PROVE  (IF static'[q] = 0 THEN "null" ELSE spec[u][static'[q]]) = Under(u, q)
  <2>1. CASE q # s \/ static[s] # 0
    BY <1>6, <2>1 DEF Under
  <2>2. CASE q = s /\ static[s] = 0
    BY <1>4, <1>6, <1>13, <2>2 DEF Under
  <2>3. QED
    BY <2>1, <2>2
<1>15. PICK c \in Numbers : c = static'[s] /\ c # 0
  BY <1>4, <1>6, <1>10
<1>16. /\ \A q, r \in StaticKeys : static'[q] # 0 /\ q # r => static'[q] # static'[r]
       /\ Reach(t, k, c) /\ c = static'[StaticOf(k)]
  BY <1>3, <1>5, <1>10, <1>15
<1>17. /\ spec' \in [Locals -> [Numbers -> {"null", "one", "box"}]]
       /\ list' \in [Locals -> Seq(FastKeys)] /\ slot' \in [Locals -> [LocalKeys -> SlotType]]
       /\ made' \in [Locals -> [LocalKeys -> Nat]]
       /\ OsInv(t)' /\ FastInv(t)' /\ EndInv(t)'
       /\ \A u \in Locals \ {t} : UNCHANGED <<spec[u], list[u], slot[u], made[u]>>
       /\ \A m \in Numbers \ {c} : spec'[t][m] = spec[t][m]
  <2>1. UNCHANGED <<exit, dropped>> /\ c # 0
    BY <1>2, <1>15
  <2>2. \A q \in StaticKeys :
           /\ (IF static'[q] = 0 THEN "null" ELSE spec[t][static'[q]]) = Under(t, q)
           /\ static[q] # 0 => static'[q] # 0
           /\ static'[q] # 0 => static'[q] \in Numbers
    BY <1>10, <1>14
  <2>3. QED
    BY <1>4, <1>16, <2>1, <2>2, Reaches
<1>18. LocalsTypeOK'
  BY <1>1, <1>2, <1>6, <1>7, <1>8, <1>17 DEF LocalsTypeOK
<1>19. ASSUME NEW u \in Locals, NEW m \in Numbers, spec'[u][m] # "null"
       PROVE  owner'[m] # Unowned /\ static'[owner'[m]] = m
  <2>0. \A q \in StaticKeys : q # Unowned
    BY LocalsAssumption DEF StaticKeys
  <2>1. CASE u = t /\ m = c
    BY <1>10, <1>15, <2>0, <2>1
  <2>2. CASE ~(u = t /\ m = c)
    <3>1. spec[u][m] # "null"
      BY <1>17, <1>19, <2>2
    <3>2. m # n /\ owner[m] # Unowned /\ static[owner[m]] = m
      BY <1>13, <3>1, LocalsFacts DEF UseInv
    <3>3. owner[m] \in StaticKeys /\ m # 0
      BY <1>1, <3>2, KeyFacts DEF LocalsTypeOK
    <3>4. static'[owner[m]] = m
      BY <1>6, <3>2, <3>3
    <3>5. QED
      BY <1>7, <3>2, <3>4
  <2>3. QED
    BY <2>1, <2>2
<1>20. UseInv(t)'
  BY <1>8, <1>19 DEF UseInv, NoUse
<1>21. ASSUME NEW u \in Locals, u # t PROVE UseInv(u)' /\ OsInv(u)' /\ FastInv(u)' /\ EndInv(u)'
  <2>1. UNCHANGED <<spec[u], list[u], slot[u], exit[u], made[u], dropped[u], use[u]>>
    BY <1>2, <1>8, <1>17, <1>21
  <2>2. \A q \in StaticKeys : Under(u, q)' = Under(u, q)
    BY <1>14, <2>1 DEF Under
  <2>3. OsInv(u)' /\ FastInv(u)' /\ EndInv(u)'
    BY <1>10, <2>1, <2>2, OtherThread
  <2>4. UseInv(u)
    BY LocalsFacts
  <2>5. ASSUME use[u].at = "cas"
        PROVE  /\ owner'[use[u].num] = StaticOf(use[u].key)
               /\ static'[StaticOf(use[u].key)] # use[u].num
    <3>1. /\ use[u].num \in Numbers \ {n} /\ owner[use[u].num] = StaticOf(use[u].key)
          /\ static[StaticOf(use[u].key)] # use[u].num
      BY <1>11, <1>21, <2>4, <2>5 DEF UseInv
    <3>2. StaticOf(use[u].key) \in StaticKeys
      BY <2>4, <2>5, KeyFacts DEF UseInv
    <3>3. QED
      BY <1>6, <1>7, <3>1, <3>2
  <2>6. UseInv(u)'
    BY <1>19, <2>1, <2>4, <2>5 DEF UseInv
  <2>7. QED
    BY <2>3, <2>6
<1>22. QED
  BY <1>12, <1>17, <1>18, <1>20, <1>21 DEF LocalsInv

\* What the end of a thread does to the records of that thread only.
LEMMA EndStep ==
  ASSUME LocalsInv, NEW t \in Locals, use[t] = NoUse,
         UNCHANGED <<static, owner, use, uses, made>>,
         NEW sp \in [Numbers -> {"null", "one", "box"}], spec' = [spec EXCEPT ![t] = sp],
         NEW li \in Seq(FastKeys), list' = [list EXCEPT ![t] = li],
         NEW sl \in [LocalKeys -> SlotType], slot' = [slot EXCEPT ![t] = sl],
         NEW e \in EndType, exit' = [exit EXCEPT ![t] = e],
         NEW dr \in [LocalKeys -> Nat], dropped' = [dropped EXCEPT ![t] = dr],
         \A n \in Numbers : sp[n] # "null" => spec[t][n] # "null",
         OsInv(t)', FastInv(t)', EndInv(t)'
  PROVE  LocalsInv'
<1>1. LocalsTypeOK
  BY DEF LocalsInv
<1>2. /\ spec'[t] = sp /\ list'[t] = li /\ slot'[t] = sl /\ exit'[t] = e /\ dropped'[t] = dr
      /\ \A u \in Locals \ {t} :
           UNCHANGED <<spec[u], list[u], slot[u], use[u], exit[u], made[u], dropped[u]>>
  BY <1>1 DEF LocalsTypeOK
<1>3. LocalsTypeOK'
  BY <1>1 DEF LocalsTypeOK
<1>4. UseInv(t)'
  <2>1. UseInv(t)
    BY LocalsFacts
  <2>2. \A n \in Numbers : spec'[t][n] # "null" => owner'[n] # Unowned /\ static'[owner'[n]] = n
    BY <1>2, <2>1 DEF UseInv
  <2>3. use'[t] = NoUse
    OBVIOUS
  <2>4. QED
    BY <2>2, <2>3 DEF UseInv, NoUse
<1>5. use'[t] = use[t]
  OBVIOUS
<1>6. QED
  BY <1>2, <1>3, <1>4, <1>5, LocalStep

\* The body of a thread ends.
LEMMA ThreadExits ==
  ASSUME LocalsInv, NEW t \in Locals, Exit(t) PROVE LocalsInv'
<1>1. LocalsTypeOK
  BY DEF LocalsInv
<1>2. /\ UseInv(t) /\ OsInv(t) /\ FastInv(t) /\ EndInv(t) /\ exit[t] \in EndType
  BY LocalsFacts
<1>3. /\ exit[t].at = "body" /\ use[t] = NoUse /\ exit' = [exit EXCEPT ![t].at = "scan"]
      /\ UNCHANGED <<static, owner, spec, list, slot, use, uses, made, dropped>>
  BY DEF Exit
<1>4. /\ exit' \in [Locals -> EndType] /\ exit'[t].at = "scan" /\ exit'[t].todo = exit[t].todo
      /\ \A u \in Locals \ {t} : exit'[u] = exit[u]
  <2>1. PICK e \in EndType : e = [exit[t] EXCEPT !.at = "scan"]
    BY <1>2 DEF EndType
  <2>2. exit' = [exit EXCEPT ![t] = e]
    BY <1>1, <1>3, <2>1 DEF LocalsTypeOK
  <2>3. e.at = "scan" /\ e.todo = exit[t].todo
    BY <1>2, <2>1 DEF EndType
  <2>4. QED
    BY <1>1, <2>2, <2>3 DEF LocalsTypeOK
<1>5. LocalsTypeOK'
  BY <1>1, <1>3, <1>4 DEF LocalsTypeOK
<1>6. UseInv(t)'
  BY <1>2, <1>3, <1>4 DEF UseInv
<1>7. \A s \in StaticKeys : Under(t, s)' = Under(t, s)
  BY <1>3 DEF Under
<1>8. OsInv(t)'
  BY <1>2, <1>3, <1>4, <1>7 DEF OsInv, StaticKeys
<1>9. FastInv(t)'
  BY <1>2, <1>3, <1>4, <1>7 DEF FastInv, StaticKeys
<1>10. EndInv(t)'
  BY <1>2, <1>3, <1>4 DEF EndInv
<1>11. QED
  BY <1>3, <1>4, <1>5, <1>6, <1>8, <1>9, <1>10, LocalStep

\* One pthread key of the thread is looked at.
LEMMA ScanPreserves ==
  ASSUME LocalsInv, NEW t \in Locals, Scan(t) PROVE LocalsInv'
<1>1. LocalsTypeOK
  BY DEF LocalsInv
<1>2. /\ UseInv(t) /\ OsInv(t) /\ FastInv(t) /\ EndInv(t)
      /\ spec[t] \in [Numbers -> {"null", "one", "box"}] /\ list[t] \in Seq(FastKeys)
      /\ slot[t] \in [LocalKeys -> SlotType] /\ exit[t] \in EndType
      /\ dropped[t] \in [LocalKeys -> Nat]
  BY LocalsFacts
<1>3. PICK e \in EndType : e = exit[t]
  BY <1>2
<1>4. /\ e.at = "scan" /\ UNCHANGED <<static, owner, use, uses, made, dropped>>
      /\ use[t] = NoUse /\ e.todo = <<>>
  BY <1>2, <1>3 DEF Scan, UseInv, FastInv
<1>5. /\ \A k \in OsKeys : slot[t][k].value # "dropping" /\ Under(t, k) # "one"
      /\ \A k \in FastKeys : slot[t][k].value # "dropping"
  BY <1>2, <1>3, <1>4 DEF OsInv, FastInv
<1>6. /\ Dtors \in StaticKeys /\ OsKeys \subseteq StaticKeys
      /\ \A o \in OsKeys : o \notin FastKeys /\ o # Dtors /\ o \in LocalKeys
      /\ FastKeys \subseteq LocalKeys
  BY LocalsAssumption DEF StaticKeys, LocalKeys
<1>sd. dropped' = [dropped EXCEPT ![t] = dropped[t]]
  BY <1>1, <1>4 DEF LocalsTypeOK
<1> DEFINE full == {n \in Numbers : spec[t][n] # "null"}
<1>7. CASE /\ e.num \in full /\ owner[e.num] = Dtors
           /\ spec' = [spec EXCEPT ![t][e.num] = "null"]
           /\ exit' = [exit EXCEPT ![t].at = "list", ![t].todo = list[t]]
           /\ list' = [list EXCEPT ![t] = <<>>] /\ UNCHANGED slot
  <2>1. PICK n \in Numbers : n = e.num /\ n = static[Dtors] /\ n # 0
    BY <1>2, <1>7, KeyFacts DEF UseInv
  <2>2. PICK sp \in [Numbers -> {"null", "one", "box"}] : sp = [spec[t] EXCEPT ![n] = "null"]
    BY <1>2
  <2>3. /\ sp[n] = "null" /\ \A m \in Numbers \ {n} : sp[m] = spec[t][m]
    BY <1>2, <2>2
  <2>4. spec' = [spec EXCEPT ![t] = sp]
    BY <1>1, <1>7, <2>1, <2>2 DEF LocalsTypeOK
  <2>5. PICK f \in EndType : f = [e EXCEPT !.at = "list", !.todo = list[t]]
    BY <1>2 DEF EndType
  <2>6. f.at = "list" /\ f.todo = list[t]
    BY <2>5 DEF EndType
  <2>7. exit' = [exit EXCEPT ![t] = f]
    BY <1>1, <1>3, <1>7, <2>5 DEF LocalsTypeOK
  <2>8. PICK li \in Seq(FastKeys) : li = <<>> /\ list' = [list EXCEPT ![t] = li]
    <3>1. <<>> \in Seq(FastKeys) /\ list' = [list EXCEPT ![t] = <<>>]
      BY <1>7
    <3>2. QED
      BY <3>1, Zenon
  <2>9. slot' = [slot EXCEPT ![t] = slot[t]]
    BY <1>1, <1>7 DEF LocalsTypeOK
  <2>10. /\ spec'[t] = sp /\ exit'[t] = f /\ list'[t] = <<>> /\ slot'[t] = slot[t]
    BY <1>1, <2>4, <2>7, <2>8, <2>9 DEF LocalsTypeOK
  <2>11. /\ \A k \in OsKeys : Under(t, k)' = Under(t, k)
         /\ Under(t, Dtors)' = "null"
    BY <1>4, <1>6, <2>1, <2>3, <2>10, KeyFacts DEF Under
  <2>12. OsInv(t)'
    BY <1>2, <1>3, <1>4, <2>6, <2>10, <2>11 DEF OsInv
  <2>13. FastInv(t)'
    BY <1>2, <1>3, <1>4, <2>1, <2>6, <2>10, InList DEF FastInv
  <2>14. EndInv(t)'
    BY <1>2, <1>4, <2>6, <2>10 DEF EndInv
  <2>15. \A m \in Numbers : sp[m] # "null" => spec[t][m] # "null"
    BY <2>3
  <2>16. QED
    BY <1>2, <1>4, <1>sd, <2>4, <2>7, <2>8, <2>9, <2>12, <2>13, <2>14, <2>15, EndStep
<1>8. CASE /\ e.num \in full /\ owner[e.num] # Dtors
           /\ spec' = [spec EXCEPT ![t][e.num] = Sentinel]
           /\ slot' = [slot EXCEPT ![t][owner[e.num]].value =
                         IF @ = "none" THEN @ ELSE "dropping"]
           /\ exit' = [exit EXCEPT ![t].at = "drop", ![t].key = owner[e.num]] /\ UNCHANGED list
  <2>1. PICK n \in Numbers, s \in OsKeys : n = e.num /\ s = owner[n] /\ n = static[s] /\ n # 0
    BY <1>1, <1>2, <1>8, KeyFacts DEF UseInv, LocalsTypeOK, StaticKeys
  <2>2. PICK sp \in [Numbers -> {"null", "one", "box"}] : sp = [spec[t] EXCEPT ![n] = "one"]
    BY <1>2
  <2>3. /\ sp[n] = "one" /\ \A m \in Numbers \ {n} : sp[m] = spec[t][m]
    BY <1>2, <2>2
  <2>4. spec' = [spec EXCEPT ![t] = sp]
    BY <1>1, <1>8, <2>1, <2>2 DEF LocalsTypeOK, Sentinel
  <2>5. PICK f \in EndType : f = [e EXCEPT !.at = "drop", !.key = s]
    BY <1>6 DEF EndType
  <2>6. f.at = "drop" /\ f.key = s /\ f.todo = <<>>
    BY <1>4, <2>5 DEF EndType
  <2>7. exit' = [exit EXCEPT ![t] = f]
    BY <1>1, <1>3, <1>8, <2>1, <2>5 DEF LocalsTypeOK
  <2>8. PICK q \in SlotType : q = slot[t][s]
    BY <1>2, <1>6
  <2> DEFINE v == IF q.value = "none" THEN q.value ELSE "dropping"
  <2>9. PICK r \in SlotType : r = [q EXCEPT !.value = v]
    BY DEF SlotType
  <2>10. /\ r.value = v /\ r.running = q.running /\ r.registered = q.registered
    BY <2>9 DEF SlotType
  <2>11. PICK sl \in [LocalKeys -> SlotType] : sl = [slot[t] EXCEPT ![s] = r]
    BY <1>2
  <2>12. sl[s] = r /\ \A k \in LocalKeys \ {s} : sl[k] = slot[t][k]
    BY <1>2, <1>6, <2>11
  <2>13. slot' = [slot EXCEPT ![t] = sl]
    BY <1>1, <1>8, <2>1, <2>8, <2>9, <2>11 DEF LocalsTypeOK
  <2>14. list' = [list EXCEPT ![t] = list[t]]
    BY <1>1, <1>8 DEF LocalsTypeOK
  <2>15. /\ spec'[t] = sp /\ exit'[t] = f /\ list'[t] = list[t] /\ slot'[t] = sl
    BY <1>1, <2>4, <2>7, <2>13, <2>14 DEF LocalsTypeOK
  <2>16. /\ \A k \in StaticKeys \ {s} : Under(t, k)' = Under(t, k)
         /\ Under(t, s)' = "one"
    BY <1>4, <1>6, <2>1, <2>3, <2>15, KeyFacts DEF Under
  <2>17. OsInv(t)'
    BY <1>2, <1>3, <1>4, <1>5, <1>6, <2>6, <2>8, <2>10, <2>12, <2>15, <2>16 DEF OsInv
  <2>18. FastInv(t)'
    BY <1>2, <1>3, <1>4, <1>5, <1>6, <2>6, <2>12, <2>15, <2>16 DEF FastInv
  <2>19. EndInv(t)'
    <3>1. \A k \in LocalKeys : slot'[t][k].value = "none" <=> slot[t][k].value = "none"
      BY <2>8, <2>10, <2>12, <2>15
    <3>2. exit'[t].at # "over" /\ made'[t] = made[t] /\ dropped'[t] = dropped[t]
      BY <1>4, <2>6, <2>15
    <3>3. QED
      BY <1>2, <3>1, <3>2 DEF EndInv
  <2>20. \A m \in Numbers : sp[m] # "null" => spec[t][m] # "null"
    BY <1>8, <2>1, <2>3
  <2>21. QED
    BY <1>2, <1>4, <1>sd, <2>4, <2>7, <2>13, <2>14, <2>17, <2>18, <2>19, <2>20, EndStep
<1>9. CASE /\ exit' = [exit EXCEPT ![t] =
                         IF \E m \in full : m > e.num THEN [e EXCEPT !.num = e.num + 1]
                         ELSE IF full # {} /\ e.round < Rounds
                         THEN [e EXCEPT !.num = 1, !.round = e.round + 1]
                         ELSE [e EXCEPT !.at = "over"]]
           /\ UNCHANGED <<spec, list, slot>>
  <2>1. PICK f \in EndType :
          /\ exit' = [exit EXCEPT ![t] = f] /\ f.at \in {"scan", "over"} /\ f.todo = <<>>
          /\ f.at = "over" => full = {} \/ f.round = Rounds
    <3>1. e.round \in 1..Rounds /\ Rounds \in Nat /\ e.num + 1 \in Nat /\ 1 \in Nat
      BY LocalsAssumption DEF EndType
    <3>2. CASE \E m \in full : m > e.num
      <4>1. PICK f \in EndType : f = [e EXCEPT !.num = e.num + 1]
        BY <3>1 DEF EndType
      <4>2. f.at = "scan" /\ f.todo = <<>>
        BY <1>4, <4>1 DEF EndType
      <4>3. QED
        BY <1>9, <3>2, <4>1, <4>2
    <3>3. CASE ~(\E m \in full : m > e.num) /\ full # {} /\ e.round < Rounds
      <4>1. e.round + 1 \in 1..Rounds
        BY <3>1, <3>3
      <4>2. PICK f \in EndType : f = [e EXCEPT !.num = 1, !.round = e.round + 1]
        BY <3>1, <4>1 DEF EndType
      <4>3. f.at = "scan" /\ f.todo = <<>>
        BY <1>4, <4>2 DEF EndType
      <4>4. QED
        BY <1>9, <3>3, <4>2, <4>3
    <3>4. CASE ~(\E m \in full : m > e.num) /\ ~(full # {} /\ e.round < Rounds)
      <4>1. PICK f \in EndType : f = [e EXCEPT !.at = "over"]
        BY DEF EndType
      <4>2. f.at = "over" /\ f.todo = <<>> /\ f.round = e.round
        BY <1>4, <4>1 DEF EndType
      <4>3. full = {} \/ f.round = Rounds
        BY <3>1, <3>4, <4>2
      <4>4. exit' = [exit EXCEPT ![t] = f]
        BY <1>9, <3>4, <4>1
      <4>5. QED
        BY <4>2, <4>3, <4>4
    <3>5. QED
      BY <3>2, <3>3, <3>4
  <2>2. /\ spec' = [spec EXCEPT ![t] = spec[t]] /\ list' = [list EXCEPT ![t] = list[t]]
        /\ slot' = [slot EXCEPT ![t] = slot[t]]
    BY <1>1, <1>9 DEF LocalsTypeOK
  <2>3. exit'[t] = f /\ spec' = spec /\ list' = list /\ slot' = slot
    BY <1>1, <1>9, <2>1 DEF LocalsTypeOK
  <2>4. \A s \in StaticKeys : Under(t, s)' = Under(t, s)
    BY <1>4, <2>3 DEF Under
  <2>5. OsInv(t)'
    BY <1>2, <1>3, <1>4, <1>6, <2>1, <2>3, <2>4 DEF OsInv
  <2>6. FastInv(t)'
    BY <1>2, <1>3, <1>4, <1>6, <2>1, <2>3, <2>4 DEF FastInv
  <2>7. EndInv(t)'
    BY <1>2, <1>4, <2>1, <2>3 DEF EndInv
  <2>8. QED
    BY <1>2, <1>4, <1>sd, <2>1, <2>2, <2>5, <2>6, <2>7, EndStep
<1>10. QED
  BY <1>3, <1>7, <1>8, <1>9 DEF Scan

\* run_dtors takes an entry, or a list that was begun meanwhile, or ends.
LEMMA RunDtorsPreserves ==
  ASSUME LocalsInv, NEW t \in Locals, RunDtors(t) PROVE LocalsInv'
<1>1. LocalsTypeOK
  BY DEF LocalsInv
<1>2. /\ UseInv(t) /\ OsInv(t) /\ FastInv(t) /\ EndInv(t)
      /\ spec[t] \in [Numbers -> {"null", "one", "box"}] /\ list[t] \in Seq(FastKeys)
      /\ slot[t] \in [LocalKeys -> SlotType] /\ exit[t] \in EndType
      /\ dropped[t] \in [LocalKeys -> Nat]
  BY LocalsFacts
<1>3. PICK e \in EndType : e = exit[t]
  BY <1>2
<1>4. /\ e.at = "list" /\ UNCHANGED <<static, owner, use, uses, made, dropped>>
      /\ use[t] = NoUse /\ e.todo \in Seq(FastKeys)
  BY <1>2, <1>3 DEF RunDtors, UseInv, EndType
<1>5. PICK n \in Numbers : n = static[Dtors] /\ n # 0
  BY <1>2, <1>3, <1>4, KeyFacts DEF FastInv, StaticKeys
<1>6. /\ \A k \in OsKeys : slot[t][k].value # "dropping" /\ Under(t, k) # "one"
      /\ \A k \in FastKeys : slot[t][k].value # "dropping"
  BY <1>2, <1>3, <1>4 DEF OsInv, FastInv
<1>7. /\ Dtors \in StaticKeys /\ OsKeys \subseteq StaticKeys
      /\ \A o \in OsKeys : o \notin FastKeys /\ o # Dtors /\ o \in LocalKeys
      /\ FastKeys \subseteq LocalKeys
  BY LocalsAssumption DEF StaticKeys, LocalKeys
<1>8. /\ dropped' = [dropped EXCEPT ![t] = dropped[t]]
      /\ UNCHANGED spec => spec' = [spec EXCEPT ![t] = spec[t]]
      /\ UNCHANGED list => list' = [list EXCEPT ![t] = list[t]]
      /\ UNCHANGED slot => slot' = [slot EXCEPT ![t] = slot[t]]
  BY <1>1, <1>4 DEF LocalsTypeOK
<1>9. CASE /\ e.todo # <<>> /\ UNCHANGED <<spec, list>>
           /\ exit' = [exit EXCEPT ![t].at = "drop", ![t].key = Head(e.todo), ![t].todo = Tail(@)]
           /\ slot' = [slot EXCEPT ![t][Head(e.todo)].running = TRUE,
                         ![t][Head(e.todo)].value = IF @ = "none" THEN @ ELSE "dropping"]
  <2>1. PICK k \in FastKeys, tl \in Seq(FastKeys) :
          /\ k = Head(e.todo) /\ tl = Tail(e.todo)
          /\ \A j \in FastKeys : InSeq(j, e.todo) => j = k \/ InSeq(j, tl)
    <3>1. PICK q \in Seq(FastKeys) : q = e.todo
      BY <1>4
    <3>2. q # <<>>
      BY <1>9, <3>1
    <3>3. /\ Head(q) \in FastKeys /\ Tail(q) \in Seq(FastKeys)
          /\ \A j \in FastKeys : InSeq(j, q) => j = Head(q) \/ InSeq(j, Tail(q))
      BY <3>2, InList
    <3>4. QED
      BY <3>1, <3>3
  <2>2. PICK f \in EndType : f = [e EXCEPT !.at = "drop", !.key = k, !.todo = tl]
    BY <1>7 DEF EndType
  <2>3. f.at = "drop" /\ f.key = k /\ f.todo = tl
    BY <2>2 DEF EndType
  <2>4. exit' = [exit EXCEPT ![t] = f]
    BY <1>1, <1>3, <1>9, <2>1, <2>2 DEF LocalsTypeOK
  <2>5. PICK q \in SlotType : q = slot[t][k]
    BY <1>2, <1>7
  <2> DEFINE v == IF q.value = "none" THEN q.value ELSE "dropping"
  <2>6. PICK r \in SlotType : r = [q EXCEPT !.running = TRUE, !.value = v]
    BY DEF SlotType
  <2>7. /\ r.value = v /\ r.running = TRUE /\ r.registered = q.registered
    BY <2>6 DEF SlotType
  <2>8. PICK sl \in [LocalKeys -> SlotType] : sl = [slot[t] EXCEPT ![k] = r]
    BY <1>2
  <2>9. sl[k] = r /\ \A j \in LocalKeys \ {k} : sl[j] = slot[t][j]
    BY <1>2, <1>7, <2>8
  <2>10. slot' = [slot EXCEPT ![t] = sl]
    <3>1. slot' = [slot EXCEPT ![t][k].running = TRUE,
                     ![t][k].value = IF @ = "none" THEN @ ELSE "dropping"]
      BY <1>9, <2>1
    <3>2. slot \in [Locals -> [LocalKeys -> SlotType]]
      BY <1>1 DEF LocalsTypeOK
    <3>3. PICK p \in SlotType : p = [q EXCEPT !.running = TRUE]
      BY DEF SlotType
    <3>4. p.value = q.value /\ r = [p EXCEPT !.value = v]
      BY <2>6, <3>3 DEF SlotType
    <3>5. PICK a \in [Locals -> [LocalKeys -> SlotType]] : a = [slot EXCEPT ![t][k] = p]
      BY <3>2
    <3>6. a = [slot EXCEPT ![t][k].running = TRUE]
      BY <2>5, <3>2, <3>3, <3>5
    <3>7. slot' = [a EXCEPT ![t][k].value = IF @ = "none" THEN @ ELSE "dropping"]
      BY <3>1, <3>6
    <3>8. a[t][k] = p
      BY <1>7, <3>2, <3>5
    <3>9. slot' = [a EXCEPT ![t][k] = r]
      BY <3>4, <3>7, <3>8
    <3>10. QED
      BY <1>7, <2>8, <3>2, <3>5, <3>9
  <2>11. /\ spec' = spec /\ exit'[t] = f /\ list' = list /\ slot'[t] = sl
    BY <1>1, <1>9, <2>4, <2>10 DEF LocalsTypeOK
  <2>12. \A s \in StaticKeys : Under(t, s)' = Under(t, s)
    BY <1>4, <2>11 DEF Under
  <2>13. OsInv(t)'
    BY <1>2, <1>3, <1>4, <1>6, <1>7, <2>3, <2>9, <2>11, <2>12 DEF OsInv
  <2>14. FastInv(t)'
    <3>1. \A j \in FastKeys :
            /\ j # k /\ slot'[t][j].registered /\ ~slot'[t][j].running =>
                 InSeq(j, list'[t]) \/ InSeq(j, exit'[t].todo)
            /\ j # k => slot'[t][j] = slot[t][j]
      BY <1>2, <1>3, <1>7, <2>1, <2>3, <2>9, <2>11 DEF FastInv
    <3>2. slot'[t][k].running /\ slot'[t][k].value # "some"
      BY <1>6, <2>5, <2>7, <2>9, <2>11
    <3>3. exit'[t].at = "drop" /\ exit'[t].key = k
      BY <2>3, <2>11
    <3>4. \A j \in FastKeys : slot[t][j].value = "some" =>
             slot[t][j].registered /\ ~slot[t][j].running
      BY <1>2 DEF FastInv
    <3>5. /\ list'[t] # <<>> => Under(t, Dtors)' = "box" /\ static'[Dtors] # 0
          /\ static'[Dtors] # 0
      BY <1>2, <1>4, <1>5, <1>7, <2>11, <2>12 DEF FastInv
    <3>6. QED
      BY <1>6, <1>7, <3>1, <3>2, <3>3, <3>4, <3>5 DEF FastInv
  <2>15. EndInv(t)'
    <3>1. \A j \in LocalKeys : slot'[t][j].value = "none" <=> slot[t][j].value = "none"
      BY <2>5, <2>7, <2>9, <2>11
    <3>2. exit'[t].at # "over" /\ made'[t] = made[t] /\ dropped'[t] = dropped[t]
      BY <1>4, <2>3, <2>11
    <3>3. QED
      BY <1>2, <3>1, <3>2 DEF EndInv
  <2>16. QED
    BY <1>2, <1>4, <1>8, <1>9, <2>4, <2>10, <2>13, <2>14, <2>15, EndStep
<1>10. CASE /\ e.todo = <<>> /\ exit' = [exit EXCEPT ![t].todo = list[t]]
            /\ spec' = [spec EXCEPT ![t][n] = "null"]
            /\ list' = [list EXCEPT ![t] = <<>>] /\ UNCHANGED slot
  <2>1. PICK sp \in [Numbers -> {"null", "one", "box"}] : sp = [spec[t] EXCEPT ![n] = "null"]
    BY <1>2
  <2>2. /\ sp[n] = "null" /\ \A m \in Numbers \ {n} : sp[m] = spec[t][m]
    BY <1>2, <2>1
  <2>3. spec' = [spec EXCEPT ![t] = sp]
    BY <1>1, <1>10, <2>1 DEF LocalsTypeOK
  <2>4. PICK f \in EndType : f = [e EXCEPT !.todo = list[t]]
    BY <1>2 DEF EndType
  <2>5. f.at = "list" /\ f.todo = list[t]
    BY <1>4, <2>4 DEF EndType
  <2>6. exit' = [exit EXCEPT ![t] = f]
    BY <1>1, <1>3, <1>10, <2>4 DEF LocalsTypeOK
  <2>7. PICK li \in Seq(FastKeys) : li = <<>> /\ list' = [list EXCEPT ![t] = li]
    <3>1. <<>> \in Seq(FastKeys) /\ list' = [list EXCEPT ![t] = <<>>]
      BY <1>10
    <3>2. QED
      BY <3>1, Zenon
  <2>8. /\ spec'[t] = sp /\ exit'[t] = f /\ list'[t] = <<>> /\ slot' = slot
    BY <1>1, <1>10, <2>3, <2>6, <2>7 DEF LocalsTypeOK
  <2>9. /\ \A k \in OsKeys : Under(t, k)' = Under(t, k)
        /\ Under(t, Dtors)' = "null"
    BY <1>4, <1>5, <1>7, <2>2, <2>8, KeyFacts DEF Under
  <2>10. OsInv(t)'
    BY <1>2, <1>3, <1>4, <2>5, <2>8, <2>9 DEF OsInv
  <2>11. FastInv(t)'
    <3>1. \A j \in FastKeys : ~InSeq(j, e.todo)
      BY <1>4, <1>10, InList
    <3>2. QED
      BY <1>2, <1>3, <1>4, <1>5, <2>5, <2>8, <3>1 DEF FastInv
  <2>12. EndInv(t)'
    BY <1>2, <1>4, <2>5, <2>8 DEF EndInv
  <2>13. \A m \in Numbers : sp[m] # "null" => spec[t][m] # "null"
    BY <2>2
  <2>14. slot' = [slot EXCEPT ![t] = slot[t]] /\ dropped' = [dropped EXCEPT ![t] = dropped[t]]
    BY <1>8, <1>10
  <2>15. QED
    BY <1>2, <1>4, <2>3, <2>6, <2>7, <2>10, <2>11, <2>12, <2>13, <2>14, EndStep
<1>11. CASE /\ e.todo = <<>> /\ exit' = [exit EXCEPT ![t].at = "scan"]
            /\ UNCHANGED <<spec, list, slot>>
  <2>1. PICK f \in EndType : f = [e EXCEPT !.at = "scan"]
    BY DEF EndType
  <2>2. f.at = "scan" /\ f.todo = <<>>
    BY <1>11, <2>1 DEF EndType
  <2>3. exit' = [exit EXCEPT ![t] = f]
    BY <1>1, <1>3, <1>11, <2>1 DEF LocalsTypeOK
  <2>4. exit'[t] = f /\ spec' = spec /\ list' = list /\ slot' = slot
    BY <1>1, <1>11, <2>3 DEF LocalsTypeOK
  <2>5. \A s \in StaticKeys : Under(t, s)' = Under(t, s)
    BY <1>4, <2>4 DEF Under
  <2>6. OsInv(t)'
    BY <1>2, <1>3, <1>4, <1>7, <2>2, <2>4, <2>5 DEF OsInv
  <2>7. FastInv(t)'
    BY <1>2, <1>3, <1>4, <1>7, <1>11, <2>2, <2>4, <2>5 DEF FastInv
  <2>8. EndInv(t)'
    BY <1>2, <1>4, <2>2, <2>4 DEF EndInv
  <2>9. QED
    BY <1>2, <1>4, <1>8, <1>11, <2>3, <2>6, <2>7, <2>8, EndStep
<1>12. QED
  BY <1>3, <1>5, <1>9, <1>10, <1>11 DEF RunDtors

\* The destructor of a value returns.
LEMMA DroppedPreserves ==
  ASSUME LocalsInv, NEW t \in Locals, Dropped(t) PROVE LocalsInv'
<1>1. LocalsTypeOK
  BY DEF LocalsInv
<1>2. /\ UseInv(t) /\ OsInv(t) /\ FastInv(t) /\ EndInv(t)
      /\ spec[t] \in [Numbers -> {"null", "one", "box"}] /\ list[t] \in Seq(FastKeys)
      /\ slot[t] \in [LocalKeys -> SlotType] /\ exit[t] \in EndType
      /\ dropped[t] \in [LocalKeys -> Nat] /\ made[t] \in [LocalKeys -> Nat]
  BY LocalsFacts
<1>3. PICK e \in EndType : e = exit[t]
  BY <1>2
<1>4. /\ e.at = "drop" /\ use[t] = NoUse /\ e.key \in LocalKeys
      /\ UNCHANGED <<static, owner, list, use, uses, made>>
  BY <1>2, <1>3 DEF Dropped, FastInv
<1>5. PICK k \in LocalKeys, s \in StaticKeys : k = e.key /\ s = StaticOf(k)
  BY <1>4, KeyFacts
<1>6. /\ Dtors \in StaticKeys /\ OsKeys \subseteq StaticKeys
      /\ \A o \in OsKeys : o \notin FastKeys /\ o # Dtors /\ o \in LocalKeys
      /\ FastKeys \subseteq LocalKeys /\ k \in FastKeys \cup OsKeys
  BY LocalsAssumption DEF StaticKeys, LocalKeys
<1>7. PICK n \in Numbers : n = static[s] /\ n # 0
  <2>1. CASE k \in FastKeys
    BY <1>2, <1>3, <1>4, <1>5, <2>1, KeyFacts DEF FastInv, StaticOf
  <2>2. CASE k \in OsKeys
    BY <1>2, <1>3, <1>4, <1>5, <1>6, <2>2, KeyFacts DEF OsInv, StaticOf, Under
  <2>3. QED
    BY <1>6, <2>1, <2>2
<1>8. /\ exit' = [exit EXCEPT ![t].at = IF k \in FastKeys THEN "list" ELSE "scan"]
      /\ spec' = [spec EXCEPT ![t][n] = IF k \in OsKeys THEN "null" ELSE @]
      /\ dropped' = [dropped EXCEPT ![t][k] = IF slot[t][k].value = "none" THEN @ ELSE @ + 1]
      /\ slot' = [slot EXCEPT ![t][k].value = "none"]
  BY <1>3, <1>5, <1>7 DEF Dropped
<1>9. PICK f \in EndType : f = [e EXCEPT !.at = IF k \in FastKeys THEN "list" ELSE "scan"]
  BY DEF EndType
<1>10. f.at = (IF k \in FastKeys THEN "list" ELSE "scan") /\ f.todo = e.todo
  BY <1>9 DEF EndType
<1>11. exit' = [exit EXCEPT ![t] = f]
  BY <1>1, <1>3, <1>8, <1>9 DEF LocalsTypeOK
<1>12. PICK sp \in [Numbers -> {"null", "one", "box"}] :
         sp = [spec[t] EXCEPT ![n] = IF k \in OsKeys THEN "null" ELSE spec[t][n]]
  BY <1>2
<1>13. /\ sp[n] = (IF k \in OsKeys THEN "null" ELSE spec[t][n])
       /\ \A m \in Numbers \ {n} : sp[m] = spec[t][m]
  BY <1>2, <1>12
<1>14. spec' = [spec EXCEPT ![t] = sp]
  BY <1>1, <1>8, <1>12 DEF LocalsTypeOK
<1>15. PICK d \in Nat : d = (IF slot[t][k].value = "none" THEN dropped[t][k] ELSE dropped[t][k] + 1)
  BY <1>2
<1>16. PICK dr \in [LocalKeys -> Nat] : dr = [dropped[t] EXCEPT ![k] = d]
  BY <1>2
<1>17. dr[k] = d /\ \A j \in LocalKeys \ {k} : dr[j] = dropped[t][j]
  BY <1>2, <1>16
<1>18. dropped' = [dropped EXCEPT ![t] = dr]
  BY <1>1, <1>8, <1>15, <1>16 DEF LocalsTypeOK
<1>19. PICK q \in SlotType : q = slot[t][k]
  BY <1>2
<1>20. PICK r \in SlotType : r = [q EXCEPT !.value = "none"]
  BY DEF SlotType
<1>21. /\ r.value = "none" /\ r.running = q.running /\ r.registered = q.registered
  BY <1>20 DEF SlotType
<1>22. PICK sl \in [LocalKeys -> SlotType] : sl = [slot[t] EXCEPT ![k] = r]
  BY <1>2
<1>23. sl[k] = r /\ \A j \in LocalKeys \ {k} : sl[j] = slot[t][j]
  BY <1>2, <1>22
<1>24. slot' = [slot EXCEPT ![t] = sl]
  BY <1>1, <1>8, <1>19, <1>20, <1>22 DEF LocalsTypeOK
<1>25. list' = [list EXCEPT ![t] = list[t]]
  BY <1>1, <1>4 DEF LocalsTypeOK
<1>26. /\ spec'[t] = sp /\ exit'[t] = f /\ list'[t] = list[t] /\ slot'[t] = sl
       /\ dropped'[t] = dr /\ made'[t] = made[t]
  BY <1>1, <1>4, <1>11, <1>14, <1>18, <1>24, <1>25 DEF LocalsTypeOK
<1>27. /\ \A j \in StaticKeys \ {s} : Under(t, j)' = Under(t, j)
       /\ k \in OsKeys => Under(t, s)' = "null"
       /\ k \in FastKeys => Under(t, s)' = Under(t, s)
  BY <1>4, <1>6, <1>7, <1>13, <1>26, KeyFacts DEF Under
<1>28. OsInv(t)'
  <2>1. ASSUME NEW j \in OsKeys
        PROVE  /\ slot'[t][j].value = "some" => Under(t, j)' = "box"
               /\ slot'[t][j].value # "dropping" /\ Under(t, j)' # "one"
               /\ ~slot'[t][j].registered /\ ~slot'[t][j].running
    <3>1. CASE j = k
      BY <1>2, <1>5, <1>6, <1>19, <1>21, <1>23, <1>26, <1>27, <3>1 DEF OsInv, StaticOf
    <3>2. CASE j # k
      <4>1. Under(t, j)' = Under(t, j) /\ slot'[t][j] = slot[t][j]
        BY <1>5, <1>6, <1>23, <1>26, <1>27, <3>2 DEF StaticOf
      <4>2. QED
        BY <1>2, <1>3, <1>5, <3>2, <4>1 DEF OsInv
    <3>3. QED
      BY <3>1, <3>2
  <2>2. Under(t, Dtors)' = Under(t, Dtors)
    BY <1>5, <1>6, <1>27 DEF StaticOf
  <2>3. exit'[t].at # "drop"
    BY <1>10, <1>26
  <2>4. QED
    BY <1>2, <2>1, <2>2, <2>3 DEF OsInv
<1>29. FastInv(t)'
  <2>1. Under(t, Dtors)' = Under(t, Dtors)
    BY <1>5, <1>6, <1>27 DEF StaticOf
  <2>2. /\ exit'[t].at # "drop" /\ exit'[t].todo = exit[t].todo
        /\ exit'[t].at = "list" <=> k \in FastKeys
    BY <1>3, <1>10, <1>26
  <2>3. ASSUME NEW j \in FastKeys
        PROVE  /\ slot'[t][j].registered = slot[t][j].registered
               /\ slot'[t][j].running = slot[t][j].running
               /\ slot'[t][j].value # "dropping"
               /\ slot'[t][j].value = "some" => slot[t][j].value = "some"
    BY <1>2, <1>3, <1>5, <1>6, <1>19, <1>21, <1>23, <1>26 DEF FastInv
  <2>4. static'[Dtors] # 0 <=> static[Dtors] # 0
    BY <1>4
  <2>5. QED
    BY <1>2, <1>3, <1>4, <1>5, <1>26, <2>1, <2>2, <2>3, <2>4 DEF FastInv
<1>30. EndInv(t)'
  <2>1. made[t][k] - dropped[t][k] = (IF slot[t][k].value = "none" THEN 0 ELSE 1)
    BY <1>2 DEF EndInv
  <2>2. made[t][k] - d = 0
    BY <1>2, <1>15, <2>1
  <2>3. exit'[t].at # "over"
    BY <1>10, <1>26
  <2>4. ASSUME NEW j \in LocalKeys
        PROVE  made'[t][j] - dropped'[t][j] = (IF slot'[t][j].value = "none" THEN 0 ELSE 1)
    <3>1. CASE j = k
      BY <1>17, <1>21, <1>23, <1>26, <2>2, <3>1
    <3>2. CASE j # k
      BY <1>2, <1>17, <1>23, <1>26, <3>2 DEF EndInv
    <3>3. QED
      BY <3>1, <3>2
  <2>5. QED
    BY <2>3, <2>4 DEF EndInv
<1>31. \A m \in Numbers : sp[m] # "null" => spec[t][m] # "null"
  BY <1>13
<1>32. QED
  BY <1>2, <1>4, <1>11, <1>14, <1>18, <1>24, <1>25, <1>28, <1>29, <1>30, <1>31, EndStep

\* Every value that a thread made is dropped once, for any number of threads, keys and
\* rounds and whatever the destructors do (LocalsDropped).
THEOREM LocalsAreDropped == SpecLocals => []LocalsDropped
<1>1. LocalsInv /\ [NextLocals]_localVars => LocalsInv'
  <2> SUFFICES ASSUME LocalsInv, [NextLocals]_localVars PROVE LocalsInv'
    OBVIOUS
  <2>1. CASE NextLocals
    BY <2>1, TryWithPreserves, LazyCreatePreserves, LazyCasPreserves, ThreadExits,
       ScanPreserves, RunDtorsPreserves, DroppedPreserves DEF NextLocals
  <2>2. CASE UNCHANGED localVars
    <3>1. UNCHANGED <<static, owner, spec, list, slot, use, exit, uses, made, dropped>>
      BY <2>2 DEF localVars
    <3>2. LocalsTypeOK' /\ KeyInv'
      BY <3>1 DEF LocalsInv, LocalsTypeOK, KeyInv
    <3>3. ASSUME NEW t \in Locals PROVE UseInv(t)' /\ OsInv(t)' /\ FastInv(t)' /\ EndInv(t)'
      BY <3>1, LocalsFacts DEF UseInv, OsInv, FastInv, EndInv, Under
    <3>4. QED
      BY <3>2, <3>3 DEF LocalsInv
  <2>3. QED
    BY <2>1, <2>2
<1>2. LocalsInv => LocalsDropped
  <2> SUFFICES ASSUME LocalsInv, NEW t \in Locals, NEW k \in LocalKeys
      PROVE  /\ \A n \in Numbers :
                  spec[t][n] # "null" => owner[n] # Unowned /\ static[owner[n]] = n
             /\ LET n == static[StaticOf(k)]
                    late == n # 0 /\ spec[t][n] = "box" /\ exit[t].round = Rounds
                IN  /\ made[t][k] - dropped[t][k] = (IF slot[t][k].value = "none" THEN 0 ELSE 1)
                    /\ exit[t].at = "over" /\ ~late => made[t][k] = dropped[t][k]
                    /\ exit[t].at = "drop" /\ exit[t].key = k => slot[t][k].value # "some"
    BY LocalsFacts DEF LocalsDropped, UseInv
  <2>1. /\ UseInv(t) /\ OsInv(t) /\ FastInv(t) /\ EndInv(t) /\ slot[t][k] \in SlotType
        /\ made[t][k] \in Nat /\ dropped[t][k] \in Nat /\ StaticOf(k) \in StaticKeys
        /\ list[t] \in Seq(FastKeys)
    BY LocalsFacts, KeyFacts
  <2>2. exit[t].at = "drop" /\ exit[t].key = k => slot[t][k].value # "some"
    BY <2>1 DEF OsInv, FastInv, LocalKeys
  <2>3. ASSUME exit[t].at = "over", slot[t][k].value # "none"
        PROVE  /\ static[StaticOf(k)] # 0 /\ spec[t][static[StaticOf(k)]] = "box"
               /\ exit[t].round = Rounds
    <3>1. slot[t][k].value = "some"
      BY <2>1, <2>3 DEF OsInv, FastInv, LocalKeys, SlotType
    <3>2. Under(t, StaticOf(k)) = "box"
      <4>1. CASE k \in OsKeys
        BY <2>1, <3>1, <4>1, LocalsAssumption DEF OsInv, StaticOf
      <4>2. CASE k \in FastKeys
        <5>1. InSeq(k, list[t]) \/ InSeq(k, exit[t].todo)
          BY <2>1, <3>1, <4>2 DEF FastInv
        <5>2. exit[t].todo = <<>>
          BY <2>1, <2>3 DEF FastInv
        <5>3. list[t] # <<>>
          BY <4>2, <5>1, <5>2, <2>1, InList DEF InSeq
        <5>4. QED
          BY <2>1, <4>2, <5>3 DEF FastInv, StaticOf
      <4>3. QED
        BY <4>1, <4>2 DEF LocalKeys
    <3>3. static[StaticOf(k)] # 0 /\ spec[t][static[StaticOf(k)]] = "box"
      BY <3>2 DEF Under
    <3>4. static[StaticOf(k)] \in Numbers
      BY <2>1, <3>3, KeyFacts
    <3>5. QED
      BY <2>1, <2>3, <3>3, <3>4 DEF EndInv
  <2>4. made[t][k] - dropped[t][k] = (IF slot[t][k].value = "none" THEN 0 ELSE 1)
    BY <2>1 DEF EndInv
  <2>5. slot[t][k].value = "none" => made[t][k] = dropped[t][k]
    BY <2>1, <2>4
  <2>6. QED
    BY <2>1, <2>2, <2>3, <2>4, <2>5 DEF UseInv
<1>3. QED
  BY InitLocalsInv, <1>1, <1>2, PTL DEF SpecLocals

-----------------------------------------------------------------------------
(* The Redox mutex and Condvar: any threads, any number of calls           *)

\* All threads are idle and the word is 0.
LEMMA InitIInv == Init => IInv
<1> SUFFICES ASSUME Init PROVE IInv
  OBVIOUS
<1>1. TypeOK
  <2>1. /\ timed \in [Threads -> BOOLEAN] /\ after \in [Threads -> BOOLEAN]
        /\ failed \in [Threads -> BOOLEAN] /\ bound \in BOOLEAN
    BY Zenon DEF Init
  <2>2. /\ lock \in 0..2 /\ seq \in Nat /\ calls \in Nat
        /\ pc \in [Threads -> Pcs] /\ before \in [Threads -> Nat]
        /\ ret \in [Threads -> {"idle", "held", "cload", "creturn", "dead"}]
    BY DEF Init, Pcs
  <2>3. QED
    BY <2>1, <2>2 DEF TypeOK
<1>2. ReturnsTo /\ MutualExclusion /\ SleepersKnown
  BY DEF Init, ReturnsTo, MutualExclusion, SleepersKnown, Owns, Asleep
<1>3. QED
  BY <1>1, <1>2 DEF IInv

\* Every step of a thread keeps the inductive invariant.
LEMMA StepPreserves ==
  ASSUME IInv, NEW t \in Threads, Call(t) \/ UnlockCall(t) \/ WaitTimeout(t) \/ Step(t)
  PROVE  IInv'
<1> USE DEF IInv
<1>1. ASSUME LockCall(t) PROVE IInv'
  <2>1. TypeOK'
    BY <1>1 DEF LockCall, Begin, Goto, waiting, TypeOK, Pcs
  <2>2. ReturnsTo'
    BY <1>1 DEF LockCall, Begin, Goto, waiting, TypeOK, ReturnsTo
  <2>3. MutualExclusion'
    BY <1>1 DEF LockCall, Begin, Goto, waiting, TypeOK, ReturnsTo, MutualExclusion, Owns
  <2>4. SleepersKnown'
    BY <1>1 DEF LockCall, Begin, Goto, waiting, TypeOK, ReturnsTo, SleepersKnown, Asleep
  <2>5. QED
    BY <2>1, <2>2, <2>3, <2>4
<1>2. ASSUME TryLock(t) PROVE IInv'
  <2>1. TypeOK'
    BY <1>2 DEF TryLock, Begin, Goto, waiting, TypeOK, Pcs
  <2>2. ReturnsTo'
    BY <1>2 DEF TryLock, Begin, Goto, waiting, TypeOK, ReturnsTo
  <2>3. MutualExclusion'
    BY <1>2 DEF TryLock, Begin, Goto, waiting, TypeOK, ReturnsTo, MutualExclusion, Owns
  <2>4. SleepersKnown'
    BY <1>2 DEF TryLock, Begin, Goto, waiting, TypeOK, ReturnsTo, SleepersKnown, Asleep
  <2>5. QED
    BY <2>1, <2>2, <2>3, <2>4
<1>3. ASSUME WaitCall(t) PROVE IInv'
  <2>1. TypeOK'
    BY <1>3 DEF WaitCall, Begin, Goto, waiting, TypeOK, Pcs
  <2>2. ReturnsTo'
    BY <1>3 DEF WaitCall, Begin, Goto, waiting, TypeOK, ReturnsTo
  <2>3. MutualExclusion'
    BY <1>3 DEF WaitCall, Begin, Goto, waiting, TypeOK, ReturnsTo, MutualExclusion, Owns
  <2>4. SleepersKnown'
    BY <1>3 DEF WaitCall, Begin, Goto, waiting, TypeOK, ReturnsTo, SleepersKnown, Asleep
  <2>5. QED
    BY <2>1, <2>2, <2>3, <2>4
<1>4. ASSUME NotifyCall(t) PROVE IInv'
  <2>1. TypeOK'
    BY <1>4 DEF NotifyCall, Begin, Goto, waiting, TypeOK, Pcs
  <2>2. ReturnsTo'
    BY <1>4 DEF NotifyCall, Begin, Goto, waiting, TypeOK, ReturnsTo
  <2>3. MutualExclusion'
    BY <1>4 DEF NotifyCall, Begin, Goto, waiting, TypeOK, ReturnsTo, MutualExclusion, Owns
  <2>4. SleepersKnown'
    BY <1>4 DEF NotifyCall, Begin, Goto, waiting, TypeOK, ReturnsTo, SleepersKnown, Asleep
  <2>5. QED
    BY <2>1, <2>2, <2>3, <2>4
<1>5. ASSUME UnlockCall(t) PROVE IInv'
  <2>1. TypeOK'
    BY <1>5 DEF UnlockCall, Goto, waiting, TypeOK, Pcs
  <2>2. ReturnsTo'
    BY <1>5 DEF UnlockCall, Goto, waiting, TypeOK, ReturnsTo
  <2>3. MutualExclusion'
    BY <1>5 DEF UnlockCall, Goto, waiting, TypeOK, ReturnsTo, MutualExclusion, Owns
  <2>4. SleepersKnown'
    BY <1>5 DEF UnlockCall, Goto, waiting, TypeOK, ReturnsTo, SleepersKnown, Asleep
  <2>5. QED
    BY <2>1, <2>2, <2>3, <2>4
<1>6. ASSUME WaitTimeout(t) PROVE IInv'
  <2>1. TypeOK'
    BY <1>6 DEF WaitTimeout, Goto, waiting, TypeOK, Pcs
  <2>2. ReturnsTo'
    BY <1>6 DEF WaitTimeout, Goto, waiting, TypeOK, ReturnsTo
  <2>3. MutualExclusion'
    BY <1>6 DEF WaitTimeout, Goto, waiting, TypeOK, ReturnsTo, MutualExclusion, Owns
  <2>4. SleepersKnown'
    BY <1>6 DEF WaitTimeout, Goto, waiting, TypeOK, ReturnsTo, SleepersKnown, Asleep
  <2>5. QED
    BY <2>1, <2>2, <2>3, <2>4
<1>7. ASSUME LockSpin(t) PROVE IInv'
  <2>1. TypeOK'
    BY <1>7 DEF LockSpin, Goto, waiting, TypeOK, Pcs
  <2>2. ReturnsTo'
    BY <1>7 DEF LockSpin, Goto, waiting, TypeOK, ReturnsTo
  <2>3. MutualExclusion'
    BY <1>7 DEF LockSpin, Goto, waiting, TypeOK, ReturnsTo, MutualExclusion, Owns
  <2>4. SleepersKnown'
    BY <1>7 DEF LockSpin, Goto, waiting, TypeOK, ReturnsTo, SleepersKnown, Asleep
  <2>5. QED
    BY <2>1, <2>2, <2>3, <2>4
<1>8. ASSUME LockXchg(t) PROVE IInv'
  <2>1. TypeOK'
    BY <1>8 DEF LockXchg, Goto, WasFree, waiting, TypeOK, Pcs
  <2>2. ReturnsTo'
    BY <1>8 DEF LockXchg, Goto, WasFree, waiting, TypeOK, ReturnsTo
  <2>3. MutualExclusion'
    BY <1>8 DEF LockXchg, Goto, WasFree, waiting, TypeOK, ReturnsTo, MutualExclusion, Owns
  <2>4. SleepersKnown'
    BY <1>8 DEF LockXchg, Goto, WasFree, waiting, TypeOK, ReturnsTo, SleepersKnown, Asleep
  <2>5. QED
    BY <2>1, <2>2, <2>3, <2>4
<1>9. ASSUME LockWait(t) PROVE IInv'
  <2>1. TypeOK'
    BY <1>9 DEF LockWait, Goto, waiting, TypeOK, Pcs
  <2>2. ReturnsTo'
    BY <1>9 DEF LockWait, Goto, waiting, TypeOK, ReturnsTo
  <2>3. MutualExclusion'
    BY <1>9 DEF LockWait, Goto, waiting, TypeOK, ReturnsTo, MutualExclusion, Owns
  <2>4. SleepersKnown'
    BY <1>9 DEF LockWait, Goto, waiting, TypeOK, ReturnsTo, SleepersKnown, Asleep
  <2>5. QED
    BY <2>1, <2>2, <2>3, <2>4
<1>10. ASSUME UnlockRead(t) PROVE IInv'
  <2>1. TypeOK'
    BY <1>10 DEF UnlockRead, Goto, waiting, TypeOK, Pcs
  <2>2. ReturnsTo'
    BY <1>10 DEF UnlockRead, Goto, waiting, TypeOK, ReturnsTo
  <2>3. MutualExclusion'
    BY <1>10 DEF UnlockRead, Goto, waiting, TypeOK, ReturnsTo, MutualExclusion, Owns
  <2>4. SleepersKnown'
    BY <1>10 DEF UnlockRead, Goto, waiting, TypeOK, ReturnsTo, SleepersKnown, Asleep
  <2>5. QED
    BY <2>1, <2>2, <2>3, <2>4
<1>11. ASSUME UnlockRelease(t) PROVE IInv'
  <2>1. TypeOK'
    BY <1>11 DEF UnlockRelease, Goto, NothingToWake, waiting, TypeOK, Pcs
  <2>2. ReturnsTo'
    BY <1>11 DEF UnlockRelease, Goto, NothingToWake, waiting, TypeOK, ReturnsTo
  <2>3. MutualExclusion'
    BY <1>11 DEF UnlockRelease, Goto, NothingToWake, waiting, TypeOK, ReturnsTo, MutualExclusion, Owns
  <2>4. SleepersKnown'
    BY <1>11 DEF UnlockRelease, Goto, NothingToWake, waiting, TypeOK, ReturnsTo, SleepersKnown, Asleep
  <2>5. QED
    BY <2>1, <2>2, <2>3, <2>4
<1>12. ASSUME UnlockSpin(t) PROVE IInv'
  <2>1. TypeOK'
    BY <1>12 DEF UnlockSpin, Goto, waiting, TypeOK, Pcs
  <2>2. ReturnsTo'
    BY <1>12 DEF UnlockSpin, Goto, waiting, TypeOK, ReturnsTo
  <2>3. MutualExclusion'
    BY <1>12 DEF UnlockSpin, Goto, waiting, TypeOK, ReturnsTo, MutualExclusion, Owns
  <2>4. SleepersKnown'
    BY <1>12 DEF UnlockSpin, Goto, waiting, TypeOK, ReturnsTo, SleepersKnown, Asleep
  <2>5. QED
    BY <2>1, <2>2, <2>3, <2>4
<1>13. ASSUME UnlockCas(t) PROVE IInv'
  <2>1. TypeOK'
    BY <1>13 DEF UnlockCas, Goto, PassOn, waiting, TypeOK, Pcs
  <2>2. ReturnsTo'
    BY <1>13 DEF UnlockCas, Goto, PassOn, waiting, TypeOK, ReturnsTo
  <2>3. MutualExclusion'
    BY <1>13 DEF UnlockCas, Goto, PassOn, waiting, TypeOK, ReturnsTo, MutualExclusion, Owns
  <2>4. SleepersKnown'
    BY <1>13 DEF UnlockCas, Goto, PassOn, waiting, TypeOK, ReturnsTo, SleepersKnown, Asleep
  <2>5. QED
    BY <2>1, <2>2, <2>3, <2>4
<1>14. ASSUME UnlockWake(t) PROVE IInv'
  <2>1. TypeOK'
    BY <1>14 DEF UnlockWake, Goto, Asleep, waiting, TypeOK, Pcs
  <2>2. ReturnsTo'
    BY <1>14 DEF UnlockWake, Goto, Asleep, waiting, TypeOK, ReturnsTo
  <2>3. MutualExclusion'
    BY <1>14 DEF UnlockWake, Goto, Asleep, waiting, TypeOK, ReturnsTo, MutualExclusion, Owns
  <2>4. SleepersKnown'
    BY <1>14 DEF UnlockWake, Goto, Asleep, waiting, TypeOK, ReturnsTo, SleepersKnown
  <2>5. QED
    BY <2>1, <2>2, <2>3, <2>4
<1>15. ASSUME WaitLoad(t) PROVE IInv'
  <2>1. TypeOK'
    BY <1>15 DEF WaitLoad, Goto, waiting, TypeOK, Pcs
  <2>2. ReturnsTo'
    BY <1>15 DEF WaitLoad, Goto, waiting, TypeOK, ReturnsTo
  <2>3. MutualExclusion'
    BY <1>15 DEF WaitLoad, Goto, waiting, TypeOK, ReturnsTo, MutualExclusion, Owns
  <2>4. SleepersKnown'
    BY <1>15 DEF WaitLoad, Goto, waiting, TypeOK, ReturnsTo, SleepersKnown, Asleep
  <2>5. QED
    BY <2>1, <2>2, <2>3, <2>4
<1>16. ASSUME WaitSleep(t) PROVE IInv'
  <2>1. TypeOK'
    BY <1>16 DEF WaitSleep, Goto, waiting, TypeOK, Pcs
  <2>2. ReturnsTo'
    BY <1>16 DEF WaitSleep, Goto, waiting, TypeOK, ReturnsTo
  <2>3. MutualExclusion'
    BY <1>16 DEF WaitSleep, Goto, waiting, TypeOK, ReturnsTo, MutualExclusion, Owns
  <2>4. SleepersKnown'
    BY <1>16 DEF WaitSleep, Goto, waiting, TypeOK, ReturnsTo, SleepersKnown, Asleep
  <2>5. QED
    BY <2>1, <2>2, <2>3, <2>4
<1>17. ASSUME WaitAfter(t) PROVE IInv'
  <2>1. TypeOK'
    BY <1>17 DEF WaitAfter, Goto, waiting, TypeOK, Pcs
  <2>2. ReturnsTo'
    BY <1>17 DEF WaitAfter, Goto, waiting, TypeOK, ReturnsTo
  <2>3. MutualExclusion'
    BY <1>17 DEF WaitAfter, Goto, waiting, TypeOK, ReturnsTo, MutualExclusion, Owns
  <2>4. SleepersKnown'
    BY <1>17 DEF WaitAfter, Goto, waiting, TypeOK, ReturnsTo, SleepersKnown, Asleep
  <2>5. QED
    BY <2>1, <2>2, <2>3, <2>4
<1>18. ASSUME WaitReturn(t) PROVE IInv'
  <2>1. TypeOK'
    BY <1>18 DEF WaitReturn, Goto, waiting, TypeOK, Pcs
  <2>2. ReturnsTo'
    BY <1>18 DEF WaitReturn, Goto, waiting, TypeOK, ReturnsTo
  <2>3. MutualExclusion'
    BY <1>18 DEF WaitReturn, Goto, waiting, TypeOK, ReturnsTo, MutualExclusion, Owns
  <2>4. SleepersKnown'
    BY <1>18 DEF WaitReturn, Goto, waiting, TypeOK, ReturnsTo, SleepersKnown, Asleep
  <2>5. QED
    BY <2>1, <2>2, <2>3, <2>4
<1>19. ASSUME NotifyAdd(t) PROVE IInv'
  <2>1. TypeOK'
    BY <1>19 DEF NotifyAdd, Goto, waiting, TypeOK, Pcs
  <2>2. ReturnsTo'
    BY <1>19 DEF NotifyAdd, Goto, waiting, TypeOK, ReturnsTo
  <2>3. MutualExclusion'
    BY <1>19 DEF NotifyAdd, Goto, waiting, TypeOK, ReturnsTo, MutualExclusion, Owns
  <2>4. SleepersKnown'
    BY <1>19 DEF NotifyAdd, Goto, waiting, TypeOK, ReturnsTo, SleepersKnown, Asleep
  <2>5. QED
    BY <2>1, <2>2, <2>3, <2>4
<1>20. ASSUME NotifyWake(t) PROVE IInv'
  <2>1. TypeOK'
    BY <1>20 DEF NotifyWake, Asleep, Woken, waiting, TypeOK, Pcs
  <2>2. ReturnsTo'
    BY <1>20 DEF NotifyWake, Asleep, Woken, waiting, TypeOK, ReturnsTo
  <2>3. MutualExclusion'
    BY <1>20 DEF NotifyWake, Asleep, Woken, waiting, TypeOK, ReturnsTo, MutualExclusion, Owns
  <2>4. SleepersKnown'
    BY <1>20 DEF NotifyWake, Asleep, Woken, waiting, TypeOK, ReturnsTo, SleepersKnown
  <2>5. QED
    BY <2>1, <2>2, <2>3, <2>4
<1>21. QED
  BY <1>1, <1>2, <1>3, <1>4, <1>5, <1>6, <1>7, <1>8, <1>9, <1>10, <1>11, <1>12, <1>13, <1>14, <1>15, <1>16, <1>17, <1>18, <1>19, <1>20 DEF Call, Step

\* A step that changes nothing keeps it too.
LEMMA StutterPreserves == ASSUME IInv, UNCHANGED vars PROVE IInv'
  BY DEF vars, IInv, TypeOK, ReturnsTo, MutualExclusion, SleepersKnown, Owns, Asleep

\* The inductive invariant holds in every reachable state.
THEOREM IInvHolds == Spec => []IInv
<1>1. IInv /\ [Next]_vars => IInv'
  BY StepPreserves, StutterPreserves DEF Next, Terminated
<1>2. QED
  BY InitIInv, <1>1, PTL DEF Spec

\* The words of the mutex and the Condvar and the threads' locals keep their types.
THEOREM TypeCorrect == Spec => []TypeOK
<1>1. IInv => TypeOK
  BY DEF IInv
<1>2. QED
  BY <1>1, IInvHolds, PTL

\* mutex_lock, mutex_try_lock and the end of a wait admit one thread at a time.
THEOREM MutexExcludes == Spec => []MutualExclusion
<1>1. IInv => MutualExclusion
  BY DEF IInv
<1>2. QED
  BY <1>1, IInvHolds, PTL

\* No unlock and no requeue forgets a thread asleep on the mutex.
THEOREM SleepersRemembered == Spec => []SleepersKnown
<1>1. IInv => SleepersKnown
  BY DEF IInv
<1>2. QED
  BY <1>1, IInvHolds, PTL
=============================================================================
