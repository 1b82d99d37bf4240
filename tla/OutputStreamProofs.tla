------------------------- MODULE OutputStreamProofs -------------------------
(***************************************************************************)
(* The output path delivers in order, for every amount of output, backlog   *)
(* limit, chunk size and number of failing reads.                          *)
(***************************************************************************)
EXTENDS OutputStream, TLAPS

USE ConstantsAssumption

-----------------------------------------------------------------------------
(* What the stream's helpers do to a well-formed stream *)

\* Dropping from the front keeps the stream well formed and shifts the rest.
LEMMA DropFrontIsSuffix ==
  ASSUME NEW p \in Stream, NEW count \in Nat
  PROVE  /\ DropFront(p, count) \in Stream
         /\ DropFront(p, count).closed = p.closed
         /\ LET n == AtMost(count, Len(p.buf))
            IN  /\ n \in 0 .. Len(p.buf)
                /\ n <= count
                /\ Len(DropFront(p, count).buf) = Len(p.buf) - n
                /\ DropFront(p, count).start = p.start + n
                /\ \A i \in 1 .. Len(p.buf) - n : DropFront(p, count).buf[i] = p.buf[i + n]
<1> DEFINE n == AtMost(count, Len(p.buf))
           rest == SubSeq(p.buf, n + 1, Len(p.buf))
<1>1. p.buf \in Seq(Nat) /\ p.start \in Nat /\ p.closed \in BOOLEAN
  BY DEF Stream
<1>2. n \in 0 .. Len(p.buf) /\ n <= count
  BY <1>1 DEF AtMost
<1>3. DropFront(p, count) = [buf |-> rest, start |-> p.start + n, closed |-> p.closed]
  BY DEF DropFront
<1> HIDE DEF n
<1>4. /\ rest \in Seq(Nat)
      /\ Len(rest) = Len(p.buf) - n
      /\ \A i \in 1 .. Len(p.buf) - n : rest[i] = p.buf[i + n]
  BY <1>1, <1>2
<1> HIDE DEF rest
<1>5. DropFront(p, count) \in Stream
  BY <1>1, <1>2, <1>3, <1>4 DEF Stream
<1>6. /\ DropFront(p, count).buf = rest
      /\ DropFront(p, count).start = p.start + n
      /\ DropFront(p, count).closed = p.closed
  BY <1>3
<1>7. QED
  BY <1>2, <1>4, <1>5, <1>6 DEF n

LEMMA MonusIsNat ==
  ASSUME NEW a \in Nat, NEW b \in Nat
  PROVE  Monus(a, b) \in Nat /\ (a > b => Monus(a, b) = a - b) /\ (a <= b => Monus(a, b) = 0)
BY DEF Monus

\* Where byte b of a run of m bytes that begins at a is found.
LEMMA IndexOf ==
  ASSUME NEW a \in Int, NEW b \in Int, NEW m \in Int, b >= a, b <= a + m - 1
  PROVE  /\ b - a + 1 \in Int /\ b - a + 1 >= 1 /\ b - a + 1 <= m
         /\ a + (b - a + 1) - 1 = b
OBVIOUS

\* A chunk is the beginning of the stream.
LEMMA ChunkIsPrefix ==
  ASSUME NEW p \in Stream
  PROVE  /\ ChunkOf(p) \in Chunk
         /\ ChunkOf(p).start = p.start
         /\ Len(ChunkOf(p).bytes) <= MaxRead
         /\ Len(ChunkOf(p).bytes) <= Len(p.buf)
         /\ \A i \in 1 .. Len(ChunkOf(p).bytes) : ChunkOf(p).bytes[i] = p.buf[i]
         /\ ChunkOf(p).end <=> ChunkOf(p).bytes = <<>> /\ p.closed
         /\ ChunkOf(p).bytes = <<>> => Len(p.buf) = 0
<1> DEFINE n == AtMost(MaxRead, Len(p.buf))
           head == SubSeq(p.buf, 1, n)
           isEnd == head = <<>> /\ p.closed
<1>1. p.buf \in Seq(Nat) /\ p.start \in Nat /\ p.closed \in BOOLEAN
  BY DEF Stream
<1>2. n \in 0 .. Len(p.buf) /\ n <= MaxRead /\ (n = 0 => Len(p.buf) = 0)
  BY <1>1 DEF AtMost
<1>3. ChunkOf(p) = [start |-> p.start, bytes |-> head, end |-> isEnd]
  BY DEF ChunkOf
<1> HIDE DEF n
<1>4. /\ head \in Seq(Nat)
      /\ Len(head) = n
      /\ \A i \in 1 .. n : head[i] = p.buf[i]
      /\ head = <<>> => n = 0
  BY <1>1, <1>2, SMTT(60)
<1> HIDE DEF head
<1>5. isEnd \in BOOLEAN
  BY DEF isEnd
<1> HIDE DEF isEnd
<1>6. ChunkOf(p) \in Chunk
  BY <1>1, <1>3, <1>4, <1>5 DEF Chunk
<1>7. /\ ChunkOf(p).start = p.start
      /\ ChunkOf(p).bytes = head
      /\ ChunkOf(p).end = isEnd
  BY <1>3
<1>8. ChunkOf(p).end <=> ChunkOf(p).bytes = <<>> /\ p.closed
  BY <1>7, Zenon DEF isEnd
<1>9. QED
  BY <1>2, <1>4, <1>6, <1>7, <1>8

-----------------------------------------------------------------------------
(* Each step keeps the inductive invariant *)

\* The types of the fields, one by one.
LEMMA Fields ==
  ASSUME TypeOK
  PROVE  /\ pending.buf \in Seq(Nat) /\ pending.start \in Nat /\ pending.closed \in BOOLEAN
         /\ reader.offset \in Nat /\ reader.fails \in Nat /\ reader.chunk \in Chunk
         /\ reader.chunk.start \in Nat /\ reader.chunk.bytes \in Seq(Nat)
         /\ terminal \in Seq(Nat) /\ printed \in Nat
         /\ \A c \in calls : c \in Call /\ c.id \in Nat /\ c.from \in Nat
BY DEF TypeOK, Stream, Reader, Chunk, Call

LEMMA ElemsOf ==
  ASSUME NEW s, NEW x
  PROVE  x \in Elems(s) <=> \E i \in 1 .. Len(s) : x = s[i]
BY DEF Elems

LEMMA InitStream == Init => StreamInv
<1> SUFFICES ASSUME Init PROVE StreamInv
  OBVIOUS
<1>1. TypeOK
  BY DEF Init, TypeOK, Stream, Reader, Call, Chunk, NoChunk, EmptyChunk
<1>2. OffsetsName /\ ReaderBehind /\ CallsBehind /\ ReplyContinues
  BY DEF Init, OffsetsName, ReaderBehind, CallsBehind, ReplyContinues, Elems
<1>3. QED
  BY <1>1, <1>2 DEF StreamInv

LEMMA StutterKeeps == StreamInv /\ UNCHANGED vars => StreamInv'
<1> SUFFICES ASSUME StreamInv, UNCHANGED vars PROVE StreamInv'
  OBVIOUS
<1> USE DEF StreamInv, vars
<1>1. TypeOK'
  BY DEF TypeOK
<1>2. OffsetsName' /\ CallsBehind' /\ ReplyContinues'
  BY DEF OffsetsName, CallsBehind, ReplyContinues, Continues
<1>3. ReaderBehind'
  BY DEF ReaderBehind
<1>4. QED
  BY <1>1, <1>2, <1>3

LEMMA CloseKeeps == StreamInv /\ Close => StreamInv'
<1> SUFFICES ASSUME StreamInv, Close PROVE StreamInv'
  OBVIOUS
<1> USE DEF StreamInv, Close
<1>1. pending' \in Stream
  BY DEF TypeOK, Stream
<1>2. pending'.buf = pending.buf /\ pending'.start = pending.start /\ pending'.closed
  BY DEF TypeOK, Stream
<1>3. TypeOK'
  BY <1>1, <1>2 DEF TypeOK
<1>4. OffsetsName' /\ CallsBehind'
  BY <1>2 DEF OffsetsName, CallsBehind
<1>5. ReaderBehind'
  BY <1>2 DEF ReaderBehind
<1>6. ReplyContinues'
  BY <1>2 DEF ReplyContinues, Continues
<1>7. QED
  BY <1>3, <1>4, <1>5, <1>6

LEMMA GraceKeeps == StreamInv /\ GraceExpires => StreamInv'
<1> SUFFICES ASSUME StreamInv, GraceExpires PROVE StreamInv'
  OBVIOUS
<1> USE DEF StreamInv, GraceExpires
<1>1. Elems(pending.buf) \subseteq 0 .. printed - 1
  <2> SUFFICES ASSUME NEW i \in 1 .. Len(pending.buf)
               PROVE  pending.buf[i] \in 0 .. printed - 1
    BY ElemsOf
  <2>1. pending.buf[i] = pending.start + i - 1 /\ pending.start + Len(pending.buf) = printed
    BY DEF OffsetsName
  <2>2. pending.start \in Nat /\ Len(pending.buf) \in Nat /\ printed \in Nat
    BY Fields
  <2>3. QED
    BY <2>1, <2>2
<1>2. letGo' \subseteq 0 .. printed - 1
  BY <1>1 DEF OffsetsName
<1>3. TypeOK'
  <2>1. letGo' \subseteq Nat
    BY <1>2, Fields
  <2>2. QED
    BY <2>1 DEF TypeOK
<1>4. OffsetsName'
  BY <1>2 DEF OffsetsName
<1>5. ReaderBehind'
  BY DEF ReaderBehind
<1>6. CallsBehind' /\ ReplyContinues'
  BY DEF CallsBehind, ReplyContinues, Continues
<1>7. QED
  BY <1>3, <1>4, <1>5, <1>6

LEMMA AskKeeps == StreamInv /\ Ask => StreamInv'
<1> SUFFICES ASSUME StreamInv, Ask PROVE StreamInv'
  OBVIOUS
<1> DEFINE new == [id |-> reader.fails, from |-> reader.offset, phase |-> "sent"]
<1> USE DEF StreamInv, Ask
<1>1. new \in Call /\ new.id = reader.fails /\ new.from = reader.offset
  BY Fields DEF Call
<1>2. /\ reader' \in Reader /\ reader'.phase = "asking" /\ reader'.offset = reader.offset
      /\ reader'.fails = reader.fails /\ reader'.chunk = reader.chunk
  BY DEF TypeOK, Reader
<1>3. calls' = calls \union {new}
  OBVIOUS
<1> HIDE DEF new
<1>4. TypeOK'
  BY <1>1, <1>2, <1>3 DEF TypeOK
<1>5. OffsetsName'
  BY <1>2 DEF OffsetsName
<1>6. ReaderBehind'
  BY <1>2 DEF ReaderBehind
<1>7. \A c \in calls : c.id # reader.fails
  BY DEF CallsBehind
<1>8. CallsBehind'
  BY <1>1, <1>2, <1>3, <1>7, Fields DEF CallsBehind
<1>9. ReplyContinues'
  BY <1>2 DEF ReplyContinues
<1>10. QED
  BY <1>4, <1>5, <1>6, <1>8, <1>9

LEMMA FailKeeps == StreamInv /\ Fail => StreamInv'
<1> SUFFICES ASSUME StreamInv, Fail PROVE StreamInv'
  OBVIOUS
<1> USE DEF StreamInv, Fail
<1>1. NoChunk \in Chunk /\ Len(NoChunk.bytes) <= MaxRead
  BY DEF NoChunk, EmptyChunk, Chunk
<1>2. /\ reader' \in Reader /\ reader'.phase = "idle" /\ reader'.offset = reader.offset
      /\ reader'.fails = reader.fails + 1 /\ reader'.chunk = NoChunk
  <2> DEFINE next == reader.fails + 1
  <2>1. next \in Nat /\ reader \in Reader
    BY Fields, SMTT(60) DEF TypeOK
  <2>2. reader' = [reader EXCEPT !.phase = "idle", !.fails = next, !.chunk = NoChunk]
    OBVIOUS
  <2> HIDE DEF next
  <2>3. /\ reader' \in Reader /\ reader'.phase = "idle" /\ reader'.offset = reader.offset
        /\ reader'.fails = next /\ reader'.chunk = NoChunk
    BY <1>1, <2>1, <2>2 DEF Reader
  <2>4. QED
    BY <2>3 DEF next
<1>3. TypeOK'
  BY <1>1, <1>2 DEF TypeOK
<1>4. OffsetsName'
  BY <1>2 DEF OffsetsName
<1>5. ReaderBehind'
  BY <1>2 DEF ReaderBehind
<1>6. CallsBehind'
  BY <1>2, Fields, SMTT(60) DEF CallsBehind
<1>7. ReplyContinues'
  BY <1>2 DEF ReplyContinues
<1>8. QED
  BY <1>3, <1>4, <1>5, <1>6, <1>7

LEMMA StopKeeps == StreamInv /\ Stop => StreamInv'
<1> SUFFICES ASSUME StreamInv, Stop PROVE StreamInv'
  OBVIOUS
<1> USE DEF StreamInv, Stop
<1>1. NoChunk \in Chunk /\ Len(NoChunk.bytes) <= MaxRead
  BY DEF NoChunk, EmptyChunk, Chunk
<1>2. /\ reader' \in Reader /\ reader'.phase = "stopped" /\ reader'.offset = reader.offset
      /\ reader'.fails = reader.fails /\ reader'.chunk = NoChunk
  BY <1>1 DEF TypeOK, Reader
<1>3. TypeOK'
  BY <1>1, <1>2 DEF TypeOK
<1>4. OffsetsName'
  BY <1>2 DEF OffsetsName
<1>5. ReaderBehind'
  BY <1>2 DEF ReaderBehind
<1>6. CallsBehind'
  BY <1>2 DEF CallsBehind
<1>7. ReplyContinues'
  BY <1>2 DEF ReplyContinues
<1>8. QED
  BY <1>3, <1>4, <1>5, <1>6, <1>7

\* A reply leaves the invariant's part about calls and replies intact if it
\* continues the output whenever the call is the one that the reader waits for.
LEMMA AnswerKeeps ==
  ASSUME TypeOK, CallsBehind, ReplyContinues,
         NEW c \in calls, NEW chunk \in Chunk, Len(chunk.bytes) <= MaxRead,
         c.from = reader.offset => Continues(chunk),
         Answer(c, chunk),
         printed' = printed, letGo' = letGo, pending'.closed = pending.closed
  PROVE  /\ reader' \in Reader /\ reader'.offset = reader.offset
         /\ Len(reader'.chunk.bytes) <= MaxRead
         /\ calls' \subseteq Call
         /\ CallsBehind'
         /\ ReplyContinues'
<1>1. calls' = calls \ {c}
  BY DEF Answer
<1>2. CASE reader.phase = "asking" /\ reader.fails = c.id
  <2>1. /\ reader' \in Reader /\ reader'.phase = "answered" /\ reader'.offset = reader.offset
        /\ reader'.fails = reader.fails /\ reader'.chunk = chunk
    BY <1>2 DEF Answer, TypeOK, Reader
  <2>2. Continues(chunk)
    BY <1>2 DEF CallsBehind
  <2>3. ReplyContinues'
    BY <2>1, <2>2 DEF ReplyContinues, Continues
  <2>4. CallsBehind'
    BY <1>1, <1>2, <2>1 DEF CallsBehind
  <2>5. QED
    BY <1>1, <2>1, <2>3, <2>4 DEF TypeOK
<1>3. CASE ~(reader.phase = "asking" /\ reader.fails = c.id)
  <2>1. reader' = reader
    BY <1>3 DEF Answer
  <2>2. ReplyContinues'
    BY <2>1 DEF ReplyContinues, Continues
  <2>3. CallsBehind'
    BY <1>1, <2>1 DEF CallsBehind
  <2>4. QED
    BY <1>1, <2>1, <2>2, <2>3 DEF TypeOK
<1>4. QED
  BY <1>2, <1>3

\* Moving a call to its next phase does not disturb the invariant.
LEMMA PhaseKeeps ==
  ASSUME TypeOK, CallsBehind,
         NEW c \in calls, NEW phase \in {"waiting", "parked", "expired"},
         calls' = (calls \ {c}) \union {[c EXCEPT !.phase = phase]},
         reader' = reader
  PROVE  calls' \subseteq Call /\ CallsBehind'
<1> DEFINE d == [c EXCEPT !.phase = phase]
<1>1. d \in Call /\ d.id = c.id /\ d.from = c.from
  BY DEF TypeOK, Call
<1> HIDE DEF d
<1>2. calls' = (calls \ {c}) \union {d}
  BY DEF d
<1>3. calls' \subseteq Call
  BY <1>1, <1>2 DEF TypeOK
<1>4. CallsBehind'
  BY <1>1, <1>2 DEF CallsBehind
<1>5. QED
  BY <1>3, <1>4

LEMMA LookupKeeps == ASSUME StreamInv, NEW c \in calls, Lookup(c) PROVE StreamInv'
<1> USE DEF StreamInv, Lookup
<1>1. CASE listed
  <2>1. calls' \subseteq Call /\ CallsBehind'
    BY <1>1, PhaseKeeps
  <2>2. TypeOK'
    BY <1>1, <2>1 DEF TypeOK
  <2>3. OffsetsName' /\ ReplyContinues'
    BY <1>1 DEF OffsetsName, ReplyContinues, Continues
  <2>4. ReaderBehind'
    BY <1>1 DEF ReaderBehind
  <2>5. QED
    BY <2>1, <2>2, <2>3, <2>4
<1>2. CASE ~listed
  <2> DEFINE chunk == EmptyChunk(c.from, TRUE)
  <2>1. /\ chunk \in Chunk /\ chunk.bytes = <<>> /\ chunk.start = c.from /\ chunk.end = TRUE
        /\ Len(chunk.bytes) = 0
    BY Fields DEF EmptyChunk, Chunk
  <2> HIDE DEF chunk
  <2>2. ASSUME c.from = reader.offset PROVE Continues(chunk)
    <3>1. pending.closed /\ Elems(pending.buf) \subseteq letGo
      BY <1>2 DEF ReaderBehind
    <3>2. chunk.start .. printed - 1 \subseteq letGo
      <4> SUFFICES ASSUME NEW b \in reader.offset .. printed - 1 PROVE b \in letGo
        BY <2>1, <2>2
      <4>1. CASE b < pending.start
        BY <4>1, Fields, SMTT(60) DEF ReaderBehind
      <4>2. CASE b >= pending.start
        <5> DEFINE i == b - pending.start + 1
        <5>1. pending.start + Len(pending.buf) = printed
          BY DEF OffsetsName
        <5>2. /\ pending.start \in Nat /\ Len(pending.buf) \in Nat /\ printed \in Nat
              /\ reader.offset \in Nat
          BY Fields
        <5>3. i \in 1 .. Len(pending.buf) /\ pending.start + i - 1 = b
          BY <4>2, <5>1, <5>2, SMTT(60)
        <5> HIDE DEF i
        <5>4. pending.buf[i] = b
          BY <5>3 DEF OffsetsName
        <5>5. QED
          BY <3>1, <5>3, <5>4, ElemsOf
      <4>3. QED
        BY <4>1, <4>2, Fields, SMTT(60)
    <3>3. reader.offset <= chunk.start /\ reader.offset .. chunk.start - 1 = {}
      BY <2>1, <2>2, Fields, SMTT(60)
    <3>4. chunk.start + Len(chunk.bytes) <= printed
      BY <2>1, <2>2, Fields DEF OffsetsName
    <3>5. QED
      BY <2>1, <3>1, <3>2, <3>3, <3>4 DEF Continues
  <2>3. Answer(c, chunk)
    BY <1>2 DEF chunk
  <2>4. /\ reader' \in Reader /\ reader'.offset = reader.offset
        /\ Len(reader'.chunk.bytes) <= MaxRead
        /\ calls' \subseteq Call /\ CallsBehind' /\ ReplyContinues'
    BY <2>1, <2>2, <2>3, AnswerKeeps
  <2>5. TypeOK'
    BY <2>4 DEF TypeOK
  <2>6. OffsetsName'
    BY <2>4 DEF OffsetsName
  <2>7. ReaderBehind'
    BY <2>4 DEF ReaderBehind
  <2>8. QED
    BY <2>4, <2>5, <2>6, <2>7
<1>3. QED
  BY <1>1, <1>2

LEMMA ExpireKeeps == ASSUME StreamInv, NEW c \in calls, Expire(c) PROVE StreamInv'
<1> USE DEF StreamInv, Expire
<1>1. calls' \subseteq Call /\ CallsBehind'
  BY PhaseKeeps
<1>2. TypeOK'
  BY <1>1 DEF TypeOK
<1>3. OffsetsName' /\ ReplyContinues'
  BY DEF OffsetsName, ReplyContinues, Continues
<1>4. ReaderBehind'
  BY DEF ReaderBehind
<1>5. QED
  BY <1>1, <1>2, <1>3, <1>4

LEMMA NothingAfterKeeps ==
  ASSUME StreamInv, NEW c \in calls, NothingAfter(c) PROVE StreamInv'
<1> DEFINE start == IF c.from > pending.start THEN c.from ELSE pending.start
           chunk == EmptyChunk(start, FALSE)
<1> USE DEF StreamInv, NothingAfter
<1>1. /\ start \in Nat /\ start >= c.from /\ start >= pending.start
      /\ start = c.from \/ start = pending.start
  BY Fields
<1>2. Answer(c, chunk)
  OBVIOUS
<1> HIDE DEF start
<1>3. /\ chunk \in Chunk /\ chunk.bytes = <<>> /\ chunk.start = start /\ chunk.end = FALSE
      /\ Len(chunk.bytes) = 0
  BY <1>1 DEF EmptyChunk, Chunk
<1> HIDE DEF chunk
<1>4. ASSUME c.from = reader.offset PROVE Continues(chunk)
  <2>1. reader.offset <= chunk.start
    BY <1>1, <1>3, <1>4
  <2>2. reader.offset .. chunk.start - 1 \subseteq letGo
    <3>1. CASE start = c.from
      BY <1>3, <1>4, <3>1, Fields
    <3>2. CASE start = pending.start
      BY <1>3, <3>2 DEF ReaderBehind
    <3>3. QED
      BY <1>1, <3>1, <3>2
  <2>3. pending.start <= printed /\ reader.offset <= printed
    BY Fields DEF OffsetsName
  <2>4. QED
    BY <1>1, <1>3, <1>4, <2>1, <2>2, <2>3 DEF Continues
<1>5. /\ reader' \in Reader /\ reader'.offset = reader.offset
      /\ Len(reader'.chunk.bytes) <= MaxRead
      /\ calls' \subseteq Call /\ CallsBehind' /\ ReplyContinues'
  BY <1>2, <1>3, <1>4, AnswerKeeps
<1>6. TypeOK'
  BY <1>5 DEF TypeOK
<1>7. OffsetsName'
  BY <1>5 DEF OffsetsName
<1>8. ReaderBehind'
  BY <1>5 DEF ReaderBehind
<1>9. QED
  BY <1>5, <1>6, <1>7, <1>8

\* What the terminal has after a chunk: its bytes so far, then the chunk's.
LEMMA Concat ==
  ASSUME NEW s \in Seq(Nat), NEW t \in Seq(Nat)
  PROVE  /\ s \o t \in Seq(Nat)
         /\ Len(s) \in Nat /\ Len(t) \in Nat
         /\ Len(s \o t) = Len(s) + Len(t)
         /\ \A i \in 1 .. Len(s \o t) :
              \/ i \in 1 .. Len(s) /\ (s \o t)[i] = s[i]
              \/ i - Len(s) \in 1 .. Len(t) /\ (s \o t)[i] = t[i - Len(s)]
         /\ Elems(s \o t) = Elems(s) \union Elems(t)
<1>1. s \o t \in Seq(Nat) /\ Len(s) \in Nat /\ Len(t) \in Nat /\ Len(s \o t) = Len(s) + Len(t)
  OBVIOUS
<1>2. \A i \in 1 .. Len(s) : (s \o t)[i] = s[i] /\ i \in 1 .. Len(s \o t)
  BY <1>1
<1>3. \A i \in 1 .. Len(t) : (s \o t)[Len(s) + i] = t[i] /\ Len(s) + i \in 1 .. Len(s \o t)
  BY <1>1
<1>4. ASSUME NEW i \in 1 .. Len(s \o t)
      PROVE  \/ i \in 1 .. Len(s) /\ (s \o t)[i] = s[i]
             \/ i - Len(s) \in 1 .. Len(t) /\ (s \o t)[i] = t[i - Len(s)]
  BY <1>1
<1>5. ASSUME NEW x \in Elems(s \o t) PROVE x \in Elems(s) \union Elems(t)
  <2>1. PICK i \in 1 .. Len(s \o t) : x = (s \o t)[i]
    BY ElemsOf
  <2>2. CASE i \in 1 .. Len(s) /\ x = s[i]
    BY <2>2, ElemsOf
  <2>3. CASE i - Len(s) \in 1 .. Len(t) /\ x = t[i - Len(s)]
    BY <2>3, ElemsOf
  <2>4. QED
    BY <1>4, <2>1, <2>2, <2>3
<1>6. Elems(s) \subseteq Elems(s \o t)
  <2> SUFFICES ASSUME NEW i \in 1 .. Len(s) PROVE s[i] \in Elems(s \o t)
    BY ElemsOf
  <2>1. QED
    BY <1>2, ElemsOf
<1>7. Elems(t) \subseteq Elems(s \o t)
  <2> SUFFICES ASSUME NEW i \in 1 .. Len(t) PROVE t[i] \in Elems(s \o t)
    BY ElemsOf, SMTT(60)
  <2>1. QED
    BY <1>3, ElemsOf
<1>8. Elems(s \o t) = Elems(s) \union Elems(t)
  BY <1>5, <1>6, <1>7
<1>9. QED
  BY <1>1, <1>4, <1>8

LEMMA ShowKeeps == StreamInv /\ Show => StreamInv'
<1> DEFINE bytes == reader.chunk.bytes
           start == reader.chunk.start
           phase == IF reader.chunk.end THEN "ended" ELSE "idle"
           offset == start + Len(bytes)
           shown == terminal \o bytes
<1>1. SUFFICES ASSUME StreamInv, Show PROVE StreamInv'
  OBVIOUS
<1>2. TypeOK /\ OffsetsName /\ ReaderBehind /\ CallsBehind /\ Continues(reader.chunk)
  BY <1>1 DEF StreamInv, Show, ReplyContinues
<1>3. /\ terminal' = shown
      /\ reader.phase = "answered"
      /\ reader' = [reader EXCEPT !.phase = phase, !.offset = offset, !.chunk = NoChunk]
      /\ UNCHANGED <<pending, listed, calls, printed, letGo>>
  BY <1>1 DEF Show
<1>4. /\ bytes \in Seq(Nat) /\ start \in Nat /\ terminal \in Seq(Nat) /\ Len(bytes) \in Nat
      /\ reader.offset \in Nat /\ printed \in Nat /\ pending.start \in Nat
  BY <1>2, Fields
<1>5. /\ reader.offset <= start
      /\ reader.offset .. start - 1 \subseteq letGo
      /\ \A i \in 1 .. Len(bytes) : bytes[i] = start + i - 1
      /\ offset <= printed
  BY <1>2 DEF Continues
<1>6. offset \in Nat /\ offset = start + Len(bytes) /\ reader.offset <= offset
  BY <1>4, <1>5, SMTT(60)
<1>7. NoChunk \in Chunk /\ Len(NoChunk.bytes) <= MaxRead
  BY DEF NoChunk, EmptyChunk, Chunk
<1>8. phase \in {"ended", "idle"}
  OBVIOUS
<1> HIDE DEF phase, offset
<1>9. /\ reader' \in Reader /\ reader'.phase = phase /\ reader'.offset = offset
      /\ reader'.fails = reader.fails /\ reader'.chunk = NoChunk
  BY <1>2, <1>3, <1>6, <1>7, <1>8 DEF TypeOK, Reader
<1> HIDE DEF bytes, start
<1>10. /\ shown \in Seq(Nat) /\ Elems(shown) = Elems(terminal) \union Elems(bytes)
       /\ \A i \in 1 .. Len(shown) :
            \/ i \in 1 .. Len(terminal) /\ shown[i] = terminal[i]
            \/ i - Len(terminal) \in 1 .. Len(bytes) /\ shown[i] = bytes[i - Len(terminal)]
       /\ Len(terminal) \in Nat
  BY <1>4, Concat
<1> HIDE DEF shown
<1>11. TypeOK'
  BY <1>2, <1>3, <1>7, <1>9, <1>10 DEF TypeOK
<1>12. OffsetsName'
  BY <1>2, <1>3, <1>5, <1>9 DEF OffsetsName
<1>13. CallsBehind'
  <2>1. ASSUME NEW c \in calls
        PROVE  c.id <= reader.fails /\ c.id # reader.fails /\ c.from <= offset
    <3>1. c.id <= reader.fails /\ c.id # reader.fails /\ c.from <= reader.offset
      BY <1>2, <1>3 DEF CallsBehind
    <3>2. c.from \in Nat
      BY <1>2, Fields
    <3>3. QED
      BY <1>4, <1>6, <3>1, <3>2
  <2>2. QED
    BY <1>3, <1>9, <2>1 DEF CallsBehind
<1>14. ReplyContinues'
  BY <1>8, <1>9 DEF ReplyContinues
<1>15. ReaderBehind'
  <2>1. ASSUME NEW i \in 1 .. Len(shown)
        PROVE  \/ /\ i \in 1 .. Len(terminal) /\ shown[i] = terminal[i]
                  /\ terminal[i] \in Nat /\ shown[i] < reader.offset
               \/ /\ i - Len(terminal) \in 1 .. Len(bytes)
                  /\ shown[i] = start + (i - Len(terminal)) - 1
    <3>1. CASE i \in 1 .. Len(terminal) /\ shown[i] = terminal[i]
      BY <1>2, <1>4, <3>1 DEF ReaderBehind
    <3>2. CASE i - Len(terminal) \in 1 .. Len(bytes) /\ shown[i] = bytes[i - Len(terminal)]
      BY <1>5, <3>2
    <3>3. QED
      BY <1>10, <3>1, <3>2
  <2>2. ASSUME NEW i \in 1 .. Len(shown) PROVE shown[i] < offset
    <3>1. CASE shown[i] \in Nat /\ shown[i] < reader.offset
      BY <1>4, <1>6, <3>1
    <3>2. CASE i - Len(terminal) \in 1 .. Len(bytes) /\ shown[i] = start + (i - Len(terminal)) - 1
      BY <1>4, <1>6, <1>10, <3>2
    <3>3. QED
      BY <2>1, <3>1, <3>2
  <2>3. ASSUME NEW i \in 1 .. Len(shown), NEW j \in 1 .. Len(shown), i < j
        PROVE  shown[i] < shown[j]
    <3>1. CASE i \in 1 .. Len(terminal) /\ j \in 1 .. Len(terminal)
      <4>1. shown[i] = terminal[i] /\ shown[j] = terminal[j]
        BY <1>10, <2>1, <3>1
      <4>2. QED
        BY <1>2, <2>3, <3>1, <4>1 DEF ReaderBehind
    <3>2. CASE i \in 1 .. Len(terminal) /\ j \notin 1 .. Len(terminal)
      <4>1. shown[i] \in Nat /\ shown[i] < reader.offset
        BY <1>10, <2>1, <3>2, SMTT(60)
      <4>2. j - Len(terminal) \in 1 .. Len(bytes) /\ shown[j] = start + (j - Len(terminal)) - 1
        BY <2>1, <3>2
      <4>3. QED
        BY <1>4, <1>5, <1>10, <4>1, <4>2, SMTT(60)
    <3>3. CASE i \notin 1 .. Len(terminal)
      <4>1. i - Len(terminal) \in 1 .. Len(bytes) /\ shown[i] = start + (i - Len(terminal)) - 1
        BY <2>1, <3>3
      <4>2. j \notin 1 .. Len(terminal)
        BY <1>4, <1>10, <2>3, <3>3, <4>1
      <4>3. shown[j] = start + (j - Len(terminal)) - 1
        BY <2>1, <4>2
      <4>4. QED
        BY <1>4, <1>10, <2>3, <4>1, <4>3
    <3>4. QED
      BY <3>1, <3>2, <3>3
  <2>4. ASSUME NEW b \in 0 .. offset - 1 PROVE b \in Elems(shown) \union letGo
    <3>1. CASE b < reader.offset
      <4>1. b \in 0 .. reader.offset - 1
        BY <1>4, <1>6, <3>1
      <4>2. b \in Elems(terminal) \union letGo
        BY <1>2, <4>1 DEF ReaderBehind
      <4>3. QED
        BY <1>10, <4>2
    <3>2. CASE b >= reader.offset /\ b < start
      BY <1>4, <1>5, <1>6, <3>2
    <3>3. CASE b >= start
      <4> DEFINE k == b - start + 1
      <4>1. k \in 1 .. Len(bytes) /\ start + k - 1 = b
        BY <1>4, <1>6, <3>3
      <4> HIDE DEF k
      <4>2. b \in Elems(bytes)
        BY <1>5, <4>1, ElemsOf
      <4>3. QED
        BY <1>10, <4>2
    <3>4. QED
      BY <1>4, <1>6, <3>1, <3>2, <3>3
  <2>5. offset .. pending.start - 1 \subseteq letGo
    <3>1. offset .. pending.start - 1 \subseteq reader.offset .. pending.start - 1
      BY <1>4, <1>6
    <3>2. QED
      BY <1>2, <3>1 DEF ReaderBehind
  <2>6. ~listed => pending.closed /\ Elems(pending.buf) \subseteq letGo
    BY <1>2 DEF ReaderBehind
  <2>7. QED
    BY <1>3, <1>9, <2>2, <2>3, <2>4, <2>5, <2>6 DEF ReaderBehind
<1>16. QED
  BY <1>11, <1>12, <1>13, <1>14, <1>15 DEF StreamInv

LEMMA TakeKeeps == ASSUME StreamInv, NEW c \in calls, Take(c) PROVE StreamInv'
<1> DEFINE ack == Monus(c.from, pending.start)
           n == AtMost(ack, Len(pending.buf))
           rest == Acknowledge(pending, c.from)
           chunk == ChunkOf(rest)
<1>1. TypeOK /\ OffsetsName /\ ReaderBehind /\ CallsBehind /\ ReplyContinues
  BY DEF StreamInv
<1>2. /\ pending' = rest
      /\ UNCHANGED <<terminal, printed, letGo>>
      /\ \/ /\ chunk.bytes # <<>> \/ chunk.end
            /\ Answer(c, chunk)
            /\ listed' = (listed /\ ~chunk.end)
         \/ /\ chunk.bytes = <<>> /\ ~chunk.end
            /\ calls' = (calls \ {c}) \union {[c EXCEPT !.phase = "parked"]}
            /\ reader' = reader /\ listed' = listed
  BY DEF Take
<1>3. /\ pending \in Stream /\ pending.start \in Nat /\ Len(pending.buf) \in Nat
      /\ c.from \in Nat /\ reader.offset \in Nat /\ printed \in Nat /\ c.from <= reader.offset
  BY <1>1, Fields DEF TypeOK, CallsBehind
<1>4. ack \in Nat /\ (c.from > pending.start => ack = c.from - pending.start)
                 /\ (c.from <= pending.start => ack = 0)
  BY <1>3, MonusIsNat
<1> HIDE DEF ack
<1>5. rest = DropFront(pending, ack)
  BY DEF Acknowledge, ack
<1>6. /\ rest \in Stream /\ rest.closed = pending.closed
      /\ n \in 0 .. Len(pending.buf) /\ n <= ack
      /\ Len(rest.buf) = Len(pending.buf) - n
      /\ rest.start = pending.start + n
      /\ \A i \in 1 .. Len(pending.buf) - n : rest.buf[i] = pending.buf[i + n]
  BY <1>3, <1>4, <1>5, DropFrontIsSuffix
<1>7. n = ack
  <2>1. pending.start + Len(pending.buf) = printed /\ c.from <= printed
    BY <1>1, <1>3 DEF OffsetsName
  <2>2. ack <= Len(pending.buf)
    BY <1>3, <1>4, <2>1
  <2>3. QED
    BY <1>3, <1>4, <2>2 DEF AtMost
<1> HIDE DEF n, rest
<1>8. /\ rest.buf \in Seq(Nat) /\ rest.start \in Nat /\ Len(rest.buf) \in Nat
      /\ rest.start + Len(rest.buf) = printed
      /\ \A i \in 1 .. Len(rest.buf) : rest.buf[i] = rest.start + i - 1
  <2>1. rest.start + Len(rest.buf) = printed
    BY <1>1, <1>3, <1>6 DEF OffsetsName
  <2>2. ASSUME NEW i \in 1 .. Len(rest.buf) PROVE rest.buf[i] = rest.start + i - 1
    <3>1. rest.buf[i] = pending.buf[i + n] /\ i + n \in 1 .. Len(pending.buf)
      BY <1>3, <1>6, SMTT(60)
    <3>2. pending.buf[i + n] = pending.start + (i + n) - 1
      BY <1>1, <3>1 DEF OffsetsName
    <3>3. QED
      BY <1>3, <1>6, <3>1, <3>2
  <2>3. QED
    BY <1>6, <2>1, <2>2 DEF Stream
<1>9. Elems(rest.buf) \subseteq Elems(pending.buf)
  <2> SUFFICES ASSUME NEW i \in 1 .. Len(rest.buf) PROVE rest.buf[i] \in Elems(pending.buf)
    BY ElemsOf
  <2>1. rest.buf[i] = pending.buf[i + n] /\ i + n \in 1 .. Len(pending.buf)
    BY <1>3, <1>6, SMTT(60)
  <2>2. QED
    BY <2>1, ElemsOf
\* What was acknowledged lies below the reader's offset.
<1>10. reader.offset .. rest.start - 1 \subseteq letGo
  <2>1. CASE rest.start <= reader.offset
    BY <1>3, <1>8, <2>1
  <2>2. CASE rest.start > reader.offset
    <3>1. rest.start = pending.start
      BY <1>3, <1>4, <1>6, <1>7, <2>2
    <3>2. QED
      BY <1>1, <3>1 DEF ReaderBehind
  <2>3. QED
    BY <1>3, <1>8, <2>1, <2>2
<1>11. c.from <= rest.start
  BY <1>3, <1>4, <1>6, <1>7
<1>12. /\ chunk \in Chunk /\ chunk.start = rest.start /\ Len(chunk.bytes) <= MaxRead
       /\ Len(chunk.bytes) <= Len(rest.buf)
       /\ \A i \in 1 .. Len(chunk.bytes) : chunk.bytes[i] = rest.buf[i]
       /\ chunk.end <=> chunk.bytes = <<>> /\ rest.closed
       /\ chunk.bytes = <<>> => Len(rest.buf) = 0
  BY <1>6, ChunkIsPrefix
<1> HIDE DEF chunk
<1>13. ASSUME c.from = reader.offset PROVE Continues(chunk)
  <2>1. reader.offset <= chunk.start /\ reader.offset .. chunk.start - 1 \subseteq letGo
    BY <1>10, <1>11, <1>12, <1>13
  <2>2. Len(chunk.bytes) \in Nat
    BY <1>12 DEF Chunk
  <2>3. \A i \in 1 .. Len(chunk.bytes) : chunk.bytes[i] = chunk.start + i - 1
    BY <1>8, <1>12, <2>2
  <2>4. chunk.start + Len(chunk.bytes) <= printed
    BY <1>3, <1>8, <1>12, <2>2
  <2>5. chunk.end => /\ pending.closed
                     /\ chunk.bytes = <<>>
                     /\ chunk.start .. printed - 1 \subseteq letGo
    <3>1. chunk.bytes = <<>> => chunk.start = printed
      BY <1>8, <1>12
    <3>2. printed .. printed - 1 = {}
      BY <1>3
    <3>3. QED
      BY <1>6, <1>12, <3>1, <3>2
  <2>6. QED
    BY <2>1, <2>3, <2>4, <2>5 DEF Continues
<1>14. /\ reader' \in Reader /\ reader'.offset = reader.offset
       /\ Len(reader'.chunk.bytes) <= MaxRead
       /\ calls' \subseteq Call /\ CallsBehind' /\ ReplyContinues'
  <2>1. CASE Answer(c, chunk)
    <3>1. pending'.closed = pending.closed
      BY <1>2, <1>6
    <3>2. QED
      BY <1>1, <1>2, <1>12, <1>13, <2>1, <3>1, AnswerKeeps
  <2>2. CASE /\ calls' = (calls \ {c}) \union {[c EXCEPT !.phase = "parked"]}
             /\ reader' = reader
    <3>1. calls' \subseteq Call /\ CallsBehind'
      BY <1>1, <2>2, PhaseKeeps
    <3>2. pending'.closed = pending.closed
      BY <1>2, <1>6
    <3>3. ReplyContinues'
      BY <1>1, <1>2, <2>2, <3>2 DEF ReplyContinues, Continues
    <3>4. QED
      BY <1>1, <2>2, <3>1, <3>3 DEF TypeOK
  <2>3. QED
    BY <1>2, <2>1, <2>2
<1>15. TypeOK'
  <2>1. Len(rest.buf) <= Limit
    BY <1>1, <1>3, <1>6 DEF TypeOK
  <2>2. listed' \in BOOLEAN
    BY <1>1, <1>2 DEF TypeOK
  <2>3. QED
    BY <1>1, <1>2, <1>6, <1>14, <2>1, <2>2 DEF TypeOK
<1>16. OffsetsName'
  BY <1>1, <1>2, <1>8, <1>14 DEF OffsetsName
<1>17. ReaderBehind'
  <2>1. ~listed' => pending'.closed /\ Elems(pending'.buf) \subseteq letGo
    <3>1. CASE ~listed
      BY <1>1, <1>2, <1>6, <1>9, <3>1 DEF ReaderBehind
    <3>2. CASE listed /\ ~listed'
      <4>1. chunk.end
        BY <1>2, <3>2
      <4>2. rest.closed /\ Len(rest.buf) = 0
        BY <1>12, <4>1
      <4>3. Elems(rest.buf) = {}
        BY <4>2, ElemsOf
      <4>4. QED
        BY <1>2, <4>2, <4>3
    <3>3. QED
      BY <3>1, <3>2
  <2>2. QED
    BY <1>1, <1>2, <1>10, <1>14, <2>1 DEF ReaderBehind
<1>18. QED
  BY <1>14, <1>15, <1>16, <1>17 DEF StreamInv

LEMMA PushKeeps == ASSUME StreamInv, NEW n \in 1 .. MaxPush, Push(n) PROVE StreamInv'
<1> DEFINE run == [i \in 1 .. n |-> printed + i - 1]
           buf == pending.buf \o run
           grown == [pending EXCEPT !.buf = @ \o run]
           over == Monus(Len(grown.buf), Limit)
           k == AtMost(over, Len(grown.buf))
           rest == DropFront(grown, over)
<1>1. TypeOK /\ OffsetsName /\ ReaderBehind /\ CallsBehind /\ ReplyContinues
  BY DEF StreamInv
<1>2. /\ ~pending.closed
      /\ pending' = rest
      /\ printed' = printed + n
      /\ letGo' = letGo \union {grown.buf[i] : i \in 1 .. over}
      /\ UNCHANGED <<listed, calls, reader, terminal>>
  BY DEF Push
<1>3. /\ pending \in Stream /\ pending.buf \in Seq(Nat) /\ pending.start \in Nat
      /\ Len(pending.buf) \in Nat /\ printed \in Nat /\ reader.offset \in Nat /\ n \in Nat
      /\ n > 0 /\ pending.start + Len(pending.buf) = printed
  BY <1>1, Fields DEF TypeOK, OffsetsName
<1>4. run \in Seq(Nat) /\ Len(run) = n /\ \A i \in 1 .. n : run[i] = printed + i - 1
  BY <1>3
<1> HIDE DEF run
<1>5. /\ buf \in Seq(Nat) /\ Len(buf) = Len(pending.buf) + n /\ Len(buf) \in Nat
      /\ Elems(buf) = Elems(pending.buf) \union Elems(run)
      /\ \A i \in 1 .. Len(buf) :
           \/ i \in 1 .. Len(pending.buf) /\ buf[i] = pending.buf[i]
           \/ i - Len(pending.buf) \in 1 .. n /\ buf[i] = run[i - Len(pending.buf)]
  BY <1>3, <1>4, Concat
<1> HIDE DEF buf
<1>6. grown = [pending EXCEPT !.buf = buf]
  BY DEF buf
<1> HIDE DEF grown
<1>7. grown \in Stream /\ grown.buf = buf /\ grown.start = pending.start
      /\ grown.closed = pending.closed
  BY <1>3, <1>5, <1>6 DEF Stream
<1>8. \A i \in 1 .. Len(buf) : buf[i] = pending.start + i - 1
  <2> SUFFICES ASSUME NEW i \in 1 .. Len(buf) PROVE buf[i] = pending.start + i - 1
    OBVIOUS
  <2>1. CASE i \in 1 .. Len(pending.buf) /\ buf[i] = pending.buf[i]
    BY <1>1, <2>1 DEF OffsetsName
  <2>2. CASE i - Len(pending.buf) \in 1 .. n /\ buf[i] = run[i - Len(pending.buf)]
    <3>1. buf[i] = printed + (i - Len(pending.buf)) - 1
      BY <1>4, <2>2
    <3>2. /\ printed = pending.start + Len(pending.buf) /\ Len(pending.buf) \in Nat
          /\ pending.start \in Nat /\ i \in Nat
      BY <1>3, <1>5
    <3>3. QED
      BY <3>1, <3>2
  <2>3. QED
    BY <1>5, <2>1, <2>2
<1>9. over \in Nat /\ (Len(buf) > Limit => over = Len(buf) - Limit)
                   /\ (Len(buf) <= Limit => over = 0)
  <2>1. over = Monus(Len(buf), Limit)
    BY <1>7
  <2>2. QED
    BY <1>5, <2>1, MonusIsNat
<1> HIDE DEF over
<1>10. /\ rest \in Stream /\ rest.closed = pending.closed
       /\ k \in 0 .. Len(buf) /\ k <= over
       /\ Len(rest.buf) = Len(buf) - k
       /\ rest.start = pending.start + k
       /\ \A i \in 1 .. Len(buf) - k : rest.buf[i] = buf[i + k]
  BY <1>7, <1>9, DropFrontIsSuffix
<1>11. k = over /\ k \in Nat
  BY <1>3, <1>5, <1>7, <1>9 DEF AtMost
<1> HIDE DEF k, rest
\* The sizes alone.
<1>sizes. /\ pending.start \in Nat /\ Len(pending.buf) \in Nat /\ n \in Nat
       /\ printed = pending.start + Len(pending.buf) /\ printed' = printed + n
       /\ Len(buf) = Len(pending.buf) + n
       /\ over \in Nat /\ over <= Len(buf)
       /\ Len(rest.buf) = Len(buf) - over /\ rest.start = pending.start + over
  BY <1>2, <1>3, <1>5, <1>10, <1>11
<1>12. Len(rest.buf) <= Limit
  <2>1. (Len(buf) > Limit => over = Len(buf) - Limit) /\ (Len(buf) <= Limit => over = 0)
    BY <1>9
  <2>2. QED
    BY <1>sizes, <2>1, SMTT(60)
\* The limit pushes out the oldest bytes.
<1>13. letGo' = letGo \union (pending.start .. pending.start + over - 1)
  <2>1. {grown.buf[i] : i \in 1 .. over} = pending.start .. pending.start + over - 1
    <3>1. over \in 0 .. Len(buf)
      BY <1>10, <1>11
    <3>2. ASSUME NEW i \in 1 .. over
          PROVE  grown.buf[i] \in pending.start .. pending.start + over - 1
      <4>1. i \in 1 .. Len(buf) /\ i \in Nat /\ i <= over
        BY <1>5, <1>9, <3>1
      <4>2. grown.buf[i] = buf[i] /\ buf[i] = pending.start + i - 1
        BY <1>7, <1>8, <4>1
      <4>3. QED
        BY <1>3, <1>9, <4>1, <4>2, SMTT(60)
    <3>3. ASSUME NEW b \in pending.start .. pending.start + over - 1
          PROVE  \E i \in 1 .. over : b = grown.buf[i]
      <4> DEFINE i == b - pending.start + 1
      <4>1. i \in 1 .. over /\ i \in 1 .. Len(buf) /\ pending.start + i - 1 = b
        <5>1. b \in Int /\ b >= pending.start /\ b <= pending.start + over - 1
          BY <1>sizes
        <5>2. i \in Int /\ i >= 1 /\ i <= over /\ pending.start + i - 1 = b
          <6>1. over \in Int /\ pending.start \in Int
            BY <1>sizes
          <6>2. QED
            BY <5>1, <6>1, IndexOf
        <5> HIDE DEF i
        <5>3. i <= Len(buf)
          BY <1>sizes, <5>2
        <5>4. QED
          BY <1>sizes, <5>2, <5>3
      <4> HIDE DEF i
      <4>2. grown.buf[i] = b
        BY <1>7, <1>8, <4>1
      <4>3. QED
        BY <4>1, <4>2
    <3>4. QED
      BY <3>2, <3>3
  <2>2. QED
    BY <1>2, <2>1
<1>14. letGo' \subseteq 0 .. printed' - 1
  <2>1. letGo \subseteq 0 .. printed' - 1
    BY <1>1, <1>2, <1>3 DEF OffsetsName
  <2>2. pending.start .. pending.start + over - 1 \subseteq 0 .. printed' - 1
    <3>1. pending.start + over <= printed'
      BY <1>sizes
    <3>2. printed' \in Nat
      BY <1>sizes
    <3>3. QED
      BY <1>sizes, <3>1, <3>2, SMTT(60)
  <2>3. QED
    BY <1>13, <2>1, <2>2
<1>15. TypeOK'
  <2>1. printed' \in Nat /\ letGo' \subseteq Nat
    BY <1>2, <1>3, <1>14
  <2>2. QED
    BY <1>1, <1>2, <1>10, <1>12, <2>1 DEF TypeOK
<1>16. OffsetsName'
  <2>1. rest.start + Len(rest.buf) = printed'
    BY <1>sizes
  <2>2. ASSUME NEW i \in 1 .. Len(rest.buf) PROVE rest.buf[i] = rest.start + i - 1
    <3>1. rest.buf[i] = buf[i + k] /\ i + k \in 1 .. Len(buf)
      BY <1>3, <1>5, <1>10, SMTT(60)
    <3>2. buf[i + k] = pending.start + (i + k) - 1
      BY <1>8, <3>1
    <3>3. QED
      BY <1>3, <1>10, <3>1, <3>2
  <2>3. reader'.offset <= printed'
    BY <1>1, <1>2, <1>3 DEF OffsetsName
  <2>4. QED
    BY <1>2, <1>14, <2>1, <2>2, <2>3 DEF OffsetsName
<1>17. ReaderBehind'
  <2>1. reader.offset .. rest.start - 1 \subseteq letGo'
    <3> SUFFICES ASSUME NEW b \in reader.offset .. rest.start - 1 PROVE b \in letGo'
      OBVIOUS
    <3>1. CASE b < pending.start
      <4>1. b \in reader.offset .. pending.start - 1
        BY <1>3, <3>1
      <4>2. b \in letGo
        BY <1>1, <4>1 DEF ReaderBehind
      <4>3. QED
        BY <1>2, <4>2
    <3>2. CASE b >= pending.start
      <4>1. b \in pending.start .. pending.start + over - 1
        BY <1>3, <1>9, <1>10, <1>11, <3>2
      <4>2. QED
        BY <1>13, <4>1
    <3>3. QED
      BY <1>3, <3>1, <3>2
  <2>2. listed'
    BY <1>1, <1>2 DEF ReaderBehind
  <2>3. letGo \subseteq letGo'
    BY <1>2
  <2>4. QED
    BY <1>1, <1>2, <2>1, <2>2, <2>3 DEF ReaderBehind
<1>18. CallsBehind'
  BY <1>1, <1>2 DEF CallsBehind
<1>19. ReplyContinues'
  <2> SUFFICES ASSUME reader.phase = "answered", Continues(reader.chunk)
               PROVE  Continues(reader.chunk)'
    BY <1>1, <1>2 DEF ReplyContinues
  <2>1. ~reader.chunk.end
    BY <1>2 DEF Continues
  <2>2. reader.chunk.start + Len(reader.chunk.bytes) <= printed'
    <3>1. reader.chunk.start \in Nat /\ Len(reader.chunk.bytes) \in Nat
      BY <1>1, Fields
    <3>2. QED
      BY <1>2, <1>3, <3>1 DEF Continues
  <2>3. QED
    BY <1>2, <2>1, <2>2 DEF Continues
<1>20. QED
  BY <1>15, <1>16, <1>17, <1>18, <1>19 DEF StreamInv

-----------------------------------------------------------------------------
(* The theorems *)

LEMMA NextKeeps == StreamInv /\ [Next]_vars => StreamInv'
<1> SUFFICES ASSUME StreamInv, [Next]_vars PROVE StreamInv'
  OBVIOUS
<1>1. ASSUME NEW n \in 1 .. MaxPush, Push(n) PROVE StreamInv'
  BY <1>1, PushKeeps
<1>2. ASSUME BackendStep PROVE StreamInv'
  <2> SUFFICES ASSUME NEW c \in calls, Lookup(c) \/ Take(c) \/ Expire(c) \/ NothingAfter(c)
               PROVE  StreamInv'
    BY <1>2 DEF BackendStep
  <2>1. QED
    BY LookupKeeps, TakeKeeps, ExpireKeeps, NothingAfterKeeps
<1>3. QED
  BY <1>1, <1>2, CloseKeeps, GraceKeeps, AskKeeps, FailKeeps, ShowKeeps, StopKeeps,
     StutterKeeps DEF Next

\* The stream and its reader always agree on which bytes have arrived: offsets
\* name the same byte on both sides, the terminal is in order, and the stream
\* lets go only of what arrived or was given up (output_stream.rs, outputReader.ts).
THEOREM StreamInvariant == Spec => []StreamInv
BY InitStream, NextKeeps, PTL DEF Spec

\* The backlog and the chunks stay within OUTPUT_LIMIT and MAX_READ.
THEOREM TypeCorrect == Spec => []TypeOK
<1>1. StreamInv => TypeOK
  BY DEF StreamInv
<1>2. QED
  BY <1>1, StreamInvariant, PTL

\* No byte leaves the stream before it is in the terminal or given up, whichever
\* read_output calls fail, repeat or answer late.
THEOREM NothingVanishes == Spec => []NoByteVanishes
<1>1. StreamInv => NoByteVanishes
  <2> SUFFICES ASSUME StreamInv, NEW b \in 0 .. printed - 1
               PROVE  b \in Elems(pending.buf) \union Elems(terminal) \union letGo
    BY DEF NoByteVanishes
  <2>1. /\ reader.offset \in Nat /\ pending.start \in Nat /\ Len(pending.buf) \in Nat
        /\ printed \in Nat /\ pending.start + Len(pending.buf) = printed
    BY Fields DEF StreamInv, OffsetsName
  <2>2. CASE b < reader.offset
    BY <2>1, <2>2 DEF StreamInv, ReaderBehind
  <2>3. CASE b >= reader.offset /\ b < pending.start
    BY <2>1, <2>3 DEF StreamInv, ReaderBehind
  <2>4. CASE b >= pending.start
    <3> DEFINE i == b - pending.start + 1
    <3>1. i \in 1 .. Len(pending.buf) /\ pending.start + i - 1 = b
      BY <2>1, <2>4
    <3> HIDE DEF i
    <3>2. pending.buf[i] = b
      BY <3>1 DEF StreamInv, OffsetsName
    <3>3. QED
      BY <3>1, <3>2, ElemsOf
  <2>5. QED
    BY <2>1, <2>2, <2>3, <2>4
<1>2. QED
  BY <1>1, StreamInvariant, PTL

-----------------------------------------------------------------------------
(* Refinement: the protocol implements OrderedDelivery *)

\* Bytes after the terminal's last one and below the reader's offset were given up.
LEMMA SkippedWereGivenUp ==
  ASSUME TypeOK, ReaderBehind, NEW b \in 0 .. reader.offset - 1,
         Len(terminal) > 0 => b > terminal[Len(terminal)]
  PROVE  b \in letGo
<1>1. Len(terminal) \in Nat /\ \A i \in 1 .. Len(terminal) : terminal[i] \in Nat
  BY Fields
<1>2. b \notin Elems(terminal)
  <2> SUFFICES ASSUME NEW i \in 1 .. Len(terminal), b = terminal[i] PROVE FALSE
    BY ElemsOf
  <2>1. Len(terminal) \in 1 .. Len(terminal)
    BY <1>1
  <2>2. CASE i = Len(terminal)
    BY <1>1, <2>1, <2>2
  <2>3. CASE i < Len(terminal)
    <3>1. terminal[i] < terminal[Len(terminal)]
      BY <2>1, <2>3 DEF ReaderBehind
    <3>2. QED
      BY <1>1, <2>1, <3>1
  <2>4. QED
    BY <1>1, <2>2, <2>3
<1>3. QED
  BY <1>2 DEF ReaderBehind

LEMMA BackendIsSilent ==
  ASSUME TypeOK, NEW c \in calls, Lookup(c) \/ Take(c) \/ Expire(c) \/ NothingAfter(c)
  PROVE  UNCHANGED <<printed, letGo, terminal, pending.closed, (reader.phase = "ended")>>
<1>1. ASSUME NEW chunk, Answer(c, chunk)
      PROVE  (reader'.phase = "ended") = (reader.phase = "ended")
  <2>1. CASE reader.phase = "asking" /\ reader.fails = c.id
    BY <1>1, <2>1 DEF Answer, TypeOK, Reader
  <2>2. CASE ~(reader.phase = "asking" /\ reader.fails = c.id)
    BY <1>1, <2>2 DEF Answer
  <2>3. QED
    BY <2>1, <2>2
<1>2. CASE Lookup(c)
  BY <1>1, <1>2 DEF Lookup
<1>3. CASE Take(c)
  <2>1. pending'.closed = pending.closed
    BY <1>3 DEF Take, Acknowledge, DropFront
  <2>2. QED
    BY <1>1, <1>3, <2>1 DEF Take
<1>4. CASE Expire(c)
  BY <1>4 DEF Expire
<1>5. CASE NothingAfter(c)
  BY <1>1, <1>5 DEF NothingAfter
<1>6. QED
  BY <1>2, <1>3, <1>4, <1>5

LEMMA ShowDelivers ==
  ASSUME StreamInv, Show PROVE [Delivery!Next]_(Delivery!vars)
<1> DEFINE bytes == reader.chunk.bytes
           start == reader.chunk.start
<1>1. /\ TypeOK /\ OffsetsName /\ ReaderBehind /\ Continues(reader.chunk)
      /\ reader.phase = "answered" /\ reader \in Reader
      /\ terminal' = terminal \o bytes
      /\ reader'.phase = IF reader.chunk.end THEN "ended" ELSE "idle"
      /\ UNCHANGED <<pending, listed, calls, printed, letGo>>
  BY DEF StreamInv, Show, ReplyContinues, TypeOK, Reader
<1>2. /\ bytes \in Seq(Nat) /\ start \in Nat /\ terminal \in Seq(Nat)
      /\ reader.offset \in Nat /\ printed \in Nat
  BY <1>1, Fields
<1>3. /\ reader.offset <= start
      /\ reader.offset .. start - 1 \subseteq letGo
      /\ \A i \in 1 .. Len(bytes) : bytes[i] = start + i - 1
      /\ start + Len(bytes) <= printed
  BY <1>1 DEF Continues
<1>4. /\ Len(terminal) \in Nat /\ Len(bytes) \in Nat
      /\ Len(terminal') = Len(terminal) + Len(bytes)
      /\ \A i \in 1 .. Len(terminal) : terminal'[i] = terminal[i]
      /\ \A i \in 1 .. Len(bytes) : terminal'[Len(terminal) + i] = bytes[i]
      /\ bytes = <<>> => terminal' = terminal
  BY <1>1, <1>2
\* What lies between the terminal's last byte and the chunk was given up.
<1>5. ASSUME NEW b \in 0 .. start - 1, Len(terminal) > 0 => b > terminal[Len(terminal)]
      PROVE  b \in letGo
  <2>1. CASE b < reader.offset
    <3>1. b \in 0 .. reader.offset - 1
      BY <1>2, <2>1
    <3>2. QED
      BY <1>1, <1>5, <3>1, SkippedWereGivenUp
  <2>2. CASE b >= reader.offset
    <3>1. b \in reader.offset .. start - 1
      BY <1>2, <2>2
    <3>2. QED
      BY <1>3, <3>1
  <2>3. QED
    BY <1>2, <2>1, <2>2
<1>6. \A i \in 1 .. Len(terminal) : terminal[i] \in Nat
  BY <1>2
<1> HIDE DEF bytes, start
<1>7. CASE reader.chunk.end
  <2>1. /\ pending.closed /\ bytes = <<>> /\ start .. printed - 1 \subseteq letGo
    BY <1>1, <1>7 DEF Continues, bytes, start
  <2>2. Delivery!NextByte .. printed - 1 \subseteq letGo
    <3> SUFFICES ASSUME NEW b \in Delivery!NextByte .. printed - 1 PROVE b \in letGo
      OBVIOUS
    <3>1. /\ b \in Int /\ b >= 0 /\ b <= printed - 1
          /\ Len(terminal) > 0 => b > terminal[Len(terminal)]
      <4>1. CASE Len(terminal) = 0
        <5>1. Delivery!NextByte = 0
          BY <4>1 DEF Delivery!NextByte, Delivery!Before
        <5>2. QED
          BY <1>2, <4>1, <5>1
      <4>2. CASE Len(terminal) > 0
        <5>1. Len(terminal) \in 1 .. Len(terminal)
          BY <1>4, <4>2
        <5>2. Delivery!NextByte = terminal[Len(terminal)] + 1
          BY <1>4, <4>2 DEF Delivery!NextByte, Delivery!Before
        <5>3. terminal[Len(terminal)] \in Nat
          BY <1>6, <5>1
        <5>4. QED
          BY <1>2, <5>2, <5>3
      <4>3. QED
        BY <1>4, <4>1, <4>2
    <3>2. CASE b < start
      BY <1>2, <1>5, <3>1, <3>2
    <3>3. CASE b >= start
      BY <1>2, <2>1, <3>1, <3>3
    <3>4. QED
      BY <1>2, <3>1, <3>2, <3>3
  <2>3. UNCHANGED <<printed, letGo, terminal, pending.closed>>
    BY <1>1, <1>4, <2>1
  <2>4. (reader.phase = "ended")' = TRUE
    BY <1>1, <1>7
  <2>5. Delivery!End
    BY <2>1, <2>2, <2>3, <2>4 DEF Delivery!End
  <2>6. QED
    BY <2>5 DEF Delivery!Next
<1>8. CASE ~reader.chunk.end /\ bytes = <<>>
  BY <1>1, <1>4, <1>8 DEF Delivery!vars
<1>9. CASE ~reader.chunk.end /\ bytes # <<>>
  <2>1. Len(bytes) > 0
    BY <1>2, <1>4, <1>9
  <2>2. ASSUME NEW i \in Len(terminal) + 1 .. Len(terminal')
        PROVE  /\ Delivery!Before(terminal', i) < terminal'[i]
               /\ terminal'[i] < printed
               /\ Delivery!Before(terminal', i) + 1 .. terminal'[i] - 1 \subseteq letGo
    <3> DEFINE k == i - Len(terminal)
    <3>1. k \in 1 .. Len(bytes) /\ i = Len(terminal) + k
      BY <1>4
    <3> HIDE DEF k
    <3>2. terminal'[i] = start + k - 1
      BY <1>3, <1>4, <3>1 DEF bytes, start
    <3>3. terminal'[i] < printed
      BY <1>2, <1>3, <1>4, <3>1, <3>2, SMTT(60) DEF bytes, start
    <3>4. CASE k > 1
      <4>1. k - 1 \in 1 .. Len(bytes) /\ i - 1 = Len(terminal) + (k - 1) /\ i # 1
        BY <1>4, <3>1, <3>4
      <4>2. terminal'[i - 1] = start + (k - 1) - 1
        BY <1>3, <1>4, <4>1 DEF bytes, start
      <4>3. Delivery!Before(terminal', i) = start + (k - 1) - 1
        BY <4>1, <4>2 DEF Delivery!Before
      <4>4. Delivery!Before(terminal', i) + 1 .. terminal'[i] - 1 = {}
        BY <1>2, <1>4, <3>1, <3>2, <4>3
      <4>5. QED
        BY <1>2, <1>4, <3>1, <3>2, <3>3, <4>3, <4>4
    <3>5. CASE k = 1 /\ Len(terminal) = 0
      <4>1. Delivery!Before(terminal', i) = -1
        BY <3>1, <3>5 DEF Delivery!Before
      <4>2. terminal'[i] = start
        BY <1>2, <3>2, <3>5
      <4>3. 0 .. start - 1 \subseteq letGo
        BY <1>5, <3>5
      <4>4. QED
        BY <1>2, <3>3, <4>1, <4>2, <4>3
    <3>6. CASE k = 1 /\ Len(terminal) > 0
      <4>1. Len(terminal) \in 1 .. Len(terminal) /\ i = Len(terminal) + 1 /\ i # 1 /\ i - 1 = Len(terminal)
        BY <1>4, <3>1, <3>6
      <4> DEFINE last == terminal[Len(terminal)]
      <4>2. Delivery!Before(terminal', i) = last
        BY <1>4, <4>1 DEF Delivery!Before
      <4>3. last \in Nat /\ last < reader.offset
        BY <1>1, <1>6, <4>1 DEF ReaderBehind
      <4>4. terminal'[i] = start
        BY <1>2, <3>2, <3>6
      <4>5. ASSUME NEW b \in last + 1 .. start - 1 PROVE b \in letGo
        <5>1. b \in 0 .. start - 1 /\ b > last
          BY <1>2, <4>3
        <5>2. QED
          BY <1>5, <5>1
      <4>6. last < start
        BY <1>2, <1>3, <4>3 DEF start
      <4> HIDE DEF last
      <4>7. QED
        BY <3>3, <4>2, <4>4, <4>5, <4>6
    <3>7. QED
      BY <1>4, <3>1, <3>4, <3>5, <3>6
  <2>3. ~(reader.phase = "ended") /\ ~(reader'.phase = "ended")
    BY <1>1, <1>9
  <2>4. Len(terminal') > Len(terminal)
    BY <1>4, <2>1
  <2>5. Delivery!Show
    BY <1>1, <1>4, <2>2, <2>3, <2>4 DEF Delivery!Show
  <2>6. QED
    BY <2>5 DEF Delivery!Next
<1>10. QED
  BY <1>7, <1>8, <1>9

LEMMA StepDelivers ==
  ASSUME StreamInv, StreamInv', [Next]_vars
  PROVE  [Delivery!Next]_(Delivery!vars)
<1>1. ASSUME NEW n \in 1 .. MaxPush, Push(n) PROVE Delivery!Produce
  <2>1. /\ ~pending.closed /\ printed' = printed + n /\ letGo \subseteq letGo'
        /\ UNCHANGED <<reader, terminal>>
    BY <1>1 DEF Push
  <2>2. pending'.closed = pending.closed
    BY <1>1 DEF Push, DropFront, StreamInv, TypeOK, Stream
  <2>3. printed \in Nat /\ n \in Nat /\ n > 0
    BY Fields DEF StreamInv
  <2>4. printed' \in Nat /\ printed' > printed
    BY <2>1, <2>3
  <2>5. letGo' \subseteq 0 .. printed' - 1
    BY DEF StreamInv, OffsetsName
  <2>6. QED
    BY <2>1, <2>2, <2>4, <2>5 DEF Delivery!Produce
<1>2. ASSUME Close PROVE Delivery!Finish
  <2>1. pending'.closed = TRUE /\ ~pending.closed
    BY <1>2 DEF Close, StreamInv, TypeOK, Stream
  <2>2. QED
    BY <1>2, <2>1 DEF Close, Delivery!Finish
<1>3. ASSUME GraceExpires PROVE Delivery!GiveUp
  <2>1. letGo' \subseteq 0 .. printed' - 1
    BY DEF StreamInv, OffsetsName
  <2>2. QED
    BY <1>3, <2>1 DEF GraceExpires, Delivery!GiveUp
<1>4. ASSUME BackendStep PROVE UNCHANGED Delivery!vars
  BY <1>4, BackendIsSilent DEF BackendStep, StreamInv, Delivery!vars
<1>5. ASSUME Ask \/ Fail \/ Stop PROVE UNCHANGED Delivery!vars
  <2>1. /\ reader.phase # "ended" /\ reader'.phase # "ended"
        /\ UNCHANGED <<printed, letGo, terminal, pending>>
    BY <1>5 DEF Ask, Fail, Stop, StreamInv, TypeOK, Reader
  <2>2. QED
    BY <2>1 DEF Delivery!vars
<1>6. ASSUME UNCHANGED vars PROVE UNCHANGED Delivery!vars
  BY <1>6 DEF vars, Delivery!vars
<1>7. QED
  BY <1>1, <1>2, <1>3, <1>4, <1>5, <1>6, ShowDelivers DEF Next, Delivery!Next

\* Every behaviour of the stream, its reader and the failing calls between them
\* is one of ordered delivery: bytes in order, each once, none skipped that was
\* not given up, and the end only after the last one.
THEOREM Implements == Spec => ImplementsDelivery
<1>1. Init => Delivery!Init
  BY DEF Init, Delivery!Init
<1>2. QED
  BY <1>1, StepDelivers, StreamInvariant, PTL
     DEF Spec, ImplementsDelivery, Delivery!Spec
=============================================================================
