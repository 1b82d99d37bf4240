---------------------------- MODULE OutputStream ----------------------------
(***************************************************************************)
(* How a terminal session's output reaches its terminal.                   *)
(*                                                                         *)
(* The session pushes bytes into its OutputStream (output_stream.rs) and,  *)
(* when it is over, closes it.  The pane's OutputReader (outputReader.ts)   *)
(* pulls: read_output(from) returns what follows offset `from', and tells   *)
(* the stream that the bytes before it arrived.  A call may fail at any     *)
(* moment, before or after the backend answered it; the backend still      *)
(* executes it, concurrently with the retry.                                *)
(*                                                                         *)
(* A byte is represented by the offset at which the session printed it, so  *)
(* the values in `buf' and `terminal' are independent of the offsets that   *)
(* the stream and the reader compute.                                       *)
(***************************************************************************)
EXTENDS Integers, Sequences

CONSTANTS
  Total,     \* bound: bytes the session prints
  MaxPush,   \* bound: bytes in one on_data call
  Limit,     \* OUTPUT_LIMIT
  MaxRead,   \* MAX_READ
  MaxFails   \* bound: read_output calls that fail

ASSUME ConstantsAssumption ==
  /\ Total \in Nat
  /\ MaxPush \in Nat \ {0}
  /\ Limit \in Nat \ {0}
  /\ MaxRead \in Nat \ {0}
  /\ MaxFails \in Nat

VARIABLES
  pending,   \* the stream: unread output, the offset of its first byte, closed
  listed,    \* whether OutputStreams still knows the session
  calls,     \* the read_output calls the backend is executing
  reader,    \* the OutputReader
  terminal,  \* the bytes the terminal has taken
  printed,   \* history: how many bytes the session has printed
  letGo      \* history: bytes given up before a read acknowledged them

vars == <<pending, listed, calls, reader, terminal, printed, letGo>>

-----------------------------------------------------------------------------
(* The stream *)

Elems(s) == {s[i] : i \in 1 .. Len(s)}

Monus(a, b) == IF a > b THEN a - b ELSE 0

AtMost(a, b) == IF a < b THEN a ELSE b

\* Pending::drop_front
DropFront(p, count) ==
  LET n == AtMost(count, Len(p.buf))
  IN  [buf |-> SubSeq(p.buf, n + 1, Len(p.buf)), start |-> p.start + n, closed |-> p.closed]

\* What Pending::take leaves of the stream, and the chunk it looks at.
Acknowledge(p, from) == DropFront(p, Monus(from, p.start))

ChunkOf(p) ==
  LET bytes == SubSeq(p.buf, 1, AtMost(MaxRead, Len(p.buf)))
  IN  [start |-> p.start, bytes |-> bytes, end |-> bytes = <<>> /\ p.closed]

EmptyChunk(from, isEnd) == [start |-> from, bytes |-> <<>>, end |-> isEnd]

Chunk == [start : Nat, bytes : Seq(Nat), end : BOOLEAN]

NoChunk == EmptyChunk(0, FALSE)

-----------------------------------------------------------------------------

Call == [id : Nat, from : Nat, phase : {"sent", "waiting", "parked", "expired"}]

Stream == [buf : Seq(Nat), start : Nat, closed : BOOLEAN]

Reader == [phase : {"idle", "asking", "answered", "ended", "stopped"},
           offset : Nat, fails : Nat, chunk : Chunk]

Init ==
  /\ pending = [buf |-> <<>>, start |-> 0, closed |-> FALSE]
  /\ listed = TRUE
  /\ calls = {}
  /\ reader = [phase |-> "idle", offset |-> 0, fails |-> 0, chunk |-> NoChunk]
  /\ terminal = <<>>
  /\ printed = 0
  /\ letGo = {}

(* The session *)

\* Mutant of Push: the backlog has no limit.
PushUnbounded(n) ==
  /\ ~pending.closed
  /\ printed + n <= Total
  /\ pending' = [pending EXCEPT !.buf = @ \o [i \in 1 .. n |-> printed + i - 1]]
  /\ printed' = printed + n
  /\ UNCHANGED <<listed, calls, reader, terminal, letGo>>

\* Mutant of Push: the bytes over the limit go, but the offset stays.
PushKeepingStart(n) ==
  LET grown == [pending EXCEPT !.buf = @ \o [i \in 1 .. n |-> printed + i - 1]]
      over  == Monus(Len(grown.buf), Limit)
  IN  /\ ~pending.closed
      /\ printed + n <= Total
      /\ pending' = [DropFront(grown, over) EXCEPT !.start = pending.start]
      /\ printed' = printed + n
      /\ letGo' = letGo \union {grown.buf[i] : i \in 1 .. over}
      /\ UNCHANGED <<listed, calls, reader, terminal>>

\* OutputStream::push: append, then drop the oldest bytes over the limit.
Push(n) ==
  LET grown == [pending EXCEPT !.buf = @ \o [i \in 1 .. n |-> printed + i - 1]]
      over  == Monus(Len(grown.buf), Limit)
  IN  /\ ~pending.closed
      /\ printed + n <= Total
      /\ pending' = DropFront(grown, over)
      /\ printed' = printed + n
      /\ letGo' = letGo \union {grown.buf[i] : i \in 1 .. over}
      /\ UNCHANGED <<listed, calls, reader, terminal>>

\* TauriSessionSink::end_output: the session's final status.
Close ==
  /\ ~pending.closed
  /\ pending' = [pending EXCEPT !.closed = TRUE]
  /\ UNCHANGED <<listed, calls, reader, terminal, printed, letGo>>

\* ENDED_OUTPUT_GRACE is over: the stream is forgotten, read or not.
GraceExpires ==
  /\ pending.closed
  /\ listed
  /\ listed' = FALSE
  /\ letGo' = letGo \union Elems(pending.buf)
  /\ UNCHANGED <<pending, calls, reader, terminal, printed>>

(* A read_output call in the backend *)

\* The call returns: its reply travels to the reader, if the reader still
\* waits for this call.
Answer(c, chunk) ==
  /\ calls' = calls \ {c}
  /\ reader' = IF reader.phase = "asking" /\ reader.fails = c.id
               THEN [reader EXCEPT !.phase = "answered", !.chunk = chunk]
               ELSE reader

\* Mutant of Lookup: a read of a session that is gone waits for it.
LookupListedOnly(c) ==
  /\ c.phase = "sent"
  /\ listed
  /\ calls' = (calls \ {c}) \union {[c EXCEPT !.phase = "waiting"]}
  /\ UNCHANGED <<pending, listed, reader, terminal, printed, letGo>>

\* read_session_output: an unknown session reads as ended.
Lookup(c) ==
  /\ c.phase = "sent"
  /\ IF listed
     THEN /\ calls' = (calls \ {c}) \union {[c EXCEPT !.phase = "waiting"]}
          /\ UNCHANGED reader
     ELSE Answer(c, EmptyChunk(c.from, TRUE))
  /\ UNCHANGED <<pending, listed, terminal, printed, letGo>>

\* Mutant of Take: handing bytes out lets go of them at once.
TakeForgetting(c) ==
  LET rest  == Acknowledge(pending, c.from)
      chunk == ChunkOf(rest)
  IN  /\ c.phase \in {"waiting", "parked"}
      /\ pending' = DropFront(rest, Len(chunk.bytes))
      /\ IF chunk.bytes # <<>> \/ chunk.end
         THEN /\ Answer(c, chunk)
              /\ listed' = (listed /\ ~chunk.end)
         ELSE /\ calls' = (calls \ {c}) \union {[c EXCEPT !.phase = "parked"]}
              /\ UNCHANGED <<reader, listed>>
      /\ UNCHANGED <<terminal, printed, letGo>>

\* OutputStream::read takes what there is, or parks until output arrives;
\* reading the end lets the stream go.
Take(c) ==
  LET rest  == Acknowledge(pending, c.from)
      chunk == ChunkOf(rest)
  IN  /\ c.phase \in {"waiting", "parked"}
      /\ pending' = rest
      /\ IF chunk.bytes # <<>> \/ chunk.end
         THEN /\ Answer(c, chunk)
              /\ listed' = (listed /\ ~chunk.end)
         ELSE /\ calls' = (calls \ {c}) \union {[c EXCEPT !.phase = "parked"]}
              /\ UNCHANGED <<reader, listed>>
      /\ UNCHANGED <<terminal, printed, letGo>>

\* READ_WAIT is over; output may still arrive before nothing_after looks.
Expire(c) ==
  /\ c.phase = "parked"
  /\ calls' = (calls \ {c}) \union {[c EXCEPT !.phase = "expired"]}
  /\ UNCHANGED <<pending, listed, reader, terminal, printed, letGo>>

\* OutputStream::nothing_after
NothingAfter(c) ==
  /\ c.phase = "expired"
  /\ Answer(c, EmptyChunk(IF c.from > pending.start THEN c.from ELSE pending.start,
                          FALSE))
  /\ UNCHANGED <<pending, listed, terminal, printed, letGo>>

(* The reader *)

\* OutputReader.next: read from the offset reached so far.
Ask ==
  /\ reader.phase = "idle"
  /\ calls' = calls \union {[id |-> reader.fails, from |-> reader.offset, phase |-> "sent"]}
  /\ reader' = [reader EXCEPT !.phase = "asking"]
  /\ UNCHANGED <<pending, listed, terminal, printed, letGo>>

\* The call, or the reply on its way, is lost: retried after a pause.
Fail ==
  /\ reader.phase \in {"asking", "answered"}
  /\ reader.fails < MaxFails
  /\ reader' = [reader EXCEPT !.phase = "idle", !.fails = @ + 1, !.chunk = NoChunk]
  /\ UNCHANGED <<pending, listed, calls, terminal, printed, letGo>>

\* Mutant of Show: the offset moves on by the chunk's length, wherever it started.
ShowFromOldOffset ==
  /\ reader.phase = "answered"
  /\ terminal' = terminal \o reader.chunk.bytes
  /\ reader' = [reader EXCEPT !.phase = IF reader.chunk.end THEN "ended" ELSE "idle",
                              !.offset = @ + Len(reader.chunk.bytes),
                              !.chunk = NoChunk]
  /\ UNCHANGED <<pending, listed, calls, printed, letGo>>

\* OutputReader.take: the terminal processes the chunk, then the offset moves.
Show ==
  /\ reader.phase = "answered"
  /\ terminal' = terminal \o reader.chunk.bytes
  /\ reader' = [reader EXCEPT !.phase = IF reader.chunk.end THEN "ended" ELSE "idle",
                              !.offset = reader.chunk.start + Len(reader.chunk.bytes),
                              !.chunk = NoChunk]
  /\ UNCHANGED <<pending, listed, calls, printed, letGo>>

\* The terminal is replaced or torn down; a reply that is under way is ignored.
Stop ==
  /\ reader.phase \notin {"ended", "stopped"}
  /\ reader' = [reader EXCEPT !.phase = "stopped", !.chunk = NoChunk]
  /\ UNCHANGED <<pending, listed, calls, terminal, printed, letGo>>

BackendStep == \E c \in calls : Lookup(c) \/ Take(c) \/ Expire(c) \/ NothingAfter(c)

Next ==
  \/ \E n \in 1 .. MaxPush : Push(n)
  \/ Close
  \/ GraceExpires
  \/ BackendStep
  \/ Ask
  \/ Fail
  \/ Show
  \/ Stop

Spec == Init /\ [][Next]_vars

(* The runtime polls every call whose lock or timer is ready, and the       *)
(* webview runs the reader's continuations; the session need never end and  *)
(* nothing has to fail.                                                     *)
Fairness ==
  /\ WF_vars(\E c \in calls : Lookup(c))
  /\ WF_vars(\E c \in calls : Take(c))
  /\ WF_vars(\E c \in calls : NothingAfter(c))
  /\ WF_vars(Ask)
  /\ WF_vars(Show)

LiveSpec == Spec /\ Fairness

-----------------------------------------------------------------------------
(* Properties *)

\* The type invariant; the backlog never outgrows OUTPUT_LIMIT and a chunk
\* never exceeds MAX_READ.
TypeOK ==
  /\ pending \in Stream
  /\ Len(pending.buf) <= Limit
  /\ listed \in BOOLEAN
  /\ calls \subseteq Call
  /\ reader \in Reader
  /\ Len(reader.chunk.bytes) <= MaxRead
  /\ terminal \in Seq(Nat)
  /\ printed \in Nat
  /\ letGo \subseteq Nat

\* A byte the session printed is in the stream or in the terminal until it is
\* given up by the backlog limit or the grace period: no failed, repeated or
\* late read_output call makes the stream let go of a byte that never arrived.
NoByteVanishes ==
  0 .. printed - 1 \subseteq Elems(pending.buf) \union Elems(terminal) \union letGo

\* The inductive invariant behind delivery: the reader's offset, the stream's
\* offset and the calls between them agree on which bytes have arrived.
\* - An offset names the same byte to the reader and to the stream.
OffsetsName ==
  /\ \A i \in 1 .. Len(pending.buf) : pending.buf[i] = pending.start + i - 1
  /\ pending.start + Len(pending.buf) = printed
  /\ reader.offset <= printed
  /\ letGo \subseteq 0 .. printed - 1

\* - The terminal has every byte below the reader's offset that was not given
\*   up, in order; the stream has let go of bytes above that offset only by
\*   giving them up.
ReaderBehind ==
  /\ \A i \in 1 .. Len(terminal) : terminal[i] < reader.offset
  /\ \A i, j \in 1 .. Len(terminal) : i < j => terminal[i] < terminal[j]
  /\ 0 .. reader.offset - 1 \subseteq Elems(terminal) \union letGo
  /\ reader.offset .. pending.start - 1 \subseteq letGo
  /\ ~listed => pending.closed /\ Elems(pending.buf) \subseteq letGo

\* - No call asks for more than the reader has reached, and the call that the
\*   reader waits for asks for exactly that.
CallsBehind ==
  \A c \in calls :
    /\ c.id <= reader.fails
    /\ c.from <= reader.offset
    /\ c.id = reader.fails => reader.phase \in {"asking", "stopped"}
    /\ c.id = reader.fails => c.from = reader.offset
    /\ \A d \in calls : c.id = reader.fails /\ d.id = reader.fails => c = d

\* - A reply under way continues the terminal's output, past given-up bytes only.
Continues(chunk) ==
  /\ reader.offset <= chunk.start
  /\ reader.offset .. chunk.start - 1 \subseteq letGo
  /\ \A i \in 1 .. Len(chunk.bytes) : chunk.bytes[i] = chunk.start + i - 1
  /\ chunk.start + Len(chunk.bytes) <= printed
  /\ chunk.end => /\ pending.closed
                  /\ chunk.bytes = <<>>
                  /\ chunk.start .. printed - 1 \subseteq letGo

ReplyContinues == reader.phase = "answered" => Continues(reader.chunk)

StreamInv == TypeOK /\ OffsetsName /\ ReaderBehind /\ CallsBehind /\ ReplyContinues

\* The detailed protocol implements ordered delivery.
Delivery == INSTANCE OrderedDelivery WITH
  sent <- printed, lost <- letGo, shown <- terminal,
  over <- pending.closed, ended <- (reader.phase = "ended")

ImplementsDelivery == Delivery!Spec

\* Once the session is over its reader is told so, however many reads failed:
\* the terminal never freezes on an ended session (the fault that made the
\* output pulled instead of pushed).
EndReachesReader ==
  pending.closed ~> reader.phase \in {"ended", "stopped"}
=============================================================================
