-------------------------------- MODULE Relay --------------------------------
(***************************************************************************)
(* The bridge between a local stream and its SSH channel (relay.rs): a      *)
(* drain that reads the channel ahead of the local client, a delivery that   *)
(* feeds the client at its own pace, and the upload the other way. The two   *)
(* halves of the first share a backlog and wake each other through Notify,   *)
(* which only wakes a waiter that registered before.                         *)
(*                                                                         *)
(* Bytes are numbered; `channel' counts what the remote sent, `read' what    *)
(* the drain took, `delivered' what the client has.                          *)
(***************************************************************************)
EXTENDS Integers

CONSTANTS
  Chunk,    \* CHUNK
  Limit,    \* Pace.backlog of a forwarded connection
  Bytes,    \* bound: bytes the remote sends
  Uploads   \* bound: bytes the client sends

\* Of Pace and CHUNK; the channel may carry and the client send any amount.
RelayConstants ==
  /\ Chunk \in Nat \ {0} /\ Limit \in Nat \ {0}
  /\ Bytes \in Nat /\ Uploads \in Nat

VARIABLES
  jump,       \* bridge_until_either_ends, at an unlimited pace
  bridge,     \* "open", "draining" (REMOTE_CLOSE_GRACE), "ok", "failed"
  channel, remoteEnded,
  read, finished,
  delivered, client,    \* "reading", "paused", "closed"
  drain, taken,         \* the drain, and its registration for `taken'
  deliver, filled,      \* the delivery, and its registration for `filled'
  ready,                \* bytes it peeked
  sent, clientEnded, uploaded, upload,   \* the other way
  idle                  \* for the properties: nothing was taken since the drain waits

downstream == <<channel, remoteEnded, read, finished, delivered, drain, taken, deliver, filled,
                ready, idle>>
upstream == <<sent, clientEnded, uploaded, upload>>
vars == <<jump, bridge, downstream, client, upstream>>

TypeOK ==
  /\ jump \in BOOLEAN
  /\ bridge \in {"open", "draining", "ok", "failed"}
  /\ channel \in 0 .. Bytes /\ read \in 0 .. channel /\ delivered \in 0 .. read
  /\ sent \in 0 .. Uploads /\ uploaded \in 0 .. sent
  /\ drain \in {"idle", "armed", "waiting", "reading", "done", "dropped"}
  /\ deliver \in {"idle", "armed", "waiting", "writing", "done", "dropped"}
  /\ upload \in {"copying", "done", "failed"}
  /\ client \in {"reading", "paused", "closed"}
  /\ taken \in {"none", "armed", "notified"} /\ filled \in {"none", "armed", "notified"}
  /\ remoteEnded \in BOOLEAN /\ finished \in BOOLEAN
  /\ clientEnded \in BOOLEAN /\ idle \in BOOLEAN
  /\ ready \in 0 .. Chunk

Init ==
  /\ jump \in BOOLEAN
  /\ bridge = "open"
  /\ channel = 0 /\ remoteEnded = FALSE
  /\ read = 0 /\ finished = FALSE
  /\ delivered = 0 /\ client = "reading"
  /\ drain = "idle" /\ taken = "none"
  /\ deliver = "idle" /\ filled = "none" /\ ready = 0
  /\ sent = 0 /\ clientEnded = FALSE /\ uploaded = 0 /\ upload = "copying"
  /\ idle = TRUE

Least(a, b) == IF a < b THEN a ELSE b
Queued == read - delivered

HasRoom == jump \/ Queued < Limit
Running == bridge = "open"

Notified(waiter) == IF waiter = "armed" THEN "notified" ELSE waiter

-----------------------------------------------------------------------------
(* The two ends. *)

RemoteSends ==
  \/ /\ ~remoteEnded /\ channel < Bytes
     /\ channel' = channel + 1
     /\ UNCHANGED remoteEnded
  \/ /\ ~remoteEnded
     /\ remoteEnded' = TRUE
     /\ UNCHANGED channel

\* The client sends, half-closes, pauses or resumes reading, or closes.
ClientActs ==
  \/ /\ client # "closed" /\ ~clientEnded
     /\ \/ sent < Uploads /\ sent' = sent + 1 /\ UNCHANGED clientEnded
        \/ clientEnded' = TRUE /\ UNCHANGED sent
     /\ UNCHANGED client
  \/ /\ client = "reading" /\ client' = "paused" /\ UNCHANGED <<sent, clientEnded>>
  \/ /\ client = "paused" /\ client' = "reading" /\ UNCHANGED <<sent, clientEnded>>
  \/ client # "closed" /\ client' = "closed" /\ clientEnded' = TRUE /\ UNCHANGED sent

\* What they do once the bridge is over is nothing to it.
Ends ==
  /\ bridge \in {"open", "draining"}
  /\ \/ /\ RemoteSends
        /\ UNCHANGED <<read, finished, delivered, drain, taken, deliver, filled, ready, idle,
                       client, upstream>>
     \/ ClientActs /\ UNCHANGED <<downstream, uploaded, upload>>
  /\ UNCHANGED <<jump, bridge>>

-----------------------------------------------------------------------------
(* relay: drain. Each of its polls is a step. *)

\* Mutant: it looks for room before it registers.
WaitForRoomUnarmed ==
  /\ Running
  /\ \/ /\ drain = "idle"
        /\ drain' = IF HasRoom THEN "reading" ELSE "armed"
        /\ UNCHANGED <<taken, idle>>
     \/ /\ drain = "armed"
        /\ drain' = "waiting" /\ taken' = "armed" /\ idle' = TRUE
     \/ /\ drain = "waiting" /\ taken = "notified"
        /\ drain' = "idle" /\ taken' = "none"
        /\ UNCHANGED idle
  /\ UNCHANGED <<jump, bridge, channel, remoteEnded, read, finished, delivered, client, deliver,
                 filled, ready, upstream>>

\* wait_for_room: registered first, then it looks.
WaitForRoom ==
  /\ Running
  /\ \/ /\ drain = "idle"
        /\ drain' = "armed" /\ taken' = "armed" /\ idle' = TRUE
     \/ /\ drain = "armed"
        /\ drain' = IF HasRoom THEN "reading" ELSE "waiting"
        /\ UNCHANGED <<taken, idle>>
     \/ /\ drain = "waiting" /\ taken = "notified"
        /\ drain' = "idle" /\ taken' = "none"
        /\ UNCHANGED idle
  /\ UNCHANGED <<jump, bridge, channel, remoteEnded, read, finished, delivered, client, deliver,
                 filled, ready, upstream>>

\* Pace.stall passed without a byte taken: the connection is cut.
Stall ==
  /\ Running /\ drain = "waiting" /\ taken = "armed"
  /\ bridge' = "failed"
  /\ UNCHANGED <<jump, downstream, client, upstream>>

\* read, then push or finish
DrainReads ==
  /\ Running /\ drain = "reading"
  /\ \/ /\ channel > read
        /\ \E n \in 1 .. Least(Chunk, channel - read) : read' = read + n
        /\ drain' = "idle"
        /\ UNCHANGED finished
     \/ /\ channel = read /\ remoteEnded
        /\ finished' = TRUE
        /\ drain' = "done"
        /\ UNCHANGED read
  /\ filled' = Notified(filled)
  /\ UNCHANGED <<jump, bridge, channel, remoteEnded, delivered, client, taken, deliver, ready,
                 idle, upstream>>

-----------------------------------------------------------------------------
(* relay: deliver. *)

\* peek, copy_front: left queued until consumed.
Peek ==
  /\ Running
  /\ \/ /\ deliver = "idle"
        /\ deliver' = "armed" /\ filled' = "armed" /\ UNCHANGED ready
     \/ /\ deliver = "armed"
        /\ ready' = Least(Chunk, Queued)
        /\ deliver' = IF ready' > 0 THEN "writing" ELSE IF finished THEN "done" ELSE "waiting"
        /\ filled' = IF deliver' = "waiting" THEN filled ELSE "none"
     \/ /\ deliver = "waiting" /\ filled = "notified"
        /\ deliver' = "idle" /\ filled' = "none" /\ UNCHANGED ready
  /\ UNCHANGED <<jump, bridge, channel, remoteEnded, read, finished, delivered, client, drain,
                 taken, idle, upstream>>

\* write, consume
Deliver ==
  /\ Running /\ deliver = "writing"
  /\ client = "reading"
  /\ \E n \in 1 .. ready : delivered' = delivered + n
  /\ idle' = FALSE
  /\ taken' = Notified(taken)
  /\ deliver' = "idle"
  /\ UNCHANGED <<jump, bridge, channel, remoteEnded, read, finished, client, drain, filled, ready,
                 upstream>>

\* The client is gone: BrokenPipe. A bridged connection fails with it; of the
\* jump's, drain and delivery are dropped and the upload goes on.
BrokenPipe ==
  /\ Running /\ deliver = "writing" /\ client = "closed"
  /\ IF jump
       THEN drain' = "dropped" /\ deliver' = "dropped" /\ UNCHANGED bridge
       ELSE bridge' = "failed" /\ UNCHANGED <<drain, deliver>>
  /\ UNCHANGED <<jump, channel, remoteEnded, read, finished, delivered, client, taken,
                 filled, ready, upstream, idle>>

-----------------------------------------------------------------------------
(* upload, and how the whole ends. *)

\* Its end is passed on once all of it is. The remote no longer takes it, or the
\* local socket was reset (the jump's is a pipe): a bridged connection fails with
\* it, whatever the client has yet to read.
UploadFails ==
  /\ Running /\ upload = "copying"
  /\ remoteEnded \/ (~jump /\ client = "closed")
  /\ upload' = "failed"
  /\ bridge' = IF jump THEN bridge ELSE "failed"
  /\ UNCHANGED <<jump, downstream, client, sent, clientEnded, uploaded>>

Upload ==
  /\ Running /\ upload = "copying"
  /\ \/ uploaded < sent /\ uploaded' = uploaded + 1 /\ UNCHANGED upload
     \/ uploaded = sent /\ clientEnded /\ upload' = "done" /\ UNCHANGED uploaded
  /\ UNCHANGED <<jump, bridge, downstream, client, sent, clientEnded>>

RelayDone == drain = "done" /\ deliver = "done"

\* bridge: both ways done.
BridgeDone ==
  /\ Running /\ ~jump
  /\ RelayDone /\ upload = "done"
  /\ bridge' = "ok"
  /\ UNCHANGED <<jump, downstream, client, upstream>>

\* Mutant: it is dropped the moment the delivery finds the local side closed.
EitherEndsAtOnce ==
  /\ Running /\ jump
  /\ \/ deliver \in {"done", "dropped"} /\ bridge' = "ok"
     \/ upload # "copying" /\ bridge' = "draining"
  /\ UNCHANGED <<jump, downstream, client, upstream>>

\* bridge_until_either_ends
EitherEnds ==
  /\ Running /\ jump
  /\ \/ RelayDone /\ bridge' = "ok"
     \/ upload # "copying" /\ bridge' = "draining"
  /\ UNCHANGED <<jump, downstream, client, upstream>>

\* The far end closed first, or REMOTE_CLOSE_GRACE passed.
DropRemote ==
  /\ bridge = "draining"
  /\ bridge' = IF upload = "failed" THEN "failed" ELSE "ok"
  /\ UNCHANGED <<jump, downstream, client, upstream>>

BridgeStep ==
  \/ WaitForRoom \/ Stall \/ DrainReads
  \/ Peek \/ Deliver \/ BrokenPipe
  \/ Upload \/ UploadFails \/ BridgeDone \/ EitherEnds \/ DropRemote

Next == Ends \/ BridgeStep

\* The connection's task is polled; its timers fire. The ends owe nothing.
Fairness ==
  /\ WF_vars(WaitForRoom) /\ WF_vars(Stall) /\ WF_vars(DrainReads)
  /\ WF_vars(Peek) /\ WF_vars(Deliver) /\ WF_vars(BrokenPipe \/ Upload \/ BridgeDone \/ EitherEnds)

Spec == Init /\ [][Next]_vars
LiveSpec == Spec /\ Fairness

-----------------------------------------------------------------------------
(* Properties. *)

\* However slow the client is, it is never more than the limit and one read
\* behind (wait_for_room), and nothing is read that was not queued for it.
BacklogBounded == jump \/ Queued < Limit + Chunk

\* A connection that no end broke off is cut only if its backlog is full and its
\* client took nothing since the wait began: no wake-up is missed (wait_for_room).
CutOnlyWhenStalled ==
  [][Running /\ bridge' = "failed" =>
       client = "closed" \/ upload' = "failed" \/ (idle /\ ~HasRoom)]_vars

\* A jump host's stream is not dropped with the last bytes of the local side
\* unsent, unless the remote ended first (bridge_until_either_ends).
LastWordsOut ==
  jump /\ bridge # "open" => uploaded = sent \/ remoteEnded \/ ~clientEnded

\* A client that reads gets every byte the channel carried and its end: no
\* wake-up is missed between the two halves (Notify, peek, wait_for_room).
Served(n) == delivered >= n \/ client # "reading" \/ bridge # "open"
ReaderIsServed == \A n \in 1 .. Bytes : channel >= n ~> Served(n)
=============================================================================
