----------------------------- MODULE SessionTask -----------------------------
(***************************************************************************)
(* One SSH session, from the `connect` command to the removal of its map   *)
(* entry (session.rs, commands/sessions.rs, session_sink.rs,               *)
(* session_recording.rs, commands/recording.rs): the command resolving the *)
(* credentials, the session task racing the handshake against a disconnect *)
(* and tracking resizes meanwhile, the shell with its reading loop and its *)
(* writing task, the polite ending, and the output stream and recording    *)
(* that must be let go however it ends.                                    *)
(*                                                                         *)
(* russh's session loop is external: it hands the server's messages to a   *)
(* bounded queue and takes writes in between, so it takes none while the   *)
(* queue is full.                                                          *)
(***************************************************************************)
EXTENDS Naturals, Sequences

CONSTANTS
    Sizes,      \* terminal sizes: a model value each, the pane's first included
    MaxCalls,   \* bound: the frontend's writes, resizes and recording starts
    MaxOutput,  \* bound: chunks of output the server sends
    Room        \* messages russh queues for the channel's reader

VARIABLES
    phase,      \* where the session is
    stop,       \* the handle's out-of-band stop flag
    listed,     \* the manager's map has the session's handle
    queue,      \* control messages: keystrokes and sizes
    asked,      \* the size last asked for by the pane
    size,       \* the size track_resizes keeps for the PTY request
    ptySize,    \* the size the server's PTY has
    writing,    \* the control message the writing task is sending
    wire,       \* the server's messages not yet read by russh
    holding,    \* the message russh's loop is handing over
    inbox,      \* the messages handed to the channel's reader
    stalled,    \* the server takes no more of our input
    alive,      \* the transport
    serverEnd,  \* how the server's shell ended
    exitCode,   \* the exit status read so far
    result,     \* the final status to report
    events,     \* the statuses reported
    output,     \* the session's output stream
    recording,  \* the recorder: is it known, has it a file, what it missed, and
                \* does a start_recording hold it
    calls, sent \* the bounds' counters

link == <<stalled, alive, serverEnd, wire, holding, inbox, sent>>
control == <<stop, queue, asked, calls>>
vars == <<phase, listed, size, ptySize, writing, exitCode, result, events, output,
          recording, link, control>>

None == "none"
Finals == {"disconnected", "exited", "error"}
Ends == {"code0", "failed", "unreported"}     \* how a shell may end
Msgs == {"data", "code0", "failed", "close"}

Init ==
    /\ phase = "idle" /\ stop = FALSE /\ listed = FALSE
    /\ queue = <<>> /\ writing = None
    /\ asked \in Sizes /\ size = asked /\ ptySize = None
    /\ wire = <<>> /\ holding = None /\ inbox = <<>>
    /\ stalled = FALSE /\ alive = TRUE /\ serverEnd = None
    /\ exitCode = None /\ result = None /\ events = <<>>
    /\ output = None
    /\ recording = [known |-> FALSE, file |-> FALSE, hole |-> FALSE, starting |-> FALSE]
    /\ calls = 0 /\ sent = 0

(* -------------------------- recording and output ------------------------ *)

Recorder(known, file) ==
    [recording EXCEPT !.known = known, !.file = file, !.hole = FALSE]

\* Mutant: a failed write keeps the file open.
RecordOnRegardless ==
    \/ UNCHANGED recording
    \/ recording.file /\ recording' = [recording EXCEPT !.hole = TRUE]

\* Recorder::record: a failed write drops the file, which would otherwise
\* miss this chunk and go on.
Record ==
    \/ UNCHANGED recording
    \/ recording.file /\ recording' = [recording EXCEPT !.file = FALSE]

\* on_data: to the frontend, then to the recording.
Deliver == Record /\ UNCHANGED output

\* start_recording looks the recorder up, ...
FetchRecorder ==
    /\ calls < MaxCalls /\ recording.known /\ ~recording.starting
    /\ recording' = [recording EXCEPT !.starting = TRUE]
    /\ calls' = calls + 1
    /\ UNCHANGED <<phase, listed, size, ptySize, writing, exitCode, result, events,
                   output, link, stop, queue, asked>>

\* The session's task or its connect has the recorder, through the sink.
InUse == phase # "refused" /\ (phase = "reported" => listed)

\* ... and opens the file outside the registry's lock, if it can: the session
\* may have ended in between. A recorder no one else has closes it at once.
OpenRecording ==
    /\ recording.starting
    /\ \/ recording' = [recording EXCEPT !.starting = FALSE]
       \/ recording' = [Recorder(recording.known, InUse) EXCEPT !.starting = FALSE]
    /\ UNCHANGED <<phase, listed, size, ptySize, writing, exitCode, result, events,
                   output, link, control>>

StartRecording == FetchRecorder \/ OpenRecording

\* stop_recording runs on the same thread as start_recording.
StopRecording ==
    /\ recording.known /\ recording.file /\ ~recording.starting
    /\ recording' = Recorder(TRUE, FALSE)
    /\ UNCHANGED <<phase, listed, size, ptySize, writing, exitCode, result, events,
                   output, link, control>>

(* ------------------------------ the command ----------------------------- *)

\* connect: the stream and the recorder first, so the first bytes have
\* somewhere to go; a pane that was recording goes on with its file.
Connect ==
    /\ phase = "idle"
    /\ phase' = "resolving"
    /\ output' = "open"
    /\ \E again \in BOOLEAN : recording' = Recorder(TRUE, again)
    /\ UNCHANGED <<listed, size, ptySize, writing, exitCode, result, events, link, control>>

\* The credentials or the jump host could not be resolved: no session.
ResolveFails ==
    /\ phase = "resolving"
    /\ phase' = "refused"
    /\ output' = "gone" /\ recording' = Recorder(FALSE, FALSE)
    /\ UNCHANGED <<listed, size, ptySize, writing, exitCode, result, events, link, control>>

\* spawn_session: the handle is listed before the task runs.
Spawn ==
    /\ phase = "resolving"
    /\ phase' = "connecting" /\ listed' = TRUE
    /\ events' = <<"connecting">>
    /\ UNCHANGED <<size, ptySize, writing, exitCode, result, output, recording, link, control>>

\* write_stdin and resize_pty of a listed session; a call waits for room in
\* the channel, in order, so the queue is the channel and the calls waiting.
WriteStdin ==
    /\ calls < MaxCalls /\ listed
    /\ queue' = Append(queue, "keys") /\ calls' = calls + 1
    /\ UNCHANGED <<phase, listed, size, ptySize, writing, exitCode, result, events,
                   output, recording, link, stop, asked>>

ResizePty ==
    /\ calls < MaxCalls /\ listed
    /\ \E s \in Sizes :
        /\ asked' = s
        /\ queue' = Append(queue, s)
    /\ calls' = calls + 1
    /\ UNCHANGED <<phase, listed, size, ptySize, writing, exitCode, result, events,
                   output, recording, link, stop>>

\* disconnect, and disconnect_all for every session; unknown ids are ignored.
Disconnect ==
    /\ listed /\ ~stop
    /\ stop' = TRUE
    /\ UNCHANGED <<phase, listed, size, ptySize, writing, exitCode, result, events,
                   output, recording, link, queue, asked, calls>>

(* ------------------------------ the handshake --------------------------- *)

\* Mutant: only keystrokes are taken off the queue before the shell, so a
\* size behind them is taken but not kept.
TrackNothing ==
    /\ phase = "connecting" /\ queue # <<>>
    /\ queue' = Tail(queue)
    /\ UNCHANGED <<phase, listed, ptySize, size, writing, exitCode, result, events,
                   output, recording, link, stop, asked, calls>>

\* track_resizes: sizes are kept for the PTY request, keystrokes dropped.
Track ==
    /\ phase = "connecting" /\ queue # <<>>
    /\ queue' = Tail(queue)
    /\ size' = IF Head(queue) \in Sizes THEN Head(queue) ELSE size
    /\ UNCHANGED <<phase, listed, ptySize, writing, exitCode, result, events,
                   output, recording, link, stop, asked, calls>>

Established ==
    /\ phase = "connecting" /\ alive
    /\ phase' = "opening"
    /\ events' = Append(events, "connected")
    /\ UNCHANGED <<listed, size, ptySize, writing, exitCode, result, output, recording,
                   link, control>>

\* run_session and run_shell returning: what the task will report.
Finish(status, next) ==
    /\ result' = status /\ phase' = next

StopHandshake ==
    /\ phase = "connecting" /\ stop
    /\ Finish("disconnected", "over")
    /\ UNCHANGED <<listed, size, ptySize, writing, exitCode, events, output, recording,
                   link, control>>

EstablishFails ==
    /\ phase = "connecting"
    /\ Finish("error", "over")
    /\ UNCHANGED <<listed, size, ptySize, writing, exitCode, events, output, recording,
                   link, control>>

(* -------------------------------- the shell ----------------------------- *)

\* The channel, the PTY, the forwarding requests, the environment, the shell
\* and the connect snippet. Nothing races it and nothing bounds it: a disconnect
\* waits here for the server's answers.
OpenShell ==
    /\ phase = "opening" /\ alive
    /\ phase' = "shell" /\ ptySize' = size
    /\ UNCHANGED <<listed, size, writing, exitCode, result, events, output, recording,
                   link, control>>

\* The server refuses the channel, or the transport is gone: it dropped, or the
\* keepalive, which is a setting and may be off, gave it up.
OpenShellFails ==
    /\ phase = "opening"
    /\ Finish("error", "goodbye")
    /\ UNCHANGED <<listed, size, ptySize, writing, exitCode, events, output, recording,
                   link, control>>

\* pump_controls, a task of its own: the next control message.
TakeControl ==
    /\ phase = "shell" /\ writing = None /\ queue # <<>>
    /\ writing' = Head(queue) /\ queue' = Tail(queue)
    /\ UNCHANGED <<phase, listed, size, ptySize, exitCode, result, events, output,
                   recording, link, stop, asked, calls>>

\* Where the loop goes on once the shell's status is known: the writing task
\* is aborted, and a session asked to stop closes its channel first.
AfterShell == IF stop THEN "closing" ELSE "goodbye"

\* handle_control: russh's loop takes the message when it isn't handing one
\* over; a window change needs no room on the server's side.
SendControl ==
    /\ phase = "shell" /\ writing # None /\ holding = None /\ alive
    /\ writing \in Sizes \/ ~stalled
    /\ ptySize' = IF writing \in Sizes THEN writing ELSE ptySize
    /\ writing' = None
    /\ UNCHANGED <<phase, listed, size, exitCode, result, events, output, recording,
                   link, control>>

\* A failed write ends the session; a failed window change doesn't.
SendFails ==
    /\ phase = "shell" /\ writing # None /\ ~alive
    /\ writing' = None
    /\ IF writing = "keys" THEN Finish("disconnected", AfterShell)
                           ELSE UNCHANGED <<phase, result>>
    /\ UNCHANGED <<listed, size, ptySize, exitCode, events, output, recording, link, control>>

\* SessionStatus::for_shell_exit.
StatusOf(code) == IF code = "code0" THEN "exited" ELSE "disconnected"

\* handle_channel_msg.
Read ==
    /\ phase = "shell" /\ inbox # <<>>
    /\ inbox' = Tail(inbox)
    /\ CASE Head(inbox) = "data" -> Deliver /\ UNCHANGED <<phase, result, exitCode, writing>>
         [] Head(inbox) = "close" ->
              /\ Finish(StatusOf(exitCode), AfterShell)
              /\ writing' = None /\ UNCHANGED <<output, recording, exitCode>>
         [] OTHER -> exitCode' = Head(inbox)
                     /\ UNCHANGED <<phase, result, output, recording, writing>>
    /\ UNCHANGED <<listed, size, ptySize, events, stalled, alive, serverEnd, wire,
                   holding, sent, control>>

\* The transport ended under the shell.
ReadEnd ==
    /\ phase = "shell" /\ inbox = <<>> /\ holding = None /\ ~alive
    /\ Finish("disconnected", AfterShell)
    /\ writing' = None
    /\ UNCHANGED <<listed, size, ptySize, exitCode, events, output, recording, link, control>>

\* Mutant: a disconnect waits its turn behind the write in progress.
StopShellQueued ==
    /\ phase = "shell" /\ stop /\ writing = None /\ queue = <<>>
    /\ Finish("disconnected", "closing")
    /\ UNCHANGED <<listed, size, ptySize, exitCode, events, output, recording, link,
                   control, writing>>

\* A disconnect, whatever the writing task is stuck on.
StopShell ==
    /\ phase = "shell" /\ stop
    /\ Finish("disconnected", "closing")
    /\ writing' = None
    /\ UNCHANGED <<listed, size, ptySize, exitCode, events, output, recording, link, control>>

(* -------------------------------- the end ------------------------------- *)

\* close_channel: messages are dropped until the server's close or the grace.
CloseChannel ==
    /\ phase = "closing"
    /\ \/ /\ inbox # <<>> /\ inbox' = Tail(inbox)
          /\ phase' = IF Head(inbox) = "close" THEN "goodbye" ELSE phase
       \/ phase' = "goodbye" /\ UNCHANGED inbox
    /\ UNCHANGED <<listed, size, ptySize, writing, exitCode, result, events, output,
                   recording, stalled, alive, serverEnd, wire, holding, sent, control>>

\* close_connection, each goodbye within its grace.
CloseConnection ==
    /\ phase = "goodbye"
    /\ phase' = "over" /\ alive' = FALSE
    /\ UNCHANGED <<listed, size, ptySize, writing, exitCode, result, events, output,
                   recording, stalled, serverEnd, wire, holding, inbox, sent, control>>

\* on_status or on_error: the sink ends the output and the recording, then
\* the event goes out.
Report ==
    /\ phase = "over"
    /\ phase' = "reported"
    /\ events' = Append(events, result)
    /\ output' = "closed" /\ recording' = Recorder(FALSE, FALSE)
    /\ UNCHANGED <<listed, size, ptySize, writing, exitCode, result, link, control>>

\* The task removes its own entry, whatever ended it; the queue goes with it,
\* and the sink, with a file a late start_recording gave its recorder.
Unlist ==
    /\ phase = "reported" /\ listed
    /\ listed' = FALSE /\ queue' = <<>>
    /\ recording' = Recorder(recording.known, FALSE)
    /\ UNCHANGED <<phase, size, ptySize, writing, exitCode, result, events, output,
                   link, stop, asked, calls>>

\* read_session_output reaching the end, or the grace for it running out.
LetOutputGo ==
    /\ output = "closed"
    /\ output' = "gone"
    /\ UNCHANGED <<phase, listed, size, ptySize, writing, exitCode, result, events,
                   recording, link, control>>

(* --------------------------- the server and russh ----------------------- *)

Talking == phase \in {"shell", "closing"} /\ alive

ServerPrints ==
    /\ Talking /\ serverEnd = None /\ sent < MaxOutput
    /\ wire' = Append(wire, "data") /\ sent' = sent + 1
    /\ UNCHANGED <<phase, listed, size, ptySize, writing, exitCode, result, events, output,
                   recording, stalled, alive, serverEnd, holding, inbox, control>>

ServerEnds ==
    /\ Talking /\ serverEnd = None
    /\ \E end \in Ends :
        /\ serverEnd' = end
        /\ wire' = wire \o (IF end = "unreported" THEN <<"close">> ELSE <<end, "close">>)
    /\ UNCHANGED <<phase, listed, size, ptySize, writing, exitCode, result, events, output,
                   recording, stalled, alive, holding, inbox, sent, control>>

ServerStalls ==
    /\ Talking /\ ~stalled
    /\ stalled' = TRUE
    /\ UNCHANGED <<phase, listed, size, ptySize, writing, exitCode, result, events, output,
                   recording, alive, serverEnd, wire, holding, inbox, sent, control>>

ConnectionDrops ==
    /\ phase \in {"connecting", "opening", "shell", "closing"} /\ alive
    /\ alive' = FALSE /\ wire' = <<>>
    /\ UNCHANGED <<phase, listed, size, ptySize, writing, exitCode, result, events, output,
                   recording, stalled, serverEnd, holding, inbox, sent, control>>

\* russh's loop: takes the next message off the wire, hands it over.
RusshReads ==
    /\ Talking /\ holding = None /\ wire # <<>>
    /\ holding' = Head(wire) /\ wire' = Tail(wire)
    /\ UNCHANGED <<phase, listed, size, ptySize, writing, exitCode, result, events, output,
                   recording, stalled, alive, serverEnd, inbox, sent, control>>

RusshDelivers ==
    /\ phase \in {"shell", "closing"} /\ holding # None /\ Len(inbox) < Room
    /\ inbox' = Append(inbox, holding) /\ holding' = None
    /\ UNCHANGED <<phase, listed, size, ptySize, writing, exitCode, result, events, output,
                   recording, stalled, alive, serverEnd, wire, sent, control>>

Server == ServerPrints \/ ServerEnds \/ ServerStalls \/ ConnectionDrops
Russh == RusshReads \/ RusshDelivers
Writer == TakeControl \/ SendControl \/ SendFails
Frontend == Connect \/ WriteStdin \/ ResizePty \/ Disconnect \/ StartRecording
            \/ StopRecording \/ LetOutputGo
Handshake == Track \/ Established \/ StopHandshake \/ EstablishFails
Opening == OpenShell \/ OpenShellFails
Reader == Read \/ ReadEnd
Ending == CloseChannel \/ CloseConnection \/ Report \/ Unlist

Next ==
    \/ Frontend \/ ResolveFails \/ Spawn
    \/ Handshake \/ Opening \/ Writer \/ Reader \/ StopShell
    \/ Ending \/ Russh \/ Server

\* The session's tasks and russh's loop run; a request on a transport that is
\* gone fails. Nothing is assumed of the server, nor of the keepalive.
Fairness ==
    /\ WF_vars(StopHandshake) /\ WF_vars(OpenShellFails /\ ~alive) /\ WF_vars(StopShell)
    /\ WF_vars(Reader) /\ WF_vars(Writer) /\ WF_vars(Russh)
    /\ WF_vars(CloseConnection) /\ WF_vars(CloseChannel /\ phase' = "goodbye")
    /\ WF_vars(Report) /\ WF_vars(Unlist)

Spec == Init /\ [][Next]_vars
LiveSpec == Spec /\ Fairness

-----------------------------------------------------------------------------

TypeOK ==
    /\ phase \in {"idle", "resolving", "refused", "connecting", "opening", "shell",
                  "closing", "goodbye", "over", "reported"}
    /\ stop \in BOOLEAN /\ listed \in BOOLEAN /\ stalled \in BOOLEAN /\ alive \in BOOLEAN
    /\ queue \in Seq(Sizes \cup {"keys"}) /\ Len(queue) <= MaxCalls
    /\ asked \in Sizes /\ size \in Sizes /\ ptySize \in Sizes \cup {None}
    /\ writing \in Sizes \cup {"keys", None}
    /\ writing # None => phase = "shell"
    /\ wire \in Seq(Msgs) /\ inbox \in Seq(Msgs) /\ Len(inbox) <= Room
    /\ holding \in Msgs \cup {None}
    /\ serverEnd \in Ends \cup {None} /\ exitCode \in {None, "code0", "failed"}
    /\ result \in Finals \cup {None}
    /\ output \in {None, "open", "closed", "gone"}
    /\ events \in Seq(Finals \cup {"connecting", "connected"}) /\ Len(events) <= 3
    /\ calls \in 0..MaxCalls /\ sent \in 0..MaxOutput

\* Once the writes have drained, the shell's terminal has the size the pane
\* asked for last, also when it was resized while the session connected: those
\* sizes are kept (track_resizes), though pane.ts:541 says they are dropped.
SizeReachesShell ==
    phase = "shell" /\ alive /\ queue = <<>> /\ writing = None => ptySize = asked

\* A session reported as exited (so never reconnected) is one whose shell the
\* server said to have ended with code 0: not a lost connection, a failure, a
\* kill or the user's disconnect.
ExitedIsClean == result = "exited" => serverEnd = "code0"

\* However a session ends, or fails to start, its output ends, its recorder is
\* forgotten, and no file stays open; the one of a start_recording that the end
\* overtook goes with the task.
EndLetsGo ==
    phase \in {"refused", "reported"} =>
        /\ output \in {"closed", "gone"} /\ ~recording.known
        /\ recording.file => listed

\* A recording that goes on has missed nothing since it started.
RecordingHasNoHole == recording.file => ~recording.hole

\* A disconnected session leaves the manager, though the server takes no input,
\* prints without end, or never answers; but a server that is there and falls
\* silent while the shell is being opened holds it.
StopEnds == stop ~> ~listed \/ (phase = "opening" /\ alive)

\* Keystrokes get through a shell that takes them while the server prints
\* more than is read at once: reading never waits for a write.
WritesGetThrough == writing # None ~> (writing = None \/ stalled)
=============================================================================
