------------------------------ MODULE LocalShell ------------------------------
(***************************************************************************)
(* One local shell session (local_shell.rs) on Unix: the control task and  *)
(* the three threads around the PTY - the reader, which polls so that it   *)
(* can let go; the writer, fed by an unbounded channel; the reaper, which  *)
(* owns the child and alone waits for it or kills it.                      *)
(*                                                                         *)
(* A background job of the shell may keep the terminal open after it, and  *)
(* whatever reads the terminal may stop reading it.                        *)
(***************************************************************************)
EXTENDS Naturals, Sequences

CONSTANTS
    MaxCalls,   \* bound: writes, resizes and disconnects of the frontend
    MaxOutput   \* bound: chunks the shell and its jobs print

VARIABLES
    phase,      \* "idle", "opening", "running", "over", "reported"
    listed,     \* the manager's map has the session's handle
    queue,      \* control messages
    result,     \* the final status
    child,      \* "none", "running", "dead" (not waited for yet), "reaped"
    code,       \* how the shell exited
    job,        \* a background job holds the terminal
    full,       \* the terminal takes no more input
    printed,    \* chunks in the PTY, not read yet
    reader, writer, reaper,
    pending,    \* keystroke chunks in the writer's channel
    torn,       \* the control task let go: kill, stop flag, sender, master
    done,       \* the exit code the reaper reported
    misfired,   \* a signal was sent to the pid of a reaped child
    calls, prints

threads == <<reader, writer, reaper, pending, done>>
shell == <<child, code, job, full, prints, printed>>
vars == <<phase, listed, queue, result, torn, misfired, calls, shell, threads>>

None == "none"

Init ==
    /\ phase = "idle" /\ listed = FALSE /\ queue = <<>> /\ result = None
    /\ child = None /\ code = None /\ job = FALSE /\ full = FALSE /\ printed = 0
    /\ reader = None /\ writer = None /\ reaper = None /\ pending = 0
    /\ torn = FALSE /\ done = None /\ misfired = FALSE
    /\ calls = 0 /\ prints = 0

(* --------------------------- manager and frontend ----------------------- *)

Spawn ==
    /\ phase = "idle"
    /\ phase' = "opening" /\ listed' = TRUE
    /\ UNCHANGED <<queue, result, torn, misfired, calls, shell, threads>>

\* write_stdin, resize_pty and disconnect all go through the control channel.
Call ==
    /\ calls < MaxCalls /\ listed
    /\ \E message \in {"keys", "resize", "disconnect"} : queue' = Append(queue, message)
    /\ calls' = calls + 1
    /\ UNCHANGED <<phase, listed, result, torn, misfired, shell, threads>>

\* open_shell on a blocking thread; a disconnect waits for it. The three
\* threads start, the connect snippet is the writer's first chunk.
Opened ==
    /\ phase = "opening"
    /\ phase' = "running" /\ child' = "running"
    /\ reader' = "loop" /\ writer' = "idle" /\ reaper' = "waiting"
    /\ pending' \in {0, 1}
    /\ UNCHANGED <<listed, queue, result, torn, misfired, calls, code, job, full, prints,
                   printed, done>>

\* Before the shell is spawned, or after it: then nobody waits for it, and only
\* the hang-up of its terminal is left to end it.
OpenFails ==
    /\ phase = "opening"
    /\ phase' = "over" /\ result' = "error"
    /\ child' \in {None, "running"}
    /\ UNCHANGED <<listed, queue, torn, misfired, calls, code, job, full, prints, printed,
                   threads>>

\* Mutant: the control task kills the child itself as it lets go.
TeardownKilling(status) ==
    /\ phase' = "over" /\ result' = status /\ torn' = TRUE
    /\ misfired' = (misfired \/ child = "reaped")

\* The loop's end: the kill sender, the stop flag, the writer's sender and
\* the master, in that order and without waiting for the threads.
Teardown(status) ==
    /\ phase' = "over" /\ result' = status /\ torn' = TRUE
    /\ UNCHANGED misfired

\* A chunk for the writer; when the writer is gone, the session is over.
Type ==
    IF writer = "ended"
    THEN Teardown("exited") /\ UNCHANGED pending
    ELSE pending' = pending + 1 /\ UNCHANGED <<phase, result, torn, misfired>>

Control ==
    /\ phase = "running" /\ queue # <<>>
    /\ queue' = Tail(queue)
    /\ CASE Head(queue) = "keys" -> Type
         [] Head(queue) = "resize" -> UNCHANGED <<phase, result, torn, misfired, pending>>
         [] Head(queue) = "disconnect" -> Teardown("disconnected") /\ UNCHANGED pending
    /\ UNCHANGED <<listed, calls, shell, reader, writer, reaper, done>>

\* The shell ended on its own: SessionStatus::for_shell_exit.
ShellDone ==
    /\ phase = "running" /\ done # None
    /\ Teardown(IF done = "zero" THEN "exited" ELSE "disconnected")
    /\ UNCHANGED <<listed, queue, calls, shell, threads>>

Report ==
    /\ phase = "over"
    /\ phase' = "reported" /\ listed' = FALSE /\ queue' = <<>>
    /\ UNCHANGED <<result, torn, misfired, calls, shell, threads>>

(* ------------------------------- the threads ---------------------------- *)

\* Somebody has the terminal open at the other end.
SlaveOpen == child = "running" \/ job

ReaderChecks ==
    /\ reader = "loop"
    /\ reader' = IF torn THEN "ended" ELSE "polling"
    /\ UNCHANGED <<phase, listed, queue, result, torn, misfired, calls, shell,
                   writer, reaper, pending, done>>

\* read_ready: output, the end of the terminal, or nothing within the poll.
Poll ==
    \/ printed > 0 /\ printed' = printed - 1 /\ reader' = "loop"
    \/ printed = 0 /\ ~SlaveOpen /\ reader' = "ended" /\ UNCHANGED printed
    \/ printed = 0 /\ SlaveOpen /\ reader' = "loop" /\ UNCHANGED printed

ReaderPolls ==
    /\ reader = "polling" /\ Poll
    /\ UNCHANGED <<phase, listed, queue, result, torn, misfired, calls, child, code, job,
                   full, prints, writer, reaper, pending, done>>

\* A write fails once nobody has the terminal open, and ends the thread.
WriterWrites ==
    /\ writer = "idle" /\ pending > 0
    /\ \/ ~SlaveOpen /\ writer' = "ended" /\ pending' = 0
       \/ SlaveOpen /\ ~full /\ UNCHANGED writer /\ pending' = pending - 1
    /\ UNCHANGED <<phase, listed, queue, result, torn, misfired, calls, shell,
                   reader, reaper, done>>

\* recv fails once the sender is dropped and the channel is drained.
WriterLetsGo ==
    /\ writer = "idle" /\ pending = 0 /\ torn
    /\ writer' = "ended"
    /\ UNCHANGED <<phase, listed, queue, result, torn, misfired, calls, shell,
                   reader, reaper, pending, done>>

\* try_wait, then the report; a dropped receiver makes it a no-op.
ReaperReaps ==
    /\ reaper = "waiting" /\ child = "dead"
    /\ child' = "reaped" /\ reaper' = "ended" /\ done' = code
    /\ UNCHANGED <<phase, listed, queue, result, torn, misfired, calls, code, job, full,
                   prints, printed, reader, writer, pending>>

\* The status of the child cannot be read: the reaper waits for it no longer, and
\* reports no code.
ReaperGivesUp ==
    /\ reaper = "waiting"
    /\ reaper' = "gaveup" /\ done' = "failed"
    /\ UNCHANGED <<phase, listed, queue, result, torn, misfired, calls, shell, reader, writer,
                   pending>>

\* The kill sender is gone: SIGHUP, then SIGKILL, then wait.
ReaperKills ==
    /\ reaper = "waiting" /\ torn
    /\ misfired' = (misfired \/ child = "reaped")
    /\ child' = "reaped" /\ reaper' = "ended" /\ done' = "failed"
    /\ UNCHANGED <<phase, listed, queue, result, torn, calls, code, job, full,
                   prints, printed, reader, writer, pending>>

(* ------------------------- the shell and its jobs ----------------------- *)

Prints ==
    /\ SlaveOpen /\ prints < MaxOutput
    /\ printed' = printed + 1 /\ prints' = prints + 1
    /\ UNCHANGED <<phase, listed, queue, result, torn, misfired, calls, child, code, job,
                   full, threads>>

\* With code 0, with another one, or killed by a signal.
Exits ==
    /\ child = "running"
    /\ child' = "dead"
    /\ code' \in {"zero", "failed"}
    /\ UNCHANGED <<phase, listed, queue, result, torn, misfired, calls, job, full, prints,
                   printed, threads>>

LeavesJob ==
    /\ child = "running" /\ ~job
    /\ job' = TRUE
    /\ UNCHANGED <<phase, listed, queue, result, torn, misfired, calls, child, code, full,
                   prints, printed, threads>>

StopsReading ==
    /\ child = "running" /\ ~full
    /\ full' = TRUE
    /\ UNCHANGED <<phase, listed, queue, result, torn, misfired, calls, child, code, job,
                   prints, printed, threads>>

Reader == ReaderChecks \/ ReaderPolls
Writer == WriterWrites \/ WriterLetsGo
Reaper == ReaperReaps \/ ReaperGivesUp \/ ReaperKills
Task == Opened \/ OpenFails \/ Control \/ ShellDone \/ Report
Shell == Prints \/ Exits \/ LeavesJob \/ StopsReading

Next == Spawn \/ Call \/ Task \/ Reader \/ Writer \/ Reaper \/ Shell

Fairness ==
    /\ WF_vars(Task) /\ WF_vars(Control)
    /\ WF_vars(Reader) /\ WF_vars(Writer) /\ WF_vars(Reaper)

Spec == Init /\ [][Next]_vars
LiveSpec == Spec /\ Fairness

-----------------------------------------------------------------------------

TypeOK ==
    /\ phase \in {"idle", "opening", "running", "over", "reported"}
    /\ listed \in BOOLEAN
    /\ queue \in Seq({"keys", "resize", "disconnect"}) /\ Len(queue) <= MaxCalls
    /\ result \in {None, "exited", "disconnected", "error"}
    /\ result # None <=> phase \in {"over", "reported"}
    /\ child \in {None, "running", "dead", "reaped"} /\ code \in {None, "zero", "failed"}
    /\ job \in BOOLEAN /\ full \in BOOLEAN /\ torn \in BOOLEAN /\ misfired \in BOOLEAN
    /\ printed \in 0..MaxOutput /\ prints \in 0..MaxOutput
    /\ pending \in 0..(MaxCalls + 1)
    /\ reader \in {None, "loop", "polling", "ended"}
    /\ writer \in {None, "idle", "ended"} /\ reaper \in {None, "waiting", "ended", "gaveup"}
    /\ done \in {None, "zero", "failed"}
    /\ calls \in 0..MaxCalls

\* The shell is never signalled once it has been waited for: its pid may be
\* somebody else's by then.
NeverSignalsReaped == ~misfired

\* A session that ran and ended leaves nothing running: the shell is killed and
\* waited for, as long as its status can be read, and the reader lets the PTY go
\* although a background job keeps the terminal open and prints nothing.
LeftRunning == ~(reader = "ended" /\ (child = "reaped" \/ reaper = "gaveup"))
NothingLeftRunning == torn ~> ~LeftRunning

\* A disconnect asked for goes through, though the shell reads no input.
DisconnectEnds == (\E i \in 1..Len(queue) : queue[i] = "disconnect") ~> ~listed
=============================================================================
