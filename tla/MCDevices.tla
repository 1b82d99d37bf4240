------------------------------ MODULE MCDevices ------------------------------
(***************************************************************************)
(* The saved devices and the terminal sessions opened to them, each part   *)
(* checked on its own: `part`, chosen at the start, says which runs.       *)
(*   "ssh"     SessionTask, the task of an SSH session;                    *)
(*   "local"   LocalShell;                                                 *)
(*   "serial"  SerialSession;                                              *)
(*   "stores"  ConfigStores, with two devices and two commands;            *)
(*   "import"  SshConfig, files of up to three sections.                   *)
(* Variables of the same name are shared by the sessions; those a part     *)
(* does not have stay at Unused, or at FALSE.                              *)
(***************************************************************************)
EXTENDS SshConfig

CONSTANTS
  Sizes, MaxCalls, MaxOutput, Room, MaxWrites, MaxInput,    \* of the sessions
  i1, i2, c1, c2, NoOne, Corrupt,                           \* of ConfigStores
  Ids, Devices, Imports, CommandIds, Texts, Budgets

ASSUME DevicesAssumption ==
  /\ "keys" \notin Sizes /\ "none" \notin Sizes
  /\ MaxCalls \in Nat /\ MaxOutput \in Nat /\ Room \in Nat
  /\ MaxWrites \in Nat /\ MaxInput \in Nat

VARIABLES
  part,
  phase, stop, queue, listed, calls, result, asked, size, ptySize, writing, wire,
  holding, inbox, stalled, alive, serverEnd, exitCode, events, output, recording,
  sent, child, code, job, full, printed, reader, writer, reaper, pending, torn,
  done, misfired, prints, waiting, ready, port, incoming, shown, writes, sentIn,
  disk, mem, keyring, op, worker, forgotten, loose, behind, unagreed, trusted,
  left

(* -------------------------------- sessions ------------------------------- *)

Ssh == INSTANCE SessionTask
Local == INSTANCE LocalShell
Serial == INSTANCE SerialSession

(* --------------------------------- stores -------------------------------- *)

Dev(name, method, target, jump, risks, forwards) ==
    [name |-> name, method |-> method, target |-> target, jump |-> jump, risks |-> risks, forwards |-> forwards]
Home == Dev("box", "password", 1, NoOne, {}, FALSE)
Away == Dev("box", "password", 2, NoOne, {"agent"}, TRUE)
Keyed == Dev("keyed", "key", 1, NoOne, {}, FALSE)
Jumper == Dev("box", "password", 1, i1, {}, FALSE)
Port == Dev("port", "serial", 1, NoOne, {}, FALSE)

FiveDevices == {Home, Away, Keyed, Jumper, Port}
In(id, dev) == [id |-> id, device |-> dev]
TwoFiles == {<<In(i1, Away)>>, <<In(i1, Home), In(i2, Jumper)>>, <<In(i2, Home), In(i2, Away)>>}
Budget(command, reload, fault, restart, foreign) ==
    [command |-> command, reload |-> reload, fault |-> fault, restart |-> restart, others |-> foreign]
Scenarios == {Budget(3, 0, 0, 0, 0), Budget(2, 0, 1, 1, 0), Budget(2, 1, 0, 0, 0),
              Budget(1, 1, 1, 1, 0), Budget(1, 1, 0, 0, 1)}

Stored == INSTANCE ConfigStores

ASSUME StoresAssumption == Stored!StoresConstants

(* --------------------------------- import -------------------------------- *)

A == <<"a">>
B == <<"b">>
C == <<"c">>
Everyone == {A, B, C}

HostBlock(aliases, hits, settings) ==
    [kind |-> "host", aliases |-> aliases, hits |-> hits, negated |-> {}, any |-> FALSE, set |-> settings]
JumpBy(name) == Entry("proxyjump", HopVia(name, NoUser, NoPort))
Off == Entry("proxyjump", Direct)
Other == Entry("proxycommand", [via |-> "command"])

Sections == <<
    HostBlock(<<A>>, {A}, <<>>),
    HostBlock(<<A>>, {A}, <<JumpBy(B), Other>>),
    HostBlock(<<A>>, {A}, <<Entry("hostname", C), Other>>),
    HostBlock(<<B>>, {B}, <<Entry("user", "u")>>),
    HostBlock(<<B, A>>, {A, B}, <<Entry("hostname", C), Off, JumpBy(A)>>),
    HostBlock(<<C>>, {C}, <<Entry("port", 2222), Entry("proxyjump", HopVia(B, "v", 2222))>>),
    HostBlock(<<C>>, {C}, <<JumpBy(C)>>),
    HostBlock(<<C>>, {C}, <<JumpBy(A)>>),
    HostBlock(<<>>, Everyone, <<JumpBy(B)>>),
    [HostBlock(<<>>, Everyone, <<Off>>) EXCEPT !.negated = {A}],
    [HostBlock(<<>>, {C}, <<Other>>) EXCEPT !.kind = "match"],
    [HostBlock(<<>>, {}, <<JumpBy(B)>>) EXCEPT !.kind = "match", !.any = TRUE]>>

SomeFiles == UNION {{[i \in 1..n |-> Sections[f[i]]] : f \in [1..n -> DOMAIN Sections]} : n \in 1..3}

Saved(id, name, address, user, jump) ==
    [id |-> SavedId(id), name |-> name, address |-> address, port |-> DefaultPort, user |-> user, key |-> NoKey, jump |-> jump]
SomeStores == {<<>>, <<Saved(1, B, C, "v", NoJump)>>,
    <<Saved(1, A, A, "me", NoJump), Saved(2, A, B, "me", NoJump), Saved(3, C, C, "me", SavedId(2))>>}

ASSUME ImportAssumption == SshConstants

(* --------------------------------- parts --------------------------------- *)

Unused == "unused"
None == "none"

shared ==
  <<phase, stop, queue, listed, calls, result>>
sshOnly ==
  <<asked, size, ptySize, writing, wire, holding, inbox, stalled, alive, serverEnd,
    exitCode, events, output, recording, sent>>
localOnly ==
  <<child, code, job, full, printed, reader, writer, reaper, pending, torn, done,
    misfired, prints>>
serialOnly ==
  <<waiting, ready, port, incoming, shown, writes, sentIn>>
storeVars ==
  <<disk, mem, keyring, op, worker, forgotten, loose, behind, unagreed, trusted,
    left>>
allVars == <<part, shared, sshOnly, localOnly, serialOnly, storeVars, sshvars>>

NoSession ==
    /\ phase = Unused /\ stop = FALSE /\ queue = Unused /\ listed = FALSE
    /\ calls = Unused /\ result = Unused
NoSsh ==
    /\ asked = Unused /\ size = Unused /\ ptySize = Unused /\ writing = None
    /\ wire = Unused /\ holding = Unused /\ inbox = Unused /\ stalled = FALSE
    /\ alive = Unused /\ serverEnd = Unused /\ exitCode = Unused /\ events = Unused
    /\ output = Unused /\ recording = Unused /\ sent = Unused
NoLocal ==
    /\ child = Unused /\ code = Unused /\ job = Unused /\ full = Unused
    /\ printed = Unused /\ reader = Unused /\ writer = Unused /\ reaper = Unused
    /\ pending = Unused /\ torn = FALSE /\ done = Unused /\ misfired = FALSE
    /\ prints = Unused
NoSerial ==
    /\ waiting = Unused /\ ready = Unused /\ port = Unused /\ incoming = Unused
    /\ shown = Unused /\ writes = Unused /\ sentIn = Unused
NoStores ==
    /\ disk = Unused /\ mem = Unused /\ keyring = Unused /\ op = Unused
    /\ worker = Unused /\ forgotten = Unused /\ loose = Unused /\ behind = Unused
    /\ unagreed = Unused /\ trusted = Unused /\ left = Unused
NoImport ==
    /\ file = Unused /\ login = Unused /\ origin = Unused /\ before = Unused /\ store = Unused
    /\ stage = Unused /\ hosts = Unused /\ planned = Unused /\ byKey = Unused
    /\ created = Unused /\ linked = Unused /\ skipped = Unused

PartInit ==
  \/ part = "ssh" /\ Ssh!Init /\ NoLocal /\ NoSerial /\ NoStores /\ NoImport
  \/ part = "local" /\ Local!Init /\ stop = FALSE /\ NoSsh /\ NoSerial /\ NoStores /\ NoImport
  \/ part = "serial" /\ Serial!Init /\ queue = <<>> /\ listed = FALSE /\ calls = Unused
     /\ NoSsh /\ NoLocal /\ NoStores /\ NoImport
  \/ part = "stores" /\ Stored!Init /\ NoSession /\ NoSsh /\ NoLocal /\ NoSerial /\ NoImport
  \/ part = "import" /\ Init /\ NoSession /\ NoSsh /\ NoLocal /\ NoSerial /\ NoStores

SshRuns == part = "ssh" /\ UNCHANGED <<part, localOnly, serialOnly, storeVars, sshvars>>
LocalRuns ==
  part = "local" /\ UNCHANGED <<part, stop, sshOnly, serialOnly, storeVars, sshvars>>
SerialRuns ==
  /\ part = "serial"
  /\ UNCHANGED <<part, queue, listed, calls, sshOnly, localOnly, storeVars, sshvars>>
StoresRun ==
  part = "stores" /\ UNCHANGED <<part, shared, sshOnly, localOnly, serialOnly, sshvars>>
ImportRuns ==
  part = "import" /\ UNCHANGED <<part, shared, sshOnly, localOnly, serialOnly, storeVars>>

PartNext ==
  \/ SshRuns /\ Ssh!Next
  \/ LocalRuns /\ Local!Next
  \/ SerialRuns /\ Serial!Next
  \/ StoresRun /\ Stored!Next
  \/ ImportRuns /\ Next

\* The fairness of the sessions, each while it runs. Actions that are never
\* enabled together share a conjunct.
PartFairness ==
  /\ WF_allVars(\/ SshRuns /\ (Ssh!StopHandshake \/ (Ssh!OpenShellFails /\ ~alive))
                \/ SshRuns /\ Ssh!Ending /\ phase' # "closing"
                \/ LocalRuns /\ Local!Task
                \/ SerialRuns /\ Serial!Task)
  /\ WF_allVars((SshRuns /\ Ssh!StopShell) \/ (LocalRuns /\ Local!Control))
  /\ WF_allVars((SshRuns /\ Ssh!Reader) \/ (LocalRuns /\ Local!Reader))
  /\ WF_allVars((SshRuns /\ Ssh!Writer) \/ (LocalRuns /\ Local!Writer))
  /\ WF_allVars((SshRuns /\ Ssh!Russh) \/ (LocalRuns /\ Local!Reaper))

PartSpec == PartInit /\ [][PartNext]_allVars /\ PartFairness

\* The SSH session alone, and the import alone.
SshSpec == PartInit /\ part = "ssh" /\ [][SshRuns /\ Ssh!Next]_allVars /\ PartFairness
ImportSpec == PartInit /\ part = "import" /\ [][ImportRuns /\ Next]_allVars

-----------------------------------------------------------------------------

(* The properties of the parts, stated there.                                *)

\* The SSH shell gets the size the pane asked for last, and `exited' is said of
\* a clean exit only (track_resizes, run_shell).
ShellIsAsAsked == part = "ssh" => Ssh!TypeOK /\ Ssh!SizeReachesShell /\ Ssh!ExitedIsClean

\* However an SSH session ends, its output ends and its recording with it, and a
\* recording has no hole (spawn_session, Recorder).
OutputIsKept == part = "ssh" => Ssh!EndLetsGo /\ Ssh!RecordingHasNoHole

\* "The backend drops resizes sent while connecting" (pane.ts:541).
ResizesDropped == [][part = "ssh" /\ phase = "connecting" => size' = size]_allVars

\* A local shell is never signalled once it was waited for (teardown, reaper).
ReapedIsLeftAlone ==
  /\ part = "local" => Local!TypeOK /\ Local!NeverSignalsReaped
  /\ part = "serial" => Serial!TypeOK

\* A serial port that goes away in the middle of a write ends the session
\* without an error (apply_control).
ErrorsAreOfThePort ==
  [][part = "serial" /\ phase = "applying" => result' # "error"]_allVars

\* Memory is as the disk, whichever step of a command fails, and what is deleted
\* is forgotten everywhere (upsert, delete_device_impl).
StoresAgree ==
  part = "stores" =>
  /\ Stored!TypeOK /\ Stored!MemoryIsDisk /\ Stored!DefaultIsSaved /\ Stored!DeletedIsForgotten

\* No secret is sent where the user did not mean it, and no import brings a risk
\* or a command the user did not agree to (drop_inherited_secret, risks_of, import_commands_impl).
SecretsStayPut ==
  part = "stores" => Stored!SecretsStayPut /\ Stored!RisksAgreed /\ Stored!CommandsTrusted

\* An imported host is reached as ssh would, over one hop at most, once, or it is
\* counted as skipped (import_hosts).
ImportedAsWritten ==
  part = "import" => RoutedAsWritten /\ OneHop /\ NoTwins /\ AllCounted

\* Something is under way that must come to an end.
Waiting ==
  \/ part = "ssh" /\ stop /\ listed /\ ~(phase = "opening" /\ alive)
  \/ part = "ssh" /\ writing # None /\ ~stalled
  \/ part = "local" /\ torn /\ Local!LeftRunning
  \/ part = "local" /\ listed /\ \E i \in DOMAIN queue : queue[i] = "disconnect"
  \/ part = "serial" /\ stop /\ phase # "gone"

\* Nothing hangs: a disconnected session leaves the manager whatever the server,
\* the shell or the device does (StopEnds, DisconnectEnds), once a server that is
\* there has answered the opening of the shell; keystrokes get through
\* (WritesGetThrough) and nothing is left running (NothingLeftRunning).
\* With bounded calls and output, no wait is renewed for ever.
NothingHangs == []<>~Waiting
=============================================================================
