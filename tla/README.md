# DaSSHboard in TLA+

TLA+ models of the parts of DaSSHboard (`apps/desktop`: a Tauri backend in Rust,
`src-tauri/src`, and a TypeScript frontend, `src`) whose correctness depends on
the order in which things happen.  TLC checks each model on a small instance;
TLAPS proves most of the safety properties for every value of the constants.
Paths below are relative to `apps/desktop/src-tauri/src` (`.rs`) and
`apps/desktop/src` (`.ts`).

## The system

Two processes' worth of concurrency meet here.  The **backend** runs tokio tasks
(one per session, tunnel, SFTP connection and transfer), blocking threads (serial
ports, local shells, file writes) and Tauri commands, each of which may run while
any other is suspended.  The **frontend** is single threaded, but every
`await invoke(...)` is a point where clicks, timers, backend events and other
continuations run.  The two talk through commands (a promise that resolves or
rejects), events (per-emitter order, no relation to command replies) and nothing
else.  There may be a second instance of the whole program on the same
configuration directory.

| component | state | operations | hard behaviour | what makes it correct |
|---|---|---|---|---|
| output delivery: `output_stream.rs`, `commands/sessions.rs`, `terminal/outputReader.ts` | backlog and its offset, closed flag, registry of streams; reader offset | push, close, read, grace removal; ask, retry, show, stop | reads run concurrently with their own retries; replies are lost; the backlog overflows; the stream is forgotten | bytes arrive in order, once; only given-up bytes are missing; the end is learnt |
| terminal pane: `terminal/pane.ts`, `pane/sessionSlot.ts`, `reconnectBudget.ts` | current and pending session, connecting flag, user-initiated flag, retry budget and timer, device | connect, disconnect, cancel, pick device, device deleted, close pane, status events | events overtake the reply of `connect()`; the user acts while it is awaited; retry timers | no orphaned session, one per pane, the chip tells the truth, called-off retries stay off |
| SSH session task: `session.rs`, `session_sink.rs` | session map, control queue, stop flag | spawn, write, resize, disconnect, shutdown | stop against handshake, against a stalled write, against the server's close | ends once, promptly, with one final status; leaves the map |
| SSH establishment: `ssh/establish.rs`, `deadline.rs`, `handler.rs`, `prompts.rs`, `terminal/hostKeyDialog.ts` | prompt registries, deadline clock, dialog queue | connect (direct or through a jump host), prompt, answer, time out, abandon | a prompt outlives its connection; one answer for several prompts; the deadline pauses | nobody connects with a key not trusted for it; no prompt leaks; a waiting user is not cut off, a stalled host is |
| trusted hosts: `known_hosts.rs` | trust map, reset mark, unreadable mark, the file | verdict, trust, forget, dismiss, reload | two instances, unreadable or damaged file, reload against write | trust given or revoked is not lost silently |
| keyboard-interactive authentication: `ssh/interactive_auth.rs`, `authPromptDialog.ts` | phase and round counters, queued prompts | rounds, phases, answer, time out | partial success, endless servers, prompt queueing time | bounded; the saved password is given at most once |
| credentials: `secret.rs`, `agent*.rs` | OS keychain | get, set, delete | failures | external |
| X11 forwarding: `x11/` | cookies, channel slots | relay, check cookie, rewrite | half-open connections, the slot limit | only a client that shows the cookie gets through |
| tunnels: `tunnel.rs`, `remote_forward.rs` | tunnel map, active forwards, request queue, routes | start, stop, add, remove, answer, watchdog | add and remove of one port overlap requests that time out; stop in every phase | what is reported open is open; a removed forward leaves nothing behind |
| relays: `relay.rs`, `socks.rs` | two half-duplex copies, buffers, negotiation | copy, half-close, reset | deadlock of two full buffers; half-close | every byte in order; both ends end |
| tunnels panel: `tunnels/*.ts` | registry, per-device call queue, retry budget | start, stop, add, remove, events | as the pane, plus serialised calls | the panel shows what the backend has |
| SFTP: `sftp.rs`, `sftp/sftpPanel.ts` | connection map, per-connection operations | connect, operate, disconnect | connects that race disconnects | one connection per id; none leaked |
| transfers: `transfer.rs`, `sftp/transferQueue.ts` | queue, running set, cancel flags, partial files | enqueue, run, cancel, retry | cancel against completion; limit of parallel transfers | no transfer lost or run twice; a failed one leaves no half file in place |
| remote editing: `sftp_edit.rs`, `editor.rs`, `sftp/editSessions.ts` | temporary file, watcher, upload state | open, save, upload, close | saves during uploads; connection lost | the last save is uploaded or reported |
| recording: `session_recording.rs`, `paneRecording.ts` | file, failed flag | start, record, stop | write errors; reconnect appends | what is recorded is what was shown |
| serial and local shells: `serial.rs`, `local_shell.rs` | threads, stop flags | as the SSH session | blocking reads, join | as the SSH session |
| configuration: `atomic_file.rs`, the stores, `config_watch.rs` | one file and one cache per store and instance | upsert, delete, save, reload | two instances; a reload against a save; a crash between two files | cache and file converge; no dangling reference |
| tabs, grid, profiles: `tabs/`, `grid.ts`, `profiles/` | tabs, panes, profile, dirty flag | split, close, switch, restore | transitions during awaits | every pane in one place; nothing saved half way |
| application shell: `lib.rs`, `tray.rs`, `updater.rs`, `main.ts` | windows, pending update | close, quit, update | shutdown with sessions open | sessions end before the process |
| dialogs, settings, translations, layout, website | forms and rendering | | | not about order: left out |

## Modules

| module | models |
|---|---|
| `OrderedDelivery` | what a terminal is promised: the session's output in order, except bytes given up explicitly, and then the end |
| `OutputStream` | `output_stream.rs`, `read_output`, `outputReader.ts` |
| `PaneSession` | `pane.ts` with `SessionSlot` and `ReconnectBudget`, the `connect`/`disconnect` commands and the life cycle of the session task |
| `SessionTask` | the SSH session: `session.rs`, `commands/sessions.rs`, `session_sink.rs`, `session_recording.rs` |
| `LocalShell`, `SerialSession` | the other two kinds of session: `local_shell.rs` on Unix, `serial.rs` |
| `TrustedHosts` | `known_hosts.rs` on `atomic_file.rs`, in one or two instances that share the file, with `config_watch.rs` and the window's reloads |
| `HostPrompts` | host-key checks of connections, direct or through a jump host (`handler.rs`, `establish.rs`, `prompts.rs`), and the dialog that answers them (`hostKeyDialog.ts`) |
| `InteractiveAuth` | authentication: `commands/device_access.rs`, `agent_ident.rs`, `establish.rs`, `interactive_auth.rs` and its prompts |
| `ConnectDeadline` | `deadline.rs`: the connect budget that stops while prompts are open |
| `Tunnel` | `tunnel.rs`, `remote_forward.rs`: one tunnel, its requests and the server |
| `Relay` | `relay.rs`: the bridge between a local stream and its channel |
| `Socks` | `socks.rs` and the connection of a local or dynamic forward |
| `X11` | `x11/`, `ssh/handler.rs`: the channels of X11 forwarding |
| `SftpTransfers` | `sftp.rs`, `commands/sftp.rs`: the connection and the transfers |
| `RemoteEdit` | `sftp_edit.rs`, `editSessions.ts`: a remote file edited in place |
| `ConfigStores` | the stores on `atomic_file.rs`, the keychain and the commands over several of them |
| `SshConfig` | `ssh_config.rs`: import and export |
| `Lists` | what is done to lists, as functions of them: `Without` is the `filter` of `hostKeyDialog.ts` and the like |

| proofs | about |
|---|---|
| `OutputStreamProofs` | `OutputStream`, `OrderedDelivery` |
| `PaneSessionProofs` | `PaneSession` |
| `HostTrustProofs` | `TrustedHosts`, `HostPrompts` |
| `ConnectingProofs` | `ConnectDeadline`, `InteractiveAuth` |
| `NetworkProofs` | `Relay`, `Socks`, `X11`, `Tunnel` |
| `DevicesProofs` | `SessionTask`, `LocalShell`, `SerialSession`, `ConfigStores`, `SshConfig` |
| `FilesProofs` | `SftpTransfers`, `RemoteEdit` |
| `ListFacts` | lemmas about lists, for the others |

`MC...` modules give the constants values and choose what runs.  Components that
interact are in one module where their interleaving matters (the reader and its
stream, the pane and its sessions, the dialog and the registry, the tunnel, its
worker and the server); what they meet beyond that is in their environment.

### OutputStream

The stream is a record of the buffer, its first offset and `closed`; a byte is
represented by the position at which the session printed it, so the contents and
the offsets are independent and disagree if the arithmetic is wrong.  `calls`
holds every `read_output` the backend is executing, also those whose reader gave
up: their `Take` still acknowledges what they name.  A call goes through the
program's own suspension points: `Lookup` (find the stream), `Take` (one
`lock().take()`, which parks when there is nothing), `Expire` (READ_WAIT) and
`NothingAfter` (the lock taken again).  `Fail` is any failure of a call or a loss
of its reply.  `letGo` is history: the bytes given up by the limit in `push` and
by the grace period.

### PaneSession

The pane's fields are `slot`, `awaiting` (the `connecting` flag together with the
id it waits for), `userInitiated`, `disposed`, `deviceId`, `budget`, `paneStatus`.
Each code path between two awaits is one action: `Attempt` is everything
`startSession` does before it awaits `connect()`, `ConnectReturns` and
`ConnectRejected` what follows.  Per session the backend has a phase, the stop
flag, the reply of `connect()` and the queue of status events (events of one
session keep their order).  `disconnects` holds the `disconnect()` calls that are
under way: one handled before the session is spawned does nothing.

A session goes through `connecting` (the handshake, which a stop interrupts),
`opening` (channel, PTY, shell and snippet, `session.rs:159-187`: no time-out and no
look at `stop`) and `connected` (the loop, which watches `stop`).  The frontend is told
it is connected before the shell is opened.

Assumptions: a `connect()` reply is not lost; the reply of a `connect()` whose
session already reported an event arrives within the retry delay (2 s at least),
so the retry timer never fires while `connecting` is set.

### SessionTask

The session from `connect`'s resolving of the credentials to the removal of its
map entry.  `phase` follows `run_session`; `queue` and `stop` are the handle's two
ways in.  Three actors run side by side: the reading loop (`Read`, `ReadEnd`), the
writing task (`TakeControl`, `SendControl`, `SendFails`) and russh's own loop, which
is external: it hands messages to a bounded queue and, while that is full, takes
none of our writes - the circle that would deadlock if one task did both.
`asked`, `size` and `ptySize` follow a resize from the pane to the server.
`start_recording` is two steps (`FetchRecorder`, `OpenRecording`): the recorder is
fetched from the registry and its file opened outside of the registry's lock, and the
session may end between them.  A disconnect while `connect` still resolves credentials does nothing here;
`PaneSession` covers what the pane makes of it.

### LocalShell, SerialSession

A local shell is a control task and three threads.  Opening it may fail before the
shell is spawned or after (`OpenFails`): nobody waits for a child spawned by then, and
only its terminal's hang-up is left to end it.  `ReaperGivesUp` is `try_wait` failing:
the exit code is unknown and the child is waited for no longer.  `torn` is the teardown the
control task makes in one go: the kill request, the reader's stop flag, the writer's
channel and the master.  Only the reaper touches the child's pid: `misfired`
records a signal to one already waited for.  A background job may keep the terminal
open after the shell, and nobody may read what is typed; a writer stuck in a full
terminal held by such a job is not claimed to end.  The last output may be lost when
the reaper reports before the reader has read it.  The Unix reader, which polls, is
modelled; ConPTY is not.

A serial session is one task: a write waits while the device is not ready, and only
the stop flag gets past it.

### TrustedHosts

`file` is `known_hosts.json` and `store` what each instance remembers of it
(`TrustState`).  A change takes the lock for its whole duration, write included,
so it is one action (`MakeChange`) - except when the file could not be read at
launch: then `ensure_loaded` reads it first (`ChangeUnreadable`,
`FinishLoadedChange`), and the other steps may come in between.  `reload` reads
*before* it takes the lock and is two actions.  A read is one step, because the
file is replaced by a rename; a damaged file is moved aside (`MoveAside`) and
marked (`MarkReset`) in two, each of which may fail, and both of which another
instance may overlap.  The watcher's debounced event is a flag per instance; the
window skips it while it takes it for the echo of its own write (`echo`).  Reads
of one instance that are under way at the same point and found the same are one.

Three variables are there for the properties.  `relied` and `accepted` follow
what the users trusted and forgot, as far as a successful write told them so;
`rev` names the contents of the file, and `tainted` marks contents written by
somebody who had not read what they replaced, or a move aside whose mark is not
written (yet): the code accepts both losses, and `trust_reload` and `trust_fresh`
show two ways into the first.  `LossIsFlagged` and `KnownWasAccepted` speak about
instances whose memory is current and untainted, or that know that they have not
read the file.

### HostPrompts

A connection checks the key of each host on its way in turn.  A verdict that does
not let it pass registers a prompt, and three things end it, in any order: the
answer, the time-out and the departure of the owner (`Decide`, `TimeOut`,
`NoticeOwnerGone`); `StopWaiting` is the guard that every one of them drops, which
leaves the registry and sends the closed notice.  The dialog's queue, its armed
button and its event handlers are the frontend's part; the answer travels as a
call that may come too late or fail.  The user is modelled by what they aim at: a
click on Trust is meant for the prompt that was on screen when the hand started to
move, and the one delay in the code that matters, `TRUST_ARM_DELAY_MS`, is read as
"a click lands before the delay is over": the button is not armed while a click
aimed at an earlier prompt is still on its way.

### InteractiveAuth

One hop's authentication: the secret looked up for the device or, for a connection
test, for the device as edited; the agents asked; the configured method; then rounds
of questions, answered by the saved password or by a prompt with its two time-outs
(to come on screen, and to be answered), while the deadline is paused.  A server's
reply is any of success, failure and partial success with any set of methods.  What
the server says to the eighth answered round is not looked at: the rounds are over.

### ConnectDeadline

Time is discrete; `Tick` is one unit.  The clock's state is the code's: the number
of pauses, the end of the budget or what remained at the first pause.  The waiting
task goes through `enable`, the read of the end, the sleep and the `select!`.
`Punctual` says that a task that was woken runs before time goes on.  Without it
`NotTooSoon` does not hold: a task polled late finds both the sleep and the
notification of an earlier pause ready, and `select!` may take the sleep.

### Tunnel

`active` is `ActiveForwards` with the routes and the queue of `RequestWorker`;
`attempt` numbers a listen request as the entry's channel identifies it in the code.
The entries are a set: a forward has one, and their order is only that of the display.
The server takes requests in order, and answers late or never; a listen that timed
out has a cancel sent behind it (`CancelBehind`), and the next request for its port
waits for that.  `Bind` may fail for any local port somebody else holds.
`asked` is history: what the users want of each forward.

### Relay, Socks, X11

`Relay` has one step per poll: `wait_for_room` and `peek` register with `Notify`
first and look then, and the other side may act in between.  `jump` chooses
`bridge_until_either_ends`, whose stream has no limit and a grace at its end.  A
`BrokenPipe` drops a jump's drain and delivery, and its upload goes on; an upload that
fails ends a bridged connection at once (`try_join!`), with what its client has yet to
read, and a jump's stream after the grace.
`Socks` reads its client's fields one by one; the client may stop, close or send more
after any of them.  `X11` starts with the display and its entry in the Xauthority
file, which a display manager may replace at any time; a channel then goes through
the setup, one round trip per answer of the X server, and the relay.

### SftpTransfers, RemoteEdit

`SftpTransfers` has one step per await of a transfer: between any two the user may
cancel, disconnect or connect anew, and the server may die.  `files` is the side
written to; `job` walks the entries of the folder.  The panel starts one transfer at
a time.  `TransfersConstants` assumes that no file is named like another file's `.part`
scratch: a merge download over a folder that holds one may take it for its own.

`RemoteEdit` has the server's file, the private copy, the `Baseline`, the operation
under way and the panel's entry with its generation.  `burst` and `event` are the
watcher's debounce and its event on the way.  The contents are version numbers, so
that a digest is the content it is of.  Stamps are names, a new one differing from those
still held.  A new edit may be opened, on a new connection, while an earlier
`sftp_disconnect` is still at its `close_device` (`leaving`); one disconnect runs at a
time.  A sync that runs when its edit is stopped goes on by itself.  Assumed: the reply to opening reaches the
panel before the first debounced event, and a change by others moves the file's
stamp (`RemoteStamp` states its one-second resolution as a limit).

### ConfigStores, SshConfig

`disk` and `mem` hold six files each.  Commands run one at a time, on the main
thread; most are several writes and keychain calls, one action each, so that a
failure or a kill falls between any two.  A reload is on a worker and takes its files
one after another, reading before it locks.  A reload that a save overtakes is the
class of `trust_reload`; `behind` excuses the files it happened to.  Devices whose
file is unreadable at launch start empty, and the next save overwrites the file;
bookmarks of deleted devices are kept; an import of devices stops at the first write
that fails.  The comment on `import_commands_impl` says it upserts by id; ids already
taken get a new one, as the model has it.  A file of devices may name one id twice, and
the second replaces the first: `import_devices` compares both with the devices saved
before it began, and so do the properties (`SavedBefore`).  What the user confirms is a
list of names with their risks, in the order of the file (`RisksOf`), and so is what it
is compared with (`Agreed`): a file with other ids, the same names and the same risks is
taken.  A profile may name a device
that is not there; `forgotten` therefore loses what an import names again.

`SshConfig` takes a file as its sections with their settings, tokenised and matched
already, and follows `import_hosts`: admit (`hosts`), link (`planned`), save one by one
(`created`, then `linked`).  A host is known by its section, and its id says where the
device is from, as a UUID is minted for each host before any is saved.  Names of hops
are looked up among the devices saved `before`, so a device of this import is only
found by its key.  `origin` is set when the file is the program's own export, imported
where nothing is saved.  Aliases are names with suffixes (`AliasesOf`); the export's
quoting is left out.  When two saved devices share a name, the export's suffixed alias
is not what the import resolves jumps by in its store; a direct host is a duplicate
also of one that was itself skipped.  A config file has no ids, and a chain of jumps or
a twin is not imported: `RoundTrip` promises what is left (`Sayable`).

## Runs

A run of several modules checks them one beside the other: `part`, chosen at the
start, says which one moves, and the variables of the others stay put.  Its states
are the sum of the parts' states, not their product.  The parts' invariants are
conjoined under one name where they answer one question; the parts' modules state
each of them with its reason.  Liveness of such a run is one property, `[]<>~Waiting`:
`Waiting` says that something is under way which must come to an end.  As the bounds
allow each kind of waiting to start only finitely often, a behaviour that stops
waiting again and again has ended each of them, and `[]<>~Waiting` implies each
leads-to property named in its comment.  The fairness conjuncts of parts are disjoined
under `Runs(part)` and subscripted by the running part's variables (`partVars`).  Only
one part ever moves, so each conjunct is the fairness of that part's action.

| run | parts and constants | shows |
|---|---|---|
| `output_and_files` | `output`: 4 bytes, pushes of up to 2, limit 2, reads of up to 2, 2 failures; `transfers`: 2 names, 2 connections, files of 2 chunks, 1 job of every kind and policy; `edit`: 3 versions and 1 opening, or 2 versions, 1 opening and 1 reconnection (`FewSaves`) | `OutputStream` implements `OrderedDelivery`; no byte vanishes; the inductive invariant; transfers keep the files that were there; edits are what the panel says; no silent overwrite; the end reaches the reader, and transfers and saves end |
| `pane_session` | `pair`: 2 devices, one reconnecting, 2 sessions, 1 automatic attempt; `retries`: 1 device, 4 sessions, 2 attempts, one session running and one with calls or events left (`SmallBacklog`) | no orphaned session and one per pane; the pane tells the truth; retries end, and stay off once called off; released sessions end |
| `host_trust` | `store`: 1 instance, 2 hosts, 2 keys, 2 changes, one each of reload, failed write, damage, lock and restart; `shared`: 2 instances, 1 host to trust, 2 changes, 1 damage; `prompts`: 2 connections, one through the other's host, 2 keys, 3 prompts | lost trust is never taken for a first contact; only what was accepted, and meant, is trusted; the registry holds exactly the prompts that wait, and no answered one is on screen |
| `connection` | `deadline`: 2 hops, a budget of 3, 8 units of time; `auth`: 2 rounds, 2 phases, 2 agents; `prompts`: 2 prompts, 1 key; `store`: 2 instances, 1 host, 1 key, 2 changes and one damage; `tunnel`: a remote forward moved between two ports, another remote or local on the same ports, 2 changes, 1 connection, a queue of 1; `relay`: chunks of 2, limit 2, 4 bytes, 1 uploaded; `socks`: every request its version tells apart; `x11`: 2 channels, 1 slot, 5 displays, 3 files | the deadline's accounting; secrets go where they belong; prompts leave nothing behind; instances converge; server and tunnel agree; the tunnel is as asked; no wake-up is lost; clients get the answer they deserve; cookies are the right ones; nothing hangs |
| `devices` | `ssh`: 2 sizes, 2 calls, 1 chunk, 1 message queued; `local`: 2 calls, 1 chunk; `serial`: 2 writes, 2 chunks; `stores`: 2 devices of 5 forms, 3 imports, 2 commands, five budgets; `import`: all files of up to 3 of 12 sections, 3 stores | sizes and statuses are true; output and recording are let go; a reaped pid is left alone; stores and disk agree; secrets stay with their target; imports are as written; an export comes back; sessions end |
| `pane_user_disconnect` | 1 device, 2 sessions | violated: see below |
| `trust_reload` | 1 instance, 2 hosts; 2 changes, 1 reload | violated: see below |
| `trust_fresh` | 2 instances; 2 changes | violated: see below |
| `host_prompts_changed` | 2 connections, 2 keys, 2 prompts | violated: see below |
| `ssh_import` | the `import` part of `devices` | violated: see below |
| `shell_resizes` | the `ssh` part of `devices` | violated: see below |
| `edit_synced` | the `edit` part of `output_and_files` | violated: see below |

`output_and_files` and `connection` put together what has nothing to do with each
other but that both fit one run: the parts do not interact, and each is explored as it
would be by itself.

The passing runs take between 50 and 210 seconds with two workers, and 0.3 to 2.8
million states.

Bounds.  Four bytes and a limit of two make the backlog overflow while reads are
parked, while replies travel and after failures; two failures make three concurrent
calls of which two are stale.  Two sessions are the pane's smallest history with
something to confuse: the one it let go of and the one it holds; the retries have
four, so that a sequence of two automatic attempts can exceed its budget, and a retry
left over for the keychain to misuse.  One change of the trusted hosts before a
damage and one after it, in the same or another instance, is what it takes to lose
trust.  Three prompts are a queue, a prompt on screen and a new one behind an answered
one; two keys make a host change its key.  The deadline's time is long enough for two
pauses that overlap, nest or follow one another.  Two changes of a tunnel remove a
forward whose listen request is out and ask for its port again, or swap two ports;
the queue of one is full with the first.  A relay's limit is one chunk, its bytes two
chunks, so that the drain waits for room with data behind it.  One slot for two X11
channels is a slot that must come back.  Two rounds and phases are the first and the
last of each limit.  Two calls are a write stuck before a resize or a disconnect, and
one message of room is full with the first output.  The five budgets of the stores
combine commands with a fault, a restart, a reload or another instance's write, two
commands at least where memory and disk may part.  Three sections are a host, its
jump host and a section that decides between them; one of the three stores has two
devices of one name and a jump between them, for the aliases of its export.  Two names and chunks are a
transfer with a file before and after the one that fails; three versions are a save,
one during its upload, and another's change; two with an opening to spare are a save, a
change and a reconnection, or a second edit of the file after a disconnect.

The symmetries permute keys that no other constant tells apart; runs with a liveness
property use none.

Fairness.  Weak fairness of the steps that the runtime and the webview take by
themselves: a command, task or thread that can run runs, a reply or event that was
sent is delivered, an armed timer fires.  None of the user, of the network or of the
server, with the assumptions named here:

- `EndReachesReader` starts from a closed stream and needs no more.
- `ReleasedSessionEnds`: a task that looks at its stop flag acts on it (`Stopped`), in
  the handshake and once the shell is there.  Nothing looks at it while the shell is
  being opened, so nothing is assumed there, and the property lets a session that the
  server answers no more stay in that phase.
- `Converges` assumes that events are delivered, the echo timer ends and reads go on,
  and nothing of launches or locks.
- A prompt's time-out fires (it does not wait for its user for ever) and a task that
  has its answer takes it; nothing of the calls that carry answers, or of the owners.
- `Bounded` assumes that the waiting task runs when it can; prompts may stay open.
- An SSH session whose shell is being opened (`opening`) may stay there for ever: with
  the keepalive off nothing bounds the server's answers, and a disconnect is not looked
  at.  Only a connection that is dead is noticed (`OpenShellFails` when not `alive`).
  `StopEnds` and `NothingHangs` therefore except a session in that phase whose server is
  `alive`; in every other phase a disconnect ends the session whatever the server does.
- A closing handshake is bounded by `CLOSE_GRACE`, a tunnel's requests by
  `SERVER_REQUEST_TIMEOUT`, X11 and SOCKS handshakes by their time-outs; a relay's
  stalled client by `Pace.stall`.
- The operating system ends a killed child, and lets its terminal's last reader go.
- A transfer's awaits, and those of an edit's operation (`OpStep`), return: the server
  answers or the connection dies.  A dialog that asks about a conflict is answered.

Actions that are never enabled together, of different parts or of one, share a
fairness conjunct; for those it is the same as fairness of each.

Deadlock is not checked: the systems come to rest (all output shown; sessions ended;
no change left; all prompts decided; time over).

### Disagreements

- `pane_user_disconnect`: `disconnectSession` marks the coming end as the user's
  ("A user-requested disconnect is expected - don't auto-reconnect from it"), but
  a `connected` event delivered after the click clears the mark, and the
  `disconnected` event that follows starts a reconnect.
- `trust_reload`: `persist` promises that no write drops a newer one from disk.
  `reload` reads the file before it takes the lock; a host trusted in between
  leaves memory again, and the next change writes the file without it.
- `trust_fresh`: `reload` is there so that the next check "consults fresh data".
  A change by another instance within 900 ms of one's own write is skipped as an
  echo, and nothing asks again; the next write removes it from the file.
- `host_prompts_changed`: "A *changed* key gets a prominent MITM warning variant".
  The verdict of a queued prompt is that of the time it was raised: when another
  key of the same host is trusted from the prompt ahead of it, it is still shown
  as a first contact.
- `ssh_import`: "Jump hosts first: a write failing part-way must not leave a saved
  device pointing at a jump host that was never written".  Only jump hosts *created*
  for a `ProxyJump` come first; one that is itself a host of the file is saved in
  file order.
- `shell_resizes`: "The backend drops resizes sent while connecting" (`pane.ts:541`).
  `track_resizes` keeps the last one and `run_shell` requests the PTY with it;
  `ResizesDropped` says what the comment says, and the run refutes it.  What the pane
  sends once it is connected repeats a size that is already known.
- `edit_synced`: "`synced`: the remote holds the saved content" (`editSessions.ts:35`).
  A failed upload leaves the remote file torn and the baseline's digest that of the last
  success, "so the next save uploads again" (`sftp_edit.rs:94-96`).  When that save is of
  the former content, its digest is the one kept: `check` (and `upload_snapshot`) finds
  nothing to send, and the panel shows `synced` over the torn file.  `SyncedIsTrue`, which
  the run `output_and_files` checks, says what remains: the copy is what was transferred
  last, and the server holds it unless others changed it or an upload failed or was not
  confirmed since.

Seen while reading, and not runs:
- `local_shell.rs` documents that only exit code 0 is `Exited`, but the control loop also
  reports it when the writer thread is gone.
- A disconnect during `session.rs:159-187` waits for the server, without a bound when the
  keepalive is off.
- An `open_shell` that fails after the spawn leaves the shell to its terminal's hang-up;
  nobody waits for it.
- `sftpPanel.ts:621-654` forgets the active device before `sftp_disconnect` is awaited, and
  that command ends the device's edits after it took the connection: an edit opened on a
  new connection in between is ended by the old `close_device`, though the panel lists it.

## Proofs

A theorem about a component of a run with several parts is stated of the whole run's
specification, `PartSpec`, and of the very formula that the run checks: the proof module
extends the run's `MC` module and leaves its constants open.  What a part needs of its
constants is an operator of its module (`RelayConstants`, `X11Constants`,
`SocksConstants`, `TunnelConstants`, `PromptsConstants`, `AuthConstants`,
`TransfersConstants`, `EditConstants`, `DeadlineConstants`, `StoresConstants`,
`SshConstants`) or a named assumption there; the `MC` module assumes it and TLC evaluates it.  The assumptions
are types and signs (limits are naturals, some positive; `NoKey` is no key, sets of
channels are finite), and about names the one above on `.part`.  `StoresConstants` says
that a device without its jump host is one that may be saved, that a file to import has
a device (one without is imported in no steps at all), and that a damaged file's content
is none that is ever saved.  `SshConstants` says that files and saved devices are sequences,
and of devices saved that no two have one id, that the id is of the saved kind, and that
each has a name and a user (`validate_ssh`).  Bounds that only TLC needs are any natural.

In every module the invariant is a conjunction of named parts, and there is one lemma
per action, with a step for each part that the action can disturb.

**`OutputStreamProofs`**
- `StreamInvariant`: `Spec => []StreamInv`.  The property of interest, that
  replies continue the terminal's output, is not inductive: what a reply may say
  depends on what its call asked for, on what older calls may still acknowledge
  and on which bytes were given up.  `StreamInv` conjoins `OffsetsName` (an offset
  names the same byte everywhere), `ReaderBehind` (below the reader's offset
  everything is shown or given up), `CallsBehind` (no call asks beyond the reader,
  the awaited one asks for exactly its offset) and `ReplyContinues`.
- `TypeCorrect`, `NothingVanishes`: the type invariant and `NoByteVanishes`.
- `Implements`: `Spec => ImplementsDelivery`, each step mapped to a step of
  `OrderedDelivery` or a stutter, from the same invariant.

**`PaneSessionProofs`** (`PaneAssumption`)
- `PaneInvariant`: `Spec => []PaneInv`.  That no session is orphaned is not inductive:
  whether the pane will stop a session depends on the answer it awaits, on the events
  still on their way to it and on what the user called off.  `PaneInv` says of every
  session that its events come in the order of its phases (`Fits`) and that connect()
  answers it once; of the pane, that it has a session or opens one, that a pane that
  waits for its timer has none and that what was called off leaves nothing behind to
  arm it; and that the retries were counted by the budget.
- `SessionsAreHeld`, `PaneShowsTheTruth`, `RetriesObeyTheUser`: the three invariants
  of the run `pane_session`.

**`HostTrustProofs`** (`TrustAssumption`, `PromptsConstants`)
- `TrustInvariant`: what the run checks speaks of a store that is up to date; to stay
  true it must be said of every copy that may become a store or the file.  `TrustInv`
  says it (`Sound`) of the file, of each instance's memory and of what every read
  under way found, each only while no later revision exists.
- `KnownKeysWereAccepted`, `LossesAreFlagged`: `KnownWasAccepted` and `NoTrustLost`
  of the run `host_trust`.
- `OnlyTheMeantIsTrusted`, `PromptsStayOpen`: `TrustIsMeant` and `PromptsAreOpen`.
  That a click is for the prompt it was aimed at is a fact about four places a prompt
  may be in.  `PromptsInv` says that a connection waits for a prompt of its own
  (`WaitsForItsOwn`), that what the dialog shows or has queued is still open and there
  once, and that what is yet to be announced is open and not there (`DialogIsOpen`), and
  that the button is armed for the prompt on screen only (`Aimed`).

**`ConnectingProofs`** (`ConnectionAssumption`)
- `DeadlineInvariant`, `AccountingHolds`: the clock, its pauses and its budget agree, and
  with them `Accounting` (what was used of the budget is the time that passed while no
  prompt was open).
- `NeverTooSoon`: under `Punctual`, `NotTooSoon`.  It is not inductive: whether the
  sleep may end depends on the end the task read before it slept.  The invariant
  adds `SleepsLongEnough`: a task that sleeps and was not notified sleeps until the
  clock's present end, and once that end has come the budget is spent.
- `SecretsGoHome`, `PromptsArePutAway`: `SecretsFit` and `AskedAndPutAway`.  `AuthInv`
  adds `PasswordWaits`: the saved password that may still be given was not given, and
  no factor was accepted yet.
- `WrongKeysAreFinal`: `WrongKeyAsksNothing`, an action property.

**`NetworkProofs`** (`ConnectionAssumption`)
- `RelaysKeepPace`: `RelayKeepsPace`.  In `RelayInv` the two halves agree on what is
  queued, what is waited for and how it ends, a failed upload and a dropped delivery
  included.  The part that carries the rest is about
  the wake-up: a drain whose registration was not used up waits only while there is no
  room (`WaitingIsFull`), and its client took nothing since (`WaitingIsIdle`).
- `OnlyTheStalledAreCut`: `CutOnlyWhenStalled`, an action property, from the same
  invariant.
- `ProxiesAnswerAsDeserved`: `ProxyAnswers`.  `HandshakeInv` says of a client how far
  it was read and that all of it up to there was well (`ReadWell`, `Progress`), and
  that a verdict, once given, is the one for the request as a whole (`Judged`).
- `ScreensAreGuarded`: `ScreenIsGuarded`.  `ScreenInv` follows one channel at a time
  (`ProvedItself`, `CookieOf`, `AsksUntrusted`); the limit needs the cardinality of
  the channels that hold a slot, and the choice of the cookie a least index in the
  file (`LeastOf`).
- `TunnelsAreAsAsked`: `TunnelIsAsAsked`.  What was asked for is either in a control that
  was not read yet or among the forwards the tunnel has or will bind (`AsAsked`); entries
  and routes fit each other (`EntriesFit`, `RoutesFit`).
- `ServersAgree`: `ServerAgrees`, from `TunnelInv`.  Whether a port is open at the end
  depends on all that is still in line for it: in the worker's queue, in its hands, on
  the wire, as a cancel behind a listen that timed out, and in the answers not read.
  `PortInv` says of every port that each listen in line for nobody has a cancel after it
  (`StaleEnds`), that the listen of its route is the last in line, and once granted is
  not undone (`LiveCounts`), and that the holder waits just as long as its answer is to
  come (`HolderWaits`); `Numbers`, that no two ports wait for the same answer.

**`DevicesProofs`** (`DevicesAssumption`, `StoresAssumption`, `ImportAssumption`)
- `SshShellIsAsAsked`: `ShellIsAsAsked`.  A size asked for passes through the
  queue and the writer's hands; `SizeUnderWay` says that the last one is either the last
  size in the queue (`InQueue`) or, with none there, what was sent or is about to be
  (`PastQueue`).  `CodesAreTheServers` follows the exit code the other way.
- `SshOutputIsKept`: `OutputIsKept`, from `Recorded`: a recorder has a file only while the
  session knows of it, and its file has no hole.
- `ReapedAreLeftAlone` (`ShellInvariant`, `ReapedIsNeverSignalled`): only the reaper both
  waits for the child and signals it, so a pid that was waited for is not signalled.
  `ShellInv` also says where each thread is before and after the teardown.
- `SerialErrorsAreOfThePort`: `ErrorsAreOfThePort`, an action property.
- `TheStoresAgree`: `StoresAgree`.  That memory is as the disk is not inductive: a
  reload puts into memory what it read earlier.  `FilesInv` says of every file that
  what a reload has read of it is what the disk has, unless a write came in between
  (`FilesAgree`), and that only the devices' file is ever damaged (`FilesTyped`).  That a
  deleted device is forgotten is decided over three steps, of which any may fail:
  `ForgettingInv` says which of its traces are gone at each of them, that a save under
  way is of no device the history calls forgotten, and that it jumps through none.
- `TheSecretsStayPut`: `SecretsStayPut`.  An import compares its devices with the saved
  ones before it saves any, so whose a secret is depends on how far it is.  `SecretsInv`
  says that the secrets of devices it has looked at fit what they will be saved as
  (`Entrusted`), and that the devices looked at are still those saved; a save waits with a
  secret of its device's method or none.  `RisksInv` says that every risk of the file
  among the devices the import began with was confirmed, and that what was saved since
  came from the import itself: that a risk was confirmed is said of the name the user
  saw (`Confirmed`), as the code compares names.
- `AllImportedAsWritten`: `ImportedAsWritten`.  The saved devices alone do not say why a
  jump host may be trusted not to jump: when a device is linked, its jump host may be a
  host of the file that is itself still to be linked.  `ImportInv` speaks of all that is
  saved or will be (`ThisImport`): that each has its key in the book, and that what the
  book says doesn't jump is there and doesn't, or is a host still to be linked straight
  (`BookInv`); that each imported device goes where the book has its section's jump
  (`LinksInv`); that an id is of one device (`IdsInv`); and that every host of the file
  waits, is a device or was skipped, each once (`HostsInv`).  That the jump is the first
  word of the file on it is by the least section that says one.
- `ExportsComeBack`: `RoundTrip`, from `ImportInv` and `BackInv`.  No two aliases of an
  export are the same, as a suffix that is free is always found (`FreeAliasFacts`: more
  numbers are tried than names are taken), so each hop's name stands for just the device
  it was written for (`ExportFacts`, `OwnFacts`).  `BackInv` says that of such a file no
  host is skipped, that the book has only hosts admitted, and that what is linked is
  what was parsed.

**`FilesProofs`** (`FilesAssumption`)
- `EditInvariant`: `Spec => []EditInv`.  That no change of others is overwritten is
  decided at the last look before the upload, from a stamp that may be old by then.
  `EditInv` says that stamps held go with the content fetched under them
  (`StampsFit`), that a change to be kept shows in the stamp
  (`GuardedMoved`), that an upload past its last look has none before it
  (`UploadIsClear`), and that what was taken from the copy is still in it or will be
  looked at again (`TakenIsCopy`).
- `OthersChangesAreKept`: `NoSilentOverwrite`, an action property.
- `EditsAreKeptTrackOf`: `EditsAreTrue`; `EditsAreAsShown`: `SyncedIsTrue`, which is about
  the remote file as well: where nobody else changed it and the last upload was
  confirmed, it has the content of the copy shown as synced.
- `TransfersKeepTheFiles`: `TransfersKeepFiles`.  A transfer is between two files at
  any time, and it may end there: `TransferInv` says that the scratch file is the one
  of the file at hand (`ScratchIsForOne`), that what stood under a name stands there
  unless it was replaced in full (`FilesKept`), that what is written to in place was
  not there (`TargetIsClear`), that the entries before the one at hand are done and
  those after it untouched (`EntriesInOrder`), and where half a file may be left
  (`HalvesAreKnown`).

**`ListFacts`** is what the others know of `Without`.  A recursive function's values are
proved by a least element: of the indices where the claim fails one is least
(`LeastNatural`), which needs no induction theorem and no operator parameter (`UpTo`).
`KeptFunction` shows that the recursion has a solution, and `WithoutFacts` that the
result has exactly the elements that are kept, each as often as before.

Only model-checked:
- The liveness properties (`ReleasedEnd`, `Converges`, `NothingHangs`): liveness under fairness and ENABLED are out of the
  prover's reach.

Every safety invariant and every action property that a passing run checks is a theorem.

## Not modelled

- The tunnels panel (`tunnels/*.ts`): a second reconnect loop over a tunnel's events,
  analogous to the pane's.
- Tabs, grid and profiles: synchronous edits of one structure; only the stored
  profile is in `ConfigStores`.
- The application shell: menus, tray, windows and updates are the platform's.
- Dialogs, settings, translations, layout, website: rendering.
- Parts of modelled components: the byte layouts of X11, Xauthority and SOCKS
  messages beyond what decides; tokenising and glob matching of `ssh_config`; the
  agents' and keychains' protocols, and agent forwarding; ConPTY; names of recordings
  and of exported files; the SFTP operations that are one request (`chmod`, `mkdir`,
  `rename`, ...).
