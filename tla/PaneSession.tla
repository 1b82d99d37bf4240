----------------------------- MODULE PaneSession -----------------------------
(***************************************************************************)
(* One terminal pane and the backend sessions it opens.                    *)
(*                                                                         *)
(* The pane (pane.ts, with pane/sessionSlot.ts and reconnectBudget.ts)      *)
(* chooses a session id, calls connect(), and is told what becomes of the   *)
(* session in session_status events.  The connect() reply, the events, the  *)
(* disconnect() calls, the retry timer and the user all interleave: events  *)
(* can overtake the reply, the user can cancel, delete the device or close  *)
(* the pane while connect() is under way, and a disconnect() for a session  *)
(* that is not spawned yet does nothing (commands/sessions.rs, session.rs).  *)
(***************************************************************************)
EXTENDS Integers, Sequences

CONSTANTS
  Devices,        \* the saved devices
  AutoReconnect,  \* those that opted into auto-reconnect
  NoDevice,       \* the pane's "no device assigned"
  MaxSessions,    \* bound: sessions the pane opens
  MaxAttempts     \* MAX_RECONNECT_ATTEMPTS

ASSUME PaneAssumption ==
  /\ AutoReconnect \subseteq Devices
  /\ NoDevice \notin Devices
  /\ MaxSessions \in Nat \ {0}
  /\ MaxAttempts \in Nat

Sessions == 1 .. MaxSessions

NoSession == 0

\* KEYRING_RETRIES
KeyringRetries == 1

\* What an error status or a failed connect() says, as far as a retry cares:
\* a FINAL_FAILURES code, the keychain, another code, or no code at all.
Codes == {"none", "final", "keyring", "retryable"}

Event == [status : {"connecting", "connected", "disconnected", "exited", "error"},
          code : Codes]

VARIABLES
  \* the pane
  slot,           \* SessionSlot: current, pending, connected
  awaiting,       \* the session whose connect() the pane awaits (`connecting')
  userInitiated,  \* the next end of the session is one the user asked for
  disposed,
  deviceId,       \* the assigned device
  devices,        \* the devices the pane knows
  budget,         \* ReconnectBudget: attempts, keyring failures, timer armed
  paneStatus,
  \* the backend
  opened,         \* how many session ids were chosen so far
  session,        \* per id: phase, stop, connect() reply, events on their way
  disconnects,    \* disconnect() calls on their way
  \* what happened, for the properties
  history

paneVars == <<slot, awaiting, userInitiated, disposed, deviceId, devices, budget, paneStatus>>
vars == <<paneVars, opened, session, disconnects, history>>

-----------------------------------------------------------------------------
EmptySlot == [current |-> NoSession, pending |-> NoSession, connected |-> FALSE]

FullBudget == [attempts |-> 0, keyring |-> 0, timer |-> FALSE]

\* No end of a session has armed the timer.
NoCause == [session |-> NoSession, code |-> "none"]

Unopened == [phase |-> "none", stop |-> FALSE, reply |-> "unanswered", events |-> <<>>,
             device |-> NoDevice]

Init ==
  /\ slot = EmptySlot
  /\ awaiting = NoSession
  /\ userInitiated = FALSE
  /\ disposed = FALSE
  /\ deviceId = NoDevice
  /\ devices = Devices
  /\ budget = FullBudget
  /\ paneStatus = "idle"
  /\ opened = 0
  /\ session = [s \in Sessions |-> Unopened]
  /\ disconnects = {}
  /\ history = [asked |-> {}, calledOff |-> FALSE, retries |-> 0,
                keyringRetries |-> 0, cause |-> NoCause]

\* SessionSlot.ids, SessionSlot.isOwnerOf
Owned == {slot.current, slot.pending} \ {NoSession}

\* The server let the session in: its shell is being opened, or is there.
Established(s) == session[s].phase \in {"opening", "connected"}

Alive(s) == session[s].phase = "connecting" \/ Established(s)

-----------------------------------------------------------------------------
(* The backend: commands/sessions.rs and session.rs *)

Emit(s, newPhase, event) ==
  session' = [session EXCEPT ![s].phase = newPhase, ![s].events = Append(@, event)]

\* connect(): the credentials are resolved, the session task is spawned and
\* reports that it is connecting; the command returns.
Spawn(s) ==
  /\ session[s].phase = "resolving"
  /\ session' = [session EXCEPT ![s].phase = "connecting", ![s].reply = "ok",
                   ![s].events = Append(@, [status |-> "connecting", code |-> "none"])]
  /\ UNCHANGED <<paneVars, opened, disconnects, history>>

\* connect() fails before a session exists.
Refuse(s, code) ==
  /\ session[s].phase = "resolving"
  /\ session' = [session EXCEPT ![s].phase = "ended", ![s].reply = code]
  /\ UNCHANGED <<paneVars, opened, disconnects, history>>

\* run_session: established before a stop was requested.
Establish(s) ==
  /\ session[s].phase = "connecting"
  /\ ~session[s].stop
  /\ Emit(s, "opening", [status |-> "connected", code |-> "none"])
  /\ UNCHANGED <<paneVars, opened, disconnects, history>>

EstablishFails(s, code) ==
  /\ session[s].phase = "connecting"
  /\ ~session[s].stop
  /\ Emit(s, "ended", [status |-> "error", code |-> code])
  /\ UNCHANGED <<paneVars, opened, disconnects, history>>

\* run_shell up to its loop: the server grants the channel, the terminal and the
\* shell, and takes the connect snippet.
ShellOpens(s) ==
  /\ session[s].phase = "opening"
  /\ session' = [session EXCEPT ![s].phase = "connected"]
  /\ UNCHANGED <<paneVars, opened, disconnects, history>>

\* The connection is lost, the shell exits, or the channel fails; before the loop
\* all of these are errors.
ShellEnds(s, event) ==
  /\ Established(s)
  /\ event.status \in {"disconnected", "exited", "error"}
  /\ session[s].phase = "opening" => event.status = "error"
  /\ event.code = IF event.status = "error" THEN "retryable" ELSE "none"
  /\ Emit(s, "ended", event)
  /\ UNCHANGED <<paneVars, opened, disconnects, history>>

\* The requested stop is seen: the handshake and the shell's loop race it, the
\* opening of the shell does not.
Stopped(s) ==
  /\ session[s].phase \in {"connecting", "connected"}
  /\ session[s].stop
  /\ Emit(s, "ended", [status |-> "disconnected", code |-> "none"])
  /\ UNCHANGED <<paneVars, opened, disconnects, history>>

\* disconnect(): a no-op unless a manager has the session.
HandleDisconnect(s) ==
  /\ s \in disconnects
  /\ disconnects' = disconnects \ {s}
  /\ session' = [session EXCEPT ![s].stop = @ \/ Alive(s)]
  /\ UNCHANGED <<paneVars, opened, history>>

-----------------------------------------------------------------------------
(* The pane *)

\* ReconnectBudget.schedule, allowed; reconnect.ts
Counted(code) == IF code = "keyring" THEN budget.keyring + 1 ELSE budget.keyring

\* Mutants of RetryAllowed: one attempt too many; a keychain retried like any
\* other failure.
RetryAllowedOnceMore(code) ==
  /\ code # "final"
  /\ code = "keyring" => Counted(code) <= KeyringRetries
  /\ deviceId \in AutoReconnect \intersect devices
  /\ budget.attempts <= MaxAttempts

RetryAllowed(code) ==
  /\ code # "final"
  /\ code = "keyring" => Counted(code) <= KeyringRetries
  /\ deviceId \in AutoReconnect \intersect devices
  /\ budget.attempts < MaxAttempts

\* applyTerminatedStatus, scheduleReconnect
Terminate(s, status, code) ==
  LET retry == ~userInitiated /\ status # "exited" /\ RetryAllowed(code)
  IN  /\ slot' = EmptySlot
      /\ userInitiated' = FALSE
      /\ budget' = IF retry
                   THEN [attempts |-> budget.attempts + 1, keyring |-> Counted(code), timer |-> TRUE]
                   ELSE FullBudget
      /\ paneStatus' = IF retry THEN "connecting" ELSE status
      /\ history' = IF retry
                    THEN [history EXCEPT !.cause = [session |-> s, code |-> code]]
                    ELSE [history EXCEPT !.cause = NoCause]

\* Mutant of DeliverEvent: events of any session are taken.
DeliverAnyEvent(s) ==
  /\ session[s].events # <<>>
  /\ session' = [session EXCEPT ![s].events = Tail(@)]
  /\ LET event == Head(session[s].events)
     IN  IF disposed
         THEN UNCHANGED <<slot, userInitiated, budget, paneStatus, history>>
         ELSE CASE event.status = "connecting" ->
                     /\ paneStatus' = "connecting"
                     /\ UNCHANGED <<slot, userInitiated, budget, history>>
                [] event.status = "connected" ->
                     /\ slot' = [slot EXCEPT !.connected = TRUE]
                     /\ budget' = FullBudget
                     /\ userInitiated' = FALSE
                     /\ paneStatus' = "connected"
                     /\ history' = [history EXCEPT !.retries = 0, !.keyringRetries = 0, !.cause = NoCause]
                [] OTHER -> Terminate(s, event.status, event.code)
  /\ UNCHANGED <<awaiting, disposed, deviceId, devices, opened, disconnects>>

\* A session_status event arrives (init's listener, gone after dispose).
DeliverEvent(s) ==
  /\ session[s].events # <<>>
  /\ session' = [session EXCEPT ![s].events = Tail(@)]
  /\ LET event == Head(session[s].events)
     IN  IF disposed \/ s \notin Owned
         THEN UNCHANGED <<slot, userInitiated, budget, paneStatus, history>>
         ELSE CASE event.status = "connecting" ->
                     /\ paneStatus' = "connecting"
                     /\ UNCHANGED <<slot, userInitiated, budget, history>>
                [] event.status = "connected" ->
                     /\ slot' = [slot EXCEPT !.connected = TRUE]
                     /\ budget' = FullBudget
                     /\ userInitiated' = FALSE
                     /\ paneStatus' = "connected"
                     /\ history' = [history EXCEPT !.retries = 0, !.keyringRetries = 0, !.cause = NoCause]
                [] OTHER -> Terminate(s, event.status, event.code)
  /\ UNCHANGED <<awaiting, disposed, deviceId, devices, opened, disconnects>>

\* beginAttempt, connectDevice, establishConnection up to the await: whatever
\* the pane held is released, a fresh id is pending before connect() is called.
Attempt(device) ==
  /\ opened < MaxSessions
  /\ opened' = opened + 1
  /\ disconnects' = disconnects \union Owned
  /\ slot' = [EmptySlot EXCEPT !.pending = opened + 1]
  /\ awaiting' = opened + 1
  /\ session' = [session EXCEPT ![opened + 1].phase = "resolving",
                                ![opened + 1].device = device]
  /\ deviceId' = device
  /\ userInitiated' = FALSE
  /\ paneStatus' = "connecting"
  /\ UNCHANGED <<disposed, devices>>

\* Mutant of ClickConnect: no guard against re-entry while connect() is under way.
ClickConnectAgain ==
  /\ ~disposed
  /\ slot.current = NoSession
  /\ \E d \in IF deviceId = NoDevice THEN devices ELSE {deviceId} : Attempt(d)
  /\ budget' = FullBudget
  /\ history' = [history EXCEPT !.calledOff = FALSE, !.retries = 0, !.keyringRetries = 0,
                               !.cause = NoCause]

\* The user connects (Connect, or Retry on the overlay): both are offered only
\* while no session is open, and do nothing while connect() is under way.
ClickConnect ==
  /\ ~disposed
  /\ slot.current = NoSession
  /\ awaiting = NoSession
  /\ \E d \in IF deviceId = NoDevice THEN devices ELSE {deviceId} : Attempt(d)
  /\ budget' = FullBudget
  /\ history' = [history EXCEPT !.calledOff = FALSE, !.retries = 0, !.keyringRetries = 0,
                               !.cause = NoCause]

\* The retry timer fires.  The delay (2 s at least) is longer than the reply of
\* a connect() that already spawned its session takes.
RetryFires ==
  /\ budget.timer
  /\ awaiting = NoSession
  /\ IF deviceId = NoDevice
     THEN /\ slot' = EmptySlot
          /\ disconnects' = disconnects \union Owned
          /\ budget' = FullBudget
          /\ UNCHANGED <<awaiting, userInitiated, disposed, deviceId, devices, paneStatus,
                         opened, session, history>>
     ELSE /\ Attempt(deviceId)
          /\ budget' = [budget EXCEPT !.timer = FALSE]
          /\ history' = [history EXCEPT !.retries = @ + 1,
                           !.keyringRetries = IF history.cause.code = "keyring" THEN @ + 1 ELSE @,
                           !.cause = NoCause]

\* connect() resolved: adoptSession.
ConnectReturns(s) ==
  /\ awaiting = s
  /\ session[s].reply = "ok"
  /\ session' = [session EXCEPT ![s].reply = "done"]
  /\ awaiting' = NoSession
  /\ IF disposed \/ slot.pending # s
     THEN /\ disconnects' = disconnects \union {s}
          /\ UNCHANGED slot
     ELSE /\ slot' = [slot EXCEPT !.current = s, !.pending = NoSession]
          /\ UNCHANGED disconnects
  /\ UNCHANGED <<userInitiated, disposed, deviceId, devices, budget, paneStatus, opened, history>>

\* connect() rejected: onConnectFailed; a failure of a session the pane let go
\* of is not reported.
ConnectRejected(s) ==
  /\ awaiting = s
  /\ session[s].reply \in Codes
  /\ session' = [session EXCEPT ![s].reply = "done"]
  /\ awaiting' = NoSession
  /\ IF slot.pending = s
     THEN Terminate(s, "error", session[s].reply)
     ELSE UNCHANGED <<slot, userInitiated, budget, paneStatus, history>>
  /\ UNCHANGED <<disposed, deviceId, devices, opened, disconnects>>

\* disconnectSession; the button is there while a session is open.
ClickDisconnect ==
  /\ ~disposed
  /\ slot.current # NoSession
  /\ userInitiated' = TRUE
  /\ budget' = FullBudget
  /\ disconnects' = disconnects \union {slot.current}
  /\ history' = [history EXCEPT !.asked = @ \union {s \in {slot.current} : Alive(s)}]
  /\ UNCHANGED <<slot, awaiting, disposed, deviceId, devices, paneStatus, opened, session>>

\* cancelReconnect, on the overlay of a reconnect sequence.
ClickCancel ==
  /\ ~disposed
  /\ budget.attempts > 0
  /\ paneStatus = "connecting"
  /\ budget' = FullBudget
  /\ disconnects' = disconnects \union Owned
  /\ slot' = EmptySlot
  /\ paneStatus' = "disconnected"
  /\ history' = [history EXCEPT !.calledOff = TRUE]
  /\ UNCHANGED <<awaiting, userInitiated, disposed, deviceId, devices, opened, session>>

\* deviceLocked
Locked == Owned # {} \/ awaiting # NoSession

\* pickDevice
PickDevice(d) ==
  /\ ~disposed
  /\ ~Locked
  /\ d \in devices
  /\ deviceId' = d
  /\ UNCHANGED <<slot, awaiting, userInitiated, disposed, devices, budget, paneStatus,
                 opened, session, disconnects, history>>

\* applyDevices after the device was deleted; abandonSessionForDeletedDevice
\* closes the open session, and keeps one that is still opening.
DeviceDeleted(d) ==
  /\ ~disposed
  /\ d \in devices
  /\ devices' = devices \ {d}
  /\ IF deviceId = d
     THEN /\ deviceId' = NoDevice
          /\ budget' = FullBudget
          /\ slot' = [slot EXCEPT !.current = NoSession, !.connected = FALSE]
          /\ disconnects' = disconnects \union ({slot.current} \ {NoSession})
          /\ paneStatus' = "idle"
          /\ history' = [history EXCEPT !.calledOff = TRUE]
     ELSE UNCHANGED <<deviceId, budget, slot, disconnects, paneStatus, history>>
  /\ UNCHANGED <<awaiting, userInitiated, disposed, opened, session>>

\* Mutant of Dispose: the open session is dropped, not closed.
DisposeLeavingOpen ==
  /\ ~disposed
  /\ disposed' = TRUE
  /\ userInitiated' = TRUE
  /\ budget' = FullBudget
  /\ slot' = [slot EXCEPT !.current = NoSession, !.connected = FALSE]
  /\ paneStatus' = "idle"
  /\ history' = [history EXCEPT !.calledOff = TRUE]
  /\ UNCHANGED <<disconnects, awaiting, deviceId, devices, opened, session>>

\* dispose: a session that is still opening is closed when connect() returns.
Dispose ==
  /\ ~disposed
  /\ disposed' = TRUE
  /\ userInitiated' = TRUE
  /\ budget' = FullBudget
  /\ slot' = [slot EXCEPT !.current = NoSession, !.connected = FALSE]
  /\ disconnects' = disconnects \union ({slot.current} \ {NoSession})
  /\ paneStatus' = "idle"
  /\ history' = [history EXCEPT !.calledOff = TRUE]
  /\ UNCHANGED <<awaiting, deviceId, devices, opened, session>>

-----------------------------------------------------------------------------
ConnectAnswered(s) == Spawn(s) \/ \E code \in Codes \ {"none"} : Refuse(s, code)

BackendStep(s) ==
  \/ ConnectAnswered(s)
  \/ Establish(s)
  \/ \E code \in Codes \ {"none"} : EstablishFails(s, code)
  \/ ShellOpens(s)
  \/ \E event \in Event : ShellEnds(s, event)
  \/ Stopped(s)
  \/ HandleDisconnect(s)

PaneStep(s) == DeliverEvent(s) \/ ConnectReturns(s) \/ ConnectRejected(s)

UserStep ==
  \/ ClickConnect
  \/ ClickDisconnect
  \/ ClickCancel
  \/ \E d \in Devices : PickDevice(d) \/ DeviceDeleted(d)
  \/ Dispose

Next ==
  \/ \E s \in Sessions : BackendStep(s) \/ PaneStep(s)
  \/ UserStep
  \/ RetryFires

Spec == Init /\ [][Next]_vars

\* The runtime runs every command and every session task that can run, and the
\* webview delivers replies and events; a retry timer fires.  Nothing is assumed
\* of the user, the network or the server, which may never answer the opening of
\* a shell.
Fairness ==
  /\ \A s \in Sessions :
       /\ WF_vars(ConnectAnswered(s))
       /\ WF_vars(HandleDisconnect(s))
       /\ WF_vars(Stopped(s))
       /\ WF_vars(DeliverEvent(s))
       /\ WF_vars(ConnectReturns(s))
       /\ WF_vars(ConnectRejected(s))
  /\ WF_vars(RetryFires)

LiveSpec == Spec /\ Fairness

-----------------------------------------------------------------------------
(* Properties *)

Session == [phase : {"none", "resolving", "connecting", "opening", "connected", "ended"},
            stop : BOOLEAN,
            reply : {"unanswered", "ok", "done"} \union Codes,
            events : Seq(Event),
            device : Devices \union {NoDevice}]

\* The type invariant.
TypeOK ==
  /\ slot \in [current : 0 .. MaxSessions, pending : 0 .. MaxSessions, connected : BOOLEAN]
  /\ awaiting \in 0 .. MaxSessions
  /\ userInitiated \in BOOLEAN
  /\ disposed \in BOOLEAN
  /\ deviceId \in devices \union {NoDevice}
  /\ devices \subseteq Devices
  /\ budget \in [attempts : 0 .. MaxAttempts, keyring : Nat, timer : BOOLEAN]
  /\ paneStatus \in {"idle", "connecting", "connected", "disconnected", "exited", "error"}
  /\ opened \in 0 .. MaxSessions
  /\ session \in [Sessions -> Session]
  /\ disconnects \subseteq Sessions
  /\ history \in [asked : SUBSET Sessions, calledOff : BOOLEAN, retries : Nat,
                  keyringRetries : Nat,
                  cause : [session : 0 .. MaxSessions, code : Codes]]

\* No backend session is orphaned: one that runs and that nobody asked to stop
\* is the pane's open session, or its connect() has yet to return to the pane,
\* which then adopts or closes it.
Unattended(s) == Alive(s) /\ ~session[s].stop /\ s \notin disconnects

NoOrphan ==
  \A s \in Sessions :
    Unattended(s) => slot.current = s \/ (awaiting = s /\ session[s].reply = "ok")

\* One session per pane: never two that run and that nobody asked to stop.
OneSessionPerPane ==
  \A s, r \in Sessions : Unattended(s) /\ Unattended(r) => s = r

\* The chip reads "connected", and input is accepted, only for a session that
\* did connect and whose end, if it ended, is still to be delivered.
ConnectedIsTrue ==
  paneStatus = "connected" \/ slot.connected =>
    \E s \in Owned :
      \/ Established(s)
      \/ session[s].phase = "ended" /\ session[s].events # <<>>

\* The pane is never connected to one device while claiming another.
ClaimsItsDevice ==
  \A s \in Owned : deviceId \in {session[s].device, NoDevice}

\* Once a reconnect is called off (cancelled, device deleted, pane closed), no
\* retry is armed until the user connects again, whatever is still under way.
CalledOffStaysOff == history.calledOff => ~budget.timer

\* No more than MAX_RECONNECT_ATTEMPTS automatic attempts follow one another.
RetriesBounded == history.retries <= MaxAttempts

\* Within one reconnect sequence, a keychain that fails is tried once more only,
\* however the keychain's failures mix with others.
KeychainRetriedOnce == history.keyringRetries <= KeyringRetries

\* A reconnect sequence is never stuck: while it is in progress there is a timer
\* armed, an attempt under way, or a session.
ReconnectProgresses ==
  budget.attempts > 0 => budget.timer \/ awaiting # NoSession \/ Owned # {}

\* A session that the pane let go of, or that a closed pane still held, ends; only
\* a server that falls silent while the shell is being opened can hold it.
ReleasedSessionEnds(s) ==
  session[s].phase # "none" /\ (disposed \/ s \notin Owned)
    ~> session[s].phase \in {"opening", "ended"}

\* "A user-requested disconnect is expected - don't auto-reconnect from it"
\* (pane.ts:508): no retry is armed by the end of a session the user closed.
DisconnectIsExpected == budget.timer => history.cause.session \notin history.asked
=============================================================================
