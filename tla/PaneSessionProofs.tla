-------------------------- MODULE PaneSessionProofs --------------------------
(***************************************************************************)
(* Theorems about PaneSession, for any devices, any number of sessions and  *)
(* any number of attempts: no backend session is orphaned, a pane has one    *)
(* at most and says the truth about it, and reconnects stay within what the  *)
(* user and the budget allow.                                               *)
(***************************************************************************)
EXTENDS MCPaneSession, SequenceTheorems, TLAPS

Terminal(event) == event.status \in {"disconnected", "exited", "error"}

\* The events of a session that is in a phase: what is on its way was emitted in
\* the order of the phases, and its end is the last of them.
Fits(p, events) ==
  /\ p \in {"none", "resolving"} => events = <<>>
  /\ p = "connecting" => \A i \in 1 .. Len(events) : events[i].status = "connecting"
  /\ p \in {"opening", "connected"} => \A i \in 1 .. Len(events) : ~Terminal(events[i])
  /\ p = "ended" => \A i \in 1 .. Len(events) : Terminal(events[i]) <=> i = Len(events)

EventsFit == \A s \in Sessions : Fits(session[s].phase, session[s].events)

\* It did connect; its end, if it ended, is still to be delivered.
DidConnect(s) ==
  \/ Established(s)
  \/ session[s].phase = "ended" /\ session[s].events # <<>>

\* Ids are used once, in their order.
IdsAreFresh ==
  /\ slot.current <= opened /\ slot.pending <= opened /\ awaiting <= opened
  /\ \A s \in Sessions : session[s].phase = "none" <=> s > opened

\* connect() answers once, and the pane awaits one answer at a time.
AnswersOnce ==
  \A s \in Sessions :
    /\ session[s].phase \in {"none", "resolving"} <=> session[s].reply = "unanswered"
    /\ Alive(s) => session[s].reply \in {"ok", "done"}
    /\ s <= opened /\ awaiting # s => session[s].reply = "done"
    /\ awaiting = s => session[s].reply # "done"

\* The pane has a session or opens one, and what it opens it awaits; a closed
\* pane keeps what it was opening as pending.
SlotFits ==
  /\ slot.current # NoSession => slot.pending = NoSession /\ awaiting = NoSession
  /\ slot.pending # NoSession => awaiting = slot.pending \/ (disposed /\ awaiting = NoSession)

\* A closed pane connects to nothing, and an answer it awaits arms no timer.
DisposedIsOver ==
  disposed =>
    /\ slot.current = NoSession /\ ~slot.connected /\ paneStatus # "connected"
    /\ ~budget.timer
    /\ userInitiated \/ awaiting = NoSession

\* A pane that waits for its next attempt has no session.
TimerIsAlone == budget.timer => slot = EmptySlot /\ paneStatus # "connected"

\* What was called off leaves nothing behind that may arm the timer.
CalledOffIsOver ==
  history.calledOff => ~budget.timer /\ (Owned = {} \/ deviceId = NoDevice \/ disposed)

\* The end of a session the pane holds may still arm the timer.
MayRetry == Owned # {} /\ ~userInitiated /\ deviceId # NoDevice

\* Every retry was counted by the budget it was made from.
RetriesAreCounted ==
  /\ budget.keyring <= KeyringRetries
  /\ RetriesBounded /\ KeychainRetriedOnce
  /\ MayRetry => history.retries <= budget.attempts /\ history.keyringRetries <= budget.keyring
  /\ budget.timer =>
       /\ history.retries < budget.attempts
       /\ history.keyringRetries <= budget.keyring
       /\ history.cause.code = "keyring" => history.keyringRetries < budget.keyring

\* A sequence in progress has its timer armed, or a session.
SequenceGoesOn == budget.attempts > 0 => budget.timer \/ Owned # {}

\* The parts that speak of the pane alone, of the sessions, and of both.
PanePart ==
  /\ SlotFits /\ DisposedIsOver /\ TimerIsAlone
  /\ CalledOffIsOver /\ RetriesAreCounted /\ SequenceGoesOn
SessionPart == IdsAreFresh /\ AnswersOnce /\ EventsFit
SharedPart == NoOrphan /\ ConnectedIsTrue /\ ClaimsItsDevice

PaneInv == TypeOK /\ PanePart /\ SessionPart /\ SharedPart

-----------------------------------------------------------------------------
(* Events on their way. *)

\* What a step of a session emits next.
Follows(p, q, event) ==
  \/ p = "resolving" /\ q = "connecting" /\ event.status = "connecting"
  \/ p = "connecting" /\ q = "opening" /\ event.status = "connected"
  \/ p \in {"connecting", "opening", "connected"} /\ q = "ended" /\ Terminal(event)

LEMMA Emitted ==
  ASSUME NEW p, NEW q, NEW events \in Seq(Event), NEW event \in Event,
         Fits(p, events), Follows(p, q, event)
  PROVE  /\ Append(events, event) \in Seq(Event)
         /\ Append(events, event) # <<>>
         /\ Fits(q, Append(events, event))
<1> DEFINE longer == Append(events, event)
<1>1. /\ longer \in Seq(Event) /\ longer # <<>>
      /\ Len(events) \in Nat /\ Len(longer) = Len(events) + 1
      /\ \A i \in 1 .. Len(events) : longer[i] = events[i]
      /\ longer[Len(events) + 1] = event
  OBVIOUS
<1>2. CASE p = "resolving" /\ q = "connecting" /\ event.status = "connecting"
  BY <1>1, <1>2 DEF Fits
<1>3. CASE p = "connecting" /\ q = "opening" /\ event.status = "connected"
  BY <1>1, <1>3 DEF Fits, Terminal
<1>4. CASE p \in {"connecting", "opening", "connected"} /\ q = "ended" /\ Terminal(event)
  <2>1. \A i \in 1 .. Len(events) : ~Terminal(events[i])
    BY <1>4 DEF Fits, Terminal
  <2> QED
    BY <1>1, <1>4, <2>1 DEF Fits
<1> QED
  BY <1>1, <1>2, <1>3, <1>4 DEF Follows

LEMMA Delivered ==
  ASSUME NEW p \in {"none", "resolving", "connecting", "opening", "connected", "ended"},
         NEW events \in Seq(Event), Fits(p, events), events # <<>>
  PROVE  /\ Head(events) \in Event /\ Tail(events) \in Seq(Event)
         /\ Fits(p, Tail(events))
         /\ Terminal(Head(events)) => p = "ended"
         /\ Head(events).status = "connected" => p \in {"opening", "connected", "ended"}
         /\ p = "ended" /\ ~Terminal(Head(events)) => Tail(events) # <<>>
<1> DEFINE rest == Tail(events)
<1>1. /\ Len(events) \in Nat \ {0} /\ Head(events) = events[1] /\ Head(events) \in Event
      /\ rest \in Seq(Event) /\ Len(rest) = Len(events) - 1
      /\ \A i \in 1 .. Len(rest) : rest[i] = events[i + 1]
  BY HeadTailProperties, EmptySeq
<1> HIDE DEF rest
<1>0. rest = <<>> <=> Len(events) = 1
  BY <1>1, EmptySeq
<1>2. /\ \A i \in 1 .. Len(rest) :
            i + 1 \in 1 .. Len(events) /\ (i = Len(rest) <=> i + 1 = Len(events))
      /\ 1 \in 1 .. Len(events)
  BY <1>1
<1>3. p \notin {"none", "resolving"}
  BY DEF Fits
<1>4. CASE p = "connecting"
  BY <1>1, <1>2, <1>4 DEF Fits, Terminal, rest
<1>5. CASE p \in {"opening", "connected"}
  BY <1>1, <1>2, <1>5 DEF Fits, rest
<1>6. CASE p = "ended"
  <2>1. \A i \in 1 .. Len(events) : Terminal(events[i]) <=> i = Len(events)
    BY <1>6 DEF Fits
  <2>2. Fits(p, rest)
    BY <1>1, <1>2, <1>6, <2>1 DEF Fits
  <2> QED
    BY <1>0, <1>1, <1>2, <1>6, <2>1, <2>2 DEF rest
<1> QED
  BY <1>3, <1>4, <1>5, <1>6

-----------------------------------------------------------------------------
(* The backend's steps leave the pane alone. *)

LEMMA PaneAlone ==
  ASSUME PanePart, UNCHANGED <<paneVars, history>>
  PROVE  PanePart'
<1>1. (SlotFits /\ DisposedIsOver /\ TimerIsAlone)'
  BY DEF PanePart, paneVars, SlotFits, DisposedIsOver, TimerIsAlone
<1>2. (CalledOffIsOver /\ RetriesAreCounted /\ SequenceGoesOn)'
  BY DEF PanePart, paneVars, CalledOffIsOver, RetriesAreCounted, SequenceGoesOn, MayRetry, Owned,
         RetriesBounded, KeychainRetriedOnce
<1> QED
  BY <1>1, <1>2 DEF PanePart

LEMMA OwnedSessions ==
  ASSUME TypeOK
  PROVE  Owned \subseteq Sessions
BY PaneAssumption DEF TypeOK, Owned, Sessions, NoSession

\* What the pane says of its sessions stays true while none of them becomes less
\* than it is.
LEMMA TruthKept ==
  ASSUME PaneInv, UNCHANGED <<slot, paneStatus, deviceId>>,
         \A r \in Sessions :
           /\ session'[r].device = session[r].device
           /\ Established(r) => session'[r].phase \in {"opening", "connected", "ended"}
           /\ Established(r) /\ session'[r].phase = "ended"
                => session'[r].events # <<>>
           /\ session[r].phase = "ended" => session'[r].phase = "ended"
           /\ session[r].phase = "ended" /\ session[r].events # <<>>
                => session'[r].events # <<>>
  PROVE  ConnectedIsTrue' /\ ClaimsItsDevice'
<1>1. Owned' = Owned /\ Owned \subseteq Sessions
  BY OwnedSessions DEF Owned, PaneInv
<1>2. ConnectedIsTrue'
  <2>1. \A r \in Sessions : DidConnect(r) => DidConnect(r)'
    BY DEF DidConnect, Established
  <2> SUFFICES ASSUME paneStatus = "connected" \/ slot.connected
               PROVE  \E r \in Owned : DidConnect(r)'
    BY <1>1 DEF ConnectedIsTrue, DidConnect, Established
  <2>2. PICK r \in Owned : DidConnect(r)
    BY DEF PaneInv, SharedPart, ConnectedIsTrue, DidConnect, Established
  <2> QED
    BY <1>1, <2>1, <2>2
<1>3. ClaimsItsDevice'
  <2>1. \A r \in Owned : session'[r].device = session[r].device
    BY <1>1
  <2> QED
    BY <1>1, <2>1 DEF PaneInv, SharedPart, ClaimsItsDevice
<1> QED
  BY <1>2, <1>3

\* A session that goes from one phase to the next and says so.
LEMMA EmitStep ==
  ASSUME PaneInv, NEW s \in Sessions, NEW q, NEW event \in Event, NEW reply,
         session' = [session EXCEPT ![s] =
           [session[s] EXCEPT !.phase = q, !.reply = reply,
                              !.events = Append(session[s].events, event)]],
         Follows(session[s].phase, q, event),
         IF session[s].phase = "resolving" THEN reply = "ok" ELSE reply = session[s].reply,
         UNCHANGED <<paneVars, opened, disconnects, history>>
  PROVE  PaneInv'
<1> DEFINE p == session[s].phase
<1>0. session \in [Sessions -> Session] /\ session[s] \in Session
  BY DEF PaneInv, TypeOK
<1>1. /\ p \in {"resolving", "connecting", "opening", "connected"}
      /\ q \in {"connecting", "opening", "ended"}
      /\ q = "connecting" => p = "resolving"
      /\ q = "opening" => p = "connecting"
  BY DEF Follows
<1>2. /\ Append(session[s].events, event) \in Seq(Event)
      /\ Append(session[s].events, event) # <<>>
      /\ Fits(q, Append(session[s].events, event))
  <2>1. Fits(p, session[s].events) /\ session[s].events \in Seq(Event)
    BY <1>0 DEF PaneInv, SessionPart, EventsFit, Session
  <2> QED
    BY <2>1, Emitted
<1>3. /\ session'[s].phase = q /\ session'[s].reply = reply /\ session'[s].stop = session[s].stop
      /\ session'[s].device = session[s].device
      /\ session'[s].events = Append(session[s].events, event)
      /\ \A r \in Sessions : r # s => session'[r] = session[r]
      /\ session'[s] \in Session
  <2> DEFINE next == [session[s] EXCEPT !.phase = q, !.reply = reply,
                                       !.events = Append(session[s].events, event)]
  <2>1. /\ next.phase = q /\ next.reply = reply /\ next.stop = session[s].stop
        /\ next.device = session[s].device /\ next.events = Append(session[s].events, event)
        /\ next \in Session
    BY <1>0, <1>1, <1>2 DEF Session
  <2>2. session' = [session EXCEPT ![s] = next]
    OBVIOUS
  <2> HIDE DEF next
  <2> QED
    BY <1>0, <2>1, <2>2
<1>4. TypeOK'
  <2>2. session' \in [Sessions -> Session]
    BY <1>0, <1>3
  <2> QED
    BY <2>2 DEF PaneInv, TypeOK, paneVars
<1>5. IdsAreFresh'
  BY <1>1, <1>3 DEF PaneInv, SessionPart, IdsAreFresh, paneVars
<1>6. AnswersOnce'
  BY <1>1, <1>3 DEF PaneInv, SessionPart, AnswersOnce, IdsAreFresh, Alive, Established,
     paneVars, Sessions
<1>7. EventsFit'
  BY <1>2, <1>3 DEF PaneInv, SessionPart, EventsFit
<1>8. NoOrphan'
  <2> SUFFICES ASSUME NEW r \in Sessions, Unattended(r)'
               PROVE  slot.current = r \/ (awaiting = r /\ session'[r].reply = "ok")
    BY DEF NoOrphan, paneVars
  <2>1. CASE r # s \/ p # "resolving"
    <3>1. Unattended(r)
      BY <1>1, <1>3, <2>1 DEF Unattended, Alive, Established
    <3>2. session'[r].reply = session[r].reply
      BY <1>3, <2>1
    <3> QED
      BY <3>1, <3>2 DEF PaneInv, SharedPart, NoOrphan
  <2>2. CASE r = s /\ p = "resolving"
    <3>1. awaiting = s
      BY <2>2 DEF PaneInv, TypeOK, SessionPart, AnswersOnce, IdsAreFresh, Sessions
    <3> QED
      BY <1>3, <2>2, <3>1
  <2> QED
    BY <2>1, <2>2
<1>9. ConnectedIsTrue' /\ ClaimsItsDevice'
  BY <1>1, <1>2, <1>3, TruthKept DEF paneVars, Established
<1>10. PanePart'
  BY PaneAlone DEF PaneInv
<1> QED
  BY <1>4, <1>5, <1>6, <1>7, <1>8, <1>9, <1>10 DEF PaneInv, SessionPart, SharedPart

LEMMA ReportStep ==
  ASSUME PaneInv, NEW s \in Sessions, NEW q, NEW event \in Event,
         Follows(session[s].phase, q, event), session[s].phase # "resolving",
         Emit(s, q, event),
         UNCHANGED <<paneVars, opened, disconnects, history>>
  PROVE  PaneInv'
<1>1. session \in [Sessions -> Session] /\ session[s] \in Session
  BY DEF PaneInv, TypeOK
<1>2. session' = [session EXCEPT ![s] =
                    [session[s] EXCEPT !.phase = q, !.reply = session[s].reply,
                                       !.events = Append(session[s].events, event)]]
  BY <1>1 DEF Emit, Session
<1> QED
  BY <1>2, EmitStep

LEMMA RefuseStep ==
  ASSUME PaneInv, NEW s \in Sessions, NEW code \in Codes \ {"none"}, Refuse(s, code)
  PROVE  PaneInv'
<1>1. session \in [Sessions -> Session] /\ session[s] \in Session
      /\ session[s].phase = "resolving"
  BY DEF PaneInv, TypeOK, Refuse
<1>2. /\ session'[s] = [session[s] EXCEPT !.phase = "ended", !.reply = code]
      /\ session' = [session EXCEPT ![s] = session'[s]]
  BY <1>1 DEF Refuse, Session
<1>3. /\ session'[s].phase = "ended" /\ session'[s].reply = code
      /\ session'[s].device = session[s].device /\ session'[s].events = session[s].events
      /\ session'[s] \in Session
      /\ \A r \in Sessions : r # s => session'[r] = session[r]
  BY <1>1, <1>2 DEF Session, Codes
<1>4. TypeOK'
  <2>1. session' \in [Sessions -> Session]
    BY <1>1, <1>2, <1>3
  <2> QED
    BY <2>1 DEF PaneInv, TypeOK, paneVars, Refuse
<1>5. IdsAreFresh'
  BY <1>1, <1>3 DEF PaneInv, SessionPart, IdsAreFresh, paneVars, Refuse
<1>6. AnswersOnce'
  BY <1>1, <1>3 DEF PaneInv, SessionPart, AnswersOnce, Alive, Established, paneVars, Refuse, Codes
<1>7. EventsFit'
  <2>1. session[s].events = <<>>
    BY <1>1 DEF PaneInv, SessionPart, EventsFit, Fits
  <2> QED
    BY <1>3, <2>1 DEF PaneInv, SessionPart, EventsFit, Fits
<1>8. NoOrphan'
  BY <1>1, <1>3 DEF PaneInv, SharedPart, NoOrphan, Unattended, Alive, Established, paneVars, Refuse
<1>9. SharedPart'
  BY <1>1, <1>3, <1>8, TruthKept DEF Refuse, paneVars, Session, SharedPart, Established
<1>10. PanePart'
  BY PaneAlone DEF PaneInv, Refuse
<1> QED
  BY <1>4, <1>5, <1>6, <1>7, <1>9, <1>10 DEF PaneInv, SessionPart

LEMMA HandleDisconnectStep ==
  ASSUME PaneInv, NEW s \in Sessions, HandleDisconnect(s)
  PROVE  PaneInv'
<1>1. session \in [Sessions -> Session] /\ session[s] \in Session
  BY DEF PaneInv, TypeOK
<1>2. /\ session'[s] = [session[s] EXCEPT !.stop = @ \/ Alive(s)]
      /\ session' = [session EXCEPT ![s] = session'[s]]
  BY <1>1 DEF HandleDisconnect, Session
<1>3. /\ session'[s].phase = session[s].phase /\ session'[s].reply = session[s].reply
      /\ session'[s].device = session[s].device /\ session'[s].events = session[s].events
      /\ session'[s].stop = (session[s].stop \/ Alive(s))
      /\ session'[s] \in Session
      /\ \A r \in Sessions : r # s => session'[r] = session[r]
  BY <1>1, <1>2 DEF Session
<1>4. TypeOK'
  <2>1. session' \in [Sessions -> Session]
    BY <1>1, <1>2, <1>3
  <2> QED
    BY <2>1 DEF PaneInv, TypeOK, paneVars, HandleDisconnect
<1>5. SessionPart'
  <2>1. \A r \in Sessions :
          /\ session'[r].phase = session[r].phase
          /\ session'[r].reply = session[r].reply
          /\ session'[r].events = session[r].events
    BY <1>3
  <2> QED
    BY <2>1 DEF PaneInv, SessionPart, IdsAreFresh, AnswersOnce, EventsFit, Alive, Established,
       paneVars,
                HandleDisconnect
<1>6. NoOrphan'
  BY <1>1, <1>3 DEF PaneInv, SharedPart, NoOrphan, Unattended, Alive, Established, paneVars,
     HandleDisconnect
<1>7. SharedPart'
  BY <1>3, <1>6, TruthKept DEF HandleDisconnect, paneVars, SharedPart, Established
<1>8. PanePart'
  BY PaneAlone DEF PaneInv, HandleDisconnect
<1> QED
  BY <1>4, <1>5, <1>7, <1>8 DEF PaneInv

LEMMA ShellOpensStep ==
  ASSUME PaneInv, NEW s \in Sessions, ShellOpens(s)
  PROVE  PaneInv'
<1>1. session \in [Sessions -> Session] /\ session[s] \in Session
      /\ session[s].phase = "opening"
  BY DEF PaneInv, TypeOK, ShellOpens
<1>2. /\ session'[s] = [session[s] EXCEPT !.phase = "connected"]
      /\ session' = [session EXCEPT ![s] = session'[s]]
  BY <1>1 DEF ShellOpens, Session
<1>3. /\ session'[s].phase = "connected" /\ session'[s].reply = session[s].reply
      /\ session'[s].device = session[s].device /\ session'[s].events = session[s].events
      /\ session'[s].stop = session[s].stop /\ session'[s] \in Session
      /\ \A r \in Sessions : r # s => session'[r] = session[r]
  BY <1>1, <1>2 DEF Session
<1>4. TypeOK'
  <2>1. session' \in [Sessions -> Session]
    BY <1>1, <1>2, <1>3
  <2> QED
    BY <2>1 DEF PaneInv, TypeOK, paneVars, ShellOpens
<1>5. SessionPart'
  BY <1>1, <1>3 DEF PaneInv, SessionPart, IdsAreFresh, AnswersOnce, EventsFit, Fits, Alive,
                    Established, paneVars, ShellOpens
<1>6. NoOrphan'
  BY <1>1, <1>3 DEF PaneInv, SharedPart, NoOrphan, Unattended, Alive, Established, paneVars,
                    ShellOpens
<1>7. SharedPart'
  BY <1>1, <1>3, <1>6, TruthKept DEF ShellOpens, paneVars, SharedPart, Established
<1>8. PanePart'
  BY PaneAlone DEF PaneInv, ShellOpens
<1> QED
  BY <1>4, <1>5, <1>7, <1>8 DEF PaneInv

LEMMA BackendKeeps ==
  ASSUME PaneInv, NEW s \in Sessions, BackendStep(s)
  PROVE  PaneInv'
<1> DEFINE p == session[s].phase
<1>1. CASE Spawn(s)
  <2> DEFINE event == [status |-> "connecting", code |-> "none"]
  <2>1. session \in [Sessions -> Session] /\ session[s] \in Session
    BY DEF PaneInv, TypeOK
  <2>2. session' = [session EXCEPT ![s] =
                      [session[s] EXCEPT !.phase = "connecting", !.reply = "ok",
                                         !.events = Append(session[s].events, event)]]
    BY <1>1, <2>1 DEF Spawn, Session
  <2>3. event \in Event /\ Follows(p, "connecting", event)
    BY <1>1 DEF Spawn, Event, Codes, Follows
  <2> HIDE DEF event
  <2> QED
    BY <1>1, <2>2, <2>3, EmitStep DEF Spawn
<1>2. ASSUME NEW code \in Codes \ {"none"}, Refuse(s, code) PROVE PaneInv'
  BY <1>2, RefuseStep
<1>3. CASE Establish(s)
  <2> DEFINE event == [status |-> "connected", code |-> "none"]
  <2>1. event \in Event /\ Follows(p, "opening", event)
    BY <1>3 DEF Establish, Event, Codes, Follows
  <2>2. Emit(s, "opening", event) /\ p # "resolving"
        /\ UNCHANGED <<paneVars, opened, disconnects, history>>
    BY <1>3 DEF Establish
  <2> HIDE DEF event
  <2> QED
    BY <2>1, <2>2, ReportStep
<1>4. ASSUME NEW code \in Codes \ {"none"}, EstablishFails(s, code) PROVE PaneInv'
  <2> DEFINE event == [status |-> "error", code |-> code]
  <2>1. event \in Event /\ Follows(p, "ended", event)
    BY <1>4 DEF EstablishFails, Event, Codes, Follows, Terminal
  <2>2. Emit(s, "ended", event) /\ p # "resolving"
        /\ UNCHANGED <<paneVars, opened, disconnects, history>>
    BY <1>4 DEF EstablishFails
  <2> HIDE DEF event
  <2> QED
    BY <2>1, <2>2, ReportStep
<1>5. ASSUME NEW event \in Event, ShellEnds(s, event) PROVE PaneInv'
  <2>1. Follows(p, "ended", event) /\ p # "resolving"
    BY <1>5 DEF ShellEnds, Established, Follows, Terminal
  <2> QED
    BY <1>5, <2>1, ReportStep DEF ShellEnds
<1>6. CASE Stopped(s)
  <2> DEFINE event == [status |-> "disconnected", code |-> "none"]
  <2>1. event \in Event /\ Follows(p, "ended", event)
    BY <1>6 DEF Stopped, Alive, Established, Event, Codes, Follows, Terminal
  <2>2. Emit(s, "ended", event) /\ p # "resolving"
        /\ UNCHANGED <<paneVars, opened, disconnects, history>>
    BY <1>6 DEF Stopped, Alive, Established
  <2> HIDE DEF event
  <2> QED
    BY <2>1, <2>2, ReportStep
<1>7. CASE HandleDisconnect(s)
  BY <1>7, HandleDisconnectStep
<1>8. CASE ShellOpens(s)
  BY <1>8, ShellOpensStep
<1> QED
  BY <1>1, <1>2, <1>3, <1>4, <1>5, <1>6, <1>7, <1>8 DEF BackendStep, ConnectAnswered

-----------------------------------------------------------------------------
(* The pane's steps. *)

\* A pane that holds nothing is connected to nothing.
LEMMA EmptyIsTrue ==
  ASSUME (slot = EmptySlot)', (paneStatus # "connected")'
  PROVE  (Owned = {})' /\ ConnectedIsTrue' /\ ClaimsItsDevice'
BY DEF EmptySlot, Owned, ConnectedIsTrue, ClaimsItsDevice, NoSession

Histories ==
  [asked : SUBSET Sessions, calledOff : BOOLEAN, retries : Nat, keyringRetries : Nat,
   cause : [session : 0 .. MaxSessions, code : Codes]]

LEMMA HistoryType == TypeOK => history \in Histories
BY DEF TypeOK, Histories

LEMMA KeepSessions ==
  ASSUME PaneInv, UNCHANGED <<opened, session, awaiting>>,
         slot'.current \in {slot.current, NoSession}, slot'.pending \in {slot.pending, NoSession}
  PROVE  SessionPart'
<1>1. IdsAreFresh'
  BY DEF PaneInv, TypeOK, SessionPart, IdsAreFresh, NoSession
<1>2. AnswersOnce' /\ EventsFit'
  BY DEF PaneInv, SessionPart, AnswersOnce, EventsFit, Alive, Established
<1> QED
  BY <1>1, <1>2 DEF SessionPart

\* The pane opens a session.
LEMMA AttemptStep ==
  ASSUME PaneInv, NEW d \in devices, Attempt(d), awaiting = NoSession, ~disposed
  PROVE  /\ slot' = [current |-> NoSession, pending |-> opened + 1, connected |-> FALSE]
         /\ (Owned = {opened})'
         /\ SlotFits' /\ SessionPart' /\ SharedPart'
         /\ session' \in [Sessions -> Session] /\ opened' \in Sessions
         /\ disconnects' \subseteq Sessions
<1> DEFINE n == opened + 1
<1>1. /\ n \in Sessions /\ opened \in Nat /\ n = opened' /\ n # NoSession
      /\ session \in [Sessions -> Session] /\ session[n] \in Session
      /\ d \in Devices
  BY PaneAssumption DEF PaneInv, TypeOK, Attempt, Sessions, NoSession
<1>2. /\ slot' = [current |-> NoSession, pending |-> n, connected |-> FALSE]
      /\ slot'.current = NoSession /\ slot'.pending = n /\ ~slot'.connected
      /\ awaiting' = n /\ paneStatus' = "connecting" /\ deviceId' = d
      /\ disconnects' = disconnects \cup Owned
  BY DEF Attempt, EmptySlot
<1>3. Owned' = {n}
  BY <1>1, <1>2 DEF Owned
<1>4. /\ session' = [session EXCEPT ![n] = session'[n]]
      /\ session'[n] = [session[n] EXCEPT !.phase = "resolving", !.device = d]
  BY <1>1 DEF Attempt, Session
<1>5. /\ session'[n].phase = "resolving" /\ session'[n].device = d
      /\ session'[n].reply = session[n].reply /\ session'[n].events = session[n].events
      /\ session'[n] \in Session
      /\ \A r \in Sessions : r # n => session'[r] = session[r]
  BY <1>1, <1>4 DEF Session
<1>6. session' \in [Sessions -> Session]
  BY <1>1, <1>4, <1>5
<1>7. session[n].phase = "none" /\ session[n].reply = "unanswered" /\ session[n].events = <<>>
  BY <1>1 DEF PaneInv, SessionPart, IdsAreFresh, AnswersOnce, EventsFit, Fits
<1>8. SlotFits'
  BY <1>1, <1>2 DEF SlotFits
<1>9. IdsAreFresh'
  <2>1. \A r \in Sessions : session'[r].phase = "none" <=> r > opened'
    BY <1>1, <1>5, <1>7 DEF PaneInv, SessionPart, IdsAreFresh, Sessions
  <2> QED
    BY <1>1, <1>2, <2>1 DEF IdsAreFresh, NoSession
<1>10. AnswersOnce'
  <2> SUFFICES ASSUME NEW r \in Sessions
               PROVE  /\ session'[r].phase \in {"none", "resolving"}
                           <=> session'[r].reply = "unanswered"
                      /\ Alive(r)' => session'[r].reply \in {"ok", "done"}
                      /\ r <= opened' /\ awaiting' # r => session'[r].reply = "done"
                      /\ awaiting' = r => session'[r].reply # "done"
    BY DEF AnswersOnce
  <2>1. CASE r = n
    BY <1>1, <1>2, <1>5, <1>7, <2>1 DEF Alive, Established
  <2>2. CASE r # n
    <3>1. r <= opened' => r <= opened
      BY <1>1, <2>2 DEF Sessions
    <3>2. awaiting # r
      BY DEF Sessions, NoSession
    <3> QED
      BY <1>2, <1>5, <2>2, <3>1, <3>2 DEF PaneInv, SessionPart, AnswersOnce, Alive, Established
  <2> QED
    BY <2>1, <2>2
<1>11. EventsFit'
  BY <1>5, <1>7 DEF PaneInv, SessionPart, EventsFit, Fits
<1>12. NoOrphan'
  <2> SUFFICES ASSUME NEW r \in Sessions, Unattended(r)'
               PROVE  FALSE
    BY DEF NoOrphan
  <2>1. r # n
    BY <1>5 DEF Unattended, Alive, Established
  <2>2. Unattended(r) /\ r \notin Owned
    BY <1>2, <1>5, <2>1 DEF Unattended, Alive, Established
  <2>3. awaiting # r /\ slot.current # r
    BY <2>2 DEF Sessions, NoSession, Owned
  <2> QED
    BY <2>2, <2>3 DEF PaneInv, SharedPart, NoOrphan
<1>13. ConnectedIsTrue' /\ ClaimsItsDevice'
  BY <1>2, <1>3, <1>5 DEF ConnectedIsTrue, ClaimsItsDevice
<1>14. disconnects' \subseteq Sessions
  BY <1>2, OwnedSessions DEF PaneInv, TypeOK
<1> QED
  BY <1>1, <1>2, <1>3, <1>6, <1>8, <1>9, <1>10, <1>11, <1>12, <1>13, <1>14
     DEF SessionPart, SharedPart

\* The end of a session the pane holds: a retry is armed only if nothing speaks
\* against it, and is counted.
LEMMA TerminateStep ==
  ASSUME PaneInv, NEW s \in Sessions, NEW code \in Codes,
         NEW status \in {"disconnected", "exited", "error"},
         Terminate(s, status, code), Owned # {},
         awaiting' \in {awaiting, NoSession}, UNCHANGED <<disposed, deviceId, devices>>,
         disposed => userInitiated /\ awaiting' = NoSession
  PROVE  /\ (slot = EmptySlot)' /\ (paneStatus # "connected")' /\ PanePart'
         /\ budget' \in [attempts : 0 .. MaxAttempts, keyring : Nat, timer : BOOLEAN]
         /\ paneStatus' \in {"connecting", "disconnected", "exited", "error"}
         /\ userInitiated' = FALSE
         /\ history' = [history EXCEPT !.cause = history'.cause]
         /\ history'.cause \in [session : 0 .. MaxSessions, code : Codes]
<1> DEFINE retry == ~userInitiated /\ status # "exited" /\ RetryAllowed(code)
<1>1. /\ budget \in [attempts : 0 .. MaxAttempts, keyring : Nat, timer : BOOLEAN]
      /\ history \in [asked : SUBSET Sessions, calledOff : BOOLEAN, retries : Nat,
                      keyringRetries : Nat,
                      cause : [session : 0 .. MaxSessions, code : Codes]]
      /\ devices \subseteq Devices /\ MaxAttempts \in Nat
  BY PaneAssumption DEF PaneInv, TypeOK
<1>2. /\ slot' = EmptySlot /\ userInitiated' = FALSE /\ (Owned = {})'
      /\ slot'.current = NoSession /\ slot'.pending = NoSession /\ ~slot'.connected
  BY DEF Terminate, EmptySlot, Owned
<1>3. CASE retry
  <2>1. /\ budget' = [attempts |-> budget.attempts + 1, keyring |-> Counted(code), timer |-> TRUE]
        /\ paneStatus' = "connecting"
        /\ history' = [history EXCEPT !.cause = [session |-> s, code |-> code]]
    BY <1>3 DEF Terminate
  <2>2. /\ budget'.attempts = budget.attempts + 1 /\ budget'.keyring = Counted(code)
        /\ budget'.timer
        /\ history'.retries = history.retries /\ history'.keyringRetries = history.keyringRetries
        /\ history'.calledOff = history.calledOff
        /\ history'.cause = [session |-> s, code |-> code] /\ history'.cause.code = code
    BY <1>1, <2>1
  <2>3. budget.attempts < MaxAttempts /\ (code = "keyring" => Counted(code) <= KeyringRetries)
    BY <1>3 DEF RetryAllowed
  <2>4. deviceId # NoDevice /\ ~userInitiated
    BY <1>1, <1>3, PaneAssumption DEF RetryAllowed
  <2>5. MayRetry /\ ~history.calledOff /\ ~disposed
    BY <2>4 DEF MayRetry, PaneInv, PanePart, CalledOffIsOver
  <2>6. /\ history.retries <= budget.attempts /\ history.keyringRetries <= budget.keyring
        /\ budget.keyring <= KeyringRetries
        /\ history.retries <= MaxAttempts /\ history.keyringRetries <= KeyringRetries
    BY <2>5 DEF PaneInv, PanePart, RetriesAreCounted, RetriesBounded, KeychainRetriedOnce
  <2>7. /\ budget' \in [attempts : 0 .. MaxAttempts, keyring : Nat, timer : BOOLEAN]
        /\ history'.cause \in [session : 0 .. MaxSessions, code : Codes]
    BY <1>1, <2>1, <2>2, <2>3 DEF Counted, Sessions
  <2>8. RetriesAreCounted'
    <3>1. budget'.keyring <= KeyringRetries /\ history'.keyringRetries <= budget'.keyring
          /\ (code = "keyring" => history'.keyringRetries < budget'.keyring)
      BY <1>1, <2>2, <2>3, <2>6 DEF Counted, KeyringRetries
    <3>2. history'.retries < budget'.attempts
      BY <1>1, <2>2, <2>6
    <3>3. RetriesBounded' /\ KeychainRetriedOnce'
      BY <2>2, <2>6 DEF RetriesBounded, KeychainRetriedOnce
    <3>4. ~MayRetry'
      BY <1>2 DEF MayRetry
    <3> QED
      BY <2>2, <3>1, <3>2, <3>3, <3>4 DEF RetriesAreCounted
  <2>9. SlotFits' /\ DisposedIsOver' /\ TimerIsAlone' /\ CalledOffIsOver' /\ SequenceGoesOn'
    BY <1>2, <2>1, <2>2, <2>5
    DEF SlotFits, DisposedIsOver, TimerIsAlone, CalledOffIsOver, SequenceGoesOn
  <2> QED
    BY <1>1, <1>2, <2>1, <2>2, <2>7, <2>8, <2>9 DEF PanePart
<1>4. CASE ~retry
  <2>1. /\ budget' = FullBudget /\ paneStatus' = status
        /\ history' = [history EXCEPT !.cause = NoCause]
    BY <1>4 DEF Terminate
  <2>2. /\ budget'.attempts = 0 /\ budget'.keyring = 0 /\ budget'.timer = FALSE
        /\ history'.retries = history.retries /\ history'.keyringRetries = history.keyringRetries
        /\ history'.calledOff = history.calledOff
        /\ history'.cause = NoCause
    BY <1>1, <2>1 DEF FullBudget
  <2>3. /\ budget' \in [attempts : 0 .. MaxAttempts, keyring : Nat, timer : BOOLEAN]
        /\ history'.cause \in [session : 0 .. MaxSessions, code : Codes]
    BY <1>1, <2>1, <2>2, PaneAssumption DEF FullBudget, NoCause, NoSession, Codes
  <2>4. RetriesAreCounted'
    BY <1>2, <2>2 DEF PaneInv, PanePart, RetriesAreCounted, RetriesBounded, KeychainRetriedOnce,
                      MayRetry, KeyringRetries
  <2>5. SlotFits' /\ DisposedIsOver' /\ TimerIsAlone' /\ CalledOffIsOver' /\ SequenceGoesOn'
    BY <1>2, <2>1, <2>2 DEF SlotFits, DisposedIsOver, TimerIsAlone, CalledOffIsOver, SequenceGoesOn
  <2> QED
    BY <1>1, <1>2, <2>1, <2>2, <2>3, <2>4, <2>5 DEF PanePart
<1> QED
  BY <1>3, <1>4

\* A session_status event is taken off the queue of its session.
LEMMA TakeEvent ==
  ASSUME PaneInv, NEW s \in Sessions, DeliverEvent(s)
  PROVE  /\ session' \in [Sessions -> Session] /\ SessionPart'
         /\ Head(session[s].events) \in Event
         /\ Terminal(Head(session[s].events)) => session[s].phase = "ended"
         /\ Head(session[s].events).status = "connected" => DidConnect(s)'
         /\ DidConnect(s) /\ ~Terminal(Head(session[s].events)) => DidConnect(s)'
         /\ \A r \in Sessions :
              /\ session'[r].phase = session[r].phase /\ session'[r].reply = session[r].reply
              /\ session'[r].stop = session[r].stop /\ session'[r].device = session[r].device
              /\ r # s => session'[r] = session[r]
<1> DEFINE e == session[s].events
<1>1. /\ session \in [Sessions -> Session] /\ session[s] \in Session /\ e # <<>>
      /\ e \in Seq(Event) /\ Fits(session[s].phase, e)
      /\ session[s].phase \in {"none", "resolving", "connecting", "opening", "connected", "ended"}
  BY DEF PaneInv, TypeOK, Session, DeliverEvent, SessionPart, EventsFit
<1>2. /\ Head(e) \in Event /\ Tail(e) \in Seq(Event) /\ Fits(session[s].phase, Tail(e))
      /\ Terminal(Head(e)) => session[s].phase = "ended"
      /\ Head(e).status = "connected" => session[s].phase \in {"opening", "connected", "ended"}
      /\ session[s].phase = "ended" /\ ~Terminal(Head(e)) => Tail(e) # <<>>
  BY <1>1, Delivered
<1>3. /\ session' = [session EXCEPT ![s] = session'[s]]
      /\ session'[s] = [session[s] EXCEPT !.events = Tail(e)]
  BY <1>1 DEF DeliverEvent
<1>4. /\ session'[s].phase = session[s].phase /\ session'[s].reply = session[s].reply
      /\ session'[s].stop = session[s].stop /\ session'[s].device = session[s].device
      /\ session'[s].events = Tail(e) /\ session'[s] \in Session
      /\ \A r \in Sessions : r # s => session'[r] = session[r]
  BY <1>1, <1>2, <1>3 DEF Session
<1>5. session' \in [Sessions -> Session]
  BY <1>1, <1>3, <1>4
<1>6. /\ Head(e).status = "connected" => DidConnect(s)'
      /\ DidConnect(s) /\ ~Terminal(Head(e)) => DidConnect(s)'
  BY <1>2, <1>4 DEF DidConnect, Established, Terminal
<1>7. SessionPart'
  <2>1. opened' = opened /\ awaiting' = awaiting
    BY DEF DeliverEvent
  <2>2. slot'.current \in {slot.current, NoSession} /\ slot'.pending \in {slot.pending, NoSession}
    BY DEF DeliverEvent, Terminate, EmptySlot, PaneInv, TypeOK
  <2>3. IdsAreFresh'
    BY <1>4, <2>1, <2>2 DEF PaneInv, TypeOK, SessionPart, IdsAreFresh, NoSession
  <2>4. AnswersOnce'
    BY <1>4, <2>1 DEF PaneInv, SessionPart, AnswersOnce, Alive, Established
  <2>5. EventsFit'
    BY <1>2, <1>4 DEF PaneInv, SessionPart, EventsFit
  <2> QED
    BY <2>3, <2>4, <2>5 DEF SessionPart
<1> QED
  BY <1>2, <1>4, <1>5, <1>6, <1>7

LEMMA DeliverStep ==
  ASSUME PaneInv, NEW s \in Sessions, DeliverEvent(s)
  PROVE  PaneInv'
<1> DEFINE event == Head(session[s].events)
           held == {"connecting", "connected"}
<1>1. /\ session' \in [Sessions -> Session] /\ SessionPart'
      /\ event \in Event
      /\ Terminal(event) => session[s].phase = "ended"
      /\ event.status = "connected" => DidConnect(s)'
      /\ DidConnect(s) /\ ~Terminal(event) => DidConnect(s)'
      /\ \A r \in Sessions :
           /\ session'[r].phase = session[r].phase /\ session'[r].reply = session[r].reply
           /\ session'[r].stop = session[r].stop /\ session'[r].device = session[r].device
           /\ r # s => session'[r] = session[r]
  BY TakeEvent
<1>2. UNCHANGED <<awaiting, disposed, deviceId, devices, opened, disconnects>>
  BY DEF DeliverEvent
<1>3. Owned \subseteq Sessions /\ TypeOK
  BY OwnedSessions DEF PaneInv
<1>4. \A r \in Sessions : Unattended(r)' <=> Unattended(r)
  BY <1>1, <1>2 DEF Unattended, Alive, Established
<1>5. \A r \in Sessions : r # s => (DidConnect(r) <=> DidConnect(r)')
  BY <1>1 DEF DidConnect, Established
<1>6. CASE disposed \/ s \notin Owned
  <2>1. UNCHANGED <<slot, userInitiated, budget, paneStatus, history>>
    BY <1>6 DEF DeliverEvent
  <2>2. UNCHANGED <<paneVars, history>>
    BY <1>2, <2>1 DEF paneVars
  <2>3. PanePart'
    BY <2>2, PaneAlone DEF PaneInv
  <2>4. TypeOK'
    BY <1>1, <1>2, <1>3, <2>1 DEF TypeOK
  <2>5. NoOrphan'
    BY <1>1, <1>2, <1>4, <2>1 DEF PaneInv, SharedPart, NoOrphan
  <2>6. Owned' = Owned
    BY <2>1 DEF Owned
  <2>7. ConnectedIsTrue'
    <3>1. CASE disposed
      BY <2>1, <3>1 DEF PaneInv, PanePart, DisposedIsOver, ConnectedIsTrue
    <3>2. CASE s \notin Owned
      BY <1>3, <1>5, <2>1, <2>6, <3>2 DEF PaneInv, SharedPart, ConnectedIsTrue, DidConnect,
         Established
    <3> QED
      BY <1>6, <3>1, <3>2
  <2>8. ClaimsItsDevice'
    BY <1>1, <1>2, <1>3, <2>6 DEF PaneInv, SharedPart, ClaimsItsDevice
  <2> QED
    BY <1>1, <2>3, <2>4, <2>5, <2>7, <2>8 DEF PaneInv, SharedPart
<1>7. CASE ~disposed /\ s \in Owned /\ event.status = "connecting"
  <2>1. paneStatus' = "connecting" /\ UNCHANGED <<slot, userInitiated, budget, history>>
    BY <1>7 DEF DeliverEvent
  <2>2. Owned' = Owned
    BY <2>1 DEF Owned
  <2>3. PanePart'
    <3>1. (SlotFits /\ DisposedIsOver /\ TimerIsAlone)'
      BY <1>2, <2>1 DEF PaneInv, PanePart, SlotFits, DisposedIsOver, TimerIsAlone
    <3>2. (CalledOffIsOver /\ RetriesAreCounted /\ SequenceGoesOn)'
      BY <1>2, <2>1, <2>2 DEF PaneInv, PanePart, CalledOffIsOver, RetriesAreCounted,
         SequenceGoesOn, MayRetry, RetriesBounded, KeychainRetriedOnce
    <3> QED
      BY <3>1, <3>2 DEF PanePart
  <2>4. TypeOK'
    BY <1>1, <1>2, <1>3, <2>1 DEF TypeOK
  <2>5. NoOrphan'
    BY <1>1, <1>2, <1>4, <2>1 DEF PaneInv, SharedPart, NoOrphan
  <2>6. ConnectedIsTrue'
    <3> SUFFICES ASSUME slot.connected
                 PROVE  \E r \in Owned : DidConnect(r)'
      BY <2>1, <2>2 DEF ConnectedIsTrue, DidConnect, Established
    <3>1. PICK r \in Owned : DidConnect(r)
      BY DEF PaneInv, SharedPart, ConnectedIsTrue, DidConnect, Established
    <3>2. ~Terminal(event)
      BY <1>7 DEF Terminal
    <3> QED
      BY <1>1, <1>3, <1>5, <3>1, <3>2
  <2>7. ClaimsItsDevice'
    BY <1>1, <1>2, <1>3, <2>2 DEF PaneInv, SharedPart, ClaimsItsDevice
  <2> QED
    BY <1>1, <2>3, <2>4, <2>5, <2>6, <2>7 DEF PaneInv, SharedPart
<1>8. CASE ~disposed /\ s \in Owned /\ event.status = "connected"
  <2>1. /\ slot' = [slot EXCEPT !.connected = TRUE] /\ budget' = FullBudget
        /\ userInitiated' = FALSE /\ paneStatus' = "connected"
        /\ history' = [history EXCEPT !.retries = 0, !.keyringRetries = 0, !.cause = NoCause]
    BY <1>8 DEF DeliverEvent
  <2>2. /\ slot'.current = slot.current /\ slot'.pending = slot.pending /\ Owned' = Owned
        /\ budget'.attempts = 0 /\ budget'.keyring = 0 /\ budget'.timer = FALSE
        /\ history'.retries = 0 /\ history'.keyringRetries = 0
        /\ history'.calledOff = history.calledOff
    BY <1>3, <2>1 DEF TypeOK, FullBudget, Owned
  <2>3. PanePart'
    <3>1. SlotFits' /\ DisposedIsOver' /\ TimerIsAlone' /\ CalledOffIsOver' /\ SequenceGoesOn'
      BY <1>2, <1>8, <2>2 DEF PaneInv, PanePart, SlotFits, DisposedIsOver, TimerIsAlone,
         CalledOffIsOver, SequenceGoesOn
    <3>2. RetriesAreCounted'
      BY <2>2, PaneAssumption DEF RetriesAreCounted, RetriesBounded, KeychainRetriedOnce,
         KeyringRetries
    <3> QED
      BY <3>1, <3>2 DEF PanePart
  <2>4. TypeOK'
    <3>1. slot' \in [current : 0 .. MaxSessions, pending : 0 .. MaxSessions, connected : BOOLEAN]
      BY <1>3, <2>1 DEF TypeOK
    <3>2. budget' \in [attempts : 0 .. MaxAttempts, keyring : Nat, timer : BOOLEAN]
      BY <2>1, PaneAssumption DEF FullBudget
    <3>3. NoCause \in [session : 0 .. MaxSessions, code : Codes]
      BY PaneAssumption DEF NoCause, NoSession, Codes
    <3>4. history' \in Histories
      BY <1>3, <2>1, <3>3, HistoryType DEF Histories
    <3> QED
      BY <1>1, <1>2, <1>3, <2>1, <3>1, <3>2, <3>4 DEF TypeOK, Histories
  <2>5. NoOrphan'
    BY <1>1, <1>2, <1>4, <2>2 DEF PaneInv, SharedPart, NoOrphan
  <2>6. ConnectedIsTrue'
    BY <1>1, <1>8, <2>2 DEF ConnectedIsTrue, DidConnect, Established
  <2>7. ClaimsItsDevice'
    BY <1>1, <1>2, <1>3, <2>2 DEF PaneInv, SharedPart, ClaimsItsDevice
  <2> QED
    BY <1>1, <2>3, <2>4, <2>5, <2>6, <2>7 DEF PaneInv, SharedPart
<1>9. CASE ~disposed /\ s \in Owned /\ event.status \notin held
  <2>1. Terminate(s, event.status, event.code)
    BY <1>9 DEF DeliverEvent
  <2>2. /\ event.status \in {"disconnected", "exited", "error"} /\ event.code \in Codes
        /\ Terminal(event)
    BY <1>1, <1>9 DEF Event, Terminal
  <2>3. /\ (slot = EmptySlot)' /\ (paneStatus # "connected")' /\ PanePart'
        /\ budget' \in [attempts : 0 .. MaxAttempts, keyring : Nat, timer : BOOLEAN]
        /\ paneStatus' \in {"connecting", "disconnected", "exited", "error"}
        /\ userInitiated' = FALSE
        /\ history' = [history EXCEPT !.cause = history'.cause]
        /\ history'.cause \in [session : 0 .. MaxSessions, code : Codes]
    BY <1>2, <1>9, <2>1, <2>2, TerminateStep
  <2>4. TypeOK'
    <3>1. slot' \in [current : 0 .. MaxSessions, pending : 0 .. MaxSessions, connected : BOOLEAN]
      BY <2>3, PaneAssumption DEF EmptySlot, NoSession
    <3>2. history' \in Histories
      BY <1>3, <2>3, HistoryType DEF Histories
    <3> QED
      BY <1>1, <1>2, <1>3, <2>3, <3>1, <3>2 DEF TypeOK, Histories
  <2>5. NoOrphan'
    <3> SUFFICES ASSUME NEW r \in Sessions, Unattended(r)
                 PROVE  awaiting = r /\ session[r].reply = "ok"
      BY <1>1, <1>2, <1>4 DEF NoOrphan
    <3>1. slot.current = r \/ (awaiting = r /\ session[r].reply = "ok")
      BY DEF PaneInv, SharedPart, NoOrphan
    <3>2. CASE slot.current = r
      <4>1. r # s
        BY <1>1, <2>2 DEF Unattended, Alive, Established
      <4>2. slot.pending = s /\ slot.pending # NoSession /\ slot.current # NoSession
        BY <1>9, <3>2, <4>1 DEF Owned, Sessions, NoSession
      <4> QED
        BY <4>2 DEF PaneInv, PanePart, SlotFits
    <3> QED
      BY <3>1, <3>2
  <2>6. ConnectedIsTrue' /\ ClaimsItsDevice'
    BY <2>3, EmptyIsTrue
  <2> QED
    BY <1>1, <2>3, <2>4, <2>5, <2>6 DEF PaneInv, SharedPart
<1> QED
  BY <1>6, <1>7, <1>8, <1>9

\* connect() answers, and the pane awaits it no longer.
LEMMA TakeAnswer ==
  ASSUME PaneInv, NEW s \in Sessions, awaiting = s, awaiting' = NoSession,
         session' = [session EXCEPT ![s].reply = "done"], opened' = opened,
         session[s].reply \in {"ok"} \cup Codes,
         slot'.current \in {slot.current, s, NoSession},
         slot'.pending \in {slot.pending, NoSession}
  PROVE  /\ session' \in [Sessions -> Session] /\ SessionPart'
         /\ \A r \in Sessions :
              /\ session'[r].phase = session[r].phase /\ session'[r].events = session[r].events
              /\ session'[r].stop = session[r].stop /\ session'[r].device = session[r].device
              /\ r # s => session'[r] = session[r]
<1>1. session \in [Sessions -> Session] /\ session[s] \in Session
  BY DEF PaneInv, TypeOK
<1>2. /\ session' = [session EXCEPT ![s] = session'[s]]
      /\ session'[s] = [session[s] EXCEPT !.reply = "done"]
  BY <1>1 DEF Session
<1>3. /\ session'[s].phase = session[s].phase /\ session'[s].events = session[s].events
      /\ session'[s].stop = session[s].stop /\ session'[s].device = session[s].device
      /\ session'[s].reply = "done" /\ session'[s] \in Session
      /\ \A r \in Sessions : r # s => session'[r] = session[r]
  BY <1>1, <1>2 DEF Session
<1>4. session' \in [Sessions -> Session]
  BY <1>1, <1>2, <1>3
<1>5. IdsAreFresh'
  <2>1. s <= opened /\ opened \in Nat
    BY DEF PaneInv, TypeOK, SessionPart, IdsAreFresh
  <2> QED
    BY <1>3, <2>1 DEF PaneInv, TypeOK, SessionPart, IdsAreFresh, NoSession
<1>6. AnswersOnce'
  <2>1. session[s].reply # "unanswered"
    BY DEF Codes
  <2> QED
    BY <1>3, <2>1 DEF PaneInv, SessionPart, AnswersOnce, Alive, Established, Sessions, NoSession
<1>7. EventsFit'
  BY <1>3 DEF PaneInv, SessionPart, EventsFit
<1> QED
  BY <1>3, <1>4, <1>5, <1>6, <1>7 DEF SessionPart

LEMMA ConnectReturnsStep ==
  ASSUME PaneInv, NEW s \in Sessions, ConnectReturns(s)
  PROVE  PaneInv'
<1>1. /\ awaiting = s /\ session[s].reply = "ok" /\ awaiting' = NoSession
      /\ session' = [session EXCEPT ![s].reply = "done"]
      /\ UNCHANGED <<userInitiated, disposed, deviceId, devices, budget, paneStatus, opened, history>>
  BY DEF ConnectReturns
<1>2. /\ slot \in [current : 0 .. MaxSessions, pending : 0 .. MaxSessions, connected : BOOLEAN]
      /\ s # NoSession /\ slot.current = NoSession /\ TypeOK /\ SlotFits
  BY <1>1 DEF PaneInv, TypeOK, PanePart, SlotFits, Sessions, NoSession
<1>3. \/ /\ disposed \/ slot.pending # s
         /\ disconnects' = disconnects \cup {s} /\ slot' = slot
      \/ /\ ~disposed /\ slot.pending = s
         /\ slot' = [slot EXCEPT !.current = s, !.pending = NoSession]
         /\ disconnects' = disconnects
  BY DEF ConnectReturns
<1>4. /\ slot'.current \in {slot.current, s, NoSession}
      /\ slot'.pending \in {slot.pending, NoSession}
      /\ slot'.connected = slot.connected
      /\ slot' \in [current : 0 .. MaxSessions, pending : 0 .. MaxSessions, connected : BOOLEAN]
      /\ Owned' = Owned
  <2>1. CASE slot' = slot
    BY <1>2, <2>1 DEF Owned
  <2>2. CASE slot.pending = s /\ slot' = [slot EXCEPT !.current = s, !.pending = NoSession]
    <3>1. /\ slot'.current = s /\ slot'.pending = NoSession /\ slot'.connected = slot.connected
          /\ slot' \in [current : 0 .. MaxSessions, pending : 0 .. MaxSessions, connected : BOOLEAN]
      BY <1>2, <2>2, PaneAssumption DEF Sessions, NoSession
    <3> QED
      BY <1>2, <2>2, <3>1 DEF Owned
  <2> QED
    BY <1>3, <2>1, <2>2
<1>5. /\ session' \in [Sessions -> Session] /\ SessionPart'
      /\ \A r \in Sessions :
           /\ session'[r].phase = session[r].phase /\ session'[r].events = session[r].events
           /\ session'[r].stop = session[r].stop /\ session'[r].device = session[r].device
           /\ r # s => session'[r] = session[r]
  BY <1>1, <1>4, TakeAnswer
<1>6. TypeOK'
  BY <1>1, <1>2, <1>3, <1>4, <1>5, PaneAssumption DEF TypeOK, NoSession
<1>7. SlotFits'
  BY <1>1, <1>2, <1>3 DEF SlotFits
<1>8. PanePart'
  <2>1. DisposedIsOver' /\ TimerIsAlone'
    <3>1. TimerIsAlone'
      <4> SUFFICES ASSUME budget.timer PROVE slot' = EmptySlot /\ paneStatus # "connected"
        BY <1>1 DEF TimerIsAlone
      <4>1. slot = EmptySlot /\ paneStatus # "connected"
        BY DEF PaneInv, PanePart, TimerIsAlone
      <4>2. slot' = slot
        BY <1>2, <1>3, <4>1 DEF EmptySlot
      <4> QED
        BY <4>1, <4>2
    <3>2. DisposedIsOver'
      BY <1>1, <1>2, <1>3 DEF PaneInv, PanePart, DisposedIsOver
    <3> QED
      BY <3>1, <3>2
  <2>2. CalledOffIsOver' /\ RetriesAreCounted' /\ SequenceGoesOn'
    BY <1>1, <1>4 DEF PaneInv, PanePart, CalledOffIsOver, RetriesAreCounted, SequenceGoesOn,
       MayRetry, RetriesBounded, KeychainRetriedOnce
  <2> QED
    BY <1>7, <2>1, <2>2 DEF PanePart
<1>9. NoOrphan'
  <2> SUFFICES ASSUME NEW r \in Sessions, Unattended(r)'
               PROVE  slot'.current = r
    BY DEF NoOrphan
  <2>1. Unattended(r) /\ r \notin disconnects'
    BY <1>3, <1>5 DEF Unattended, Alive, Established
  <2>2. r = s
    BY <1>1, <1>2, <2>1 DEF PaneInv, SharedPart, NoOrphan, Sessions, NoSession
  <2> QED
    BY <1>2, <1>3, <2>1, <2>2
<1>10. ConnectedIsTrue' /\ ClaimsItsDevice'
  <2>1. \A r \in Sessions : DidConnect(r)' <=> DidConnect(r)
    BY <1>5 DEF DidConnect, Established
  <2>2. Owned \subseteq Sessions
    BY <1>2, OwnedSessions
  <2>3. ConnectedIsTrue'
    BY <1>1, <1>4, <2>1, <2>2 DEF PaneInv, SharedPart, ConnectedIsTrue, DidConnect, Established
  <2>4. ClaimsItsDevice'
    BY <1>1, <1>4, <1>5, <2>2 DEF PaneInv, SharedPart, ClaimsItsDevice
  <2> QED
    BY <2>3, <2>4
<1> QED
  BY <1>5, <1>6, <1>8, <1>9, <1>10 DEF PaneInv, SharedPart

LEMMA ConnectRejectedStep ==
  ASSUME PaneInv, NEW s \in Sessions, ConnectRejected(s)
  PROVE  PaneInv'
<1>1. /\ awaiting = s /\ session[s].reply \in Codes /\ awaiting' = NoSession
      /\ session' = [session EXCEPT ![s].reply = "done"]
      /\ UNCHANGED <<disposed, deviceId, devices, opened, disconnects>>
  BY DEF ConnectRejected
<1>2. /\ slot \in [current : 0 .. MaxSessions, pending : 0 .. MaxSessions, connected : BOOLEAN]
      /\ s # NoSession /\ slot.current = NoSession /\ TypeOK /\ SlotFits
  BY <1>1 DEF PaneInv, TypeOK, PanePart, SlotFits, Sessions, NoSession
<1>3. \A r \in Sessions : ~Unattended(r)
  <2> SUFFICES ASSUME NEW r \in Sessions, Unattended(r) PROVE FALSE
    OBVIOUS
  <2>1. awaiting = r /\ session[r].reply = "ok"
    BY <1>2 DEF PaneInv, SharedPart, NoOrphan, Sessions, NoSession
  <2> QED
    BY <1>1, <2>1 DEF Codes
<1>4. CASE slot.pending = s
  <2>1. Terminate(s, "error", session[s].reply)
    BY <1>4 DEF ConnectRejected
  <2>2. Owned # {} /\ (disposed => userInitiated)
    BY <1>1, <1>2, <1>4 DEF Owned, PaneInv, PanePart, DisposedIsOver
  <2>3. /\ (slot = EmptySlot)' /\ (paneStatus # "connected")' /\ PanePart'
        /\ budget' \in [attempts : 0 .. MaxAttempts, keyring : Nat, timer : BOOLEAN]
        /\ paneStatus' \in {"connecting", "disconnected", "exited", "error"}
        /\ userInitiated' = FALSE
        /\ history' = [history EXCEPT !.cause = history'.cause]
        /\ history'.cause \in [session : 0 .. MaxSessions, code : Codes]
    BY <1>1, <2>1, <2>2, TerminateStep
  <2>4. slot'.current = NoSession /\ slot'.pending = NoSession
    BY <2>3 DEF EmptySlot
  <2>5. /\ session' \in [Sessions -> Session] /\ SessionPart'
        /\ \A r \in Sessions :
             /\ session'[r].phase = session[r].phase /\ session'[r].events = session[r].events
             /\ session'[r].stop = session[r].stop /\ session'[r].device = session[r].device
             /\ r # s => session'[r] = session[r]
    BY <1>1, <2>4, TakeAnswer
  <2>6. TypeOK'
    <3>1. slot' \in [current : 0 .. MaxSessions, pending : 0 .. MaxSessions, connected : BOOLEAN]
      BY <2>3, PaneAssumption DEF EmptySlot, NoSession
    <3>2. history' \in Histories
      BY <1>2, <2>3, HistoryType DEF Histories
    <3> QED
      BY <1>1, <1>2, <2>3, <2>5, <3>1, <3>2, PaneAssumption DEF TypeOK, Histories, NoSession
  <2>7. NoOrphan'
    BY <1>1, <1>3, <2>5 DEF NoOrphan, Unattended, Alive, Established
  <2>8. ConnectedIsTrue' /\ ClaimsItsDevice'
    BY <2>3, EmptyIsTrue
  <2> QED
    BY <2>3, <2>5, <2>6, <2>7, <2>8 DEF PaneInv, SharedPart
<1>5. CASE slot.pending # s
  <2>1. UNCHANGED <<slot, userInitiated, budget, paneStatus, history>>
    BY <1>5 DEF ConnectRejected
  <2>2. /\ session' \in [Sessions -> Session] /\ SessionPart'
        /\ \A r \in Sessions :
             /\ session'[r].phase = session[r].phase /\ session'[r].events = session[r].events
             /\ session'[r].stop = session[r].stop /\ session'[r].device = session[r].device
             /\ r # s => session'[r] = session[r]
    BY <1>1, <2>1, TakeAnswer
  <2>3. TypeOK'
    BY <1>1, <1>2, <2>1, <2>2, PaneAssumption DEF TypeOK, NoSession
  <2>4. PanePart'
    <3>1. Owned' = Owned
      BY <2>1 DEF Owned
    <3>2. SlotFits' /\ DisposedIsOver' /\ TimerIsAlone'
      BY <1>1, <1>2, <1>5, <2>1 DEF PaneInv, PanePart, SlotFits, DisposedIsOver, TimerIsAlone
    <3>3. CalledOffIsOver' /\ RetriesAreCounted' /\ SequenceGoesOn'
      BY <1>1, <2>1, <3>1 DEF PaneInv, PanePart, CalledOffIsOver, RetriesAreCounted,
         SequenceGoesOn, MayRetry, RetriesBounded, KeychainRetriedOnce
    <3> QED
      BY <3>2, <3>3 DEF PanePart
  <2>5. NoOrphan'
    BY <1>1, <1>3, <2>2 DEF NoOrphan, Unattended, Alive, Established
  <2>6. ConnectedIsTrue' /\ ClaimsItsDevice'
    BY <1>1, <2>1, <2>2, TruthKept DEF Established
  <2> QED
    BY <2>2, <2>3, <2>4, <2>5, <2>6 DEF PaneInv, SharedPart
<1> QED
  BY <1>4, <1>5

\* Whoever opens a session has settled the budget first.
LEMMA OpenStep ==
  ASSUME PaneInv, NEW d \in devices, Attempt(d), awaiting = NoSession, ~disposed,
         budget' \in [attempts : 0 .. MaxAttempts, keyring : Nat, timer : BOOLEAN],
         history' \in Histories,
         ~budget'.timer, ~history'.calledOff, RetriesAreCounted'
  PROVE  PaneInv'
<1>1. /\ slot' = [current |-> NoSession, pending |-> opened + 1, connected |-> FALSE]
      /\ (Owned = {opened})'
      /\ SlotFits' /\ SessionPart' /\ SharedPart'
      /\ session' \in [Sessions -> Session] /\ opened' \in Sessions
      /\ disconnects' \subseteq Sessions
  BY AttemptStep
<1>2. /\ opened' = opened + 1 /\ awaiting' = opened' /\ deviceId' = d /\ userInitiated' = FALSE
      /\ paneStatus' = "connecting" /\ disposed' = disposed /\ devices' = devices
  BY DEF Attempt
<1>3. TypeOK'
  <2>1. slot' \in [current : 0 .. MaxSessions, pending : 0 .. MaxSessions, connected : BOOLEAN]
    BY <1>1, <1>2, PaneAssumption DEF Sessions, NoSession
  <2> QED
    BY <1>1, <1>2, <2>1, PaneAssumption DEF PaneInv, TypeOK, Sessions, Histories
<1>4. DisposedIsOver' /\ TimerIsAlone' /\ CalledOffIsOver' /\ SequenceGoesOn'
  BY <1>1, <1>2 DEF DisposedIsOver, TimerIsAlone, CalledOffIsOver, SequenceGoesOn
<1> QED
  BY <1>1, <1>3, <1>4 DEF PaneInv, PanePart

LEMMA ClickConnectStep ==
  ASSUME PaneInv, ClickConnect
  PROVE  PaneInv'
<1>1. PICK d \in devices : Attempt(d)
  BY DEF ClickConnect, PaneInv, TypeOK
<1>2. /\ ~disposed /\ awaiting = NoSession /\ budget' = FullBudget
      /\ history' = [history EXCEPT !.calledOff = FALSE, !.retries = 0, !.keyringRetries = 0,
                                    !.cause = NoCause]
      /\ history \in Histories
  BY HistoryType DEF ClickConnect, PaneInv
<1>3. /\ budget' \in [attempts : 0 .. MaxAttempts, keyring : Nat, timer : BOOLEAN]
      /\ budget'.attempts = 0 /\ budget'.keyring = 0 /\ ~budget'.timer
  BY <1>2, PaneAssumption DEF FullBudget
<1>4. NoCause \in [session : 0 .. MaxSessions, code : Codes]
  BY PaneAssumption DEF NoCause, NoSession, Codes
<1>5. /\ history' \in Histories
      /\ ~history'.calledOff /\ history'.retries = 0 /\ history'.keyringRetries = 0
  BY <1>2, <1>4 DEF Histories
<1>6. RetriesAreCounted'
  BY <1>3, <1>5, PaneAssumption DEF RetriesAreCounted, RetriesBounded, KeychainRetriedOnce,
     KeyringRetries
<1> QED
  BY <1>1, <1>2, <1>3, <1>5, <1>6, OpenStep

\* The pane lets go of what it holds, and disconnects it: nothing is left running
\* but what it awaits.
LEMMA ReleaseStep ==
  ASSUME PaneInv, slot' \in {EmptySlot, [slot EXCEPT !.current = NoSession, !.connected = FALSE]},
         paneStatus' # "connected", UNCHANGED <<session, opened, awaiting>>,
         (disconnects \cup ({slot.current} \ {NoSession})) \subseteq disconnects',
         disconnects' \subseteq disconnects \cup Owned,
         deviceId' \in {deviceId, NoDevice}
  PROVE  /\ slot' \in [current : 0 .. MaxSessions, pending : 0 .. MaxSessions,
                       connected : BOOLEAN]
         /\ slot'.current = NoSession /\ slot'.pending \in {slot.pending, NoSession}
         /\ ~slot'.connected
         /\ Owned' \subseteq Owned
         /\ SessionPart' /\ SharedPart' /\ disconnects' \subseteq Sessions
<1>1. /\ slot' \in [current : 0 .. MaxSessions, pending : 0 .. MaxSessions, connected : BOOLEAN]
      /\ slot'.current = NoSession /\ slot'.pending \in {slot.pending, NoSession}
      /\ ~slot'.connected
  <2>1. CASE slot' = EmptySlot
    <3>1. /\ slot'.current = NoSession /\ slot'.pending = NoSession /\ slot'.connected = FALSE
          /\ EmptySlot \in [current : 0 .. MaxSessions, pending : 0 .. MaxSessions,
                            connected : BOOLEAN]
      BY <2>1, PaneAssumption DEF EmptySlot, NoSession
    <3> QED
      BY <2>1, <3>1
  <2>2. CASE slot' = [slot EXCEPT !.current = NoSession, !.connected = FALSE]
    <3>1. /\ slot \in [current : 0 .. MaxSessions, pending : 0 .. MaxSessions,
                       connected : BOOLEAN]
          /\ 0 \in 0 .. MaxSessions
      BY PaneAssumption DEF PaneInv, TypeOK
    <3>2. slot' \in [current : 0 .. MaxSessions, pending : 0 .. MaxSessions, connected : BOOLEAN]
      BY <2>2, <3>1 DEF NoSession
    <3>3. slot'.current = NoSession /\ slot'.pending = slot.pending /\ slot'.connected = FALSE
      BY <2>2, <3>1
    <3> QED
      BY <3>2, <3>3
  <2> QED
    BY <2>1, <2>2
<1>2. Owned' \subseteq Owned /\ Owned \subseteq Sessions
  BY <1>1, OwnedSessions DEF Owned, PaneInv
<1>3. SessionPart'
  BY <1>1, KeepSessions
<1>4. NoOrphan'
  <2> SUFFICES ASSUME NEW r \in Sessions, Unattended(r)'
               PROVE  awaiting = r /\ session[r].reply = "ok"
    BY DEF NoOrphan
  <2>1. Unattended(r) /\ r # slot.current
    BY DEF Unattended, Alive, Established, Sessions, NoSession
  <2> QED
    BY <2>1 DEF PaneInv, SharedPart, NoOrphan
<1>5. ConnectedIsTrue'
  BY <1>1 DEF ConnectedIsTrue
<1>6. ClaimsItsDevice'
  BY <1>2 DEF PaneInv, SharedPart, ClaimsItsDevice
<1>7. disconnects' \subseteq Sessions
  BY <1>2 DEF PaneInv, TypeOK
<1> QED
  BY <1>1, <1>2, <1>3, <1>4, <1>5, <1>6, <1>7 DEF SharedPart

LEMMA RetryFiresStep ==
  ASSUME PaneInv, RetryFires
  PROVE  PaneInv'
<1>1. /\ budget.timer /\ awaiting = NoSession /\ TypeOK /\ history \in Histories
      /\ slot = EmptySlot /\ ~disposed /\ ~history.calledOff /\ paneStatus # "connected"
  BY HistoryType DEF RetryFires, PaneInv, PanePart, TimerIsAlone, DisposedIsOver, CalledOffIsOver
<1>2. /\ budget.keyring <= KeyringRetries /\ history.retries < budget.attempts
      /\ history.retries <= MaxAttempts /\ history.keyringRetries <= KeyringRetries
      /\ history.keyringRetries <= budget.keyring
      /\ history.cause.code = "keyring" => history.keyringRetries < budget.keyring
  BY <1>1 DEF PaneInv, PanePart, RetriesAreCounted, RetriesBounded, KeychainRetriedOnce
<1>3. CASE deviceId = NoDevice
  <2>1. /\ slot' = EmptySlot /\ disconnects' = disconnects \cup Owned /\ budget' = FullBudget
        /\ UNCHANGED <<awaiting, userInitiated, disposed, deviceId, devices, paneStatus,
                       opened, session, history>>
    BY <1>3 DEF RetryFires
  <2>2. /\ slot'.current = NoSession /\ ~slot'.connected /\ slot'.pending = NoSession
        /\ slot' \in [current : 0 .. MaxSessions, pending : 0 .. MaxSessions, connected : BOOLEAN]
        /\ SessionPart' /\ SharedPart' /\ disconnects' \subseteq Sessions
    <3>1. {slot.current} \ {NoSession} \subseteq Owned
      BY DEF Owned
    <3> QED
      BY <1>1, <2>1, <3>1, ReleaseStep DEF EmptySlot
  <2>3. /\ budget'.attempts = 0 /\ budget'.keyring = 0 /\ ~budget'.timer
        /\ budget' \in [attempts : 0 .. MaxAttempts, keyring : Nat, timer : BOOLEAN]
        /\ Owned' = {}
    BY <2>1, <2>2, PaneAssumption DEF FullBudget, Owned
  <2>4. TypeOK'
    BY <1>1, <2>1, <2>2, <2>3 DEF TypeOK
  <2>5. PanePart'
    BY <1>1, <1>2, <2>1, <2>2, <2>3 DEF PanePart, SlotFits, DisposedIsOver, TimerIsAlone,
       CalledOffIsOver, RetriesAreCounted, SequenceGoesOn, MayRetry, RetriesBounded,
       KeychainRetriedOnce, KeyringRetries
  <2> QED
    BY <2>2, <2>4, <2>5 DEF PaneInv
<1>4. CASE deviceId # NoDevice
  <2>1. /\ Attempt(deviceId) /\ deviceId \in devices
        /\ budget' = [budget EXCEPT !.timer = FALSE]
    BY <1>1, <1>4 DEF RetryFires, TypeOK
  <2>2. /\ budget' \in [attempts : 0 .. MaxAttempts, keyring : Nat, timer : BOOLEAN]
        /\ budget'.attempts = budget.attempts /\ budget'.keyring = budget.keyring
        /\ ~budget'.timer
    BY <1>1, <2>1 DEF TypeOK
  <2>3. NoCause \in [session : 0 .. MaxSessions, code : Codes]
    BY PaneAssumption DEF NoCause, NoSession, Codes
  <2>4. /\ history' \in Histories /\ ~history'.calledOff
        /\ history'.retries = history.retries + 1
        /\ history'.keyringRetries = IF history.cause.code = "keyring"
                                     THEN history.keyringRetries + 1 ELSE history.keyringRetries
    <3>1. history' = [history EXCEPT !.retries = @ + 1,
                        !.keyringRetries = IF history.cause.code = "keyring" THEN @ + 1 ELSE @,
                        !.cause = NoCause]
      BY <1>4 DEF RetryFires
    <3> DEFINE k == IF history.cause.code = "keyring"
                    THEN history.keyringRetries + 1 ELSE history.keyringRetries
               n == history.retries + 1
    <3>2. k \in Nat /\ n \in Nat
      BY <1>1 DEF Histories
    <3>3. history' = [history EXCEPT !.retries = n, !.keyringRetries = k, !.cause = NoCause]
      BY <3>1
    <3> HIDE DEF k, n
    <3>4. /\ history' \in Histories /\ history'.retries = n /\ history'.keyringRetries = k
          /\ history'.calledOff = history.calledOff
      BY <1>1, <2>3, <3>2, <3>3 DEF Histories
    <3> QED
      BY <1>1, <3>4 DEF k, n
  <2>5. RetriesAreCounted'
    <3>1. /\ history.retries \in Nat /\ history.keyringRetries \in Nat
          /\ budget.attempts \in 0 .. MaxAttempts /\ budget.keyring \in Nat /\ MaxAttempts \in Nat
      BY <1>1, PaneAssumption DEF TypeOK
    <3>2. /\ history'.retries <= budget'.attempts /\ history'.retries <= MaxAttempts
          /\ history'.keyringRetries <= budget'.keyring
          /\ history'.keyringRetries <= KeyringRetries /\ budget'.keyring <= KeyringRetries
      BY <1>2, <2>2, <2>4, <3>1 DEF KeyringRetries
    <3> QED
      BY <2>2, <3>2 DEF RetriesAreCounted, RetriesBounded, KeychainRetriedOnce
  <2> QED
    BY <1>1, <2>1, <2>2, <2>4, <2>5, OpenStep
<1> QED
  BY <1>3, <1>4

LEMMA ClickDisconnectStep ==
  ASSUME PaneInv, ClickDisconnect
  PROVE  PaneInv'
<1>1. /\ ~disposed /\ slot.current # NoSession /\ userInitiated' = TRUE /\ budget' = FullBudget
      /\ disconnects' = disconnects \cup {slot.current}
      /\ UNCHANGED <<slot, awaiting, disposed, deviceId, devices, paneStatus, opened, session>>
      /\ history \in Histories /\ TypeOK
  BY HistoryType DEF ClickDisconnect, PaneInv
<1>2. /\ budget' \in [attempts : 0 .. MaxAttempts, keyring : Nat, timer : BOOLEAN]
      /\ budget'.attempts = 0 /\ budget'.keyring = 0 /\ ~budget'.timer
  BY <1>1, PaneAssumption DEF FullBudget
<1>3. /\ history' \in Histories /\ history'.retries = history.retries
      /\ history'.keyringRetries = history.keyringRetries
      /\ history'.calledOff = history.calledOff
  <2> DEFINE more == history.asked \cup {r \in {slot.current} : Alive(r)}
  <2>1. more \in SUBSET Sessions
    BY <1>1 DEF TypeOK, Histories, Sessions, NoSession
  <2>2. history' = [history EXCEPT !.asked = more]
    BY DEF ClickDisconnect
  <2> HIDE DEF more
  <2> QED
    BY <1>1, <2>1, <2>2 DEF Histories
<1>4. Owned' = Owned
  BY <1>1 DEF Owned
<1>5. TypeOK'
  <2>1. disconnects' \subseteq Sessions
    BY <1>1, OwnedSessions DEF TypeOK, Owned
  <2> QED
    BY <1>1, <1>2, <1>3, <2>1 DEF TypeOK, Histories
<1>6. PanePart'
  <2>1. SlotFits' /\ DisposedIsOver' /\ TimerIsAlone' /\ CalledOffIsOver' /\ SequenceGoesOn'
    BY <1>1, <1>2, <1>3, <1>4 DEF PaneInv, PanePart, SlotFits, DisposedIsOver, TimerIsAlone,
       CalledOffIsOver, SequenceGoesOn
  <2>2. RetriesAreCounted'
    BY <1>1, <1>2, <1>3 DEF PaneInv, PanePart, RetriesAreCounted, RetriesBounded,
       KeychainRetriedOnce, MayRetry, KeyringRetries
  <2> QED
    BY <2>1, <2>2 DEF PanePart
<1>7. SessionPart'
  BY <1>1, KeepSessions
<1>8. NoOrphan'
  BY <1>1 DEF PaneInv, SharedPart, NoOrphan, Unattended, Alive, Established
<1>9. ConnectedIsTrue' /\ ClaimsItsDevice'
  BY <1>1, TruthKept DEF Established
<1> QED
  BY <1>5, <1>6, <1>7, <1>8, <1>9 DEF PaneInv, SharedPart

LEMMA ClickCancelStep ==
  ASSUME PaneInv, ClickCancel
  PROVE  PaneInv'
<1>1. /\ ~disposed /\ budget' = FullBudget /\ disconnects' = disconnects \cup Owned
      /\ slot' = EmptySlot /\ paneStatus' = "disconnected"
      /\ history' = [history EXCEPT !.calledOff = TRUE]
      /\ UNCHANGED <<awaiting, userInitiated, disposed, deviceId, devices, opened, session>>
      /\ history \in Histories /\ TypeOK
  BY HistoryType DEF ClickCancel, PaneInv
<1>2. /\ budget' \in [attempts : 0 .. MaxAttempts, keyring : Nat, timer : BOOLEAN]
      /\ budget'.attempts = 0 /\ budget'.keyring = 0 /\ ~budget'.timer
  BY <1>1, PaneAssumption DEF FullBudget
<1>3. /\ history' \in Histories /\ history'.retries = history.retries
      /\ history'.keyringRetries = history.keyringRetries /\ history'.calledOff = TRUE
  BY <1>1 DEF Histories
<1>4. /\ slot' \in [current : 0 .. MaxSessions, pending : 0 .. MaxSessions, connected : BOOLEAN]
      /\ SessionPart' /\ SharedPart' /\ disconnects' \subseteq Sessions
  <2>1. {slot.current} \ {NoSession} \subseteq Owned
    BY DEF Owned
  <2> QED
    BY <1>1, <2>1, ReleaseStep
<1>5. Owned' = {} /\ slot'.current = NoSession /\ slot'.pending = NoSession /\ ~slot'.connected
  BY <1>1 DEF EmptySlot, Owned
<1>6. TypeOK'
  BY <1>1, <1>2, <1>3, <1>4 DEF TypeOK, Histories
<1>7. PanePart'
  BY <1>1, <1>2, <1>3, <1>5 DEF PaneInv, PanePart, SlotFits, DisposedIsOver, TimerIsAlone,
     CalledOffIsOver, RetriesAreCounted, SequenceGoesOn, MayRetry, RetriesBounded,
     KeychainRetriedOnce, KeyringRetries
<1> QED
  BY <1>4, <1>6, <1>7 DEF PaneInv

LEMMA PickDeviceStep ==
  ASSUME PaneInv, NEW d \in Devices, PickDevice(d)
  PROVE  PaneInv'
<1>1. /\ ~disposed /\ Owned = {} /\ d \in devices /\ deviceId' = d /\ TypeOK
      /\ UNCHANGED <<slot, awaiting, userInitiated, disposed, devices, budget, paneStatus,
                     opened, session, disconnects, history>>
  BY DEF PickDevice, Locked, PaneInv
<1>2. Owned' = {}
  BY <1>1 DEF Owned
<1>3. TypeOK'
  BY <1>1 DEF TypeOK
<1>4. PanePart'
  BY <1>1, <1>2 DEF PaneInv, PanePart, SlotFits, DisposedIsOver, TimerIsAlone,
     CalledOffIsOver, RetriesAreCounted, SequenceGoesOn, MayRetry, RetriesBounded,
     KeychainRetriedOnce
<1>5. SessionPart'
  BY <1>1, KeepSessions
<1>6. NoOrphan' /\ ConnectedIsTrue' /\ ClaimsItsDevice'
  BY <1>1, <1>2 DEF PaneInv, SharedPart, NoOrphan, Unattended, Alive, Established, ConnectedIsTrue,
     ClaimsItsDevice
<1> QED
  BY <1>3, <1>4, <1>5, <1>6 DEF PaneInv, SharedPart

\* What the pane does when its device is deleted, and when it is closed.
LEMMA AbandonStep ==
  ASSUME PaneInv, budget' = FullBudget, paneStatus' = "idle",
         slot' = [slot EXCEPT !.current = NoSession, !.connected = FALSE],
         disconnects' = disconnects \cup ({slot.current} \ {NoSession}),
         history' = [history EXCEPT !.calledOff = TRUE],
         UNCHANGED <<awaiting, opened, session>>, ~disposed,
         devices' \subseteq devices, deviceId' \in devices' \cup {NoDevice},
         deviceId' \in {deviceId, NoDevice},
         \/ deviceId' = NoDevice /\ disposed' = FALSE /\ userInitiated' = userInitiated
         \/ disposed' = TRUE /\ userInitiated' = TRUE
  PROVE  PaneInv'
<1>1. TypeOK /\ history \in Histories
  BY HistoryType DEF PaneInv
<1>2. /\ budget' \in [attempts : 0 .. MaxAttempts, keyring : Nat, timer : BOOLEAN]
      /\ budget'.attempts = 0 /\ budget'.keyring = 0 /\ ~budget'.timer
  BY PaneAssumption DEF FullBudget
<1>3. /\ history' \in Histories /\ history'.retries = history.retries
      /\ history'.keyringRetries = history.keyringRetries /\ history'.calledOff = TRUE
  BY <1>1 DEF Histories
<1>4. /\ slot' \in [current : 0 .. MaxSessions, pending : 0 .. MaxSessions, connected : BOOLEAN]
      /\ slot'.current = NoSession /\ slot'.pending \in {slot.pending, NoSession}
      /\ ~slot'.connected /\ Owned' \subseteq Owned
      /\ SessionPart' /\ SharedPart' /\ disconnects' \subseteq Sessions
  <2>1. {slot.current} \ {NoSession} \subseteq Owned
    BY DEF Owned
  <2> QED
    BY <2>1, ReleaseStep
<1>5. TypeOK'
  BY <1>1, <1>2, <1>3, <1>4 DEF TypeOK, Histories
<1>6. SlotFits' /\ TimerIsAlone' /\ CalledOffIsOver' /\ SequenceGoesOn'
  BY <1>2, <1>4 DEF PaneInv, PanePart, SlotFits, TimerIsAlone, CalledOffIsOver, SequenceGoesOn
<1>7. DisposedIsOver'
  BY <1>2, <1>4 DEF DisposedIsOver
<1>8. RetriesAreCounted'
  <2>1. ~MayRetry'
    BY DEF MayRetry
  <2> QED
    BY <1>2, <1>3, <2>1 DEF PaneInv, PanePart, RetriesAreCounted, RetriesBounded,
       KeychainRetriedOnce, KeyringRetries
<1> QED
  BY <1>4, <1>5, <1>6, <1>7, <1>8 DEF PaneInv, PanePart

LEMMA DeviceDeletedStep ==
  ASSUME PaneInv, NEW d \in Devices, DeviceDeleted(d)
  PROVE  PaneInv'
<1>1. /\ ~disposed /\ disposed' = FALSE /\ d \in devices /\ devices' = devices \ {d} /\ TypeOK
      /\ UNCHANGED <<awaiting, userInitiated, opened, session>>
  BY DEF DeviceDeleted, PaneInv, TypeOK
<1>2. CASE deviceId = d
  <2>1. /\ deviceId' = NoDevice /\ budget' = FullBudget /\ paneStatus' = "idle"
        /\ slot' = [slot EXCEPT !.current = NoSession, !.connected = FALSE]
        /\ disconnects' = disconnects \cup ({slot.current} \ {NoSession})
        /\ history' = [history EXCEPT !.calledOff = TRUE]
    BY <1>2 DEF DeviceDeleted
  <2> QED
    BY <1>1, <2>1, AbandonStep
<1>3. CASE deviceId # d
  <2>1. UNCHANGED <<deviceId, budget, slot, disconnects, paneStatus, history>> /\ disposed' = disposed
    BY <1>3 DEF DeviceDeleted
  <2>2. Owned' = Owned
    BY <2>1 DEF Owned
  <2>3. TypeOK'
    BY <1>1, <1>3, <2>1 DEF TypeOK
  <2>4. PanePart'
    BY <1>1, <2>1, <2>2 DEF PaneInv, PanePart, SlotFits, DisposedIsOver, TimerIsAlone,
       CalledOffIsOver, RetriesAreCounted, SequenceGoesOn, MayRetry, RetriesBounded,
       KeychainRetriedOnce
  <2>5. SessionPart'
    BY <1>1, <2>1, KeepSessions
  <2>6. NoOrphan'
    BY <1>1, <2>1 DEF PaneInv, SharedPart, NoOrphan, Unattended, Alive, Established
  <2>7. ConnectedIsTrue' /\ ClaimsItsDevice'
    BY <1>1, <2>1, TruthKept DEF Established
  <2> QED
    BY <2>3, <2>4, <2>5, <2>6, <2>7 DEF PaneInv, SharedPart
<1> QED
  BY <1>2, <1>3

LEMMA DisposeStep ==
  ASSUME PaneInv, Dispose
  PROVE  PaneInv'
<1>1. deviceId \in devices \cup {NoDevice}
  BY DEF PaneInv, TypeOK
<1> QED
  BY <1>1, AbandonStep DEF Dispose

-----------------------------------------------------------------------------

LEMMA PaneInit ==
  ASSUME Init
  PROVE  PaneInv
<1>1. TypeOK
  <2>1. EmptySlot \in [current : 0 .. MaxSessions, pending : 0 .. MaxSessions,
                       connected : BOOLEAN]
    BY PaneAssumption DEF EmptySlot, NoSession
  <2>2. FullBudget \in [attempts : 0 .. MaxAttempts, keyring : Nat, timer : BOOLEAN]
    BY PaneAssumption DEF FullBudget
  <2>3. Unopened \in Session
    <3>1. <<>> \in Seq(Event)
      BY EmptySeq
    <3> QED
      BY <3>1 DEF Unopened, Session
  <2>4. history \in Histories
    BY PaneAssumption DEF Init, Histories, NoCause, NoSession, Codes
  <2> QED
    <3>1. session \in [Sessions -> Session]
      BY <2>3 DEF Init
    <3>2. /\ slot \in [current : 0 .. MaxSessions, pending : 0 .. MaxSessions,
                       connected : BOOLEAN]
          /\ budget \in [attempts : 0 .. MaxAttempts, keyring : Nat, timer : BOOLEAN]
      BY <2>1, <2>2 DEF Init
    <3>3. awaiting \in 0 .. MaxSessions /\ opened \in 0 .. MaxSessions
      BY PaneAssumption DEF Init, NoSession
    <3> QED
      BY <2>4, <3>1, <3>2, <3>3 DEF Init, TypeOK, Histories
<1>2. /\ slot.current = NoSession /\ slot.pending = NoSession /\ slot.connected = FALSE
      /\ budget.attempts = 0 /\ budget.keyring = 0 /\ budget.timer = FALSE
      /\ history.retries = 0 /\ history.keyringRetries = 0 /\ Owned = {}
  BY DEF Init, EmptySlot, FullBudget, Owned
<1>3. PanePart
  BY <1>2, PaneAssumption DEF Init, PanePart, SlotFits, DisposedIsOver, TimerIsAlone,
     CalledOffIsOver, RetriesAreCounted, SequenceGoesOn, MayRetry, RetriesBounded,
     KeychainRetriedOnce, KeyringRetries
<1>4. \A s \in Sessions : /\ session[s].phase = "none" /\ session[s].reply = "unanswered"
                          /\ session[s].events = <<>>
  BY DEF Init, Unopened
<1>5. SessionPart
  BY <1>2, <1>4 DEF Init, SessionPart, IdsAreFresh, AnswersOnce, EventsFit, Fits, Alive,
     Established,
     Sessions, NoSession
<1>6. SharedPart
  BY <1>2, <1>4 DEF Init, SharedPart, NoOrphan, Unattended, Alive, Established, ConnectedIsTrue,
     ClaimsItsDevice
<1> QED
  BY <1>1, <1>3, <1>5, <1>6 DEF PaneInv

LEMMA StutterStep ==
  ASSUME PaneInv, UNCHANGED vars
  PROVE  PaneInv'
<1>1. UNCHANGED <<paneVars, history>> /\ UNCHANGED <<slot, paneStatus, deviceId, awaiting>>
      /\ UNCHANGED <<opened, session, disconnects>>
  BY DEF vars, paneVars
<1>2. PanePart'
  BY <1>1, PaneAlone DEF PaneInv
<1>3. TypeOK'
  BY DEF PaneInv, TypeOK, vars, paneVars
<1>4. SessionPart'
  BY <1>1, KeepSessions
<1>5. NoOrphan'
  BY <1>1 DEF PaneInv, SharedPart, NoOrphan, Unattended, Alive, Established
<1>6. ConnectedIsTrue' /\ ClaimsItsDevice'
  BY <1>1, TruthKept DEF Established
<1> QED
  BY <1>2, <1>3, <1>4, <1>5, <1>6 DEF PaneInv, SharedPart

LEMMA PaneStepKeeps ==
  ASSUME PaneInv, [Next]_vars
  PROVE  PaneInv'
<1>1. ASSUME NEW s \in Sessions, BackendStep(s) PROVE PaneInv'
  BY <1>1, BackendKeeps
<1>2. ASSUME NEW s \in Sessions, PaneStep(s) PROVE PaneInv'
  BY <1>2, DeliverStep, ConnectReturnsStep, ConnectRejectedStep DEF PaneStep
<1>3. ASSUME NEW d \in Devices, PickDevice(d) \/ DeviceDeleted(d) PROVE PaneInv'
  BY <1>3, PickDeviceStep, DeviceDeletedStep
<1>4. CASE ClickConnect \/ ClickDisconnect \/ ClickCancel \/ Dispose
  BY <1>4, ClickConnectStep, ClickDisconnectStep, ClickCancelStep, DisposeStep
<1>5. CASE RetryFires
  BY <1>5, RetryFiresStep
<1>6. CASE UNCHANGED vars
  BY <1>6, StutterStep
<1> QED
  BY <1>1, <1>2, <1>3, <1>4, <1>5, <1>6 DEF Next, UserStep

-----------------------------------------------------------------------------

\* Pane and backend agree, however the replies of connect(), the events, the
\* disconnect() calls, the timer and the user interleave (pane.ts, sessionSlot.ts).
THEOREM PaneInvariant == Spec => []PaneInv
<1>1. Init => PaneInv
  BY PaneInit
<1>2. PaneInv /\ [Next]_vars => PaneInv'
  BY PaneStepKeeps
<1> QED
  BY <1>1, <1>2, PTL DEF Spec

\* The bounds of the parts only leave steps out.
LEMMA PartsBehave == PartSpec => Spec
<1>1. PartInit => Init
  BY DEF PartInit
<1>2. [PartNext]_allVars => [Next]_vars
  BY DEF PartNext, allVars
<1> QED
  BY <1>1, <1>2, PTL DEF PartSpec, Spec

\* No backend session is orphaned: what runs unasked is the pane's, or on its way
\* to it; and a pane never has two such sessions (adoptSession, beginAttempt).
THEOREM SessionsAreHeld == PartSpec => []SessionsHeld
<1>1. PaneInv => SessionsHeld
  <2> SUFFICES ASSUME PaneInv PROVE SessionsHeld
    OBVIOUS
  <2>1. TypeOK /\ NoOrphan
    BY DEF PaneInv, SharedPart
  <2>2. OneSessionPerPane
    <3> SUFFICES ASSUME NEW s \in Sessions, NEW r \in Sessions, Unattended(s), Unattended(r)
                 PROVE  s = r
      BY DEF OneSessionPerPane
    <3>1. /\ slot.current = s \/ awaiting = s
          /\ slot.current = r \/ awaiting = r
      BY <2>1 DEF NoOrphan
    <3>2. slot.current # NoSession => awaiting = NoSession
      BY DEF PaneInv, PanePart, SlotFits
    <3> QED
      BY <3>1, <3>2 DEF Sessions, NoSession
  <2> QED
    BY <2>1, <2>2 DEF SessionsHeld
<1> QED
  BY <1>1, PartsBehave, PaneInvariant, PTL

\* A pane says `connected' only of a session of its own that did connect, on the
\* device it names (applyStatus, deviceLocked).
THEOREM PaneShowsTheTruth == PartSpec => []ShowsTheTruth
<1>1. PaneInv => ShowsTheTruth
  BY DEF PaneInv, SharedPart, ShowsTheTruth
<1> QED
  BY <1>1, PartsBehave, PaneInvariant, PTL

\* What the user called off stays off, a sequence in progress has something to go
\* on with, and however failures of the keychain mix with others, there are no
\* more retries in a row than the budget has (cancelReconnect, scheduleReconnect,
\* ReconnectBudget.schedule).
THEOREM RetriesObeyTheUser == PartSpec => []RetriesHold
<1>1. PaneInv => CalledOffStaysOff /\ ReconnectProgresses
  BY DEF PaneInv, PanePart, CalledOffIsOver, CalledOffStaysOff, SequenceGoesOn,
         ReconnectProgresses
<1>2. PaneInv => RetriesBounded /\ KeychainRetriedOnce
  BY DEF PaneInv, PanePart, RetriesAreCounted
<1> QED
  BY <1>1, <1>2, PartsBehave, PaneInvariant, PTL DEF RetriesHold
=============================================================================
