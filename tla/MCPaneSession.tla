--------------------------- MODULE MCPaneSession ----------------------------
(***************************************************************************)
(* PaneSession within either of two bounds: `part` says which. In "pair" a *)
(* pane opens two sessions, to either of two devices, one of which          *)
(* reconnects by itself; in "retries" it has that one alone and may go      *)
(* through a whole reconnect sequence.                                     *)
(***************************************************************************)
EXTENDS PaneSession

CONSTANTS d1, d2

VARIABLE part

TwoDevices == {d1, d2}
OneDevice == {d1}

allVars == <<part, vars>>

PartInit == part \in {"pair", "retries"} /\ Init

\* Bounds: the sessions of the pair, and the one device of the retries, the
\* other being saved but left alone.
PairSessions == {s \in Sessions : s <= 2}
Within ==
  /\ part = "pair" => opened \in PairSessions \cup {NoSession}
  /\ part = "retries" => deviceId # d2 /\ devices \in {Devices, Devices \ {d1}}

PartNext == UNCHANGED part /\ Next /\ Within'

PairRuns == part = "pair" /\ UNCHANGED part

\* The fairness PaneSession assumes, for the pair.
PartFairness ==
  /\ \A s \in PairSessions :
       /\ WF_allVars(PairRuns /\ ConnectAnswered(s))
       /\ WF_allVars(PairRuns /\ HandleDisconnect(s))
       /\ WF_allVars(PairRuns /\ Stopped(s))
       /\ WF_allVars(PairRuns /\ DeliverEvent(s))
       /\ WF_allVars(PairRuns /\ ConnectReturns(s))
       /\ WF_allVars(PairRuns /\ ConnectRejected(s))
  /\ WF_allVars(PairRuns /\ RetryFires /\ Within')

PairSpec == part = "pair" /\ Init /\ [][PartNext]_allVars
PartSpec == PartInit /\ [][PartNext]_allVars /\ PartFairness

Running(s) == session[s].phase = "resolving" \/ Alive(s)
Leftover(s) == session[s].events # <<>> \/ s \in disconnects

\* A bound for long reconnect sequences: one session runs, and one, the same or
\* an earlier one, has calls or events on their way.
SmallBacklog ==
  part = "retries" =>
    /\ \A s, t \in Sessions : Running(s) /\ Running(t) => s = t
    /\ \A s, t \in Sessions : Leftover(s) /\ Leftover(t) => s = t

-----------------------------------------------------------------------------
(* The properties of PaneSession.                                            *)

\* Every session the backend runs has an owner, and a pane has at most one
\* (connect, ConnectReturns).
SessionsHeld == TypeOK /\ NoOrphan /\ OneSessionPerPane

\* What the pane shows is so: a pane that says it is connected has the session
\* it says so of, and a session on the pane's own device.
ShowsTheTruth == ConnectedIsTrue /\ ClaimsItsDevice

\* A retry the user called off stays off, and a sequence in progress has a
\* timer, an attempt or a session to go on with; a sequence ends after its
\* attempts, and a locked keychain is tried again once (ReconnectBudget).
RetriesHold ==
  CalledOffStaysOff /\ ReconnectProgresses /\ RetriesBounded /\ KeychainRetriedOnce

\* A session the pane let go of ends, unless the opening of its shell is never
\* answered (run_session, run_shell).
ReleasedEnd == part = "pair" => \A s \in PairSessions : ReleasedSessionEnds(s)
=============================================================================
