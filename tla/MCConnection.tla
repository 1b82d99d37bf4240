---------------------------- MODULE MCConnection -----------------------------
(***************************************************************************)
(* An SSH connection: what opening it waits for, and what goes through it  *)
(* beside a shell. Each part is checked on its own: `part`, chosen at the  *)
(* start, says which runs.                                                 *)
(*   "deadline"  ConnectDeadline, paused by the prompts of two hops;       *)
(*   "auth"      InteractiveAuth;                                          *)
(*   "prompts"   HostPrompts with two connections, one of them through the *)
(*               host of the other;                                        *)
(*   "store"     TrustedHosts with two instances of the program;           *)
(*   "tunnel"    Tunnel, with a remote forward whose server port is edited *)
(*               to the one of another, and a local forward;               *)
(*   "relay"     Relay, one forwarded connection or a jump host's stream;  *)
(*   "socks"     Socks, one connection of a dynamic forward;               *)
(*   "x11"       X11, two channels for which there is one slot.            *)
(* Variables of the same name are shared by the parts; those a part does   *)
(* not have stay at Unused, or empty.                                      *)
(***************************************************************************)
EXTENDS Tunnel

CONSTANTS
  Budget, Prompts, MaxTime, Punctual,          \* of ConnectDeadline
  MaxRounds, MaxPhases, Agents,                \* of InteractiveAuth
  MaxPrompts, NoKey,                           \* of HostPrompts and TrustedHosts
  Chunk, Limit, Bytes, Uploads,                \* of Relay
  SocksRequests,                               \* of Socks
  Channels, MaxChannels, Displays, Files,      \* of X11
  jumpHop, targetHop, c1, c2, h1, h2, k1, inst1, inst2

VARIABLES
  part,
  sent, taken, answers, file, accepted,  \* of two parts or more, as Tunnel's outcome is
  now, budgetLeft, running, runningSince, pauses, holders, waiter, spent,
  step, device, secret, agents, tried, result, phases, rounds, saved, question,
  pending, onScreen, shown, paused, passwordTo,
  conn, known, reset, raised, prompt, registry, events, calls,
  queue, current, armed, aim, approved,
  locked, store, up, reads, changed, echo, relied, missed, left,
  jump, bridge, channel, remoteEnded, read, finished, delivered, client, drain,
  deliver, filled, ready, clientEnded, uploaded, upload, idle,
  request, closed, dynamic, state, target, lingered, opened,
  display, trusted, secure, setup, reached, told

BothHops == {jumpHop, targetHop}

Deadline == INSTANCE ConnectDeadline

Auth == INSTANCE InteractiveAuth

TwoConns == {c1, c2}
TwoHosts == {h1, h2}
OneHost == {h1}
OneKey == {k1}
Jumped == [c \in TwoConns |-> IF c = c1 THEN <<h1, h2>> ELSE <<h1>>]
Ask == INSTANCE HostPrompts WITH
         Conns <- TwoConns, Hosts <- TwoHosts, Keys <- OneKey, Route <- Jumped

TwoInstances == {inst1, inst2}
\* Two changes, and the file damaged once.
Sharing ==
  [k \in {"change", "reload", "fault", "damage", "lock", "restart"} |->
     CASE k = "change" -> 2 [] k = "damage" -> 1 [] OTHER -> 0]
Trust == INSTANCE TrustedHosts WITH
           Instances <- TwoInstances, Hosts <- OneHost, Keys <- OneKey,
           MaxReads <- 1, Limits <- Sharing

On(id, kind, port) == [id |-> id, kind |-> kind, port |-> port]

Swappable == {On("a", "remote", 1), On("a", "remote", 2), On("b", "remote", 1), On("b", "local", 2)}
Both == <<On("a", "remote", 1), On("b", "local", 2)>>

Pipe == INSTANCE Relay

RequestShapes ==
  [version : {0, 4, 5}, offersNone : BOOLEAN, again : {0, 5}, connect : BOOLEAN,
   address : {"ip", "name", "other"}, valid : BOOLEAN, long : BOOLEAN, eager : BOOLEAN]

\* One request of each kind the fields that matter to its version tell apart.
TellingRequests ==
  {r \in RequestShapes :
     /\ r.version # 5 => r.offersNone /\ r.again = 5 /\ r.address # "other"
     /\ r.version # 4 => ~r.long
     /\ r.address # "name" => r.valid
     /\ r.version = 0 => r.connect /\ r.address = "ip"}
Proxy == INSTANCE Socks WITH Requests <- SocksRequests

At(host, number) == [host |-> host, number |-> number]
SomeDisplays ==
  {At("unset", 0), At("", 0), At("localhost", 1), At("loopback2", 0), At("lan", 59536)}

AnyNumber == -1
Line(address, number, cookie) ==
  [address |-> address, number |-> number, magic |-> TRUE, cut |-> FALSE, cookie |-> cookie]
CutLine == [Line("wild", AnyNumber, "rest") EXCEPT !.cut = TRUE]
SomeFiles ==
  {<<>>,
   <<Line("lan", 0, "theirs"), Line("here", 0, "ours"), Line("127.0.0.2", AnyNumber, "loop")>>,
   <<CutLine, Line("here", 1, "late")>>}

Screen == INSTANCE X11

ASSUME ConnectionAssumption ==
  /\ Deadline!DeadlineConstants /\ Auth!AuthConstants
  /\ TunnelConstants /\ Pipe!RelayConstants /\ Screen!X11Constants /\ Proxy!SocksConstants

deadlineVars == <<now, budgetLeft, running, runningSince, pauses, holders, waiter, spent>>
authVars ==
  <<step, device, secret, agents, tried, result, phases, rounds, saved, question,
    pending, onScreen, shown, paused, passwordTo>>
askVars ==
  <<conn, known, reset, raised, prompt, registry, events, calls,
    queue, current, armed, aim, approved>>
trustVars == <<locked, store, up, reads, changed, echo, relied, missed, left>>
relayVars ==
  <<jump, bridge, channel, remoteEnded, read, finished, delivered, client, drain,
    deliver, filled, ready, clientEnded, uploaded, upload, idle>>
socksVars == <<request, closed, dynamic, state, target, lingered, opened>>
x11Vars == <<display, trusted, secure, setup, reached, told>>
tunnelVars ==
  <<listed, stop, controls, wanted, active, worker, cancels, replies, wire,
    listening, alive, snapshot, reported, conns, changes, asked>>
\* Of the parts that open a connection, and of those that use it.
openingVars == <<deadlineVars, authVars, askVars, trustVars>>
useVars == <<relayVars, socksVars, x11Vars, tunnelVars>>
allVars ==
  <<part, phase, outcome, sent, taken, answers, file, accepted, openingVars, useVars>>

Unused == "unused"
NoDeadline ==
  /\ now = Unused /\ budgetLeft = Unused /\ running = Unused
  /\ runningSince = Unused /\ pauses = Unused /\ holders = Unused
  /\ waiter = Unused /\ spent = Unused
NoAuth ==
  /\ step = Unused /\ device = Unused /\ secret = Unused /\ agents = Unused
  /\ tried = Unused /\ result = Unused /\ phases = Unused /\ rounds = Unused
  /\ saved = Unused /\ question = Unused /\ pending = Unused /\ onScreen = Unused
  /\ shown = Unused /\ paused = Unused /\ passwordTo = Unused
NoAsk ==
  /\ conn = Unused /\ known = Unused /\ reset = Unused /\ raised = 0
  /\ prompt = Unused /\ registry = Unused /\ events = Unused /\ calls = Unused
  /\ queue = Unused /\ current = Unused /\ armed = Unused /\ aim = Unused
  /\ approved = Unused
NoTrust ==
  /\ locked = Unused /\ store = Unused /\ up = {} /\ reads = Unused
  /\ changed = Unused /\ echo = Unused /\ relied = Unused /\ missed = Unused
  /\ left = Unused
NoTunnel ==
  /\ listed = Unused /\ stop = Unused /\ controls = Unused /\ wanted = Unused
  /\ active = Unused /\ worker = Unused /\ cancels = Unused /\ replies = Unused
  /\ wire = Unused /\ listening = Unused /\ alive = Unused /\ snapshot = Unused
  /\ reported = Unused /\ conns = Unused /\ changes = Unused /\ asked = Unused
NoRelay ==
  /\ jump = Unused /\ bridge = Unused /\ channel = Unused /\ remoteEnded = Unused
  /\ read = Unused /\ finished = Unused /\ delivered = Unused /\ client = Unused
  /\ drain = Unused /\ deliver = Unused /\ filled = Unused /\ ready = Unused
  /\ clientEnded = Unused /\ uploaded = Unused /\ upload = Unused /\ idle = Unused
NoSocks ==
  /\ request = Unused /\ closed = Unused /\ dynamic = Unused /\ state = Unused
  /\ target = Unused /\ lingered = Unused /\ opened = Unused
NoX11 ==
  /\ display = Unused /\ trusted = Unused /\ secure = Unused /\ setup = Unused
  /\ reached = Unused /\ told = Unused
NoOpening == NoDeadline /\ NoAuth /\ NoAsk /\ NoTrust
NoUse == NoTunnel /\ NoRelay /\ NoSocks /\ NoX11

NoPhase == phase = Unused /\ outcome = Unused
NoStream == sent = Unused /\ taken = Unused

PartInit ==
  \/ part = "deadline" /\ Deadline!Init /\ NoAuth /\ NoAsk /\ NoTrust /\ NoUse
     /\ NoPhase /\ NoStream /\ answers = Unused /\ file = Unused /\ accepted = Unused
  \/ part = "auth" /\ Auth!Init /\ NoDeadline /\ NoAsk /\ NoTrust /\ NoUse
     /\ phase = Unused /\ NoStream /\ file = Unused
  \/ part = "prompts" /\ Ask!Init /\ NoDeadline /\ NoAuth /\ NoTrust /\ NoUse
     /\ NoPhase /\ NoStream /\ answers = Unused /\ file = Unused /\ accepted = Unused
  \/ part = "store" /\ Trust!Init /\ up = TwoInstances /\ NoDeadline /\ NoAuth /\ NoAsk
     /\ NoUse /\ NoPhase /\ NoStream /\ answers = Unused
  \/ part = "tunnel" /\ Init /\ NoOpening /\ NoRelay /\ NoSocks /\ NoX11
     /\ NoStream /\ answers = Unused /\ file = Unused /\ accepted = Unused
  \/ part = "relay" /\ Pipe!Init /\ NoOpening /\ NoTunnel /\ NoSocks /\ NoX11
     /\ NoPhase /\ answers = Unused /\ file = Unused /\ accepted = Unused
  \/ part = "socks" /\ Proxy!Init /\ NoOpening /\ NoTunnel /\ NoRelay /\ NoX11
     /\ NoPhase /\ file = Unused /\ accepted = Unused
  \/ part = "x11" /\ Screen!Init /\ NoOpening /\ NoTunnel /\ NoRelay /\ NoSocks
     /\ outcome = Unused /\ taken = Unused /\ answers = Unused /\ accepted = Unused

DeadlineRuns ==
  part = "deadline" /\ UNCHANGED <<part, phase, outcome, sent, taken, answers, file, accepted,
                                  authVars, askVars, trustVars, useVars>>
AuthRuns ==
  part = "auth" /\ UNCHANGED <<part, phase, sent, taken, file,
                              deadlineVars, askVars, trustVars, useVars>>
PromptsRun ==
  part = "prompts" /\ UNCHANGED <<part, phase, outcome, sent, taken, answers, file, accepted,
                                 deadlineVars, authVars, trustVars, useVars>>
StoreRuns ==
  part = "store" /\ UNCHANGED <<part, phase, outcome, sent, taken, answers,
                               deadlineVars, authVars, askVars, useVars>>
TunnelRuns ==
  part = "tunnel" /\ UNCHANGED <<part, sent, taken, answers, file, accepted,
                                openingVars, relayVars, socksVars, x11Vars>>
RelayRuns ==
  part = "relay" /\ UNCHANGED <<part, phase, outcome, answers, file, accepted,
                               openingVars, socksVars, x11Vars, tunnelVars>>
SocksRuns ==
  part = "socks" /\ UNCHANGED <<part, phase, outcome, file, accepted,
                               openingVars, relayVars, x11Vars, tunnelVars>>
X11Runs ==
  part = "x11" /\ UNCHANGED <<part, outcome, taken, answers, accepted,
                             openingVars, relayVars, socksVars, tunnelVars>>

PartNext ==
  \/ DeadlineRuns /\ Deadline!Next
  \/ AuthRuns /\ Auth!Next
  \/ PromptsRun /\ Ask!Next
  \/ StoreRuns /\ Trust!Next
  \/ TunnelRuns /\ Next
  \/ RelayRuns /\ Pipe!Next
  \/ SocksRuns /\ Proxy!Next
  \/ X11Runs /\ Screen!Next

\* The fairness of the parts, each while it runs: no other variable moves then.
Runs(p) == part = p /\ UNCHANGED part
partVars ==
  CASE part = "deadline" -> Deadline!vars
    [] part = "auth" -> Auth!vars
    [] part = "prompts" -> Ask!vars
    [] part = "store" -> Trust!vars
    [] part = "tunnel" -> vars
    [] part = "relay" -> Pipe!vars
    [] part = "socks" -> Proxy!vars
    [] part = "x11" -> Screen!x11vars
PartFairness ==
  /\ WF_partVars(\/ Runs("deadline") /\ (Deadline!Enable \/ Deadline!ReadEnd)
                 \/ Runs("auth") /\ Auth!Local
                 \/ Runs("prompts") /\ conn[c1].phase = "prompting" /\ Ask!TimeOut(c1)
                 \/ Runs("store") /\ Trust!ConfigChanged(inst1)
                 \/ Runs("tunnel") /\ TaskStep
                 \/ Runs("relay") /\ Pipe!WaitForRoom
                 \/ Runs("socks") /\ Proxy!ConnectionStep
                 \/ Runs("x11") /\ Screen!Deadlines(1))
  /\ WF_partVars(\/ Runs("deadline") /\ Deadline!Expire
                 \/ Runs("auth") /\ Auth!TimeOut
                 \/ Runs("prompts") /\ conn[c1].phase = "prompting" /\ Ask!Decide(c1)
                 \/ Runs("store") /\ Trust!ConfigChanged(inst2)
                 \/ Runs("tunnel") /\ WorkerStep
                 \/ Runs("relay") /\ Pipe!Stall
                 \/ Runs("x11") /\ Screen!Deadlines(2))
  /\ WF_partVars(\/ Runs("deadline") /\ Deadline!LookAgain
                 \/ Runs("auth") /\ Auth!DeadlineEnds
                 \/ Runs("prompts") /\ conn[c2].phase = "prompting" /\ Ask!TimeOut(c2)
                 \/ Runs("store") /\ Trust!EndEcho(inst1)
                 \/ Runs("tunnel") /\ \E c \in conns : RouteGone(c)
                 \/ Runs("relay") /\ Pipe!DrainReads)
  /\ WF_partVars(\/ Runs("prompts") /\ conn[c2].phase = "prompting" /\ Ask!Decide(c2)
                 \/ Runs("store") /\ Trust!EndEcho(inst2)
                 \/ Runs("relay") /\ Pipe!Peek)
  /\ WF_partVars(\/ Runs("prompts") /\ Ask!DeliverEvent(1)
                 \/ Runs("store") /\ \E r \in reads : r.inst = inst1 /\ Trust!ReadStep(r)
                 \/ Runs("relay") /\ Pipe!Deliver)
  /\ WF_partVars(\/ Runs("prompts") /\ Ask!DeliverEvent(2)
                 \/ Runs("store") /\ \E r \in reads : r.inst = inst2 /\ Trust!ReadStep(r)
                 \/ Runs("relay") /\ (Pipe!BrokenPipe \/ Pipe!Upload \/ Pipe!BridgeDone \/ Pipe!EitherEnds))

PartSpec == PartInit /\ [][PartNext]_allVars /\ PartFairness

-----------------------------------------------------------------------------
(* The properties of the parts, stated there.                                *)

\* However pauses nest and follow each other, the time they took is not counted
\* and all other time is (pause, resume); and the connect is not cut off before it
\* took its whole budget outside of prompts (expired).
Accounting == part = "deadline" => Deadline!Accounting
NotTooSoon == part = "deadline" => Deadline!NotTooSoon

\* Secrets go where they were meant to: the one found is for the device's
\* method, and the saved password answers one lone password question of a first
\* factor (resolve_test_credentials, is_password_question).
SecretsFit == part = "auth" => Auth!SecretFitsMethod /\ Auth!PasswordStaysHome

\* A round gets as many answers as it asked questions, and nothing is left of a
\* prompt that is no longer waited for: not registered, not on screen, the
\* deadline not paused (PromptAsker and its guards).
AskedAndPutAway ==
  part = "auth" => Auth!TypeOK /\ Auth!AnswersFit /\ Auth!PromptIsDropped

\* A wrong key fails without a question to the user (needs_keyboard_interactive).
WrongKeyAsksNothing ==
  [][part = "auth" /\ step = "verdict" /\ tried = "publickey"
       /\ "publickey" \in result.offers /\ ~result.partial => step' # "reply"]_allVars

\* The instances end up with what the file holds, except for what a window is
\* known to skip.
Converges == part = "store" => Trust!Converges

\* What the server listens on is what the tunnel says is open: a forward
\* reported open is, and nothing else is once all was answered (RequestWorker,
\* settle, ServerListen.release).
ServerAgrees == part = "tunnel" => TypeOK /\ ReportedIsOpen /\ NothingLeftListening

\* The tunnel has the forwards asked for last, each connection of the server
\* goes to the one that holds its port, and a tunnel without any ends
\* (queue_until_empty, claim_route).
TunnelIsAsAsked == part = "tunnel" => RoutesMatchForwards /\ ServesWhatWasAsked /\ NeverIdle

\* A slow client holds the channel up before it costs memory, and a jump host's
\* stream says its last words (wait_for_room, bridge_until_either_ends).
RelayKeepsPace == part = "relay" => Pipe!TypeOK /\ Pipe!BacklogBounded /\ Pipe!LastWordsOut

\* A connection that no end broke off is cut only if its backlog is full and its
\* client took nothing since the wait began: no wake-up is missed (wait_for_room).
CutOnlyWhenStalled ==
  [][part = "relay" /\ Pipe!Running /\ bridge' = "failed" =>
       client = "closed" \/ upload' = "failed" \/ (idle /\ ~Pipe!HasRoom)]_allVars

\* Every SOCKS client gets the one answer its request deserves, a rejection
\* arrives, and no control character reaches a target (accept, reply,
\* close, host_name).
ProxyAnswers ==
  part = "socks" =>
    Proxy!TypeOK /\ Proxy!AnswerIsDeserved /\ Proxy!OnlyCleanTargets /\ Proxy!RejectionArrives

\* Only clients of the session reach the X server, so many at a time, with a
\* cookie that is meant for it, and the user is told once of a problem
\* (carries_cookie, x11_permit, find_cookie, warn_once).
ScreenIsGuarded ==
  part = "x11" =>
    /\ Screen!TypeOK /\ Screen!OnlyOurClients /\ Screen!CookieIsMeant
    /\ Screen!SlotsBounded /\ Screen!ToldOnce

\* Something is under way that must come to an end.
Waiting ==
  \/ part = "deadline" /\ Deadline!OutOfTime /\ ~Deadline!CutOff
  \/ part = "auth" /\ step # "done"
  \/ part = "prompts" /\ \E p \in 1 .. raised : ~Ask!Settled(p)
  \/ part = "tunnel" /\ phase # "gone" /\ (stop \/ Pending(active) \/ Routeless # {})
  \/ part = "relay" /\ delivered < channel /\ client = "reading" /\ bridge = "open"
  \/ part = "socks" /\ state \in {"reading", "closing"}
  \/ part = "x11" /\ \E c \in Channels : phase[c] \in {"reading"} \cup Screen!Opening

\* Nothing hangs. Every wait of a connect comes to an end: the deadline cuts off
\* what stalls (Bounded), no server keeps it authenticating (AuthEnds), and every
\* prompt is decided and leaves the dialog (PromptsEnd). A stop ends the tunnel
\* (StopEnds), requests are settled (RequestsSettle) and connections end with their
\* route (ConnectionsEndWithRoute); a client that reads gets every byte
\* (ReaderIsServed); a SOCKS handshake ends (HandshakeEnds); and the slot of an
\* X11 channel comes back (SlotsComeBack). With bounded prompts, time, changes and
\* bytes, no such wait is renewed for ever.
NothingHangs == []<>~Waiting
=============================================================================
