------------------------------- MODULE Tunnel -------------------------------
(***************************************************************************)
(* One tunnel of the backend (tunnel.rs, remote_forward.rs): the manager's   *)
(* entry, the task that connects, binds the forwards and serves them, the    *)
(* worker that makes its requests to the server one at a time, the server,   *)
(* and the connections it sends back for remote forwards.                    *)
(*                                                                         *)
(* Local listeners (ssh -L, -D) are bound here at once; a remote forward     *)
(* (ssh -R) is a request to the server, which answers in order, late, or     *)
(* never.                                                                  *)
(***************************************************************************)
EXTENDS Integers, Sequences, FiniteSets, Lists

CONSTANTS
  Configs,    \* the device's forwards, each in every form an edit gives it:
              \* [id, kind : {"local", "remote"}, port]
  Initial,    \* the forwards the tunnel is started with, a sequence
  Capacity,   \* CONTROL_CHANNEL_CAPACITY
  MaxChanges, \* bound: forwards added or removed by the user
  MaxConns    \* bound: connections the server sends back

Ids == {c.id : c \in Configs}
Ports == {c.port : c \in Configs}
LocalPorts == {c.port : c \in {d \in Configs : d.kind = "local"}}

\* A device's forwards have different ids (device.rs validate_forwards).
TunnelConstants ==
  /\ \A c \in Configs : c.kind \in {"local", "remote"}
  /\ "nobody" \notin Ids
  /\ Initial \in Seq(Configs)
  /\ \A i, j \in DOMAIN Initial : Initial[i].id = Initial[j].id => i = j
  /\ Capacity \in Nat /\ MaxChanges \in Nat /\ MaxConns \in Nat

VARIABLES
  phase,      \* of the tunnel's task
  outcome,    \* how it ended
  listed,     \* the manager's map has it
  stop,       \* the stop flag
  controls,   \* the control queue
  wanted,     \* while connecting: the forwards to bind
  active,     \* ActiveForwards with its routes and its requests' queue
  worker,     \* RequestWorker: the request it waits for
  cancels,    \* per port: the cancel sent after a listen timed out
  replies,    \* answers to listen requests, for the task
  wire,       \* requests the server has not handled
  listening,  \* the ports the server listens on for this connection
  alive,      \* the connection is
  snapshot,   \* what list_tunnels says: forward ids
  reported,   \* the last `listening' status: [id, bound] records
  conns,      \* connections sent back, dialling or bridged: [port, live]
  changes,    \* how many changes the users may still make
  asked       \* for the properties: the users' last wish per forward

server == <<wire, listening, alive>>
requesting == <<worker, cancels>>
vars == <<phase, outcome, listed, stop, controls, wanted, active, requesting,
          replies, server, snapshot, reported, conns, changes, asked>>

NoRoute == [owner |-> "nobody", live |-> 0]
NoRequest == [kind |-> "none", port |-> 0, attempt |-> 0]

\* The wish to have a forward off.
Off == [id |-> "nobody", kind |-> "off", port |-> 0]

Requests ==
  [kind : {"listen"}, port : Ports, attempt : Nat \ {0}] \cup
  [kind : {"cancel"}, port : Ports, attempt : Nat]
Entries == [config : Configs, holds : BOOLEAN, pending : Nat]
Controls == [kind : {"add"}, config : Configs] \cup [kind : {"remove"}, id : Ids]

TypeOK ==
  /\ phase \in {"connecting", "binding", "serving", "closing", "ended", "gone"}
  /\ outcome \in {"none", "disconnected", "error"}
  /\ listed \in BOOLEAN
  /\ stop \in BOOLEAN
  /\ controls \in Seq(Controls) /\ Len(controls) <= Capacity
  /\ wanted \in Seq(Configs)
  /\ active \in [entries : SUBSET Entries,
                 routes : [Ports -> [owner : Ids, live : Nat] \cup {NoRoute}],
                 requests : Seq(Requests), attempts : Nat]
  /\ worker \in Requests \cup {NoRequest}
  /\ cancels \in [Ports -> {"none", "unsent", "sent"}]
  /\ replies \in Seq([attempt : Nat \ {0}, granted : BOOLEAN])
  /\ wire \in Seq(Requests)
  /\ listening \subseteq Ports
  /\ snapshot \subseteq Ids
  /\ reported \subseteq [id : Ids, bound : BOOLEAN]
  /\ conns \subseteq [port : Ports, live : Nat]

IdsOf(configs) == {configs[i].id : i \in DOMAIN configs}

NoForwards ==
  [entries |-> {}, routes |-> [p \in Ports |-> NoRoute], requests |-> <<>>, attempts |-> 0]

\* spawn_tunnel: the map has it from here on.
Init ==
  /\ phase = "connecting"
  /\ outcome = "none"
  /\ listed = TRUE
  /\ stop = FALSE
  /\ controls = <<>>
  /\ wanted = Initial
  /\ active = NoForwards
  /\ worker = NoRequest
  /\ cancels = [p \in Ports |-> "none"]
  /\ replies = <<>>
  /\ wire = <<>>
  /\ listening = {}
  /\ alive = FALSE
  /\ snapshot = IdsOf(Initial)
  /\ reported = {}
  /\ conns = {}
  /\ changes = MaxChanges
  /\ asked = [i \in Ids |-> IF i \in IdsOf(Initial)
                            THEN Initial[CHOOSE k \in DOMAIN Initial : Initial[k].id = i] ELSE Off]

-----------------------------------------------------------------------------
(* ActiveForwards *)

EntryIds(a) == {e.config.id : e \in a.entries}
Pending(a) == \E e \in a.entries : e.pending # 0
AnyBound(a) == \E e \in a.entries : e.holds
Serves(e) == e.holds /\ e.pending = 0
ServerSide(e) == e.holds /\ e.config.kind = "remote"

\* RemoteRoutes.release, as the ServerListens of some entries are dropped.
Release(routes, entries) ==
  [p \in Ports |-> IF \E e \in entries : e.config.port = p /\ e.config.id = routes[p].owner
                   THEN NoRoute ELSE routes[p]]

Request(kind, port, attempt) == [kind |-> kind, port |-> port, attempt |-> attempt]

\* remove: a remote forward is cancelled on the server. No two entries have the
\* same id.
RemoveEntry(a, id) ==
  LET mine == {e \in a.entries : e.config.id = id}
      listens == {e \in mine : ServerSide(e)}
      port == (CHOOSE e \in listens : TRUE).config.port
  IN [a EXCEPT !.entries = @ \ mine,
               !.routes = Release(@, listens),
               !.requests = IF listens = {} THEN @ ELSE Append(@, Request("cancel", port, 0))]

\* bind, listen: a local port somebody else has cannot be bound.
LocalPortsHeld(a) ==
  {e.config.port : e \in {f \in a.entries : f.holds /\ f.config.kind = "local"}}

Bind(a, config, busy) ==
  [config |-> config, holds |-> config.port \notin busy \cup LocalPortsHeld(a), pending |-> 0]

\* listen_on_server: the route first, then the request.
ListenOnServer(a, config) ==
  LET attempt == a.attempts + 1 IN
  [a EXCEPT !.attempts = attempt,
            !.routes[config.port] = [owner |-> config.id, live |-> attempt],
            !.requests = Append(@, Request("listen", config.port, attempt)),
            !.entries = @ \cup {[config |-> config, holds |-> TRUE, pending |-> attempt]}]

\* RemoteRoutes.claim: one forward per server port.
Claimable(routes, config) == routes[config.port].owner \in {"nobody", config.id}

AddEntry(a, config, busy) ==
  LET rest == RemoveEntry(a, config.id)
  IN IF config.kind = "remote" /\ Claimable(rest.routes, config)
     THEN ListenOnServer(rest, config)
     ELSE [rest EXCEPT !.entries = @ \cup
             {IF config.kind = "remote"
              THEN [config |-> config, holds |-> FALSE, pending |-> 0]
              ELSE Bind(rest, config, busy)}]

\* bind_all: one after the other, in the order of the list.
BindAll(a, configs, busy) ==
  LET bound[i \in 0 .. Len(configs)] ==
        IF i = 0 THEN a ELSE AddEntry(bound[i - 1], configs[i], busy)
  IN bound[Len(configs)]

\* Mutant: a refused listen keeps its route.
SettleKeepingRoute(a, reply) ==
  LET mine == {e \in a.entries : e.pending = reply.attempt}
      settled == {[e EXCEPT !.pending = 0, !.holds = reply.granted] : e \in mine}
  IN [a EXCEPT !.entries = (@ \ mine) \cup settled]

\* settle: the answer goes to the entry that asked, if it is still there.
Settle(a, reply) ==
  LET mine == {e \in a.entries : e.pending = reply.attempt}
      settled == {[e EXCEPT !.pending = 0, !.holds = reply.granted] : e \in mine}
  IN [a EXCEPT !.entries = (@ \ mine) \cup settled,
               !.routes = IF reply.granted THEN @ ELSE Release(@, mine)]

Statuses(a) ==
  {[id |-> e.config.id, bound |-> Serves(e)] : e \in {f \in a.entries : f.pending = 0}}

-----------------------------------------------------------------------------
(* The users: add_forward, remove_forward, stop_tunnel. *)

Send(control) ==
  /\ listed /\ phase \notin {"ended", "gone"}
  /\ Len(controls) < Capacity
  /\ changes > 0
  /\ changes' = changes - 1
  /\ controls' = Append(controls, control)
  /\ UNCHANGED <<phase, outcome, listed, stop, wanted, active, requesting, replies, server,
                 snapshot, reported, conns>>

AddForward(config) ==
  /\ Send([kind |-> "add", config |-> config])
  /\ asked' = [asked EXCEPT ![config.id] = config]

RemoveForward(id) ==
  /\ Send([kind |-> "remove", id |-> id])
  /\ asked' = [asked EXCEPT ![id] = Off]

StopTunnel ==
  /\ listed
  /\ ~stop
  /\ stop' = TRUE
  /\ UNCHANGED <<phase, outcome, listed, controls, wanted, active, requesting, replies, server,
                 snapshot, reported, conns, changes, asked>>

-----------------------------------------------------------------------------
(* The tunnel's task: run_tunnel. *)

\* It returns: the changes nobody will read are forgotten, the routes and requests are dropped, the connection closes.
Return(how) ==
  /\ phase' = "ended"
  /\ outcome' = how
  /\ active' = [NoForwards EXCEPT !.attempts = active.attempts]
  /\ worker' = NoRequest
  /\ cancels' = [p \in Ports |-> "none"]
  /\ replies' = <<>>
  /\ wire' = <<>>
  /\ listening' = {}
  /\ alive' = FALSE
  /\ controls' = <<>>
  /\ wanted' = <<>>
  /\ changes' = 0
  /\ asked' = [i \in Ids |-> Off]
  /\ UNCHANGED <<listed, stop, snapshot, reported, conns>>

\* queue: a change made while still connecting.
Queued(control) ==
  IF control.kind = "add"
  THEN Append(Without(wanted, {c \in Configs : c.id = control.config.id}), control.config)
  ELSE Without(wanted, {c \in Configs : c.id = control.id})

\* queue_until_empty: with nothing left to bind the tunnel is given up.
QueueChange ==
  /\ phase = "connecting"
  /\ controls # <<>>
  /\ LET left == Queued(Head(controls)) IN
     \/ /\ left # <<>>
        /\ wanted' = left
        /\ snapshot' = IdsOf(left)
        /\ controls' = Tail(controls)
        /\ UNCHANGED <<phase, outcome, listed, stop, active, requesting, replies, server,
                       reported, conns, changes, asked>>
     \/ left = <<>> /\ Return("disconnected")

StopConnecting ==
  /\ phase = "connecting"
  /\ stop
  /\ Return("disconnected")

\* establish_target failed.
ConnectFails ==
  /\ phase = "connecting"
  /\ Return("error")

\* Connected: bind_all, up to the answers about remote forwards.
Connect ==
  /\ phase = "connecting"
  /\ \E busy \in SUBSET LocalPorts :
       active' = BindAll(active, wanted, busy)
  /\ phase' = "binding"
  /\ alive' = TRUE
  /\ wanted' = <<>>
  /\ UNCHANGED <<outcome, listed, stop, controls, requesting, replies, wire, listening,
                 snapshot, reported, conns, changes, asked>>

\* Publisher.listening
Publish(a) ==
  /\ reported' = Statuses(a)
  /\ snapshot' = EntryIds(a)

AwaitReply ==
  /\ phase = "binding"
  /\ Pending(active)
  /\ replies # <<>>
  /\ active' = Settle(active, Head(replies))
  /\ replies' = Tail(replies)
  /\ UNCHANGED <<phase, outcome, listed, stop, controls, wanted, requesting, server, snapshot,
                 reported, conns, changes, asked>>

\* Every forward was decided: serve those that started, or give up.
FinishBinding ==
  /\ phase = "binding"
  /\ ~Pending(active)
  /\ \/ /\ AnyBound(active)
        /\ phase' = "serving"
        /\ Publish(active)
        /\ UNCHANGED <<outcome, listed, stop, controls, wanted, active, requesting, replies,
                       server, conns, changes, asked>>
     \/ ~AnyBound(active) /\ Return("error")

\* bind_until_stop
StopBinding ==
  /\ phase = "binding"
  /\ stop
  /\ phase' = "closing"
  /\ outcome' = "disconnected"
  /\ UNCHANGED <<listed, stop, controls, wanted, active, requesting, replies, server, snapshot,
                 reported, conns, changes, asked>>

\* report_or_end
ReportOrEnd(a) ==
  /\ active' = a
  /\ IF AnyBound(a)
     THEN Publish(a) /\ UNCHANGED <<phase, outcome>>
     ELSE phase' = "closing" /\ outcome' = "disconnected" /\ UNCHANGED <<reported, snapshot>>

ApplyControl ==
  /\ phase = "serving"
  /\ controls # <<>>
  /\ \E busy \in SUBSET LocalPorts :
       LET control == Head(controls) IN
       ReportOrEnd(IF control.kind = "add" THEN AddEntry(active, control.config, busy)
                                           ELSE RemoveEntry(active, control.id))
  /\ controls' = Tail(controls)
  /\ UNCHANGED <<listed, stop, wanted, requesting, replies, server, conns, changes, asked>>

ApplyReply ==
  /\ phase = "serving"
  /\ replies # <<>>
  /\ ReportOrEnd(Settle(active, Head(replies)))
  /\ replies' = Tail(replies)
  /\ UNCHANGED <<listed, stop, controls, wanted, requesting, server, conns, changes, asked>>

\* Mutant: a stop has to wait for room in the control queue.
EndServingQueued ==
  /\ phase = "serving"
  /\ \/ stop /\ controls = <<>> /\ replies # <<>> /\ outcome' = "disconnected"
     \/ ~alive /\ outcome' = "error"
  /\ phase' = "closing"
  /\ UNCHANGED <<listed, stop, controls, wanted, active, requesting, replies, server, snapshot,
                 reported, conns, changes, asked>>

\* A stop, also while a change is applied; or the watchdog's check.
EndServing ==
  /\ phase = "serving"
  /\ \/ stop /\ outcome' = "disconnected"
     \/ ~alive /\ outcome' = "error"
  /\ phase' = "closing"
  /\ UNCHANGED <<listed, stop, controls, wanted, active, requesting, replies, server, snapshot,
                 reported, conns, changes, asked>>

\* clear, disconnect, close_jump
Close ==
  /\ phase = "closing"
  /\ Return(outcome)

\* After the final status.
LeaveMap ==
  /\ phase = "ended"
  /\ phase' = "gone"
  /\ listed' = FALSE
  /\ UNCHANGED <<outcome, stop, controls, wanted, active, requesting, replies, server, snapshot,
                 reported, conns, changes, asked>>

TaskStep ==
  \/ QueueChange \/ StopConnecting \/ ConnectFails \/ Connect
  \/ AwaitReply \/ FinishBinding \/ StopBinding
  \/ ApplyControl \/ ApplyReply \/ EndServing
  \/ Close \/ LeaveMap

-----------------------------------------------------------------------------
(* RequestWorker, on its own task. *)

\* Mutant: a request does not wait for the cancel of a listen that timed out.
TakeRequestAtOnce ==
  LET request == Head(active.requests) IN
  /\ active.requests # <<>>
  /\ worker = NoRequest
  /\ worker' = request
  /\ wire' = IF alive THEN Append(wire, request) ELSE wire
  /\ active' = [active EXCEPT !.requests = Tail(@)]
  /\ UNCHANGED <<phase, outcome, listed, stop, controls, wanted, cancels, replies, listening,
                 alive, snapshot, reported, conns, changes, asked>>

\* The next request, once the cancel for its port is over.
TakeRequest ==
  LET request == Head(active.requests) IN
  /\ active.requests # <<>>
  /\ worker = NoRequest
  /\ cancels[request.port] = "none"
  /\ worker' = request
  /\ wire' = IF alive THEN Append(wire, request) ELSE wire
  /\ active' = [active EXCEPT !.requests = Tail(@)]
  /\ UNCHANGED <<phase, outcome, listed, stop, controls, wanted, cancels, replies, listening,
                 alive, snapshot, reported, conns, changes, asked>>

Reply(granted) ==
  replies' = IF worker.kind = "listen"
             THEN Append(replies, [attempt |-> worker.attempt, granted |-> granted]) ELSE replies

\* SERVER_REQUEST_TIMEOUT: a listen is cancelled behind its back.
TimeOut ==
  /\ worker # NoRequest
  /\ Reply(FALSE)
  /\ cancels' = IF worker.kind = "listen"
                THEN [cancels EXCEPT ![worker.port] = "unsent"] ELSE cancels
  /\ worker' = NoRequest
  /\ UNCHANGED <<phase, outcome, listed, stop, controls, wanted, active, server, snapshot,
                 reported, conns, changes, asked>>

\* The request fails with the connection.
RequestFails ==
  /\ worker # NoRequest
  /\ ~alive
  /\ Reply(FALSE)
  /\ worker' = NoRequest
  /\ UNCHANGED <<phase, outcome, listed, stop, controls, wanted, active, cancels, server,
                 snapshot, reported, conns, changes, asked>>

\* request_cancel on a task of its own: sent, then answered or given up.
CancelBehind(p) ==
  /\ \/ /\ cancels[p] = "unsent"
        /\ cancels' = [cancels EXCEPT ![p] = "sent"]
        /\ wire' = IF alive
                   THEN Append(wire, [kind |-> "cancel", port |-> p, attempt |-> 1]) ELSE wire
     \/ /\ cancels[p] = "sent"
        /\ cancels' = [cancels EXCEPT ![p] = "none"]
        /\ UNCHANGED wire
  /\ UNCHANGED <<phase, outcome, listed, stop, controls, wanted, active, worker, replies,
                 listening, alive, snapshot, reported, conns, changes, asked>>

WorkerStep == TakeRequest \/ TimeOut \/ RequestFails \/ \E p \in Ports : CancelBehind(p)

-----------------------------------------------------------------------------
(* The server and the connection. *)

\* It takes requests in order; whoever still waits for the answer has it.
\* A port it already listens on, or may not listen on, is refused.
ServerHandles ==
  LET request == Head(wire) IN
  /\ wire # <<>>
  /\ wire' = Tail(wire)
  /\ \/ /\ request.kind = "listen"
        /\ \E granted \in {FALSE} \cup {request.port \notin listening} :
             /\ listening' = IF granted THEN listening \cup {request.port} ELSE listening
             /\ IF worker = request
                THEN Reply(granted) /\ worker' = NoRequest
                ELSE UNCHANGED <<worker, replies>>
        /\ UNCHANGED cancels
     \/ /\ request.kind = "cancel"
        /\ listening' = listening \ {request.port}
        /\ worker' = IF worker = request THEN NoRequest ELSE worker
        /\ cancels' = IF request.attempt = 1 /\ cancels[request.port] = "sent"
                      THEN [cancels EXCEPT ![request.port] = "none"] ELSE cancels
        /\ UNCHANGED replies
  /\ UNCHANGED <<phase, outcome, listed, stop, controls, wanted, active, alive, snapshot,
                 reported, conns, changes, asked>>

ConnectionDies ==
  /\ alive
  /\ alive' = FALSE
  /\ wire' = <<>>
  /\ listening' = {}
  /\ UNCHANGED <<phase, outcome, listed, stop, controls, wanted, active, requesting, replies,
                 snapshot, reported, conns, changes, asked>>

\* serve_forwarded: a channel for a port without a route is rejected.
Forwarded(p) ==
  /\ p \in listening
  /\ active.routes[p] # NoRoute
  /\ Cardinality(conns) < MaxConns
  /\ conns' = conns \cup {[port |-> p, live |-> active.routes[p].live]}
  /\ UNCHANGED <<phase, outcome, listed, stop, controls, wanted, active, requesting, replies,
                 server, snapshot, reported, changes, asked>>

Routed(c) == active.routes[c.port].live = c.live

ConnsAre(cs) ==
  /\ conns' = cs
  /\ UNCHANGED <<phase, outcome, listed, stop, controls, wanted, active, requesting, replies,
                 server, snapshot, reported, changes, asked>>

\* serve: the target could not be dialled, or the bridge ended.
ConnEnds(c) == ConnsAre(conns \ {c})

\* live.changed(): the route's sender was dropped, perhaps during the dial.
RouteGone(c) == ~Routed(c) /\ ConnsAre(conns \ {c})

Next ==
  \/ \E config \in Configs : AddForward(config)
  \/ \E id \in Ids : RemoveForward(id)
  \/ StopTunnel
  \/ TaskStep
  \/ WorkerStep
  \/ ServerHandles
  \/ ConnectionDies
  \/ \E p \in Ports : Forwarded(p)
  \/ \E c \in conns : RouteGone(c) \/ ConnEnds(c)

Spec == Init /\ [][Next]_vars

\* Tasks run, and their time-outs fire; nothing is assumed of the server, the
\* network or the users.
Fairness ==
  /\ WF_vars(TaskStep)
  /\ WF_vars(WorkerStep)
  /\ WF_vars(\E c \in conns : RouteGone(c))

LiveSpec == Spec /\ Fairness

-----------------------------------------------------------------------------
(* Properties. *)

\* A remote forward that is reported open is open on the server, however its
\* port was given up, timed out and asked for again before (RequestWorker,
\* settle).
ReportedIsOpen ==
  phase = "serving" /\ alive =>
    \A e \in active.entries :
      e.config.kind = "remote" /\ [id |-> e.config.id, bound |-> TRUE] \in reported =>
        e.config.port \in listening

\* Once every request was made and handled, the server listens for nothing but
\* the forwards served (ServerListen.release, RequestWorker.listen).
Settled ==
  /\ active.requests = <<>>
  /\ worker = NoRequest
  /\ \A p \in Ports : cancels[p] = "none"
  /\ wire = <<>>
  /\ replies = <<>>

NothingLeftListening ==
  phase = "serving" /\ Settled =>
    \A p \in listening :
      \E e \in active.entries : Serves(e) /\ e.config.kind = "remote" /\ e.config.port = p

\* A server port's connections go to the one forward that holds it, whichever
\* ports forwards had before (claim_route, RemoteRoutes).
RoutesMatchForwards ==
  \A p \in Ports :
    LET holders == {e \in active.entries : ServerSide(e) /\ e.config.port = p}
    IN active.routes[p].owner # "nobody" \/ holders # {} =>
         \E e \in holders : holders = {e} /\ e.config.id = active.routes[p].owner

\* The tunnel has the forwards the users asked for last, in the form they asked
\* for, also those changed while it was connecting or binding; and it is listed
\* and reported with them (queue_until_empty, apply, Publisher).
ServesWhatWasAsked ==
  phase = "serving" /\ controls = <<>> =>
    /\ \A i \in Ids : asked[i] # Off <=> i \in EntryIds(active)
    /\ \A e \in active.entries : e.config = asked[e.config.id]
    /\ snapshot = EntryIds(active)
    /\ reported = Statuses(active)

\* A tunnel that serves nothing, and waits for nothing, does not stay.
NeverIdle == phase = "serving" => AnyBound(active)

\* A stop ends the tunnel in every phase, whatever the server does not answer.
StopEnds == stop ~> phase = "gone"

\* A remote forward that is removed, edited or refused takes the connections it
\* carried with it, also those still dialling their target (serve, release).
Routeless == {c \in conns : active.routes[c.port].live # c.live}
ConnectionsEndWithRoute == Routeless # {} ~> Routeless = {}

\* No forward stays `starting' for ever (SERVER_REQUEST_TIMEOUT).
RequestsSettle == Pending(active) ~> ~Pending(active)
=============================================================================
