----------------------------- MODULE HostPrompts -----------------------------
(***************************************************************************)
(* Host-key prompts, from the handshake that raises one to the answer.      *)
(*                                                                          *)
(* Every connection being established checks the key of each host on its    *)
(* way (ssh/handler.rs; a jumped one first the jump host's).  A key that is  *)
(* not the recorded one becomes a prompt: registered (ssh/prompts.rs), sent  *)
(* to the window, awaited until it is answered, times out or its connection *)
(* is given up.  The window (terminal/hostKeyDialog.ts) shows one prompt at *)
(* a time and answers all the queued prompts for the same key together.     *)
(***************************************************************************)
EXTENDS Integers, Sequences, SequencesExt, Lists

CONSTANTS
  Conns,       \* connections
  Hosts,
  Keys,        \* fingerprints
  NoKey,       \* no record
  Route,       \* per connection: the hosts it checks, jump host first
  MaxPrompts   \* bound: prompts raised

PromptsConstants ==
  /\ NoKey \notin Keys
  /\ \A c \in Conns : Route[c] \in Seq(Hosts) /\ Route[c] # <<>>
  /\ MaxPrompts \in Nat

PromptIds == 1 .. MaxPrompts
NoPrompt == 0

VARIABLES
  \* the backend
  conn,       \* per connection: how far its handshake is
  known,      \* the trust store's map
  reset,      \* hosts without a record may have been trusted before
  raised,     \* how many prompts were raised so far
  prompt,     \* per prompt: what it is about and what became of it
  registry,   \* PromptRegistry.pending
  events,     \* per prompt: the events on their way to the window
  calls,      \* respond_host_key calls on their way
  \* the window and its user
  queue,
  current,
  armed,      \* the Trust button is enabled
  aim,        \* the prompt the user is about to click Trust for
  approved    \* what the user clicked Trust for

backendVars == <<conn, known, reset, raised, prompt, registry>>
dialogVars == <<queue, current, armed>>
vars == <<backendVars, events, calls, dialogVars, aim, approved>>

Verdicts == {"unknown", "changed", "unverifiable"}

Facts == [host : Hosts, key : Keys, verdict : Verdicts]

\* A prompt's wait is over when its decision is taken.
Prompt == [facts : Facts, answer : {"none", "accept", "reject"},
           decision : {"none", "accepted", "rejected"}]

\* wanted: whoever started the handshake still holds its HandshakeOwner.
Conn == [phase : {"idle", "dialing", "prompting", "persisting", "open", "ended"},
         hop : Nat, wanted : BOOLEAN, prompt : PromptIds \cup {NoPrompt}]

TypeOK ==
  /\ conn \in [Conns -> Conn]
  /\ \A c \in Conns : conn[c].hop \in 1 .. Len(Route[c])
  /\ known \in [Hosts -> Keys \cup {NoKey}]
  /\ reset \in BOOLEAN
  /\ raised \in 0 .. MaxPrompts
  /\ prompt \in [1 .. raised -> Prompt]
  /\ registry \subseteq 1 .. raised
  /\ \A p \in 1 .. raised : events[p] \in {<<>>, <<"prompt">>, <<"closed">>, <<"prompt", "closed">>}
  /\ calls \subseteq [prompt : 1 .. raised, accept : BOOLEAN]
  /\ ToSet(queue) \subseteq 1 .. raised /\ IsInjective(queue)
  /\ current \in 0 .. raised
  /\ armed \in BOOLEAN
  /\ aim \in 0 .. raised
  /\ approved \subseteq Facts

\* The trust store is fresh, or was reset after a damaged file.
Init ==
  /\ conn = [c \in Conns |->
               [phase |-> "idle", hop |-> 1, wanted |-> TRUE, prompt |-> NoPrompt]]
  /\ known = [h \in Hosts |-> NoKey]
  /\ reset \in BOOLEAN
  /\ raised = 0
  /\ prompt = <<>>
  /\ registry = {}
  /\ events = <<>>
  /\ calls = {}
  /\ queue = <<>>
  /\ current = NoPrompt
  /\ armed = FALSE
  /\ aim = NoPrompt
  /\ approved = {}

--------------------------------------------------------------------------
(* The handshake. *)

HostOf(c) == Route[c][conn[c].hop]

Verdict(h, k) ==
  IF known[h] = k THEN "known"
  ELSE IF known[h] # NoKey THEN "changed"
  ELSE IF reset THEN "unverifiable" ELSE "unknown"

\* The key is fine: on to the next host, or through.
Passed(c) ==
  IF ~conn[c].wanted THEN [conn[c] EXCEPT !.phase = "ended"]
  ELSE IF conn[c].hop < Len(Route[c])
       THEN [conn[c] EXCEPT !.phase = "dialing", !.hop = @ + 1]
       ELSE [conn[c] EXCEPT !.phase = "open"]

Start(c) ==
  /\ conn[c].phase = "idle"
  /\ conn' = [conn EXCEPT ![c].phase = "dialing"]
  /\ UNCHANGED <<known, reset, raised, prompt, registry, events, calls, dialogVars, aim, approved>>

\* check_server_key: the recorded key passes at once, any other is asked about.
\* The prompt is registered before its event is sent.
CheckServerKey(c, k) ==
  LET h == HostOf(c)
      p == raised + 1
  IN /\ conn[c].phase = "dialing"
     /\ \/ /\ Verdict(h, k) = "known"
           /\ conn' = [conn EXCEPT ![c] = Passed(c)]
           /\ UNCHANGED <<raised, prompt, registry, events>>
        \/ /\ Verdict(h, k) # "known"
           /\ raised < MaxPrompts
           /\ raised' = p
           /\ prompt' = Append(prompt, [answer |-> "none", decision |-> "none",
                facts |-> [host |-> h, key |-> k, verdict |-> Verdict(h, k)]])
           /\ registry' = registry \cup {p}
           /\ events' = Append(events, <<"prompt">>)
           /\ conn' = [conn EXCEPT ![c].phase = "prompting", ![c].prompt = p]
     /\ UNCHANGED <<known, reset, calls, dialogVars, aim, approved>>

\* await_host_key_decision returns: the guard removes the entry, and the notice
\* tells the window.
StopWaiting(c, decision) ==
  LET p == conn[c].prompt IN
  /\ conn[c].phase = "prompting"
  /\ prompt' = [prompt EXCEPT ![p].decision = decision]
  /\ registry' = registry \ {p}
  /\ events' = [events EXCEPT ![p] = Append(@, "closed")]
  /\ conn' = [conn EXCEPT ![c].phase = IF decision = "accepted" THEN "persisting" ELSE "ended"]
  /\ UNCHANGED <<known, reset, raised, calls, dialogVars, aim, approved>>

\* The answer arrived.
Decide(c) ==
  \/ prompt[conn[c].prompt].answer = "accept" /\ StopWaiting(c, "accepted")
  \/ prompt[conn[c].prompt].answer = "reject" /\ StopWaiting(c, "rejected")

\* prompt_timeout elapsed with no answer.
TimeOut(c) == prompt[conn[c].prompt].answer = "none" /\ StopWaiting(c, "rejected")

\* owner_gone: also when an answer arrived at the same time.
NoticeOwnerGone(c) == ~conn[c].wanted /\ StopWaiting(c, "rejected")

\* persist_trusted_key: a failure is only logged; the key passes either way.
Persist(c) ==
  LET f == prompt[conn[c].prompt].facts IN
  /\ conn[c].phase = "persisting"
  /\ known' = [known EXCEPT ![f.host] = f.key]
  /\ conn' = [conn EXCEPT ![c] = Passed(c)]
  /\ UNCHANGED <<reset, raised, prompt, registry, events, calls, dialogVars, aim, approved>>

\* The network or the authentication fails.
FailHandshake(c) ==
  /\ conn[c].phase = "dialing"
  /\ conn' = [conn EXCEPT ![c].phase = "ended"]
  /\ UNCHANGED <<known, reset, raised, prompt, registry, events, calls, dialogVars, aim, approved>>

\* The HandshakeOwner is dropped: the session was stopped, or the connect
\* deadline ran out.  The handler's own task goes on until it notices.
GiveUp(c) ==
  /\ conn[c].phase \in {"dialing", "prompting", "persisting"}
  /\ conn[c].wanted
  /\ conn' = [conn EXCEPT ![c].wanted = FALSE]
  /\ UNCHANGED <<known, reset, raised, prompt, registry, events, calls, dialogVars, aim, approved>>

\* respond_host_key: a prompt nobody waits on is ignored.
Respond(call) ==
  /\ call \in calls
  /\ calls' = calls \ {call}
  /\ \/ /\ call.prompt \in registry
        /\ registry' = registry \ {call.prompt}
        /\ prompt' = [prompt EXCEPT ![call.prompt].answer =
                        IF call.accept THEN "accept" ELSE "reject"]
     \/ /\ call.prompt \notin registry
        /\ UNCHANGED <<registry, prompt>>
  /\ UNCHANGED <<conn, known, reset, raised, events, dialogVars, aim, approved>>

\* deliver failed.
LoseCall(call) ==
  /\ call \in calls
  /\ calls' = calls \ {call}
  /\ UNCHANGED <<backendVars, events, dialogVars, aim, approved>>

\* dismiss_reset
DismissReset ==
  /\ reset
  /\ reset' = FALSE
  /\ UNCHANGED <<conn, known, raised, prompt, registry, events, calls, dialogVars, aim, approved>>

--------------------------------------------------------------------------
(* The dialog. *)

\* Mutant: showNext without armTrustLater.
ShowFirstArmed(q) ==
  /\ current' = IF q = <<>> THEN NoPrompt ELSE Head(q)
  /\ queue' = IF q = <<>> THEN <<>> ELSE Tail(q)
  /\ UNCHANGED armed

\* showNext: Trust is disabled until the user had time to see the prompt.
ShowFirst(q) ==
  /\ current' = IF q = <<>> THEN NoPrompt ELSE Head(q)
  /\ queue' = IF q = <<>> THEN <<>> ELSE Tail(q)
  /\ armed' = (armed /\ q = <<>>)

\* isSameKey: host, key and verdict.
SameKey(p, q) == prompt[p].facts = prompt[q].facts

\* The handler of host_key_prompt.
QueuePrompt(p) ==
  \/ current = NoPrompt /\ ShowFirst(Append(queue, p))
  \/ current # NoPrompt /\ queue' = Append(queue, p) /\ UNCHANGED <<current, armed>>

\* dropClosed, the handler of host_key_prompt_closed.
DropClosed(p) ==
  LET others == Without(queue, {p}) IN
  \/ current = p /\ ShowFirst(others)
  \/ current # p /\ queue' = others /\ UNCHANGED <<current, armed>>

DeliverEvent(p) ==
  /\ p \in 1 .. raised
  /\ events[p] # <<>>
  /\ events' = [events EXCEPT ![p] = Tail(@)]
  /\ \/ Head(events[p]) = "prompt" /\ QueuePrompt(p)
     \/ Head(events[p]) = "closed" /\ DropClosed(p)
  /\ UNCHANGED <<backendVars, calls, aim, approved>>

\* TRUST_ARM_DELAY_MS is over.  A click aimed at an earlier prompt lands before.
ArmTrust ==
  /\ current # NoPrompt
  /\ ~armed
  /\ aim \in {NoPrompt, current}
  /\ armed' = TRUE
  /\ UNCHANGED <<backendVars, events, calls, queue, current, aim, approved>>

\* Mutant: the prompts answered along stay in the queue.
AnswerKeeping(accept) ==
  LET like == {p \in ToSet(queue) : SameKey(p, current)} IN
  /\ calls' = calls \cup [prompt : {current} \cup like, accept : {accept}]
  /\ ShowFirst(queue)

\* respond: one answer for the prompt on screen and its like.
Answer(accept) ==
  LET like == {p \in ToSet(queue) : SameKey(p, current)} IN
  /\ calls' = calls \cup [prompt : {current} \cup like, accept : {accept}]
  /\ ShowFirst(Without(queue, like))

\* The user sees a prompt and makes up their mind.
AimAtTrust ==
  /\ current # NoPrompt
  /\ aim = NoPrompt
  /\ aim' = current
  /\ UNCHANGED <<backendVars, events, calls, dialogVars, approved>>

\* The click lands on whatever is on screen by now.
ClickTrust ==
  /\ aim # NoPrompt
  /\ aim' = NoPrompt
  /\ approved' = approved \cup {prompt[aim].facts}
  /\ \/ current # NoPrompt /\ armed /\ Answer(TRUE)
     \/ (current = NoPrompt \/ ~armed) /\ UNCHANGED <<dialogVars, calls>>
  /\ UNCHANGED <<backendVars, events>>

\* The Reject button, or Escape.
ClickReject ==
  /\ current # NoPrompt
  /\ Answer(FALSE)
  /\ UNCHANGED <<backendVars, events, aim, approved>>

ConnStep(c) ==
  \/ Start(c)
  \/ \E k \in Keys : CheckServerKey(c, k)
  \/ conn[c].phase = "prompting" /\ (Decide(c) \/ TimeOut(c) \/ NoticeOwnerGone(c))
  \/ Persist(c)
  \/ FailHandshake(c)
  \/ GiveUp(c)

Next ==
  \/ \E c \in Conns : ConnStep(c)
  \/ \E call \in calls : Respond(call) \/ LoseCall(call)
  \/ \E p \in PromptIds : DeliverEvent(p)
  \/ DismissReset
  \/ ArmTrust
  \/ AimAtTrust
  \/ ClickTrust
  \/ ClickReject

Spec == Init /\ [][Next]_vars

\* The runtime and the window go on by themselves: answers, timeouts and
\* dropped owners end a wait, events are delivered.  Nothing is assumed of the
\* network and of the user.
Fairness ==
  /\ \A c \in Conns : WF_vars(conn[c].phase = "prompting" /\ TimeOut(c))
                      /\ WF_vars(conn[c].phase = "prompting" /\ Decide(c))
  /\ \A p \in PromptIds : WF_vars(DeliverEvent(p))

LiveSpec == Spec /\ Fairness

--------------------------------------------------------------------------
(* Properties. *)

OnDialog == ToSet(queue) \cup ({current} \ {NoPrompt})

\* Nothing is trusted but what the user clicked Trust for: neither a queued
\* prompt with other facts, nor one that came on screen under the cursor, nor
\* one that timed out (isSameKey, armTrustLater, await_host_key_decision).
TrustWasMeant ==
  /\ \A call \in calls : call.accept => prompt[call.prompt].facts \in approved
  /\ \A p \in 1 .. raised :
       prompt[p].answer = "accept" \/ prompt[p].decision = "accepted" =>
         prompt[p].facts \in approved
  /\ \A h \in Hosts : known[h] # NoKey =>
       \E f \in approved : f.host = h /\ f.key = known[h]

\* The registry holds the prompts a handler waits on, neither more (a leak) nor
\* less (an answer that cannot arrive) (PromptGuard, respond).
RegistryExact ==
  registry = {p \in 1 .. raised : prompt[p].decision = "none" /\ prompt[p].answer = "none"}

\* The dialog never asks for what was answered already (takeSameKey).
ShownIsUnanswered ==
  \A p \in OnDialog : prompt[p].answer = "none" /\ \A call \in calls : call.prompt # p

\* Every prompt comes to an end, and then leaves the dialog, whatever became of
\* its connection (PromptClosedNotice, dropClosed).
Settled(p) == p <= raised /\ prompt[p].decision # "none" /\ events[p] = <<>> /\ p \notin OnDialog
PromptsEnd == \A p \in PromptIds : p <= raised ~> Settled(p)

\* The dialog's header: a changed key gets the prominent warning.
ChangedIsLoud ==
  current # NoPrompt =>
    LET f == prompt[current].facts IN
    known[f.host] \in Keys \ {f.key} => f.verdict = "changed"
=============================================================================
