--------------------------- MODULE InteractiveAuth ---------------------------
(***************************************************************************)
(* Authenticating one SSH connection: the device's secret looked up         *)
(* (commands/device_access.rs), an agent that holds the identity found      *)
(* (agent_ident.rs), the configured method tried (ssh/establish.rs), and    *)
(* what the server still asks answered by the saved password or by the user *)
(* through a prompt (ssh/interactive_auth.rs, ssh/prompts.rs,               *)
(* commands/auth_prompts.rs), while the connect deadline is paused.         *)
(***************************************************************************)
EXTENDS Naturals, Sequences, FiniteSets

CONSTANTS
    MaxRounds,      \* MAX_ROUNDS
    MaxPhases,      \* MAX_PHASES
    Agents          \* bound: agent pipes that may be found

AuthConstants == MaxRounds \in Nat /\ MaxPhases \in Nat /\ Agents \in Nat

Methods == {"password", "key", "agent"}
Offers == {"password", "publickey", "kbd"}

\* What a round may ask: nothing; one hidden password; one hidden code; two
\* things, one of them a password; more than MAX_FIELDS things.
Questions == {"info", "password", "code", "both", "flood"}
Size(q) == CASE q = "info" -> 0 [] q = "both" -> 2 [] q = "flood" -> 3 [] OTHER -> 1
MaxFields == 2

VARIABLES
    step,       \* where the authentication is
    device,     \* the device to connect with, or as edited for a test
    secret,     \* the secret found: none, or the method it is for
    agents,     \* what the agent pipes answer
    tried, result, phases, rounds,
    saved,      \* the saved password may still answer a question
    question,   \* the round being answered
    answers,    \* how many answers go to the server
    pending, onScreen,  \* the prompt is in the registry, in the on-screen one
    shown,      \* its answer time runs
    paused,     \* the connect deadline is paused
    outcome,
    accepted,   \* history: the server has accepted a first factor
    passwordTo  \* history: what the saved password was sent for

prompt == <<pending, onScreen, shown, paused>>
found == <<device, secret, agents>>
exchange == <<tried, result, phases, rounds, saved, question, answers>>
history == <<accepted, passwordTo>>
vars == <<step, found, exchange, prompt, outcome, history>>

None == "none"
Failure(partial, offers) == [success |-> FALSE, partial |-> partial, offers |-> offers]
Success == [success |-> TRUE, partial |-> FALSE, offers |-> {}]
Results == {Success} \cup {Failure(p, o) : p \in BOOLEAN, o \in SUBSET Offers}

\* A device as connected to; one edited for a test may have been saved with
\* another method, and its secret may be typed.
Device == [test : BOOLEAN, method : Methods, savedMethod : Methods \cup {None},
           stored : BOOLEAN, typed : BOOLEAN]

Init ==
    /\ step = "resolve" /\ outcome = None
    /\ device \in {d \in Device :
            /\ ~d.test => d.savedMethod = d.method /\ ~d.typed
            /\ d.stored => d.savedMethod \in {"password", "key"}
            /\ d.typed => d.method # "agent"}
    /\ secret = None /\ agents = <<>>
    /\ tried = None /\ result = Failure(FALSE, {}) /\ phases = 0 /\ rounds = 0
    /\ saved = FALSE /\ question = None /\ answers = 0
    /\ pending = FALSE /\ onScreen = FALSE /\ shown = FALSE /\ paused = FALSE
    /\ accepted = FALSE /\ passwordTo = <<>>

\* The guards of a wait: dropped however it ends, they empty the registries
\* and resume the deadline.
DropPrompt ==
    pending' = FALSE /\ onScreen' = FALSE /\ shown' = FALSE /\ paused' = FALSE

End(why) ==
    /\ step' = "done" /\ outcome' = why
    /\ DropPrompt

(* ------------------------------ credentials ----------------------------- *)

\* Mutant: whatever is stored serves a test, too.
SecretOfAnyMethod(d) ==
    IF d.typed THEN d.method ELSE IF d.stored THEN d.savedMethod ELSE None

\* resolve_credentials, resolve_test_credentials: the typed secret, else the
\* stored one, which a device tested with another method must not use.
SecretOf(d) ==
    IF d.typed THEN d.method
    ELSE IF d.stored /\ d.savedMethod = d.method THEN d.savedMethod
    ELSE None

\* credentials_from: a password must be there, a passphrase need not; an
\* agent has no secret. Also for the jump host, whose errors name it.
Resolve ==
    /\ step = "resolve"
    /\ \/ End("keyring") /\ UNCHANGED secret
       \/ /\ device.method = "password" /\ SecretOf(device) = None
          /\ End("no password") /\ UNCHANGED secret
       \/ /\ device.method # "password" \/ SecretOf(device) # None
          /\ secret' = IF device.method = "agent" THEN None ELSE SecretOf(device)
          /\ step' = IF device.method = "agent" THEN "agent" ELSE "configured"
          /\ UNCHANGED <<prompt, outcome>>
    /\ UNCHANGED <<device, agents, exchange, history>>

\* connect_agent: the first pipe whose agent holds keys, else the first that
\* answered, else none; each within AGENT_ATTEMPT_TIMEOUT.
Chosen(replies) ==
    LET with(reply) == {i \in DOMAIN replies : replies[i] = reply}
        first(s) == CHOOSE i \in s : \A j \in s : i <= j
    IN IF with("keys") # {} THEN first(with("keys"))
       ELSE IF with("empty") # {} THEN first(with("empty"))
       ELSE 0

\* authenticate_with_agent: the agent chosen must hold the identity.
FindAgent ==
    /\ step = "agent"
    /\ \E n \in 0..Agents : agents' \in [1..n -> {"keys", "empty", "silent"}]
    /\ \/ /\ Chosen(agents') # 0 /\ agents'[Chosen(agents')] = "keys"
          /\ step' = "configured" /\ UNCHANGED <<prompt, outcome>>
       \/ End("no identity")
    /\ UNCHANGED <<device, secret, exchange, history>>

(* -------------------------- the configured method ----------------------- *)

MethodKind == IF device.method = "password" THEN "password" ELSE "publickey"

\* authenticate_configured, and the start of finish_authentication: a
\* password the server accepted will answer no question.
Configured ==
    /\ step = "configured"
    /\ \/ /\ \E r \in Results :
              /\ result' = r /\ accepted' = r.partial
              /\ saved' = (device.method = "password" /\ ~r.partial)
          /\ tried' = MethodKind
          /\ step' = "verdict" /\ UNCHANGED <<prompt, outcome>>
       \/ End("error") /\ UNCHANGED <<result, tried, saved, accepted>>
    /\ UNCHANGED <<found, phases, rounds, question, answers, passwordTo>>

\* Mutant: a wrong key makes the server's questions welcome.
NeedsAfterAnyFailure(r, method) == ~r.success /\ "kbd" \in r.offers

\* needs_keyboard_interactive.
NeedsKbd(r, method) ==
    /\ ~r.success
    /\ "kbd" \in r.offers
    /\ r.partial \/ method = "password" \/ method \notin r.offers

\* The loop of finish_authentication: another phase, or the end.
Verdict ==
    /\ step = "verdict"
    /\ IF phases < MaxPhases /\ NeedsKbd(result, tried)
       THEN /\ step' = "reply" /\ phases' = phases + 1 /\ rounds' = 0
            /\ tried' = "kbd"
            /\ UNCHANGED <<prompt, outcome>>
       ELSE /\ End(IF result.success THEN "ok" ELSE "failed")
            /\ UNCHANGED <<phases, rounds, tried>>
    /\ UNCHANGED <<found, result, saved, question, answers, history>>

(* ------------------------ keyboard-interactive rounds ------------------- *)

\* The server's verdict of a phase: after it, the password answers nothing.
PhaseEnds ==
    /\ step = "reply" /\ rounds < MaxRounds
    /\ \E r \in Results :
        result' = r /\ accepted' = (accepted \/ r.partial)
    /\ saved' = FALSE
    /\ step' = "verdict"
    /\ UNCHANGED <<found, tried, phases, rounds, question, answers, prompt, outcome, passwordTo>>

Round == rounds' = rounds + 1

\* answer_round: a lone hidden password question takes the saved password.
TakesPassword(q) == saved /\ q = "password"

\* run_phase: a question. Nothing asked needs no answer, the saved password
\* answers its one question, the user gets the rest through a prompt.
Asked ==
    /\ step = "reply" /\ rounds < MaxRounds
    /\ Round
    /\ \E q \in Questions :
        /\ question' = q
        /\ \/ /\ q = "info"
              /\ step' = "respond" /\ answers' = 0
              /\ UNCHANGED <<saved, passwordTo, prompt, outcome>>
           \/ /\ Size(q) > MaxFields
              /\ End("flood") /\ UNCHANGED <<answers, saved, passwordTo>>
           \/ /\ TakesPassword(q)
              /\ step' = "respond" /\ answers' = 1 /\ saved' = FALSE
              /\ passwordTo' = Append(passwordTo, [question |-> q, accepted |-> accepted])
              /\ UNCHANGED <<prompt, outcome>>
           \/ /\ q # "info" /\ Size(q) <= MaxFields /\ ~TakesPassword(q)
              /\ step' = "asking" /\ pending' = TRUE /\ onScreen' = TRUE
              /\ paused' = TRUE /\ shown' = FALSE
              /\ UNCHANGED <<answers, saved, passwordTo, outcome>>
    /\ UNCHANGED <<found, tried, result, phases, accepted>>

\* The server asks on after the last round that is answered.
TooManyRounds ==
    /\ step = "reply" /\ rounds = MaxRounds
    /\ End("kept asking")
    /\ UNCHANGED <<found, exchange, history>>

\* The answers reach the server.
RespondKbd ==
    /\ step = "respond"
    /\ step' = "reply"
    /\ UNCHANGED <<found, exchange, prompt, outcome, history>>

(* ------------------------------ the prompt ------------------------------ *)

\* mark_auth_shown: the dialog, which shows one prompt at a time, shows it.
MarkShown ==
    /\ step = "asking" /\ onScreen
    /\ onScreen' = FALSE /\ shown' = TRUE
    /\ UNCHANGED <<step, found, exchange, pending, paused, outcome, history>>

\* Mutant: whatever number of answers comes goes to the server.
AcceptAny(n) == step' = "respond" /\ answers' = n /\ DropPrompt /\ UNCHANGED outcome

\* accept_answers.
Accept(n) ==
    IF n = Size(question)
    THEN step' = "respond" /\ answers' = n /\ DropPrompt /\ UNCHANGED outcome
    ELSE End("mismatch") /\ UNCHANGED answers

\* respond_auth_prompt: the user's answers, or a cancel. Unknown prompts are
\* ignored, so one without a registry entry takes none.
Answer ==
    /\ step = "asking" /\ pending
    /\ \/ \E n \in 0..MaxFields : Accept(n)
       \/ End("cancelled") /\ UNCHANGED answers
    /\ UNCHANGED <<found, tried, result, phases, rounds, saved, question, history>>

\* Mutant: only a prompt that was shown times out.
ShownTimesOut == step = "asking" /\ shown /\ End("unanswered")

\* PromptAsker::answer: `queue_timeout` to be shown, then `timeout`.
PromptTimesOut == step = "asking" /\ End("unanswered")

TimeOut == PromptTimesOut /\ UNCHANGED <<found, exchange, history>>

\* The connection is dropped: by the user, or by the deadline, which doesn't
\* run while it is paused.
Abandon ==
    /\ step # "done"
    /\ End("dropped")
    /\ UNCHANGED <<found, exchange, history>>
DeadlineEnds == ~paused /\ Abandon

Local == Resolve \/ FindAgent \/ Verdict \/ TooManyRounds \/ RespondKbd
Server == Configured \/ PhaseEnds \/ Asked
User == MarkShown \/ Answer

Next == Local \/ Server \/ User \/ TimeOut \/ Abandon

Fairness == WF_vars(Local) /\ WF_vars(TimeOut) /\ WF_vars(DeadlineEnds)
Spec == Init /\ [][Next]_vars
LiveSpec == Spec /\ Fairness

-----------------------------------------------------------------------------

TypeOK ==
    /\ step \in {"resolve", "agent", "configured", "verdict", "reply", "respond", "asking", "done"}
    /\ device \in Device /\ secret \in Methods \cup {None}
    /\ Len(agents) <= Agents
    /\ tried \in Offers \cup {None} /\ result \in Results
    /\ phases \in 0..MaxPhases /\ rounds \in 0..MaxRounds
    /\ question \in Questions \cup {None} /\ answers \in 0..MaxFields
    /\ saved \in BOOLEAN /\ accepted \in BOOLEAN /\ shown \in BOOLEAN
    /\ outcome = None <=> step # "done"

\* A secret is used for the method it was saved or typed for only: a password
\* is no key passphrase.
SecretFitsMethod == secret # None => secret = device.method

\* The saved password is sent for one lone password question at most, and
\* never once the server has accepted a first factor: what it asks then is a
\* second one.
PasswordStaysHome ==
    /\ Len(passwordTo) <= 1
    /\ \A i \in DOMAIN passwordTo :
        passwordTo[i].question = "password" /\ ~passwordTo[i].accepted

\* A plain wrong key fails without a question to the user.
WrongKeyAsksNothing ==
    [][step = "verdict" /\ tried = "publickey" /\ "publickey" \in result.offers
        /\ ~result.partial => step' # "reply"]_vars

\* The server gets as many answers as it asked questions.
AnswersFit == step = "respond" => answers = Size(question)

\* A prompt is registered, and the deadline paused, only while it is waited
\* for: no way of ending the wait leaves either behind.
PromptIsDropped == pending \/ onScreen \/ paused => step = "asking"

\* No server keeps a connection authenticating for ever, though the deadline
\* doesn't run while the user is asked, and a prompt need not be shown.
AuthEnds == <>(step = "done")
=============================================================================
