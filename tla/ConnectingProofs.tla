--------------------------- MODULE ConnectingProofs ----------------------------
(***************************************************************************)
(* Theorems about what a connect waits for, stated of the parts that        *)
(* MCConnection runs: about ConnectDeadline, for every budget, every set of *)
(* prompts and any amount of time, and about InteractiveAuth, for any       *)
(* number of rounds, phases and agents.                                     *)
(***************************************************************************)
EXTENDS MCConnection, FiniteSetTheorems, TLAPS

\* The task that awaits expired() sleeps until the budget's end, or knows that
\* this changed; and that end never comes early.
SleepsLongEnough ==
  waiter.at = "sleeping" =>
    /\ ~waiter.notified => running /\ waiter.endsAt = runningSince + budgetLeft
    /\ now >= waiter.endsAt => spent >= Budget

\* The deadline's own counting is that of the library.
LEMMA DeadlineCounting ==
  \A S : (Deadline!IsFiniteSet(S) <=> IsFiniteSet(S)) /\ Deadline!Cardinality(S) = Cardinality(S)
BY DEF Deadline!IsFiniteSet, IsFiniteSet, Deadline!Cardinality, Cardinality

\* The bounds of the deadline, whatever they are.
LEMMA DeadlineBounds ==
  Budget \in Nat /\ IsFiniteSet(Prompts) /\ MaxTime \in Nat /\ Punctual \in BOOLEAN
BY ConnectionAssumption, DeadlineCounting DEF Deadline!DeadlineConstants

\* Type correctness: the count of pauses is the number of DeadlinePauses held,
\* and the budget runs exactly while there is none.
LEMMA TypeInit == Deadline!Init => Deadline!TypeOK
<1> SUFFICES ASSUME Deadline!Init PROVE Deadline!TypeOK
  OBVIOUS
<1>1. Cardinality(holders) = 0
  BY FS_EmptySet DEF Deadline!Init
<1> QED
  BY <1>1, DeadlineBounds, DeadlineCounting DEF Deadline!Init, Deadline!TypeOK, Deadline!Waiter

\* A waiter keeps its type when it is notified.
LEMMA NotifiedType ==
  ASSUME waiter \in Deadline!Waiter
  PROVE  /\ Deadline!Notified \in Deadline!Waiter
         /\ Deadline!Notified.at = waiter.at
         /\ Deadline!Notified.endsAt = waiter.endsAt
         /\ waiter.at = "sleeping" => Deadline!Notified.notified
BY DEF Deadline!Notified, Deadline!Waiter

LEMMA HoldersFinite ==
  ASSUME Deadline!TypeOK
  PROVE  IsFiniteSet(holders)
BY DeadlineBounds, FS_Subset DEF Deadline!TypeOK

LEMMA TypeStep == Deadline!TypeOK /\ [Deadline!Next]_Deadline!vars => Deadline!TypeOK'
<1> SUFFICES ASSUME Deadline!TypeOK, [Deadline!Next]_Deadline!vars PROVE Deadline!TypeOK'
  OBVIOUS
<1> USE DEF Deadline!TypeOK
<1>1. ASSUME NEW p \in Prompts, Deadline!Pause(p) PROVE Deadline!TypeOK'
  <2>1. Cardinality(holders') = pauses + 1
    BY <1>1, HoldersFinite, FS_AddElement, DeadlineCounting DEF Deadline!Pause
  <2>2. waiter' \in Deadline!Waiter
    BY <1>1, NotifiedType DEF Deadline!Pause
  <2>3. budgetLeft' \in Nat
    BY <1>1 DEF Deadline!Pause, Deadline!Minus
  <2>4. running' <=> holders' = {}
    BY <1>1 DEF Deadline!Pause
  <2>5. holders' \subseteq Prompts /\ pauses' = pauses + 1 /\ pauses' \in Nat
    BY <1>1 DEF Deadline!Pause
  <2>6. UNCHANGED <<now, runningSince, spent>> /\ running' \in BOOLEAN
    BY <1>1 DEF Deadline!Pause
  <2> QED
    BY <2>1, <2>2, <2>3, <2>4, <2>5, <2>6, DeadlineCounting
<1>2. ASSUME NEW p \in Prompts, Deadline!Resume(p) PROVE Deadline!TypeOK'
  <2>1. /\ Cardinality(holders') = pauses - 1
        /\ IsFiniteSet(holders')
    BY <1>2, HoldersFinite, FS_RemoveElement, DeadlineCounting DEF Deadline!Resume
  <2>2. waiter' \in Deadline!Waiter
    BY <1>2, NotifiedType DEF Deadline!Resume
  <2>3. pauses' \in Nat /\ pauses' = Cardinality(holders')
    BY <1>2, <2>1, FS_CardinalityType DEF Deadline!Resume
  <2>4. running' <=> pauses = 1
    BY <1>2 DEF Deadline!Resume
  <2>5. pauses = 1 <=> Cardinality(holders') = 0
    BY <2>1
  <2>6. Cardinality(holders') = 0 <=> holders' = {}
    BY <2>1, FS_EmptySet
  <2>7. holders' \subseteq Prompts /\ UNCHANGED <<now, budgetLeft, spent>>
    BY <1>2 DEF Deadline!Resume
  <2>8. runningSince' \in Nat /\ runningSince' <= now' /\ running' \in BOOLEAN
    BY <1>2 DEF Deadline!Resume
  <2>9. running' <=> holders' = {}
    BY <2>4, <2>5, <2>6
  <2>10. now' \in Nat /\ budgetLeft' \in Nat /\ spent' \in Nat
    BY <2>7
  <2> QED
    BY <2>2, <2>3, <2>7, <2>8, <2>9, <2>10, DeadlineCounting
<1>3. CASE Deadline!Enable
  BY <1>3 DEF Deadline!Enable, Deadline!clock, Deadline!Waiter
<1>4. CASE Deadline!ReadEnd
  <2>1. waiter' \in Deadline!Waiter
    <3>1. CASE running
      <4>1. runningSince + budgetLeft \in Int
        OBVIOUS
      <4> QED
        BY <1>4, <3>1, <4>1 DEF Deadline!ReadEnd, Deadline!Waiter
    <3>2. CASE ~running
      BY <1>4, <3>2 DEF Deadline!ReadEnd, Deadline!Waiter
    <3> QED
      BY <3>1, <3>2
  <2>2. UNCHANGED <<now, budgetLeft, running, runningSince, pauses, holders, spent>>
    BY <1>4 DEF Deadline!ReadEnd, Deadline!clock
  <2> QED
    BY <2>1, <2>2
<1>5. CASE Deadline!Expire
  BY <1>5 DEF Deadline!Expire, Deadline!clock, Deadline!Waiter
<1>6. CASE Deadline!LookAgain
  BY <1>6 DEF Deadline!LookAgain, Deadline!clock, Deadline!Waiter
<1>7. CASE Deadline!Tick
  BY <1>7 DEF Deadline!Tick, Deadline!clock
<1>8. CASE UNCHANGED Deadline!vars
  BY <1>8 DEF Deadline!vars, Deadline!clock
<1> QED
  BY <1>1, <1>2, <1>3, <1>4, <1>5, <1>6, <1>7, <1>8 DEF Deadline!Next

\* Pause and resume account for the time that passed: one step.
LEMMA AccountingStep ==
  Deadline!TypeOK /\ Deadline!Accounting /\ [Deadline!Next]_Deadline!vars => Deadline!Accounting'
<1> SUFFICES ASSUME Deadline!TypeOK, Deadline!Accounting, [Deadline!Next]_Deadline!vars
             PROVE  Deadline!Accounting'
  OBVIOUS
<1> USE DeadlineBounds DEF Deadline!TypeOK, Deadline!Accounting, Deadline!Remaining, Deadline!Minus
<1>1. ASSUME NEW p \in Prompts, Deadline!Pause(p) PROVE Deadline!Accounting'
  BY <1>1 DEF Deadline!Pause
<1>2. ASSUME NEW p \in Prompts, Deadline!Resume(p) PROVE Deadline!Accounting'
  <2>1. ~running
    BY <1>2 DEF Deadline!Resume
  <2> QED
    BY <1>2, <2>1 DEF Deadline!Resume
<1>3. CASE Deadline!Tick
  BY <1>3 DEF Deadline!Tick, Deadline!clock
<1>4. CASE Deadline!Enable \/ Deadline!ReadEnd \/ Deadline!Expire \/ Deadline!LookAgain \/ UNCHANGED Deadline!vars
  BY <1>4 DEF Deadline!Enable, Deadline!ReadEnd, Deadline!Expire, Deadline!LookAgain,
     Deadline!vars, Deadline!clock
<1> QED
  BY <1>1, <1>2, <1>3, <1>4 DEF Deadline!Next

LEMMA AccountingInit == Deadline!Init => Deadline!Accounting
BY DeadlineBounds DEF Deadline!Init, Deadline!Accounting, Deadline!Remaining, Deadline!Minus

\* The sleeper's view is kept by each step, if a woken task runs at once.
LEMMA SleepStep ==
  ASSUME Punctual
  PROVE  Deadline!TypeOK /\ Deadline!Accounting /\ Deadline!Accounting'
           /\ SleepsLongEnough /\ [Deadline!Next]_Deadline!vars => SleepsLongEnough'
<1> SUFFICES ASSUME Deadline!TypeOK, Deadline!Accounting, Deadline!Accounting', SleepsLongEnough,
                    [Deadline!Next]_Deadline!vars
             PROVE  SleepsLongEnough'
  OBVIOUS
<1> USE DEF SleepsLongEnough
<1>1. ASSUME NEW p \in Prompts, Deadline!Pause(p) \/ Deadline!Resume(p) PROVE SleepsLongEnough'
  <2>1. waiter' = Deadline!Notified /\ now' = now /\ spent' = spent
    BY <1>1 DEF Deadline!Pause, Deadline!Resume
  <2>2. waiter \in Deadline!Waiter
    BY DEF Deadline!TypeOK
  <2> QED
    BY <2>1, <2>2, NotifiedType
<1>2. CASE Deadline!ReadEnd
  <2>1. CASE running
    <3>1. waiter' = [waiter EXCEPT !.at = "sleeping", !.endsAt = runningSince + budgetLeft]
      BY <1>2, <2>1 DEF Deadline!ReadEnd
    <3>2. waiter'.endsAt = runningSince + budgetLeft
      BY <3>1 DEF Deadline!TypeOK, Deadline!Waiter
    <3>3. UNCHANGED <<now, budgetLeft, running, runningSince, spent>>
      BY <1>2 DEF Deadline!ReadEnd, Deadline!clock
    <3>4. now >= runningSince + budgetLeft => spent >= Budget
      BY <2>1, DeadlineBounds DEF Deadline!TypeOK, Deadline!Accounting, Deadline!Remaining,
         Deadline!Minus
    <3> QED
      BY <2>1, <3>2, <3>3, <3>4
  <2>2. CASE ~running
    BY <1>2, <2>2 DEF Deadline!ReadEnd, Deadline!TypeOK, Deadline!Waiter
  <2> QED
    BY <2>1, <2>2
<1>3. CASE Deadline!Tick
  <2> SUFFICES ASSUME waiter'.at = "sleeping"
               PROVE  /\ ~waiter'.notified => running' /\ waiter'.endsAt = runningSince' + budgetLeft'
                      /\ now' >= waiter'.endsAt => spent' >= Budget
    OBVIOUS
  <2>1. UNCHANGED <<waiter, budgetLeft, running, runningSince>>
    BY <1>3 DEF Deadline!Tick, Deadline!clock
  <2>2. ~waiter.notified
    BY <1>3, <2>1, Punctual DEF Deadline!Tick
  <2>3. running /\ waiter.endsAt = runningSince + budgetLeft
    BY <2>1, <2>2
  <2>4. now' = now + 1 /\ spent' = spent + 1
    BY <1>3, <2>3 DEF Deadline!Tick, Deadline!TypeOK
  <2>5. now + 1 >= runningSince + budgetLeft => spent + 1 >= Budget
    BY <2>3, DeadlineBounds DEF Deadline!TypeOK, Deadline!Accounting, Deadline!Remaining,
       Deadline!Minus
  <2> QED
    BY <2>1, <2>3, <2>4, <2>5
<1>4. CASE Deadline!Enable \/ Deadline!Expire \/ Deadline!LookAgain
  BY <1>4 DEF Deadline!Enable, Deadline!Expire, Deadline!LookAgain, Deadline!TypeOK, Deadline!Waiter
<1>5. CASE UNCHANGED Deadline!vars
  BY <1>5 DEF Deadline!vars, Deadline!clock
<1> QED
  BY <1>1, <1>2, <1>3, <1>4, <1>5 DEF Deadline!Next

LEMMA NotTooSoonStep ==
  Deadline!TypeOK /\ SleepsLongEnough /\ Deadline!NotTooSoon /\ [Deadline!Next]_Deadline!vars => Deadline!NotTooSoon'
<1> SUFFICES ASSUME Deadline!TypeOK, SleepsLongEnough, Deadline!NotTooSoon, [Deadline!Next]_Deadline!vars,
                    waiter'.at = "expired"
             PROVE  spent' >= Budget
  BY DEF Deadline!NotTooSoon
<1>1. spent' >= spent /\ spent' \in Int /\ spent \in Int
  BY DEF Deadline!TypeOK, Deadline!Next, Deadline!Pause, Deadline!Resume, Deadline!Enable,
         Deadline!ReadEnd, Deadline!Expire, Deadline!LookAgain, Deadline!Tick, Deadline!vars
<1>2. spent >= Budget
  <2>1. CASE waiter.at = "expired"
    BY <2>1 DEF Deadline!NotTooSoon
  <2>2. CASE waiter.at # "expired"
    <3>1. Deadline!Expire
      <4>1. waiter \in Deadline!Waiter
        BY DEF Deadline!TypeOK
      <4>2. ASSUME NEW p \in Prompts, Deadline!Pause(p) \/ Deadline!Resume(p) PROVE FALSE
        BY <2>2, <4>1, <4>2, NotifiedType DEF Deadline!Pause, Deadline!Resume
      <4>3. ~(Deadline!Enable \/ Deadline!ReadEnd \/ Deadline!LookAgain \/ Deadline!Tick \/ UNCHANGED Deadline!vars)
        BY <2>2, <4>1 DEF Deadline!Enable, Deadline!ReadEnd, Deadline!LookAgain, Deadline!Tick,
           Deadline!vars, Deadline!Waiter
      <4> QED
        BY <4>2, <4>3 DEF Deadline!Next
    <3> QED
      BY <3>1 DEF Deadline!Expire, SleepsLongEnough
  <2> QED
    BY <2>1, <2>2
<1> QED
  BY <1>1, <1>2, DeadlineBounds

\* What holds of a deadline, and of a punctual one.
DeadlineInv ==
  /\ Deadline!TypeOK /\ Deadline!Accounting
  /\ Punctual => SleepsLongEnough /\ Deadline!NotTooSoon

LEMMA DeadlineInit == Deadline!Init => DeadlineInv
<1>1. Deadline!Init => SleepsLongEnough /\ Deadline!NotTooSoon
  BY DEF Deadline!Init, SleepsLongEnough, Deadline!NotTooSoon
<1> QED
  BY <1>1, TypeInit, AccountingInit DEF DeadlineInv

LEMMA DeadlineStep == DeadlineInv /\ [Deadline!Next]_Deadline!vars => DeadlineInv'
<1> SUFFICES ASSUME DeadlineInv, [Deadline!Next]_Deadline!vars PROVE DeadlineInv'
  OBVIOUS
<1>1. Deadline!TypeOK' /\ Deadline!Accounting'
  BY TypeStep, AccountingStep DEF DeadlineInv
<1>2. ASSUME Punctual PROVE SleepsLongEnough' /\ Deadline!NotTooSoon'
  BY <1>1, <1>2, SleepStep, NotTooSoonStep DEF DeadlineInv
<1> QED
  BY <1>1, <1>2 DEF DeadlineInv

\* The deadline's own steps and stutters are all that touches it (deadline.rs).
THEOREM DeadlineInvariant == PartSpec => [](part = "deadline" => DeadlineInv)
<1>1. PartInit => (part = "deadline" => DeadlineInv)
  BY DeadlineInit DEF PartInit
<1>2. (part = "deadline" => DeadlineInv) /\ [PartNext]_allVars => (part = "deadline" => DeadlineInv)'
  <2> SUFFICES ASSUME part = "deadline" => DeadlineInv, [PartNext]_allVars, part' = "deadline"
               PROVE  DeadlineInv'
    OBVIOUS
  <2>1. CASE DeadlineRuns /\ Deadline!Next
    BY <2>1, DeadlineStep DEF DeadlineRuns
  <2>2. CASE UNCHANGED allVars
    <3>1. part = "deadline" /\ UNCHANGED deadlineVars
      BY <2>2 DEF allVars, openingVars
    <3>2. UNCHANGED Deadline!vars
      BY <3>1 DEF deadlineVars, Deadline!vars, Deadline!clock
    <3> QED
      BY <3>1, <3>2, DeadlineStep
  <2> QED
    BY <2>1, <2>2
    DEF PartNext, AuthRuns, PromptsRun, StoreRuns, TunnelRuns, RelayRuns, SocksRuns, X11Runs
<1> QED
  BY <1>1, <1>2, PTL DEF PartSpec

\* The time prompts took is not counted, all other time is, for every budget
\* and every pattern of pauses.
THEOREM AccountingHolds == PartSpec => []Accounting
<1>1. (part = "deadline" => DeadlineInv) => Accounting
  BY DEF DeadlineInv, Accounting
<1> QED
  BY <1>1, DeadlineInvariant, PTL

\* A connect is not cut off before it had its whole budget outside of prompts,
\* for every budget and every pattern of pauses, if a woken task runs before
\* time goes on.
THEOREM NeverTooSoon ==
  ASSUME Punctual
  PROVE  PartSpec => []NotTooSoon
<1>1. (part = "deadline" => DeadlineInv) => NotTooSoon
  BY Punctual DEF DeadlineInv, NotTooSoon
<1> QED
  BY <1>1, DeadlineInvariant, PTL

-----------------------------------------------------------------------------
(* Authentication. *)

\* What the saved password was sent for, if it was: one password question, and
\* before any factor was accepted.
SentHome(tries) ==
  \/ tries = <<>>
  \/ \E s : tries = <<s>> /\ s.question = "password" /\ ~s.accepted

\* Nothing was sent before the configured method was tried, nor while the
\* password may still answer: then no factor was accepted either.
PasswordWaits ==
  /\ SentHome(passwordTo)
  /\ step \in {"resolve", "agent", "configured"} => passwordTo = <<>>
  /\ saved => passwordTo = <<>> /\ ~accepted

AuthInv ==
  /\ Auth!TypeOK /\ Auth!SecretFitsMethod /\ Auth!AnswersFit /\ Auth!PromptIsDropped
  /\ PasswordWaits

LEMMA SentOne ==
  ASSUME NEW s, s.question = "password", ~s.accepted
  PROVE  SentHome(Append(<<>>, s))
<1>1. Append(<<>>, s) = <<s>>
  OBVIOUS
<1> QED
  BY <1>1 DEF SentHome

LEMMA HomeStays ==
  ASSUME SentHome(passwordTo)
  PROVE  Auth!PasswordStaysHome
<1>1. CASE passwordTo = <<>>
  BY <1>1 DEF Auth!PasswordStaysHome
<1>2. CASE \E s : passwordTo = <<s>> /\ s.question = "password" /\ ~s.accepted
  <2>1. PICK s : passwordTo = <<s>> /\ s.question = "password" /\ ~s.accepted
    BY <1>2
  <2>2. Len(passwordTo) = 1 /\ DOMAIN passwordTo = {1} /\ passwordTo[1] = s
    BY <2>1
  <2> QED
    BY <2>1, <2>2 DEF Auth!PasswordStaysHome
<1> QED
  BY <1>1, <1>2 DEF SentHome

LEMMA AuthInit ==
  ASSUME Auth!Init
  PROVE  AuthInv
<1>1. Auth!TypeOK
  <2>1. MaxRounds \in Nat /\ MaxPhases \in Nat /\ Agents \in Nat
    BY ConnectionAssumption DEF Auth!AuthConstants
  <2>2. /\ step = "resolve" /\ device \in Auth!Device /\ outcome = "none"
        /\ secret = "none" /\ tried = "none" /\ question = "none"
    BY DEF Auth!Init, Auth!None
  <2>3. result \in Auth!Results
    <3>1. \E p \in BOOLEAN, o \in SUBSET Auth!Offers : result = Auth!Failure(p, o)
      <4>1. result = Auth!Failure(FALSE, {})
        BY DEF Auth!Init
      <4> QED
        BY <4>1
    <3> QED
      BY <3>1 DEF Auth!Results
  <2>4. agents = <<>> /\ Len(agents) = 0
    BY DEF Auth!Init
  <2>5. phases = 0 /\ rounds = 0 /\ answers = 0
    BY DEF Auth!Init
  <2>6. saved \in BOOLEAN /\ accepted \in BOOLEAN /\ shown \in BOOLEAN
    BY DEF Auth!Init
  <2>7. /\ phases \in 0 .. MaxPhases /\ rounds \in 0 .. MaxRounds
        /\ answers \in 0 .. Auth!MaxFields /\ Len(agents) <= Agents
    BY <2>1, <2>4, <2>5 DEF Auth!MaxFields
  <2> QED
    BY <2>2, <2>3, <2>6, <2>7 DEF Auth!TypeOK, Auth!None
<1>2. Auth!SecretFitsMethod /\ Auth!AnswersFit /\ Auth!PromptIsDropped
  BY DEF Auth!Init, Auth!SecretFitsMethod, Auth!AnswersFit, Auth!PromptIsDropped, Auth!None
<1>3. PasswordWaits
  BY DEF Auth!Init, PasswordWaits, SentHome
<1> QED
  BY <1>1, <1>2, <1>3 DEF AuthInv

\* However an authentication ends, nothing is left of its prompt.
Ended == /\ step' = "done" /\ outcome' # "none"
         /\ ~pending' /\ ~onScreen' /\ ~paused' /\ shown' \in BOOLEAN

LEMMA Endings ==
  /\ Auth!End("keyring") => Ended
  /\ Auth!End("no password") => Ended
  /\ Auth!End("no identity") => Ended
  /\ Auth!End("error") => Ended
  /\ Auth!End("ok") => Ended
  /\ Auth!End("failed") => Ended
  /\ Auth!End("flood") => Ended
  /\ Auth!End("kept asking") => Ended
  /\ Auth!End("mismatch") => Ended
  /\ Auth!End("cancelled") => Ended
  /\ Auth!End("unanswered") => Ended
  /\ Auth!End("dropped") => Ended
BY DEF Ended, Auth!End, Auth!DropPrompt

LEMMA EndKeeps ==
  ASSUME AuthInv, Ended,
         UNCHANGED <<device, agents, tried, result, phases, rounds, passwordTo, accepted, saved>>,
         UNCHANGED secret, question' \in Auth!Questions \cup {"none"}, answers' \in 0 .. Auth!MaxFields
  PROVE  AuthInv'
BY DEF AuthInv, Ended, Auth!TypeOK, Auth!SecretFitsMethod, Auth!AnswersFit,
       Auth!PromptIsDropped, PasswordWaits, Auth!None

LEMMA ResolveKeeps ==
  ASSUME AuthInv, Auth!Resolve
  PROVE  AuthInv'
<1>1. /\ UNCHANGED <<device, agents, tried, result, phases, rounds, saved, question, answers>>
      /\ UNCHANGED <<accepted, passwordTo>>
  BY DEF Auth!Resolve, Auth!exchange, Auth!history
<1>2. question \in Auth!Questions \cup {"none"} /\ answers \in 0 .. Auth!MaxFields
  BY DEF AuthInv, Auth!TypeOK, Auth!None
<1>3. CASE (Auth!End("keyring") \/ Auth!End("no password")) /\ UNCHANGED secret
  BY <1>1, <1>2, <1>3, Endings, EndKeeps
<1>4. CASE /\ secret' = IF device.method = "agent" THEN "none" ELSE Auth!SecretOf(device)
           /\ step' = IF device.method = "agent" THEN "agent" ELSE "configured"
           /\ UNCHANGED <<pending, onScreen, shown, paused, outcome>>
  <2>1. device \in Auth!Device
    BY DEF AuthInv, Auth!TypeOK
  <2>2. device.method \in Auth!Methods
    BY <2>1 DEF Auth!Device
  <2>3. Auth!SecretOf(device) \in {"none", device.method}
    BY DEF Auth!SecretOf, Auth!None
  <2>4. secret' \in Auth!Methods \cup {"none"} /\ (secret' # "none" => secret' = device.method)
    BY <1>4, <2>2, <2>3
  <2>5. step = "resolve" /\ step' \in {"agent", "configured"}
    BY <1>4 DEF Auth!Resolve
  <2> QED
    BY <1>1, <1>4, <2>4, <2>5
    DEF AuthInv, Auth!TypeOK, Auth!SecretFitsMethod, Auth!AnswersFit, Auth!PromptIsDropped,
        PasswordWaits, Auth!None
<1> QED
  BY <1>3, <1>4 DEF Auth!Resolve, Auth!prompt, Auth!None

LEMMA FindAgentKeeps ==
  ASSUME AuthInv, Auth!FindAgent
  PROVE  AuthInv'
<1>1. /\ step = "agent"
      /\ \/ step' = "configured" /\ UNCHANGED <<pending, onScreen, shown, paused, outcome>>
         \/ Ended
      /\ UNCHANGED <<device, secret, tried, result, phases, rounds, saved, question, answers>>
      /\ UNCHANGED <<accepted, passwordTo>>
  BY Endings DEF Auth!FindAgent, Auth!exchange, Auth!history, Auth!prompt
<1>2. Len(agents') <= Agents
  <2>1. PICK n \in 0 .. Agents : agents' \in [1 .. n -> {"keys", "empty", "silent"}]
    BY DEF Auth!FindAgent
  <2>2. Agents \in Nat
    BY ConnectionAssumption DEF Auth!AuthConstants
  <2> QED
    BY <2>1, <2>2
<1>3. step' \in {"configured", "done"} /\ (outcome' = "none" <=> step' # "done")
  BY <1>1 DEF AuthInv, Auth!TypeOK, Ended, Auth!None
<1>4. ~(pending' \/ onScreen' \/ paused') /\ shown' \in BOOLEAN
  <2>1. ~(pending \/ onScreen \/ paused) /\ shown \in BOOLEAN
    BY <1>1 DEF AuthInv, Auth!TypeOK, Auth!PromptIsDropped
  <2> QED
    BY <1>1, <2>1 DEF Ended
<1> QED
  BY <1>1, <1>2, <1>3, <1>4
  DEF AuthInv, Auth!TypeOK, Auth!SecretFitsMethod, Auth!AnswersFit, Auth!PromptIsDropped,
      PasswordWaits, Auth!None

LEMMA ConfiguredKeeps ==
  ASSUME AuthInv, Auth!Configured
  PROVE  AuthInv'
<1>1. /\ step = "configured"
      /\ UNCHANGED <<device, secret, agents, phases, rounds, question, answers, passwordTo>>
  BY DEF Auth!Configured, Auth!found
<1>2. question \in Auth!Questions \cup {"none"} /\ answers \in 0 .. Auth!MaxFields
  BY DEF AuthInv, Auth!TypeOK, Auth!None
<1>3. CASE Auth!End("error") /\ UNCHANGED <<result, tried, saved, accepted>>
  BY <1>1, <1>2, <1>3, Endings, EndKeeps
<1>4. CASE /\ \E r \in Auth!Results :
                /\ result' = r /\ accepted' = r.partial
                /\ saved' = (device.method = "password" /\ ~r.partial)
           /\ tried' = Auth!MethodKind
           /\ step' = "verdict" /\ UNCHANGED <<pending, onScreen, shown, paused, outcome>>
  <2>1. PICK r \in Auth!Results :
           /\ result' = r /\ accepted' = r.partial
           /\ saved' = (device.method = "password" /\ ~r.partial)
    BY <1>4
  <2>2. r.partial \in BOOLEAN
    <3>1. Auth!Success.partial \in BOOLEAN
      BY DEF Auth!Success
    <3>2. ASSUME NEW p \in BOOLEAN, NEW o \in SUBSET Auth!Offers
          PROVE  Auth!Failure(p, o).partial \in BOOLEAN
      BY DEF Auth!Failure
    <3> QED
      BY <3>1, <3>2 DEF Auth!Results
  <2>3. accepted' \in BOOLEAN /\ saved' \in BOOLEAN /\ (saved' => ~accepted')
    BY <2>1, <2>2
  <2>4. tried' \in Auth!Offers
    BY <1>4 DEF Auth!MethodKind, Auth!Offers
  <2> QED
    BY <1>1, <1>4, <2>1, <2>3, <2>4
    DEF AuthInv, Auth!TypeOK, Auth!SecretFitsMethod, Auth!AnswersFit, Auth!PromptIsDropped,
        PasswordWaits, Auth!None
<1> QED
  BY <1>3, <1>4 DEF Auth!Configured, Auth!prompt

LEMMA VerdictKeeps ==
  ASSUME AuthInv, Auth!Verdict
  PROVE  AuthInv'
<1>1. /\ step = "verdict"
      /\ UNCHANGED <<device, secret, agents, result, saved, question, answers, accepted, passwordTo>>
  BY DEF Auth!Verdict, Auth!found, Auth!history
<1>2. question \in Auth!Questions \cup {"none"} /\ answers \in 0 .. Auth!MaxFields
  BY DEF AuthInv, Auth!TypeOK, Auth!None
<1>3. CASE phases < MaxPhases /\ Auth!NeedsKbd(result, tried)
  <2>1. /\ step' = "reply" /\ phases' = phases + 1 /\ rounds' = 0 /\ tried' = "kbd"
        /\ UNCHANGED <<pending, onScreen, shown, paused, outcome>>
    BY <1>3 DEF Auth!Verdict, Auth!prompt
  <2>2. phases' \in 0 .. MaxPhases /\ rounds' \in 0 .. MaxRounds /\ tried' \in Auth!Offers
    BY <1>3, <2>1, ConnectionAssumption DEF AuthInv, Auth!TypeOK, Auth!AuthConstants, Auth!Offers
  <2> QED
    BY <1>1, <2>1, <2>2
    DEF AuthInv, Auth!TypeOK, Auth!SecretFitsMethod, Auth!AnswersFit, Auth!PromptIsDropped,
        PasswordWaits, Auth!None
<1>4. CASE ~(phases < MaxPhases /\ Auth!NeedsKbd(result, tried))
  <2>1. /\ Auth!End("ok") \/ Auth!End("failed")
        /\ UNCHANGED <<phases, rounds, tried>>
    BY <1>4 DEF Auth!Verdict
  <2> QED
    BY <1>1, <1>2, <2>1, Endings, EndKeeps
<1> QED
  BY <1>3, <1>4

LEMMA PhaseEndsKeeps ==
  ASSUME AuthInv, Auth!PhaseEnds
  PROVE  AuthInv'
<1>1. /\ step = "reply" /\ step' = "verdict" /\ saved' = FALSE
      /\ UNCHANGED <<device, secret, agents, tried, phases, rounds, question, answers>>
      /\ UNCHANGED <<pending, onScreen, shown, paused, outcome, passwordTo>>
  BY DEF Auth!PhaseEnds, Auth!found, Auth!prompt
<1>2. PICK r \in Auth!Results : result' = r /\ accepted' = (accepted \/ r.partial)
  BY DEF Auth!PhaseEnds
<1>3. result' \in Auth!Results /\ accepted' \in BOOLEAN
  BY <1>2
<1> QED
  BY <1>1, <1>3
  DEF AuthInv, Auth!TypeOK, Auth!SecretFitsMethod, Auth!AnswersFit, Auth!PromptIsDropped,
      PasswordWaits, Auth!None

LEMMA AskedKeeps ==
  ASSUME AuthInv, Auth!Asked
  PROVE  AuthInv'
<1>1. /\ step = "reply" /\ rounds < MaxRounds /\ rounds' = rounds + 1
      /\ UNCHANGED <<device, secret, agents, tried, result, phases, accepted>>
  BY DEF Auth!Asked, Auth!found, Auth!Round
<1>2. rounds' \in 0 .. MaxRounds
  BY <1>1, ConnectionAssumption DEF AuthInv, Auth!TypeOK, Auth!AuthConstants
<1>3. PICK q \in Auth!Questions :
        /\ question' = q
        /\ \/ /\ q = "info"
              /\ step' = "respond" /\ answers' = 0
              /\ UNCHANGED <<saved, passwordTo, pending, onScreen, shown, paused, outcome>>
           \/ Ended /\ UNCHANGED <<answers, saved, passwordTo>>
           \/ /\ saved /\ q = "password"
              /\ step' = "respond" /\ answers' = 1 /\ saved' = FALSE
              /\ passwordTo' = Append(passwordTo, [question |-> q, accepted |-> accepted])
              /\ UNCHANGED <<pending, onScreen, shown, paused, outcome>>
           \/ /\ step' = "asking" /\ shown' = FALSE
              /\ UNCHANGED <<answers, saved, passwordTo, outcome>>
  BY Endings DEF Auth!Asked, Auth!TakesPassword, Auth!prompt
<1>4. CASE /\ q = "info" /\ step' = "respond" /\ answers' = 0
           /\ UNCHANGED <<saved, passwordTo, pending, onScreen, shown, paused, outcome>>
  <2>1. answers' = Auth!Size(question')
    BY <1>3, <1>4 DEF Auth!Size
  <2> QED
    BY <1>1, <1>2, <1>3, <1>4, <2>1
    DEF AuthInv, Auth!TypeOK, Auth!SecretFitsMethod, Auth!AnswersFit, Auth!PromptIsDropped,
        PasswordWaits, Auth!None, Auth!MaxFields
<1>5. CASE Ended /\ UNCHANGED <<answers, saved, passwordTo>>
  BY <1>1, <1>2, <1>3, <1>5
  DEF AuthInv, Ended, Auth!TypeOK, Auth!SecretFitsMethod, Auth!AnswersFit,
      Auth!PromptIsDropped, PasswordWaits, Auth!None
<1>6. CASE /\ saved /\ q = "password"
           /\ step' = "respond" /\ answers' = 1 /\ saved' = FALSE
           /\ passwordTo' = Append(passwordTo, [question |-> q, accepted |-> accepted])
           /\ UNCHANGED <<pending, onScreen, shown, paused, outcome>>
  <2>1. passwordTo = <<>> /\ ~accepted
    BY <1>6 DEF AuthInv, PasswordWaits
  <2>2. SentHome(passwordTo')
    BY <1>6, <2>1, SentOne
  <2>3. answers' = Auth!Size(question')
    BY <1>3, <1>6 DEF Auth!Size
  <2>4. PasswordWaits'
    BY <1>6, <2>2 DEF PasswordWaits
  <2>5. Auth!TypeOK' /\ Auth!SecretFitsMethod'
    <3>1. answers' \in 0 .. Auth!MaxFields
      BY <1>6 DEF Auth!MaxFields
    <3>2. question' \in Auth!Questions
      BY <1>3
    <3>3. saved' \in BOOLEAN /\ step' = "respond" /\ UNCHANGED <<shown, outcome>>
      BY <1>6
    <3> QED
      BY <1>1, <1>2, <3>1, <3>2, <3>3 DEF AuthInv, Auth!TypeOK, Auth!SecretFitsMethod, Auth!None
  <2>6. Auth!AnswersFit' /\ Auth!PromptIsDropped'
    BY <1>1, <1>6, <2>3 DEF AuthInv, Auth!AnswersFit, Auth!PromptIsDropped
  <2> QED
    BY <2>4, <2>5, <2>6 DEF AuthInv
<1>7. CASE /\ step' = "asking" /\ shown' = FALSE
           /\ UNCHANGED <<answers, saved, passwordTo, outcome>>
  BY <1>1, <1>2, <1>3, <1>7
  DEF AuthInv, Auth!TypeOK, Auth!SecretFitsMethod, Auth!AnswersFit, Auth!PromptIsDropped,
      PasswordWaits, Auth!None
<1> QED
  BY <1>3, <1>4, <1>5, <1>6, <1>7

LEMMA AnswerKeeps ==
  ASSUME AuthInv, Auth!Answer
  PROVE  AuthInv'
<1>1. /\ step = "asking"
      /\ UNCHANGED <<device, secret, agents, tried, result, phases, rounds, saved, question>>
      /\ UNCHANGED <<accepted, passwordTo>>
  BY DEF Auth!Answer, Auth!found, Auth!history
<1>2. question \in Auth!Questions \cup {"none"} /\ answers \in 0 .. Auth!MaxFields
  BY DEF AuthInv, Auth!TypeOK, Auth!None
<1>3. CASE Auth!End("cancelled") /\ UNCHANGED answers
  BY <1>1, <1>2, <1>3, Endings, EndKeeps
<1>4. ASSUME NEW n \in 0 .. Auth!MaxFields, Auth!Accept(n) PROVE AuthInv'
  <2>1. CASE n = Auth!Size(question)
    <3>1. /\ step' = "respond" /\ answers' = n /\ UNCHANGED outcome
          /\ ~pending' /\ ~onScreen' /\ ~paused' /\ shown' \in BOOLEAN
      BY <1>4, <2>1 DEF Auth!Accept, Auth!DropPrompt
    <3>2. answers' = Auth!Size(question')
      BY <1>1, <2>1, <3>1
    <3> QED
      BY <1>1, <1>4, <3>1, <3>2
      DEF AuthInv, Auth!TypeOK, Auth!SecretFitsMethod, Auth!AnswersFit, Auth!PromptIsDropped,
          PasswordWaits, Auth!None
  <2>2. CASE n # Auth!Size(question)
    BY <1>1, <1>2, <1>4, <2>2, Endings, EndKeeps DEF Auth!Accept
  <2> QED
    BY <2>1, <2>2
<1> QED
  BY <1>3, <1>4 DEF Auth!Answer

LEMMA OtherAuthSteps ==
  ASSUME AuthInv, \/ Auth!TooManyRounds \/ Auth!RespondKbd \/ Auth!MarkShown \/ Auth!TimeOut
                  \/ Auth!Abandon
  PROVE  AuthInv'
<1>1. /\ UNCHANGED <<device, secret, agents, tried, result, phases, rounds, saved, question, answers>>
      /\ UNCHANGED <<accepted, passwordTo>>
  BY DEF Auth!TooManyRounds, Auth!RespondKbd, Auth!MarkShown, Auth!TimeOut, Auth!Abandon,
         Auth!found, Auth!exchange, Auth!history
<1>2. question \in Auth!Questions \cup {"none"} /\ answers \in 0 .. Auth!MaxFields
  BY DEF AuthInv, Auth!TypeOK, Auth!None
<1>3. CASE Auth!TooManyRounds \/ Auth!TimeOut \/ Auth!Abandon
  <2>1. Auth!End("kept asking") \/ Auth!End("unanswered") \/ Auth!End("dropped")
    BY <1>3 DEF Auth!TooManyRounds, Auth!TimeOut, Auth!PromptTimesOut, Auth!Abandon
  <2> QED
    BY <1>1, <1>2, <2>1, Endings, EndKeeps
<1>4. CASE Auth!RespondKbd
  BY <1>1, <1>4
  DEF Auth!RespondKbd, Auth!prompt, AuthInv, Auth!TypeOK, Auth!SecretFitsMethod, Auth!AnswersFit,
      Auth!PromptIsDropped, PasswordWaits, Auth!None
<1>5. CASE Auth!MarkShown
  BY <1>1, <1>5
  DEF Auth!MarkShown, AuthInv, Auth!TypeOK, Auth!SecretFitsMethod, Auth!AnswersFit,
      Auth!PromptIsDropped, PasswordWaits, Auth!None
<1> QED
  BY <1>3, <1>4, <1>5

LEMMA AuthStep ==
  ASSUME AuthInv, Auth!Next
  PROVE  AuthInv'
<1>1. CASE Auth!Resolve \/ Auth!FindAgent \/ Auth!Verdict
  BY <1>1, ResolveKeeps, FindAgentKeeps, VerdictKeeps
<1>2. CASE Auth!Server
  BY <1>2, ConfiguredKeeps, PhaseEndsKeeps, AskedKeeps DEF Auth!Server
<1>3. CASE Auth!Answer
  BY <1>3, AnswerKeeps
<1> QED
  BY <1>1, <1>2, <1>3, OtherAuthSteps DEF Auth!Next, Auth!Local, Auth!User

\* The bounds of an authentication: it runs as its own specification says.
LEMMA AuthInvariant == PartSpec => [](part = "auth" => AuthInv)
<1>1. PartInit => (part = "auth" => AuthInv)
  BY AuthInit DEF PartInit
<1>2. (part = "auth" => AuthInv) /\ [PartNext]_allVars => (part = "auth" => AuthInv)'
  <2> SUFFICES ASSUME part = "auth" => AuthInv, [PartNext]_allVars, part' = "auth" PROVE AuthInv'
    OBVIOUS
  <2>1. CASE AuthRuns /\ Auth!Next
    BY <2>1, AuthStep DEF AuthRuns
  <2>2. CASE UNCHANGED allVars
    <3>1. part = "auth" /\ UNCHANGED <<authVars, answers, outcome, accepted>>
      BY <2>2 DEF allVars, openingVars
    <3> QED
      BY <3>1
      DEF authVars, AuthInv, Auth!TypeOK, Auth!SecretFitsMethod, Auth!AnswersFit,
          Auth!PromptIsDropped, PasswordWaits
  <2> QED
    BY <2>1, <2>2 DEF PartNext, DeadlineRuns, PromptsRun, StoreRuns, TunnelRuns, RelayRuns,
       SocksRuns, X11Runs
<1> QED
  BY <1>1, <1>2, PTL DEF PartSpec

\* However the server asks and the user answers, the secret found is for the
\* device's method, and the saved password goes out once at most, for a lone
\* password question of a first factor (resolve_test_credentials,
\* is_password_question).
THEOREM SecretsGoHome == PartSpec => []SecretsFit
<1>1. (part = "auth" => AuthInv) => SecretsFit
  BY HomeStays DEF SecretsFit, AuthInv, PasswordWaits
<1> QED
  BY <1>1, AuthInvariant, PTL

\* A round gets as many answers as it asked questions, and no prompt outlives
\* its wait, however that ends (PromptAsker).
THEOREM PromptsArePutAway == PartSpec => []AskedAndPutAway
<1>1. (part = "auth" => AuthInv) => AskedAndPutAway
  BY DEF AskedAndPutAway, AuthInv
<1> QED
  BY <1>1, AuthInvariant, PTL

\* A wrong key ends the authentication, whatever else the server offers: the user
\* is asked nothing (needs_keyboard_interactive).
THEOREM WrongKeysAreFinal == PartSpec => WrongKeyAsksNothing
<1>1. [PartNext]_allVars =>
        [part = "auth" /\ step = "verdict" /\ tried = "publickey"
           /\ "publickey" \in result.offers /\ ~result.partial => step' # "reply"]_allVars
  <2> SUFFICES ASSUME PartNext, part = "auth", step = "verdict", tried = "publickey",
                      "publickey" \in result.offers, ~result.partial, step' = "reply"
               PROVE  FALSE
    OBVIOUS
  <2>1. Auth!Next
    BY DEF PartNext, DeadlineRuns, PromptsRun, StoreRuns, TunnelRuns, RelayRuns, SocksRuns, X11Runs
  <2>2. ~Auth!NeedsKbd(result, tried)
    BY DEF Auth!NeedsKbd
  <2> QED
    BY <2>1, <2>2
    DEF Auth!Next, Auth!Local, Auth!Server, Auth!User, Auth!TimeOut, Auth!Abandon, Auth!Resolve,
        Auth!FindAgent, Auth!Verdict, Auth!TooManyRounds, Auth!RespondKbd, Auth!Configured,
        Auth!PhaseEnds, Auth!Asked, Auth!MarkShown, Auth!Answer, Auth!PromptTimesOut, Auth!End
<1> QED
  BY <1>1, PTL DEF PartSpec, WrongKeyAsksNothing
=============================================================================
