--------------------------- MODULE ConnectDeadline ---------------------------
(***************************************************************************)
(* The overall deadline of one connect (ssh/deadline.rs): a budget that     *)
(* runs, except while a prompt waits for the user, and the task that awaits *)
(* expired() to cut the connect off (within_deadline in ssh/establish.rs).  *)
(*                                                                          *)
(* Time is a counter.  The prompts of both hops of a jumped connect pause    *)
(* the one deadline, so pauses overlap.                                     *)
(***************************************************************************)
EXTENDS Integers, FiniteSets

CONSTANTS
  Budget,    \* the overall establish timeout
  Prompts,   \* who may hold a DeadlinePause
  MaxTime,   \* bound: the end of time
  Punctual   \* a task that was woken runs before time goes on

DeadlineConstants ==
  /\ Budget \in Nat
  /\ IsFiniteSet(Prompts)
  /\ MaxTime \in Nat
  /\ Punctual \in BOOLEAN

VARIABLES
  now,
  budgetLeft,
  running,       \* running_since is not None,
  runningSince,  \* and this is its value
  pauses,
  holders,       \* the prompts whose DeadlinePause is not dropped
  waiter,        \* expired(): where it is, until when it sleeps, whether
                 \* `changed' was notified since it was enabled
  spent          \* for the properties: how long the budget should have run

clock == <<budgetLeft, running, runningSince, pauses>>
vars == <<now, clock, holders, waiter, spent>>

Waiter == [at : {"loop", "enabled", "sleeping", "paused", "expired"},
           endsAt : Int, notified : BOOLEAN]

TypeOK ==
  /\ now \in Nat
  /\ budgetLeft \in Nat
  /\ running \in BOOLEAN
  /\ runningSince \in Nat
  /\ runningSince <= now
  /\ pauses \in Nat
  /\ holders \subseteq Prompts
  /\ pauses = Cardinality(holders)
  /\ running <=> holders = {}
  /\ waiter \in Waiter
  /\ spent \in Nat

Init ==
  /\ now = 0
  /\ budgetLeft = Budget
  /\ running = TRUE
  /\ runningSince = 0
  /\ pauses = 0
  /\ holders = {}
  /\ waiter = [at |-> "loop", endsAt |-> 0, notified |-> FALSE]
  /\ spent = 0

\* Duration::saturating_sub
Minus(a, b) == IF a >= b THEN a - b ELSE 0

\* notify_waiters reaches whoever was enabled before.
Notified ==
  [waiter EXCEPT !.notified = @ \/ waiter.at \in {"enabled", "sleeping", "paused"}]

\* Mutant: the nested pause counts the time again.
PauseAlways(p) ==
  /\ p \notin holders
  /\ holders' = holders \cup {p}
  /\ budgetLeft' = Minus(budgetLeft, now - runningSince)
  /\ running' = FALSE
  /\ pauses' = pauses + 1
  /\ waiter' = Notified
  /\ UNCHANGED <<now, runningSince, spent>>

\* Mutant: a pause does not wake the sleeper.
PauseSilently(p) ==
  /\ p \notin holders
  /\ holders' = holders \cup {p}
  /\ budgetLeft' = IF running THEN Minus(budgetLeft, now - runningSince) ELSE budgetLeft
  /\ running' = FALSE
  /\ pauses' = pauses + 1
  /\ UNCHANGED <<now, runningSince, waiter, spent>>

Pause(p) ==
  /\ p \notin holders
  /\ holders' = holders \cup {p}
  /\ budgetLeft' = IF running THEN Minus(budgetLeft, now - runningSince) ELSE budgetLeft
  /\ running' = FALSE
  /\ pauses' = pauses + 1
  /\ waiter' = Notified
  /\ UNCHANGED <<now, runningSince, spent>>

\* DeadlinePause is dropped.
Resume(p) ==
  /\ p \in holders
  /\ holders' = holders \ {p}
  /\ pauses' = pauses - 1
  /\ running' = (pauses = 1)
  /\ runningSince' = IF pauses = 1 THEN now ELSE runningSince
  /\ waiter' = Notified
  /\ UNCHANGED <<now, budgetLeft, spent>>

--------------------------------------------------------------------------
(* expired() *)

\* Interest in `changed' is registered before the clock is read, so that no
\* change is missed.
Enable ==
  /\ waiter.at = "loop"
  /\ waiter' = [waiter EXCEPT !.at = "enabled", !.notified = FALSE]
  /\ UNCHANGED <<now, clock, holders, spent>>

ReadEnd ==
  /\ waiter.at = "enabled"
  /\ waiter' = IF running
               THEN [waiter EXCEPT !.at = "sleeping", !.endsAt = runningSince + budgetLeft]
               ELSE [waiter EXCEPT !.at = "paused"]
  /\ UNCHANGED <<now, clock, holders, spent>>

\* The sleep is over.  select! takes either of two branches that are ready.
Expire ==
  /\ waiter.at = "sleeping"
  /\ now >= waiter.endsAt
  /\ waiter' = [waiter EXCEPT !.at = "expired"]
  /\ UNCHANGED <<now, clock, holders, spent>>

\* The clock changed: look again.
LookAgain ==
  /\ waiter.at \in {"sleeping", "paused"}
  /\ waiter.notified
  /\ waiter' = [waiter EXCEPT !.at = "loop"]
  /\ UNCHANGED <<now, clock, holders, spent>>

Tick ==
  /\ now < MaxTime
  /\ Punctual => ~(waiter.at \in {"sleeping", "paused"} /\ waiter.notified)
  /\ now' = now + 1
  /\ spent' = IF holders = {} THEN spent + 1 ELSE spent
  /\ UNCHANGED <<clock, holders, waiter>>

Next ==
  \/ \E p \in Prompts : Pause(p) \/ Resume(p)
  \/ Enable
  \/ ReadEnd
  \/ Expire
  \/ LookAgain
  \/ Tick

Spec == Init /\ [][Next]_vars

\* The task runs when it can.  Time goes on; nothing is assumed of prompts.
Fairness == WF_vars(Enable) /\ WF_vars(ReadEnd) /\ WF_vars(Expire) /\ WF_vars(LookAgain)

LiveSpec == Spec /\ Fairness

--------------------------------------------------------------------------
(* Properties. *)

\* What is left of the budget by the clock's own fields.
Remaining == IF running THEN Minus(budgetLeft, now - runningSince) ELSE budgetLeft

\* However pauses nest and follow each other, the time they took is not counted
\* and all other time is (pause, resume).
Accounting == Remaining = Minus(Budget, spent)

\* A user who is still typing does not lose the connection: the deadline only
\* expires once the connect took its whole budget outside of prompts.
NotTooSoon == waiter.at = "expired" => spent >= Budget

\* A host that stalls is cut off: once the budget is used up the connect ends,
\* unless prompts keep pausing it.
OutOfTime == spent >= Budget
CutOff == waiter.at = "expired" \/ holders # {}
Bounded == OutOfTime ~> CutOff
=============================================================================
