----------------------------- MODULE MCHostTrust ------------------------------
(***************************************************************************)
(* The trusted hosts and the prompts that lead to them, each checked on    *)
(* its own: `part` says which runs. In "store" one instance of the program *)
(* works on the file, whatever fails; in "shared" two do, with one host to *)
(* trust and little that fails; in "prompts" two connections, one of them  *)
(* through the host of the other as its jump host, reach servers that      *)
(* present either of two keys.                                             *)
(***************************************************************************)
EXTENDS TrustedHosts, TLC

CONSTANTS
  a, b, c1, c2, h1, h2, k1, k2,
  Conns, Route, MaxPrompts          \* of HostPrompts

VARIABLES
  part,
  conn, known, reset, raised, prompt, registry, events, calls,
  queue, current, armed, aim, approved

OneInstance == {a}
TwoInstances == {a, b}
OneHost == {h1}
TwoHosts == {h1, h2}
OneKey == {k1}
TwoKeys == {k1, k2}
TwoConns == {c1, c2}

KeysAlike == Permutations(TwoKeys)

Limit(change, reload, fault, damage, lock, restart) ==
  [k \in Kinds |-> CASE k = "change"  -> change
                     [] k = "reload"  -> reload
                     [] k = "fault"   -> fault
                     [] k = "damage"  -> damage
                     [] k = "lock"    -> lock
                     [] k = "restart" -> restart]

Troubles == Limit(2, 1, 1, 1, 1, 1)
ReloadOnly == Limit(2, 1, 0, 0, 0, 0)
ChangesOnly == Limit(2, 0, 0, 0, 0, 0)

Sharing == Limit(2, 0, 0, 1, 0, 0)

Jumped == [c \in Conns |-> IF c = c1 THEN <<h1, h2>> ELSE <<h1>>]

Ask == INSTANCE HostPrompts

ASSUME PromptsAssumption == Ask!PromptsConstants

askVars == <<conn, known, reset, raised, prompt, registry, events, calls,
             queue, current, armed, aim, approved>>
allVars == <<part, vars, askVars>>

StoreRuns == part \in {"store", "shared"} /\ UNCHANGED <<part, askVars>>
PromptsRun == part = "prompts" /\ UNCHANGED <<part, vars>>

\* The part that does not run stays as it is when the program starts.
PartInit ==
  /\ part \in {"store", "shared", "prompts"} /\ Init /\ Ask!Init
  /\ part # "prompts" => ~reset
  /\ up = IF part = "store" THEN {a} ELSE Instances

\* Bounds: who runs, and what happens, in the two parts of the store.
Within ==
  /\ part = "store" => \A r \in reads' : r.inst = a
  /\ part = "shared" =>
       /\ \A k \in Kinds : Limits[k] - left'[k] <= Sharing[k]
       /\ \A i \in Instances : Cardinality({r \in reads' : r.inst = i}) <= 1
       /\ \A i \in Instances : store'[i].content.hosts[h2] = NoKey

PartNext == (StoreRuns /\ Next /\ Within) \/ (PromptsRun /\ Ask!Next)

PartSpec == PartInit /\ [][PartNext]_allVars

\* One part alone.
StoreSpec == PartInit /\ part = "shared" /\ [][StoreRuns /\ Next]_allVars /\ Fairness
PromptsSpec == PartInit /\ part = "prompts" /\ [][PromptsRun /\ Ask!Next]_allVars

-----------------------------------------------------------------------------
(* The properties of the parts, stated there. Those of TrustedHosts hold of  *)
(* both, for its variables do not move in the other.                         *)

\* A host the user relies on is never taken for one met for the first time,
\* however often the file was damaged, locked or not written (read_from_disk,
\* ensure_loaded, verdict).
NoTrustLost == TypeOK /\ LossIsFlagged

\* Nothing is trusted but what the user clicked Trust for (isSameKey,
\* armTrustLater, await_host_key_decision).
TrustIsMeant == Ask!TypeOK /\ Ask!TrustWasMeant

\* The registry holds exactly the prompts a handler waits on (PromptGuard,
\* respond), and the dialog never asks for what was answered (takeSameKey).
PromptsAreOpen == Ask!RegistryExact /\ Ask!ShownIsUnanswered

\* A changed key gets the dialog's prominent warning.
ChangedIsLoud == Ask!ChangedIsLoud
=============================================================================
