----------------------------- MODULE TrustedHosts ----------------------------
(***************************************************************************)
(* The trusted host keys (known_hosts.rs on atomic_file.rs) of one or more  *)
(* running instances of the program that share one configuration directory. *)
(*                                                                          *)
(* Every instance keeps the file in memory, answers verdicts from there and *)
(* rewrites the whole file with each change.  The config watcher            *)
(* (config_watch.rs) tells each instance of a change of the file; its       *)
(* window (main.ts, ipc/invoke.ts) then has it reloaded, unless it takes     *)
(* the change for the echo of a write of its own.  A file that cannot be    *)
(* parsed is moved aside and replaced by an empty one with a reset mark; one *)
(* that cannot be read is left alone.                                       *)
(***************************************************************************)
EXTENDS Integers, FiniteSets

CONSTANTS
  Instances,   \* running copies of the program
  Hosts,       \* host:port identities
  Keys,        \* fingerprints
  NoKey,       \* no record
  MaxReads,    \* bound: reads of the file under way in one instance
  Limits       \* bounds: how often each kind of event happens

\* What the environment and the users do; each a bounded number of times.
Kinds == {"change", "reload", "fault", "damage", "lock", "restart"}

ASSUME TrustAssumption ==
  /\ NoKey \notin Keys
  /\ MaxReads \in Nat
  /\ Limits \in [Kinds -> Nat]

VARIABLES
  file,       \* known_hosts.json
  locked,     \* reading it fails (an antivirus holds it)
  store,      \* per instance: TrustState
  up,         \* the instances that run
  reads,      \* reads of the file under way
  changed,    \* per instance: a config_changed event is on its way
  echo,       \* per instance: suppressAutoReloadUntil is not over yet
  relied,     \* the hosts the users rely on: trusted, not forgotten, not
              \* given up by dismissing a reset
  accepted,   \* per host: the keys the users accepted since they forgot it
  missed,     \* per instance: its window skipped, or its reload lost, a change
  left        \* what remains of the limits

vars == <<file, locked, store, up, reads, changed, echo, relied, accepted, missed, left>>

Records == [Hosts -> Keys \cup {NoKey}]
NoRecords == [h \in Hosts |-> NoKey]
Recorded(hosts) == {h \in Hosts : hosts[h] # NoKey}

\* The revision a store has that has not read the file.
Unread == -1

\* What a file holds, or a store remembers of it.  rev and tainted are of the
\* model: rev names the content, and tainted says that somebody replaced
\* content it had not read, or lost the mark of a reset.
Content == [hosts : Records, reset : BOOLEAN, rev : Int, tainted : BOOLEAN]

File == [state : {"missing", "damaged", "ok"}, content : Content]
Store == [content : Content, unreadable : BOOLEAN]

Nothing == [hosts |-> NoRecords, reset |-> FALSE, rev |-> 0, tainted |-> FALSE]

NoChange == [kind |-> "none"]
Change ==
  {NoChange} \cup [kind : {"trust"}, host : Hosts, key : Keys]
             \cup [kind : {"forget"}, host : Hosts]

\* A read: why (start-up, reload, or ensure_loaded before a change, which
\* holds the store's lock), how far it came, and what it found.
Read == [inst : Instances, why : {"launch", "reload", "change"},
         phase : {"damaged", "aside", "ready"}, found : Content, change : Change]

TypeOK ==
  /\ file \in File
  /\ locked \in BOOLEAN
  /\ store \in [Instances -> Store]
  /\ up \subseteq Instances
  /\ reads \subseteq Read
  /\ \A i \in Instances : Cardinality({r \in reads : r.inst = i}) <= MaxReads
  /\ changed \in [Instances -> BOOLEAN]
  /\ echo \in [Instances -> BOOLEAN]
  /\ relied \subseteq Hosts
  /\ accepted \in [Hosts -> SUBSET Keys]
  /\ missed \in [Instances -> BOOLEAN]
  /\ left \in [Kinds -> Nat]
  /\ \A i \in Instances : store[i].unreadable => store[i].content.hosts = NoRecords

\* The instances that run have read that there is no file yet.
Init ==
  /\ file = [state |-> "missing", content |-> Nothing]
  /\ locked = FALSE
  /\ store = [i \in Instances |-> [content |-> Nothing, unreadable |-> FALSE]]
  /\ up \in SUBSET Instances
  /\ reads = {}
  /\ changed = [i \in Instances |-> FALSE]
  /\ echo = [i \in Instances |-> FALSE]
  /\ relied = {}
  /\ accepted = [h \in Hosts |-> {}]
  /\ missed = [i \in Instances |-> FALSE]
  /\ left = Limits

Spend(kinds) ==
  /\ \A k \in kinds : left[k] > 0
  /\ left' = [k \in Kinds |-> IF k \in kinds THEN left[k] - 1 ELSE left[k]]

\* A rename onto or away from known_hosts.json wakes every running watcher.
Rename(state, content) ==
  /\ file' = [state |-> state, content |-> [content EXCEPT !.rev = file.content.rev + 1]]
  /\ changed' = [i \in Instances |-> changed[i] \/ i \in up]

\* A change before its write is over holds the store's lock.
LockFree(i) == \A r \in reads : r.inst = i => r.why # "change"

--------------------------------------------------------------------------
(* Verdicts. *)

MayMissHosts(s) == s.content.reset \/ s.unreadable

Verdict(s, h, k) ==
  LET stored == s.content.hosts[h] IN
  IF stored = k THEN "known"
  ELSE IF stored # NoKey THEN "changed"
  ELSE IF MayMissHosts(s) THEN "unverifiable" ELSE "unknown"

--------------------------------------------------------------------------
(* Changes: trust, forget, dismiss_reset. *)

Applied(hosts, change) ==
  [hosts EXCEPT ![change.host] = IF change.kind = "trust" THEN change.key ELSE NoKey]

\* Replacing content one has not seen loses it.  A write of an instance that
\* never read the file is not excused: the store promises there is none.
Written(c) ==
  [c EXCEPT !.rev = file.content.rev + 1,
            !.tainted = IF c.rev \in {Unread, file.content.rev} THEN @ ELSE TRUE]

\* Mutant: forget without persist.
CommitForgetting(i, s, change) ==
  /\ change.kind = "forget" => UNCHANGED file
  /\ change.kind = "trust" => Rename("ok", Written([s.content EXCEPT !.hosts = Applied(@, change)]))
  /\ change.kind = "forget" => UNCHANGED changed
  /\ store' = [store EXCEPT ![i] =
       [s EXCEPT !.content = IF change.kind = "trust" THEN file'.content
                             ELSE [@ EXCEPT !.hosts = Applied(@, change)]]]
  /\ echo' = [echo EXCEPT ![i] = TRUE]
  /\ relied' = (relied \ {change.host}) \cup Recorded(store'[i].content.hosts)
  /\ accepted' = [accepted EXCEPT ![change.host] =
                    IF change.kind = "trust" THEN {change.key} ELSE {}]

\* trust and forget on the state s: memory first, then the file.
Commit(i, s, change) ==
  LET c == [s.content EXCEPT !.hosts = Applied(@, change)]
      h == change.host
  IN \/ /\ change.kind = "forget"
        /\ s.content.hosts[h] = NoKey
        /\ store' = [store EXCEPT ![i] = s]
        /\ echo' = [echo EXCEPT ![i] = TRUE]
        /\ UNCHANGED <<file, changed, relied, accepted>>
     \/ /\ change.kind = "trust" \/ s.content.hosts[h] # NoKey
        /\ Rename("ok", Written(c))
        /\ store' = [store EXCEPT ![i] = [s EXCEPT !.content = Written(c)]]
        /\ echo' = [echo EXCEPT ![i] = TRUE]
        /\ relied' = (relied \ {h}) \cup Recorded(c.hosts)
        /\ accepted' = [accepted EXCEPT ![h] =
                          IF change.kind = "trust" THEN {change.key} ELSE {}]

\* The same, but writing the file fails: memory keeps the change.
CommitUnwritten(i, s, change) ==
  LET h == change.host IN
  /\ change.kind = "trust" \/ s.content.hosts[h] # NoKey
  /\ store' = [store EXCEPT ![i] = [s EXCEPT !.content.hosts = Applied(@, change)]]
  /\ IF change.kind = "trust"
     THEN /\ accepted' = [accepted EXCEPT ![h] = @ \cup {change.key}]
          /\ echo' = [echo EXCEPT ![i] = TRUE]
          /\ UNCHANGED relied
     ELSE /\ relied' = relied \ {h}
          /\ UNCHANGED <<accepted, echo>>
  /\ UNCHANGED <<file, changed>>

\* The user accepts a key, or forgets a host, while the store is loaded.
MakeChange(i, change) ==
  /\ i \in up
  /\ LockFree(i)
  /\ ~store[i].unreadable
  /\ \/ Spend({"change"}) /\ Commit(i, store[i], change)
     \/ Spend({"change", "fault"}) /\ CommitUnwritten(i, store[i], change)
  /\ UNCHANGED <<locked, up, reads, missed>>

\* dismiss_reset: undone if the file cannot be written.  It does not load an
\* unreadable file, which has no reset mark to dismiss.
Dismiss(i) ==
  LET c == [store[i].content EXCEPT !.reset = FALSE] IN
  /\ i \in up
  /\ LockFree(i)
  /\ store[i].content.reset
  /\ \/ /\ Spend({"change"})
        /\ Rename("ok", Written(c))
        /\ store' = [store EXCEPT ![i].content = Written(c)]
        /\ echo' = [echo EXCEPT ![i] = TRUE]
        /\ relied' = Recorded(c.hosts)
     \/ /\ Spend({"change", "fault"})
        /\ UNCHANGED <<file, changed, store, echo, relied>>
  /\ UNCHANGED <<locked, up, reads, accepted, missed>>

--------------------------------------------------------------------------
(* Reading the file: read_from_disk. *)

\* read_with_retries gave up; that there is no file can always be told.
CannotRead == locked /\ file.state # "missing"

\* The read itself.  Content that parses is found in one step (the file is
\* replaced by rename); a missing file whose reset mark is not written yet
\* looks like a fresh start.
StartRead(i, why, change) ==
  /\ ~CannotRead
  /\ Cardinality({r \in reads : r.inst = i}) < MaxReads
  /\ reads' = reads \cup
       {[inst |-> i, why |-> why, change |-> change, found |-> file.content,
         phase |-> IF file.state = "damaged" THEN "damaged" ELSE "ready"]}

\* backup_corrupt: whatever the file holds by now is moved; best effort.
MoveAside(r) ==
  /\ r.phase = "damaged"
  /\ reads' = (reads \ {r}) \cup {[r EXCEPT !.phase = "aside"]}
  /\ \/ /\ file.state # "missing"
        /\ Rename("missing", [Nothing EXCEPT !.tainted = TRUE])
        /\ UNCHANGED left
     \/ /\ file.state = "missing"
        /\ UNCHANGED <<file, changed, left>>
     \/ /\ Spend({"fault"})
        /\ UNCHANGED <<file, changed>>
  /\ UNCHANGED <<locked, store, up, echo, relied, accepted, missed>>

\* Mutant: a damaged file replaced without the mark.
MarkResetUnmarked(r) ==
  LET c == Nothing IN
  /\ r.phase = "aside"
  /\ Rename("ok", c)
  /\ reads' = (reads \ {r}) \cup
       {[r EXCEPT !.phase = "ready", !.found = [c EXCEPT !.rev = file'.content.rev]]}
  /\ UNCHANGED <<locked, store, up, echo, relied, accepted, missed, left>>

\* start_after_reset: an empty map with the mark, written at once; a failed
\* write is logged.
MarkReset(r) ==
  LET c == [Nothing EXCEPT !.reset = TRUE] IN
  /\ r.phase = "aside"
  /\ \/ /\ Rename("ok", c)
        /\ UNCHANGED left
     \/ /\ Spend({"fault"})
        /\ UNCHANGED <<file, changed>>
  /\ reads' = (reads \ {r}) \cup
       {[r EXCEPT !.phase = "ready", !.found = [c EXCEPT !.rev = file'.content.rev]]}
  /\ UNCHANGED <<locked, store, up, echo, relied, accepted, missed>>

\* load: the instance runs from here on, and hears of changes.
FinishLaunch(r) ==
  /\ r.phase = "ready"
  /\ r.why = "launch"
  /\ reads' = reads \ {r}
  /\ up' = up \cup {r.inst}
  /\ store' = [store EXCEPT ![r.inst] = [content |-> r.found, unreadable |-> FALSE]]
  /\ missed' = [missed EXCEPT ![r.inst] = r.found.rev # file.content.rev]
  /\ UNCHANGED <<file, locked, changed, echo, relied, accepted, left>>

\* reload: what was read replaces the memory, whatever happened to it since.
FinishReload(r) ==
  LET i == r.inst IN
  /\ r.phase = "ready"
  /\ r.why = "reload"
  /\ LockFree(i)
  /\ reads' = reads \ {r}
  /\ store' = [store EXCEPT ![i] = [content |-> r.found, unreadable |-> FALSE]]
  /\ missed' = [missed EXCEPT ![i] =
                  IF r.found.rev = file.content.rev THEN FALSE
                  ELSE @ \/ r.found.rev < store[i].content.rev]
  /\ UNCHANGED <<file, locked, up, changed, echo, relied, accepted, left>>

\* ensure_loaded returned: the change is made to what the file holds.
FinishLoadedChange(r) ==
  LET s == [content |-> r.found, unreadable |-> FALSE] IN
  /\ r.phase = "ready"
  /\ r.why = "change"
  /\ reads' = reads \ {r}
  /\ \/ Commit(r.inst, s, r.change) /\ UNCHANGED left
     \/ Spend({"fault"}) /\ CommitUnwritten(r.inst, s, r.change)
  /\ UNCHANGED <<locked, up, missed>>

\* A change to a store whose file could not be read: ensure_loaded reads it
\* first, and refuses the change if that fails again.
ChangeUnreadable(i, change) ==
  /\ i \in up
  /\ LockFree(i)
  /\ store[i].unreadable
  /\ Spend({"change"})
  /\ \/ StartRead(i, "change", change)
     \/ CannotRead /\ UNCHANGED reads
  /\ UNCHANGED <<file, locked, store, up, changed, echo, relied, accepted, missed>>

--------------------------------------------------------------------------
(* Reloads and restarts. *)

\* reload_config: a file that cannot be read leaves the memory as it is.
Reload(i) ==
  \/ /\ StartRead(i, "reload", NoChange)
     /\ UNCHANGED missed
  \/ /\ CannotRead
     /\ missed' = [missed EXCEPT ![i] = TRUE]
     /\ UNCHANGED reads

\* The Reload button.
ClickReload(i) ==
  /\ i \in up
  /\ Spend({"reload"})
  /\ Reload(i)
  /\ UNCHANGED <<file, locked, store, up, changed, echo, relied, accepted>>

\* Mutant: a change heard of while a reload runs is dropped.
ConfigChangedOneReload(i) ==
  /\ changed[i]
  /\ changed' = [changed EXCEPT ![i] = FALSE]
  /\ \/ ~echo[i] /\ (\A r \in reads : r.inst # i) /\ Reload(i)
     \/ ~echo[i] /\ (\E r \in reads : r.inst = i) /\ UNCHANGED <<reads, missed>>
     \/ /\ echo[i]
        /\ missed' = [missed EXCEPT ![i] = @ \/ store[i].content.rev # file.content.rev]
        /\ UNCHANGED reads
  /\ UNCHANGED <<file, locked, store, up, echo, relied, accepted, left>>

\* config_changed, debounced: one event for all the changes so far.
ConfigChanged(i) ==
  /\ changed[i]
  /\ changed' = [changed EXCEPT ![i] = FALSE]
  /\ \/ ~echo[i] /\ Reload(i)
     \/ /\ echo[i]
        /\ missed' = [missed EXCEPT ![i] = @ \/ store[i].content.rev # file.content.rev]
        /\ UNCHANGED reads
  /\ UNCHANGED <<file, locked, store, up, echo, relied, accepted, left>>

\* LOCAL_WRITE_ECHO_MS is over.
EndEcho(i) ==
  /\ echo[i]
  /\ echo' = [echo EXCEPT ![i] = FALSE]
  /\ UNCHANGED <<file, locked, store, up, reads, changed, relied, accepted, missed, left>>

Close(i) ==
  /\ i \in up
  /\ Spend({"restart"})
  /\ up' = up \ {i}
  /\ reads' = {r \in reads : r.inst # i}
  /\ store' = [store EXCEPT ![i] = [content |-> Nothing, unreadable |-> FALSE]]
  /\ changed' = [changed EXCEPT ![i] = FALSE]
  /\ echo' = [echo EXCEPT ![i] = FALSE]
  /\ missed' = [missed EXCEPT ![i] = FALSE]
  /\ UNCHANGED <<file, locked, relied, accepted>>

\* load: reads the file, or starts without it if that fails.
Launch(i) ==
  /\ i \notin up
  /\ \A r \in reads : r.inst # i
  /\ \/ /\ StartRead(i, "launch", NoChange)
        /\ UNCHANGED <<up, store, missed>>
     \/ /\ CannotRead
        /\ up' = up \cup {i}
        /\ store' = [store EXCEPT ![i] =
                       [content |-> [Nothing EXCEPT !.rev = Unread], unreadable |-> TRUE]]
        /\ missed' = [missed EXCEPT ![i] = TRUE]
        /\ UNCHANGED reads
  /\ UNCHANGED <<file, locked, changed, echo, relied, accepted, left>>

--------------------------------------------------------------------------
(* The environment. *)

\* The file's content is destroyed from outside.
Damage ==
  /\ file.state = "ok"
  /\ Spend({"damage"})
  /\ file' = [file EXCEPT !.state = "damaged"]
  /\ changed' = [i \in Instances |-> changed[i] \/ i \in up]
  /\ UNCHANGED <<locked, store, up, reads, echo, relied, accepted, missed>>

Lock ==
  /\ ~locked
  /\ file.state # "missing"
  /\ Spend({"lock"})
  /\ locked' = TRUE
  /\ UNCHANGED <<file, store, up, reads, changed, echo, relied, accepted, missed>>

Unlock ==
  /\ locked
  /\ locked' = FALSE
  /\ UNCHANGED <<file, store, up, reads, changed, echo, relied, accepted, missed, left>>

Changes == Change \ {NoChange}

InstanceStep(i) ==
  \/ \E change \in Changes : MakeChange(i, change)
  \/ \E change \in Changes : ChangeUnreadable(i, change)
  \/ Dismiss(i)
  \/ ClickReload(i)
  \/ ConfigChanged(i)
  \/ EndEcho(i)
  \/ Close(i)
  \/ Launch(i)

ReadStep(r) ==
  MoveAside(r) \/ MarkReset(r) \/ FinishLaunch(r) \/ FinishReload(r) \/ FinishLoadedChange(r)

Next ==
  \/ \E i \in Instances : InstanceStep(i)
  \/ \E r \in reads : ReadStep(r)
  \/ Damage
  \/ Lock
  \/ Unlock

Spec == Init /\ [][Next]_vars

\* A read that started goes on, an event that was sent is delivered, a timer
\* fires.  Nothing is assumed of the users, of launches or of locks.
Fairness ==
  \A i \in Instances :
    /\ WF_vars(ConfigChanged(i))
    /\ WF_vars(EndEcho(i))
    /\ WF_vars(\E r \in reads : r.inst = i /\ ReadStep(r))

LiveSpec == Spec /\ Fairness

--------------------------------------------------------------------------
(* Properties. *)

\* What the instance remembers is what the file holds, and nobody lost part of
\* it by writing over content they had not read; or it knows that it has not
\* read the file.
Current(i) ==
  \/ store[i].unreadable
  \/ ~store[i].content.tainted /\ store[i].content.rev = file.content.rev

\* A host the user relies on is never taken for one met for the first time,
\* however often the file was damaged, locked or not written: the store knows
\* its key, or says it cannot tell (read_from_disk, ensure_loaded, verdict).
LossIsFlagged ==
  \A i \in up : Current(i) =>
    \A h \in relied, k \in Keys : Verdict(store[i], h, k) # "unknown"

\* A connection is only let through without asking for a key the user accepted
\* for that host and has not forgotten (verdict, trust, forget).
KnownWasAccepted ==
  \A i \in up : Current(i) =>
    \A h \in Hosts, k \in Keys : Verdict(store[i], h, k) = "known" => k \in accepted[h]

\* In the end every instance remembers what the file holds, except one that
\* took a change for its own echo, could not read the file, heard nothing while
\* it started, or let an older read win (config_watch.rs, wireConfigReload).
Converges ==
  <>[](\A i \in up : missed[i] \/ store[i].content.rev = file.content.rev)

\* persist's promise that no write drops a newer one from disk: without damage,
\* the file holds every host the user relies on.
TrustStays ==
  \A h \in relied : file.content.hosts[h] # NoKey

\* reload's promise: an instance ends up with what the others trusted or
\* forgot.
FreshDataReached ==
  <>[](\A i \in up : store[i].content.rev = file.content.rev)
=============================================================================
