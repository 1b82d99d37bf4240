---------------------------- MODULE HostTrustProofs ----------------------------
(***************************************************************************)
(* Theorems about TrustedHosts and HostPrompts, for any number of running   *)
(* instances, connections, hosts and keys, however often the file is        *)
(* damaged, locked or not written, and however clicks, timeouts and answers *)
(* race: a store that is up to date lets only accepted keys through and     *)
(* takes no host it was told of for a new one, and nothing is accepted that *)
(* the user did not mean. They are stated of the parts MCHostTrust runs,    *)
(* whatever their bounds.                                                   *)
(***************************************************************************)
EXTENDS MCHostTrust, Sequences, FiniteSetTheorems, ListFacts, TLAPS

\* The types the proofs need; what is bounded for TLC is left out. Nobody relies
\* on a file that was never written.
StateOK ==
  /\ file \in File /\ file.content.rev \in Nat
  /\ store \in [Instances -> Store]
  /\ reads \subseteq Read
  /\ accepted \in [Hosts -> SUBSET Keys]
  /\ relied \subseteq Hosts
  /\ file.content.rev = 0 => relied = {}

\* What a copy of the trusted hosts is worth when the file is at revision rev:
\* the newest one, with nothing lost in it, holds only accepted keys and all that
\* the users rely on, or the mark of a reset.
Sound(c, rev, acc, rel) ==
  /\ c.rev <= rev
  /\ c.rev = rev /\ ~c.tainted =>
       /\ \A h \in Hosts : c.hosts[h] # NoKey => c.hosts[h] \in acc[h]
       /\ c.reset \/ rel \subseteq Recorded(c.hosts)

Kept(c) == Sound(c, file.content.rev, accepted, relied)

\* A store that never read the file remembers nothing.
IsUnread(st) ==
  /\ st.content.rev = Unread => st.unreadable
  /\ st.unreadable => /\ st.content.rev = Unread /\ st.content.hosts = NoRecords
                      /\ ~st.content.reset

UnreadIsEmpty == \A i \in Instances : IsUnread(store[i])

\* Reads find what a file held, and those for a change have one to make.
ReadsOK ==
  \A r \in reads : r.found.rev \in Nat /\ (r.why = "change" => r.change \in Changes)

TrustInv ==
  /\ StateOK /\ UnreadIsEmpty /\ ReadsOK
  /\ Kept(file.content)
  /\ \A i \in Instances : Kept(store[i].content)
  /\ \A r \in reads : Kept(r.found)

\* A memory that may replace another one while the file stays as it is.
Replaces(st) ==
  /\ st \in Store /\ Kept(st.content)
  /\ IsUnread(st)

\* A read that may go on.
MayRead(r) ==
  /\ r \in Read /\ Kept(r.found) /\ r.found.rev \in Nat
  /\ r.why = "change" => r.change \in Changes

-----------------------------------------------------------------------------
(* Copies and their worth. *)

LEMMA NothingIsSound ==
  ASSUME TrustAssumption
  PROVE  /\ Nothing \in Content /\ Nothing.rev = 0 /\ ~Nothing.tainted /\ ~Nothing.reset
         /\ Nothing.hosts = NoRecords
         /\ \A h \in Hosts : NoRecords[h] = NoKey
BY DEF Nothing, Content, NoRecords, Records

\* With the next revision, every copy made so far is out of date.
LEMMA Older ==
  ASSUME NEW c \in Content, NEW rev \in Nat, NEW acc, NEW rel, Sound(c, rev, acc, rel),
         NEW acc2, NEW rel2
  PROVE  Sound(c, rev + 1, acc2, rel2)
BY DEF Sound, Content

\* Accepting more, or relying on less, keeps a copy sound.
LEMMA MoreAccepted ==
  ASSUME NEW c, NEW rev, NEW acc, NEW rel, Sound(c, rev, acc, rel),
         NEW acc2, \A h \in Hosts : acc[h] \subseteq acc2[h],
         NEW rel2, rel2 \subseteq rel
  PROVE  Sound(c, rev, acc2, rel2)
BY DEF Sound

\* What is written has the next revision; it is untainted only if it continues
\* what the file holds.
LEMMA WrittenIs ==
  ASSUME StateOK, NEW c \in Content
  PROVE  /\ Written(c) \in Content
         /\ Written(c).hosts = c.hosts /\ Written(c).reset = c.reset
         /\ Written(c).rev = file.content.rev + 1
         /\ ~Written(c).tainted => ~c.tainted /\ (c.rev = Unread \/ c.rev = file.content.rev)
<1> DEFINE t == IF c.rev \in {Unread, file.content.rev} THEN c.tainted ELSE TRUE
           r == file.content.rev + 1
<1>1. t \in BOOLEAN
  BY DEF Content
<1>2. r \in Int
  BY DEF StateOK, File
<1>3. Written(c) = [c EXCEPT !.rev = r, !.tainted = t]
  BY DEF Written
<1>4. ~t => ~c.tainted /\ c.rev \in {Unread, file.content.rev}
  OBVIOUS
<1> HIDE DEF t
<1>5. Written(c) \in Content
  BY <1>1, <1>2, <1>3 DEF Content
<1>6. Written(c).hosts = c.hosts /\ Written(c).reset = c.reset /\ Written(c).rev = r
  BY <1>3 DEF Content
<1>7. Written(c).tainted = t
  BY <1>3 DEF Content
<1> QED
  BY <1>4, <1>5, <1>6, <1>7

LEMMA ChangeIs ==
  ASSUME TrustAssumption, NEW change \in Changes
  PROVE  /\ change.host \in Hosts /\ change.kind \in {"trust", "forget"}
         /\ change.kind = "trust" => change.key \in Keys /\ change.key # NoKey
BY DEF Changes, Change, NoChange, TrustAssumption

LEMMA AppliedIs ==
  ASSUME TrustAssumption, NEW hosts \in Records, NEW change \in Changes
  PROVE  /\ change.host \in Hosts /\ change.kind \in {"trust", "forget"}
         /\ change.kind = "trust" => change.key \in Keys /\ change.key # NoKey
         /\ Applied(hosts, change) \in Records
         /\ \A h \in Hosts \ {change.host} : Applied(hosts, change)[h] = hosts[h]
         /\ Applied(hosts, change)[change.host] = IF change.kind = "trust" THEN change.key ELSE NoKey
BY ChangeIs DEF Applied, Records

-----------------------------------------------------------------------------
(* A change, in memory and written. *)

\* A copy that is changed and written is sound, as the users now see it.
LEMMA ChangedIsSound ==
  ASSUME TrustAssumption, StateOK, NEW c \in Content, Kept(c), c.rev # Unread,
         NEW change \in Changes,
         NEW acc, acc = [accepted EXCEPT ![change.host] =
                           IF change.kind = "trust" THEN {change.key} ELSE {}],
         NEW d, d = Written([c EXCEPT !.hosts = Applied(@, change)]),
         NEW rel, rel = (relied \ {change.host}) \cup Recorded(d.hosts)
  PROVE  d \in Content /\ Sound(d, file.content.rev + 1, acc, rel)
<1> DEFINE base == [c EXCEPT !.hosts = Applied(@, change)]
           h == change.host
<1>1. /\ base \in Content /\ base.hosts = Applied(c.hosts, change)
      /\ base.rev = c.rev /\ base.tainted = c.tainted /\ base.reset = c.reset
  BY AppliedIs DEF Content
<1>2. /\ d \in Content /\ d.hosts = Applied(c.hosts, change) /\ d.reset = c.reset
      /\ d.rev = file.content.rev + 1
      /\ ~d.tainted => ~c.tainted /\ c.rev = file.content.rev
  BY <1>1, WrittenIs
<1>3. c.hosts \in Records
  BY DEF Content
<1>4. ASSUME ~d.tainted, NEW g \in Hosts, d.hosts[g] # NoKey
      PROVE  d.hosts[g] \in acc[g]
  <2>1. CASE g = h
    BY <1>2, <1>3, <1>4, <2>1, AppliedIs DEF StateOK, File
  <2>2. CASE g # h
    BY <1>2, <1>3, <1>4, <2>2, AppliedIs DEF StateOK, File, Kept, Sound
  <2> QED
    BY <2>1, <2>2
<1>5. ASSUME ~d.tainted, ~d.reset
      PROVE  rel \subseteq Recorded(d.hosts)
  <2>1. relied \subseteq Recorded(c.hosts)
    BY <1>2, <1>5 DEF Kept, Sound
  <2>2. relied \ {h} \subseteq Recorded(d.hosts)
    BY <1>2, <1>3, <2>1, AppliedIs DEF Recorded
  <2> QED
    BY <2>2
<1>6. d.rev <= file.content.rev + 1
  BY <1>2 DEF StateOK, File
<1> QED
  BY <1>2, <1>4, <1>5, <1>6 DEF Sound

\* Changed in memory only: another key may be accepted, or a host given up.
LEMMA UnwrittenIsSound ==
  ASSUME TrustAssumption, StateOK, NEW c \in Content, Kept(c), NEW change \in Changes,
         NEW acc, acc = IF change.kind = "trust"
                        THEN [accepted EXCEPT ![change.host] = @ \cup {change.key}] ELSE accepted,
         NEW rel, rel = IF change.kind = "trust" THEN relied ELSE relied \ {change.host},
         NEW d, d = [c EXCEPT !.hosts = Applied(@, change)]
  PROVE  d \in Content /\ Sound(d, file.content.rev, acc, rel)
<1> DEFINE h == change.host
<1>1. /\ d \in Content /\ d.hosts = Applied(c.hosts, change) /\ d.reset = c.reset
      /\ d.rev = c.rev /\ d.tainted = c.tainted
  BY AppliedIs DEF Content
<1>2. c.hosts \in Records
  BY DEF Content
<1>3. ASSUME c.rev = file.content.rev, ~c.tainted, NEW g \in Hosts, d.hosts[g] # NoKey
      PROVE  d.hosts[g] \in acc[g]
  <2>1. CASE g = h
    BY <1>1, <1>2, <1>3, <2>1, AppliedIs DEF StateOK, File
  <2>2. CASE g # h
    BY <1>1, <1>2, <1>3, <2>2, AppliedIs DEF StateOK, File, Kept, Sound
  <2> QED
    BY <2>1, <2>2
<1>4. ASSUME c.rev = file.content.rev, ~c.tainted, ~c.reset
      PROVE  rel \subseteq Recorded(d.hosts)
  <2>1. relied \subseteq Recorded(c.hosts)
    BY <1>4 DEF Kept, Sound
  <2>2. \A g \in relied \ {h} : d.hosts[g] # NoKey
    BY <1>1, <1>2, <2>1, AppliedIs DEF Recorded
  <2>3. change.kind = "trust" => d.hosts[h] # NoKey
    BY <1>1, <1>2, AppliedIs
  <2> QED
    BY <2>2, <2>3 DEF Recorded, StateOK
<1>5. c.rev <= file.content.rev
  BY DEF Kept, Sound
<1> QED
  BY <1>1, <1>3, <1>4, <1>5 DEF Sound

LEMMA DismissedIsSound ==
  ASSUME TrustAssumption, StateOK, NEW c \in Content, Kept(c), c.rev # Unread,
         NEW d, d = Written([c EXCEPT !.reset = FALSE])
  PROVE  d \in Content /\ Sound(d, file.content.rev + 1, accepted, Recorded(c.hosts))
<1> DEFINE base == [c EXCEPT !.reset = FALSE]
<1>1. base \in Content /\ base.hosts = c.hosts /\ base.rev = c.rev /\ base.tainted = c.tainted
  BY DEF Content
<1>2. /\ d \in Content /\ d.hosts = c.hosts
      /\ d.rev = file.content.rev + 1
      /\ ~d.tainted => ~c.tainted /\ c.rev = file.content.rev
  BY <1>1, WrittenIs
<1>3. d.rev <= file.content.rev + 1
  BY <1>2 DEF StateOK, File
<1> QED
  BY <1>2, <1>3 DEF Kept, Sound

\* A rename makes every copy but the renamed one out of date.
LEMMA RenameOutdates ==
  ASSUME TrustInv, NEW d \in Content, d.rev = file.content.rev + 1,
         NEW state \in {"missing", "ok"}, Rename(state, d)
  PROVE  /\ file'.content = d /\ file'.content.rev = file.content.rev + 1
         /\ file'.content.rev \in Nat /\ file' \in File
         /\ \A i \in Instances : Sound(store[i].content, file'.content.rev, accepted', relied')
         /\ \A r \in reads : Sound(r.found, file'.content.rev, accepted', relied')
<1>1. [d EXCEPT !.rev = file.content.rev + 1] = d
  BY DEF Content
<1>2. file'.content = d /\ file' \in File
  BY <1>1 DEF Rename, File
<1>3. file.content.rev \in Nat
  BY DEF TrustInv, StateOK, File
<1>4. ASSUME NEW i \in Instances
      PROVE  Sound(store[i].content, file.content.rev + 1, accepted', relied')
  <2>1. store[i].content \in Content /\ Sound(store[i].content, file.content.rev, accepted, relied)
    BY DEF TrustInv, StateOK, File, Store, Kept
  <2> QED
    BY <1>3, <2>1, Older
<1>5. ASSUME NEW r \in reads
      PROVE  Sound(r.found, file.content.rev + 1, accepted', relied')
  <2>1. r.found \in Content /\ Sound(r.found, file.content.rev, accepted, relied)
    BY DEF TrustInv, StateOK, File, Read, Kept
  <2> QED
    BY <1>3, <2>1, Older
<1> QED
  BY <1>2, <1>3, <1>4, <1>5

LEMMA OldIsFine ==
  ASSUME TrustInv
  PROVE  (\A i \in Instances : Replaces(store[i])) /\ (\A r \in reads : MayRead(r))
BY DEF TrustInv, StateOK, File, UnreadIsEmpty, ReadsOK, Replaces, MayRead

LEMMA FileUntouchedKeeps ==
  ASSUME TrustInv, UNCHANGED <<file, accepted, relied>>,
         store' \in [Instances -> Store], \A i \in Instances : Replaces(store'[i]),
         \A r \in reads' : MayRead(r)
  PROVE  TrustInv'
<1>1. StateOK'
  BY DEF TrustInv, StateOK, File, MayRead
<1>2. UnreadIsEmpty' /\ ReadsOK'
  BY DEF UnreadIsEmpty, ReadsOK, Replaces, MayRead
<1>3. \A i \in Instances : Sound(store'[i].content, file'.content.rev, accepted', relied')
  BY DEF Replaces, IsUnread, Kept
<1>4. \A r \in reads' : Sound(r.found, file'.content.rev, accepted', relied')
  BY DEF MayRead, Kept
<1> QED
  BY <1>1, <1>2, <1>3, <1>4 DEF TrustInv, Kept

\* A change made to the state s, the instance's own or the one just read.
LEMMA CommitKeeps ==
  ASSUME TrustAssumption, TrustInv, NEW i \in Instances, NEW s \in Store,
         Replaces(s), ~s.unreadable, NEW change \in Changes,
         reads' \subseteq reads, Commit(i, s, change)
  PROVE  TrustInv'
<1> DEFINE d == Written([s.content EXCEPT !.hosts = Applied(@, change)])
<1>0. StateOK /\ s.content \in Content /\ Kept(s.content) /\ s.content.rev # Unread
  BY DEF TrustInv, Store, Replaces, IsUnread
<1>1. CASE UNCHANGED <<file, relied, accepted>> /\ store' = [store EXCEPT ![i] = s]
  <2>1. store' \in [Instances -> Store] /\ \A j \in Instances : store'[j] \in {store[j], s}
    BY <1>0, <1>1 DEF StateOK
  <2>2. \A j \in Instances : Replaces(store'[j])
    BY <2>1, OldIsFine
  <2>3. \A r \in reads' : MayRead(r)
    BY OldIsFine
  <2> QED
    BY <1>1, <2>1, <2>2, <2>3, FileUntouchedKeeps
<1>2. CASE /\ Rename("ok", d)
           /\ store' = [store EXCEPT ![i] = [s EXCEPT !.content = d]]
           /\ relied' = (relied \ {change.host}) \cup Recorded(d.hosts)
           /\ accepted' = [accepted EXCEPT ![change.host] =
                             IF change.kind = "trust" THEN {change.key} ELSE {}]
  <2>1. d \in Content /\ Sound(d, file.content.rev + 1, accepted', relied')
    BY <1>0, <1>2, ChangedIsSound
  <2>2. d.rev = file.content.rev + 1
    <3>1. [s.content EXCEPT !.hosts = Applied(@, change)] \in Content
      BY <1>0, AppliedIs DEF Content
    <3> QED
      BY <1>0, <3>1, WrittenIs
  <2> HIDE DEF d
  <2>3. /\ file'.content = d /\ file'.content.rev = file.content.rev + 1
        /\ file'.content.rev \in Nat /\ file' \in File
        /\ \A j \in Instances : Sound(store[j].content, file'.content.rev, accepted', relied')
        /\ \A r \in reads : Sound(r.found, file'.content.rev, accepted', relied')
    BY <1>2, <2>1, <2>2, RenameOutdates
  <2>4. store' \in [Instances -> Store] /\ store'[i].content = d /\ ~store'[i].unreadable
        /\ \A j \in Instances \ {i} : store'[j] = store[j]
    BY <1>0, <1>2, <2>1 DEF StateOK, Store
  <2>5. accepted' \in [Hosts -> SUBSET Keys] /\ relied' \subseteq Hosts
    <3>1. accepted \in [Hosts -> SUBSET Keys] /\ relied \subseteq Hosts
      BY <1>0 DEF StateOK, File
    <3>2. (IF change.kind = "trust" THEN {change.key} ELSE {}) \in SUBSET Keys
      BY ChangeIs
    <3> QED
      BY <1>2, <3>1, <3>2 DEF Recorded
  <2>6. StateOK'
    BY <1>0, <2>1, <2>3, <2>4, <2>5 DEF StateOK, File
  <2>7. UnreadIsEmpty'
    BY <2>2, <2>3, <2>4 DEF TrustInv, UnreadIsEmpty, IsUnread, Unread
  <2>8. ReadsOK'
    BY DEF TrustInv, ReadsOK
  <2> QED
    BY <2>1, <2>3, <2>4, <2>6, <2>7, <2>8 DEF TrustInv, Kept
<1>3. Applied(s.content.hosts, change) \in Records /\ d.hosts = Applied(s.content.hosts, change)
  <2>1. [s.content EXCEPT !.hosts = Applied(@, change)] \in Content
    BY <1>0, AppliedIs DEF Content
  <2> QED
    BY <1>0, <2>1, AppliedIs, WrittenIs DEF Content
<1> QED
  BY <1>1, <1>2, <1>3 DEF Commit

LEMMA CommitUnwrittenKeeps ==
  ASSUME TrustAssumption, TrustInv, NEW i \in Instances, NEW s \in Store,
         Replaces(s), ~s.unreadable, NEW change \in Changes,
         reads' \subseteq reads, CommitUnwritten(i, s, change)
  PROVE  TrustInv'
<1> DEFINE d == [s.content EXCEPT !.hosts = Applied(@, change)]
<1>0. StateOK /\ s.content \in Content /\ Kept(s.content) /\ s.content.rev # Unread
  BY DEF TrustInv, Store, Replaces, IsUnread
<1>1. /\ store' = [store EXCEPT ![i] = [s EXCEPT !.content = d]]
      /\ accepted' = IF change.kind = "trust"
                     THEN [accepted EXCEPT ![change.host] = @ \cup {change.key}] ELSE accepted
      /\ relied' = IF change.kind = "trust" THEN relied ELSE relied \ {change.host}
      /\ UNCHANGED file
  BY <1>0 DEF CommitUnwritten, Store
<1>2. d \in Content /\ Sound(d, file.content.rev, accepted', relied')
  BY <1>0, <1>1, UnwrittenIsSound
<1>3. d.rev = s.content.rev
  BY <1>0, AppliedIs DEF Content
<1> HIDE DEF d
<1>4. /\ accepted' \in [Hosts -> SUBSET Keys] /\ relied' \subseteq relied
      /\ \A h \in Hosts : accepted[h] \subseteq accepted'[h]
  <2>1. accepted \in [Hosts -> SUBSET Keys]
    BY <1>0 DEF StateOK, File
  <2>2. CASE change.kind = "trust"
    <3>1. change.key \in Keys /\ accepted' = [accepted EXCEPT ![change.host] = @ \cup {change.key}]
      BY <1>1, <2>2, ChangeIs
    <3> QED
      BY <1>1, <2>1, <2>2, <3>1
  <2>3. CASE change.kind # "trust"
    BY <1>1, <2>1, <2>3
  <2> QED
    BY <2>2, <2>3
<1>5. ASSUME NEW c, Kept(c) PROVE Sound(c, file'.content.rev, accepted', relied')
  BY <1>1, <1>4, <1>5, MoreAccepted DEF Kept
<1>6. store' \in [Instances -> Store] /\ store'[i].content = d /\ ~store'[i].unreadable
      /\ \A j \in Instances \ {i} : store'[j] = store[j]
  BY <1>0, <1>1, <1>2 DEF StateOK, File, Store
<1>7. StateOK'
  BY <1>0, <1>1, <1>4, <1>6 DEF StateOK, File
<1>8. UnreadIsEmpty' /\ ReadsOK'
  BY <1>0, <1>3, <1>6 DEF TrustInv, UnreadIsEmpty, IsUnread, ReadsOK
<1> QED
  BY <1>1, <1>2, <1>5, <1>6, <1>7, <1>8 DEF TrustInv, Kept

-----------------------------------------------------------------------------
(* Reading, and what leaves the file alone. *)

LEMMA StartReadKeeps ==
  ASSUME TrustInv, NEW i \in Instances, NEW why \in {"launch", "reload", "change"},
         NEW change \in Change, why = "change" => change \in Changes,
         UNCHANGED <<file, accepted, relied, store>>, StartRead(i, why, change)
  PROVE  TrustInv'
<1> DEFINE r == [inst |-> i, why |-> why, change |-> change, found |-> file.content,
                 phase |-> IF file.state = "damaged" THEN "damaged" ELSE "ready"]
<1>1. reads' = reads \cup {r}
  BY DEF StartRead
<1>2. MayRead(r)
  BY DEF MayRead, Read, TrustInv, StateOK, File
<1> HIDE DEF r
<1>3. store' \in [Instances -> Store]
  BY DEF TrustInv, StateOK, File
<1> QED
  BY <1>1, <1>2, <1>3, OldIsFine, FileUntouchedKeeps

\* Nothing of the trusted hosts changes, or reads are given up.
LEMMA QuietKeeps ==
  ASSUME TrustInv, UNCHANGED <<file, accepted, relied, store>>, reads' \subseteq reads
  PROVE  TrustInv'
<1>1. store' \in [Instances -> Store]
  BY DEF TrustInv, StateOK, File
<1> QED
  BY <1>1, OldIsFine, FileUntouchedKeeps

\* An instance's memory is replaced.
LEMMA ReplaceKeeps ==
  ASSUME TrustInv, UNCHANGED <<file, accepted, relied>>, reads' \subseteq reads,
         NEW i \in Instances, NEW st, Replaces(st), store' = [store EXCEPT ![i] = st]
  PROVE  TrustInv'
<1>1. store \in [Instances -> Store] /\ st \in Store
  BY DEF TrustInv, StateOK, File, Replaces, IsUnread
<1>2. store' \in [Instances -> Store] /\ \A j \in Instances : store'[j] \in {store[j], st}
  BY <1>1
<1> QED
  BY <1>2, OldIsFine, FileUntouchedKeeps

-----------------------------------------------------------------------------
(* The steps. *)

LEMMA ChangeSteps ==
  ASSUME TrustAssumption, TrustInv, NEW i \in Instances, NEW change \in Changes,
         MakeChange(i, change) \/ ChangeUnreadable(i, change)
  PROVE  TrustInv'
<1>1. CASE MakeChange(i, change)
  <2>1. store[i] \in Store /\ Replaces(store[i]) /\ ~store[i].unreadable
    BY <1>1, OldIsFine DEF MakeChange, TrustInv, StateOK
  <2>2. Commit(i, store[i], change) \/ CommitUnwritten(i, store[i], change)
    BY <1>1 DEF MakeChange
  <2>3. reads' \subseteq reads
    BY <1>1 DEF MakeChange
  <2> QED
    BY <2>1, <2>2, <2>3, CommitKeeps, CommitUnwrittenKeeps
<1>2. CASE ChangeUnreadable(i, change)
  <2>1. UNCHANGED <<file, accepted, relied, store>>
    BY <1>2 DEF ChangeUnreadable
  <2>2. StartRead(i, "change", change) \/ UNCHANGED reads
    BY <1>2 DEF ChangeUnreadable
  <2>3. change \in Change
    BY DEF Changes
  <2> QED
    BY <2>1, <2>2, <2>3, StartReadKeeps, QuietKeeps
<1> QED
  BY <1>1, <1>2

LEMMA DismissStep ==
  ASSUME TrustAssumption, TrustInv, NEW i \in Instances, Dismiss(i)
  PROVE  TrustInv'
<1> DEFINE c == store[i].content
           d == Written([c EXCEPT !.reset = FALSE])
<1>0. StateOK /\ c \in Content /\ Kept(c) /\ c.rev # Unread /\ ~store[i].unreadable
  BY DEF Dismiss, TrustInv, StateOK, File, Store, UnreadIsEmpty, IsUnread
<1>1. CASE UNCHANGED <<file, store, relied>>
  BY <1>1, QuietKeeps DEF Dismiss
<1>2. CASE /\ Rename("ok", d)
           /\ store' = [store EXCEPT ![i].content = d]
           /\ relied' = Recorded(c.hosts)
  <2>1. [c EXCEPT !.reset = FALSE] \in Content /\ [c EXCEPT !.reset = FALSE].hosts = c.hosts
    BY <1>0 DEF Content
  <2>2. d.rev = file.content.rev + 1 /\ d.hosts = c.hosts
    BY <1>0, <2>1, WrittenIs
  <2>3. UNCHANGED <<accepted, reads>>
    BY DEF Dismiss
  <2>4. d \in Content /\ Sound(d, file.content.rev + 1, accepted', relied')
    BY <1>0, <1>2, <2>3, DismissedIsSound
  <2> HIDE DEF d
  <2>5. /\ file'.content = d /\ file'.content.rev = file.content.rev + 1
        /\ file'.content.rev \in Nat /\ file' \in File
        /\ \A j \in Instances : Sound(store[j].content, file'.content.rev, accepted', relied')
        /\ \A r \in reads : Sound(r.found, file'.content.rev, accepted', relied')
    BY <1>2, <2>2, <2>4, RenameOutdates
  <2>6. store' \in [Instances -> Store] /\ store'[i].content = d /\ ~store'[i].unreadable
        /\ \A j \in Instances \ {i} : store'[j] = store[j]
    BY <1>0, <1>2, <2>4 DEF StateOK, Store
  <2>7. StateOK'
    BY <1>0, <1>2, <2>3, <2>4, <2>5, <2>6 DEF StateOK, File, Recorded
  <2>8. UnreadIsEmpty' /\ ReadsOK'
    BY <2>2, <2>3, <2>5, <2>6 DEF TrustInv, UnreadIsEmpty, IsUnread, ReadsOK, Unread
  <2> QED
    BY <2>3, <2>4, <2>5, <2>6, <2>7, <2>8 DEF TrustInv, Kept
<1>3. Recorded([c EXCEPT !.reset = FALSE].hosts) = Recorded(c.hosts)
  BY <1>0 DEF Content
<1> QED
  BY <1>1, <1>2, <1>3 DEF Dismiss

\* A file moved aside or begun anew, and the read that did it.
LEMMA RenameRevises ==
  ASSUME StateOK, NEW c \in Content, NEW state, Rename(state, c),
         NEW d, d = [c EXCEPT !.rev = file.content.rev + 1]
  PROVE  /\ Rename(state, d) /\ d \in Content /\ d.rev = file.content.rev + 1
         /\ d.hosts = c.hosts /\ d.reset = c.reset /\ d.tainted = c.tainted
<1>1. file.content.rev + 1 \in Int
  BY DEF StateOK, File
<1>2. d \in Content /\ d.rev = file.content.rev + 1
      /\ d.hosts = c.hosts /\ d.reset = c.reset /\ d.tainted = c.tainted
  BY <1>1 DEF Content
<1>3. [d EXCEPT !.rev = file.content.rev + 1] = d
  BY <1>2 DEF Content
<1> QED
  BY <1>2, <1>3 DEF Rename

LEMMA RenamingReadKeeps ==
  ASSUME TrustInv, NEW d \in Content, d.rev = file.content.rev + 1,
         NEW state \in {"missing", "ok"}, Rename(state, d),
         Sound(d, file.content.rev + 1, accepted, relied),
         UNCHANGED <<store, accepted, relied>>,
         NEW r \in reads, NEW r2 \in Read, r2.why = r.why, r2.change = r.change,
         r2.found \in {r.found, d}, reads' = (reads \ {r}) \cup {r2}
  PROVE  TrustInv'
<1>1. /\ file'.content = d /\ file'.content.rev = file.content.rev + 1
      /\ file'.content.rev \in Nat /\ file' \in File
      /\ \A j \in Instances : Sound(store[j].content, file'.content.rev, accepted', relied')
      /\ \A q \in reads : Sound(q.found, file'.content.rev, accepted', relied')
  BY RenameOutdates
<1>2. StateOK'
  BY <1>1 DEF TrustInv, StateOK, File
<1>3. UnreadIsEmpty' /\ ReadsOK'
  BY <1>1 DEF TrustInv, UnreadIsEmpty, IsUnread, ReadsOK
<1> QED
  BY <1>1, <1>2, <1>3 DEF TrustInv, Kept

LEMMA MoveAsideStep ==
  ASSUME TrustAssumption, TrustInv, NEW r \in reads, MoveAside(r)
  PROVE  TrustInv'
<1> DEFINE r2 == [r EXCEPT !.phase = "aside"]
<1>1. r2 \in Read /\ r2.why = r.why /\ r2.change = r.change /\ r2.found = r.found
  BY DEF TrustInv, StateOK, File, Read
<1>2. reads' = (reads \ {r}) \cup {r2} /\ UNCHANGED <<store, accepted, relied>>
  BY DEF MoveAside
<1> HIDE DEF r2
<1>3. CASE Rename("missing", [Nothing EXCEPT !.tainted = TRUE])
  <2> DEFINE c == [Nothing EXCEPT !.tainted = TRUE]
             d == [c EXCEPT !.rev = file.content.rev + 1]
  <2>1. c \in Content /\ c.tainted
    BY NothingIsSound DEF Content
  <2>2. Rename("missing", d) /\ d \in Content /\ d.rev = file.content.rev + 1 /\ d.tainted
    BY <1>3, <2>1, RenameRevises DEF TrustInv
  <2> HIDE DEF c, d
  <2>3. Sound(d, file.content.rev + 1, accepted, relied)
    BY <2>2 DEF Sound, TrustInv, StateOK, File
  <2> QED
    BY <1>1, <1>2, <2>2, <2>3, RenamingReadKeeps
<1>4. CASE UNCHANGED file
  <2>1. MayRead(r2)
    BY <1>1, OldIsFine DEF MayRead
  <2>2. store' \in [Instances -> Store]
    BY <1>2 DEF TrustInv, StateOK, File
  <2> QED
    BY <1>2, <1>4, <2>1, <2>2, OldIsFine, FileUntouchedKeeps
<1> QED
  BY <1>3, <1>4 DEF MoveAside

\* Marked as reset, an empty file is sound: it tells that hosts may be missing.
LEMMA MarkResetStep ==
  ASSUME TrustAssumption, TrustInv, NEW r \in reads, MarkReset(r)
  PROVE  TrustInv'
<1> DEFINE c == [Nothing EXCEPT !.reset = TRUE]
           found == [c EXCEPT !.rev = file'.content.rev]
           r2 == [r EXCEPT !.phase = "ready", !.found = found]
<1>1. c \in Content /\ c.reset /\ c.hosts = NoRecords
  BY NothingIsSound DEF Content
<1>2. reads' = (reads \ {r}) \cup {r2} /\ UNCHANGED <<store, accepted, relied>>
  BY DEF MarkReset
<1>3. r \in Read /\ StateOK
  BY DEF TrustInv, StateOK, File
<1>4. ASSUME NEW d \in Content, d.reset, d.hosts = NoRecords
      PROVE  Sound(d, d.rev, accepted, relied)
  BY <1>4, NothingIsSound DEF Sound, Content
<1>5. CASE Rename("ok", c)
  <2> DEFINE d == [c EXCEPT !.rev = file.content.rev + 1]
  <2>1. /\ Rename("ok", d) /\ d \in Content /\ d.rev = file.content.rev + 1
        /\ d.reset /\ d.hosts = NoRecords
    BY <1>1, <1>3, <1>5, RenameRevises
  <2>2. file'.content.rev = file.content.rev + 1
    BY <1>1, <1>5 DEF Rename, Content
  <2>3. found = d
    BY <2>2
  <2> HIDE DEF c, found, d
  <2>4. r2 \in Read /\ r2.why = r.why /\ r2.change = r.change /\ r2.found = d
    BY <1>3, <2>1, <2>3 DEF Read
  <2>5. Sound(d, file.content.rev + 1, accepted, relied)
    BY <1>4, <2>1
  <2> QED
    BY <1>2, <2>1, <2>4, <2>5, RenamingReadKeeps
<1>6. CASE UNCHANGED file
  <2>1. /\ found \in Content /\ found.rev = file.content.rev
        /\ found.reset /\ found.hosts = NoRecords
    BY <1>1, <1>3, <1>6 DEF Content, StateOK, File
  <2> HIDE DEF c, found
  <2>2. r2 \in Read /\ r2.why = r.why /\ r2.change = r.change /\ r2.found = found
    BY <1>3, <2>1 DEF Read
  <2>3. MayRead(r2)
    BY <1>3, <1>4, <2>1, <2>2, OldIsFine DEF MayRead, Kept, StateOK
  <2>4. store' \in [Instances -> Store]
    BY <1>2, <1>3 DEF StateOK, File
  <2> QED
    BY <1>2, <1>6, <2>3, <2>4, OldIsFine, FileUntouchedKeeps
<1> QED
  BY <1>5, <1>6 DEF MarkReset

LEMMA FinishSteps ==
  ASSUME TrustAssumption, TrustInv, NEW r \in reads,
         FinishLaunch(r) \/ FinishReload(r) \/ FinishLoadedChange(r)
  PROVE  TrustInv'
<1> DEFINE st == [content |-> r.found, unreadable |-> FALSE]
<1>1. r \in Read /\ MayRead(r)
  BY OldIsFine DEF TrustInv, StateOK, File
<1>2. r.inst \in Instances /\ Replaces(st)
  BY <1>1 DEF MayRead, Replaces, IsUnread, Read, Store, Unread
<1>3. CASE FinishLaunch(r)
  BY <1>2, <1>3, ReplaceKeeps DEF FinishLaunch
<1>4. CASE FinishReload(r)
  BY <1>2, <1>4, ReplaceKeeps DEF FinishReload
<1>5. CASE FinishLoadedChange(r)
  <2>1. /\ st \in Store /\ Replaces(st) /\ ~st.unreadable
        /\ r.change \in Changes /\ reads' \subseteq reads
    BY <1>1, <1>2, <1>5 DEF FinishLoadedChange, MayRead, Replaces, IsUnread, Unread
  <2>2. Commit(r.inst, st, r.change) \/ CommitUnwritten(r.inst, st, r.change)
    BY <1>5 DEF FinishLoadedChange
  <2> HIDE DEF st
  <2> QED
    BY <1>2, <2>1, <2>2, CommitKeeps, CommitUnwrittenKeeps
<1> QED
  BY <1>3, <1>4, <1>5

LEMMA ReloadSteps ==
  ASSUME TrustInv, NEW i \in Instances, ClickReload(i) \/ ConfigChanged(i)
  PROVE  TrustInv'
<1>1. UNCHANGED <<file, accepted, relied, store>>
  BY DEF ClickReload, ConfigChanged
<1>2. StartRead(i, "reload", NoChange) \/ UNCHANGED reads
  BY DEF ClickReload, ConfigChanged, Reload
<1>3. NoChange \in Change
  BY DEF Change
<1> QED
  BY <1>1, <1>2, <1>3, StartReadKeeps, QuietKeeps

\* A store that is not loaded, or could not be, remembers nothing.
LEMMA EmptyReplaces ==
  ASSUME TrustAssumption, TrustInv
  PROVE  /\ Replaces([content |-> Nothing, unreadable |-> FALSE])
         /\ Replaces([content |-> [Nothing EXCEPT !.rev = Unread], unreadable |-> TRUE])
<1>1. file.content.rev \in Nat /\ relied \subseteq Hosts
  BY DEF TrustInv, StateOK, File
<1>2. Nothing.rev # Unread
  BY NothingIsSound DEF Unread
<1>3. Kept(Nothing)
  <2>1. CASE file.content.rev = 0
    <3>1. relied = {}
      BY <2>1 DEF TrustInv, StateOK, File
    <3> QED
      BY <2>1, <3>1, NothingIsSound DEF Kept, Sound
  <2>2. CASE file.content.rev # 0
    BY <1>1, <2>2, NothingIsSound DEF Kept, Sound
  <2> QED
    BY <2>1, <2>2
<1>4. /\ [Nothing EXCEPT !.rev = Unread] \in Content /\ [Nothing EXCEPT !.rev = Unread].rev = Unread
      /\ [Nothing EXCEPT !.rev = Unread].hosts = NoRecords /\ ~[Nothing EXCEPT !.rev = Unread].reset
  BY NothingIsSound DEF Content, Unread
<1>5. Kept([Nothing EXCEPT !.rev = Unread])
  BY <1>1, <1>4 DEF Kept, Sound, Unread
<1> QED
  BY <1>2, <1>3, <1>4, <1>5, NothingIsSound DEF Replaces, IsUnread, Store

LEMMA RestartSteps ==
  ASSUME TrustAssumption, TrustInv, NEW i \in Instances, Close(i) \/ Launch(i)
  PROVE  TrustInv'
<1>1. UNCHANGED <<file, accepted, relied>>
  BY DEF Close, Launch
<1>2. CASE Close(i)
  <2>1. store' = [store EXCEPT ![i] = [content |-> Nothing, unreadable |-> FALSE]]
        /\ reads' \subseteq reads
    BY <1>2 DEF Close
  <2> QED
    BY <1>1, <2>1, EmptyReplaces, ReplaceKeeps
<1>3. CASE Launch(i)
  <2>1. CASE StartRead(i, "launch", NoChange) /\ UNCHANGED store
    BY <1>1, <2>1, StartReadKeeps DEF Change
  <2>2. CASE /\ store' = [store EXCEPT ![i] =
                            [content |-> [Nothing EXCEPT !.rev = Unread], unreadable |-> TRUE]]
             /\ UNCHANGED reads
    BY <1>1, <2>2, EmptyReplaces, ReplaceKeeps
  <2> QED
    BY <1>3, <2>1, <2>2 DEF Launch
<1> QED
  BY <1>2, <1>3

LEMMA EnvironmentSteps ==
  ASSUME TrustInv, Damage \/ Lock \/ Unlock \/ \E i \in Instances : EndEcho(i)
  PROVE  TrustInv'
<1>1. /\ file' \in File /\ file'.content = file.content
      /\ UNCHANGED <<accepted, relied, store, reads>>
  BY DEF Damage, Lock, Unlock, EndEcho, TrustInv, StateOK, File
<1> QED
  BY <1>1 DEF TrustInv, StateOK, UnreadIsEmpty, ReadsOK, Kept

LEMMA TrustInit ==
  ASSUME TrustAssumption, Init
  PROVE  TrustInv
<1>1. StateOK
  BY NothingIsSound DEF Init, StateOK, Store, File
<1>2. UnreadIsEmpty /\ ReadsOK
  BY NothingIsSound DEF Init, UnreadIsEmpty, IsUnread, ReadsOK, Unread
<1>3. Kept(Nothing)
  BY NothingIsSound DEF Init, Kept, Sound
<1> QED
  BY <1>1, <1>2, <1>3 DEF Init, TrustInv

LEMMA TrustStep ==
  ASSUME TrustAssumption, TrustInv, [Next]_vars
  PROVE  TrustInv'
<1>1. CASE UNCHANGED vars
  BY <1>1 DEF vars, TrustInv, StateOK, File, UnreadIsEmpty, IsUnread, ReadsOK, Kept
<1>2. ASSUME NEW i \in Instances, InstanceStep(i) PROVE TrustInv'
  BY <1>2, ChangeSteps, DismissStep, ReloadSteps, RestartSteps, EnvironmentSteps DEF InstanceStep
<1>3. ASSUME NEW r \in reads, ReadStep(r) PROVE TrustInv'
  BY <1>3, MoveAsideStep, MarkResetStep, FinishSteps DEF ReadStep
<1> QED
  BY <1>1, <1>2, <1>3, EnvironmentSteps DEF Next

-----------------------------------------------------------------------------

\* Every copy of the trusted hosts that is up to date is worth it: the file, each
\* instance's memory and what each read under way found (known_hosts.rs).
THEOREM TrustInvariant ==
  ASSUME TrustAssumption
  PROVE  Spec => []TrustInv
<1>1. Init => TrustInv
  BY TrustInit
<1>2. TrustInv /\ [Next]_vars => TrustInv'
  BY TrustStep
<1> QED
  BY <1>1, <1>2, PTL DEF Spec

\* Only instances run.
LEMMA UpStep ==
  ASSUME TrustInv, up \subseteq Instances, [Next]_vars
  PROVE  up' \subseteq Instances
<1>1. ASSUME NEW i \in Instances, InstanceStep(i) PROVE up' \subseteq Instances
  BY <1>1 DEF InstanceStep, MakeChange, ChangeUnreadable, Dismiss, ClickReload, ConfigChanged,
              EndEcho, Close, Launch
<1>2. ASSUME NEW r \in reads, ReadStep(r) PROVE up' \subseteq Instances
  <2>1. r.inst \in Instances
    BY DEF TrustInv, StateOK, Read
  <2> QED
    BY <1>2, <2>1 DEF ReadStep, MoveAside, MarkReset, FinishLaunch, FinishReload,
                      FinishLoadedChange
<1>3. CASE Damage \/ Lock \/ Unlock \/ UNCHANGED vars
  BY <1>3 DEF Damage, Lock, Unlock, vars
<1> QED
  BY <1>1, <1>2, <1>3 DEF Next

LEMMA UpInvariant ==
  ASSUME TrustAssumption
  PROVE  Spec => [](up \subseteq Instances)
<1>1. Init => up \subseteq Instances
  BY DEF Init
<1>2. TrustInv /\ up \subseteq Instances /\ [Next]_vars => (up \subseteq Instances)'
  BY UpStep
<1> QED
  BY <1>1, <1>2, TrustInvariant, PTL DEF Spec

\* What the environment and the windows keep, and how many reads are under way.
Flags ==
  /\ locked \in BOOLEAN
  /\ changed \in [Instances -> BOOLEAN]
  /\ echo \in [Instances -> BOOLEAN]
  /\ missed \in [Instances -> BOOLEAN]
  /\ left \in [Kinds -> Nat]

Reading(rs, i) == {r \in rs : r.inst = i}
FewReads == \A i \in Instances :
              IsFiniteSet(Reading(reads, i)) /\ Cardinality(Reading(reads, i)) <= MaxReads

LEMMA SpendKeeps ==
  ASSUME left \in [Kinds -> Nat], NEW kinds, Spend(kinds)
  PROVE  left' \in [Kinds -> Nat]
<1>1. ASSUME NEW k \in Kinds, k \in kinds PROVE left[k] - 1 \in Nat
  BY <1>1 DEF Spend
<1> QED
  BY <1>1 DEF Spend

LEMMA CommitFlags ==
  ASSUME Flags, NEW i \in Instances, NEW s, NEW change,
         Commit(i, s, change) \/ CommitUnwritten(i, s, change)
  PROVE  changed' \in [Instances -> BOOLEAN] /\ echo' \in [Instances -> BOOLEAN]
<1>1. CASE Commit(i, s, change)
  BY <1>1 DEF Commit, Flags, Rename
<1>2. CASE CommitUnwritten(i, s, change)
  BY <1>2 DEF CommitUnwritten, Flags
<1> QED
  BY <1>1, <1>2

LEMMA InstanceFlags ==
  ASSUME Flags, NEW i \in Instances, InstanceStep(i)
  PROVE  Flags'
<1>1. ASSUME NEW change \in Changes, MakeChange(i, change) PROVE Flags'
  <2>1. changed' \in [Instances -> BOOLEAN] /\ echo' \in [Instances -> BOOLEAN]
    BY <1>1, CommitFlags DEF MakeChange
  <2>2. left' \in [Kinds -> Nat]
    BY <1>1, SpendKeeps DEF MakeChange, Flags
  <2> QED
    BY <1>1, <2>1, <2>2 DEF MakeChange, Flags
<1>2. ASSUME NEW change \in Changes, ChangeUnreadable(i, change) PROVE Flags'
  <2>1. left' \in [Kinds -> Nat]
    BY <1>2, SpendKeeps DEF ChangeUnreadable, Flags
  <2> QED
    BY <1>2, <2>1 DEF ChangeUnreadable, Flags
<1>3. CASE Dismiss(i)
  <2>1. left' \in [Kinds -> Nat]
    BY <1>3, SpendKeeps DEF Dismiss, Flags
  <2> QED
    BY <1>3, <2>1 DEF Dismiss, Flags, Rename
<1>4. CASE ClickReload(i)
  <2>1. left' \in [Kinds -> Nat]
    BY <1>4, SpendKeeps DEF ClickReload, Flags
  <2> QED
    BY <1>4, <2>1 DEF ClickReload, Reload, Flags
<1>5. CASE ConfigChanged(i)
  BY <1>5 DEF ConfigChanged, Reload, Flags
<1>6. CASE Close(i)
  <2>1. left' \in [Kinds -> Nat]
    BY <1>6, SpendKeeps DEF Close, Flags
  <2> QED
    BY <1>6, <2>1 DEF Close, Flags
<1>7. CASE EndEcho(i) \/ Launch(i)
  BY <1>7 DEF EndEcho, Launch, Flags
<1> QED
  BY <1>1, <1>2, <1>3, <1>4, <1>5, <1>6, <1>7 DEF InstanceStep

LEMMA ReadFlags ==
  ASSUME Flags, NEW r \in reads, r.inst \in Instances, ReadStep(r)
  PROVE  Flags'
<1>1. CASE MoveAside(r)
  <2>1. left' \in [Kinds -> Nat]
    BY <1>1, SpendKeeps DEF MoveAside, Flags
  <2> QED
    BY <1>1, <2>1 DEF MoveAside, Flags, Rename
<1>2. CASE MarkReset(r)
  <2>1. left' \in [Kinds -> Nat]
    BY <1>2, SpendKeeps DEF MarkReset, Flags
  <2> QED
    BY <1>2, <2>1 DEF MarkReset, Flags, Rename
<1>3. CASE FinishLaunch(r) \/ FinishReload(r)
  BY <1>3 DEF FinishLaunch, FinishReload, Flags
<1>4. CASE FinishLoadedChange(r)
  <2>1. changed' \in [Instances -> BOOLEAN] /\ echo' \in [Instances -> BOOLEAN]
    BY <1>4, CommitFlags DEF FinishLoadedChange
  <2>2. left' \in [Kinds -> Nat]
    BY <1>4, SpendKeeps DEF FinishLoadedChange, Flags
  <2> QED
    BY <1>4, <2>1, <2>2 DEF FinishLoadedChange, Flags
<1> QED
  BY <1>1, <1>2, <1>3, <1>4 DEF ReadStep

LEMMA FlagsStep ==
  ASSUME TrustInv, Flags, [Next]_vars
  PROVE  Flags'
<1>1. ASSUME NEW r \in reads, ReadStep(r) PROVE Flags'
  <2>1. r.inst \in Instances
    BY DEF TrustInv, StateOK, Read
  <2> QED
    BY <1>1, <2>1, ReadFlags
<1>2. CASE Damage
  <2>1. left' \in [Kinds -> Nat]
    BY <1>2, SpendKeeps DEF Damage, Flags
  <2> QED
    BY <1>2, <2>1 DEF Damage, Flags
<1>3. CASE Lock
  <2>1. left' \in [Kinds -> Nat]
    BY <1>3, SpendKeeps DEF Lock, Flags
  <2> QED
    BY <1>3, <2>1 DEF Lock, Flags
<1>4. CASE Unlock \/ UNCHANGED vars
  BY <1>4 DEF Unlock, vars, Flags
<1> QED
  BY <1>1, <1>2, <1>3, <1>4, InstanceFlags DEF Next

\* Reads given up, one more of an instance that has few, or one that goes on.
LEMMA FewerReads ==
  ASSUME TrustAssumption, FewReads, reads' \subseteq reads
  PROVE  FewReads'
<1> SUFFICES ASSUME NEW i \in Instances
             PROVE  IsFiniteSet(Reading(reads', i)) /\ Cardinality(Reading(reads', i)) <= MaxReads
  BY DEF FewReads
<1>1. Reading(reads', i) \subseteq Reading(reads, i)
  BY DEF Reading
<1>2. IsFiniteSet(Reading(reads, i)) /\ Cardinality(Reading(reads, i)) <= MaxReads
  BY DEF FewReads
<1>3. /\ IsFiniteSet(Reading(reads', i))
      /\ Cardinality(Reading(reads', i)) <= Cardinality(Reading(reads, i))
  BY <1>1, <1>2, FS_Subset
<1>4. Cardinality(Reading(reads', i)) \in Nat /\ Cardinality(Reading(reads, i)) \in Nat
  BY <1>2, <1>3, FS_CardinalityType
<1> QED
  BY <1>2, <1>3, <1>4 DEF TrustAssumption

LEMMA OneMoreRead ==
  ASSUME TrustAssumption, FewReads, NEW i \in Instances, NEW why, NEW change,
         StartRead(i, why, change)
  PROVE  FewReads'
<1> DEFINE r == [inst |-> i, why |-> why, change |-> change, found |-> file.content,
                 phase |-> IF file.state = "damaged" THEN "damaged" ELSE "ready"]
<1>1. reads' = reads \cup {r} /\ r.inst = i /\ Cardinality(Reading(reads, i)) < MaxReads
  BY DEF StartRead, Reading
<1> HIDE DEF r
<1> SUFFICES ASSUME NEW j \in Instances
             PROVE  IsFiniteSet(Reading(reads', j)) /\ Cardinality(Reading(reads', j)) <= MaxReads
  BY DEF FewReads
<1>2. IsFiniteSet(Reading(reads, j)) /\ Cardinality(Reading(reads, j)) <= MaxReads
  BY DEF FewReads
<1>3. CASE j = i
  <2>1. Reading(reads', j) = Reading(reads, j) \cup {r}
    BY <1>1, <1>3 DEF Reading
  <2>2. /\ IsFiniteSet(Reading(reads', j))
        /\ \/ Cardinality(Reading(reads', j)) = Cardinality(Reading(reads, j))
           \/ Cardinality(Reading(reads', j)) = Cardinality(Reading(reads, j)) + 1
    BY <1>2, <2>1, FS_AddElement
  <2>3. Cardinality(Reading(reads, j)) \in Nat
    BY <1>2, FS_CardinalityType
  <2> QED
    BY <1>1, <1>3, <2>2, <2>3 DEF TrustAssumption
<1>4. CASE j # i
  <2>1. Reading(reads', j) = Reading(reads, j)
    BY <1>1, <1>4 DEF Reading
  <2> QED
    BY <1>2, <2>1
<1> QED
  BY <1>3, <1>4

LEMMA ReadGoesOn ==
  ASSUME TrustAssumption, FewReads, NEW r \in reads, NEW r2, r2.inst = r.inst,
         reads' = (reads \ {r}) \cup {r2}
  PROVE  FewReads'
<1> SUFFICES ASSUME NEW i \in Instances
             PROVE  IsFiniteSet(Reading(reads', i)) /\ Cardinality(Reading(reads', i)) <= MaxReads
  BY DEF FewReads
<1>1. IsFiniteSet(Reading(reads, i)) /\ Cardinality(Reading(reads, i)) <= MaxReads
  BY DEF FewReads
<1>2. CASE r.inst = i
  <2>1. Reading(reads', i) = (Reading(reads, i) \ {r}) \cup {r2} /\ r \in Reading(reads, i)
    BY <1>2 DEF Reading
  <2>2. /\ IsFiniteSet(Reading(reads, i) \ {r})
        /\ Cardinality(Reading(reads, i) \ {r}) = Cardinality(Reading(reads, i)) - 1
    BY <1>1, <2>1, FS_RemoveElement
  <2>3. /\ IsFiniteSet(Reading(reads', i))
        /\ \/ Cardinality(Reading(reads', i)) = Cardinality(Reading(reads, i) \ {r})
           \/ Cardinality(Reading(reads', i)) = Cardinality(Reading(reads, i) \ {r}) + 1
    <3> DEFINE rest == Reading(reads, i) \ {r}
    <3>1. IsFiniteSet(rest) /\ Reading(reads', i) = rest \cup {r2}
      BY <2>1, <2>2
    <3> HIDE DEF rest
    <3>2. /\ IsFiniteSet(rest \cup {r2})
          /\ \/ Cardinality(rest \cup {r2}) = Cardinality(rest)
             \/ Cardinality(rest \cup {r2}) = Cardinality(rest) + 1
      BY <3>1, FS_AddElement
    <3> QED
      BY <3>1, <3>2 DEF rest
  <2>4. Cardinality(Reading(reads, i)) \in Nat
    BY <1>1, FS_CardinalityType
  <2> QED
    BY <1>1, <2>2, <2>3, <2>4 DEF TrustAssumption
<1>3. CASE r.inst # i
  <2>1. Reading(reads', i) = Reading(reads, i)
    BY <1>3 DEF Reading
  <2> QED
    BY <1>1, <2>1
<1> QED
  BY <1>2, <1>3

LEMMA FewReadsStep ==
  ASSUME TrustAssumption, TrustInv, FewReads, [Next]_vars
  PROVE  FewReads'
<1>1. ASSUME NEW i \in Instances, InstanceStep(i) PROVE FewReads'
  <2>1. \/ reads' \subseteq reads
        \/ \E change \in Changes : StartRead(i, "change", change)
        \/ StartRead(i, "reload", NoChange) \/ StartRead(i, "launch", NoChange)
    BY <1>1 DEF InstanceStep, MakeChange, ChangeUnreadable, Dismiss, ClickReload,
                ConfigChanged, Reload, EndEcho, Close, Launch
  <2> QED
    BY <2>1, FewerReads, OneMoreRead
<1>2. ASSUME NEW r \in reads, ReadStep(r) PROVE FewReads'
  <2>1. CASE MoveAside(r)
    <3>1. [r EXCEPT !.phase = "aside"].inst = r.inst
      BY DEF TrustInv, StateOK, Read
    <3> QED
      BY <2>1, <3>1, ReadGoesOn DEF MoveAside
  <2>2. CASE MarkReset(r)
    <3> DEFINE f == [[Nothing EXCEPT !.reset = TRUE] EXCEPT !.rev = file'.content.rev]
    <3>1. [r EXCEPT !.phase = "ready", !.found = f].inst = r.inst
      BY DEF TrustInv, StateOK, Read
    <3>2. reads' = (reads \ {r}) \cup {[r EXCEPT !.phase = "ready", !.found = f]}
      BY <2>2 DEF MarkReset
    <3> QED
      BY <3>1, <3>2, ReadGoesOn
  <2>3. CASE FinishLaunch(r) \/ FinishReload(r) \/ FinishLoadedChange(r)
    BY <2>3, FewerReads DEF FinishLaunch, FinishReload, FinishLoadedChange
  <2> QED
    BY <1>2, <2>1, <2>2, <2>3 DEF ReadStep
<1>3. CASE Damage \/ Lock \/ Unlock \/ UNCHANGED vars
  BY <1>3, FewerReads DEF Damage, Lock, Unlock, vars
<1> QED
  BY <1>1, <1>2, <1>3 DEF Next

LEMMA FlagsInvariant ==
  ASSUME TrustAssumption
  PROVE  Spec => [](Flags /\ FewReads)
<1>1. Init => Flags /\ FewReads
  <2> SUFFICES ASSUME Init PROVE Flags /\ FewReads
    OBVIOUS
  <2>1. Flags
    BY DEF Init, Flags, TrustAssumption
  <2>2. ASSUME NEW i \in Instances PROVE Reading(reads, i) = {}
    BY DEF Init, Reading
  <2> QED
    BY <2>1, <2>2, FS_EmptySet DEF FewReads, TrustAssumption
<1>2. TrustInv /\ Flags /\ FewReads /\ [Next]_vars => (Flags /\ FewReads)'
  BY FlagsStep, FewReadsStep
<1> QED
  BY <1>1, <1>2, TrustInvariant, PTL DEF Spec

-----------------------------------------------------------------------------
\* The bounds of the parts only leave steps out, and prompts leave the store alone.
LEMMA PartsBehave == PartSpec => Spec
<1>1. PartInit => Init
  BY DEF PartInit
<1>2. [PartNext]_allVars => [Next]_vars
  BY DEF PartNext, StoreRuns, PromptsRun, allVars
<1> QED
  BY <1>1, <1>2, PTL DEF PartSpec, Spec

\* With however many instances, hosts, keys and failures, a connection is let
\* through without asking only for a key its user accepted for that host and has
\* not forgotten, if the store is up to date (verdict, trust, forget).
THEOREM KnownKeysWereAccepted ==
  ASSUME TrustAssumption
  PROVE  PartSpec => []KnownWasAccepted
<1>1. TrustInv /\ up \subseteq Instances => KnownWasAccepted
  <2> SUFFICES ASSUME TrustInv, NEW i \in Instances, Current(i),
                      NEW h \in Hosts, NEW k \in Keys, Verdict(store[i], h, k) = "known"
               PROVE  k \in accepted[h]
    BY DEF KnownWasAccepted
  <2>1. store[i].content.hosts[h] = k /\ k # NoKey
    BY DEF Verdict, TrustAssumption
  <2>2. ~store[i].unreadable
    BY <2>1 DEF TrustInv, UnreadIsEmpty, IsUnread, NoRecords
  <2> QED
    BY <2>1, <2>2 DEF Current, TrustInv, Kept, Sound
<1> QED
  BY <1>1, PartsBehave, TrustInvariant, UpInvariant, PTL

\* A host its user relies on is never taken for a new one, however often the file
\* was damaged, locked or not written, if the store is up to date or knows that it
\* is not (read_from_disk, ensure_loaded).
THEOREM LossesAreFlagged ==
  ASSUME TrustAssumption
  PROVE  PartSpec => []NoTrustLost
<1>1. TrustInv /\ up \subseteq Instances => LossIsFlagged
  <2> SUFFICES ASSUME TrustInv, NEW i \in Instances, Current(i),
                      NEW h \in relied, NEW k \in Keys
               PROVE  Verdict(store[i], h, k) # "unknown"
    BY DEF LossIsFlagged
  <2>1. CASE store[i].unreadable
    BY <2>1 DEF Verdict, MayMissHosts
  <2>2. CASE ~store[i].unreadable
    <3>1. store[i].content.reset \/ store[i].content.hosts[h] # NoKey
      BY <2>2 DEF Current, TrustInv, Kept, Sound, Recorded
    <3> QED
      BY <3>1 DEF Verdict, MayMissHosts
  <2> QED
    BY <2>1, <2>2
<1>2. TrustInv /\ up \subseteq Instances /\ Flags /\ FewReads => TypeOK
  BY DEF TrustInv, StateOK, UnreadIsEmpty, IsUnread, Flags, FewReads, Reading, TypeOK
<1>3. TypeOK /\ LossIsFlagged => NoTrustLost
  BY DEF NoTrustLost
<1> QED
  BY <1>1, <1>2, <1>3, PartsBehave, TrustInvariant, UpInvariant, FlagsInvariant, PTL

-----------------------------------------------------------------------------
(* The prompts. What is on the dialog, or announced to it, is open: nobody     *)
(* answered it, and no answer is on its way.                                  *)

EventLists == {<<>>, <<"prompt">>, <<"closed">>, <<"prompt", "closed">>}

PromptTypes ==
  /\ conn \in [Conns -> Ask!Conn]
  /\ \A c \in Conns : conn[c].hop \in 1 .. Len(Route[c])
  /\ known \in [Hosts -> Keys \cup {NoKey}]
  /\ reset \in BOOLEAN
  /\ raised \in 0 .. MaxPrompts
  /\ prompt \in [1 .. raised -> Ask!Prompt]
  /\ events \in [1 .. raised -> EventLists]
  /\ calls \subseteq [prompt : 1 .. raised, accept : BOOLEAN]
  /\ queue \in Seq(1 .. raised)
  /\ current \in 0 .. raised
  /\ armed \in BOOLEAN
  /\ aim \in 0 .. raised
  /\ approved \subseteq Ask!Facts

\* A handler that waits, or has been let through, holds its own prompt.
WaitsForItsOwn ==
  /\ \A c \in Conns :
       /\ conn[c].phase \in {"prompting", "persisting"} => conn[c].prompt \in 1 .. raised
       /\ conn[c].phase = "prompting" => prompt[conn[c].prompt].decision = "none"
       /\ conn[c].phase = "persisting" => prompt[conn[c].prompt].decision = "accepted"
  /\ \A c, d \in Conns :
       conn[c].phase = "prompting" /\ conn[d].phase = "prompting"
         /\ conn[c].prompt = conn[d].prompt => c = d
  /\ \A p \in 1 .. raised : prompt[p].decision = "none" => events[p] \in {<<>>, <<"prompt">>}

Dialog == Elements(queue) \cup ({current} \ {0})
Announced(p) == events[p] # <<>> /\ Head(events[p]) = "prompt"
IsOpen(p) == prompt[p].answer = "none" /\ \A call \in calls : call.prompt # p

DialogIsOpen ==
  /\ Distinct(queue) /\ current \notin Elements(queue)
  /\ \A p \in Dialog : IsOpen(p)
  /\ \A p \in 1 .. raised : Announced(p) => IsOpen(p) /\ p \notin Dialog

\* The Trust button works only for the prompt the user looked at.
Aimed == armed /\ current # 0 => aim \in {0, current}

PromptsInv ==
  /\ PromptTypes /\ WaitsForItsOwn /\ DialogIsOpen /\ Aimed
  /\ Ask!RegistryExact /\ Ask!TrustWasMeant

-----------------------------------------------------------------------------
LEMMA Appended ==
  ASSUME NEW n \in Nat, NEW S, NEW f \in [1 .. n -> S], NEW x \in S
  PROVE  /\ Append(f, x) \in [1 .. n + 1 -> S]
         /\ Append(f, x)[n + 1] = x
         /\ \A i \in 1 .. n : Append(f, x)[i] = f[i]
<1>1. f \in Seq(S) /\ Len(f) = n
  OBVIOUS
<1> DEFINE g == Append(f, x)
<1>2. g \in Seq(S) /\ Len(g) = n + 1 /\ g[n + 1] = x
  BY <1>1
<1>3. \A i \in 1 .. n : g[i] = f[i]
  BY <1>1
<1> HIDE DEF g
<1>4. g \in [1 .. n + 1 -> S]
  BY <1>2
<1> QED
  BY <1>2, <1>3, <1>4 DEF g

LEMMA AppendToOne ==
  ASSUME NEW S, NEW s, s \in [1 .. 1 -> S], NEW e \in S
  PROVE  Append(s, e) = <<s[1], e>>
<1> DEFINE t == Append(s, e)
<1>1. t \in [1 .. 1 + 1 -> S] /\ t[1 + 1] = e /\ \A i \in 1 .. 1 : t[i] = s[i]
  <2>1. PICK n \in Nat : n = 1
    OBVIOUS
  <2>2. s \in [1 .. n -> S]
    BY <2>1
  <2>3. t \in [1 .. n + 1 -> S] /\ t[n + 1] = e /\ \A i \in 1 .. n : t[i] = s[i]
    BY <2>2, Appended
  <2> QED
    BY <2>1, <2>3
<1> HIDE DEF t
<1>2. t[1] = s[1] /\ t[2] = e /\ t \in [1 .. 2 -> S]
  BY <1>1
<1>3. t = <<s[1], e>>
  BY <1>2
<1> QED
  BY <1>3 DEF t

LEMMA TwoEvents ==
  /\ Append(<<>>, "closed") = <<"closed">>
  /\ Append(<<"prompt">>, "closed") = <<"prompt", "closed">>
<1>1. Append(<<>>, "closed") = <<"closed">>
  OBVIOUS
<1> DEFINE s == <<"prompt">>
<1>2. s \in [1 .. 1 -> {"prompt", "closed"}] /\ s[1] = "prompt" /\ "closed" \in {"prompt", "closed"}
  OBVIOUS
<1> HIDE DEF s
<1>3. Append(s, "closed") = <<"prompt", "closed">>
  BY <1>2, AppendToOne
<1> QED
  BY <1>1, <1>3 DEF s

LEMMA TheRoutes ==
  /\ NoKey \notin Keys /\ MaxPrompts \in Nat
  /\ \A c \in Conns : Route[c] \in Seq(Hosts) /\ Len(Route[c]) \in Nat /\ Len(Route[c]) >= 1
BY PromptsAssumption DEF Ask!PromptsConstants

LEMMA PromptsTypes ==
  ASSUME PromptsInv
  PROVE  Ask!TypeOK
<1> USE DEF PromptsInv, PromptTypes
<1>1. \A p \in 1 .. raised : events[p] \in {<<>>, <<"prompt">>, <<"closed">>, <<"prompt", "closed">>}
  BY DEF EventLists
<1>2. registry \subseteq 1 .. raised
  BY DEF Ask!RegistryExact
<1>3. Ask!ToSet(queue) \subseteq 1 .. raised
  BY DEF Ask!ToSet
<1>4. Ask!IsInjective(queue)
  <2>1. DOMAIN queue = 1 .. Len(queue)
    OBVIOUS
  <2> QED
    BY <2>1 DEF DialogIsOpen, Distinct, Ask!IsInjective
<1> QED
  BY <1>1, <1>2, <1>3, <1>4 DEF Ask!TypeOK

LEMMA PromptsInit ==
  ASSUME Ask!Init
  PROVE  PromptsInv
<1> USE DEF Ask!Init
<1>1. PromptTypes
  <2>1. \A c \in Conns : conn[c] \in Ask!Conn /\ conn[c].hop \in 1 .. Len(Route[c])
    BY TheRoutes DEF Ask!Conn, Ask!NoPrompt
  <2>2. conn \in [Conns -> Ask!Conn]
    BY <2>1
  <2>3. prompt \in [1 .. raised -> Ask!Prompt] /\ events \in [1 .. raised -> EventLists]
    OBVIOUS
  <2>4. raised \in 0 .. MaxPrompts /\ queue \in Seq(1 .. raised)
    BY TheRoutes
  <2>5. /\ known \in [Hosts -> Keys \cup {NoKey}]
        /\ calls \subseteq [prompt : 1 .. raised, accept : BOOLEAN]
        /\ approved \subseteq Ask!Facts
    OBVIOUS
  <2>6. armed \in BOOLEAN
    OBVIOUS
  <2>7. current \in 0 .. raised /\ aim \in 0 .. raised
    <3>1. current = 0 /\ aim = 0 /\ raised = 0
      BY DEF Ask!NoPrompt
    <3> QED
      BY <3>1
  <2> QED
    BY <2>1, <2>2, <2>3, <2>4, <2>5, <2>6, <2>7 DEF PromptTypes
<1>2. WaitsForItsOwn
  BY DEF WaitsForItsOwn
<1>3. DialogIsOpen
  BY DEF DialogIsOpen, Distinct, Elements, Dialog, Ask!NoPrompt
<1>4. Aimed /\ Ask!RegistryExact /\ Ask!TrustWasMeant
  BY DEF Aimed, Ask!RegistryExact, Ask!TrustWasMeant
<1> QED
  BY <1>1, <1>2, <1>3, <1>4 DEF PromptsInv

-----------------------------------------------------------------------------
(* The handshake. *)

\* A connection that does not begin or end a wait disturbs nothing.
LEMMA HandshakeGoesOn ==
  ASSUME PromptsInv, NEW c \in Conns, NEW s \in Ask!Conn,
         conn' = [conn EXCEPT ![c] = s], s.hop \in 1 .. Len(Route[c]),
         s.phase \in {"prompting", "persisting"} =>
           s.phase = conn[c].phase /\ s.prompt = conn[c].prompt,
         UNCHANGED <<known, reset, raised, prompt, registry, events, calls, queue, current,
                     armed, aim, approved>>
  PROVE  PromptsInv'
<1>1. PromptTypes'
  BY DEF PromptsInv, PromptTypes, EventLists
<1>2. WaitsForItsOwn'
  <2>1. \A d \in Conns : conn'[d] = IF d = c THEN s ELSE conn[d]
    BY DEF PromptsInv, PromptTypes
  <2> QED
    BY <2>1 DEF PromptsInv, WaitsForItsOwn
<1>3. DialogIsOpen' /\ Aimed'
  BY DEF PromptsInv, DialogIsOpen, Dialog, Announced, IsOpen, Aimed
<1>4. Ask!RegistryExact' /\ Ask!TrustWasMeant'
  BY DEF PromptsInv, Ask!RegistryExact, Ask!TrustWasMeant
<1> QED
  BY <1>1, <1>2, <1>3, <1>4 DEF PromptsInv

LEMMA PassedIs ==
  ASSUME PromptsInv, NEW c \in Conns
  PROVE  /\ Ask!Passed(c) \in Ask!Conn
         /\ Ask!Passed(c).hop \in 1 .. Len(Route[c])
         /\ Ask!Passed(c).phase \notin {"prompting", "persisting"}
<1>1. /\ conn[c] \in Ask!Conn /\ conn[c].hop \in 1 .. Len(Route[c])
      /\ Len(Route[c]) \in Nat
  BY TheRoutes DEF PromptsInv, PromptTypes
<1>2. /\ [conn[c] EXCEPT !.phase = "ended"] \in Ask!Conn
      /\ [conn[c] EXCEPT !.phase = "open"] \in Ask!Conn
  BY <1>1 DEF Ask!Conn
<1>3. ASSUME conn[c].hop < Len(Route[c])
      PROVE  /\ [conn[c] EXCEPT !.phase = "dialing", !.hop = @ + 1] \in Ask!Conn
             /\ conn[c].hop + 1 \in 1 .. Len(Route[c])
  <2>1. conn[c].hop + 1 \in 1 .. Len(Route[c])
    BY <1>1, <1>3
  <2>2. conn[c].hop + 1 \in Nat
    BY <1>1
  <2>3. [conn[c] EXCEPT !.phase = "dialing", !.hop = conn[c].hop + 1] \in Ask!Conn
    BY <1>1, <2>2 DEF Ask!Conn
  <2> QED
    BY <2>1, <2>3
<1>4. CASE ~conn[c].wanted
  BY <1>1, <1>2, <1>4 DEF Ask!Passed, Ask!Conn
<1>5. CASE conn[c].wanted /\ conn[c].hop < Len(Route[c])
  BY <1>1, <1>3, <1>5 DEF Ask!Passed, Ask!Conn
<1>6. CASE conn[c].wanted /\ ~(conn[c].hop < Len(Route[c]))
  BY <1>1, <1>2, <1>6 DEF Ask!Passed, Ask!Conn
<1> QED
  BY <1>4, <1>5, <1>6

LEMMA ConnSteps ==
  ASSUME PromptsInv, NEW c \in Conns, Ask!Start(c) \/ Ask!FailHandshake(c) \/ Ask!GiveUp(c)
  PROVE  PromptsInv'
<1>1. conn \in [Conns -> Ask!Conn] /\ conn[c].hop \in 1 .. Len(Route[c])
  BY DEF PromptsInv, PromptTypes
<1> USE DEF Ask!dialogVars
<1>2. CASE Ask!Start(c)
  <2> DEFINE s == [conn[c] EXCEPT !.phase = "dialing"]
  <2>1. conn' = [conn EXCEPT ![c] = s]
    BY <1>2 DEF Ask!Start
  <2>2. s \in Ask!Conn /\ s.hop = conn[c].hop /\ s.phase = "dialing"
    BY <1>1 DEF Ask!Conn
  <2> HIDE DEF s
  <2> QED
    BY <1>1, <1>2, <2>1, <2>2, HandshakeGoesOn DEF Ask!Start
<1>3. CASE Ask!FailHandshake(c)
  <2> DEFINE s == [conn[c] EXCEPT !.phase = "ended"]
  <2>1. conn' = [conn EXCEPT ![c] = s]
    BY <1>3 DEF Ask!FailHandshake
  <2>2. s \in Ask!Conn /\ s.hop = conn[c].hop /\ s.phase = "ended"
    BY <1>1 DEF Ask!Conn
  <2> HIDE DEF s
  <2> QED
    BY <1>1, <1>3, <2>1, <2>2, HandshakeGoesOn DEF Ask!FailHandshake
<1>4. CASE Ask!GiveUp(c)
  <2> DEFINE s == [conn[c] EXCEPT !.wanted = FALSE]
  <2>1. conn' = [conn EXCEPT ![c] = s]
    BY <1>4 DEF Ask!GiveUp
  <2>2. /\ s \in Ask!Conn /\ s.hop = conn[c].hop /\ s.phase = conn[c].phase
        /\ s.prompt = conn[c].prompt
    BY <1>1 DEF Ask!Conn
  <2> HIDE DEF s
  <2> QED
    BY <1>1, <1>4, <2>1, <2>2, HandshakeGoesOn DEF Ask!GiveUp
<1> QED
  BY <1>2, <1>3, <1>4

\* A prompt is registered and announced before anyone can answer it.
LEMMA CheckStep ==
  ASSUME PromptsInv, NEW c \in Conns, NEW k \in Keys, Ask!CheckServerKey(c, k)
  PROVE  PromptsInv'
<1>0. /\ conn \in [Conns -> Ask!Conn] /\ conn[c].hop \in 1 .. Len(Route[c])
      /\ raised \in Nat /\ MaxPrompts \in Nat
  BY TheRoutes DEF PromptsInv, PromptTypes
<1>1. CASE Ask!Verdict(Ask!HostOf(c), k) = "known"
  <2>1. conn' = [conn EXCEPT ![c] = Ask!Passed(c)]
        /\ UNCHANGED <<known, reset, raised, prompt, registry, events, calls, queue, current,
                       armed, aim, approved>>
    BY <1>1 DEF Ask!CheckServerKey, Ask!dialogVars
  <2> QED
    BY <2>1, PassedIs, HandshakeGoesOn
<1>2. CASE Ask!Verdict(Ask!HostOf(c), k) # "known"
  <2>0. PICK p \in Nat : p = raised + 1
    BY <1>0
  <2> DEFINE f == [host |-> Ask!HostOf(c), key |-> k, verdict |-> Ask!Verdict(Ask!HostOf(c), k)]
             x == [answer |-> "none", decision |-> "none", facts |-> f]
  <2>1. /\ raised < MaxPrompts /\ raised' = p
        /\ prompt' = Append(prompt, x)
        /\ registry' = registry \cup {p}
        /\ events' = Append(events, <<"prompt">>)
        /\ conn' = [conn EXCEPT ![c].phase = "prompting", ![c].prompt = p]
        /\ UNCHANGED <<known, reset, calls, queue, current, armed, aim, approved>>
    BY <1>2, <2>0 DEF Ask!CheckServerKey, Ask!dialogVars
  <2>2. f \in Ask!Facts
    <3>1. Ask!HostOf(c) \in Hosts
      BY <1>0, TheRoutes DEF Ask!HostOf
    <3>2. Ask!Verdict(Ask!HostOf(c), k) \in Ask!Verdicts
      BY <1>2 DEF Ask!Verdict, Ask!Verdicts
    <3> QED
      BY <3>1, <3>2 DEF Ask!Facts
  <2> HIDE DEF f
  <2>3. x \in Ask!Prompt /\ x.answer = "none" /\ x.decision = "none"
    BY <2>2 DEF Ask!Prompt
  <2> HIDE DEF x
  <2>4. /\ prompt \in [1 .. raised -> Ask!Prompt] /\ events \in [1 .. raised -> EventLists]
        /\ <<"prompt">> \in EventLists
    BY DEF PromptsInv, PromptTypes, EventLists
  <2>5. /\ prompt' \in [1 .. p -> Ask!Prompt] /\ prompt'[p] = x
        /\ \A i \in 1 .. raised : prompt'[i] = prompt[i]
    <3>1. /\ Append(prompt, x) \in [1 .. raised + 1 -> Ask!Prompt]
          /\ Append(prompt, x)[raised + 1] = x
          /\ \A i \in 1 .. raised : Append(prompt, x)[i] = prompt[i]
      BY <1>0, <2>3, <2>4, Appended
    <3> QED
      BY <2>0, <2>1, <3>1
  <2>6. /\ events' \in [1 .. p -> EventLists] /\ events'[p] = <<"prompt">>
        /\ \A i \in 1 .. raised : events'[i] = events[i]
    <3>1. /\ Append(events, <<"prompt">>) \in [1 .. raised + 1 -> EventLists]
          /\ Append(events, <<"prompt">>)[raised + 1] = <<"prompt">>
          /\ \A i \in 1 .. raised : Append(events, <<"prompt">>)[i] = events[i]
      BY <1>0, <2>4, Appended
    <3> QED
      BY <2>0, <2>1, <3>1
  <2>7. 1 .. p = (1 .. raised) \cup {p} /\ p \notin 1 .. raised /\ p \in Nat
    BY <1>0, <2>0
  <2>8. /\ conn' \in [Conns -> Ask!Conn]
        /\ conn'[c].phase = "prompting" /\ conn'[c].prompt = p
        /\ conn'[c].hop = conn[c].hop
        /\ \A d \in Conns : d # c => conn'[d] = conn[d]
    <3> DEFINE s == [conn[c] EXCEPT !.phase = "prompting", !.prompt = p]
    <3>1. conn' = [conn EXCEPT ![c] = s]
      BY <1>0, <2>1 DEF Ask!Conn
    <3>2. s \in Ask!Conn /\ s.phase = "prompting" /\ s.prompt = p /\ s.hop = conn[c].hop
      <4>1. p \in Ask!PromptIds
        BY <1>0, <2>0, <2>1 DEF Ask!PromptIds
      <4>2. conn[c] \in Ask!Conn
        BY <1>0
      <4> QED
        BY <4>1, <4>2 DEF Ask!Conn
    <3> HIDE DEF s
    <3> QED
      BY <1>0, <3>1, <3>2
  <2>10. PromptTypes'
    <3>1. queue' \in Seq(1 .. p) /\ calls' \subseteq [prompt : 1 .. p, accept : BOOLEAN]
      BY <2>1, <2>7 DEF PromptsInv, PromptTypes
    <3>2. p \in 0 .. MaxPrompts /\ 0 .. raised \subseteq 0 .. p
      BY <1>0, <2>0, <2>1
    <3>3. \A d \in Conns : conn'[d].hop \in 1 .. Len(Route[d])
      BY <2>8 DEF PromptsInv, PromptTypes
    <3> QED
      BY <2>1, <2>5, <2>6, <2>8, <3>1, <3>2, <3>3 DEF PromptsInv, PromptTypes
  <2>11. WaitsForItsOwn'
    BY <2>1, <2>3, <2>5, <2>6, <2>7, <2>8 DEF PromptsInv, WaitsForItsOwn
  <2>12. DialogIsOpen'
    <3>1. Dialog' = Dialog /\ Dialog \subseteq 1 .. raised
      BY <1>0, <2>1 DEF Dialog, Elements, PromptsInv, PromptTypes
    <3>2. \A call \in calls : call.prompt \in 1 .. raised
      BY DEF PromptsInv, PromptTypes
    <3>3. \A i \in 1 .. raised : IsOpen(i)' = IsOpen(i) /\ Announced(i)' = Announced(i)
      BY <2>1, <2>5, <2>6 DEF IsOpen, Announced
    <3>4. IsOpen(p)'
      BY <2>1, <2>3, <2>5, <2>7, <3>2 DEF IsOpen
    <3>5. Distinct(queue)' /\ (current \notin Elements(queue))'
      BY <2>1 DEF PromptsInv, DialogIsOpen
    <3>6. \A i \in Dialog' : IsOpen(i)'
      BY <3>1, <3>3 DEF PromptsInv, DialogIsOpen
    <3>7. \A i \in 1 .. raised' : Announced(i)' => IsOpen(i)' /\ i \notin Dialog'
      BY <2>1, <2>7, <3>1, <3>3, <3>4 DEF PromptsInv, DialogIsOpen
    <3> QED
      BY <3>5, <3>6, <3>7 DEF DialogIsOpen
  <2>13. Aimed'
    BY <2>1 DEF PromptsInv, Aimed
  <2>14. Ask!RegistryExact'
    BY <2>1, <2>3, <2>5, <2>7 DEF PromptsInv, Ask!RegistryExact
  <2>15. Ask!TrustWasMeant'
    <3>1. \A call \in calls : call.prompt \in 1 .. raised
      BY DEF PromptsInv, PromptTypes
    <3> QED
      BY <2>1, <2>3, <2>5, <2>7, <3>1 DEF PromptsInv, Ask!TrustWasMeant
  <2> QED
    BY <2>10, <2>11, <2>12, <2>13, <2>14, <2>15 DEF PromptsInv
<1> QED
  BY <1>1, <1>2

\* One connection waits for a prompt no longer; what it is about stays approved.
LEMMA WaitEnds ==
  ASSUME PromptsInv, NEW c \in Conns, NEW decision \in {"accepted", "rejected"},
         Ask!StopWaiting(c, decision),
         decision = "accepted" => prompt[conn[c].prompt].answer = "accept"
  PROVE  PromptsInv'
<1>0. /\ conn \in [Conns -> Ask!Conn] /\ conn[c].hop \in 1 .. Len(Route[c])
      /\ conn[c].phase = "prompting" /\ raised \in Nat
  BY TheRoutes DEF PromptsInv, PromptTypes, Ask!StopWaiting
<1>1. PICK p \in 1 .. raised : p = conn[c].prompt /\ prompt[p].decision = "none"
  BY <1>0 DEF PromptsInv, WaitsForItsOwn
<1>2. PICK next \in {"persisting", "ended"} :
        next = IF decision = "accepted" THEN "persisting" ELSE "ended"
  OBVIOUS
<1>3. /\ prompt' = [prompt EXCEPT ![p].decision = decision]
      /\ registry' = registry \ {p}
      /\ events' = [events EXCEPT ![p] = Append(@, "closed")]
      /\ conn' = [conn EXCEPT ![c].phase = next]
      /\ UNCHANGED <<known, reset, raised, calls, queue, current, armed, aim, approved>>
  BY <1>1, <1>2 DEF Ask!StopWaiting, Ask!dialogVars
<1>4. /\ conn' \in [Conns -> Ask!Conn]
      /\ conn'[c].phase = next /\ conn'[c].prompt = p /\ conn'[c].hop = conn[c].hop
      /\ \A d \in Conns : d # c => conn'[d] = conn[d]
  <2> DEFINE s == [conn[c] EXCEPT !.phase = next]
  <2>1. conn' = [conn EXCEPT ![c] = s]
    BY <1>3
  <2>2. s \in Ask!Conn /\ s.phase = next /\ s.prompt = p /\ s.hop = conn[c].hop
    BY <1>0, <1>1 DEF Ask!Conn
  <2> HIDE DEF s
  <2> QED
    BY <1>0, <2>1, <2>2
<1>5. /\ prompt \in [1 .. raised -> Ask!Prompt] /\ prompt' \in [1 .. raised -> Ask!Prompt]
      /\ \A i \in 1 .. raised : prompt'[i].answer = prompt[i].answer
                                /\ prompt'[i].facts = prompt[i].facts
      /\ \A i \in 1 .. raised : i # p => prompt'[i] = prompt[i]
      /\ prompt'[p].decision = decision
  <2>1. prompt \in [1 .. raised -> Ask!Prompt]
    BY DEF PromptsInv, PromptTypes
  <2> DEFINE x == [prompt[p] EXCEPT !.decision = decision]
  <2>2. prompt' = [prompt EXCEPT ![p] = x]
    BY <1>3
  <2>3. /\ x \in Ask!Prompt /\ x.decision = decision /\ x.answer = prompt[p].answer
        /\ x.facts = prompt[p].facts
    BY <2>1 DEF Ask!Prompt
  <2> HIDE DEF x
  <2> QED
    BY <2>1, <2>2, <2>3
<1>6. /\ events \in [1 .. raised -> EventLists] /\ events' \in [1 .. raised -> EventLists]
      /\ \A i \in 1 .. raised : i # p => events'[i] = events[i]
      /\ Announced(p)' => Announced(p)
  <2>1. events \in [1 .. raised -> EventLists] /\ events[p] \in {<<>>, <<"prompt">>}
    BY <1>1 DEF PromptsInv, PromptTypes, WaitsForItsOwn
  <2>2. /\ Append(<<>>, "closed") = <<"closed">>
        /\ Append(<<"prompt">>, "closed") = <<"prompt", "closed">>
    BY TwoEvents
  <2>3. /\ events'[p] = Append(events[p], "closed")
        /\ \A i \in 1 .. raised : i # p => events'[i] = events[i]
        /\ events' = [i \in 1 .. raised |-> events'[i]]
    BY <1>3, <2>1
  <2>4. events'[p] \in EventLists /\ (events'[p][1] = "prompt" => events[p] = <<"prompt">>)
    <3>1. CASE events[p] = <<>>
      BY <2>2, <2>3, <3>1 DEF EventLists
    <3>2. CASE events[p] = <<"prompt">>
      BY <2>2, <2>3, <3>2 DEF EventLists
    <3> QED
      BY <2>1, <3>1, <3>2
  <2>5. events' \in [1 .. raised -> EventLists]
    BY <2>1, <2>3, <2>4
  <2> QED
    BY <2>1, <2>3, <2>4, <2>5 DEF Announced
<1>7. PromptTypes'
  <2>1. \A d \in Conns : conn'[d].hop \in 1 .. Len(Route[d])
    BY <1>4 DEF PromptsInv, PromptTypes
  <2> QED
    BY <1>3, <1>4, <1>5, <1>6, <2>1 DEF PromptsInv, PromptTypes
<1>8. WaitsForItsOwn'
  <2>1. \A d \in Conns : d # c /\ conn[d].phase \in {"prompting", "persisting"} => conn[d].prompt # p
    BY <1>0, <1>1 DEF PromptsInv, WaitsForItsOwn
  <2>2. \A d \in Conns :
          /\ conn'[d].phase \in {"prompting", "persisting"} => conn'[d].prompt \in 1 .. raised
          /\ conn'[d].phase = "prompting" => prompt'[conn'[d].prompt].decision = "none"
          /\ conn'[d].phase = "persisting" => prompt'[conn'[d].prompt].decision = "accepted"
    <3> TAKE d \in Conns
    <3>1. CASE d = c
      BY <1>2, <1>4, <1>5, <3>1
    <3>2. CASE d # c
      BY <1>4, <1>5, <2>1, <3>2 DEF PromptsInv, WaitsForItsOwn
    <3> QED
      BY <3>1, <3>2
  <2>3. \A d, e \in Conns :
          conn'[d].phase = "prompting" /\ conn'[e].phase = "prompting"
            /\ conn'[d].prompt = conn'[e].prompt => d = e
    BY <1>2, <1>4 DEF PromptsInv, WaitsForItsOwn
  <2>4. \A i \in 1 .. raised : prompt'[i].decision = "none" => events'[i] \in {<<>>, <<"prompt">>}
    BY <1>5, <1>6 DEF PromptsInv, WaitsForItsOwn
  <2> QED
    BY <1>3, <2>2, <2>3, <2>4 DEF WaitsForItsOwn
<1>9. DialogIsOpen'
  <2>1. Dialog' = Dialog /\ Dialog \subseteq 1 .. raised
    BY <1>0, <1>3 DEF Dialog, Elements, PromptsInv, PromptTypes
  <2>2. \A i \in 1 .. raised : IsOpen(i)' = IsOpen(i) /\ (Announced(i)' => Announced(i))
    BY <1>3, <1>5, <1>6 DEF IsOpen, Announced
  <2>3. Distinct(queue)' /\ (current \notin Elements(queue))'
    BY <1>3 DEF PromptsInv, DialogIsOpen
  <2> QED
    BY <1>3, <2>1, <2>2, <2>3 DEF PromptsInv, DialogIsOpen
<1>10. Aimed'
  BY <1>3 DEF PromptsInv, Aimed
<1>11. Ask!RegistryExact'
  BY <1>1, <1>3, <1>5 DEF PromptsInv, Ask!RegistryExact
<1>12. Ask!TrustWasMeant'
  <2>1. \A call \in calls : call.prompt \in 1 .. raised
    BY DEF PromptsInv, PromptTypes
  <2> QED
    BY <1>1, <1>3, <1>5, <2>1 DEF PromptsInv, Ask!TrustWasMeant
<1> QED
  BY <1>7, <1>8, <1>9, <1>10, <1>11, <1>12 DEF PromptsInv

LEMMA PersistStep ==
  ASSUME PromptsInv, NEW c \in Conns, Ask!Persist(c)
  PROVE  PromptsInv'
<1>1. PICK p \in 1 .. raised :
        p = conn[c].prompt /\ prompt[p].facts \in approved /\ prompt[p].facts \in Ask!Facts
  BY DEF PromptsInv, PromptTypes, WaitsForItsOwn, Ask!TrustWasMeant, Ask!Persist
<1> DEFINE f == prompt[p].facts
<1>2. f \in approved /\ f.host \in Hosts /\ f.key \in Keys
  BY <1>1 DEF Ask!Facts
<1>3. /\ known' = [known EXCEPT ![f.host] = f.key]
      /\ conn' = [conn EXCEPT ![c] = Ask!Passed(c)]
      /\ UNCHANGED <<reset, raised, prompt, registry, events, calls, queue, current, armed,
                     aim, approved>>
  BY <1>1 DEF Ask!Persist, Ask!dialogVars
<1> HIDE DEF f
<1> DEFINE s == Ask!Passed(c)
<1>4. s \in Ask!Conn /\ s.hop \in 1 .. Len(Route[c]) /\ s.phase \notin {"prompting", "persisting"}
  BY PassedIs
<1> HIDE DEF s
<1>5. conn \in [Conns -> Ask!Conn] /\ \A d \in Conns : conn'[d] = IF d = c THEN s ELSE conn[d]
  BY <1>3 DEF PromptsInv, PromptTypes, s
<1>6. known' \in [Hosts -> Keys \cup {NoKey}]
  BY <1>2, <1>3 DEF PromptsInv, PromptTypes
<1>7. PromptTypes'
  BY <1>3, <1>4, <1>5, <1>6 DEF PromptsInv, PromptTypes, EventLists, s
<1>8. WaitsForItsOwn'
  BY <1>3, <1>4, <1>5 DEF PromptsInv, WaitsForItsOwn
<1>9. DialogIsOpen' /\ Aimed' /\ Ask!RegistryExact'
  BY <1>3 DEF PromptsInv, DialogIsOpen, Dialog, Announced, IsOpen, Aimed, Ask!RegistryExact
<1>10. Ask!TrustWasMeant'
  <2>1. \A h \in Hosts : known'[h] = IF h = f.host THEN f.key ELSE known[h]
    BY <1>2, <1>3 DEF PromptsInv, PromptTypes
  <2> QED
    BY <1>2, <1>3, <2>1 DEF PromptsInv, Ask!TrustWasMeant
<1> QED
  BY <1>7, <1>8, <1>9, <1>10 DEF PromptsInv

-----------------------------------------------------------------------------
(* The answers. *)

LEMMA CallSteps ==
  ASSUME PromptsInv, NEW call \in calls, Ask!Respond(call) \/ Ask!LoseCall(call)
  PROVE  PromptsInv'
<1>0. /\ call.prompt \in 1 .. raised /\ raised \in Nat
      /\ prompt \in [1 .. raised -> Ask!Prompt]
  BY TheRoutes DEF PromptsInv, PromptTypes
<1>1. /\ calls' = calls \ {call}
      /\ UNCHANGED <<conn, known, reset, raised, events, queue, current, armed, aim, approved>>
  BY DEF Ask!Respond, Ask!LoseCall, Ask!dialogVars, Ask!backendVars
<1>2. CASE UNCHANGED <<prompt, registry>>
  <2>1. PromptTypes' /\ WaitsForItsOwn'
    BY <1>1, <1>2 DEF PromptsInv, PromptTypes, WaitsForItsOwn, EventLists
  <2>2. \A i \in 1 .. raised : IsOpen(i) => IsOpen(i)'
    BY <1>1, <1>2 DEF IsOpen
  <2>3. Dialog' = Dialog /\ Dialog \subseteq 1 .. raised /\ \A i : Announced(i)' = Announced(i)
    BY <1>0, <1>1 DEF Dialog, Elements, PromptsInv, PromptTypes, Announced
  <2>4. DialogIsOpen'
    BY <1>1, <2>2, <2>3 DEF PromptsInv, DialogIsOpen
  <2>5. Aimed' /\ Ask!RegistryExact' /\ Ask!TrustWasMeant'
    BY <1>1, <1>2 DEF PromptsInv, Aimed, Ask!RegistryExact, Ask!TrustWasMeant
  <2> QED
    BY <2>1, <2>4, <2>5 DEF PromptsInv
<1>3. CASE /\ call.prompt \in registry
           /\ registry' = registry \ {call.prompt}
           /\ prompt' = [prompt EXCEPT ![call.prompt].answer = IF call.accept THEN "accept" ELSE "reject"]
  <2>1. PICK p \in 1 .. raised : p = call.prompt
    BY <1>0
  <2>2. PICK answer \in {"accept", "reject"} :
          answer = IF call.accept THEN "accept" ELSE "reject"
    OBVIOUS
  <2> DEFINE x == [prompt[p] EXCEPT !.answer = answer]
  <2>3. prompt' = [prompt EXCEPT ![p] = x]
    BY <1>3, <2>1, <2>2
  <2>4. /\ x \in Ask!Prompt /\ x.decision = prompt[p].decision /\ x.answer = answer
        /\ x.facts = prompt[p].facts
    BY <1>0 DEF Ask!Prompt
  <2> HIDE DEF x
  <2>5. /\ prompt' \in [1 .. raised -> Ask!Prompt]
        /\ \A i \in 1 .. raised : prompt'[i] = IF i = p THEN x ELSE prompt[i]
    BY <1>0, <2>3, <2>4
  <2>6. PromptTypes'
    BY <1>1, <2>5 DEF PromptsInv, PromptTypes
  <2>7. WaitsForItsOwn'
    BY <1>1, <2>4, <2>5 DEF PromptsInv, WaitsForItsOwn
  <2>8. ~IsOpen(p)
    BY <2>1 DEF IsOpen
  <2>9. \A i \in 1 .. raised : IsOpen(i) => IsOpen(i)'
    BY <1>1, <2>5, <2>8 DEF IsOpen
  <2>10. Dialog' = Dialog /\ Dialog \subseteq 1 .. raised /\ \A i : Announced(i)' = Announced(i)
    BY <1>0, <1>1 DEF Dialog, Elements, PromptsInv, PromptTypes, Announced
  <2>11. DialogIsOpen'
    BY <1>1, <2>9, <2>10 DEF PromptsInv, DialogIsOpen
  <2>12. Aimed'
    BY <1>1 DEF PromptsInv, Aimed
  <2>13. Ask!RegistryExact'
    BY <1>1, <1>3, <2>1, <2>2, <2>4, <2>5 DEF PromptsInv, Ask!RegistryExact
  <2>14. Ask!TrustWasMeant'
    <3>1. answer = "accept" => x.facts \in approved
      BY <2>1, <2>2, <2>4 DEF PromptsInv, Ask!TrustWasMeant
    <3>2. \A c \in calls : c.prompt \in 1 .. raised
      BY DEF PromptsInv, PromptTypes
    <3>3. \A i \in 1 .. raised : prompt'[i].facts = prompt[i].facts
      BY <2>4, <2>5
    <3>4. \A i \in 1 .. raised :
            prompt'[i].answer = "accept" \/ prompt'[i].decision = "accepted" =>
              prompt'[i].facts \in approved
      <4> TAKE i \in 1 .. raised
      <4>1. CASE i = p
        BY <2>4, <2>5, <3>1, <4>1 DEF PromptsInv, Ask!TrustWasMeant
      <4>2. CASE i # p
        BY <2>5, <4>2 DEF PromptsInv, Ask!TrustWasMeant
      <4> QED
        BY <4>1, <4>2
    <3> QED
      BY <1>1, <3>2, <3>3, <3>4 DEF PromptsInv, Ask!TrustWasMeant
  <2> QED
    BY <2>6, <2>7, <2>11, <2>12, <2>13, <2>14 DEF PromptsInv
<1> QED
  BY <1>2, <1>3 DEF Ask!Respond, Ask!LoseCall, Ask!backendVars

LEMMA DismissResetStep ==
  ASSUME PromptsInv, Ask!DismissReset
  PROVE  PromptsInv'
<1>1. /\ reset' = FALSE
      /\ UNCHANGED <<conn, known, raised, prompt, registry, events, calls, queue, current, armed,
                     aim, approved>>
  BY DEF Ask!DismissReset, Ask!dialogVars
<1>2. PromptTypes'
  BY <1>1 DEF PromptsInv, PromptTypes, EventLists
<1>3. WaitsForItsOwn' /\ Aimed'
  BY <1>1 DEF PromptsInv, WaitsForItsOwn, Aimed
<1>4. DialogIsOpen'
  BY <1>1 DEF PromptsInv, DialogIsOpen, Dialog, Announced, IsOpen
<1>5. Ask!RegistryExact' /\ Ask!TrustWasMeant'
  BY <1>1 DEF PromptsInv, Ask!RegistryExact, Ask!TrustWasMeant
<1> QED
  BY <1>2, <1>3, <1>4, <1>5 DEF PromptsInv

-----------------------------------------------------------------------------
(* The dialog. *)

LEMMA TheLeft ==
  ASSUME NEW S, NEW q \in Seq(S), NEW D
  PROVE  /\ Ask!Without(q, D) \in Seq(S)
         /\ Elements(Ask!Without(q, D)) = Elements(q) \ D
         /\ Distinct(q) => Distinct(Ask!Without(q, D))
<1>1. Ask!Without(q, D) = Without(q, D)
  BY DEF Ask!Without, Without
<1> QED
  BY <1>1, WithoutFacts

\* The dialog goes on with a list q of open prompts.
LEMMA ShowsTheFirst ==
  ASSUME raised \in Nat, NEW q \in Seq(1 .. raised), Distinct(q), armed \in BOOLEAN, Ask!ShowFirst(q)
  PROVE  /\ queue' \in Seq(1 .. raised) /\ current' \in 0 .. raised /\ armed' \in BOOLEAN
         /\ Distinct(queue') /\ current' \notin Elements(queue')
         /\ Elements(queue') \cup ({current'} \ {0}) = Elements(q)
         /\ armed' => current' = 0
<1>1. CASE q = <<>>
  BY <1>1 DEF Ask!ShowFirst, Elements, Distinct, Ask!NoPrompt
<1>2. CASE q # <<>>
  <2>1. current' = Head(q) /\ queue' = Tail(q) /\ ~armed' /\ armed' \in BOOLEAN
    BY <1>2 DEF Ask!ShowFirst
  <2>2. /\ Head(q) = q[1] /\ q[1] \in 1 .. raised /\ Tail(q) \in Seq(1 .. raised)
        /\ Len(q) \in Nat /\ Len(q) >= 1 /\ Len(Tail(q)) = Len(q) - 1
        /\ \A i \in 1 .. Len(q) - 1 : Tail(q)[i] = q[i + 1]
    BY <1>2
  <2>3. Elements(q) = Elements(Tail(q)) \cup {q[1]}
    <3>1. ASSUME NEW i \in 1 .. Len(q) PROVE q[i] = q[1] \/ \E j \in 1 .. Len(q) - 1 : q[i] = Tail(q)[j]
      <4>1. i = 1 \/ (i - 1 \in 1 .. Len(q) - 1 /\ Tail(q)[i - 1] = q[i])
        BY <2>2
      <4> QED
        BY <4>1
    <3>2. ASSUME NEW j \in 1 .. Len(q) - 1 PROVE \E i \in 1 .. Len(q) : q[i] = Tail(q)[j]
      BY <2>2
    <3> QED
      BY <2>2, <3>1, <3>2 DEF Elements
  <2>4. q[1] \notin Elements(Tail(q)) /\ Distinct(Tail(q))
    BY <2>2 DEF Elements, Distinct
  <2> QED
    BY <2>1, <2>2, <2>3, <2>4
<1> QED
  BY <1>1, <1>2

\* What the dialog shows next is open, and not announced any more.
LEMMA DialogMoves ==
  ASSUME PromptTypes, WaitsForItsOwn, Ask!RegistryExact,
         UNCHANGED <<conn, known, reset, raised, prompt, registry>>,
         (Ask!TrustWasMeant)', calls' \subseteq [prompt : 1 .. raised, accept : BOOLEAN],
         aim' \in 0 .. raised, approved' \subseteq Ask!Facts,
         events' \in [1 .. raised -> EventLists],
         \A p \in 1 .. raised : prompt[p].decision = "none" => events'[p] \in {<<>>, <<"prompt">>},
         queue' \in Seq(1 .. raised), current' \in 0 .. raised, armed' \in BOOLEAN,
         Distinct(queue'), current' \notin Elements(queue'),
         \A p \in Elements(queue') \cup ({current'} \ {0}) : IsOpen(p)',
         \A p \in 1 .. raised :
           Announced(p)' => IsOpen(p)' /\ p \notin Elements(queue') \cup ({current'} \ {0}),
         armed' /\ current' # 0 => aim' \in {0, current'}
  PROVE  PromptsInv'
<1>1. PromptTypes'
  BY DEF PromptTypes
<1>2. WaitsForItsOwn'
  BY DEF WaitsForItsOwn
<1>3. DialogIsOpen'
  BY DEF DialogIsOpen, Dialog, Distinct, Elements
<1>4. Aimed'
  BY DEF Aimed
<1>5. Ask!RegistryExact'
  BY DEF Ask!RegistryExact
<1> QED
  BY <1>1, <1>2, <1>3, <1>4, <1>5 DEF PromptsInv

LEMMA Delivered ==
  ASSUME PromptsInv, NEW p, Ask!DeliverEvent(p)
  PROVE  PromptsInv'
<1>0. /\ raised \in Nat /\ p \in 1 .. raised /\ queue \in Seq(1 .. raised)
      /\ current \in 0 .. raised /\ armed \in BOOLEAN /\ events[p] # <<>>
      /\ Distinct(queue) /\ current \notin Elements(queue)
      /\ events \in [1 .. raised -> EventLists]
      /\ Elements(queue) \subseteq 1 .. raised
  BY TheRoutes DEF PromptsInv, PromptTypes, DialogIsOpen, Ask!DeliverEvent, Elements
<1>1. /\ events' = [events EXCEPT ![p] = Tail(@)]
      /\ UNCHANGED <<conn, known, reset, raised, prompt, registry, calls, aim, approved>>
  BY DEF Ask!DeliverEvent, Ask!backendVars
<1>2. /\ Tail(<<"prompt">>) = <<>> /\ Tail(<<"closed">>) = <<>>
      /\ Tail(<<"prompt", "closed">>) = <<"closed">>
  OBVIOUS
<1>3. /\ events' \in [1 .. raised -> EventLists]
      /\ \A i \in 1 .. raised : i # p => events'[i] = events[i]
      /\ events'[p] \in {<<>>, <<"closed">>}
      /\ prompt[p].decision = "none" => events'[p] = <<>>
  <2>1. events[p] \in {<<"prompt">>, <<"closed">>, <<"prompt", "closed">>}
    BY <1>0 DEF EventLists
  <2>2. events'[p] = Tail(events[p]) /\ \A i \in 1 .. raised : i # p => events'[i] = events[i]
    BY <1>0, <1>1
  <2>3. events'[p] \in {<<>>, <<"closed">>}
    BY <1>2, <2>1, <2>2
  <2>4. events' \in [1 .. raised -> EventLists]
    BY <1>0, <1>1, <2>3 DEF EventLists
  <2>5. prompt[p].decision = "none" => events[p] = <<"prompt">>
    BY <1>0 DEF PromptsInv, WaitsForItsOwn
  <2> QED
    BY <1>2, <2>2, <2>3, <2>4, <2>5
<1>4. \A i \in 1 .. raised : prompt[i].decision = "none" => events'[i] \in {<<>>, <<"prompt">>}
  BY <1>3 DEF PromptsInv, WaitsForItsOwn
<1>5. \A i \in 1 .. raised : IsOpen(i)' = IsOpen(i)
  BY <1>1 DEF IsOpen
<1>6. \A i \in 1 .. raised : Announced(i)' => i # p /\ Announced(i)
  <2>1. ~Announced(p)'
    <3>1. <<"closed">>[1] = "closed" /\ "closed" # "prompt"
      OBVIOUS
    <3> QED
      BY <1>3, <3>1 DEF Announced
  <2> QED
    BY <1>3, <2>1 DEF Announced
<1>7. (Ask!TrustWasMeant)'
  BY <1>1 DEF PromptsInv, Ask!TrustWasMeant
<1>8. /\ queue' \in Seq(1 .. raised) /\ current' \in 0 .. raised /\ armed' \in BOOLEAN
      /\ Distinct(queue') /\ current' \notin Elements(queue')
      /\ armed' /\ current' # 0 => armed /\ current' = current
      /\ \/ Elements(queue') \cup ({current'} \ {0}) \subseteq Dialog
         \/ Announced(p) /\ Elements(queue') \cup ({current'} \ {0}) \subseteq Dialog \cup {p}
  <2>1. CASE Head(events[p]) = "prompt" /\ Ask!QueuePrompt(p)
    <3>1. Announced(p) /\ p \notin Dialog
      BY <1>0, <2>1 DEF Announced, PromptsInv, DialogIsOpen
    <3> DEFINE q == Append(queue, p)
    <3>2. q \in Seq(1 .. raised) /\ Elements(q) = Elements(queue) \cup {p} /\ Distinct(q)
      <4>1. p \notin Elements(queue)
        BY <3>1 DEF Dialog
      <4> QED
        BY <1>0, <4>1, AppendElements
    <3> HIDE DEF q
    <3>3. CASE current = 0 /\ Ask!ShowFirst(q)
      BY <1>0, <3>1, <3>2, <3>3, ShowsTheFirst DEF Dialog
    <3>4. CASE current # 0 /\ queue' = q /\ UNCHANGED <<current, armed>>
      <4>1. p # current
        BY <1>0, <3>1, <3>4 DEF Dialog
      <4> QED
        BY <1>0, <3>1, <3>2, <3>4, <4>1 DEF Dialog
    <3> QED
      BY <2>1, <3>3, <3>4 DEF Ask!QueuePrompt, Ask!NoPrompt, q
  <2>2. CASE Ask!DropClosed(p)
    <3> DEFINE q == Ask!Without(queue, {p})
    <3>1. q \in Seq(1 .. raised) /\ Elements(q) = Elements(queue) \ {p} /\ Distinct(q)
      BY <1>0, TheLeft
    <3> HIDE DEF q
    <3>2. CASE current = p /\ Ask!ShowFirst(q)
      BY <1>0, <3>1, <3>2, ShowsTheFirst DEF Dialog
    <3>3. CASE current # p /\ queue' = q /\ UNCHANGED <<current, armed>>
      BY <1>0, <3>1, <3>3 DEF Dialog
    <3> QED
      BY <2>2, <3>2, <3>3 DEF Ask!DropClosed, q
  <2> QED
    BY <2>1, <2>2 DEF Ask!DeliverEvent
<1> QED
  <2>1. PromptTypes /\ WaitsForItsOwn /\ Ask!RegistryExact
    BY DEF PromptsInv
  <2>2. /\ calls' \subseteq [prompt : 1 .. raised, accept : BOOLEAN] /\ aim' \in 0 .. raised
        /\ approved' \subseteq Ask!Facts
    BY <1>1 DEF PromptsInv, PromptTypes
  <2>3. /\ \A i \in Dialog : IsOpen(i) /\ ~Announced(i) /\ i \in 1 .. raised
        /\ \A i \in 1 .. raised : Announced(i) => IsOpen(i) /\ i \notin Dialog
    BY <1>0 DEF PromptsInv, DialogIsOpen, Dialog
  <2> DEFINE next == Elements(queue') \cup ({current'} \ {0})
  <2>4. \A i \in next : IsOpen(i)'
    BY <1>0, <1>5, <1>8, <2>3
  <2>5. \A i \in 1 .. raised : Announced(i)' => IsOpen(i)' /\ i \notin next
    BY <1>5, <1>6, <1>8, <2>3
  <2>6. armed' /\ current' # 0 => aim' \in {0, current'}
    BY <1>1, <1>8 DEF PromptsInv, Aimed
  <2> HIDE DEF Announced, IsOpen
  <2> QED
    BY <1>1, <1>3, <1>4, <1>7, <1>8, <2>1, <2>2, <2>4, <2>5, <2>6, DialogMoves

LEMMA ButtonSteps ==
  ASSUME PromptsInv, Ask!ArmTrust \/ Ask!AimAtTrust
  PROVE  PromptsInv'
<1>1. /\ UNCHANGED <<conn, known, reset, raised, prompt, registry, events, calls, queue, current,
                     approved>>
      /\ \/ armed' = TRUE /\ aim \in {0, current} /\ UNCHANGED aim
         \/ aim' = current /\ UNCHANGED armed
  BY DEF Ask!ArmTrust, Ask!AimAtTrust, Ask!backendVars, Ask!dialogVars, Ask!NoPrompt
<1>2. armed' \in BOOLEAN
  BY <1>1 DEF PromptsInv, PromptTypes
<1>3. PromptTypes'
  BY <1>1, <1>2 DEF PromptsInv, PromptTypes, EventLists
<1>4. WaitsForItsOwn' /\ Ask!RegistryExact' /\ Ask!TrustWasMeant'
  BY <1>1 DEF PromptsInv, WaitsForItsOwn, Ask!RegistryExact, Ask!TrustWasMeant
<1>5. DialogIsOpen'
  BY <1>1 DEF PromptsInv, DialogIsOpen, Dialog, Announced, IsOpen
<1>6. Aimed'
  BY <1>1 DEF Aimed
<1> QED
  BY <1>3, <1>4, <1>5, <1>6 DEF PromptsInv

\* The answer for the prompt on screen goes to all that are like it, and what is
\* left on the dialog is open.
LEMMA Answered ==
  ASSUME PromptsInv, NEW accept \in BOOLEAN, Ask!Answer(accept), current # 0,
         approved \subseteq approved', approved' \subseteq Ask!Facts, aim' \in 0 .. raised,
         accept => prompt[current].facts \in approved',
         UNCHANGED <<conn, known, reset, raised, prompt, registry, events>>
  PROVE  PromptsInv'
<1>0. /\ raised \in Nat /\ queue \in Seq(1 .. raised) /\ Distinct(queue)
      /\ current \in 1 .. raised /\ armed \in BOOLEAN /\ current \notin Elements(queue)
      /\ Elements(queue) \subseteq 1 .. raised
      /\ calls \subseteq [prompt : 1 .. raised, accept : BOOLEAN]
  BY TheRoutes DEF PromptsInv, PromptTypes, DialogIsOpen, Elements
<1> DEFINE like == {p \in Elements(queue) : prompt[p].facts = prompt[current].facts}
           q == Ask!Without(queue, like)
           gone == {current} \cup like
<1>1. calls' = calls \cup [prompt : gone, accept : {accept}] /\ Ask!ShowFirst(q)
  <2>1. Ask!ToSet(queue) = Elements(queue)
    <3>1. DOMAIN queue = 1 .. Len(queue)
      BY <1>0
    <3> QED
      BY <3>1 DEF Ask!ToSet, Elements
  <2> QED
    BY <2>1 DEF Ask!Answer, Ask!SameKey
<1>2. q \in Seq(1 .. raised) /\ Elements(q) = Elements(queue) \ like /\ Distinct(q)
  BY <1>0, TheLeft
<1>3. gone \subseteq Dialog /\ \A p \in gone : p \in 1 .. raised /\ prompt[p].facts = prompt[current].facts
  BY <1>0 DEF Dialog
<1>4. Elements(q) \subseteq Dialog \ gone
  BY <1>0, <1>2 DEF Dialog
<1> HIDE DEF q, gone
<1>5. /\ queue' \in Seq(1 .. raised) /\ current' \in 0 .. raised /\ armed' \in BOOLEAN
      /\ Distinct(queue') /\ current' \notin Elements(queue')
      /\ Elements(queue') \cup ({current'} \ {0}) = Elements(q)
      /\ armed' => current' = 0
  BY <1>0, <1>1, <1>2, ShowsTheFirst
<1>6. \A call \in calls' : call \in calls \/ (call.prompt \in gone /\ call.accept = accept)
  BY <1>1
<1>7. calls' \subseteq [prompt : 1 .. raised, accept : BOOLEAN]
  BY <1>0, <1>1, <1>3
<1>8. \A p : IsOpen(p) /\ p \notin gone => IsOpen(p)'
  BY <1>6 DEF IsOpen
<1>9. (Ask!TrustWasMeant)'
  <2>1. \A call \in calls' : call.accept => prompt[call.prompt].facts \in approved'
    BY <1>3, <1>6 DEF PromptsInv, Ask!TrustWasMeant
  <2> QED
    BY <2>1 DEF PromptsInv, Ask!TrustWasMeant
<1>10. \A p : Announced(p)' = Announced(p)
  BY DEF Announced
<1>11. /\ \A p \in Dialog : IsOpen(p)
       /\ \A p \in 1 .. raised : Announced(p) => IsOpen(p) /\ p \notin Dialog
  BY DEF PromptsInv, DialogIsOpen
<1> DEFINE next == Elements(queue') \cup ({current'} \ {0})
<1>12. \A p \in next : IsOpen(p)'
  BY <1>4, <1>5, <1>8, <1>11
<1>13. \A p \in 1 .. raised : Announced(p)' => IsOpen(p)' /\ p \notin next
  BY <1>3, <1>4, <1>5, <1>8, <1>10, <1>11
<1>14. PromptTypes /\ WaitsForItsOwn /\ Ask!RegistryExact
  BY DEF PromptsInv
<1>15. /\ events' \in [1 .. raised -> EventLists]
       /\ \A p \in 1 .. raised : prompt[p].decision = "none" => events'[p] \in {<<>>, <<"prompt">>}
  BY DEF PromptsInv, PromptTypes, WaitsForItsOwn
<1> HIDE DEF Announced, IsOpen
<1> QED
  BY <1>5, <1>7, <1>9, <1>12, <1>13, <1>14, <1>15, DialogMoves

LEMMA ClickSteps ==
  ASSUME PromptsInv, Ask!ClickTrust \/ Ask!ClickReject
  PROVE  PromptsInv'
<1>1. CASE Ask!ClickReject
  <2>1. Ask!Answer(FALSE) /\ current # 0 /\ UNCHANGED <<conn, known, reset, raised, prompt, registry, events, aim, approved>>
    BY <1>1 DEF Ask!ClickReject, Ask!backendVars, Ask!NoPrompt
  <2>2. approved \subseteq Ask!Facts /\ aim \in 0 .. raised
    BY DEF PromptsInv, PromptTypes
  <2> QED
    BY <2>1, <2>2, Answered
<1>2. CASE Ask!ClickTrust
  <2>1. /\ aim # 0 /\ aim' = 0 /\ approved' = approved \cup {prompt[aim].facts}
        /\ UNCHANGED <<conn, known, reset, raised, prompt, registry, events>>
        /\ \/ current # 0 /\ armed /\ Ask!Answer(TRUE)
           \/ UNCHANGED <<queue, current, armed, calls>>
    BY <1>2 DEF Ask!ClickTrust, Ask!backendVars, Ask!dialogVars, Ask!NoPrompt
  <2>2. /\ aim \in 1 .. raised /\ raised \in Nat /\ prompt[aim].facts \in Ask!Facts
        /\ approved \subseteq Ask!Facts
    BY <2>1, TheRoutes DEF PromptsInv, PromptTypes, Ask!Prompt
  <2>3. aim' \in 0 .. raised /\ approved \subseteq approved' /\ approved' \subseteq Ask!Facts
    BY <2>1, <2>2
  <2>4. CASE current # 0 /\ armed /\ Ask!Answer(TRUE)
    <3>1. prompt[current].facts \in approved'
      BY <2>1, <2>4 DEF PromptsInv, Aimed
    <3> QED
      BY <2>1, <2>3, <2>4, <3>1, Answered
  <2>5. CASE UNCHANGED <<queue, current, armed, calls>>
    <3>1. PromptTypes'
      BY <2>1, <2>3, <2>5 DEF PromptsInv, PromptTypes, EventLists
    <3>2. WaitsForItsOwn' /\ Ask!RegistryExact'
      BY <2>1, <2>5 DEF PromptsInv, WaitsForItsOwn, Ask!RegistryExact
    <3>3. DialogIsOpen' /\ Aimed'
      BY <2>1, <2>5 DEF PromptsInv, DialogIsOpen, Dialog, Announced, IsOpen, Aimed
    <3>4. Ask!TrustWasMeant'
      BY <2>1, <2>3, <2>5 DEF PromptsInv, Ask!TrustWasMeant
    <3> QED
      BY <3>1, <3>2, <3>3, <3>4 DEF PromptsInv
  <2> QED
    BY <2>1, <2>4, <2>5
<1> QED
  BY <1>1, <1>2

LEMMA PromptsStep ==
  ASSUME PromptsInv, Ask!Next
  PROVE  PromptsInv'
<1>1. CASE \E c \in Conns : Ask!ConnStep(c)
  <2>1. PICK c \in Conns : Ask!ConnStep(c)
    BY <1>1
  <2>2. CASE Ask!Start(c) \/ Ask!FailHandshake(c) \/ Ask!GiveUp(c)
    BY <2>2, ConnSteps
  <2>3. CASE \E k \in Keys : Ask!CheckServerKey(c, k)
    BY <2>3, CheckStep
  <2>4. CASE Ask!Decide(c) \/ Ask!TimeOut(c) \/ Ask!NoticeOwnerGone(c)
    BY <2>4, WaitEnds DEF Ask!Decide, Ask!TimeOut, Ask!NoticeOwnerGone
  <2>5. CASE Ask!Persist(c)
    BY <2>5, PersistStep
  <2> QED
    BY <2>1, <2>2, <2>3, <2>4, <2>5 DEF Ask!ConnStep
<1>2. CASE \E call \in calls : Ask!Respond(call) \/ Ask!LoseCall(call)
  BY <1>2, CallSteps
<1>3. CASE \E p \in Ask!PromptIds : Ask!DeliverEvent(p)
  BY <1>3, Delivered
<1>4. CASE Ask!DismissReset \/ Ask!ArmTrust \/ Ask!AimAtTrust \/ Ask!ClickTrust \/ Ask!ClickReject
  BY <1>4, DismissResetStep, ButtonSteps, ClickSteps
<1> QED
  BY <1>1, <1>2, <1>3, <1>4 DEF Ask!Next

LEMMA PromptsInvariant == PartSpec => []PromptsInv
<1>1. PartInit => PromptsInv
  BY PromptsInit DEF PartInit
<1>2. PromptsInv /\ [PartNext]_allVars => PromptsInv'
  <2> SUFFICES ASSUME PromptsInv, [PartNext]_allVars PROVE PromptsInv'
    OBVIOUS
  <2>1. CASE UNCHANGED askVars
    <3>1. UNCHANGED <<conn, known, reset, raised, prompt, registry, events, calls, queue, current,
                      armed, aim, approved>>
      BY <2>1 DEF askVars
    <3>2. PromptTypes' /\ WaitsForItsOwn' /\ Aimed'
      BY <3>1 DEF PromptsInv, PromptTypes, EventLists, WaitsForItsOwn, Aimed
    <3>3. DialogIsOpen' /\ Ask!RegistryExact' /\ Ask!TrustWasMeant'
      BY <3>1 DEF PromptsInv, DialogIsOpen, Dialog, Announced, IsOpen, Ask!RegistryExact,
         Ask!TrustWasMeant
    <3> QED
      BY <3>2, <3>3 DEF PromptsInv
  <2>2. CASE Ask!Next
    BY <2>2, PromptsStep
  <2> QED
    BY <2>1, <2>2 DEF PartNext, StoreRuns, PromptsRun, allVars
<1> QED
  BY <1>1, <1>2, PTL DEF PartSpec

\* Whatever the timing of clicks, timeouts, lost calls and dropped connections, no
\* key is let through or recorded that the user did not click Trust for, while it
\* was on screen or was the same key for the same host (hostKeyDialog.ts respond,
\* armTrustLater; ssh/handler.rs check_server_key).
THEOREM OnlyTheMeantIsTrusted == PartSpec => []TrustIsMeant
<1>1. PromptsInv => TrustIsMeant
  BY PromptsTypes DEF PromptsInv, TrustIsMeant
<1> QED
  BY <1>1, PromptsInvariant, PTL

\* The registry has exactly the prompts a handler waits on, and the dialog shows
\* none that was answered (prompts.rs PromptGuard, respond; hostKeyDialog.ts
\* takeSameKey).
THEOREM PromptsStayOpen == PartSpec => []PromptsAreOpen
<1>1. PromptsInv => PromptsAreOpen
  <2> SUFFICES ASSUME PromptsInv PROVE PromptsAreOpen
    OBVIOUS
  <2>1. Ask!OnDialog = Dialog
    <3>1. DOMAIN queue = 1 .. Len(queue)
      BY DEF PromptsInv, PromptTypes
    <3> QED
      BY <3>1 DEF Ask!OnDialog, Dialog, Ask!ToSet, Elements, Ask!NoPrompt
  <2> QED
    BY <2>1 DEF PromptsInv, DialogIsOpen, IsOpen, PromptsAreOpen, Ask!ShownIsUnanswered
<1> QED
  BY <1>1, PromptsInvariant, PTL
=============================================================================
