--------------------------- MODULE NetworkProofs ----------------------------
(***************************************************************************)
(* Theorems about what goes through an SSH connection beside a shell, for   *)
(* every limit, amount of data, request, display, Xauthority file and set    *)
(* of forwards. Each part (Relay, X11, Socks, Tunnel, in this order) has an  *)
(* inductive invariant of its own; while another part runs, it says nothing. *)
(***************************************************************************)
EXTENDS MCConnection, FiniteSetTheorems, ListFacts, TLAPS

-----------------------------------------------------------------------------
(* Relay: the invariant is a conjunction of small parts, each preserved by a *)
(* lemma of its own, from the few other parts it needs.                      *)


\* The types by kind: amounts of data, where each half is, what is known.
Counts ==
  /\ channel \in 0 .. Bytes /\ read \in 0 .. channel /\ delivered \in 0 .. read
  /\ sent \in 0 .. Uploads /\ uploaded \in 0 .. sent
  /\ ready \in 0 .. Chunk

Phases ==
  /\ bridge \in {"open", "draining", "ok", "failed"}
  /\ drain \in {"idle", "armed", "waiting", "reading", "done", "dropped"}
  /\ deliver \in {"idle", "armed", "waiting", "writing", "done", "dropped"}
  /\ upload \in {"copying", "done", "failed"}
  /\ client \in {"reading", "paused", "closed"}
  /\ taken \in {"none", "armed", "notified"} /\ filled \in {"none", "armed", "notified"}

Flags ==
  /\ jump \in BOOLEAN
  /\ remoteEnded \in BOOLEAN /\ finished \in BOOLEAN
  /\ clientEnded \in BOOLEAN /\ idle \in BOOLEAN

\* What the delivery peeked is still queued: the drain only adds to it.
PeekedIsQueued == deliver = "writing" => ready <= Pipe!Queued

\* The drain reads only where it found room: the delivery only makes more.
ReadsWithRoom == drain = "reading" => Pipe!HasRoom

\* A drain whose registration was not used up has seen nothing taken since, and
\* waits only because there was no room.
WaitingIsIdle == drain \in {"armed", "waiting"} /\ taken = "armed" => idle
WaitingIsFull == drain = "waiting" /\ taken = "armed" => ~Pipe!HasRoom

\* How a jump host's stream may come to its end.
DrainEnded == drain = "done" => remoteEnded
UploadEnded ==
  /\ upload = "done" => uploaded = sent /\ clientEnded
  /\ jump /\ upload = "failed" => remoteEnded
BridgeEnded == jump /\ bridge # "open" => remoteEnded \/ upload # "copying"

RelayInv ==
  /\ Counts /\ Phases /\ Flags
  /\ PeekedIsQueued /\ ReadsWithRoom
  /\ WaitingIsIdle /\ WaitingIsFull
  /\ DrainEnded /\ UploadEnded /\ BridgeEnded
  /\ Pipe!BacklogBounded

-----------------------------------------------------------------------------

LEMMA RelayInit ==
  ASSUME Pipe!RelayConstants, Pipe!Init
  PROVE  RelayInv
<1>1. Counts
  BY DEF Counts, Pipe!RelayConstants, Pipe!Init
<1>2. Phases /\ Flags
  BY DEF Phases, Flags, Pipe!Init
<1>3. PeekedIsQueued /\ ReadsWithRoom /\ WaitingIsIdle /\ WaitingIsFull
  BY DEF PeekedIsQueued, ReadsWithRoom, WaitingIsIdle, WaitingIsFull, Pipe!Init
<1>4. DrainEnded /\ UploadEnded /\ BridgeEnded
  BY DEF DrainEnded, UploadEnded, BridgeEnded, Pipe!Init
<1>5. Pipe!BacklogBounded
  BY DEF Pipe!BacklogBounded, Pipe!Queued, Pipe!RelayConstants, Pipe!Init
<1> QED
  BY <1>1, <1>2, <1>3, <1>4, <1>5 DEF RelayInv

\* Amounts only grow, each within the one it is a part of; a delivery stays
\* within what was peeked.
LEMMA CountsStep ==
  ASSUME Pipe!RelayConstants, Counts, PeekedIsQueued, Pipe!Next
  PROVE  Counts'
<1> USE DEF Counts, Pipe!RelayConstants
<1>1. CASE Pipe!Ends
  BY <1>1 DEF Pipe!Ends, Pipe!RemoteSends, Pipe!ClientActs, Pipe!downstream, Pipe!upstream
<1>2. CASE Pipe!DrainReads
  BY <1>2 DEF Pipe!DrainReads, Pipe!Least, Pipe!upstream
<1>3. CASE Pipe!Peek
  BY <1>3 DEF Pipe!Peek, Pipe!Least, Pipe!Queued, Pipe!upstream
<1>4. CASE Pipe!Deliver
  BY <1>4 DEF Pipe!Deliver, PeekedIsQueued, Pipe!Queued, Pipe!upstream
<1>5. CASE Pipe!Upload \/ Pipe!UploadFails
  BY <1>5 DEF Pipe!Upload, Pipe!UploadFails, Pipe!downstream
<1>6. CASE Pipe!WaitForRoom \/ Pipe!Stall \/ Pipe!BrokenPipe \/ Pipe!BridgeDone \/ Pipe!EitherEnds \/ Pipe!DropRemote
  BY <1>6 DEF Pipe!WaitForRoom, Pipe!Stall, Pipe!BrokenPipe, Pipe!BridgeDone, Pipe!EitherEnds,
     Pipe!DropRemote,
              Pipe!downstream, Pipe!upstream
<1> QED
  BY <1>1, <1>2, <1>3, <1>4, <1>5, <1>6 DEF Pipe!Next, Pipe!BridgeStep

LEMMA PhasesStep ==
  ASSUME Phases, Pipe!Next
  PROVE  Phases'
<1> USE DEF Phases, Pipe!downstream, Pipe!upstream
<1>1. CASE Pipe!Ends
  BY <1>1 DEF Pipe!Ends, Pipe!RemoteSends, Pipe!ClientActs
<1>2. CASE Pipe!WaitForRoom \/ Pipe!Stall \/ Pipe!DrainReads
  BY <1>2 DEF Pipe!WaitForRoom, Pipe!Stall, Pipe!DrainReads, Pipe!Notified
<1>3. CASE Pipe!Peek \/ Pipe!Deliver \/ Pipe!BrokenPipe
  BY <1>3 DEF Pipe!Peek, Pipe!Deliver, Pipe!BrokenPipe, Pipe!Notified
<1>4. CASE Pipe!Upload \/ Pipe!UploadFails \/ Pipe!BridgeDone \/ Pipe!EitherEnds \/ Pipe!DropRemote
  BY <1>4 DEF Pipe!Upload, Pipe!UploadFails, Pipe!BridgeDone, Pipe!EitherEnds, Pipe!DropRemote
<1> QED
  BY <1>1, <1>2, <1>3, <1>4 DEF Pipe!Next, Pipe!BridgeStep

LEMMA FlagsStep ==
  ASSUME Flags, Pipe!Next
  PROVE  Flags'
<1> USE DEF Flags, Pipe!downstream, Pipe!upstream
<1>1. CASE Pipe!Ends
  BY <1>1 DEF Pipe!Ends, Pipe!RemoteSends, Pipe!ClientActs
<1>2. CASE Pipe!WaitForRoom \/ Pipe!Stall \/ Pipe!DrainReads
  BY <1>2 DEF Pipe!WaitForRoom, Pipe!Stall, Pipe!DrainReads
<1>3. CASE Pipe!Peek \/ Pipe!Deliver \/ Pipe!BrokenPipe
  BY <1>3 DEF Pipe!Peek, Pipe!Deliver, Pipe!BrokenPipe
<1>4. CASE Pipe!Upload \/ Pipe!UploadFails \/ Pipe!BridgeDone \/ Pipe!EitherEnds \/ Pipe!DropRemote
  BY <1>4 DEF Pipe!Upload, Pipe!UploadFails, Pipe!BridgeDone, Pipe!EitherEnds, Pipe!DropRemote
<1> QED
  BY <1>1, <1>2, <1>3, <1>4 DEF Pipe!Next, Pipe!BridgeStep

-----------------------------------------------------------------------------
(* The backlog and its two halves. *)

LEMMA PeekedStep ==
  ASSUME Pipe!RelayConstants, Counts, PeekedIsQueued, Pipe!Next
  PROVE  PeekedIsQueued'
<1> USE DEF PeekedIsQueued, Pipe!Queued, Counts, Pipe!RelayConstants
<1>1. CASE Pipe!DrainReads
  BY <1>1 DEF Pipe!DrainReads, Pipe!Least
<1>2. CASE Pipe!Peek
  BY <1>2 DEF Pipe!Peek, Pipe!Least
<1>3. CASE Pipe!Deliver
  BY <1>3 DEF Pipe!Deliver
<1>4. CASE Pipe!Ends \/ Pipe!WaitForRoom \/ Pipe!Upload \/ Pipe!UploadFails
  BY <1>4 DEF Pipe!Ends, Pipe!RemoteSends, Pipe!ClientActs, Pipe!WaitForRoom, Pipe!Upload,
     Pipe!UploadFails,
              Pipe!downstream
<1>5. CASE Pipe!Stall \/ Pipe!BrokenPipe \/ Pipe!BridgeDone \/ Pipe!EitherEnds \/ Pipe!DropRemote
  BY <1>5 DEF Pipe!Stall, Pipe!BrokenPipe, Pipe!BridgeDone, Pipe!EitherEnds, Pipe!DropRemote,
     Pipe!downstream
<1> QED
  BY <1>1, <1>2, <1>3, <1>4, <1>5 DEF Pipe!Next, Pipe!BridgeStep

\* A step that neither is the drain's nor delivers leaves its room alone, and the
\* drain where it is unless it drops it.
LEMMA DrainUntouched ==
  ASSUME Pipe!Next, ~Pipe!WaitForRoom, ~Pipe!DrainReads, ~Pipe!Deliver
  PROVE  UNCHANGED <<jump, read, delivered, taken, idle>> /\ drain' \in {drain, "dropped"}
BY DEF Pipe!Next, Pipe!BridgeStep, Pipe!Ends, Pipe!RemoteSends, Pipe!ClientActs, Pipe!Stall,
   Pipe!Peek,
       Pipe!BrokenPipe, Pipe!Upload, Pipe!UploadFails, Pipe!BridgeDone, Pipe!EitherEnds, Pipe!DropRemote,
       Pipe!downstream

LEMMA RoomStep ==
  ASSUME Pipe!RelayConstants, Counts, Flags, PeekedIsQueued, ReadsWithRoom, Pipe!Next
  PROVE  ReadsWithRoom'
<1> USE DEF ReadsWithRoom, Pipe!HasRoom, Pipe!Queued, Flags
<1>1. CASE Pipe!WaitForRoom
  BY <1>1 DEF Pipe!WaitForRoom
<1>2. CASE Pipe!DrainReads
  BY <1>2 DEF Pipe!DrainReads
<1>3. CASE Pipe!Deliver
  BY <1>3 DEF Pipe!Deliver, PeekedIsQueued, Counts, Pipe!RelayConstants
<1> QED
  BY <1>1, <1>2, <1>3, DrainUntouched

\* Registered first, then looked: what is taken in between is noticed.
LEMMA WaitingStep ==
  ASSUME Flags, Phases, WaitingIsIdle, WaitingIsFull, Pipe!Next
  PROVE  WaitingIsIdle' /\ WaitingIsFull'
<1> USE DEF WaitingIsIdle, WaitingIsFull, Pipe!HasRoom, Pipe!Queued
<1>1. CASE Pipe!WaitForRoom
  BY <1>1 DEF Pipe!WaitForRoom, Flags
<1>2. CASE Pipe!DrainReads
  BY <1>2 DEF Pipe!DrainReads
<1>3. CASE Pipe!Deliver
  <2>1. taken' # "armed"
    BY <1>3 DEF Pipe!Deliver, Pipe!Notified
  <2> QED
    BY <2>1
<1> QED
  BY <1>1, <1>2, <1>3, DrainUntouched

LEMMA BacklogStep ==
  ASSUME Pipe!RelayConstants, Counts, Flags, PeekedIsQueued, ReadsWithRoom, Pipe!BacklogBounded, Pipe!Next
  PROVE  Pipe!BacklogBounded'
<1> USE DEF Pipe!BacklogBounded, Pipe!Queued, Counts, Flags, Pipe!RelayConstants
<1>1. CASE Pipe!WaitForRoom
  BY <1>1 DEF Pipe!WaitForRoom
<1>2. CASE Pipe!DrainReads
  BY <1>2 DEF Pipe!DrainReads, ReadsWithRoom, Pipe!HasRoom, Pipe!Least
<1>3. CASE Pipe!Deliver
  BY <1>3 DEF Pipe!Deliver, PeekedIsQueued
<1> QED
  BY <1>1, <1>2, <1>3, DrainUntouched

-----------------------------------------------------------------------------
(* How it ends. *)

LEMMA EndedStep ==
  ASSUME Phases, WaitingIsFull, DrainEnded, UploadEnded, BridgeEnded, Pipe!Next
  PROVE  DrainEnded' /\ UploadEnded' /\ BridgeEnded'
<1> USE DEF DrainEnded, UploadEnded, BridgeEnded, Pipe!downstream, Pipe!upstream
<1>1. CASE Pipe!Ends
  BY <1>1 DEF Pipe!Ends, Pipe!RemoteSends, Pipe!ClientActs
<1>2. CASE Pipe!WaitForRoom \/ Pipe!Stall \/ Pipe!DrainReads
  BY <1>2 DEF Pipe!WaitForRoom, Pipe!Stall, Pipe!DrainReads, WaitingIsFull, Pipe!HasRoom
<1>3. CASE Pipe!Peek \/ Pipe!Deliver \/ Pipe!BrokenPipe
  BY <1>3 DEF Pipe!Peek, Pipe!Deliver, Pipe!BrokenPipe, Pipe!Running
<1>4. CASE Pipe!Upload \/ Pipe!UploadFails
  BY <1>4 DEF Pipe!Upload, Pipe!UploadFails, Pipe!Running
<1>5. CASE Pipe!EitherEnds
  BY <1>5 DEF Pipe!EitherEnds, Pipe!RelayDone
<1>6. CASE Pipe!BridgeDone \/ Pipe!DropRemote
  BY <1>6 DEF Pipe!BridgeDone, Pipe!DropRemote
<1> QED
  BY <1>1, <1>2, <1>3, <1>4, <1>5, <1>6 DEF Pipe!Next, Pipe!BridgeStep

LEMMA RelayStep ==
  ASSUME Pipe!RelayConstants, RelayInv, [Pipe!Next]_Pipe!vars
  PROVE  RelayInv'
<1>1. CASE UNCHANGED Pipe!vars
  BY <1>1 DEF Pipe!vars, Pipe!downstream, Pipe!upstream, RelayInv, Counts, Phases, Flags,
     PeekedIsQueued,
              ReadsWithRoom, WaitingIsIdle, WaitingIsFull, DrainEnded, UploadEnded, BridgeEnded,
              Pipe!BacklogBounded, Pipe!HasRoom, Pipe!Queued
<1>2. CASE Pipe!Next
  BY <1>2, CountsStep, PhasesStep, FlagsStep, PeekedStep, RoomStep, WaitingStep, BacklogStep,
     EndedStep DEF RelayInv
<1> QED
  BY <1>1, <1>2

-----------------------------------------------------------------------------

\* The two halves of a relay agree, in every reachable state, on what is queued,
\* what is waited for and how it ends (relay.rs: relay, Backlog).
THEOREM RelayInvariant ==
  ASSUME Pipe!RelayConstants
  PROVE  Pipe!Spec => []RelayInv
<1>1. Pipe!Init => RelayInv
  BY RelayInit
<1>2. RelayInv /\ [Pipe!Next]_Pipe!vars => RelayInv'
  BY RelayStep
<1> QED
  BY <1>1, <1>2, PTL DEF Pipe!Spec

\* Every variable keeps its type, whatever the limit and the amounts.
THEOREM RelayTypeOK ==
  ASSUME Pipe!RelayConstants
  PROVE  Pipe!Spec => []Pipe!TypeOK
<1>1. RelayInv => Pipe!TypeOK
  BY DEF RelayInv, Counts, Phases, Flags, Pipe!TypeOK
<1> QED
  BY <1>1, RelayInvariant, PTL

\* However slow its client, a bridged connection holds less than the limit and one
\* read of it (wait_for_room).
THEOREM SlowClientsAreHeldUp ==
  ASSUME Pipe!RelayConstants
  PROVE  Pipe!Spec => []Pipe!BacklogBounded
<1>1. RelayInv => Pipe!BacklogBounded
  BY DEF RelayInv
<1> QED
  BY <1>1, RelayInvariant, PTL

\* A jump host's stream ends only with all of the local side's data sent, or after
\* the remote's end (bridge_until_either_ends).
THEOREM LastWordsGoOut ==
  ASSUME Pipe!RelayConstants
  PROVE  Pipe!Spec => []Pipe!LastWordsOut
<1>1. RelayInv => Pipe!LastWordsOut
  BY DEF RelayInv, Phases, UploadEnded, BridgeEnded, Pipe!LastWordsOut
<1> QED
  BY <1>1, RelayInvariant, PTL

\* One step: a bridge fails by a stall, its client's departure or its upload.
LEMMA CutStep ==
  ASSUME RelayInv, [Pipe!Next]_Pipe!vars, Pipe!Running, bridge' = "failed"
  PROVE  client = "closed" \/ upload' = "failed" \/ (idle /\ ~Pipe!HasRoom)
<1>1. CASE Pipe!Stall
  BY <1>1 DEF Pipe!Stall, RelayInv, WaitingIsIdle, WaitingIsFull
<1>2. CASE Pipe!BrokenPipe
  BY <1>2 DEF Pipe!BrokenPipe
<1>3. CASE ~Pipe!Stall /\ ~Pipe!BrokenPipe
  BY <1>3 DEF Pipe!Running, Pipe!Next, Pipe!BridgeStep, Pipe!Ends, Pipe!WaitForRoom,
     Pipe!DrainReads,
              Pipe!Peek, Pipe!Deliver, Pipe!Upload, Pipe!UploadFails, Pipe!BridgeDone, Pipe!EitherEnds,
              Pipe!DropRemote, Pipe!vars
<1> QED
  BY <1>1, <1>2, <1>3

\* A connection that no end broke off is cut only when its backlog is full and its
\* client took nothing since the wait began, for every limit and size of reads.
THEOREM CutsOnlyTheStalled ==
  ASSUME Pipe!RelayConstants
  PROVE  Pipe!Spec => Pipe!CutOnlyWhenStalled
<1>1. RelayInv /\ [Pipe!Next]_Pipe!vars
        => [Pipe!Running /\ bridge' = "failed" =>
              client = "closed" \/ upload' = "failed" \/ (idle /\ ~Pipe!HasRoom)]_Pipe!vars
  BY CutStep
<1> QED
  BY <1>1, RelayInvariant, PTL DEF Pipe!Spec, Pipe!CutOnlyWhenStalled

-----------------------------------------------------------------------------
(* X11, one channel at a time.                                               *)


-----------------------------------------------------------------------------
(* The cookie that is found. *)

\* find_cookie finds the cookie of an entry that names the server and the display.
LEMMA FoundCookieApplies ==
  ASSUME Screen!X11Constants, NEW f \in Files, NEW where, NEW number,
         Screen!FindCookie(f, where, number) # Screen!NoCookie
  PROVE  \E i \in DOMAIN f : /\ f[i].cookie = Screen!FindCookie(f, where, number)
                             /\ Screen!Matches(f[i], where, number)
<1> DEFINE whole == {i \in DOMAIN f : \A j \in 1..i : ~f[j].cut}
           hits == {i \in whole : Screen!Matches(f[i], where, number)}
           first == CHOOSE i \in hits : \A j \in hits : i <= j
<1>1. hits # {} /\ Screen!FindCookie(f, where, number) = f[first].cookie
  BY DEF Screen!FindCookie
<1>2. hits \subseteq Nat
  BY DEF Screen!X11Constants
<1>3. first \in hits
  BY <1>1, <1>2, LeastNatural
<1> QED
  BY <1>1, <1>3

-----------------------------------------------------------------------------
(* The invariant, one channel at a time. *)

Relayed == {"relayed", "over"}

\* Before its client showed the fake cookie, nothing goes to the X server.
ProvedItself(c) ==
  /\ phase[c] \in Screen!Opening \cup {"relayed"} => Screen!CarriesCookie(setup[c])
  /\ sent[c] # "nothing" => Screen!CarriesCookie(setup[c]) /\ phase[c] \in Relayed

\* What a channel was relayed with, and for which server.
CookieOf(c) ==
  sent[c] # "nothing" =>
    IF trusted
    THEN sent[c] # Screen!NoCookie =>
           \E f \in Files : \E i \in DOMAIN f :
             /\ f[i].cookie = sent[c] /\ f[i].magic
             /\ f[i].address \in {reached[c], "wild"}
             /\ f[i].number \in {Screen!AnyNumber, display.number}
    ELSE sent[c] = "generated"

\* Only an untrusted channel asks for a cookie.
AsksUntrusted(c) == phase[c] \in DOMAIN Screen!After \cup {"again"} => ~trusted

ChannelInv == \A c \in Channels : ProvedItself(c) /\ CookieOf(c) /\ AsksUntrusted(c)

\* What the user is warned of.
Problems == {"failure", "limit", "cookie"}

Channelwise ==
  /\ DOMAIN sent = Channels /\ DOMAIN reached = Channels
  /\ told \in Seq(Problems)

ScreenInv == Screen!TypeOK /\ Channelwise /\ ChannelInv /\ Screen!SlotsBounded /\ Screen!ToldOnce

LEMMA Stages ==
  /\ DOMAIN Screen!After = {"setup", "extension", "version", "generate"}
  /\ \A p \in DOMAIN Screen!After : Screen!After[p] \in {"extension", "version", "generate", "again"}
  /\ Screen!Opening = {"connecting", "again", "setup", "extension", "version", "generate"}
BY DEF Screen!After, Screen!Opening

\* X11's own counting is that of the library.
LEMMA ScreenCounting ==
  \A S : (Screen!IsFiniteSet(S) <=> IsFiniteSet(S)) /\ Screen!Cardinality(S) = Cardinality(S)
BY DEF Screen!IsFiniteSet, IsFiniteSet, Screen!Cardinality, Cardinality

LEMMA ScreenInit ==
  ASSUME Screen!X11Constants, Screen!Init
  PROVE  ScreenInv
<1> USE DEF Screen!Init
<1>1. Screen!TypeOK
  BY DEF Screen!TypeOK, Screen!Setups, Screen!NoSetup, Screen!NoCookie
<1>2. Channelwise
  <2>1. told \in Seq(Problems)
    <3>1. <<"failure">> \in Seq(Problems) /\ <<>> \in Seq(Problems)
      BY DEF Problems
    <3>2. told = <<"failure">> \/ told = <<>>
      OBVIOUS
    <3> QED
      BY <3>1, <3>2
  <2> QED
    BY <2>1 DEF Channelwise
<1>3. ChannelInv
  BY Stages DEF ChannelInv, ProvedItself, CookieOf, AsksUntrusted
<1>4. Screen!SlotsBounded
  <2>1. Screen!Holding = {}
    BY DEF Screen!Holding
  <2> QED
    BY <2>1, FS_EmptySet, ScreenCounting DEF Screen!SlotsBounded, Screen!X11Constants
<1>5. Screen!ToldOnce
  BY DEF Screen!ToldOnce
<1> QED
  BY <1>1, <1>2, <1>3, <1>4, <1>5 DEF ScreenInv

\* A warning is added once.
LEMMA WarnOnce ==
  ASSUME told \in Seq(Problems), Screen!ToldOnce, NEW what \in Problems, Screen!Warn(what)
  PROVE  told' \in Seq(Problems) /\ Screen!ToldOnce'
<1>1. CASE \E i \in DOMAIN told : told[i] = what
  BY <1>1 DEF Screen!Warn, Screen!ToldOnce
<1>2. CASE ~ \E i \in DOMAIN told : told[i] = what
  <2>1. told' = Append(told, what)
    BY <1>2 DEF Screen!Warn
  <2>2. /\ told' \in Seq(Problems)
        /\ DOMAIN told' = DOMAIN told \cup {Len(told) + 1} /\ DOMAIN told = 1 .. Len(told)
        /\ \A i \in DOMAIN told : told'[i] = told[i]
        /\ told'[Len(told) + 1] = what
    BY <2>1
  <2> QED
    BY <1>2, <2>2 DEF Screen!ToldOnce
<1> QED
  BY <1>1, <1>2

LEMMA NotWarned ==
  ASSUME told \in Seq(Problems), Screen!ToldOnce, UNCHANGED told
  PROVE  told' \in Seq(Problems) /\ Screen!ToldOnce'
BY DEF Screen!ToldOnce

-----------------------------------------------------------------------------

ChannelStep(c) ==
  \/ Screen!Open(c) \/ Screen!ReadSetup(c) \/ Screen!SetupTimesOut(c)
  \/ Screen!Connect(c) \/ Screen!Answered(c) \/ Screen!ConnectAgain(c)
  \/ Screen!NoExtension(c) \/ Screen!OpenFails(c) \/ Screen!RelayEnds(c)

LEMMA TypesStep ==
  ASSUME Screen!TypeOK, Channelwise, Screen!ToldOnce, NEW c \in Channels, ChannelStep(c)
  PROVE  Screen!TypeOK' /\ Channelwise' /\ Screen!ToldOnce'
<1> USE DEF Screen!TypeOK, Channelwise, Screen!Go, Screen!Local
<1>1. CASE Screen!Open(c)
  <2>1. told' \in Seq(Problems) /\ Screen!ToldOnce'
    <3>1. Screen!Warn("limit") \/ UNCHANGED told
      BY <1>1, ScreenCounting DEF Screen!Open
    <3> QED
      BY <3>1, WarnOnce, NotWarned DEF Problems
  <2> QED
    BY <1>1, <2>1 DEF Screen!Open
<1>2. CASE Screen!ReadSetup(c)
  BY <1>2, Stages DEF Screen!ReadSetup, Screen!ToldOnce
<1>3. CASE Screen!SetupTimesOut(c)
  BY <1>3 DEF Screen!SetupTimesOut, Screen!ToldOnce
<1>4. CASE Screen!Connect(c)
  <2>1. told' \in Seq(Problems) /\ Screen!ToldOnce'
    <3>1. Screen!Warn("cookie") \/ UNCHANGED told
      BY <1>4 DEF Screen!Connect
    <3> QED
      BY <3>1, WarnOnce, NotWarned DEF Problems
  <2> QED
    BY <1>4, <2>1, Stages DEF Screen!Connect
<1>5. CASE Screen!Answered(c)
  BY <1>5, Stages DEF Screen!Answered, Screen!ToldOnce
<1>6. CASE Screen!ConnectAgain(c)
  BY <1>6 DEF Screen!ConnectAgain, Screen!ToldOnce
<1>7. CASE Screen!NoExtension(c)
  <2>1. told' \in Seq(Problems) /\ Screen!ToldOnce'
    <3>1. Screen!Warn("failure")
      BY <1>7 DEF Screen!NoExtension
    <3> QED
      BY <3>1, WarnOnce DEF Problems
  <2> QED
    BY <1>7, <2>1 DEF Screen!NoExtension
<1>8. CASE Screen!OpenFails(c)
  <2>1. told' \in Seq(Problems) /\ Screen!ToldOnce'
    <3>1. Screen!Warn("failure")
      BY <1>8 DEF Screen!OpenFails
    <3> QED
      BY <3>1, WarnOnce DEF Problems
  <2> QED
    BY <1>8, <2>1 DEF Screen!OpenFails
<1>9. CASE Screen!RelayEnds(c)
  BY <1>9 DEF Screen!RelayEnds, Screen!ToldOnce
<1> QED
  BY <1>1, <1>2, <1>3, <1>4, <1>5, <1>6, <1>7, <1>8, <1>9 DEF ChannelStep

\* What was relayed with which cookie does not change afterwards.
LEMMA ChannelInvStep ==
  ASSUME Screen!X11Constants, Screen!TypeOK, Channelwise, ChannelInv, NEW c \in Channels, ChannelStep(c)
  PROVE  ChannelInv'
<1> SUFFICES ASSUME NEW d \in Channels
             PROVE  ProvedItself(d)' /\ CookieOf(d)' /\ AsksUntrusted(d)'
  BY DEF ChannelInv
<1>0. ProvedItself(d) /\ CookieOf(d) /\ AsksUntrusted(d)
  BY DEF ChannelInv
<1> USE <1>0, Stages
    DEF Screen!TypeOK, Channelwise, Screen!Go, Screen!Local, ProvedItself, CookieOf, AsksUntrusted, Relayed
<1>1. CASE Screen!Open(c)
  BY <1>1, ScreenCounting DEF Screen!Open
<1>2. CASE Screen!ReadSetup(c)
  BY <1>2 DEF Screen!ReadSetup
<1>3. CASE Screen!SetupTimesOut(c)
  BY <1>3 DEF Screen!SetupTimesOut
<1>4. CASE Screen!Connect(c)
  <2>1. PICK where \in Screen!Servers :
          LET real == Screen!FindCookie(file, where, display.number) IN
          /\ reached' = [reached EXCEPT ![c] = where]
          /\ IF trusted
             THEN sent' = [sent EXCEPT ![c] = real] /\ phase' = [phase EXCEPT ![c] = "relayed"]
             ELSE phase' = [phase EXCEPT ![c] = "setup"] /\ UNCHANGED sent
    BY <1>4 DEF Screen!Connect
  <2>2. phase[c] = "connecting" /\ UNCHANGED <<display, trusted, setup>>
    BY <1>4 DEF Screen!Connect
  <2>3. CookieOf(d)'
    <3>1. CASE d # c
      BY <2>1, <2>2, <3>1
    <3>2. CASE d = c /\ ~trusted
      BY <2>1, <2>2, <3>2
    <3>3. CASE d = c /\ trusted
      <4>1. sent'[c] = Screen!FindCookie(file, where, display.number) /\ reached'[c] = where
        BY <2>1, <3>3
      <4>2. sent'[c] # Screen!NoCookie =>
              \E i \in DOMAIN file : file[i].cookie = sent'[c] /\ Screen!Matches(file[i], where, display.number)
        BY <4>1, FoundCookieApplies
      <4> QED
        BY <2>2, <3>3, <4>1, <4>2 DEF Screen!Matches
    <3> QED
      BY <3>1, <3>2, <3>3
  <2> QED
    BY <2>1, <2>2, <2>3
<1>5. CASE Screen!Answered(c)
  BY <1>5 DEF Screen!Answered
<1>6. CASE Screen!ConnectAgain(c)
  BY <1>6 DEF Screen!ConnectAgain
<1>7. CASE Screen!NoExtension(c)
  BY <1>7 DEF Screen!NoExtension
<1>8. CASE Screen!OpenFails(c)
  BY <1>8 DEF Screen!OpenFails
<1>9. CASE Screen!RelayEnds(c)
  BY <1>9 DEF Screen!RelayEnds
<1> QED
  BY <1>1, <1>2, <1>3, <1>4, <1>5, <1>6, <1>7, <1>8, <1>9 DEF ChannelStep

\* A slot is taken where one is left; every other step keeps or frees one.
LEMMA SlotsStep ==
  ASSUME Screen!X11Constants, Screen!TypeOK, Screen!SlotsBounded, NEW c \in Channels, ChannelStep(c)
  PROVE  Screen!SlotsBounded'
<1> USE DEF Screen!TypeOK, Screen!Go
<1>0. IsFiniteSet(Screen!Holding) /\ Cardinality(Screen!Holding) \in Nat
  BY FS_Subset, FS_CardinalityType, ScreenCounting DEF Screen!Holding, Screen!X11Constants
<1>1. CASE Screen!Open(c) /\ phase'[c] = "reading"
  <2>1. Cardinality(Screen!Holding) < MaxChannels
    BY <1>1, ScreenCounting DEF Screen!Open
  <2>2. Screen!Holding' = Screen!Holding \cup {c}
    BY <1>1 DEF Screen!Open, Screen!Holding
  <2>3. Cardinality(Screen!Holding \cup {c}) \in {Cardinality(Screen!Holding), Cardinality(Screen!Holding) + 1}
    BY <1>0, FS_AddElement
  <2> QED
    BY <1>0, <2>1, <2>2, <2>3, ScreenCounting DEF Screen!SlotsBounded, Screen!X11Constants
<1>2. CASE Screen!Holding' \subseteq Screen!Holding
  BY <1>0, <1>2, FS_Subset, FS_CardinalityType, ScreenCounting DEF Screen!SlotsBounded,
     Screen!X11Constants
<1>3. Screen!Holding' \subseteq Screen!Holding \/ (Screen!Open(c) /\ phase'[c] = "reading")
  BY Stages DEF Screen!Holding, ChannelStep, Screen!Open, Screen!ReadSetup,
     Screen!SetupTimesOut, Screen!Connect, Screen!Answered, Screen!ConnectAgain,
                Screen!NoExtension, Screen!OpenFails, Screen!RelayEnds
<1> QED
  BY <1>1, <1>2, <1>3

LEMMA ScreenStep ==
  ASSUME Screen!X11Constants, ScreenInv, [Screen!Next]_Screen!x11vars
  PROVE  ScreenInv'
<1> USE DEF ScreenInv
<1>1. CASE Screen!NewFile \/ UNCHANGED Screen!x11vars
  <2>1. UNCHANGED <<display, trusted, secure, phase, setup, reached, sent, told>> /\ file' \in Files
    BY <1>1 DEF Screen!NewFile, Screen!Local, Screen!x11vars, Screen!TypeOK
  <2>2. Screen!TypeOK' /\ Channelwise' /\ Screen!ToldOnce' /\ Screen!SlotsBounded'
    BY <2>1 DEF Screen!TypeOK, Channelwise, Screen!ToldOnce, Screen!SlotsBounded, Screen!Holding
  <2>3. ChannelInv'
    BY <2>1 DEF ChannelInv, ProvedItself, CookieOf, AsksUntrusted, Relayed
  <2> QED
    BY <2>2, <2>3
<1>2. CASE \E c \in Channels : ChannelStep(c)
  BY <1>2, TypesStep, ChannelInvStep, SlotsStep
<1> QED
  BY <1>1, <1>2 DEF Screen!Next, ChannelStep

-----------------------------------------------------------------------------

\* Every channel is guarded as the others are, whatever the file, the display and
\* the X server are like (x11/mod.rs: serve).
THEOREM ScreenInvariant ==
  ASSUME Screen!X11Constants
  PROVE  Screen!Spec => []ScreenInv
<1>1. Screen!Init => ScreenInv
  BY ScreenInit
<1>2. ScreenInv /\ [Screen!Next]_Screen!x11vars => ScreenInv'
  BY ScreenStep
<1> QED
  BY <1>1, <1>2, PTL DEF Screen!Spec

\* Only a client that showed the whole fake cookie is relayed (carries_cookie).
THEOREM OnlyOurClientsGetThrough ==
  ASSUME Screen!X11Constants
  PROVE  Screen!Spec => []Screen!OnlyOurClients
<1>1. ScreenInv => Screen!OnlyOurClients
  BY DEF ScreenInv, ChannelInv, ProvedItself, Screen!CarriesCookie, Screen!OnlyOurClients
<1> QED
  BY <1>1, ScreenInvariant, PTL

\* A trusted client gets the cookie of an entry for the very server and display it
\* is relayed to, and an untrusted one never gets it (find_cookie, open_untrusted).
THEOREM CookiesAreMeant ==
  ASSUME Screen!X11Constants
  PROVE  Screen!Spec => []Screen!CookieIsMeant
<1>1. ScreenInv => Screen!CookieIsMeant
  BY DEF ScreenInv, ChannelInv, CookieOf, Screen!CookieIsMeant
<1> QED
  BY <1>1, ScreenInvariant, PTL

\* No more than MAX_X11_CHANNELS are served at a time, and a problem is told once
\* (x11_permit, warn_once).
THEOREM SlotsAndWarningsBounded ==
  ASSUME Screen!X11Constants
  PROVE  Screen!Spec => [](Screen!SlotsBounded /\ Screen!ToldOnce)
<1>1. ScreenInv => Screen!SlotsBounded /\ Screen!ToldOnce
  BY DEF ScreenInv
<1> QED
  BY <1>1, ScreenInvariant, PTL
-----------------------------------------------------------------------------
(* The parts as they are checked together. *)

\* While another part runs, nothing of this one changes.
LEMMA RelayPart ==
  ASSUME part = "relay" => RelayInv, [PartNext]_allVars
  PROVE  (part = "relay" => RelayInv)'
<1>1. CASE RelayRuns /\ Pipe!Next
  BY <1>1, RelayStep, ConnectionAssumption DEF RelayRuns
<1>2. CASE part # "relay" /\ part' = part
  BY <1>2
<1>3. CASE UNCHANGED allVars
  <2>1. UNCHANGED <<part, Pipe!vars>>
    BY <1>3 DEF allVars, useVars, Pipe!vars, relayVars, Pipe!downstream, Pipe!upstream
  <2> QED
    BY <2>1, RelayStep, ConnectionAssumption
<1> QED
  BY <1>1, <1>2, <1>3 DEF PartNext, DeadlineRuns, AuthRuns, PromptsRun, StoreRuns,
                          TunnelRuns, RelayRuns, SocksRuns, X11Runs

\* While another part runs, nothing of this one changes.
LEMMA ScreenPart ==
  ASSUME part = "x11" => ScreenInv, [PartNext]_allVars
  PROVE  (part = "x11" => ScreenInv)'
<1>1. CASE X11Runs /\ Screen!Next
  BY <1>1, ScreenStep, ConnectionAssumption DEF X11Runs
<1>2. CASE part # "x11" /\ part' = part
  BY <1>2
<1>3. CASE UNCHANGED allVars
  <2>1. UNCHANGED <<part, Screen!x11vars>>
    BY <1>3 DEF allVars, useVars, Screen!x11vars, x11Vars
  <2> QED
    BY <2>1, ScreenStep, ConnectionAssumption
<1> QED
  BY <1>1, <1>2, <1>3 DEF PartNext, DeadlineRuns, AuthRuns, PromptsRun, StoreRuns,
                          TunnelRuns, RelayRuns, SocksRuns, X11Runs

\* What the run checks of a relay holds for every limit and size of reads
\* (wait_for_room, bridge_until_either_ends).
THEOREM RelaysKeepPace == PartSpec => []RelayKeepsPace
<1>1. PartInit => (part = "relay" => RelayInv)
  BY RelayInit, ConnectionAssumption DEF PartInit
<1>2. (part = "relay" => RelayInv) /\ [PartNext]_allVars => (part = "relay" => RelayInv)'
  BY RelayPart
<1>3. (part = "relay" => RelayInv) => RelayKeepsPace
  BY DEF RelayInv, RelayKeepsPace, Counts, Phases, Flags, UploadEnded, BridgeEnded,
         Pipe!TypeOK, Pipe!LastWordsOut
<1> QED
  BY <1>1, <1>2, <1>3, PTL DEF PartSpec

\* A connection that no end broke off is cut only when its backlog is full and its
\* client took nothing since the wait began (wait_for_room).
THEOREM OnlyTheStalledAreCut == PartSpec => CutOnlyWhenStalled
<1>1. PartInit => (part = "relay" => RelayInv)
  BY RelayInit, ConnectionAssumption DEF PartInit
<1>2. (part = "relay" => RelayInv) /\ [PartNext]_allVars => (part = "relay" => RelayInv)'
  BY RelayPart
<1>3. (part = "relay" => RelayInv) /\ [PartNext]_allVars
        => [part = "relay" /\ Pipe!Running /\ bridge' = "failed" =>
              client = "closed" \/ upload' = "failed" \/ (idle /\ ~Pipe!HasRoom)]_allVars
  <2> SUFFICES ASSUME RelayInv, PartNext, part = "relay", Pipe!Running, bridge' = "failed"
               PROVE  client = "closed" \/ upload' = "failed" \/ (idle /\ ~Pipe!HasRoom)
    OBVIOUS
  <2>1. Pipe!Next
    BY DEF PartNext, DeadlineRuns, AuthRuns, PromptsRun, StoreRuns, TunnelRuns,
           SocksRuns, X11Runs
  <2> QED
    BY <2>1, CutStep
<1> QED
  BY <1>1, <1>2, <1>3, PTL DEF PartSpec, CutOnlyWhenStalled

\* What the run checks of X11 forwarding holds for every number of channels,
\* display and content of the Xauthority file (x11/mod.rs: serve).
THEOREM ScreensAreGuarded == PartSpec => []ScreenIsGuarded
<1>1. PartInit => (part = "x11" => ScreenInv)
  BY ScreenInit, ConnectionAssumption DEF PartInit
<1>2. (part = "x11" => ScreenInv) /\ [PartNext]_allVars => (part = "x11" => ScreenInv)'
  BY ScreenPart
<1>3. (part = "x11" => ScreenInv) => ScreenIsGuarded
  BY DEF ScreenInv, ScreenIsGuarded, ChannelInv, ProvedItself, CookieOf, Screen!CarriesCookie,
         Screen!OnlyOurClients, Screen!CookieIsMeant
<1> QED
  BY <1>1, <1>2, <1>3, PTL DEF PartSpec

-----------------------------------------------------------------------------
(* Socks: what was read says what the answer will be, and there is one answer *)
(* beside the one about the methods.                                         *)

\* A request as far as its wire format can tell it.
IsRequest(r) ==
  /\ r \in Proxy!RequestShapes
  /\ r.version # 4 => ~r.long
  /\ r.version # 5 => r.address # "other"

HandshakeTypes ==
  /\ IsRequest(request)
  /\ sent \in 0 .. Proxy!Sendable(request) /\ taken \in 0 .. sent
  /\ state \in {"reading", "opening", "pumping", "closing", "dropped"}
  /\ target \in {"unread", "ok"} \cup Proxy!Rejections
  /\ answers \in Seq({"AuthNone", "NoAcceptable", "Granted"} \cup Proxy!Rejections)
  /\ closed \in BOOLEAN /\ dynamic \in BOOLEAN /\ lingered \in BOOLEAN /\ opened \in BOOLEAN

\* The first n fields were read, and gave no reason to reject the request.
ReadWell(r, n) ==
  /\ n >= 1 => r.version # 0
  /\ r.version = 5 /\ n >= 2 => r.offersNone
  /\ r.version = 5 /\ n >= 3 => r.again = 5 /\ r.address # "other"
  /\ r.version = 4 /\ n >= 3 => ~r.long

Wanted(r) ==
  /\ Proxy!Deserved(r) = "none"
  /\ r.connect /\ ~r.long /\ r.address # "other" /\ (r.address = "name" => r.valid)

Verdicts == Elements(answers) \ {"AuthNone"}

\* Is the verdict v the one the request deserves?
Fits(v) ==
  LET due == Proxy!Deserved(request) IN
  \/ due = "none" /\ (v = "Granted" <=> opened)
  \/ due # "none" /\ ~opened /\ v = IF request.version = 4 THEN "GeneralFailure" ELSE due

Judged ==
  /\ Distinct(answers)
  /\ \A v \in Verdicts : Fits(v)
  /\ \A v, w \in Verdicts : v = w
  /\ ~dynamic => answers = <<>>

Progress ==
  /\ state \in {"reading", "opening"} => Verdicts = {} /\ ~opened
  /\ state = "reading" =>
       /\ dynamic /\ taken < Len(Proxy!Fields(request)) /\ ReadWell(request, taken)
       /\ "AuthNone" \in Elements(answers) => request.version = 5 /\ taken >= 2
  /\ state \in {"opening", "pumping"} /\ dynamic =>
       Wanted(request) /\ taken >= Len(Proxy!Fields(request))
  /\ state = "pumping" => opened
  /\ opened /\ dynamic => Wanted(request) /\ taken >= Len(Proxy!Fields(request))
  /\ state = "dropped" /\ Verdicts # {} => lingered \/ opened \/ (closed /\ taken = sent)

HandshakeInv == HandshakeTypes /\ Judged /\ Progress

-----------------------------------------------------------------------------
LEMMA FieldsAre ==
  ASSUME NEW r, IsRequest(r)
  PROVE  LET f == Proxy!Fields(r) IN
         /\ r.version = 0 => Len(f) = 1 /\ f[1] = "version"
         /\ r.version = 5 => Len(f) = 4 /\ f[1] = "version" /\ f[2] = "methods" /\ f[3] = "header"
                                        /\ f[4] = "address"
         /\ r.version = 4 => f[1] = "version" /\ f[2] = "fixed" /\ f[3] = "user"
         /\ r.version = 4 /\ r.address # "name" => Len(f) = 3
         /\ r.version = 4 /\ r.address = "name" => Len(f) = 4 /\ f[4] = "host"
         /\ Len(f) \in Nat /\ Len(f) >= 1
         /\ Proxy!Sendable(r) \in Nat /\ Proxy!Sendable(r) >= Len(f)
         /\ r.version \in {0, 4, 5}
<1>1. r.version \in {0, 4, 5} /\ r.eager \in BOOLEAN
  BY DEF IsRequest, Proxy!RequestShapes
<1>2. CASE r.version = 0
  BY <1>1, <1>2 DEF Proxy!Fields, Proxy!Sendable
<1>3. CASE r.version = 5
  BY <1>1, <1>3 DEF Proxy!Fields, Proxy!Sendable
<1>4. CASE r.version = 4 /\ r.address = "name"
  BY <1>1, <1>4 DEF Proxy!Fields, Proxy!Sendable
<1>5. CASE r.version = 4 /\ r.address # "name"
  BY <1>1, <1>5 DEF Proxy!Fields, Proxy!Sendable
<1> QED
  BY <1>1, <1>2, <1>3, <1>4, <1>5

LEMMA HandshakeInit ==
  ASSUME Proxy!SocksConstants, Proxy!Init
  PROVE  HandshakeInv
<1> USE DEF Proxy!Init
<1>1. IsRequest(request)
  BY DEF IsRequest, Proxy!SocksConstants
<1>2. HandshakeTypes
  <2>1. Proxy!Sendable(request) \in Nat
    BY <1>1, FieldsAre
  <2>2. closed \in BOOLEAN /\ lingered \in BOOLEAN /\ opened \in BOOLEAN /\ dynamic \in BOOLEAN
    OBVIOUS
  <2>3. answers \in Seq({"AuthNone", "NoAcceptable", "Granted"} \cup Proxy!Rejections)
    OBVIOUS
  <2>4. /\ state \in {"reading", "opening", "pumping", "closing", "dropped"}
        /\ target \in {"unread", "ok"} \cup Proxy!Rejections
        /\ sent = 0 /\ taken = 0
    OBVIOUS
  <2>5. sent \in 0 .. Proxy!Sendable(request) /\ taken \in 0 .. sent
    BY <2>1, <2>4
  <2> QED
    BY <1>1, <2>2, <2>3, <2>4, <2>5 DEF HandshakeTypes
<1>3. Elements(answers) = {} /\ Distinct(answers)
  BY DEF Elements, Distinct
<1>4. Judged
  BY <1>3 DEF Judged, Verdicts
<1>5. Progress
  BY <1>1, <1>3, FieldsAre DEF Progress, Verdicts, ReadWell
<1> QED
  BY <1>2, <1>4, <1>5 DEF HandshakeInv

\* The client sends or closes.
LEMMA ClientStep ==
  ASSUME HandshakeInv, Proxy!ClientSends \/ Proxy!ClientCloses
  PROVE  HandshakeInv'
<1> USE DEF HandshakeInv, HandshakeTypes, Proxy!ClientSends, Proxy!ClientCloses
<1>1. HandshakeTypes'
  <2>1. Proxy!Sendable(request) \in Nat
    BY FieldsAre
  <2>2. closed' \in BOOLEAN /\ UNCHANGED <<request, dynamic, state, taken, target, answers, lingered, opened>>
    OBVIOUS
  <2>3. sent' \in 0 .. Proxy!Sendable(request) /\ taken' \in 0 .. sent'
    BY <2>1
  <2> QED
    BY <2>2, <2>3 DEF IsRequest
<1>2. Judged'
  BY DEF Judged, Verdicts, Fits
<1>3. Progress'
  BY DEF Progress, Verdicts
<1> QED
  BY <1>1, <1>2, <1>3

\* An answer is written: it is appended, and is the verdict unless about the methods.
LEMMA AnswerIs ==
  ASSUME HandshakeInv, NEW a \in {"AuthNone", "NoAcceptable", "Granted"} \cup Proxy!Rejections,
         Proxy!Answer(a), NEW b,
         b = IF request.version = 4 /\ a # "Granted" THEN "GeneralFailure" ELSE a
  PROVE  /\ answers' \in Seq({"AuthNone", "NoAcceptable", "Granted"} \cup Proxy!Rejections)
         /\ Elements(answers') = Elements(answers) \cup {b}
         /\ b \notin Elements(answers) => Distinct(answers')
<1> DEFINE S == {"AuthNone", "NoAcceptable", "Granted"} \cup Proxy!Rejections
<1>1. b \in S
  BY DEF Proxy!Rejections
<1>2. answers \in Seq(S) /\ Distinct(answers)
  BY DEF HandshakeInv, HandshakeTypes, Judged
<1>3. answers' = Append(answers, b)
  BY DEF Proxy!Answer
<1> HIDE DEF S
<1> QED
  BY <1>1, <1>2, <1>3, AppendElements DEF S

\* The verdict is written, once, and is the one deserved.
LEMMA VerdictStep ==
  ASSUME HandshakeInv, dynamic, UNCHANGED <<request, dynamic>>,
         NEW a \in {"NoAcceptable", "Granted"} \cup Proxy!Rejections, Proxy!Answer(a),
         NEW b, b = IF request.version = 4 /\ a # "Granted" THEN "GeneralFailure" ELSE a,
         Verdicts = {}, Fits(b)'
  PROVE  /\ Judged' /\ Verdicts' = {b}
         /\ answers' \in Seq({"AuthNone", "NoAcceptable", "Granted"} \cup Proxy!Rejections)
<1>1. b # "AuthNone"
  BY DEF Proxy!Rejections
<1>2. b \notin Elements(answers)
  BY <1>1 DEF Verdicts
<1>3. /\ Elements(answers') = Elements(answers) \cup {b} /\ Distinct(answers')
      /\ answers' \in Seq({"AuthNone", "NoAcceptable", "Granted"} \cup Proxy!Rejections)
  BY <1>2, AnswerIs
<1>4. Verdicts' = {b}
  BY <1>1, <1>3 DEF Verdicts
<1> QED
  BY <1>3, <1>4 DEF Judged

\* A field is read, and the handshake goes on, ends with an answer or without one.
LEMMA ReadTypes ==
  ASSUME HandshakeInv, taken < sent, taken' = taken + 1, UNCHANGED <<request, sent, closed, dynamic, lingered>>,
         state' \in {"reading", "opening", "pumping", "closing", "dropped"},
         target' \in {"unread", "ok"} \cup Proxy!Rejections,
         answers' \in Seq({"AuthNone", "NoAcceptable", "Granted"} \cup Proxy!Rejections),
         opened' \in BOOLEAN
  PROVE  HandshakeTypes'
<1>1. taken' \in 0 .. sent
  <2>1. taken \in Nat /\ sent \in Nat
    BY FieldsAre DEF HandshakeInv, HandshakeTypes
  <2> QED
    BY <2>1
<1> QED
  BY <1>1 DEF HandshakeInv, HandshakeTypes, IsRequest

LEMMA ReadsOn ==
  ASSUME HandshakeInv, state = "reading", taken < sent, taken' = taken + 1,
         UNCHANGED <<request, sent, closed, dynamic, lingered, state, target, answers, opened>>,
         taken + 1 < Len(Proxy!Fields(request)), ReadWell(request, taken + 1)
  PROVE  HandshakeInv'
<1>1. HandshakeTypes'
  BY ReadTypes DEF HandshakeInv, HandshakeTypes
<1>2. Judged'
  BY DEF HandshakeInv, Judged, Verdicts, Fits
<1>3. taken \in Nat
  BY FieldsAre DEF HandshakeInv, HandshakeTypes
<1>4. Progress'
  BY <1>3 DEF HandshakeInv, Progress, Verdicts
<1> QED
  BY <1>1, <1>2, <1>4 DEF HandshakeInv

\* The stream is closed without a word.
LEMMA Refused ==
  ASSUME HandshakeInv, state = "reading", taken' \in 0 .. sent, state' \in {"closing", "dropped"},
         UNCHANGED <<request, sent, closed, dynamic, lingered, target, answers, opened>>
  PROVE  HandshakeInv'
<1>1. HandshakeTypes'
  BY DEF HandshakeInv, HandshakeTypes, IsRequest
<1>2. Judged'
  BY DEF HandshakeInv, Judged, Verdicts, Fits
<1>3. Progress'
  BY DEF HandshakeInv, Progress, Verdicts
<1> QED
  BY <1>1, <1>2, <1>3 DEF HandshakeInv

\* The answer says why it ends.
LEMMA Rejected ==
  ASSUME HandshakeInv, state = "reading", taken < sent, taken' = taken + 1, state' = "closing",
         UNCHANGED <<request, sent, closed, dynamic, lingered, opened>>,
         target' \in {"unread", "ok"} \cup Proxy!Rejections,
         NEW a \in {"NoAcceptable"} \cup Proxy!Rejections, Proxy!Answer(a),
         Proxy!Deserved(request) # "none",
         request.version # 4 => a = Proxy!Deserved(request)
  PROVE  HandshakeInv'
<1> DEFINE b == IF request.version = 4 /\ a # "Granted" THEN "GeneralFailure" ELSE a
<1>1. dynamic /\ ~opened /\ Verdicts = {}
  BY DEF HandshakeInv, Progress
<1>2. a # "Granted" /\ a \in {"NoAcceptable", "Granted"} \cup Proxy!Rejections
  BY DEF Proxy!Rejections
<1>3. Fits(b)'
  BY <1>1, <1>2 DEF Fits
<1> HIDE DEF b
<1>4. /\ Judged' /\ Verdicts' = {b}
      /\ answers' \in Seq({"AuthNone", "NoAcceptable", "Granted"} \cup Proxy!Rejections)
  BY <1>1, <1>2, <1>3, VerdictStep DEF b
<1>5. HandshakeTypes'
  BY <1>4, ReadTypes DEF HandshakeInv, HandshakeTypes
<1>6. Progress'
  BY <1>1 DEF HandshakeInv, Progress
<1> QED
  BY <1>4, <1>5, <1>6 DEF HandshakeInv

\* The request was read in full.
LEMMA Accepted ==
  ASSUME HandshakeInv, state = "reading", taken < sent, taken' = taken + 1, state' = "opening",
         UNCHANGED <<request, sent, closed, dynamic, lingered, opened, answers>>,
         target' \in {"unread", "ok"} \cup Proxy!Rejections,
         Wanted(request), taken + 1 >= Len(Proxy!Fields(request))
  PROVE  HandshakeInv'
<1>1. HandshakeTypes'
  BY ReadTypes DEF HandshakeInv, HandshakeTypes
<1>2. Judged'
  BY DEF HandshakeInv, Judged, Verdicts, Fits
<1>3. Progress'
  BY DEF HandshakeInv, Progress, Verdicts
<1> QED
  BY <1>1, <1>2, <1>3 DEF HandshakeInv

\* check_request finds the first reason to reject.
LEMMA Checked ==
  ASSUME HandshakeInv, state = "reading", taken < sent, taken' = taken + 1,
         UNCHANGED <<request, sent, closed, dynamic, lingered>>,
         NEW t \in {"ok"} \cup Proxy!Rejections, Proxy!Check(t),
         ~request.connect => Proxy!Deserved(request) = "CommandNotSupported",
         request.connect /\ t # "ok" => Proxy!Deserved(request) = t,
         request.connect /\ t = "ok" =>
           Wanted(request) /\ taken + 1 >= Len(Proxy!Fields(request))
  PROVE  HandshakeInv'
<1>1. CASE ~request.connect
  BY <1>1, Rejected DEF Proxy!Check, Proxy!Rejections
<1>2. CASE request.connect /\ t # "ok"
  BY <1>2, Rejected DEF Proxy!Check, Proxy!Rejections
<1>3. CASE request.connect /\ t = "ok"
  BY <1>3, Accepted DEF Proxy!Check
<1> QED
  BY <1>1, <1>2, <1>3

\* What check_request is given, and finds, once the address was read.
LEMMA TargetChecked ==
  ASSUME NEW r, IsRequest(r), r.version \in {4, 5},
         r.version = 5 => r.offersNone /\ r.again = 5 /\ r.address # "other", ~r.long,
         NEW t, t = Proxy!TargetOf(r)
  PROVE  /\ t \in {"ok"} \cup Proxy!Rejections
         /\ ~r.connect => Proxy!Deserved(r) = "CommandNotSupported"
         /\ r.connect /\ t # "ok" => Proxy!Deserved(r) = t
         /\ r.connect /\ t = "ok" => Wanted(r)
<1>1. r.address # "other"
  BY DEF IsRequest
<1>2. t = IF r.address = "name" /\ ~r.valid THEN "HostUnreachable" ELSE "ok"
  BY DEF Proxy!TargetOf
<1>3. Proxy!Deserved(r) = IF ~r.connect THEN "CommandNotSupported"
                          ELSE IF r.address = "name" /\ ~r.valid THEN "HostUnreachable" ELSE "none"
  BY <1>1 DEF Proxy!Deserved
<1> QED
  BY <1>1, <1>2, <1>3 DEF Wanted, Proxy!Rejections

LEMMA ReadStep ==
  ASSUME HandshakeInv, Proxy!ReadField
  PROVE  HandshakeInv'
<1> DEFINE r == request
           f == Proxy!Fields(request)
<1>1. /\ IsRequest(r) /\ taken \in Nat /\ sent \in Nat /\ dynamic /\ ~opened /\ state = "reading"
      /\ taken < Len(f) /\ ReadWell(r, taken) /\ taken < sent /\ taken' = taken + 1
      /\ UNCHANGED <<request, sent, closed, dynamic, lingered>>
      /\ "AuthNone" \in Elements(answers) => r.version = 5 /\ taken >= 2
      /\ Verdicts = {}
      /\ target \in {"unread", "ok"} \cup Proxy!Rejections
  BY FieldsAre DEF HandshakeInv, HandshakeTypes, Progress, Proxy!ReadField
<1>2. /\ r.version = 0 => Len(f) = 1 /\ f[1] = "version"
      /\ r.version = 5 => Len(f) = 4 /\ f[1] = "version" /\ f[2] = "methods" /\ f[3] = "header"
                                     /\ f[4] = "address"
      /\ r.version = 4 => f[1] = "version" /\ f[2] = "fixed" /\ f[3] = "user"
      /\ r.version = 4 /\ r.address # "name" => Len(f) = 3
      /\ r.version = 4 /\ r.address = "name" => Len(f) = 4 /\ f[4] = "host"
      /\ r.version \in {0, 4, 5} /\ Len(f) \in Nat
  BY <1>1, FieldsAre
<1>3. taken' \in 0 .. sent
  BY <1>1
<1>11. PICK n \in Nat : n = Len(f)
  BY <1>2
<1>12. /\ taken \in Nat /\ taken < n /\ taken' = taken + 1
       /\ r.version = 0 => n = 1
       /\ r.version = 5 => n = 4
       /\ r.version = 4 => n \in {3, 4}
       /\ r.version \in {0, 4, 5}
  <2>1. r.version = 4 => r.address # "name" \/ r.address = "name"
    OBVIOUS
  <2> QED
    BY <1>1, <1>2, <1>11, <2>1
<1>13. /\ f[1] = "version"
       /\ r.version = 5 => f[2] = "methods" /\ f[3] = "header" /\ f[4] = "address"
       /\ r.version = 4 => f[2] = "fixed" /\ f[3] = "user" /\ (n = 4 => f[4] = "host")
  BY <1>2, <1>11
<1>14. /\ f[taken + 1] = "version" => taken = 0
       /\ r.version = 5 /\ taken < 3 => taken + 1 < n
       /\ f[taken + 1] = "fixed" => taken + 1 < n
  BY <1>12, <1>13
<1> HIDE DEF f
<1>10. /\ f[taken + 1] = "methods" => r.version = 5 /\ taken = 1
       /\ f[taken + 1] = "header" => r.version = 5 /\ taken = 2
       /\ f[taken + 1] = "address" => r.version = 5 /\ taken = 3
       /\ f[taken + 1] = "fixed" => r.version = 4 /\ taken = 1
       /\ f[taken + 1] \in {"user", "host"} => r.version = 4 /\ taken \in {2, 3}
  <2>1. CASE r.version = 0
    <3>1. taken = 0
      BY <1>12, <2>1
    <3> QED
      BY <1>13, <2>1, <3>1
  <2>2. CASE r.version = 5
    <3>1. taken \in {0, 1, 2, 3}
      BY <1>12, <2>2
    <3> QED
      BY <1>13, <2>2, <3>1
  <2>3. CASE r.version = 4
    <3>1. taken \in {0, 1, 2, 3}
      BY <1>12, <2>3
    <3>2. taken = 3 => n = 4
      BY <1>12, <2>3
    <3> QED
      BY <1>13, <2>3, <3>1, <3>2
  <2> QED
    BY <1>2, <2>1, <2>2, <2>3
<1>4. CASE f[taken + 1] = "version" /\ Proxy!ReadVersion
  <2>1. taken = 0
    BY <1>1, <1>2, <1>4
  <2>2. CASE r.version = 0
    BY <1>1, <1>3, <1>4, <2>2, Refused DEF Proxy!ReadVersion, Proxy!Fail
  <2>3. CASE r.version # 0
    <3>1. taken + 1 < Len(f) /\ ReadWell(r, taken + 1)
      BY <1>1, <1>2, <2>1, <2>3 DEF ReadWell
    <3> QED
      BY <1>1, <1>4, <2>3, <3>1, ReadsOn DEF Proxy!ReadVersion, Proxy!GoOn, f
  <2> QED
    BY <2>2, <2>3
<1>5. CASE f[taken + 1] = "methods" /\ Proxy!ReadMethods
  <2>1. taken = 1 /\ r.version = 5
    BY <1>5, <1>10
  <2>2. CASE ~r.offersNone
    <3>1. Proxy!Deserved(r) = "NoAcceptable"
      BY <2>1, <2>2 DEF Proxy!Deserved
    <3> QED
      BY <1>1, <1>5, <2>1, <2>2, <3>1, Rejected DEF Proxy!ReadMethods, Proxy!Fail
  <2>3. CASE r.offersNone
    <3>1. Proxy!Answer("AuthNone") /\ UNCHANGED <<state, target, opened>>
      BY <1>5, <2>3 DEF Proxy!ReadMethods
    <3>2. /\ answers' \in Seq({"AuthNone", "NoAcceptable", "Granted"} \cup Proxy!Rejections)
          /\ Elements(answers') = Elements(answers) \cup {"AuthNone"}
          /\ Distinct(answers')
      BY <1>1, <2>1, <3>1, AnswerIs
    <3>3. Verdicts' = {}
      BY <1>1, <3>2 DEF Verdicts
    <3>4. HandshakeTypes'
      BY <1>1, <3>1, <3>2, ReadTypes DEF HandshakeInv, HandshakeTypes
    <3>5. Judged'
      BY <1>1, <3>2, <3>3 DEF Judged
    <3>6. taken' < Len(f) /\ ReadWell(r, taken')
      BY <1>1, <1>2, <2>1, <2>3 DEF ReadWell
    <3>7. Progress'
      BY <1>1, <2>1, <3>1, <3>3, <3>6 DEF Progress, f
    <3> QED
      BY <3>4, <3>5, <3>7 DEF HandshakeInv
  <2> QED
    BY <2>2, <2>3
<1>6. CASE f[taken + 1] = "header" /\ Proxy!ReadHeader
  <2>1. taken = 2 /\ r.version = 5 /\ r.offersNone
    BY <1>1, <1>6, <1>10 DEF ReadWell
  <2>2. CASE r.again # 5
    <3>1. Proxy!Deserved(r) = "GeneralFailure"
      BY <2>1, <2>2 DEF Proxy!Deserved
    <3> QED
      BY <1>1, <1>6, <2>1, <2>2, <3>1, Rejected DEF Proxy!ReadHeader, Proxy!Fail, Proxy!Rejections
  <2>3. CASE r.again = 5 /\ r.address = "other"
    <3>1. /\ ~r.connect => Proxy!Deserved(r) = "CommandNotSupported"
          /\ r.connect => Proxy!Deserved(r) = "AddressNotSupported"
      BY <2>1, <2>3 DEF Proxy!Deserved
    <3> QED
      BY <1>1, <1>6, <2>1, <2>3, <3>1, Checked DEF Proxy!ReadHeader, Proxy!Rejections
  <2>4. CASE r.again = 5 /\ r.address # "other"
    <3>1. taken + 1 < Len(f) /\ ReadWell(r, taken + 1)
      <4>1. taken + 1 < n
        BY <1>12, <2>1
      <4>2. ReadWell(r, taken + 1)
        BY <1>1, <2>1, <2>4 DEF ReadWell
      <4> QED
        BY <1>11, <4>1, <4>2
    <3> QED
      BY <1>1, <1>6, <2>4, <3>1, ReadsOn DEF Proxy!ReadHeader, Proxy!GoOn, f
  <2> QED
    BY <2>2, <2>3, <2>4
<1>7. CASE f[taken + 1] = "address" /\ Proxy!Check(Proxy!TargetOf(request))
  <2>1. taken = 3 /\ r.version = 5 /\ r.offersNone /\ r.again = 5 /\ r.address # "other" /\ ~r.long
        /\ taken + 1 >= Len(f)
    <3>1. taken = 3 /\ r.version = 5
      BY <1>7, <1>10
    <3>2. taken + 1 >= n
      BY <1>12, <3>1
    <3>3. r.offersNone /\ r.again = 5 /\ r.address # "other" /\ ~r.long
      BY <1>1, <3>1 DEF ReadWell, IsRequest
    <3> QED
      BY <1>11, <3>1, <3>2, <3>3
  <2> QED
    BY <1>1, <1>7, <2>1, TargetChecked, Checked DEF f
<1>8. CASE f[taken + 1] = "fixed" /\ Proxy!GoOn
  <2>1. taken + 1 < Len(f) /\ ReadWell(r, taken + 1)
    BY <1>1, <1>2, <1>8, <1>10 DEF ReadWell
  <2> QED
    BY <1>1, <1>8, <2>1, ReadsOn DEF Proxy!GoOn, f
<1>9. CASE f[taken + 1] \in {"user", "host"} /\ Proxy!ReadTerminated
  <2>1. taken \in {2, 3} /\ r.version = 4
    BY <1>9, <1>10
  <2>2. CASE r.long
    BY <1>1, <1>3, <1>9, <2>2, Refused DEF Proxy!ReadTerminated, Proxy!Fail
  <2>3. CASE ~r.long /\ taken + 1 = Len(f)
    <3>1. Proxy!Check(Proxy!TargetOf(request))
      BY <1>9, <2>3 DEF Proxy!ReadTerminated, Proxy!LastField, f
    <3>2. taken + 1 >= Len(f)
      BY <1>1, <1>2, <2>3
    <3> QED
      <4>1. r.version # 5 /\ r.version \in {4, 5}
        BY <2>1
      <4> QED
        BY <1>1, <2>3, <3>1, <3>2, <4>1, TargetChecked, Checked DEF f
  <2>4. CASE ~r.long /\ taken + 1 # Len(f)
    <3>1. taken + 1 < Len(f) /\ ReadWell(r, taken + 1)
      <4>1. taken + 1 < n
        BY <1>11, <1>12, <2>4
      <4>2. ReadWell(r, taken + 1)
        BY <1>1, <2>1, <2>4 DEF ReadWell
      <4> QED
        BY <1>11, <4>1, <4>2
    <3> QED
      BY <1>1, <1>9, <2>4, <3>1, ReadsOn DEF Proxy!ReadTerminated, Proxy!LastField, Proxy!GoOn, f
  <2> QED
    BY <2>2, <2>3, <2>4
<1> QED
  BY <1>4, <1>5, <1>6, <1>7, <1>8, <1>9 DEF Proxy!ReadField, f

\* The channel was opened or not, and the client is told.
LEMMA OpenStep ==
  ASSUME HandshakeInv, Proxy!OpenChannel
  PROVE  HandshakeInv'
<1>1. PICK verdict \in Proxy!OpenOutcomes :
        /\ opened' = (verdict = "Granted")
        /\ IF dynamic THEN Proxy!Answer(verdict) ELSE UNCHANGED answers
        /\ state' = IF verdict = "Granted" THEN "pumping" ELSE IF dynamic THEN "closing" ELSE "dropped"
  BY DEF Proxy!OpenChannel
<1>2. /\ state = "opening" /\ ~opened /\ Verdicts = {}
      /\ UNCHANGED <<request, sent, closed, dynamic, taken, target, lingered>>
      /\ dynamic \in BOOLEAN
      /\ dynamic => Wanted(request) /\ taken >= Len(Proxy!Fields(request))
      /\ state' \in {"pumping", "closing", "dropped"}
      /\ state' = "pumping" <=> opened'
      /\ state' = "dropped" => ~dynamic
      /\ opened' \in BOOLEAN
  <2>1. state = "opening" /\ UNCHANGED <<request, sent, closed, dynamic, taken, target, lingered>>
    BY DEF Proxy!OpenChannel
  <2>2. opened' \in BOOLEAN
    BY <1>1
  <2>3. dynamic \in BOOLEAN
    BY DEF HandshakeInv, HandshakeTypes
  <2>4. state' \in {"pumping", "closing", "dropped"} /\ (state' = "pumping" <=> verdict = "Granted")
        /\ (state' = "dropped" => ~dynamic)
    BY <1>1, <2>3
  <2> QED
    BY <1>1, <2>1, <2>2, <2>3, <2>4 DEF HandshakeInv, Progress
<1>3. /\ Judged' /\ (~dynamic => Verdicts' = {})
      /\ answers' \in Seq({"AuthNone", "NoAcceptable", "Granted"} \cup Proxy!Rejections)
  <2>1. CASE ~dynamic
    <3>1. answers' = answers /\ answers = <<>>
      BY <1>1, <2>1 DEF HandshakeInv, Judged
    <3>2. Elements(answers) = {} /\ Distinct(answers)
      BY <3>1 DEF Elements, Distinct
    <3>3. Verdicts' = {} /\ Distinct(answers)'
      BY <3>1, <3>2 DEF Verdicts
    <3>4. Judged'
      BY <3>1, <3>3 DEF Judged
    <3> QED
      BY <3>1, <3>3, <3>4
  <2>2. CASE dynamic
    <3> DEFINE b == IF request.version = 4 /\ verdict # "Granted" THEN "GeneralFailure" ELSE verdict
    <3>1. verdict \in {"NoAcceptable", "Granted"} \cup Proxy!Rejections
      BY DEF Proxy!OpenOutcomes, Proxy!Rejections
    <3>2. Fits(b)'
      BY <1>1, <1>2, <2>2 DEF Fits, Wanted
    <3> HIDE DEF b
    <3> QED
      BY <1>1, <1>2, <2>2, <3>1, <3>2, VerdictStep DEF b
  <2> QED
    BY <1>2, <2>1, <2>2
<1>4. HandshakeTypes'
  BY <1>2, <1>3 DEF HandshakeInv, HandshakeTypes, IsRequest
<1>5. Progress'
  BY <1>2, <1>3 DEF Progress
<1> QED
  BY <1>3, <1>4, <1>5 DEF HandshakeInv

LEMMA ClosingSteps ==
  ASSUME HandshakeInv, Proxy!PumpEnds \/ Proxy!CloseGracefully \/ Proxy!Abort
  PROVE  HandshakeInv'
<1>1. /\ UNCHANGED <<request, sent, closed, dynamic, target, answers, opened>>
      /\ taken \in 0 .. sent /\ sent \in Nat /\ Len(Proxy!Fields(request)) \in Nat
      /\ taken' \in {taken, sent} /\ state' \in {"closing", "dropped"}
      /\ lingered' = lingered \/ lingered' = TRUE
      /\ state' = "dropped" => opened \/ lingered' \/ (taken' = sent /\ closed)
  BY FieldsAre DEF HandshakeInv, HandshakeTypes, Progress,
     Proxy!PumpEnds, Proxy!CloseGracefully, Proxy!Abort
<1>2. taken' \in 0 .. sent /\ taken' >= taken
  BY <1>1
<1>3. HandshakeTypes'
  BY <1>1, <1>2 DEF HandshakeInv, HandshakeTypes, IsRequest
<1>4. Judged'
  BY <1>1 DEF HandshakeInv, Judged, Verdicts, Fits
<1>5. opened /\ dynamic => Wanted(request) /\ taken' >= Len(Proxy!Fields(request))
  BY <1>1, <1>2 DEF HandshakeInv, Progress
<1>6. Progress'
  BY <1>1, <1>5 DEF Progress, Verdicts
<1> QED
  BY <1>3, <1>4, <1>6 DEF HandshakeInv

LEMMA HandshakeStep ==
  ASSUME HandshakeInv, [Proxy!Next]_Proxy!vars
  PROVE  HandshakeInv'
<1>1. CASE UNCHANGED Proxy!vars
  <2>1. HandshakeTypes'
    BY <1>1 DEF Proxy!vars, HandshakeInv, HandshakeTypes, IsRequest
  <2>2. Judged' /\ Progress'
    BY <1>1 DEF Proxy!vars, HandshakeInv, Judged, Verdicts, Fits, Progress
  <2> QED
    BY <2>1, <2>2 DEF HandshakeInv
<1>2. CASE Proxy!ReadFails \/ Proxy!HandshakeTimeOut
  <2>1. taken \in 0 .. sent
    BY DEF HandshakeInv, HandshakeTypes
  <2> QED
    BY <1>2, <2>1, Refused DEF Proxy!ReadFails, Proxy!HandshakeTimeOut
<1> QED
  BY <1>1, <1>2, ClientStep, ReadStep, OpenStep, ClosingSteps DEF Proxy!Next, Proxy!ConnectionStep

LEMMA HandshakePart ==
  ASSUME part = "socks" => HandshakeInv, [PartNext]_allVars
  PROVE  (part = "socks" => HandshakeInv)'
<1>1. CASE SocksRuns /\ Proxy!Next
  BY <1>1, HandshakeStep DEF SocksRuns
<1>2. CASE part # "socks" /\ part' = part
  BY <1>2
<1>3. CASE UNCHANGED allVars
  <2>1. UNCHANGED <<part, Proxy!vars>>
    BY <1>3 DEF allVars, useVars, Proxy!vars, socksVars
  <2> QED
    BY <2>1, HandshakeStep
<1> QED
  BY <1>1, <1>2, <1>3 DEF PartNext, DeadlineRuns, AuthRuns, PromptsRun, StoreRuns,
                          TunnelRuns, RelayRuns, SocksRuns, X11Runs

\* Every SOCKS client gets at most the one answer its request deserves, and gets it;
\* no channel is asked for with a target that was not read in full or is not clean
\* (socks.rs accept, reply, close, host_name).
THEOREM ProxiesAnswerAsDeserved == PartSpec => []ProxyAnswers
<1>1. PartInit => (part = "socks" => HandshakeInv)
  BY HandshakeInit, ConnectionAssumption DEF PartInit
<1>2. (part = "socks" => HandshakeInv) /\ [PartNext]_allVars => (part = "socks" => HandshakeInv)'
  BY HandshakePart
<1>3. (part = "socks" => HandshakeInv) => ProxyAnswers
  <2> SUFFICES ASSUME HandshakeInv
               PROVE  /\ Proxy!TypeOK /\ Proxy!AnswerIsDeserved /\ Proxy!OnlyCleanTargets
                      /\ Proxy!RejectionArrives
    BY DEF ProxyAnswers
  <2> DEFINE S == {"AuthNone", "NoAcceptable", "Granted"} \cup Proxy!Rejections
             final == Proxy!Final
  <2>1. answers \in Seq(S) /\ Distinct(answers)
    BY DEF HandshakeInv, HandshakeTypes, Judged
  <2>2. final \in Seq(S) /\ Elements(final) = Verdicts /\ Distinct(final)
    <3>1. final = Without(answers, {"AuthNone"})
      BY DEF Proxy!Final, Proxy!Without, Without
    <3> HIDE DEF final, S
    <3> QED
      BY <2>1, <3>1, WithoutFacts DEF Verdicts
  <2>3. Proxy!TypeOK
    <3>1. Proxy!Range(answers) \subseteq S
      BY <2>1 DEF Proxy!Range
    <3> QED
      BY <3>1 DEF Proxy!TypeOK, HandshakeInv, HandshakeTypes, IsRequest
  <2> HIDE DEF final, S
  <2>4. \A i \in 1 .. Len(final) : final[i] \in Verdicts
    BY <2>2 DEF Elements
  <2>5. Len(final) <= 1
    <3> SUFFICES ASSUME Len(final) > 1 PROVE FALSE
      BY <2>2
    <3>1. 1 \in 1 .. Len(final) /\ 2 \in 1 .. Len(final)
      BY <2>2
    <3>2. final[1] = final[2]
      BY <2>4, <3>1 DEF HandshakeInv, Judged
    <3> QED
      BY <2>2, <3>1, <3>2 DEF Distinct
  <2>6. final # <<>> => Fits(final[1]) /\ Verdicts # {}
    <3> SUFFICES ASSUME final # <<>> PROVE Fits(final[1]) /\ Verdicts # {}
      OBVIOUS
    <3>1. 1 \in 1 .. Len(final)
      BY <2>2
    <3> QED
      BY <2>4, <3>1 DEF HandshakeInv, Judged
  <2>7. Proxy!AnswerIsDeserved
    BY <2>5, <2>6 DEF Proxy!AnswerIsDeserved, Fits, final
  <2>8. Proxy!OnlyCleanTargets
    BY DEF Proxy!OnlyCleanTargets, HandshakeInv, Progress, Wanted
  <2>9. Proxy!RejectionArrives
    <3>1. taken \in 0 .. sent /\ sent \in Nat
      BY FieldsAre DEF HandshakeInv, HandshakeTypes
    <3> QED
      BY <2>6, <3>1 DEF Proxy!RejectionArrives, HandshakeInv, Progress, final
  <2> QED
    BY <2>3, <2>7, <2>8, <2>9
<1> QED
  BY <1>1, <1>2, <1>3, PTL DEF PartSpec

-----------------------------------------------------------------------------
(* Tunnel: first what the operations on ActiveForwards make of a value of it. *)

\* The types of ActiveForwards.
Routes == [Ports -> [owner : Ids, live : Nat] \cup {NoRoute}]
Actives == [entries : SUBSET Entries, routes : Routes, requests : Seq(Requests), attempts : Nat]

\* A forward has one entry, and one that waits for the server holds its port.
EntriesFit(a) ==
  /\ \A e, f \in a.entries : e.config.id = f.config.id => e = f
  /\ \A e \in a.entries : e.pending # 0 => ServerSide(e)

\* A port's route is that of the one forward that holds it.
RoutesFit(a) ==
  /\ \A e \in a.entries : ServerSide(e) => a.routes[e.config.port].owner = e.config.id
  /\ \A p \in Ports : a.routes[p].owner # "nobody" =>
       \E e \in a.entries : ServerSide(e) /\ e.config.port = p

\* The forwards it has, in the form they were asked for.
Configured(a) == {e.config : e \in a.entries}

\* What the assumptions on the forwards mean for one of them, and for an entry.
LEMMA ConfigFacts ==
  ASSUME TunnelConstants
  PROVE  /\ \A c \in Configs : c.id \in Ids /\ c.port \in Ports /\ c.id # "nobody" /\ c.kind # "off"
         /\ \A e \in Entries : e.config \in Configs /\ e.holds \in BOOLEAN /\ e.pending \in Nat
         /\ Off \notin Configs
<1>1. \A c \in Configs : c.id \in Ids /\ c.port \in Ports /\ c.id # "nobody" /\ c.kind # "off"
  BY DEF TunnelConstants, Ids, Ports
<1>2. Off.kind = "off"
  BY DEF Off
<1> QED
  BY <1>1, <1>2 DEF Entries

\* The parts of ActiveForwards have their types.
LEMMA ActiveFacts ==
  ASSUME NEW a \in Actives
  PROVE  /\ a.entries \in SUBSET Entries /\ a.routes \in Routes
         /\ a.requests \in Seq(Requests) /\ a.attempts \in Nat
         /\ \A p \in Ports : a.routes[p].live \in Nat
         /\ \A p \in Ports : a.routes[p].owner = "nobody" \/ a.routes[p].owner \in Ids
<1>1. a.entries \in SUBSET Entries /\ a.routes \in Routes /\ a.requests \in Seq(Requests) /\ a.attempts \in Nat
  BY DEF Actives
<1>2. NoRoute.live = 0 /\ NoRoute.owner = "nobody"
  BY DEF NoRoute
<1> QED
  BY <1>1, <1>2 DEF Routes

\* Entries that are let go take their routes with them.
LEMMA ReleaseFacts ==
  ASSUME NEW routes \in Routes, NEW entries
  PROVE  /\ Release(routes, entries) \in Routes
         /\ \A p \in Ports :
              IF \E e \in entries : e.config.port = p /\ e.config.id = routes[p].owner
              THEN Release(routes, entries)[p] = NoRoute
              ELSE Release(routes, entries)[p] = routes[p]
BY DEF Release, Routes

\* The entries of a forward, and those of them the server listens for.
Mine(a, id) == {e \in a.entries : e.config.id = id}
Listens(a, id) == {e \in Mine(a, id) : ServerSide(e)}

\* What is removed, queued and released with the forward id.
LEMMA RemoveIs ==
  ASSUME NEW a \in Actives, NEW id
  PROVE  RemoveEntry(a, id) =
           [a EXCEPT !.entries = a.entries \ Mine(a, id),
                     !.routes = Release(a.routes, Listens(a, id)),
                     !.requests = IF Listens(a, id) = {} THEN a.requests
                                  ELSE Append(a.requests,
                                         Request("cancel", (CHOOSE e \in Listens(a, id) : TRUE).config.port, 0))]
BY DEF RemoveEntry, Mine, Listens

\* A removed forward has no entry and no route any more, and its port is cancelled.
LEMMA RemoveFacts ==
  ASSUME TunnelConstants, NEW a \in Actives, EntriesFit(a), RoutesFit(a), NEW id \in Ids
  PROVE  LET b == RemoveEntry(a, id) IN
         /\ b \in Actives /\ EntriesFit(b) /\ RoutesFit(b)
         /\ b.entries = {e \in a.entries : e.config.id # id} /\ b.attempts = a.attempts
         /\ \A p \in Ports : b.routes[p].owner # id
         /\ \/ b.routes = a.routes /\ b.requests = a.requests
            \/ \E p \in Ports :
                 /\ a.routes[p].owner = id
                 /\ b.routes = [a.routes EXCEPT ![p] = NoRoute]
                 /\ b.requests = Append(a.requests, Request("cancel", p, 0))
<1> DEFINE b == RemoveEntry(a, id)
           L == Listens(a, id)
           e0 == CHOOSE e \in L : TRUE
           p0 == e0.config.port
           q == IF L = {} THEN a.requests ELSE Append(a.requests, Request("cancel", p0, 0))
           routes == Release(a.routes, L)
           others == a.entries \ Mine(a, id)
<1>1. /\ L \subseteq Entries /\ L \subseteq a.entries
      /\ \A e \in L : e.config.id = id /\ ServerSide(e) /\ e.config.port \in Ports
  BY ActiveFacts, ConfigFacts DEF Listens, Mine
<1>2. L # {} => e0 \in L /\ p0 \in Ports /\ L = {e0} /\ a.routes[p0].owner = id
  <2>1. L # {} => e0 \in L
    OBVIOUS
  <2> HIDE DEF e0
  <2>2. L # {} => L = {e0}
    BY <2>1, <1>1 DEF EntriesFit
  <2> QED
    BY <2>1, <2>2, <1>1 DEF RoutesFit
<1>3. q \in Seq(Requests)
  <2>1. a.requests \in Seq(Requests)
    BY ActiveFacts
  <2>2. CASE L # {}
    <3> HIDE DEF p0, L
    <3>1. Request("cancel", p0, 0) \in Requests
      BY <1>2, <2>2 DEF Request, Requests
    <3> QED
      BY <2>1, <2>2, <3>1
  <2> QED
    BY <2>1, <2>2
<1>4. routes \in Routes /\ \A p \in Ports :
        IF \E e \in L : e.config.port = p /\ e.config.id = a.routes[p].owner
        THEN routes[p] = NoRoute ELSE routes[p] = a.routes[p]
  BY ActiveFacts, ReleaseFacts
<1>5. /\ b \in Actives
      /\ b.entries = others /\ b.routes = routes /\ b.attempts = a.attempts
      /\ b.requests = q
  <2>1. b = [a EXCEPT !.entries = others, !.routes = routes, !.requests = q]
    BY RemoveIs
  <2>2. others \in SUBSET Entries
    BY ActiveFacts
  <2>3. routes \in Routes
    BY <1>4
  <2> HIDE DEF q, routes, b, others, L
  <2> QED
    <3>1. b \in Actives
      BY <2>1, <2>2, <2>3, <1>3 DEF Actives
    <3>2. b.entries = others /\ b.routes = routes /\ b.requests = q /\ b.attempts = a.attempts
      BY <2>1 DEF Actives
    <3> QED
      BY <3>1, <3>2
<1> HIDE DEF b, routes
<1>6. b.entries = {e \in a.entries : e.config.id # id}
  BY <1>5 DEF Mine
<1>7. \A p \in Ports : a.routes[p].owner = id => L # {} /\ p = p0
  <2> SUFFICES ASSUME NEW p \in Ports, a.routes[p].owner = id PROVE L # {} /\ p = p0
    OBVIOUS
  <2>1. id # "nobody"
    BY DEF TunnelConstants
  <2>2. PICK e \in a.entries : ServerSide(e) /\ e.config.port = p
    BY <2>1 DEF RoutesFit
  <2>3. e \in L
    BY <2>2 DEF Listens, Mine, RoutesFit
  <2> QED
    BY <2>2, <2>3, <1>2
<1> HIDE DEF p0
<1>8. EntriesFit(b)
  BY <1>6 DEF EntriesFit
<1>9. \A p \in Ports : b.routes[p].owner # id
  <2>1. NoRoute.owner = "nobody" /\ id # "nobody"
    BY DEF NoRoute, TunnelConstants
  <2>2. ASSUME NEW p \in Ports, a.routes[p].owner = id
        PROVE  \E e \in L : e.config.port = p /\ e.config.id = a.routes[p].owner
    BY <2>2, <1>1, <1>2, <1>7 DEF p0
  <2> QED
    BY <1>4, <1>5, <2>1, <2>2
<1>10. RoutesFit(b)
  <2>1. ASSUME NEW e \in b.entries, ServerSide(e)
        PROVE  b.routes[e.config.port].owner = e.config.id
    <3>1. e \in a.entries /\ e.config.id # id /\ e.config.port \in Ports
      BY <1>6, <2>1, ActiveFacts, ConfigFacts
    <3>2. a.routes[e.config.port].owner = e.config.id
      BY <2>1, <3>1 DEF RoutesFit
    <3>3. ~ \E f \in L : f.config.port = e.config.port /\ f.config.id = a.routes[e.config.port].owner
      BY <3>1, <3>2, <1>1
    <3> QED
      BY <1>4, <1>5, <3>1, <3>2, <3>3
  <2>2. ASSUME NEW p \in Ports, b.routes[p].owner # "nobody"
        PROVE  \E e \in b.entries : ServerSide(e) /\ e.config.port = p
    <3>1. b.routes[p] = a.routes[p] /\ a.routes[p].owner # id
      BY <1>4, <1>5, <2>2, <1>9 DEF NoRoute
    <3>2. PICK e \in a.entries : ServerSide(e) /\ e.config.port = p
      BY <2>2, <3>1 DEF RoutesFit
    <3>3. e.config.id # id
      BY <3>1, <3>2 DEF RoutesFit
    <3> QED
      BY <1>6, <3>2, <3>3
  <2> QED
    BY <2>1, <2>2 DEF RoutesFit
<1>11. \/ b.routes = a.routes /\ b.requests = a.requests
       \/ \E p \in Ports :
                 /\ a.routes[p].owner = id
                 /\ b.routes = [a.routes EXCEPT ![p] = NoRoute]
                 /\ b.requests = Append(a.requests, Request("cancel", p, 0))
  <2>1. a.routes \in Routes
    BY ActiveFacts
  <2>2. CASE L = {}
    <3>1. \A p \in Ports : b.routes[p] = a.routes[p]
      BY <1>4, <1>5, <2>2
    <3>2. b.routes = a.routes
      BY <2>1, <3>1, <1>4, <1>5 DEF Routes
    <3> QED
      BY <1>5, <2>2, <3>2 DEF q
  <2>3. CASE L # {}
    <3>1. p0 \in Ports /\ a.routes[p0].owner = id
      BY <1>2, <2>3
    <3>2. \A p \in Ports : b.routes[p] = IF p = p0 THEN NoRoute ELSE a.routes[p]
      BY <1>4, <1>5, <1>1, <1>2, <1>7, <2>3, <3>1 DEF p0
    <3>3. b.routes = [a.routes EXCEPT ![p0] = NoRoute]
      BY <2>1, <3>1, <3>2, <1>4, <1>5 DEF Routes
    <3> QED
      BY <1>5, <2>3, <3>1, <3>3 DEF q
  <2> QED
    BY <2>2, <2>3
<1> QED
  BY <1>6, <1>5, <1>8, <1>9, <1>10, <1>11 DEF b

\* A listen request goes out last, for a port that had no route.
LEMMA ListenFacts ==
  ASSUME TunnelConstants, NEW a \in Actives, EntriesFit(a), RoutesFit(a),
         NEW c \in Configs, c.kind = "remote", Claimable(a.routes, c),
         \A e \in a.entries : e.config.id # c.id, \A p \in Ports : a.routes[p].owner # c.id
  PROVE  LET b == ListenOnServer(a, c)
             n == a.attempts + 1 IN
         /\ b \in Actives /\ EntriesFit(b) /\ RoutesFit(b)
         /\ a.routes[c.port].owner = "nobody"
         /\ b.entries = a.entries \cup {[config |-> c, holds |-> TRUE, pending |-> n]}
         /\ b.attempts = n
         /\ b.routes = [a.routes EXCEPT ![c.port] = [owner |-> c.id, live |-> n]]
         /\ b.requests = Append(a.requests, Request("listen", c.port, n))
<1> DEFINE b == ListenOnServer(a, c)
           n == a.attempts + 1
           new == [config |-> c, holds |-> TRUE, pending |-> n]
           es == a.entries \cup {new}
           route == [owner |-> c.id, live |-> n]
           routes == [a.routes EXCEPT ![c.port] = route]
           q == Append(a.requests, Request("listen", c.port, n))
<1>1. c.id \in Ids /\ c.port \in Ports /\ c.id # "nobody" /\ n \in Nat \ {0}
  BY ConfigFacts, ActiveFacts
<1>2. b = [a EXCEPT !.attempts = n, !.routes[c.port] = route, !.requests = q, !.entries = es]
  BY DEF ListenOnServer
<1>3. es \in SUBSET Entries /\ routes \in Routes /\ q \in Seq(Requests)
  <2>1. new \in Entries
    BY <1>1 DEF Entries
  <2>2. routes \in Routes
    BY <1>1, ActiveFacts DEF Routes
  <2>3. Request("listen", c.port, n) \in Requests
    BY <1>1 DEF Request, Requests
  <2> HIDE DEF new, n, routes
  <2> QED
    BY <2>1, <2>2, <2>3, ActiveFacts
<1>4. /\ b \in Actives
      /\ b.entries = es /\ b.routes = routes /\ b.requests = q /\ b.attempts = n
  <2> HIDE DEF es, q, b, n, route
  <2>1. b \in Actives
    BY <1>1, <1>2, <1>3 DEF Actives
  <2>2. b.entries = es /\ b.routes = routes /\ b.requests = q /\ b.attempts = n
    BY <1>2 DEF Actives
  <2> QED
    BY <2>1, <2>2
<1> HIDE DEF b
<1>5. a.routes[c.port].owner = "nobody"
  BY <1>1 DEF Claimable
<1>6. /\ new.config = c /\ ServerSide(new) /\ new.pending = n
      /\ routes[c.port].owner = c.id
      /\ \A p \in Ports \ {c.port} : routes[p] = a.routes[p]
  BY <1>1, ActiveFacts DEF ServerSide, Routes
<1> HIDE DEF new, routes, route
<1>7. EntriesFit(b)
  BY <1>4, <1>6 DEF EntriesFit
<1>8. RoutesFit(b)
  <2>1. ASSUME NEW e \in b.entries, ServerSide(e)
        PROVE  b.routes[e.config.port].owner = e.config.id
    <3>1. CASE e = new
      BY <1>4, <1>6, <3>1
    <3>2. CASE e # new
      <4>1. e \in a.entries /\ e.config.port \in Ports /\ e.config.id # "nobody"
        BY <1>4, <3>2, ActiveFacts, ConfigFacts
      <4>2. a.routes[e.config.port].owner = e.config.id
        BY <2>1, <4>1 DEF RoutesFit
      <4> QED
        BY <1>4, <1>5, <1>6, <4>1, <4>2
    <3> QED
      BY <3>1, <3>2
  <2>2. ASSUME NEW p \in Ports, b.routes[p].owner # "nobody"
        PROVE  \E e \in b.entries : ServerSide(e) /\ e.config.port = p
    BY <1>4, <1>6, <2>2 DEF RoutesFit
  <2> QED
    BY <2>1, <2>2 DEF RoutesFit
<1> QED
  BY <1>4, <1>5, <1>7, <1>8 DEF b, new, routes, route

\* A forward is taken in, in the form asked for, and holds its port if it can.
LEMMA AddFacts ==
  ASSUME TunnelConstants, NEW a \in Actives, EntriesFit(a), RoutesFit(a), NEW c \in Configs, NEW busy
  PROVE  LET b == AddEntry(a, c, busy) IN
         /\ b \in Actives /\ EntriesFit(b) /\ RoutesFit(b)
         /\ Configured(b) = {d \in Configured(a) : d.id # c.id} \cup {c}
<1> DEFINE b == AddEntry(a, c, busy)
           r == RemoveEntry(a, c.id)
           new == IF c.kind = "remote" THEN [config |-> c, holds |-> FALSE, pending |-> 0]
                  ELSE Bind(r, c, busy)
<1>1. /\ r \in Actives /\ EntriesFit(r) /\ RoutesFit(r)
      /\ r.entries = {e \in a.entries : e.config.id # c.id}
      /\ \A p \in Ports : r.routes[p].owner # c.id
  BY ConfigFacts, RemoveFacts
<1>2. b = IF c.kind = "remote" /\ Claimable(r.routes, c) THEN ListenOnServer(r, c)
          ELSE [r EXCEPT !.entries = r.entries \cup {new}]
  BY DEF AddEntry
<1>3. new \in Entries /\ new.config = c /\ ~ServerSide(new) /\ new.pending = 0
  <2>1. CASE c.kind = "remote"
    BY <2>1 DEF Entries, ServerSide
  <2>2. CASE c.kind # "remote"
    BY <2>2 DEF Bind, Entries, ServerSide
  <2> QED
    BY <2>1, <2>2
<1> HIDE DEF r, b, new
<1>4. CASE c.kind = "remote" /\ Claimable(r.routes, c)
  <2> DEFINE l == [config |-> c, holds |-> TRUE, pending |-> r.attempts + 1]
  <2>1. /\ b \in Actives /\ EntriesFit(b) /\ RoutesFit(b)
        /\ b.entries = r.entries \cup {l}
    BY <1>1, <1>2, <1>4, ListenFacts
  <2>2. l.config = c
    OBVIOUS
  <2> HIDE DEF l
  <2>3. Configured(b) = {d \in Configured(a) : d.id # c.id} \cup {c}
    BY <1>1, <2>1, <2>2 DEF Configured
  <2> QED
    BY <2>1, <2>3 DEF b
<1>5. CASE ~(c.kind = "remote" /\ Claimable(r.routes, c))
  <2> DEFINE es == r.entries \cup {new}
  <2>1. b = [r EXCEPT !.entries = es]
    BY <1>2, <1>5
  <2>2. es \in SUBSET Entries
    BY <1>1, <1>3, ActiveFacts
  <2> HIDE DEF es
  <2>3. b \in Actives /\ b.entries = es /\ b.routes = r.routes
    BY <1>1, <2>1, <2>2 DEF Actives
  <2>4. EntriesFit(b)
    BY <1>1, <1>3, <2>3 DEF EntriesFit, es
  <2>5. RoutesFit(b)
    BY <1>1, <1>3, <2>3 DEF RoutesFit, es
  <2>6. Configured(b) = {d \in Configured(a) : d.id # c.id} \cup {c}
    BY <1>1, <1>3, <2>3 DEF Configured, es
  <2> QED
    BY <2>3, <2>4, <2>5, <2>6 DEF b
<1> QED
  BY <1>4, <1>5

\* An answer settles the entry that waits for it.
LEMMA SettleFacts ==
  ASSUME TunnelConstants, NEW a \in Actives, EntriesFit(a), RoutesFit(a),
         NEW reply \in [attempt : Nat \ {0}, granted : BOOLEAN]
  PROVE  LET b == Settle(a, reply)
             mine == {e \in a.entries : e.pending = reply.attempt} IN
         /\ b \in Actives /\ EntriesFit(b) /\ RoutesFit(b)
         /\ Configured(b) = Configured(a)
         /\ b.requests = a.requests /\ b.attempts = a.attempts
         /\ \A e \in b.entries :
              \/ e \in a.entries \ mine
              \/ e.pending = 0 /\ e.holds = reply.granted /\ \E f \in mine : f.config = e.config
         /\ \A p \in Ports :
              IF ~reply.granted /\ \E e \in mine : e.config.port = p
              THEN b.routes[p] = NoRoute ELSE b.routes[p] = a.routes[p]
<1> DEFINE b == Settle(a, reply)
           mine == {e \in a.entries : e.pending = reply.attempt}
           Settled1(e) == [e EXCEPT !.pending = 0, !.holds = reply.granted]
           settled == {Settled1(e) : e \in mine}
           es == (a.entries \ mine) \cup settled
           routes == IF reply.granted THEN a.routes ELSE Release(a.routes, mine)
<1>1. b = [a EXCEPT !.entries = es, !.routes = routes]
  BY DEF Settle
<1>2. /\ mine \subseteq a.entries /\ a.entries \subseteq Entries
      /\ \A e \in mine : ServerSide(e) /\ e.config.port \in Ports /\ e.config.id # "nobody"
                         /\ a.routes[e.config.port].owner = e.config.id
  BY ActiveFacts, ConfigFacts DEF EntriesFit, RoutesFit
<1>3. \A e \in mine : /\ Settled1(e) \in Entries
                     /\ Settled1(e).config = e.config /\ Settled1(e).pending = 0
                     /\ Settled1(e).holds = reply.granted
  BY <1>2 DEF Entries
<1>4. routes \in Routes /\ \A p \in Ports :
        IF ~reply.granted /\ \E e \in mine : e.config.port = p
        THEN routes[p] = NoRoute ELSE routes[p] = a.routes[p]
  <2>1. routes \in Routes
    BY ActiveFacts, ReleaseFacts
  <2>2. \A p \in Ports : (\E e \in mine : e.config.port = p /\ e.config.id = a.routes[p].owner)
                          <=> (\E e \in mine : e.config.port = p)
    BY <1>2
  <2> HIDE DEF mine
  <2>3. a.routes \in Routes
    BY ActiveFacts
  <2> QED
    BY <2>1, <2>2, <2>3, ReleaseFacts
<1> HIDE DEF b, routes, Settled1, mine
<1>5. es \in SUBSET Entries
  BY <1>2, <1>3
<1>6. /\ b \in Actives
      /\ b.entries = es /\ b.routes = routes /\ b.requests = a.requests /\ b.attempts = a.attempts
  <2> HIDE DEF es
  <2>1. b \in Actives
    BY <1>1, <1>4, <1>5 DEF Actives
  <2> QED
    BY <2>1, <1>1 DEF Actives
<1>7. ASSUME NEW e \in es, e \notin a.entries \ mine
      PROVE  /\ e.pending = 0 /\ e.holds = reply.granted
             /\ \E f \in mine : e = Settled1(f) /\ f.config = e.config
  <2>1. PICK f \in mine : e = Settled1(f)
    BY <1>7
  <2> QED
    BY <1>3, <2>1
<1>8. EntriesFit(b)
  <2>1. ASSUME NEW e \in es, NEW f \in es, e.config.id = f.config.id PROVE e = f
    <3>1. CASE e \in a.entries \ mine /\ f \in a.entries \ mine
      BY <2>1, <3>1 DEF EntriesFit
    <3>2. CASE e \in a.entries \ mine /\ f \notin a.entries \ mine
      BY <1>2, <1>7, <2>1, <3>2 DEF EntriesFit
    <3>3. CASE e \notin a.entries \ mine /\ f \in a.entries \ mine
      BY <1>2, <1>7, <2>1, <3>3 DEF EntriesFit
    <3>4. CASE e \notin a.entries \ mine /\ f \notin a.entries \ mine
      <4>1. PICK g \in mine : e = Settled1(g) /\ g.config = e.config
        BY <1>7, <3>4
      <4>2. PICK h \in mine : f = Settled1(h) /\ h.config = f.config
        BY <1>7, <3>4
      <4>3. g = h
        BY <1>2, <2>1, <4>1, <4>2 DEF EntriesFit
      <4> QED
        BY <4>1, <4>2, <4>3
    <3> QED
      BY <3>1, <3>2, <3>3, <3>4
  <2>2. ASSUME NEW e \in es, e.pending # 0 PROVE ServerSide(e)
    BY <1>7, <2>2 DEF EntriesFit
  <2> QED
    BY <1>6, <2>1, <2>2 DEF EntriesFit
<1>9. RoutesFit(b)
  <2>1. ASSUME NEW e \in es, ServerSide(e)
        PROVE  routes[e.config.port].owner = e.config.id
    <3>1. e.config.port \in Ports /\ e.config.id # "nobody"
      BY <1>5, ConfigFacts
    <3>2. CASE e \in a.entries \ mine
      <4>1. a.routes[e.config.port].owner = e.config.id
        BY <2>1, <3>2 DEF RoutesFit
      <4>2. \A f \in mine : f.config.port # e.config.port
        BY <1>2, <3>2, <4>1 DEF EntriesFit
      <4> QED
        BY <1>4, <3>1, <4>1, <4>2
    <3>3. CASE e \notin a.entries \ mine
      <4>1. reply.granted /\ \E f \in mine : f.config = e.config
        BY <1>7, <2>1, <3>3 DEF ServerSide
      <4> QED
        BY <1>2, <1>4, <3>1, <4>1
    <3> QED
      BY <3>2, <3>3
  <2>2. ASSUME NEW p \in Ports, routes[p].owner # "nobody"
        PROVE  \E e \in es : ServerSide(e) /\ e.config.port = p
    <3>1. routes[p] = a.routes[p] /\ (reply.granted \/ \A e \in mine : e.config.port # p)
      BY <1>4, <2>2 DEF NoRoute
    <3>2. PICK e \in a.entries : ServerSide(e) /\ e.config.port = p
      BY <2>2, <3>1 DEF RoutesFit
    <3>3. CASE e \notin mine
      BY <3>2, <3>3
    <3>4. CASE e \in mine
      <4>1. reply.granted /\ Settled1(e) \in es
        BY <3>1, <3>2, <3>4
      <4> QED
        BY <1>3, <3>2, <3>4, <4>1 DEF ServerSide
    <3> QED
      BY <3>3, <3>4
  <2> QED
    BY <1>6, <2>1, <2>2 DEF RoutesFit
<1>10. Configured(b) = Configured(a)
  <2>1. \A e \in es : \E f \in a.entries : f.config = e.config
    BY <1>2, <1>7
  <2>2. \A f \in a.entries : \E e \in es : f.config = e.config
    BY <1>3
  <2> HIDE DEF es
  <2> QED
    BY <1>6, <2>1, <2>2 DEF Configured
<1>11. \A e \in b.entries :
          \/ e \in a.entries \ mine
          \/ e.pending = 0 /\ e.holds = reply.granted /\ \E f \in mine : f.config = e.config
  BY <1>6, <1>7
<1> QED
  BY <1>4, <1>6, <1>8, <1>9, <1>10, <1>11 DEF b, mine

\* f gives what is bound after so many forwards of the list.
BoundUpTo(a, configs, busy, f, n) ==
  \A i \in 0 .. n : f[i] = IF i = 0 THEN a ELSE AddEntry(f[i - 1], configs[i], busy)

\* The recursion of bind_all has a solution.
LEMMA BoundExists ==
  ASSUME TunnelConstants, NEW a \in Actives, EntriesFit(a), RoutesFit(a), NEW configs \in Seq(Configs), NEW busy
  PROVE  \E f \in [0 .. Len(configs) -> Actives] : BoundUpTo(a, configs, busy, f, Len(configs))
<1> DEFINE Good == {b \in Actives : EntriesFit(b) /\ RoutesFit(b)}
           T == {n \in 0 .. Len(configs) : \E f \in [0 .. n -> Good] : BoundUpTo(a, configs, busy, f, n)}
<1>1. Len(configs) \in Nat
  OBVIOUS
<1>2. 0 \in T
  <2> DEFINE f == [i \in 0 .. 0 |-> a]
  <2>1. f \in [0 .. 0 -> Good] /\ BoundUpTo(a, configs, busy, f, 0)
    BY DEF BoundUpTo
  <2> HIDE DEF f
  <2> QED
    BY <1>1, <2>1
<1>3. ASSUME NEW n \in 0 .. Len(configs), n # Len(configs), n \in T PROVE n + 1 \in T
  <2>1. PICK f \in [0 .. n -> Good] : BoundUpTo(a, configs, busy, f, n)
    BY <1>3
  <2> DEFINE next == AddEntry(f[n], configs[n + 1], busy)
             g == [i \in 0 .. n + 1 |-> IF i = n + 1 THEN next ELSE f[i]]
  <2>2. n + 1 \in 0 .. Len(configs) /\ configs[n + 1] \in Configs /\ f[n] \in Good
    BY <1>1, <1>3
  <2>3. next \in Good
    BY <2>2, AddFacts
  <2> HIDE DEF next
  <2>4. g \in [0 .. n + 1 -> Good]
    <3> HIDE DEF Good
    <3> QED
      BY <2>3
  <2>5. ASSUME NEW i \in 0 .. n + 1
        PROVE  g[i] = IF i = 0 THEN a ELSE AddEntry(g[i - 1], configs[i], busy)
    <3>1. CASE i = n + 1
      <4>1. g[i] = next /\ g[i - 1] = f[n] /\ i # 0
        BY <1>3, <3>1
      <4> QED
        BY <3>1, <4>1 DEF next
    <3>2. CASE i # n + 1
      <4>1. g[i] = f[i] /\ i \in 0 .. n /\ (i # 0 => g[i - 1] = f[i - 1])
        BY <1>3, <3>2
      <4> HIDE DEF g
      <4> QED
        BY <2>1, <4>1 DEF BoundUpTo
    <3> QED
      BY <3>1, <3>2
  <2> HIDE DEF g, Good
  <2>6. BoundUpTo(a, configs, busy, g, n + 1)
    BY <2>5 DEF BoundUpTo
  <2> QED
    BY <2>2, <2>4, <2>6
<1>4. 0 .. Len(configs) \subseteq T
  <2> HIDE DEF T
  <2>1. \A i \in 0 .. Len(configs) : i # Len(configs) /\ i \in T => i + 1 \in T
    BY <1>3
  <2> QED
    BY <1>1, <1>2, <2>1, UpTo
<1>5. PICK f \in [0 .. Len(configs) -> Good] : BoundUpTo(a, configs, busy, f, Len(configs))
  BY <1>1, <1>4
<1>6. f \in [0 .. Len(configs) -> Actives]
  OBVIOUS
<1> QED
  BY <1>5, <1>6

\* All forwards are taken in, when they differ by their ids.
LEMMA BindFacts ==
  ASSUME TunnelConstants, NEW a \in Actives, EntriesFit(a), RoutesFit(a), a.entries = {},
         NEW configs \in Seq(Configs), NEW busy,
         \A c, d \in Elements(configs) : c.id = d.id => c = d
  PROVE  \E f :
           /\ BindAll(a, configs, busy) = f[Len(configs)]
           /\ BoundUpTo(a, configs, busy, f, Len(configs))
           /\ \A i \in 0 .. Len(configs) : f[i] \in Actives /\ EntriesFit(f[i]) /\ RoutesFit(f[i])
           /\ Configured(f[Len(configs)]) = Elements(configs)
<1> DEFINE f == CHOOSE f : f = [i \in 0 .. Len(configs) |->
                  IF i = 0 THEN a ELSE AddEntry(f[i - 1], configs[i], busy)]
<1>1. Len(configs) \in Nat
  OBVIOUS
<1>2. PICK g \in [0 .. Len(configs) -> Actives] : BoundUpTo(a, configs, busy, g, Len(configs))
  BY BoundExists
<1>3. g = [i \in 0 .. Len(configs) |-> IF i = 0 THEN a ELSE AddEntry(g[i - 1], configs[i], busy)]
  BY <1>2 DEF BoundUpTo
<1>4. f = [i \in 0 .. Len(configs) |-> IF i = 0 THEN a ELSE AddEntry(f[i - 1], configs[i], busy)]
  BY <1>3, Zenon
<1>5. BindAll(a, configs, busy) = f[Len(configs)]
  BY DEF BindAll
<1> HIDE DEF f
<1>6. BoundUpTo(a, configs, busy, f, Len(configs))
  BY <1>4 DEF BoundUpTo
<1> DEFINE Front(i) == {configs[j] : j \in 1 .. i}
           P(i) == /\ f[i] \in Actives /\ EntriesFit(f[i]) /\ RoutesFit(f[i])
                   /\ Configured(f[i]) = Front(i)
           T == {i \in 0 .. Len(configs) : P(i)}
<1>7. 0 \in T
  <2>1. f[0] = a
    BY <1>1, <1>6 DEF BoundUpTo
  <2>2. Configured(a) = {} /\ Front(0) = {}
    BY DEF Configured
  <2> QED
    BY <1>1, <2>1, <2>2
<1>8. ASSUME NEW i \in 0 .. Len(configs), i # Len(configs), i \in T PROVE i + 1 \in T
  <2>1. i + 1 \in 1 .. Len(configs) /\ configs[i + 1] \in Configs
    BY <1>1, <1>8
  <2>2. f[i + 1] = AddEntry(f[i], configs[i + 1], busy)
    BY <1>1, <1>6, <2>1 DEF BoundUpTo
  <2>3. P(i)
    BY <1>8
  <2>4. Front(i + 1) = Front(i) \cup {configs[i + 1]}
    BY <1>8
  <2>5. Front(i + 1) \subseteq Elements(configs)
    BY <1>8, <2>1 DEF Elements
  <2> HIDE DEF Front
  <2>6. /\ f[i + 1] \in Actives /\ EntriesFit(f[i + 1]) /\ RoutesFit(f[i + 1])
        /\ Configured(f[i + 1]) = {d \in Front(i) : d.id # configs[i + 1].id} \cup {configs[i + 1]}
    BY <2>1, <2>2, <2>3, AddFacts
  <2>7. {d \in Front(i) : d.id # configs[i + 1].id} \cup {configs[i + 1]} = Front(i + 1)
    <3>1. configs[i + 1] \in Elements(configs) /\ Front(i) \subseteq Elements(configs)
      BY <2>4, <2>5
    <3>2. \A d \in Front(i) : d.id = configs[i + 1].id => d = configs[i + 1]
      BY <3>1
    <3> QED
      BY <2>4, <3>2
  <2> QED
    <3>1. P(i + 1)
      BY <2>6, <2>7
    <3>2. i + 1 \in 0 .. Len(configs)
      BY <1>1, <2>1
    <3> HIDE DEF P
    <3> QED
      BY <3>1, <3>2
<1>9. 0 .. Len(configs) \subseteq T
  <2> HIDE DEF T
  <2>1. \A i \in 0 .. Len(configs) : i # Len(configs) /\ i \in T => i + 1 \in T
    BY <1>8
  <2> QED
    BY <1>1, <1>7, <2>1, UpTo
<1>10. Front(Len(configs)) = Elements(configs)
  BY DEF Elements
<1>11. \A i \in 0 .. Len(configs) : P(i)
  BY <1>9
<1>12. P(Len(configs))
  <2>1. Len(configs) \in 0 .. Len(configs)
    BY <1>1
  <2> HIDE DEF P
  <2> QED
    BY <1>11, <2>1
<1> HIDE DEF Front
<1> QED
  BY <1>5, <1>6, <1>10, <1>11, <1>12

-----------------------------------------------------------------------------
(* The users' wishes pass through the queue of controls. *)

\* The forward a control is about, and the wish it states.
Subject(x) == IF x.kind = "add" THEN x.config.id ELSE x.id
Wish(x) == IF x.kind = "add" THEN x.config ELSE Off

\* The wish w for forward i is the last control about it, or what the tunnel has.
AsAsked(i, cs, forwards, w) ==
  \/ /\ \A k \in 1 .. Len(cs) : Subject(cs[k]) # i
     /\ {c \in forwards : c.id = i} = IF w = Off THEN {} ELSE {w}
  \/ \E k \in 1 .. Len(cs) :
       /\ Subject(cs[k]) = i /\ Wish(cs[k]) = w
       /\ \A m \in 1 .. Len(cs) : m > k => Subject(cs[m]) # i

\* What the tunnel makes of a control.
Handled(forwards, x) ==
  {c \in forwards : c.id # Subject(x)} \cup (IF x.kind = "add" THEN {x.config} ELSE {})

\* A control is about a forward, and states a wish for that one.
LEMMA ControlFacts ==
  ASSUME TunnelConstants, NEW x \in Controls
  PROVE  /\ Subject(x) \in Ids /\ Wish(x) \in Configs \cup {Off}
         /\ x.kind \in {"add", "remove"}
         /\ x.kind = "add" => x.config \in Configs
         /\ x.kind = "remove" => x.id \in Ids
BY ConfigFacts DEF Controls, Subject, Wish

\* A control that is sent states the last wish of its forward.
LEMMA AskedNow ==
  ASSUME NEW cs \in Seq(Controls), NEW x \in Controls, NEW forwards
  PROVE  AsAsked(Subject(x), Append(cs, x), forwards, Wish(x))
<1> DEFINE d == Append(cs, x)
<1>1. Len(d) = Len(cs) + 1 /\ d[Len(d)] = x /\ Len(cs) \in Nat
  OBVIOUS
<1> HIDE DEF d
<1>2. Len(d) \in 1 .. Len(d) /\ \A m \in 1 .. Len(d) : ~(m > Len(d))
  BY <1>1
<1>3. AsAsked(Subject(x), d, forwards, Wish(x))
  BY <1>1, <1>2 DEF AsAsked
<1> QED
  BY <1>3 DEF d

\* A control that is sent leaves the wishes of the other forwards alone.
LEMMA AskedBefore ==
  ASSUME NEW cs \in Seq(Controls), NEW x \in Controls, NEW forwards, NEW i, NEW w,
         Subject(x) # i, AsAsked(i, cs, forwards, w)
  PROVE  AsAsked(i, Append(cs, x), forwards, w)
<1> DEFINE d == Append(cs, x)
<1>1. /\ Len(d) = Len(cs) + 1 /\ d[Len(cs) + 1] = x /\ Len(cs) \in Nat
      /\ \A k \in 1 .. Len(cs) : d[k] = cs[k]
  OBVIOUS
<1> HIDE DEF d
<1>2. \A k \in 1 .. Len(d) : k \in 1 .. Len(cs) \/ d[k] = x
  BY <1>1
<1>3. \A k \in 1 .. Len(cs) : k \in 1 .. Len(d)
  BY <1>1
<1>4. AsAsked(i, d, forwards, w)
  BY <1>1, <1>2, <1>3 DEF AsAsked
<1> QED
  BY <1>4 DEF d

\* A control that is applied leaves every wish as it is, read or unread.
LEMMA AskedStill ==
  ASSUME TunnelConstants, NEW cs \in Seq(Controls), cs # <<>>, NEW forwards, NEW i \in Ids,
         NEW w \in Configs \cup {Off}, AsAsked(i, cs, forwards, w)
  PROVE  AsAsked(i, Tail(cs), Handled(forwards, Head(cs)), w)
<1> DEFINE d == Tail(cs)
           x == Head(cs)
           next == Handled(forwards, x)
<1>1. /\ Len(d) = Len(cs) - 1 /\ Len(cs) \in Nat \ {0} /\ x = cs[1] /\ x \in Controls
      /\ \A k \in 1 .. Len(d) : d[k] = cs[k + 1]
  OBVIOUS
<1> HIDE DEF d, x
<1>2. /\ \A k \in 1 .. Len(d) : k + 1 \in 1 .. Len(cs)
      /\ \A k \in 1 .. Len(cs) : k = 1 \/ (k - 1 \in 1 .. Len(d) /\ d[k - 1] = cs[k])
      /\ 1 \in 1 .. Len(cs)
  BY <1>1
<1>3. CASE \A k \in 1 .. Len(cs) : Subject(cs[k]) # i
  <2>1. {c \in forwards : c.id = i} = IF w = Off THEN {} ELSE {w}
    BY <1>3 DEF AsAsked
  <2>2. Subject(x) # i /\ \A k \in 1 .. Len(d) : Subject(d[k]) # i
    BY <1>1, <1>2, <1>3
  <2>3. x.kind = "add" => x.config.id # i
    BY <2>2 DEF Subject
  <2>4. {c \in next : c.id = i} = {c \in forwards : c.id = i}
    BY <2>2, <2>3 DEF Handled
  <2> QED
    BY <2>1, <2>2, <2>4 DEF AsAsked, d, x
<1>4. CASE ~ \A k \in 1 .. Len(cs) : Subject(cs[k]) # i
  <2>1. PICK k \in 1 .. Len(cs) :
          /\ Subject(cs[k]) = i /\ Wish(cs[k]) = w
          /\ \A m \in 1 .. Len(cs) : m > k => Subject(cs[m]) # i
    BY <1>4 DEF AsAsked
  <2>2. CASE k = 1
    <3>1. \A m \in 1 .. Len(d) : Subject(d[m]) # i
      BY <1>1, <1>2, <2>1, <2>2
    <3>2. Subject(x) = i /\ Wish(x) = w
      BY <1>1, <2>1, <2>2
    <3>3. {c \in next : c.id = i} = IF w = Off THEN {} ELSE {w}
      <4>1. x.kind = "add" => x.config \in Configs /\ x.config.id = i /\ w = x.config /\ w # Off
        BY <1>1, <3>2, ControlFacts, ConfigFacts DEF Subject, Wish
      <4>2. x.kind # "add" => w = Off
        BY <3>2 DEF Wish
      <4> QED
        BY <3>2, <4>1, <4>2 DEF Handled
    <3> QED
      BY <3>1, <3>3 DEF AsAsked, d, x
  <2>3. CASE k # 1
    <3>1. /\ k - 1 \in 1 .. Len(d) /\ d[k - 1] = cs[k]
          /\ \A m \in 1 .. Len(d) : m > k - 1 => Subject(d[m]) # i
      BY <1>1, <1>2, <2>1, <2>3
    <3>2. AsAsked(i, d, next, w)
      BY <2>1, <3>1 DEF AsAsked
    <3> QED
      BY <3>2 DEF d, x
  <2> QED
    BY <2>2, <2>3
<1> QED
  BY <1>3, <1>4

-----------------------------------------------------------------------------
(* The invariant of the tunnel's task. *)

\* The answers to listen requests, in the channel back to the task.
Answers == Seq([attempt : Nat \ {0}, granted : BOOLEAN])

\* The types of what the task and its users share.
TaskTypes ==
  /\ controls \in Seq(Controls) /\ wanted \in Seq(Configs) /\ replies \in Answers
  /\ asked \in [Ids -> Configs \cup {Off}]
  /\ worker \in Requests \cup {NoRequest}
  /\ active \in Actives

\* No forward is wanted twice.
WantedFit == \A c, d \in Elements(wanted) : c.id = d.id => c = d

\* The forwards the tunnel has, or will have once it is connected.
Forwards == IF phase = "connecting" THEN Elements(wanted) ELSE Configured(active)

\* Until it ends, it has what was asked for, but for the controls it has not read.
AllAsked ==
  phase \in {"connecting", "binding", "serving"} =>
    \A i \in Ids : AsAsked(i, controls, Forwards, asked[i])

\* What is shown of a tunnel that serves is what it has.
Shown ==
  phase = "serving" => AnyBound(active) /\ snapshot = EntryIds(active) /\ reported = Statuses(active)

\* Before it is connected a tunnel has no forwards.
NothingYet == phase = "connecting" => active = NoForwards

\* What the task keeps, whatever the server and the worker do.
TaskInv ==
  /\ TaskTypes /\ EntriesFit(active) /\ RoutesFit(active)
  /\ WantedFit /\ AllAsked /\ Shown /\ NothingYet

\* ActiveForwards without forwards is of its type and fits.
LEMMA NoForwardsFit ==
  ASSUME TunnelConstants, NEW n \in Nat
  PROVE  LET a == [NoForwards EXCEPT !.attempts = n] IN
         /\ a \in Actives /\ EntriesFit(a) /\ RoutesFit(a) /\ a.entries = {}
         /\ NoForwards \in Actives /\ EntriesFit(NoForwards) /\ RoutesFit(NoForwards)
         /\ NoForwards.entries = {}
<1> DEFINE routes == [p \in Ports |-> NoRoute]
           a == [NoForwards EXCEPT !.attempts = n]
<1>1. routes \in Routes /\ \A p \in Ports : routes[p].owner = "nobody"
  BY DEF Routes, NoRoute
<1>2. NoForwards = [entries |-> {}, routes |-> routes, requests |-> <<>>, attempts |-> 0]
  BY DEF NoForwards
<1> HIDE DEF routes
<1>3. NoForwards \in Actives /\ NoForwards.entries = {} /\ NoForwards.routes = routes
  BY <1>1, <1>2 DEF Actives
<1>4. a \in Actives /\ a.entries = {} /\ a.routes = routes
  <2>1. a \in Actives
    BY <1>3 DEF Actives
  <2> QED
    BY <1>3, <2>1 DEF Actives
<1> HIDE DEF a
<1>5. /\ EntriesFit(a) /\ EntriesFit(NoForwards)
      /\ RoutesFit(a) /\ RoutesFit(NoForwards)
  BY <1>1, <1>3, <1>4 DEF EntriesFit, RoutesFit
<1> QED
  BY <1>3, <1>4, <1>5 DEF a

\* A tunnel starts out with what it was asked for.
LEMMA TaskInit ==
  ASSUME TunnelConstants, Init
  PROVE  TaskInv
<1>1. controls \in Seq(Controls) /\ controls = <<>> /\ replies \in Answers
      /\ worker \in Requests \cup {NoRequest}
  BY DEF Init, Answers
<1>2. wanted \in Seq(Configs) /\ wanted = Initial /\ phase = "connecting" /\ active = NoForwards
  BY DEF Init, TunnelConstants
<1>3. active \in Actives /\ EntriesFit(active) /\ RoutesFit(active)
  BY <1>2, NoForwardsFit
<1>4. DOMAIN Initial = 1 .. Len(Initial)
  BY DEF TunnelConstants
<1>5. WantedFit
  BY <1>2, <1>4 DEF WantedFit, Elements, TunnelConstants
<1>6. ASSUME NEW i \in Ids
      PROVE  asked[i] \in Configs \cup {Off} /\ AsAsked(i, controls, Elements(wanted), asked[i])
  <2>1. asked[i] = IF i \in IdsOf(Initial)
                   THEN Initial[CHOOSE k \in DOMAIN Initial : Initial[k].id = i] ELSE Off
    BY DEF Init
  <2>2. \A k \in 1 .. Len(controls) : Subject(controls[k]) # i
    BY <1>1
  <2>3. CASE i \in IdsOf(Initial)
    <3> DEFINE k == CHOOSE k \in DOMAIN Initial : Initial[k].id = i
    <3>1. k \in DOMAIN Initial /\ Initial[k].id = i
      BY <2>3 DEF IdsOf
    <3> HIDE DEF k
    <3>2. asked[i] = Initial[k] /\ Initial[k] \in Configs
      BY <2>1, <2>3, <3>1, <1>4 DEF TunnelConstants, k
    <3>3. {c \in Elements(wanted) : c.id = i} = {asked[i]} /\ asked[i] # Off
      BY <1>2, <1>4, <1>5, <3>1, <3>2, ConfigFacts DEF WantedFit, Elements
    <3> QED
      BY <2>2, <3>2, <3>3 DEF AsAsked
  <2>4. CASE i \notin IdsOf(Initial)
    <3>1. asked[i] = Off
      BY <2>1, <2>4
    <3>2. {c \in Elements(wanted) : c.id = i} = {}
      BY <1>2, <1>4, <2>4 DEF IdsOf, Elements
    <3> QED
      BY <2>2, <3>1, <3>2 DEF AsAsked
  <2> QED
    BY <2>3, <2>4
<1>7. asked \in [Ids -> Configs \cup {Off}]
  BY <1>6 DEF Init
<1> QED
  BY <1>1, <1>2, <1>3, <1>5, <1>6, <1>7 DEF TaskInv, TaskTypes, AllAsked, Forwards, Shown,
     NothingYet

\* What leaves the forwards, the wishes and what is shown alone keeps the invariant.
LEMMA CalmStep ==
  ASSUME TaskInv, UNCHANGED <<controls, wanted, asked, snapshot, reported>>,
         active' \in Actives, active'.entries = active.entries, active'.routes = active.routes,
         phase' = phase \/ phase' \in {"closing", "gone"}, phase = "connecting" => active' = active,
         replies' \in Answers, worker' \in Requests \cup {NoRequest}
  PROVE  TaskInv'
<1>1. TaskTypes'
  BY DEF TaskInv, TaskTypes
<1>2. EntriesFit(active') /\ RoutesFit(active')
  BY DEF TaskInv, EntriesFit, RoutesFit
<1>3. Configured(active') = Configured(active) /\ EntryIds(active') = EntryIds(active)
      /\ Statuses(active') = Statuses(active) /\ AnyBound(active') = AnyBound(active)
  BY DEF Configured, EntryIds, Statuses, AnyBound
<1>4. WantedFit' /\ NothingYet'
  BY DEF TaskInv, WantedFit, NothingYet
<1>5. AllAsked'
  <2> SUFFICES ASSUME phase' = phase PROVE AllAsked'
    BY DEF AllAsked
  <2>1. Forwards' = Forwards
    BY <1>3 DEF Forwards
  <2> QED
    BY <2>1 DEF TaskInv, AllAsked
<1>6. Shown'
  BY <1>3 DEF TaskInv, Shown
<1> QED
  BY <1>1, <1>2, <1>4, <1>5, <1>6 DEF TaskInv

\* A task that returns has nothing left to keep.
LEMMA ReturnStep ==
  ASSUME TunnelConstants, TaskInv, NEW how, Return(how)
  PROVE  TaskInv'
<1>1. active.attempts \in Nat
  BY ActiveFacts DEF TaskInv, TaskTypes
<1>2. active' \in Actives /\ EntriesFit(active') /\ RoutesFit(active')
  BY <1>1, NoForwardsFit DEF Return
<1>3. /\ phase' = "ended" /\ controls' \in Seq(Controls) /\ wanted' \in Seq(Configs) /\ wanted' = <<>>
      /\ replies' \in Answers /\ asked' \in [Ids -> Configs \cup {Off}] /\ worker' = NoRequest
  BY DEF Return, Answers
<1>4. WantedFit'
  BY <1>3 DEF WantedFit, Elements
<1> QED
  BY <1>2, <1>3, <1>4 DEF TaskInv, TaskTypes, AllAsked, Shown, NothingYet

\* A wish joins the end of the queue.
LEMMA SendStep ==
  ASSUME TunnelConstants, TaskInv, NEW x \in Controls, Send(x),
         asked' = [asked EXCEPT ![Subject(x)] = Wish(x)]
  PROVE  TaskInv'
<1>1. /\ UNCHANGED <<phase, wanted, active, worker, replies, snapshot, reported>>
      /\ controls' = Append(controls, x)
  BY DEF Send, requesting
<1>2. TaskTypes'
  <2>1. controls' \in Seq(Controls)
    BY <1>1 DEF TaskInv, TaskTypes
  <2>2. asked' \in [Ids -> Configs \cup {Off}]
    BY ControlFacts DEF TaskInv, TaskTypes
  <2> QED
    BY <1>1, <2>1, <2>2 DEF TaskInv, TaskTypes
<1>3. AllAsked'
  <2> SUFFICES ASSUME phase \in {"connecting", "binding", "serving"}, NEW i \in Ids
               PROVE  AsAsked(i, controls', Forwards, asked'[i])
    BY <1>1 DEF AllAsked, Forwards
  <2>1. controls \in Seq(Controls) /\ asked \in [Ids -> Configs \cup {Off}]
        /\ AsAsked(i, controls, Forwards, asked[i])
    BY DEF TaskInv, TaskTypes, AllAsked
  <2>2. CASE i = Subject(x)
    <3>1. asked'[i] = Wish(x)
      BY <2>1, <2>2
    <3> QED
      BY <1>1, <2>1, <2>2, <3>1, AskedNow
  <2>3. CASE i # Subject(x)
    <3>1. asked'[i] = asked[i]
      BY <2>1, <2>3
    <3> QED
      BY <1>1, <2>1, <2>3, <3>1, AskedBefore
  <2> QED
    BY <2>2, <2>3
<1> QED
  BY <1>1, <1>2, <1>3 DEF TaskInv, WantedFit, Shown, NothingYet

\* A user who adds or removes a forward states a wish and queues it.
LEMMA WishesStep ==
  ASSUME TunnelConstants, TaskInv,
         (\E config \in Configs : AddForward(config)) \/ \E id \in Ids : RemoveForward(id)
  PROVE  TaskInv'
<1>1. ASSUME NEW c \in Configs, AddForward(c) PROVE TaskInv'
  <2> DEFINE x == [kind |-> "add", config |-> c]
  <2>1. x \in Controls /\ Subject(x) = c.id /\ Wish(x) = c
    BY DEF Controls, Subject, Wish
  <2>2. Send(x) /\ asked' = [asked EXCEPT ![c.id] = c]
    BY <1>1 DEF AddForward
  <2> HIDE DEF x
  <2> QED
    BY <2>1, <2>2, SendStep
<1>2. ASSUME NEW id \in Ids, RemoveForward(id) PROVE TaskInv'
  <2> DEFINE x == [kind |-> "remove", id |-> id]
  <2>1. x \in Controls /\ Subject(x) = id /\ Wish(x) = Off
    BY DEF Controls, Subject, Wish
  <2>2. Send(x) /\ asked' = [asked EXCEPT ![id] = Off]
    BY <1>2 DEF RemoveForward
  <2> HIDE DEF x
  <2> QED
    BY <2>1, <2>2, SendStep
<1> QED
  BY <1>1, <1>2

\* While connecting, the wish changes the list of what to bind.
LEMMA QueueFacts ==
  ASSUME TunnelConstants, NEW x \in Controls, wanted \in Seq(Configs), WantedFit
  PROVE  LET kept == Queued(x) IN
         /\ kept \in Seq(Configs)
         /\ Elements(kept) = Handled(Elements(wanted), x)
         /\ \A c, d \in Elements(kept) : c.id = d.id => c = d
<1> DEFINE kept == Queued(x)
           D == {c \in Configs : c.id = Subject(x)}
           rest == Without(wanted, D)
<1>1. /\ x.kind \in {"add", "remove"} /\ (x.kind = "add" => x.config \in Configs)
  BY ControlFacts
<1>2. kept = IF x.kind = "add" THEN Append(rest, x.config) ELSE rest
  BY <1>1 DEF Queued, Subject
<1>3. Elements(wanted) \subseteq Configs
  BY DEF Elements
<1>4. rest \in Seq(Configs) /\ Elements(rest) = Elements(wanted) \ D
  BY WithoutFacts
<1> HIDE DEF kept, rest
<1>5. kept \in Seq(Configs) /\ Elements(kept) = Elements(rest) \cup (IF x.kind = "add" THEN {x.config} ELSE {})
  BY <1>1, <1>2, <1>4, AppendElements
<1>6. Elements(rest) = {c \in Elements(wanted) : c.id # Subject(x)}
  BY <1>3, <1>4
<1>7. x.kind = "add" => x.config.id = Subject(x)
  BY DEF Subject
<1>8. Elements(kept) = Handled(Elements(wanted), x)
  BY <1>5, <1>6 DEF Handled
<1>9. \A c, d \in Elements(kept) : c.id = d.id => c = d
  BY <1>5, <1>6, <1>7 DEF WantedFit
<1> QED
  BY <1>5, <1>8, <1>9 DEF kept

\* A control read while connecting changes what is wanted.
LEMMA QueueStep ==
  ASSUME TunnelConstants, TaskInv, QueueChange
  PROVE  TaskInv'
<1> DEFINE x == Head(controls)
           kept == Queued(x)
<1>1. CASE kept = <<>> /\ Return("disconnected")
  BY <1>1, ReturnStep
<1>2. CASE ~(kept = <<>> /\ Return("disconnected"))
  <2>1. /\ phase = "connecting" /\ controls # <<>>
        /\ wanted' = kept /\ controls' = Tail(controls)
        /\ UNCHANGED <<phase, active, worker, replies, asked>>
    BY <1>2 DEF QueueChange, requesting
  <2>2. controls \in Seq(Controls) /\ x \in Controls /\ Tail(controls) \in Seq(Controls)
    BY <2>1 DEF TaskInv, TaskTypes
  <2> HIDE DEF x
  <2>3. /\ kept \in Seq(Configs)
        /\ Elements(kept) = Handled(Elements(wanted), x)
        /\ \A c, d \in Elements(kept) : c.id = d.id => c = d
    BY <2>2, QueueFacts DEF TaskInv, TaskTypes
  <2> HIDE DEF kept
  <2>4. TaskTypes'
    BY <2>1, <2>2, <2>3 DEF TaskInv, TaskTypes
  <2>5. WantedFit'
    BY <2>1, <2>3 DEF WantedFit
  <2>6. ASSUME NEW i \in Ids PROVE AsAsked(i, Tail(controls), Handled(Elements(wanted), x), asked[i])
    <3>1. asked[i] \in Configs \cup {Off} /\ AsAsked(i, controls, Elements(wanted), asked[i])
      BY <2>1 DEF TaskInv, TaskTypes, AllAsked, Forwards
    <3> QED
      BY <2>1, <2>2, <3>1, AskedStill DEF x
  <2>7. AllAsked'
    BY <2>1, <2>3, <2>6 DEF AllAsked, Forwards
  <2> QED
    BY <2>1, <2>4, <2>5, <2>7 DEF TaskInv, Shown, NothingYet
<1> QED
  BY <1>1, <1>2

\* What was wanted is what is bound.
LEMMA ConnectStep ==
  ASSUME TunnelConstants, TaskInv, Connect
  PROVE  TaskInv'
<1>1. /\ phase = "connecting" /\ phase' = "binding" /\ wanted' = <<>>
      /\ UNCHANGED <<controls, worker, replies, asked>>
  BY DEF Connect, requesting
<1>2. active = NoForwards /\ active \in Actives /\ EntriesFit(active) /\ RoutesFit(active)
      /\ active.entries = {} /\ wanted \in Seq(Configs) /\ WantedFit
  BY <1>1, NoForwardsFit DEF TaskInv, TaskTypes, NothingYet
<1>3. PICK busy \in SUBSET LocalPorts : active' = BindAll(active, wanted, busy)
  BY DEF Connect
<1>4. PICK f : /\ BindAll(active, wanted, busy) = f[Len(wanted)]
               /\ \A i \in 0 .. Len(wanted) : f[i] \in Actives /\ EntriesFit(f[i]) /\ RoutesFit(f[i])
               /\ Configured(f[Len(wanted)]) = Elements(wanted)
  <2>1. \A c, d \in Elements(wanted) : c.id = d.id => c = d
    BY <1>2 DEF WantedFit
  <2>2. \E f : /\ BindAll(active, wanted, busy) = f[Len(wanted)]
               /\ BoundUpTo(active, wanted, busy, f, Len(wanted))
               /\ \A i \in 0 .. Len(wanted) : f[i] \in Actives /\ EntriesFit(f[i]) /\ RoutesFit(f[i])
               /\ Configured(f[Len(wanted)]) = Elements(wanted)
    BY <1>2, <2>1, BindFacts
  <2> QED
    BY <2>2
<1>5. /\ active' \in Actives /\ EntriesFit(active') /\ RoutesFit(active')
      /\ Configured(active') = Elements(wanted)
  <2>1. Len(wanted) \in 0 .. Len(wanted)
    BY <1>2
  <2> QED
    BY <1>3, <1>4, <2>1
<1>6. TaskTypes'
  BY <1>1, <1>5 DEF TaskInv, TaskTypes
<1>7. WantedFit'
  BY <1>1 DEF WantedFit, Elements
<1>8. AllAsked'
  BY <1>1, <1>5 DEF TaskInv, AllAsked, Forwards
<1> QED
  BY <1>1, <1>5, <1>6, <1>7, <1>8 DEF TaskInv, Shown, NothingYet

\* An answer is applied, while binding or serving; or a control.
LEMMA AppliedStep ==
  ASSUME TaskInv, phase \in {"binding", "serving"}, NEW a, active' = a,
         a \in Actives, EntriesFit(a), RoutesFit(a),
         controls' \in Seq(Controls), replies' \in Answers, UNCHANGED <<worker, wanted, asked>>,
         \A i \in Ids : AsAsked(i, controls', Configured(a), asked[i]),
         \/ phase' = "closing"
         \/ phase' = "binding"
         \/ phase' = "serving" /\ AnyBound(a) /\ Publish(a)
  PROVE  TaskInv'
<1>1. TaskTypes' /\ WantedFit'
  BY DEF TaskInv, TaskTypes, WantedFit
<1>2. AllAsked'
  BY DEF AllAsked, Forwards
<1>3. Shown' /\ NothingYet'
  BY DEF Shown, NothingYet, Publish
<1> QED
  BY <1>1, <1>2, <1>3 DEF TaskInv

\* An answer settles an entry, and leaves the forwards themselves alone.
LEMMA ReplyStep ==
  ASSUME TunnelConstants, TaskInv, AwaitReply \/ ApplyReply
  PROVE  TaskInv'
<1> DEFINE r == Head(replies)
           a == Settle(active, r)
<1>1. /\ phase \in {"binding", "serving"} /\ replies # <<>> /\ active' = a
      /\ replies' = Tail(replies) /\ UNCHANGED <<controls, worker, wanted, asked>>
      /\ \/ phase' = "closing"
         \/ phase' = "binding"
         \/ phase' = "serving" /\ AnyBound(a) /\ Publish(a)
  BY DEF AwaitReply, ApplyReply, ReportOrEnd, requesting
<1>2. r \in [attempt : Nat \ {0}, granted : BOOLEAN] /\ Tail(replies) \in Answers
  <2>1. replies \in Answers
    BY DEF TaskInv, TaskTypes
  <2> DEFINE S == [attempt : Nat \ {0}, granted : BOOLEAN]
  <2>2. replies \in Seq(S) /\ Answers = Seq(S)
    BY <2>1 DEF Answers
  <2> HIDE DEF S
  <2>3. Head(replies) \in S /\ Tail(replies) \in Seq(S)
    BY <1>1, <2>2
  <2> QED
    BY <2>2, <2>3 DEF S
<1> HIDE DEF r
<1>3. a \in Actives /\ EntriesFit(a) /\ RoutesFit(a) /\ Configured(a) = Configured(active)
  BY <1>2, SettleFacts DEF TaskInv, TaskTypes
<1> HIDE DEF a
<1>4. \A i \in Ids : AsAsked(i, controls', Configured(a), asked[i])
  BY <1>1, <1>3 DEF TaskInv, AllAsked, Forwards
<1>5. controls' \in Seq(Controls)
  BY <1>1 DEF TaskInv, TaskTypes
<1> QED
  BY <1>1, <1>2, <1>3, <1>4, <1>5, AppliedStep

\* A control read while serving changes the forwards, as it says.
LEMMA ControlStep ==
  ASSUME TunnelConstants, TaskInv, ApplyControl
  PROVE  TaskInv'
<1> DEFINE x == Head(controls)
<1>1. PICK busy \in SUBSET LocalPorts :
        ReportOrEnd(IF x.kind = "add" THEN AddEntry(active, x.config, busy)
                                      ELSE RemoveEntry(active, x.id))
  BY DEF ApplyControl
<1>2. /\ phase = "serving" /\ controls # <<>> /\ controls' = Tail(controls)
      /\ UNCHANGED <<worker, wanted, replies, asked>>
  BY DEF ApplyControl, requesting
<1>3. controls \in Seq(Controls) /\ x \in Controls /\ Tail(controls) \in Seq(Controls)
      /\ active \in Actives /\ EntriesFit(active) /\ RoutesFit(active) /\ replies \in Answers
  BY <1>2 DEF TaskInv, TaskTypes
<1> DEFINE a == IF x.kind = "add" THEN AddEntry(active, x.config, busy)
                ELSE RemoveEntry(active, x.id)
<1> HIDE DEF x
<1>4. a \in Actives /\ EntriesFit(a) /\ RoutesFit(a)
      /\ Configured(a) = Handled(Configured(active), x)
  <2>1. CASE x.kind = "add"
    <3>1. x.config \in Configs /\ Subject(x) = x.config.id
      BY <1>3, <2>1, ControlFacts DEF Subject
    <3> QED
      BY <1>3, <2>1, <3>1, AddFacts DEF Handled
  <2>2. CASE x.kind # "add"
    <3>1. x.id \in Ids /\ Subject(x) = x.id
      BY <1>3, <2>2, ControlFacts DEF Subject
    <3>2. /\ a \in Actives /\ EntriesFit(a) /\ RoutesFit(a)
          /\ a.entries = {e \in active.entries : e.config.id # x.id}
      BY <1>3, <2>2, <3>1, RemoveFacts
    <3> HIDE DEF a
    <3>3. Configured(a) = Handled(Configured(active), x)
      BY <2>2, <3>1, <3>2 DEF Configured, Handled
    <3> QED
      BY <3>2, <3>3
  <2> QED
    BY <2>1, <2>2
<1>5. /\ active' = a
      /\ \/ phase' = "closing"
         \/ phase' = "serving" /\ AnyBound(a) /\ Publish(a)
  BY <1>1, <1>2 DEF ReportOrEnd
<1> HIDE DEF a
<1>6. ASSUME NEW i \in Ids PROVE AsAsked(i, controls', Configured(a), asked[i])
  <2>1. asked[i] \in Configs \cup {Off} /\ AsAsked(i, controls, Configured(active), asked[i])
    BY <1>2 DEF TaskInv, TaskTypes, AllAsked, Forwards
  <2> QED
    BY <1>2, <1>3, <1>4, <2>1, AskedStill DEF x
<1> QED
  BY <1>2, <1>3, <1>4, <1>5, <1>6, AppliedStep

\* Once all is answered, the forwards are shown or given up.
LEMMA FinishStep ==
  ASSUME TunnelConstants, TaskInv, FinishBinding
  PROVE  TaskInv'
<1>1. CASE ~AnyBound(active) /\ Return("error")
  BY <1>1, ReturnStep
<1>2. CASE ~(~AnyBound(active) /\ Return("error"))
  <2>1. /\ phase = "binding" /\ phase' = "serving" /\ AnyBound(active) /\ Publish(active)
        /\ UNCHANGED <<controls, wanted, active, worker, replies, asked>>
    BY <1>2 DEF FinishBinding, requesting
  <2>2. TaskTypes' /\ WantedFit' /\ EntriesFit(active') /\ RoutesFit(active')
    BY <2>1 DEF TaskInv, TaskTypes, WantedFit
  <2>3. AllAsked'
    BY <2>1 DEF TaskInv, AllAsked, Forwards
  <2>4. Shown' /\ NothingYet'
    BY <2>1 DEF Shown, NothingYet, Publish
  <2> QED
    BY <2>2, <2>3, <2>4 DEF TaskInv
<1> QED
  BY <1>1, <1>2

\* What the worker does, the server and the connection changes no forward.
LEMMA RequestsStep ==
  ASSUME TunnelConstants, TaskInv,
         \/ StopTunnel \/ StopBinding \/ EndServing \/ LeaveMap \/ WorkerStep
         \/ ServerHandles \/ ConnectionDies
         \/ (\E p \in Ports : Forwarded(p))
         \/ \E c \in conns : RouteGone(c) \/ ConnEnds(c)
         \/ UNCHANGED vars
  PROVE  TaskInv'
<1>1. active \in Actives /\ replies \in Answers /\ worker \in Requests \cup {NoRequest}
  BY DEF TaskInv, TaskTypes
<1>2. CASE TakeRequest
  <2> DEFINE rest == Tail(active.requests)
             head == Head(active.requests)
  <2>1. active.requests \in Seq(Requests) /\ active.requests # <<>>
    BY <1>1, <1>2, ActiveFacts DEF TakeRequest
  <2>2. rest \in Seq(Requests) /\ head \in Requests
    BY <2>1
  <2>3. active' = [active EXCEPT !.requests = rest] /\ worker' = head
    BY <1>2 DEF TakeRequest
  <2>4. UNCHANGED <<phase, controls, wanted, asked, snapshot, reported, replies>>
    BY <1>2 DEF TakeRequest
  <2>5. phase # "connecting"
    BY <2>1 DEF TaskInv, NothingYet, NoForwards
  <2> HIDE DEF rest, head
  <2>6. active' \in Actives
    BY <1>1, <2>2, <2>3 DEF Actives
  <2>7. active'.entries = active.entries /\ active'.routes = active.routes
    BY <1>1, <2>3 DEF Actives
  <2> QED
    BY <1>1, <2>2, <2>3, <2>4, <2>5, <2>6, <2>7, CalmStep
<1>3. CASE ~TakeRequest
  <2>1. /\ UNCHANGED <<controls, wanted, asked, snapshot, reported, active>>
        /\ phase' = phase \/ phase' \in {"closing", "gone"}
    BY <1>3 DEF StopTunnel, StopBinding, EndServing, LeaveMap, WorkerStep, TimeOut, RequestFails,
       CancelBehind, ServerHandles, ConnectionDies, Forwarded, RouteGone, ConnEnds, ConnsAre, vars
  <2>2. replies' = replies \/ \E granted \in BOOLEAN : worker # NoRequest /\ Reply(granted)
    <3>1. CASE TimeOut \/ RequestFails
      BY <3>1 DEF TimeOut, RequestFails
    <3>2. CASE ServerHandles
      <4>1. Head(wire).kind = "listen" => Head(wire) # NoRequest
        BY DEF NoRequest
      <4>2. CASE replies' = replies
        BY <4>2
      <4>3. CASE replies' # replies
        <5>1. PICK granted \in {FALSE} \cup {Head(wire).port \notin listening} :
                worker = Head(wire) /\ Head(wire).kind = "listen" /\ Reply(granted)
          BY <3>2, <4>3 DEF ServerHandles
        <5> QED
          BY <4>1, <5>1
      <4> QED
        BY <4>2, <4>3
    <3> QED
      BY <1>3, <3>1, <3>2 DEF StopTunnel, StopBinding, EndServing, LeaveMap, WorkerStep,
         CancelBehind, ConnectionDies, Forwarded, RouteGone, ConnEnds, ConnsAre, vars
  <2>3. replies' \in Answers
    <3>1. ASSUME NEW granted \in BOOLEAN, Reply(granted) PROVE replies' \in Answers
      <4> DEFINE S == [attempt : Nat \ {0}, granted : BOOLEAN]
                 r == [attempt |-> worker.attempt, granted |-> granted]
      <4>1. worker.kind = "listen" => r \in S
        BY <1>1 DEF Requests, NoRequest
      <4>2. replies \in Seq(S) /\ Answers = Seq(S)
        BY <1>1 DEF Answers
      <4>3. replies' = IF worker.kind = "listen" THEN Append(replies, r) ELSE replies
        BY <3>1 DEF Reply
      <4> HIDE DEF S, r
      <4> QED
        BY <4>1, <4>2, <4>3
    <3> QED
      BY <1>1, <2>2, <3>1
  <2>4. worker' \in {worker, NoRequest}
    BY <1>3 DEF StopTunnel, StopBinding, EndServing, LeaveMap, WorkerStep, TimeOut, RequestFails,
       CancelBehind, ServerHandles, ConnectionDies, Forwarded, RouteGone, ConnEnds, ConnsAre, vars,
       requesting
  <2> QED
    BY <1>1, <2>1, <2>3, <2>4, CalmStep
<1> QED
  BY <1>2, <1>3

\* The task's invariant is kept by every step.
LEMMA TaskStepKeeps ==
  ASSUME TunnelConstants, TaskInv, [Next]_vars
  PROVE  TaskInv'
<1>1. CASE StopConnecting \/ ConnectFails \/ Close
  BY <1>1, ReturnStep DEF StopConnecting, ConnectFails, Close
<1> QED
  BY <1>1, WishesStep, QueueStep, ConnectStep, ReplyStep, ControlStep, FinishStep, RequestsStep
  DEF Next, TaskStep

\* When all is read, the forwards are as asked.
LEMMA TaskMeans ==
  ASSUME TunnelConstants, TaskInv
  PROVE  RoutesMatchForwards /\ ServesWhatWasAsked /\ NeverIdle
<1>1. RoutesMatchForwards
  <2> SUFFICES ASSUME NEW p \in Ports
               PROVE  LET keepers == {e \in active.entries : ServerSide(e) /\ e.config.port = p}
                      IN active.routes[p].owner # "nobody" \/ keepers # {} =>
                         \E e \in keepers : keepers = {e} /\ e.config.id = active.routes[p].owner
    BY DEF RoutesMatchForwards
  <2> DEFINE keepers == {e \in active.entries : ServerSide(e) /\ e.config.port = p}
  <2>1. active.routes[p].owner # "nobody" => keepers # {}
    BY DEF TaskInv, RoutesFit
  <2>2. \A e, f \in keepers : e = f /\ e.config.id = active.routes[p].owner
    BY DEF TaskInv, RoutesFit, EntriesFit
  <2> QED
    BY <2>1, <2>2
<1>2. ServesWhatWasAsked
  <2> SUFFICES ASSUME phase = "serving", controls = <<>>
               PROVE  /\ \A i \in Ids : asked[i] # Off <=> i \in EntryIds(active)
                      /\ \A e \in active.entries : e.config = asked[e.config.id]
                      /\ snapshot = EntryIds(active) /\ reported = Statuses(active)
    BY DEF ServesWhatWasAsked
  <2>1. ASSUME NEW i \in Ids
        PROVE  {c \in Configured(active) : c.id = i} = IF asked[i] = Off THEN {} ELSE {asked[i]}
    BY DEF TaskInv, AllAsked, Forwards, AsAsked
  <2>2. \A e \in active.entries : e.config.id \in Ids
    BY ActiveFacts, ConfigFacts DEF TaskInv, TaskTypes
  <2>3. ASSUME NEW e \in active.entries PROVE e.config = asked[e.config.id] /\ asked[e.config.id] # Off
    BY <2>1, <2>2 DEF Configured
  <2>4. ASSUME NEW i \in Ids, asked[i] # Off PROVE i \in EntryIds(active)
    BY <2>1, <2>4 DEF Configured, EntryIds
  <2> QED
    BY <2>2, <2>3, <2>4 DEF TaskInv, Shown, EntryIds
<1>3. NeverIdle
  BY DEF TaskInv, Shown, NeverIdle
<1> QED
  BY <1>1, <1>2, <1>3

-----------------------------------------------------------------------------
(* What is in line for a port of the server: in the queue or on the wire.      *)

\* The two requests about a port.
IsListen(r, p) == r.kind = "listen" /\ r.port = p
IsCancel(r, p) == r.kind = "cancel" /\ r.port = p

\* A cancel comes after the kth request in line.
Cancelled(q, p, k) == \E m \in 1 .. Len(q) : m > k /\ IsCancel(q[m], p)

\* Every listen for the port, but for the one that counts, is cancelled: later
\* in line, or by what comes after the line.
Ends(q, p, live, coming) ==
  \A k \in 1 .. Len(q) : IsListen(q[k], p) /\ q[k] # live => coming \/ Cancelled(q, p, k)

\* Nothing for the port comes after the request r.
Closes(q, p, r) ==
  \A k \in 1 .. Len(q) : q[k] = r => \A m \in 1 .. Len(q) : m > k => q[m].port # p

\* No request of the queue is about the port.
NoneFor(q, p) == \A r \in Elements(q) : r.port # p

\* What a request that joins a line does to the lines of its port and of others.
LEMMA LineAppend ==
  ASSUME NEW S, NEW q \in Seq(S), NEW x \in S, NEW p, NEW live, NEW coming \in BOOLEAN
  PROVE  LET d == Append(q, x) IN
         /\ d \in Seq(S) /\ Elements(d) = Elements(q) \cup {x}
         /\ Cancelled(d, p, 0) <=> Cancelled(q, p, 0) \/ IsCancel(x, p)
         /\ Ends(q, p, live, coming) /\ (IsListen(x, p) => x = live \/ coming) => Ends(d, p, live, coming)
         /\ IsCancel(x, p) => Ends(d, p, live, coming)
         /\ Closes(q, p, live) /\ x.port # p => Closes(d, p, live)
         /\ live \notin Elements(q) => Closes(d, p, live)
<1> DEFINE d == Append(q, x)
<1>1. /\ d \in Seq(S) /\ Len(d) = Len(q) + 1 /\ Len(q) \in Nat /\ d[Len(q) + 1] = x
      /\ \A k \in 1 .. Len(q) : d[k] = q[k]
  OBVIOUS
<1>2. Elements(d) = Elements(q) \cup {x}
  BY AppendElements
<1> HIDE DEF d
<1>3. /\ \A k \in 1 .. Len(d) : k \in 1 .. Len(q) \/ k = Len(q) + 1
      /\ \A k \in 1 .. Len(q) : k \in 1 .. Len(d) /\ ~(k > Len(q) + 1) /\ Len(q) + 1 > k
      /\ Len(q) + 1 \in 1 .. Len(d) /\ Len(q) + 1 > 0 /\ ~(Len(q) + 1 > Len(q) + 1)
  BY <1>1
<1> USE <1>1, <1>3
<1>4. Cancelled(d, p, 0) <=> Cancelled(q, p, 0) \/ IsCancel(x, p)
  BY DEF Cancelled
<1>5. \A k \in 1 .. Len(q) : Cancelled(q, p, k) \/ IsCancel(x, p) => Cancelled(d, p, k)
  BY DEF Cancelled
<1>6. Ends(q, p, live, coming) /\ (IsListen(x, p) => x = live \/ coming) => Ends(d, p, live, coming)
  BY <1>5 DEF Ends
<1>7. IsCancel(x, p) => Ends(d, p, live, coming)
  BY <1>5 DEF Ends, IsListen, IsCancel
<1>8. Closes(q, p, live) /\ x.port # p => Closes(d, p, live)
  BY DEF Closes
<1>9. live \notin Elements(q) => Closes(d, p, live)
  BY DEF Closes, Elements
<1> QED
  BY <1>2, <1>4, <1>6, <1>7, <1>8, <1>9 DEF d

\* What is left of a line, once its first request was taken, and what that one meant.
LEMMA LineTail ==
  ASSUME NEW S, NEW q \in Seq(S), q # <<>>, NEW p, NEW live, NEW coming \in BOOLEAN
  PROVE  LET x == Head(q)
             d == Tail(q) IN
         /\ x \in S /\ d \in Seq(S) /\ Elements(q) = Elements(d) \cup {x}
         /\ Cancelled(q, p, 0) <=> Cancelled(d, p, 0) \/ IsCancel(x, p)
         /\ Ends(q, p, live, coming) => Ends(d, p, live, coming)
         /\ Ends(q, p, live, coming) /\ IsListen(x, p) /\ x # live => coming \/ Cancelled(d, p, 0)
         /\ Closes(q, p, live) => Closes(d, p, live)
         /\ Closes(q, p, live) /\ x = live => NoneFor(d, p)
<1> DEFINE x == Head(q)
           d == Tail(q)
<1>1. /\ d \in Seq(S) /\ Len(d) = Len(q) - 1 /\ Len(q) \in Nat \ {0} /\ q[1] = x /\ x \in S
      /\ \A k \in 1 .. Len(d) : d[k] = q[k + 1]
  OBVIOUS
<1> HIDE DEF d, x
<1>2. /\ \A k \in 1 .. Len(d) : k \in Nat /\ k + 1 \in 1 .. Len(q) /\ k + 1 > 1
      /\ \A k \in 1 .. Len(q) : k = 1 \/ (k - 1 \in 1 .. Len(d) /\ d[k - 1] = q[k])
      /\ 1 \in 1 .. Len(q)
  BY <1>1
<1>3. Elements(q) = Elements(d) \cup {x}
  <2>1. \A k \in 1 .. Len(q) : q[k] = x \/ q[k] \in Elements(d)
    BY <1>1, <1>2 DEF Elements
  <2>2. \A k \in 1 .. Len(d) : d[k] \in Elements(q)
    BY <1>1, <1>2 DEF Elements
  <2>3. x \in Elements(q)
    BY <1>1, <1>2 DEF Elements
  <2> QED
    BY <2>1, <2>2, <2>3 DEF Elements
<1>4. \A k \in 0 .. Len(d) : Cancelled(q, p, k + 1) <=> Cancelled(d, p, k)
  <2> SUFFICES ASSUME NEW k \in 0 .. Len(d) PROVE Cancelled(q, p, k + 1) <=> Cancelled(d, p, k)
    OBVIOUS
  <2>1. ASSUME NEW m \in 1 .. Len(d), m > k PROVE m + 1 \in 1 .. Len(q) /\ m + 1 > k + 1 /\ q[m + 1] = d[m]
    BY <1>1, <2>1
  <2>2. ASSUME NEW m \in 1 .. Len(q), m > k + 1 PROVE m - 1 \in 1 .. Len(d) /\ m - 1 > k /\ d[m - 1] = q[m]
    BY <1>1, <1>2, <2>2
  <2> QED
    BY <2>1, <2>2 DEF Cancelled
<1>5. Cancelled(q, p, 0) <=> Cancelled(d, p, 0) \/ IsCancel(x, p)
  <2>1. Cancelled(q, p, 1) <=> Cancelled(d, p, 0)
    BY <1>1, <1>4
  <2>2. Cancelled(q, p, 0) <=> Cancelled(q, p, 1) \/ IsCancel(x, p)
    BY <1>1, <1>2 DEF Cancelled
  <2> QED
    BY <2>1, <2>2
<1>6. Ends(q, p, live, coming) => Ends(d, p, live, coming)
  <2> SUFFICES ASSUME Ends(q, p, live, coming), NEW k \in 1 .. Len(d), IsListen(d[k], p), d[k] # live
               PROVE  coming \/ Cancelled(d, p, k)
    BY DEF Ends
  <2>1. coming \/ Cancelled(q, p, k + 1)
    BY <1>1, <1>2 DEF Ends
  <2>2. k \in 0 .. Len(d)
    BY <1>1
  <2> QED
    BY <1>4, <2>1, <2>2
<1>7. Ends(q, p, live, coming) /\ IsListen(x, p) /\ x # live => coming \/ Cancelled(d, p, 0)
  <2>1. Cancelled(q, p, 1) <=> Cancelled(d, p, 0)
    BY <1>1, <1>4
  <2> QED
    BY <1>1, <1>2, <2>1 DEF Ends
<1>8. Closes(q, p, live) => Closes(d, p, live)
  <2> SUFFICES ASSUME Closes(q, p, live), NEW k \in 1 .. Len(d), d[k] = live, NEW m \in 1 .. Len(d), m > k
               PROVE  d[m].port # p
    BY DEF Closes
  <2>1. k + 1 \in 1 .. Len(q) /\ m + 1 \in 1 .. Len(q) /\ m + 1 > k + 1 /\ q[k + 1] = live /\ q[m + 1] = d[m]
    BY <1>1
  <2> QED
    BY <2>1 DEF Closes
<1>9. Closes(q, p, live) /\ x = live => NoneFor(d, p)
  BY <1>1, <1>2 DEF Closes, NoneFor, Elements
<1> QED
  BY <1>1, <1>3, <1>5, <1>6, <1>7, <1>8, <1>9 DEF d, x

\* A line without requests for a port has no cancel of it, and nothing to end.
LEMMA NoneMeans ==
  ASSUME NEW q, NEW p, NEW live, NEW coming \in BOOLEAN, NoneFor(q, p)
  PROVE  ~Cancelled(q, p, 0) /\ Ends(q, p, live, coming)
BY DEF NoneFor, Cancelled, Ends, Elements, IsListen, IsCancel

\* What ends by itself also ends when a cancel comes after.
LEMMA EndsMore ==
  ASSUME NEW q, NEW p, NEW live, NEW coming \in BOOLEAN, NEW more \in BOOLEAN,
         Ends(q, p, live, coming), coming => more
  PROVE  Ends(q, p, live, more)
BY DEF Ends

-----------------------------------------------------------------------------
(* The answers in the replies' channel. *)

\* The listen of that number was answered, was refused, was answered once.
Told(rs, n) == \E r \in Elements(rs) : r.attempt = n
Refusal(rs, n) == \E r \in Elements(rs) : r.attempt = n /\ ~r.granted
Once(rs, n) ==
  \A i, j \in 1 .. Len(rs) : rs[i].attempt = n /\ rs[j].attempt = n => i = j

\* One of the answers.
Answer == [attempt : Nat \ {0}, granted : BOOLEAN]

\* What an answer that is sent adds to those in the channel.
LEMMA AnswerAppend ==
  ASSUME NEW rs \in Seq(Answer), NEW x \in Answer, NEW n
  PROVE  LET d == Append(rs, x) IN
         /\ d \in Seq(Answer) /\ Elements(d) = Elements(rs) \cup {x}
         /\ Told(d, n) <=> Told(rs, n) \/ x.attempt = n
         /\ Refusal(d, n) <=> Refusal(rs, n) \/ (x.attempt = n /\ ~x.granted)
         /\ Once(rs, n) /\ (Told(rs, n) => x.attempt # n) => Once(d, n)
<1> DEFINE d == Append(rs, x)
<1>1. Elements(d) = Elements(rs) \cup {x}
  BY AppendElements
<1>2. /\ d \in Seq(Answer) /\ Len(d) = Len(rs) + 1 /\ Len(rs) \in Nat /\ d[Len(rs) + 1] = x
      /\ \A k \in 1 .. Len(rs) : d[k] = rs[k]
  OBVIOUS
<1> HIDE DEF d
<1>3. \A k \in 1 .. Len(d) : k \in 1 .. Len(rs) \/ k = Len(rs) + 1
  BY <1>2
<1>4. Once(rs, n) /\ (Told(rs, n) => x.attempt # n) => Once(d, n)
  <2> SUFFICES ASSUME Once(rs, n), Told(rs, n) => x.attempt # n,
                      NEW i \in 1 .. Len(d), NEW j \in 1 .. Len(d), d[i].attempt = n, d[j].attempt = n
               PROVE  i = j
    BY DEF Once
  <2>1. \A k \in 1 .. Len(rs) : rs[k] \in Elements(rs)
    BY DEF Elements
  <2> QED
    BY <1>2, <1>3, <2>1 DEF Once, Told
<1> QED
  BY <1>1, <1>2, <1>4 DEF d, Told, Refusal

\* What an answer that is read takes from those in the channel.
LEMMA AnswerTail ==
  ASSUME NEW rs \in Seq(Answer), rs # <<>>, NEW n
  PROVE  LET x == Head(rs)
             d == Tail(rs) IN
         /\ x \in Answer /\ d \in Seq(Answer) /\ Elements(rs) = Elements(d) \cup {x}
         /\ Told(rs, n) <=> Told(d, n) \/ x.attempt = n
         /\ Refusal(rs, n) <=> Refusal(d, n) \/ (x.attempt = n /\ ~x.granted)
         /\ Once(rs, n) => Once(d, n) /\ (x.attempt = n => ~Told(d, n))
<1> DEFINE x == Head(rs)
           d == Tail(rs)
<1>1. /\ d \in Seq(Answer) /\ Len(d) = Len(rs) - 1 /\ Len(rs) \in Nat \ {0} /\ rs[1] = x /\ x \in Answer
      /\ \A k \in 1 .. Len(d) : d[k] = rs[k + 1]
  <2> HIDE DEF Answer
  <2> QED
    OBVIOUS
<1>2. Elements(rs) = Elements(d) \cup {x}
  BY LineTail
<1> HIDE DEF d, x
<1>3. \A k \in 1 .. Len(d) : k + 1 \in 1 .. Len(rs) /\ k + 1 # 1
  BY <1>1
<1>4. Once(rs, n) => Once(d, n) /\ (x.attempt = n => ~Told(d, n))
  <2> SUFFICES ASSUME Once(rs, n) PROVE Once(d, n) /\ (x.attempt = n => ~Told(d, n))
    OBVIOUS
  <2>1. \A k \in 1 .. Len(d) : d[k].attempt = n => x.attempt # n
    BY <1>1, <1>3 DEF Once
  <2>2. ASSUME NEW i \in 1 .. Len(d), NEW j \in 1 .. Len(d), d[i].attempt = n, d[j].attempt = n PROVE i = j
    <3>1. i + 1 = j + 1
      BY <1>1, <1>3, <2>2 DEF Once
    <3> QED
      BY <3>1
  <2> QED
    BY <2>1, <2>2 DEF Once, Told, Elements
<1> QED
  BY <1>1, <1>2, <1>4 DEF d, x, Told, Refusal

-----------------------------------------------------------------------------
(* Where the listen request of a port's route is: in the queue, with the worker, *)
(* or answered; and then the port is open on the server, or was refused.         *)

\* The port has a route; the request made for it.
Owned(a, p) == a.routes[p].owner # "nobody"
Live(a, p) == Request("listen", p, a.routes[p].live)

\* How far that request came, and how it was answered.
InQueue(a, p) == Owned(a, p) /\ Live(a, p) \in Elements(a.requests)
AtServer(a, p) == Owned(a, p) /\ worker = Live(a, p)
Answered(a, p) == Owned(a, p) /\ Told(replies, a.routes[p].live)
Done(a, p) == Owned(a, p) /\ ~InQueue(a, p) /\ ~AtServer(a, p)
IsOpen(a, p) == Done(a, p) /\ ~Refusal(replies, a.routes[p].live)

\* A cancel the wire has not seen yet.
Coming(a, p) == cancels[p] = "unsent" \/ Cancelled(a.requests, p, 0)

\* What the server listens on for nobody will be cancelled, and so will what it
\* may still be asked for nobody.
StaleEnds(a, p) ==
  /\ Ends(a.requests, p, IF Owned(a, p) THEN Live(a, p) ELSE NoRequest, FALSE)
  /\ Ends(wire, p, IF AtServer(a, p) THEN Live(a, p) ELSE NoRequest, Coming(a, p))
  /\ p \in listening /\ ~IsOpen(a, p) => Coming(a, p) \/ Cancelled(wire, p, 0)

\* The request of a route is the last for its port, wherever it is; after it was
\* granted nothing takes the port away.
LiveCounts(a, p) ==
  /\ InQueue(a, p) =>
       Closes(a.requests, p, Live(a, p)) /\ ~AtServer(a, p) /\ Live(a, p) \notin Elements(wire)
         /\ ~Answered(a, p)
  /\ AtServer(a, p) =>
       NoneFor(a.requests, p) /\ cancels[p] = "none" /\ Closes(wire, p, Live(a, p))
         /\ (alive => Live(a, p) \in Elements(wire)) /\ ~Answered(a, p)
  /\ Done(a, p) => NoneFor(a.requests, p) /\ ~IsListen(worker, p)
  /\ IsOpen(a, p) =>
       cancels[p] # "unsent" /\ ~Cancelled(wire, p, 0) /\ (alive => p \in listening)

\* The forward that holds the port waits as long as its request is not answered
\* and the answer not read, which there is at most one of.
HolderWaits(a, p) ==
  Owned(a, p) =>
    /\ \A e \in a.entries : ServerSide(e) /\ e.config.port = p =>
         e.pending = IF Done(a, p) /\ ~Answered(a, p) THEN 0 ELSE a.routes[p].live
    /\ Once(replies, a.routes[p].live)

\* What holds of each port.
PortInv(a, p) == StaleEnds(a, p) /\ LiveCounts(a, p) /\ HolderWaits(a, p)

\* Listens are numbered: no two ports have the same number.
Numbered(a, r) ==
  r.kind = "listen" =>
    r.attempt <= a.attempts /\ \A p \in Ports : Owned(a, p) /\ r.attempt = a.routes[p].live => r.port = p

\* Every listen request and answer about has a number that was given out.
Numbers(a) ==
  /\ Numbered(a, worker)
  /\ \A r \in Elements(a.requests) : Numbered(a, r)
  /\ \A r \in Elements(wire) : r.kind = "listen" => r.attempt <= a.attempts
  /\ \A r \in Elements(replies) : r.attempt <= a.attempts
  /\ \A p \in Ports : Owned(a, p) => a.routes[p].live \in 1 .. a.attempts
  /\ \A p, q \in Ports : Owned(a, p) /\ Owned(a, q) /\ a.routes[p].live = a.routes[q].live => p = q

\* The types of what the task does not see; a dead connection carries nothing.
WorldTypes ==
  /\ wire \in Seq(Requests) /\ listening \subseteq Ports
  /\ cancels \in [Ports -> {"none", "unsent", "sent"}]
  /\ ~alive => wire = <<>> /\ listening = {}

\* What the requests, the worker and the server keep between them.
LineInv == WorldTypes /\ Numbers(active) /\ \A p \in Ports : PortInv(active, p)

\* The types, field by field.
LEMMA TypedSo ==
  ASSUME TaskTypes
  PROVE  /\ active \in Actives /\ active.requests \in Seq(Requests)
         /\ active.attempts \in Nat /\ active.entries \subseteq Entries
         /\ worker \in Requests \cup {NoRequest}
         /\ replies \in Seq(Answer)
BY ActiveFacts DEF TaskTypes, Answers, Answer

\* Requests of the two kinds, and none of them is no request.
LEMMA RequestFacts ==
  /\ NoRequest.kind = "none" /\ NoRequest.port = 0
  /\ \A r \in Requests : /\ r.kind \in {"listen", "cancel"} /\ r.port \in Ports /\ r.attempt \in Nat
                         /\ r.kind = "listen" => r.attempt \in Nat \ {0} /\ r = Request("listen", r.port, r.attempt)
                         /\ r # NoRequest
  /\ \A p, n : LET r == Request("listen", p, n) IN
       r.kind = "listen" /\ r.port = p /\ r.attempt = n /\ r # NoRequest
<1>1. \A r \in Requests : r.kind = "listen" => r.attempt \in Nat \ {0} /\ r = Request("listen", r.port, r.attempt)
  BY DEF Requests, Request
<1> QED
  BY <1>1 DEF NoRequest, Requests, Request

\* An answer to the worker's request.
LEMMA ReplyFacts ==
  ASSUME TaskTypes, NEW granted \in BOOLEAN, Reply(granted)
  PROVE  /\ replies' \in Seq(Answer)
         /\ \A r \in Elements(replies') : r \in Elements(replies) \/ (worker.kind = "listen" /\ r.attempt = worker.attempt)
         /\ \A n : Told(replies', n) <=> Told(replies, n) \/ (worker.kind = "listen" /\ worker.attempt = n)
         /\ \A n : Refusal(replies', n) <=>
              Refusal(replies, n) \/ (worker.kind = "listen" /\ worker.attempt = n /\ ~granted)
         /\ \A n : Once(replies, n) /\ (Told(replies, n) => worker.kind # "listen" \/ worker.attempt # n)
              => Once(replies', n)
<1>1. CASE worker.kind # "listen"
  BY <1>1, TypedSo DEF Reply
<1>2. CASE worker.kind = "listen"
  <2> DEFINE x == [attempt |-> worker.attempt, granted |-> granted]
  <2>1. x \in Answer /\ x.attempt = worker.attempt /\ x.granted = granted
    BY <1>2, TypedSo, RequestFacts DEF Answer
  <2>2. replies' = Append(replies, x)
    BY <1>2 DEF Reply
  <2> HIDE DEF x
  <2>3. replies \in Seq(Answer)
    BY TypedSo
  <2>4. \A n : /\ replies' \in Seq(Answer) /\ Elements(replies') = Elements(replies) \cup {x}
               /\ Told(replies', n) <=> Told(replies, n) \/ x.attempt = n
               /\ Refusal(replies', n) <=> Refusal(replies, n) \/ (x.attempt = n /\ ~x.granted)
               /\ Once(replies, n) /\ (Told(replies, n) => x.attempt # n) => Once(replies', n)
    BY <2>1, <2>2, <2>3, AnswerAppend
  <2> QED
    BY <1>2, <2>1, <2>4
<1> QED
  BY <1>1, <1>2

\* The worker's listen counts for its port, or is another's.
LEMMA WorkerIs ==
  ASSUME TunnelConstants, TaskTypes, LineInv, NEW p \in Ports, Owned(active, p)
  PROVE  /\ AtServer(active, p) <=> worker.kind = "listen" /\ worker.attempt = active.routes[p].live
         /\ AtServer(active, p) => worker.port = p
<1>1. Numbered(active, worker)
  BY DEF LineInv, Numbers
<1>2. worker.kind = "listen" /\ worker.attempt = active.routes[p].live => worker.port = p
  BY <1>1 DEF Numbered
<1>3. worker.kind = "listen" => worker \in Requests
  BY TypedSo, RequestFacts
<1> QED
  BY <1>2, <1>3, RequestFacts DEF AtServer, Live

\* The request of the worker fails: it timed out, or the connection is gone.
LEMMA FailedStep ==
  ASSUME TunnelConstants, TaskTypes, LineInv, TimeOut \/ RequestFails, NEW p \in Ports
  PROVE  PortInv(active, p)'
<1> DEFINE w == worker
           n == active.routes[p].live
           mine == w.kind = "listen" /\ w.attempt = n
<1>1. /\ worker # NoRequest /\ worker' = NoRequest /\ Reply(FALSE)
      /\ UNCHANGED <<active, wire, listening, alive>>
      /\ \/ cancels' = cancels /\ ~alive
         \/ cancels' = IF worker.kind = "listen" THEN [cancels EXCEPT ![worker.port] = "unsent"] ELSE cancels
  BY DEF TimeOut, RequestFails, server
<1>2. /\ cancels \in [Ports -> {"none", "unsent", "sent"}] /\ (~alive => wire = <<>> /\ listening = {})
      /\ PortInv(active, p) /\ w \in Requests
  BY <1>1, TypedSo DEF LineInv, WorldTypes
<1>3. /\ Told(replies', n) <=> Told(replies, n) \/ mine
      /\ Refusal(replies', n) <=> Refusal(replies, n) \/ mine
      /\ Once(replies, n) /\ (Told(replies, n) => ~mine) => Once(replies', n)
  BY <1>1, ReplyFacts
<1>4. /\ Owned(active, p) => (AtServer(active, p) <=> mine)
      /\ AtServer(active, p) => w.kind = "listen" /\ w.port = p
      /\ AtServer(active, p)' = FALSE
  <2>1. Live(active, p)' # NoRequest
    BY RequestFacts DEF Live
  <2>2. AtServer(active, p) => w.kind = "listen" /\ w.port = p
    BY RequestFacts DEF AtServer, Live
  <2> QED
    BY <1>1, <2>1, <2>2, WorkerIs DEF AtServer
<1>5. /\ Owned(active, p)' = Owned(active, p) /\ Live(active, p)' = Live(active, p)
      /\ InQueue(active, p)' = InQueue(active, p)
      /\ Answered(active, p)' = (Answered(active, p) \/ AtServer(active, p))
  BY <1>1, <1>3, <1>4 DEF Owned, Live, InQueue, Answered, AtServer
<1>6. /\ Done(active, p)' = (Done(active, p) \/ AtServer(active, p))
      /\ IsOpen(active, p)' = IsOpen(active, p)
  <2>1. InQueue(active, p) => ~AtServer(active, p)
    BY <1>2 DEF PortInv, LiveCounts
  <2>2. Done(active, p)' = (Done(active, p) \/ AtServer(active, p))
    BY <1>4, <1>5, <2>1 DEF Done, AtServer
  <2> QED
    BY <1>1, <1>3, <1>4, <2>2 DEF IsOpen, Done
<1>7. /\ cancels'[p] = IF cancels' # cancels /\ w.kind = "listen" /\ w.port = p THEN "unsent" ELSE cancels[p]
      /\ Coming(active, p) => Coming(active, p)'
  BY <1>1, <1>2, RequestFacts DEF Coming
<1>8. StaleEnds(active, p)'
  <2>1. Ends(active.requests, p, IF Owned(active, p) THEN Live(active, p) ELSE NoRequest, FALSE)'
    BY <1>1, <1>2, <1>5 DEF PortInv, StaleEnds
  <2>2. Ends(wire, p, NoRequest, Coming(active, p))'
    <3>1. CASE ~alive
      BY <1>1, <1>2, <3>1 DEF Ends
    <3>2. CASE alive /\ AtServer(active, p)
      <4>1. cancels'[p] = "unsent"
        BY <1>1, <1>2, <1>4, <3>2, RequestFacts
      <4> QED
        BY <4>1 DEF Coming, Ends
    <3>3. CASE ~AtServer(active, p)
      <4>1. Ends(wire, p, NoRequest, Coming(active, p))
        BY <1>2, <3>3 DEF PortInv, StaleEnds
      <4>2. Coming(active, p) \in BOOLEAN /\ Coming(active, p)' \in BOOLEAN
        BY DEF Coming, Cancelled
      <4> QED
        BY <1>1, <1>7, <4>1, <4>2, EndsMore
    <3> QED
      BY <3>1, <3>2, <3>3
  <2>3. (p \in listening /\ ~IsOpen(active, p) => Coming(active, p) \/ Cancelled(wire, p, 0))'
    BY <1>1, <1>2, <1>6, <1>7 DEF PortInv, StaleEnds
  <2> QED
    BY <1>4, <2>1, <2>2, <2>3 DEF StaleEnds
<1>9. LiveCounts(active, p)'
  <2>1. InQueue(active, p)' =>
          Closes(active'.requests, p, Live(active, p)') /\ Live(active, p)' \notin Elements(wire')
            /\ ~Answered(active, p)'
    BY <1>1, <1>2, <1>5 DEF PortInv, LiveCounts
  <2>2. Done(active, p)' => NoneFor(active'.requests, p) /\ ~IsListen(worker', p)
    BY <1>1, <1>2, <1>6, RequestFacts DEF PortInv, LiveCounts, IsListen
  <2>3. IsOpen(active, p)' =>
          cancels'[p] # "unsent" /\ ~Cancelled(wire', p, 0) /\ (alive' => p \in listening')
    <3>1. IsOpen(active, p) => ~(w.kind = "listen" /\ w.port = p)
      BY <1>2 DEF PortInv, LiveCounts, IsOpen, IsListen
    <3> QED
      BY <1>1, <1>2, <1>6, <1>7, <3>1 DEF PortInv, LiveCounts
  <2> QED
    BY <1>4, <2>1, <2>2, <2>3 DEF LiveCounts
<1>10. HolderWaits(active, p)'
  <2>1. Owned(active, p) => (Done(active, p)' /\ ~Answered(active, p)' <=> Done(active, p) /\ ~Answered(active, p))
    BY <1>2, <1>5, <1>6 DEF Done
  <2>2. Owned(active, p) => Once(replies', n)
    BY <1>2, <1>3, <1>4 DEF PortInv, HolderWaits, LiveCounts, Answered
  <2> QED
    BY <1>1, <1>2, <1>5, <2>1, <2>2 DEF PortInv, HolderWaits
<1> QED
  BY <1>8, <1>9, <1>10 DEF PortInv

\* The worker takes the next request: the one of a route, one that counts no
\* more, or a cancel.
LEMMA TakenStep ==
  ASSUME TunnelConstants, TaskTypes, LineInv, TakeRequest, NEW p \in Ports
  PROVE  PortInv(active, p)'
<1> DEFINE q == active.requests
           x == Head(q)
           d == Tail(q)
           live == Live(active, p)
           own == IF Owned(active, p) THEN live ELSE NoRequest
<1>1. /\ q \in Seq(Requests) /\ q # <<>> /\ worker = NoRequest /\ worker' = x
      /\ cancels[x.port] = "none"
      /\ active' = [active EXCEPT !.requests = d]
      /\ wire' = IF alive THEN Append(wire, x) ELSE wire
      /\ UNCHANGED <<cancels, replies, listening, alive>>
  BY TypedSo DEF TakeRequest
<1>2. /\ wire \in Seq(Requests) /\ (~alive => wire = <<>> /\ listening = {}) /\ PortInv(active, p)
  BY DEF LineInv, WorldTypes
<1>3. x \in Requests /\ d \in Seq(Requests)
  BY <1>1
<1>4. /\ Elements(q) = Elements(d) \cup {x}
      /\ Cancelled(q, p, 0) <=> Cancelled(d, p, 0) \/ IsCancel(x, p)
      /\ Ends(q, p, own, FALSE) => Ends(d, p, own, FALSE)
      /\ Ends(q, p, own, FALSE) /\ IsListen(x, p) /\ x # own => Cancelled(d, p, 0)
      /\ Closes(q, p, live) => Closes(d, p, live)
      /\ Closes(q, p, live) /\ x = live => NoneFor(d, p)
  <2> HIDE DEF own, live
  <2> QED
    BY <1>1, LineTail
<1>5. active'.requests = d /\ active'.entries = active.entries /\ active'.routes = active.routes
  <2> HIDE DEF d
  <2> QED
    BY <1>1, TypedSo DEF Actives
<1> HIDE DEF x, d, q
<1>6. /\ Owned(active, p)' = Owned(active, p) /\ Live(active, p)' = live
      /\ Answered(active, p)' = Answered(active, p)
  BY <1>1, <1>5 DEF Owned, Live, Answered
<1>7. /\ AtServer(active, p) = FALSE
      /\ AtServer(active, p)' = (Owned(active, p) /\ x = live)
      /\ InQueue(active, p)' => InQueue(active, p)
      /\ InQueue(active, p) => InQueue(active, p)' \/ x = live
  BY <1>1, <1>4, <1>5, <1>6, RequestFacts DEF AtServer, InQueue, Live, q
<1>8. StaleEnds(active, p) /\ LiveCounts(active, p) /\ HolderWaits(active, p)
  BY <1>2 DEF PortInv
<1>9. CASE Owned(active, p) /\ x = live
  <2>1. /\ InQueue(active, p) /\ NoneFor(d, p) /\ live \notin Elements(wire)
        /\ ~Answered(active, p) /\ cancels[p] = "none" /\ x.port = p /\ x.kind = "listen"
    BY <1>1, <1>4, <1>8, <1>9, RequestFacts DEF InQueue, LiveCounts, Live, q
  <2>2. AtServer(active, p)' /\ ~InQueue(active, p)' /\ ~Done(active, p)' /\ ~IsOpen(active, p)'
    BY <1>1, <1>5, <1>6, <1>7, <1>9, <2>1, RequestFacts DEF InQueue, Done, IsOpen, NoneFor
  <2>3. /\ Closes(wire', p, live)
        /\ alive => live \in Elements(wire')
        /\ Ends(wire, p, NoRequest, FALSE) => Ends(wire', p, live, FALSE)
        /\ Cancelled(wire, p, 0) => Cancelled(wire', p, 0)
    <3>1. Ends(wire, p, NoRequest, FALSE) => Ends(wire, p, live, FALSE)
      BY RequestFacts DEF Ends, IsListen
    <3>2. Closes(wire, p, live)
      BY <2>1 DEF Closes, Elements
    <3> HIDE DEF live
    <3>3. CASE ~alive
      BY <1>1, <3>1, <3>2, <3>3
    <3>4. CASE alive
      <4>1. wire' = Append(wire, x)
        BY <1>1, <3>4
      <4>2. \A coming \in BOOLEAN :
              /\ Elements(wire') = Elements(wire) \cup {x}
              /\ Cancelled(wire', p, 0) <=> Cancelled(wire, p, 0) \/ IsCancel(x, p)
              /\ Ends(wire, p, live, coming) /\ (IsListen(x, p) => x = live \/ coming) => Ends(wire', p, live, coming)
              /\ live \notin Elements(wire) => Closes(wire', p, live)
        BY <1>2, <1>3, <4>1, LineAppend
      <4> QED
        BY <1>9, <2>1, <3>1, <4>2
    <3> QED
      BY <3>3, <3>4
  <2>4. Coming(active, p) = FALSE /\ Coming(active, p)' = FALSE
    <3>1. ~Cancelled(d, p, 0)
      BY <2>1, NoneMeans
    <3>2. ~Cancelled(q, p, 0) /\ cancels'[p] = "none"
      BY <1>1, <1>4, <2>1, <3>1 DEF IsCancel
    <3> QED
      BY <1>5, <2>1, <3>1, <3>2 DEF Coming, q
  <2>5. StaleEnds(active, p)'
    <3>1. Ends(wire', p, live, FALSE)
      BY <1>7, <1>8, <2>3, <2>4 DEF StaleEnds
    <3>2. Ends(d, p, own, FALSE)
      BY <1>4, <1>8 DEF StaleEnds, q
    <3>3. p \in listening => Cancelled(wire, p, 0)
      BY <1>8, <2>1, <2>4 DEF StaleEnds, IsOpen, Done
    <3> QED
      BY <1>1, <1>5, <1>6, <2>2, <2>3, <2>4, <3>1, <3>2, <3>3 DEF StaleEnds
  <2>6. LiveCounts(active, p)'
    BY <1>1, <1>5, <1>6, <2>1, <2>2, <2>3 DEF LiveCounts
  <2>7. HolderWaits(active, p)'
    BY <1>1, <1>5, <1>6, <1>8, <2>1, <2>2 DEF HolderWaits, Done
  <2> QED
    BY <2>5, <2>6, <2>7 DEF PortInv
<1>10. CASE ~(Owned(active, p) /\ x = live)
  <2>1. /\ ~AtServer(active, p)' /\ InQueue(active, p)' = InQueue(active, p)
        /\ Done(active, p)' = Done(active, p) /\ IsOpen(active, p)' = IsOpen(active, p)
    BY <1>1, <1>5, <1>6, <1>7, <1>10 DEF Done, IsOpen, InQueue
  <2>2. Done(active, p) => x.port # p
    BY <1>4, <1>8 DEF LiveCounts, NoneFor, q
  <2>3. /\ Cancelled(wire', p, 0) <=> Cancelled(wire, p, 0) \/ (alive /\ IsCancel(x, p))
        /\ \A coming \in BOOLEAN :
             Ends(wire, p, NoRequest, coming) /\ (IsListen(x, p) => coming) => Ends(wire', p, NoRequest, coming)
        /\ \A coming \in BOOLEAN : alive /\ IsCancel(x, p) => Ends(wire', p, NoRequest, coming)
        /\ Elements(wire') \subseteq Elements(wire) \cup {x}
    <3>1. CASE alive
      <4>1. wire' = Append(wire, x)
        BY <1>1, <3>1
      <4>2. \A coming \in BOOLEAN :
              /\ Elements(wire') = Elements(wire) \cup {x}
              /\ Cancelled(wire', p, 0) <=> Cancelled(wire, p, 0) \/ IsCancel(x, p)
              /\ Ends(wire, p, NoRequest, coming) /\ (IsListen(x, p) => x = NoRequest \/ coming) => Ends(wire', p, NoRequest, coming)
              /\ IsCancel(x, p) => Ends(wire', p, NoRequest, coming)
        BY <1>2, <1>3, <4>1, LineAppend
      <4> QED
        BY <3>1, <4>2
    <3>2. CASE ~alive
      BY <1>1, <3>2
    <3> QED
      BY <3>1, <3>2
  <2>4. /\ IsListen(x, p) => Coming(active, p)'
        /\ Coming(active, p) => Coming(active, p)' \/ IsCancel(x, p)
        /\ Coming(active, p) \in BOOLEAN /\ Coming(active, p)' \in BOOLEAN
    <3>1. IsListen(x, p) => Cancelled(d, p, 0)
      BY <1>3, <1>4, <1>8, <1>10, RequestFacts DEF StaleEnds, q
    <3> QED
      BY <1>1, <1>4, <1>5, <3>1 DEF Coming, Cancelled, q
  <2>5. StaleEnds(active, p)'
    <3>1. Ends(d, p, own, FALSE)
      BY <1>4, <1>8 DEF StaleEnds, q
    <3>2. Ends(wire, p, NoRequest, Coming(active, p))
      BY <1>7, <1>8 DEF StaleEnds
    <3>3. Ends(wire', p, NoRequest, Coming(active, p)')
      <4>1. CASE ~alive
        BY <1>1, <1>2, <4>1 DEF Ends
      <4>2. CASE alive /\ IsCancel(x, p)
        BY <2>3, <2>4, <4>2
      <4>3. CASE ~IsCancel(x, p)
        <5>1. Ends(wire, p, NoRequest, Coming(active, p)')
          BY <2>4, <3>2, <4>3, EndsMore
        <5> QED
          BY <2>3, <2>4, <5>1
      <4> QED
        BY <4>1, <4>2, <4>3
    <3>4. p \in listening /\ ~IsOpen(active, p) => Coming(active, p)' \/ Cancelled(wire', p, 0)
      BY <1>2, <1>8, <2>3, <2>4 DEF StaleEnds
    <3> QED
      BY <1>1, <1>5, <1>6, <2>1, <3>1, <3>3, <3>4 DEF StaleEnds
  <2>6. LiveCounts(active, p)'
    <3>1. InQueue(active, p) =>
            Closes(d, p, live) /\ live \notin Elements(wire') /\ ~Answered(active, p)
      BY <1>4, <1>8, <1>10, <2>3 DEF LiveCounts, InQueue, q
    <3>2. Done(active, p) => NoneFor(d, p) /\ ~IsListen(x, p)
      BY <1>4, <1>8, <2>2 DEF LiveCounts, NoneFor, IsListen, q
    <3>3. IsOpen(active, p) =>
            cancels[p] # "unsent" /\ ~Cancelled(wire', p, 0) /\ (alive => p \in listening)
      BY <1>8, <2>2, <2>3 DEF LiveCounts, IsOpen, IsCancel
    <3> QED
      BY <1>1, <1>5, <1>6, <2>1, <3>1, <3>2, <3>3 DEF LiveCounts
  <2>7. HolderWaits(active, p)'
    BY <1>1, <1>5, <1>6, <1>8, <2>1 DEF HolderWaits
  <2> QED
    BY <2>5, <2>6, <2>7 DEF PortInv
<1> QED
  BY <1>9, <1>10

\* The cancel behind a listen's back goes out, or is over.
LEMMA CancelStep ==
  ASSUME TunnelConstants, TaskTypes, LineInv, NEW c \in Ports, CancelBehind(c), NEW p \in Ports
  PROVE  PortInv(active, p)'
<1> DEFINE x == [kind |-> "cancel", port |-> c, attempt |-> 1]
           live == Live(active, p)
           one == IF AtServer(active, p) THEN live ELSE NoRequest
<1>1. /\ UNCHANGED <<active, worker, replies, listening, alive>>
      /\ \/ cancels[c] = "unsent" /\ cancels' = [cancels EXCEPT ![c] = "sent"]
            /\ wire' = IF alive THEN Append(wire, x) ELSE wire
         \/ cancels[c] = "sent" /\ cancels' = [cancels EXCEPT ![c] = "none"] /\ wire' = wire
  BY DEF CancelBehind
<1>2. /\ wire \in Seq(Requests) /\ (~alive => wire = <<>> /\ listening = {})
      /\ cancels \in [Ports -> {"none", "unsent", "sent"}]
      /\ StaleEnds(active, p) /\ LiveCounts(active, p) /\ HolderWaits(active, p)
  BY DEF LineInv, WorldTypes, PortInv
<1>3. x \in Requests /\ x.kind = "cancel" /\ x.port = c /\ x # live
  BY DEF Requests, Live, Request
<1> HIDE DEF x
<1>4. /\ Owned(active, p)' = Owned(active, p) /\ Live(active, p)' = live
      /\ InQueue(active, p)' = InQueue(active, p) /\ AtServer(active, p)' = AtServer(active, p)
      /\ Answered(active, p)' = Answered(active, p)
      /\ Done(active, p)' = Done(active, p) /\ IsOpen(active, p)' = IsOpen(active, p)
  BY <1>1 DEF Owned, Live, InQueue, AtServer, Answered, Done, IsOpen
<1>5. HolderWaits(active, p)'
  BY <1>1, <1>2, <1>4 DEF HolderWaits
<1>6. /\ cancels'[p] = "unsent" => cancels[p] = "unsent"
      /\ AtServer(active, p) => cancels[p] = "none" /\ cancels'[p] = "none" /\ p # c
      /\ Coming(active, p) => Coming(active, p)' \/ (p = c /\ cancels[c] = "unsent")
      /\ Coming(active, p) \in BOOLEAN /\ Coming(active, p)' \in BOOLEAN
  BY <1>1, <1>2 DEF LiveCounts, Coming, Cancelled
<1>7. CASE cancels[c] = "sent" \/ ~alive
  <2>1. wire' = wire
    BY <1>1, <1>7
  <2>2. ~alive \/ (Coming(active, p) => Coming(active, p)')
    BY <1>6, <1>7
  <2>3. Ends(wire, p, one, Coming(active, p)')
    <3>1. Ends(wire, p, one, Coming(active, p))
      BY <1>2 DEF StaleEnds
    <3>2. ~alive => Ends(wire, p, one, Coming(active, p)')
      BY <1>2 DEF Ends
    <3> HIDE DEF one
    <3> QED
      BY <1>6, <2>2, <3>1, <3>2, EndsMore
  <2>4. StaleEnds(active, p)'
    BY <1>1, <1>2, <1>4, <2>1, <2>2, <2>3 DEF StaleEnds
  <2>5. LiveCounts(active, p)'
    BY <1>1, <1>2, <1>4, <1>6, <2>1 DEF LiveCounts
  <2> QED
    BY <1>5, <2>4, <2>5 DEF PortInv
<1>8. CASE cancels[c] = "unsent" /\ alive
  <2>1. wire' = Append(wire, x)
    BY <1>1, <1>8
  <2>2. \A coming \in BOOLEAN :
          /\ Elements(wire') = Elements(wire) \cup {x}
          /\ Cancelled(wire', p, 0) <=> Cancelled(wire, p, 0) \/ IsCancel(x, p)
          /\ Ends(wire, p, one, coming) => Ends(wire', p, one, coming)
          /\ IsCancel(x, p) => Ends(wire', p, one, coming)
          /\ Closes(wire, p, live) /\ p # c => Closes(wire', p, live)
    <3> HIDE DEF one, live
    <3>1. ~IsListen(x, p)
      BY <1>3 DEF IsListen
    <3>2. \A coming \in BOOLEAN :
            /\ Elements(wire') = Elements(wire) \cup {x}
            /\ Cancelled(wire', p, 0) <=> Cancelled(wire, p, 0) \/ IsCancel(x, p)
            /\ Ends(wire, p, one, coming) /\ (IsListen(x, p) => x = one \/ coming) => Ends(wire', p, one, coming)
            /\ IsCancel(x, p) => Ends(wire', p, one, coming)
      BY <1>2, <1>3, <2>1, LineAppend
    <3>3. Closes(wire, p, live) /\ x.port # p => Closes(wire', p, live)
      BY <1>2, <1>3, <2>1, LineAppend
    <3> QED
      BY <1>3, <3>1, <3>2, <3>3
  <2>3. IsCancel(x, p) <=> p = c
    BY <1>3 DEF IsCancel
  <2>4. Ends(wire', p, one, Coming(active, p)')
    <3>1. Ends(wire, p, one, Coming(active, p))
      BY <1>2 DEF StaleEnds
    <3> HIDE DEF one
    <3>2. CASE p = c
      BY <1>6, <2>2, <2>3, <3>2
    <3>3. CASE p # c
      <4>1. Ends(wire, p, one, Coming(active, p)')
        BY <1>6, <3>1, <3>3, EndsMore
      <4> QED
        BY <1>6, <2>2, <4>1
    <3> QED
      BY <3>2, <3>3
  <2>5. StaleEnds(active, p)'
    BY <1>1, <1>2, <1>4, <1>6, <2>2, <2>3, <2>4 DEF StaleEnds
  <2>6. LiveCounts(active, p)'
    <3>1. AtServer(active, p) => Closes(wire', p, live) /\ (alive => live \in Elements(wire'))
      BY <1>2, <1>6, <2>2 DEF LiveCounts
    <3>2. InQueue(active, p) => live \notin Elements(wire')
      BY <1>2, <1>3, <2>2 DEF LiveCounts
    <3>3. IsOpen(active, p) => ~Cancelled(wire', p, 0)
      BY <1>2, <1>8, <2>2, <2>3 DEF LiveCounts
    <3> QED
      BY <1>1, <1>2, <1>4, <1>6, <3>1, <3>2, <3>3 DEF LiveCounts
  <2> QED
    BY <1>5, <2>5, <2>6 DEF PortInv
<1> QED
  BY <1>1, <1>7, <1>8

\* What is left on the wire, once the server took its first request.
LEMMA WireTail ==
  ASSUME wire \in Seq(Requests), wire # <<>>, NEW p, NEW live, NEW one
  PROVE  LET x == Head(wire)
             d == Tail(wire) IN
         /\ x \in Requests /\ d \in Seq(Requests) /\ Elements(wire) = Elements(d) \cup {x}
         /\ Cancelled(wire, p, 0) <=> Cancelled(d, p, 0) \/ IsCancel(x, p)
         /\ Closes(wire, p, live) => Closes(d, p, live)
         /\ Closes(wire, p, live) /\ x = live => NoneFor(d, p)
         /\ \A coming \in BOOLEAN :
              /\ Ends(wire, p, one, coming) => Ends(d, p, one, coming)
              /\ Ends(wire, p, one, coming) /\ IsListen(x, p) /\ x # one => coming \/ Cancelled(d, p, 0)
<1> DEFINE x == Head(wire)
           d == Tail(wire)
<1>1. /\ x \in Requests /\ d \in Seq(Requests) /\ Elements(wire) = Elements(d) \cup {x}
      /\ Cancelled(wire, p, 0) <=> Cancelled(d, p, 0) \/ IsCancel(x, p)
      /\ Closes(wire, p, live) => Closes(d, p, live)
      /\ Closes(wire, p, live) /\ x = live => NoneFor(d, p)
  <2>1. FALSE \in BOOLEAN
    OBVIOUS
  <2> QED
    BY <2>1, LineTail
<1>2. ASSUME NEW coming \in BOOLEAN
      PROVE  /\ Ends(wire, p, one, coming) => Ends(d, p, one, coming)
             /\ Ends(wire, p, one, coming) /\ IsListen(x, p) /\ x # one => coming \/ Cancelled(d, p, 0)
  BY LineTail
<1> QED
  BY <1>1, <1>2

\* The server handles the first request on the wire: a listen.
LEMMA ListenHandled ==
  ASSUME TunnelConstants, TaskTypes, LineInv, ServerHandles, Head(wire).kind = "listen", NEW p \in Ports
  PROVE  PortInv(active, p)'
<1> DEFINE x == Head(wire)
           d == Tail(wire)
           live == Live(active, p)
           one == IF AtServer(active, p) THEN live ELSE NoRequest
           n == active.routes[p].live
<1>1. PICK granted \in {FALSE} \cup {x.port \notin listening} :
        /\ listening' = IF granted THEN listening \cup {x.port} ELSE listening
        /\ IF worker = x THEN Reply(granted) /\ worker' = NoRequest ELSE UNCHANGED <<worker, replies>>
  BY DEF ServerHandles
<1>2. /\ wire \in Seq(Requests) /\ wire # <<>> /\ wire' = d /\ UNCHANGED <<active, cancels, alive>>
      /\ (~alive => wire = <<>>) /\ alive /\ granted \in BOOLEAN
      /\ StaleEnds(active, p) /\ LiveCounts(active, p) /\ HolderWaits(active, p)
  BY DEF LineInv, WorldTypes, PortInv, ServerHandles
<1>3. /\ x \in Requests /\ d \in Seq(Requests) /\ Elements(wire) = Elements(d) \cup {x}
      /\ Cancelled(wire, p, 0) <=> Cancelled(d, p, 0) \/ IsCancel(x, p)
      /\ Closes(wire, p, live) => Closes(d, p, live)
      /\ Closes(wire, p, live) /\ x = live => NoneFor(d, p)
      /\ \A coming \in BOOLEAN :
           /\ Ends(wire, p, one, coming) => Ends(d, p, one, coming)
           /\ Ends(wire, p, one, coming) /\ IsListen(x, p) /\ x # one => coming \/ Cancelled(d, p, 0)
  BY <1>2, WireTail
<1>4. /\ Owned(active, p)' = Owned(active, p) /\ Live(active, p)' = live
      /\ InQueue(active, p)' = InQueue(active, p)
      /\ Coming(active, p)' = Coming(active, p) /\ Coming(active, p) \in BOOLEAN
      /\ x.kind = "listen" /\ x # NoRequest /\ ~IsCancel(x, p) /\ (IsListen(x, p) <=> x.port = p)
  <2>1. x.kind = "listen"
    OBVIOUS
  <2> HIDE DEF x
  <2> QED
    BY <1>2, <1>3, <2>1, RequestFacts DEF Owned, Live, InQueue, Coming, Cancelled, IsListen,
       IsCancel
<1> HIDE DEF d, x
<1>5. \/ /\ worker = x /\ worker' = NoRequest
         /\ Told(replies', n) <=> Told(replies, n) \/ x.attempt = n
         /\ Refusal(replies', n) <=> Refusal(replies, n) \/ (x.attempt = n /\ ~granted)
         /\ Once(replies, n) /\ (Told(replies, n) => x.attempt # n) => Once(replies', n)
      \/ worker # x /\ worker' = worker /\ replies' = replies
  <2>1. CASE worker = x
    BY <1>1, <1>2, <1>4, <2>1, ReplyFacts
  <2> QED
    BY <1>1, <2>1
<1>6. CASE AtServer(active, p) /\ x = live
  <2>1. /\ Owned(active, p) /\ worker = x /\ x.port = p /\ x.attempt = n /\ ~InQueue(active, p)
    BY <1>2, <1>6, RequestFacts DEF AtServer, LiveCounts, Live
  <2>2. ~AtServer(active, p)' /\ Done(active, p)' /\ Answered(active, p)'
        /\ (IsOpen(active, p)' <=> granted)
    <3>1. ~Refusal(replies, n)
      BY <1>2, <1>6, <2>1 DEF LiveCounts, Answered, Told, Refusal
    <3>2. ~AtServer(active, p)'
      BY <1>4, <1>5, <2>1, <1>6 DEF AtServer
    <3> QED
      BY <1>2, <1>4, <1>5, <2>1, <3>1, <3>2 DEF Done, IsOpen, Answered
  <2>3. /\ NoneFor(active.requests, p) /\ cancels[p] = "none" /\ NoneFor(d, p) /\ ~Answered(active, p)
    BY <1>2, <1>3, <1>6 DEF LiveCounts
  <2>4. /\ ~Coming(active, p) /\ ~Cancelled(d, p, 0) /\ \A coming \in BOOLEAN : Ends(d, p, NoRequest, coming)
    BY <2>3, NoneMeans DEF Coming
  <2>5. StaleEnds(active, p)'
    <3>1. p \in listening => ~IsOpen(active, p)
      BY <1>6 DEF IsOpen, Done
    <3>2. p \notin listening
      BY <1>2, <1>3, <1>4, <2>4, <3>1 DEF StaleEnds
    <3>3. p \in listening' <=> granted
      BY <1>1, <2>1, <3>2
    <3> QED
      BY <1>2, <1>4, <2>2, <2>4, <3>3 DEF StaleEnds
  <2>6. LiveCounts(active, p)'
    <3>1. granted => p \in listening'
      BY <1>1, <2>1
    <3>2. ~IsListen(worker', p)
      BY <1>5, <2>1, RequestFacts DEF IsListen
    <3> QED
      BY <1>2, <1>4, <2>1, <2>2, <2>3, <2>4, <3>1, <3>2 DEF LiveCounts
  <2>7. HolderWaits(active, p)'
    BY <1>2, <1>4, <1>5, <1>6, <2>1, <2>2, <2>3 DEF HolderWaits, Answered, Done
  <2> QED
    BY <2>5, <2>6, <2>7 DEF PortInv
<1>7. CASE ~(AtServer(active, p) /\ x = live)
  <2>1. /\ AtServer(active, p)' = AtServer(active, p)
        /\ AtServer(active, p) => worker' = worker
        /\ Owned(active, p) => (Told(replies', n) <=> Told(replies, n)) /\ (Refusal(replies', n) <=> Refusal(replies, n))
                               /\ (Once(replies, n) => Once(replies', n))
        /\ worker' \in {worker, NoRequest}
    <3>1. Owned(active, p) /\ worker = x => x.attempt # n
      BY <1>4, <1>7, WorkerIs DEF AtServer
    <3>2. live # NoRequest
      BY RequestFacts DEF Live
    <3> QED
      BY <1>4, <1>5, <1>7, <3>1, <3>2 DEF AtServer
  <2>2. /\ Done(active, p)' = Done(active, p) /\ IsOpen(active, p)' = IsOpen(active, p)
        /\ Answered(active, p)' = Answered(active, p)
    BY <1>2, <1>4, <2>1 DEF Done, IsOpen, Answered
  <2>3. IsListen(x, p) => Coming(active, p) \/ Cancelled(d, p, 0)
    BY <1>2, <1>3, <1>4, <1>7 DEF StaleEnds
  <2>4. StaleEnds(active, p)'
    <3>1. p \in listening' => p \in listening \/ IsListen(x, p)
      BY <1>1, <1>4
    <3>2. Ends(d, p, one, Coming(active, p))
      BY <1>2, <1>3, <1>4 DEF StaleEnds
    <3> QED
      BY <1>2, <1>3, <1>4, <2>1, <2>2, <2>3, <3>1, <3>2 DEF StaleEnds
  <2>5. LiveCounts(active, p)'
    <3>1. Done(active, p) => ~IsListen(worker', p)
      BY <1>2, <2>1, RequestFacts DEF LiveCounts, IsListen
    <3>2. alive /\ AtServer(active, p) => live \in Elements(d)
      BY <1>2, <1>3, <1>7 DEF LiveCounts
    <3>3. listening \subseteq listening'
      BY <1>1
    <3> QED
      BY <1>2, <1>3, <1>4, <2>1, <2>2, <3>1, <3>2, <3>3 DEF LiveCounts
  <2>6. HolderWaits(active, p)'
    BY <1>2, <1>4, <2>1, <2>2 DEF HolderWaits
  <2> QED
    BY <2>4, <2>5, <2>6 DEF PortInv
<1> QED
  BY <1>6, <1>7

\* The server handles the first request on the wire: a cancel.
LEMMA CancelHandled ==
  ASSUME TunnelConstants, TaskTypes, LineInv, ServerHandles, Head(wire).kind # "listen", NEW p \in Ports
  PROVE  PortInv(active, p)'
<1> DEFINE x == Head(wire)
           d == Tail(wire)
           live == Live(active, p)
           one == IF AtServer(active, p) THEN live ELSE NoRequest
<1>1. /\ listening' = listening \ {x.port}
      /\ worker' = IF worker = x THEN NoRequest ELSE worker
      /\ cancels' = cancels \/ (cancels[x.port] = "sent" /\ cancels' = [cancels EXCEPT ![x.port] = "none"])
      /\ UNCHANGED <<active, replies, alive>>
  BY DEF ServerHandles
<1>2. /\ wire \in Seq(Requests) /\ wire # <<>> /\ wire' = d
      /\ (~alive => wire = <<>>) /\ alive
      /\ cancels \in [Ports -> {"none", "unsent", "sent"}]
      /\ StaleEnds(active, p) /\ LiveCounts(active, p) /\ HolderWaits(active, p)
  BY DEF LineInv, WorldTypes, PortInv, ServerHandles
<1>3. /\ x \in Requests /\ Elements(wire) = Elements(d) \cup {x}
      /\ Cancelled(wire, p, 0) <=> Cancelled(d, p, 0) \/ IsCancel(x, p)
      /\ Closes(wire, p, live) => Closes(d, p, live)
      /\ \A coming \in BOOLEAN : Ends(wire, p, one, coming) => Ends(d, p, one, coming)
  BY <1>2, WireTail
<1>4. x.kind = "cancel" /\ x # live /\ (IsCancel(x, p) <=> x.port = p)
  <2>1. x.kind # "listen"
    OBVIOUS
  <2> HIDE DEF x
  <2> QED
    BY <1>3, <2>1, RequestFacts DEF Live, IsCancel
<1> HIDE DEF d, x
<1>5. /\ Owned(active, p)' = Owned(active, p) /\ Live(active, p)' = live
      /\ InQueue(active, p)' = InQueue(active, p)
      /\ Answered(active, p)' = Answered(active, p)
      /\ AtServer(active, p)' = AtServer(active, p)
  <2>1. live # NoRequest
    BY RequestFacts DEF Live
  <2> QED
    BY <1>1, <1>4, <2>1 DEF Owned, Live, InQueue, Answered, AtServer
<1>6. Done(active, p)' = Done(active, p) /\ IsOpen(active, p)' = IsOpen(active, p)
  BY <1>1, <1>5 DEF Done, IsOpen
<1>7. /\ Coming(active, p)' = Coming(active, p) /\ Coming(active, p) \in BOOLEAN
      /\ cancels'[p] = "unsent" <=> cancels[p] = "unsent"
      /\ cancels[p] = "none" => cancels'[p] = "none"
  <2>1. (cancels'[p] = "unsent" <=> cancels[p] = "unsent") /\ (cancels[p] = "none" => cancels'[p] = "none")
    BY <1>1, <1>2
  <2> QED
    BY <1>1, <2>1 DEF Coming, Cancelled
<1>8. StaleEnds(active, p)'
  <2>1. Ends(d, p, one, Coming(active, p))
    BY <1>2, <1>3, <1>7 DEF StaleEnds
  <2>2. p \in listening' => p \in listening /\ ~IsCancel(x, p)
    BY <1>1, <1>4
  <2> QED
    BY <1>1, <1>2, <1>3, <1>5, <1>6, <1>7, <2>1, <2>2 DEF StaleEnds
<1>9. LiveCounts(active, p)'
  <2>1. Done(active, p) => ~IsListen(worker', p)
    BY <1>1, <1>2, RequestFacts DEF LiveCounts, IsListen
  <2>2. IsOpen(active, p) => ~Cancelled(d, p, 0) /\ p \in listening'
    BY <1>1, <1>2, <1>3, <1>4 DEF LiveCounts
  <2> QED
    BY <1>1, <1>2, <1>3, <1>4, <1>5, <1>6, <1>7, <2>1, <2>2 DEF LiveCounts
<1>10. HolderWaits(active, p)'
  BY <1>1, <1>2, <1>5, <1>6 DEF HolderWaits
<1> QED
  BY <1>8, <1>9, <1>10 DEF PortInv

\* What touches no request, or ends the connection.
LEMMA StillLine ==
  ASSUME LineInv, UNCHANGED <<active, requesting, replies>>,
         UNCHANGED server \/ (wire' = <<>> /\ listening' = {} /\ alive' = FALSE), NEW p \in Ports
  PROVE  PortInv(active, p)'
<1>1. /\ UNCHANGED <<active, worker, cancels, replies>>
      /\ StaleEnds(active, p) /\ LiveCounts(active, p) /\ HolderWaits(active, p)
  BY DEF LineInv, PortInv, requesting
<1>2. /\ Owned(active, p)' = Owned(active, p) /\ Live(active, p)' = Live(active, p)
      /\ InQueue(active, p)' = InQueue(active, p)
      /\ Answered(active, p)' = Answered(active, p)
      /\ AtServer(active, p)' = AtServer(active, p)
      /\ Done(active, p)' = Done(active, p) /\ IsOpen(active, p)' = IsOpen(active, p)
      /\ Coming(active, p)' = Coming(active, p)
  BY <1>1 DEF Owned, Live, InQueue, Answered, AtServer, Done, IsOpen, Coming
<1>3. HolderWaits(active, p)'
  BY <1>1, <1>2 DEF HolderWaits
<1>4. CASE UNCHANGED server
  <2>1. StaleEnds(active, p)' /\ LiveCounts(active, p)'
    BY <1>1, <1>2, <1>4 DEF StaleEnds, LiveCounts, server
  <2> QED
    BY <1>3, <2>1 DEF PortInv
<1>5. CASE wire' = <<>> /\ listening' = {} /\ alive' = FALSE
  <2>1. /\ \A live, coming : Ends(wire', p, live, coming)
        /\ \A live : Closes(wire', p, live) /\ live \notin Elements(wire')
        /\ ~Cancelled(wire', p, 0)
    BY <1>5 DEF Ends, Closes, Elements, Cancelled
  <2>2. StaleEnds(active, p)' /\ LiveCounts(active, p)'
    BY <1>1, <1>2, <1>5, <2>1 DEF StaleEnds, LiveCounts
  <2> QED
    BY <1>3, <2>2 DEF PortInv
<1> QED
  BY <1>4, <1>5

-----------------------------------------------------------------------------
(* What the task does to its forwards keeps the requests in line.            *)

\* What is said of the lines, for a value of ActiveForwards.
LineAt(a) == Numbers(a) /\ \A p \in Ports : PortInv(a, p)

\* Fewer entries, or more that hold no server port, change nothing in line.
LEMMA OtherEntries ==
  ASSUME NEW a, NEW b, LineAt(a), b.routes = a.routes, b.requests = a.requests, b.attempts = a.attempts,
         \A e \in b.entries : e \in a.entries \/ ~ServerSide(e)
  PROVE  LineAt(b)
<1>1. ASSUME NEW p \in Ports PROVE PortInv(b, p)
  <2>1. StaleEnds(a, p) /\ LiveCounts(a, p) /\ HolderWaits(a, p)
    BY DEF LineAt, PortInv
  <2>2. /\ Owned(b, p) = Owned(a, p) /\ Live(b, p) = Live(a, p)
        /\ InQueue(b, p) = InQueue(a, p) /\ Answered(b, p) = Answered(a, p)
        /\ AtServer(b, p) = AtServer(a, p) /\ Done(b, p) = Done(a, p) /\ IsOpen(b, p) = IsOpen(a, p)
        /\ Coming(b, p) = Coming(a, p)
    BY DEF Owned, Live, InQueue, Answered, AtServer, Done, IsOpen, Coming
  <2>3. StaleEnds(b, p) /\ LiveCounts(b, p)
    BY <2>1, <2>2 DEF StaleEnds, LiveCounts
  <2>4. HolderWaits(b, p)
    BY <2>1, <2>2 DEF HolderWaits
  <2> QED
    BY <2>3, <2>4 DEF PortInv
<1>2. Numbers(b)
  BY DEF LineAt, Numbers, Numbered, Owned
<1> QED
  BY <1>1, <1>2 DEF LineAt

\* A request that joins the worker's queue for one port, seen by that port and by others.
LEMMA QueueGrows ==
  ASSUME NEW q \in Seq(Requests), NEW x \in Requests, NEW d, d = Append(q, x), NEW p, NEW y
  PROVE  /\ Elements(d) = Elements(q) \cup {x}
         /\ Cancelled(d, p, 0) <=> Cancelled(q, p, 0) \/ IsCancel(x, p)
         /\ Ends(q, p, y, FALSE) /\ (IsListen(x, p) => x = y) => Ends(d, p, y, FALSE)
         /\ IsCancel(x, p) => Ends(d, p, y, FALSE)
         /\ Closes(q, p, y) /\ x.port # p => Closes(d, p, y)
         /\ y \notin Elements(q) => Closes(d, p, y)
<1>1. FALSE \in BOOLEAN
  OBVIOUS
<1>2. ASSUME NEW coming \in BOOLEAN
      PROVE  /\ Elements(d) = Elements(q) \cup {x}
             /\ Cancelled(d, p, 0) <=> Cancelled(q, p, 0) \/ IsCancel(x, p)
             /\ Ends(q, p, y, coming) /\ (IsListen(x, p) => x = y \/ coming) => Ends(d, p, y, coming)
             /\ IsCancel(x, p) => Ends(d, p, y, coming)
             /\ Closes(q, p, y) /\ x.port # p => Closes(d, p, y)
             /\ y \notin Elements(q) => Closes(d, p, y)
  <2>1. LET e == Append(q, x) IN
        /\ Elements(e) = Elements(q) \cup {x}
        /\ Cancelled(e, p, 0) <=> Cancelled(q, p, 0) \/ IsCancel(x, p)
        /\ Ends(q, p, y, coming) /\ (IsListen(x, p) => x = y \/ coming) => Ends(e, p, y, coming)
        /\ IsCancel(x, p) => Ends(e, p, y, coming)
        /\ Closes(q, p, y) /\ x.port # p => Closes(e, p, y)
        /\ y \notin Elements(q) => Closes(e, p, y)
    <3> DEFINE S == Requests
    <3>1. q \in Seq(S) /\ x \in S
      OBVIOUS
    <3> HIDE DEF S
    <3> QED
      BY <3>1, LineAppend
  <2> QED
    BY <2>1
<1>3. /\ Elements(d) = Elements(q) \cup {x}
      /\ Cancelled(d, p, 0) <=> Cancelled(q, p, 0) \/ IsCancel(x, p)
      /\ Closes(q, p, y) /\ x.port # p => Closes(d, p, y)
      /\ y \notin Elements(q) => Closes(d, p, y)
  BY <1>1, <1>2, Zenon
<1>4. Ends(q, p, y, FALSE) /\ (IsListen(x, p) => x = y) => Ends(d, p, y, FALSE)
  <2>1. Ends(q, p, y, FALSE) /\ (IsListen(x, p) => x = y \/ FALSE) => Ends(d, p, y, FALSE)
    BY <1>1, <1>2, Zenon
  <2> QED
    BY <2>1
<1>5. IsCancel(x, p) => Ends(d, p, y, FALSE)
  BY <1>1, <1>2, Zenon
<1> QED
  BY <1>3, <1>4, <1>5

\* To remove a forward releases its route and queues a cancel: the port ends.
LEMMA RemoveLine ==
  ASSUME TunnelConstants, TaskTypes, NEW a \in Actives, EntriesFit(a), RoutesFit(a), LineAt(a), NEW id \in Ids
  PROVE  LineAt(RemoveEntry(a, id))
<1> DEFINE b == RemoveEntry(a, id)
<1>1. /\ b \in Actives
      /\ b.entries = {e \in a.entries : e.config.id # id} /\ b.attempts = a.attempts
      /\ \/ b.routes = a.routes /\ b.requests = a.requests
         \/ \E p \in Ports :
              /\ a.routes[p].owner = id
              /\ b.routes = [a.routes EXCEPT ![p] = NoRoute]
              /\ b.requests = Append(a.requests, Request("cancel", p, 0))
  BY RemoveFacts, SMTT(30)
<1> HIDE DEF b
<1>2. CASE b.routes = a.routes /\ b.requests = a.requests
  <2>1. \A e \in b.entries : e \in a.entries
    BY <1>1
  <2>2. LineAt(b)
    BY <1>1, <1>2, <2>1, OtherEntries
  <2> QED
    BY <2>2 DEF b
<1>3. CASE ~(b.routes = a.routes /\ b.requests = a.requests)
  <2>1. PICK c \in Ports : /\ b.routes = [a.routes EXCEPT ![c] = NoRoute]
                           /\ b.requests = Append(a.requests, Request("cancel", c, 0))
    BY <1>1, <1>3
  <2> DEFINE x == Request("cancel", c, 0)
  <2>2. /\ x \in Requests /\ x.kind = "cancel" /\ x.port = c
        /\ a.routes \in Routes /\ a.requests \in Seq(Requests)
    BY ActiveFacts DEF Request, Requests
  <2> HIDE DEF x
  <2>3. \A p \in Ports : b.routes[p] = IF p = c THEN NoRoute ELSE a.routes[p]
    BY <2>1, <2>2 DEF Routes
  <2>4. \A p \in Ports : Owned(b, p) <=> Owned(a, p) /\ p # c
    BY <2>3 DEF Owned, NoRoute
  <2>5. Elements(b.requests) = Elements(a.requests) \cup {x}
    BY <2>1, <2>2, AppendElements DEF x
  <2>6. ASSUME NEW p \in Ports PROVE PortInv(b, p)
    <3> DEFINE live == Live(a, p)
    <3>1. StaleEnds(a, p) /\ LiveCounts(a, p) /\ HolderWaits(a, p) /\ live # x
      BY <2>2, RequestFacts DEF LineAt, PortInv, Live
    <3>2. \A y : /\ Cancelled(b.requests, p, 0) <=> Cancelled(a.requests, p, 0) \/ IsCancel(x, p)
                 /\ Ends(a.requests, p, y, FALSE) => Ends(b.requests, p, y, FALSE)
                 /\ IsCancel(x, p) => Ends(b.requests, p, y, FALSE)
                 /\ Closes(a.requests, p, y) /\ x.port # p => Closes(b.requests, p, y)
      <4>1. b.requests = Append(a.requests, x) /\ ~IsListen(x, p)
        BY <2>1, <2>2 DEF x, IsListen
      <4> QED
        BY <2>2, <4>1, QueueGrows
    <3>3. CASE p = c
      <4>1. ~Owned(b, p) /\ IsCancel(x, p)
        BY <2>2, <2>4, <3>3 DEF IsCancel
      <4>2. /\ ~InQueue(b, p) /\ ~AtServer(b, p) /\ ~Done(b, p) /\ ~IsOpen(b, p)
            /\ Coming(b, p) = TRUE
        BY <3>2, <4>1 DEF InQueue, AtServer, Done, IsOpen, Coming
      <4>3. StaleEnds(b, p)
        BY <3>2, <4>1, <4>2 DEF StaleEnds, Ends
      <4>4. LiveCounts(b, p) /\ HolderWaits(b, p)
        BY <4>1, <4>2 DEF LiveCounts, HolderWaits
      <4> QED
        BY <4>3, <4>4 DEF PortInv
    <3>4. CASE p # c
      <4>1. ~IsCancel(x, p) /\ b.routes[p] = a.routes[p]
        BY <2>2, <2>3, <3>4 DEF IsCancel
      <4>2. /\ Owned(b, p) = Owned(a, p) /\ Live(b, p) = live
            /\ InQueue(b, p) = InQueue(a, p) /\ Answered(b, p) = Answered(a, p)
            /\ AtServer(b, p) = AtServer(a, p) /\ Done(b, p) = Done(a, p) /\ IsOpen(b, p) = IsOpen(a, p)
            /\ Coming(b, p) = Coming(a, p)
        BY <2>4, <2>5, <3>1, <3>2, <3>4, <4>1 DEF Owned, Live, InQueue, Answered, AtServer,
           Done, IsOpen, Coming
      <4>3. StaleEnds(b, p)
        BY <3>1, <3>2, <4>2 DEF StaleEnds
      <4>4. NoneFor(a.requests, p) => NoneFor(b.requests, p)
        BY <2>2, <2>5, <3>4 DEF NoneFor
      <4>5. LiveCounts(b, p)
        BY <2>2, <3>1, <3>2, <3>4, <4>2, <4>4 DEF LiveCounts
      <4>6. HolderWaits(b, p)
        BY <1>1, <3>1, <4>1, <4>2 DEF HolderWaits
      <4> QED
        BY <4>3, <4>5, <4>6 DEF PortInv
    <3> QED
      BY <3>3, <3>4
  <2>7. Numbers(b)
    <3>1. /\ \A p \in Ports : Owned(b, p) => Owned(a, p) /\ b.routes[p] = a.routes[p]
          /\ \A r \in Elements(b.requests) : r \in Elements(a.requests) \/ r.kind # "listen"
      BY <2>2, <2>3, <2>4, <2>5
    <3> QED
      BY <1>1, <3>1 DEF LineAt, Numbers, Numbered
  <2>8. LineAt(b)
    BY <2>6, <2>7 DEF LineAt
  <2> QED
    BY <2>8 DEF b
<1> QED
  BY <1>2, <1>3

\* To ask for a port that has no route makes the request that counts for it.
LEMMA ListenLine ==
  ASSUME TunnelConstants, TaskTypes, NEW a \in Actives, EntriesFit(a), RoutesFit(a), LineAt(a),
         NEW c \in Configs, c.kind = "remote", Claimable(a.routes, c), wire \in Seq(Requests),
         \A e \in a.entries : e.config.id # c.id, \A p \in Ports : a.routes[p].owner # c.id
  PROVE  LineAt(ListenOnServer(a, c))
<1> DEFINE b == ListenOnServer(a, c)
           n == a.attempts + 1
           new == [config |-> c, holds |-> TRUE, pending |-> n]
           x == Request("listen", c.port, n)
<1>1. /\ a.routes[c.port].owner = "nobody"
      /\ b.entries = a.entries \cup {new} /\ b.attempts = n
      /\ b.routes = [a.routes EXCEPT ![c.port] = [owner |-> c.id, live |-> n]]
      /\ b.requests = Append(a.requests, x)
  BY ListenFacts
<1>2. /\ c.port \in Ports /\ c.id # "nobody" /\ a.attempts \in Nat /\ n \in Nat \ {0} /\ n > a.attempts
      /\ a.routes \in Routes /\ a.requests \in Seq(Requests)
  BY ConfigFacts, ActiveFacts
<1>3. new.config = c /\ new.pending = n
  OBVIOUS
<1>4. x \in Requests /\ x.kind = "listen" /\ x.port = c.port /\ x.attempt = n
  BY <1>2 DEF Request, Requests
<1> HIDE DEF b, new
<1>5. \A p \in Ports : b.routes[p] = IF p = c.port THEN [owner |-> c.id, live |-> n] ELSE a.routes[p]
  BY <1>1, <1>2 DEF Routes
<1>6. /\ Live(b, c.port) = x /\ ~Owned(a, c.port)
      /\ \A p \in Ports : Owned(b, p) <=> Owned(a, p) \/ p = c.port
  BY <1>1, <1>2, <1>5 DEF Owned, Live
<1> HIDE DEF x
<1>7. Elements(b.requests) = Elements(a.requests) \cup {x}
  BY <1>1, <1>2, <1>4, AppendElements
<1>8. /\ x \notin Elements(a.requests) /\ x \notin Elements(wire) /\ x # worker
      /\ \A r \in Elements(replies) : r.attempt # n
      /\ \A p \in Ports : Owned(a, p) => a.routes[p].live # n
  <2>1. \A m \in 1 .. a.attempts : m # n
    BY <1>2
  <2>2. \A m : m <= a.attempts => m # n
    BY <1>2
  <2> HIDE DEF n
  <2> QED
    BY <1>4, <2>1, <2>2 DEF LineAt, Numbers, Numbered
<1> HIDE DEF n
<1>9. ASSUME NEW p \in Ports PROVE PortInv(b, p)
  <2> DEFINE live == Live(a, p)
  <2>1. StaleEnds(a, p) /\ LiveCounts(a, p) /\ HolderWaits(a, p)
    BY DEF LineAt, PortInv
  <2>2. \A y : /\ Cancelled(b.requests, p, 0) <=> Cancelled(a.requests, p, 0)
               /\ Ends(a.requests, p, y, FALSE) /\ (IsListen(x, p) => x = y) => Ends(b.requests, p, y, FALSE)
               /\ Closes(a.requests, p, y) /\ x.port # p => Closes(b.requests, p, y)
               /\ y \notin Elements(a.requests) => Closes(b.requests, p, y)
    <3>1. b.requests = Append(a.requests, x) /\ ~IsCancel(x, p)
      BY <1>1, <1>4 DEF IsCancel
    <3> QED
      BY <1>2, <1>4, <3>1, QueueGrows
  <2>3. CASE p = c.port
    <3>1. /\ Owned(b, p) /\ ~Owned(a, p) /\ Live(b, p) = x /\ b.routes[p].live = n
      BY <1>5, <1>6, <2>3
    <3>2. /\ InQueue(b, p) /\ ~AtServer(b, p) /\ ~Done(b, p) /\ ~IsOpen(b, p) /\ ~Answered(b, p)
          /\ ~AtServer(a, p) /\ ~IsOpen(a, p) /\ Coming(b, p) = Coming(a, p)
      BY <1>7, <1>8, <2>2, <3>1 DEF InQueue, AtServer, Done, IsOpen, Answered, Told, Coming
    <3>3. StaleEnds(b, p)
      <4>1. Ends(a.requests, p, x, FALSE)
        BY <1>4, <2>1, <3>1, RequestFacts DEF StaleEnds, Ends, IsListen
      <4> QED
        BY <2>1, <2>2, <3>1, <3>2, <4>1 DEF StaleEnds
    <3>4. LiveCounts(b, p)
      BY <1>8, <2>2, <3>1, <3>2 DEF LiveCounts
    <3>5. HolderWaits(b, p)
      <4>1. ASSUME NEW e \in b.entries, ServerSide(e), e.config.port = p PROVE e.pending = n
        BY <1>1, <1>2, <1>3, <2>3, <4>1, ConfigFacts, ActiveFacts, SMTT(30) DEF RoutesFit
      <4>2. Once(replies, n)
        BY <1>8 DEF Once, Elements
      <4> QED
        BY <3>1, <3>2, <4>1, <4>2 DEF HolderWaits
    <3> QED
      BY <3>3, <3>4, <3>5 DEF PortInv
  <2>4. CASE p # c.port
    <3>1. ~IsListen(x, p) /\ b.routes[p] = a.routes[p] /\ x.port # p /\ live # x
      BY <1>4, <1>5, <2>4, RequestFacts DEF IsListen, Live
    <3>2. /\ Owned(b, p) = Owned(a, p) /\ Live(b, p) = live
          /\ InQueue(b, p) = InQueue(a, p) /\ Answered(b, p) = Answered(a, p)
          /\ AtServer(b, p) = AtServer(a, p) /\ Done(b, p) = Done(a, p) /\ IsOpen(b, p) = IsOpen(a, p)
          /\ Coming(b, p) = Coming(a, p)
      BY <1>7, <2>2, <3>1 DEF Owned, Live, InQueue, Answered, AtServer, Done, IsOpen, Coming
    <3>3. StaleEnds(b, p)
      BY <2>1, <2>2, <3>1, <3>2 DEF StaleEnds
    <3>4. NoneFor(a.requests, p) => NoneFor(b.requests, p)
      BY <1>7, <3>1 DEF NoneFor
    <3>5. LiveCounts(b, p)
      BY <2>1, <2>2, <3>1, <3>2, <3>4 DEF LiveCounts
    <3>6. HolderWaits(b, p)
      BY <1>1, <1>3, <2>1, <2>4, <3>1, <3>2 DEF HolderWaits
    <3> QED
      BY <3>3, <3>5, <3>6 DEF PortInv
  <2> QED
    BY <2>3, <2>4
<1>10. Numbers(b)
  <2>1. /\ \A m \in Nat : m <= a.attempts => m <= n
        /\ n \in 1 .. n /\ n <= n /\ \A m \in 1 .. a.attempts : m \in 1 .. n
    BY <1>2 DEF n
  <2>2. /\ \A r \in Elements(wire) \cup Elements(a.requests) : r.attempt \in Nat
        /\ worker.attempt \in Nat /\ \A r \in Elements(replies) : r.attempt \in Nat
    <3>1. \A r \in Elements(wire) \cup Elements(a.requests) : r.attempt \in Nat
      BY <1>2, RequestFacts DEF Elements
    <3>2. \A r \in Elements(replies) : r.attempt \in Nat
      <4>1. \A r \in Answer : r.attempt \in Nat
        BY DEF Answer
      <4> QED
        BY <4>1, TypedSo DEF Elements
    <3> QED
      BY <3>1, <3>2, TypedSo, RequestFacts DEF NoRequest
  <2>3. ASSUME NEW r, r.attempt \in Nat, Numbered(a, r), r # x, r.attempt # n
        PROVE  Numbered(b, r)
    BY <1>1, <1>5, <1>6, <2>1, <2>3 DEF Numbered
  <2>4. ASSUME NEW r, r.kind = "listen" => r.attempt <= a.attempts PROVE r.kind = "listen" => r.attempt # n
    BY <1>2, <2>4 DEF n
  <2>5. Numbered(b, x)
    BY <1>1, <1>4, <1>5, <1>6, <1>8, <2>1 DEF Numbered
  <2>6. \A r \in Elements(a.requests) \cup {worker} : Numbered(b, r)
    <3> SUFFICES ASSUME NEW r \in Elements(a.requests) \cup {worker}, r.kind = "listen" PROVE Numbered(b, r)
      BY DEF Numbered
    <3>1. Numbered(a, r) /\ r # x /\ r.attempt \in Nat /\ r.attempt # n
      BY <1>8, <2>2, <2>4 DEF LineAt, Numbers, Numbered
    <3> QED
      BY <2>3, <3>1
  <2>7. \A p \in Ports : Owned(b, p) => b.routes[p].live \in 1 .. n
    BY <1>5, <1>6, <2>1 DEF LineAt, Numbers
  <2>8. \A p, q \in Ports : Owned(b, p) /\ Owned(b, q) /\ b.routes[p].live = b.routes[q].live => p = q
    BY <1>5, <1>6, <1>8 DEF LineAt, Numbers
  <2>9. /\ \A r \in Elements(wire) : r.kind = "listen" => r.attempt <= n
        /\ \A r \in Elements(replies) : r.attempt <= n
    BY <2>1, <2>2 DEF LineAt, Numbers
  <2> QED
    BY <1>1, <1>7, <2>5, <2>6, <2>7, <2>8, <2>9 DEF Numbers
<1> QED
  BY <1>9, <1>10 DEF LineAt, b

\* Every forward of a server port waits for its answer.
AllWait(a) == \A e \in a.entries : ServerSide(e) => e.pending # 0

\* To add a forward is to remove what it was and perhaps to ask for its port.
LEMMA AddLine ==
  ASSUME TunnelConstants, TaskTypes, wire \in Seq(Requests),
         NEW a \in Actives, EntriesFit(a), RoutesFit(a), LineAt(a), NEW c \in Configs, NEW busy
  PROVE  /\ LineAt(AddEntry(a, c, busy))
         /\ AllWait(a) => AllWait(AddEntry(a, c, busy))
<1> DEFINE b == AddEntry(a, c, busy)
           r == RemoveEntry(a, c.id)
           new == IF c.kind = "remote" THEN [config |-> c, holds |-> FALSE, pending |-> 0]
                  ELSE Bind(r, c, busy)
<1>1. /\ r \in Actives /\ EntriesFit(r) /\ RoutesFit(r)
      /\ r.entries = {e \in a.entries : e.config.id # c.id}
      /\ \A p \in Ports : r.routes[p].owner # c.id
      /\ LineAt(r)
  BY ConfigFacts, RemoveFacts, RemoveLine
<1>2. b = IF c.kind = "remote" /\ Claimable(r.routes, c) THEN ListenOnServer(r, c)
          ELSE [r EXCEPT !.entries = r.entries \cup {new}]
  BY DEF AddEntry
<1>3. ~ServerSide(new)
  BY DEF Bind, ServerSide
<1> HIDE DEF r, b, new
<1>4. CASE c.kind = "remote" /\ Claimable(r.routes, c)
  <2> DEFINE l == [config |-> c, holds |-> TRUE, pending |-> r.attempts + 1]
  <2>1. LineAt(b) /\ b.entries = r.entries \cup {l}
    BY <1>1, <1>2, <1>4, ListenFacts, ListenLine
  <2>2. l.pending # 0
    BY <1>1, ActiveFacts
  <2> HIDE DEF l
  <2> QED
    BY <1>1, <2>1, <2>2 DEF b, AllWait
<1>5. CASE ~(c.kind = "remote" /\ Claimable(r.routes, c))
  <2> DEFINE es == r.entries \cup {new}
  <2>1. b = [r EXCEPT !.entries = es]
    BY <1>2, <1>5
  <2> HIDE DEF es
  <2>2. b.entries = es /\ b.routes = r.routes /\ b.requests = r.requests /\ b.attempts = r.attempts
    BY <1>1, <2>1 DEF Actives
  <2>3. \A e \in b.entries : e \in r.entries \/ ~ServerSide(e)
    BY <1>3, <2>2 DEF es
  <2>4. LineAt(b)
    BY <1>1, <2>2, <2>3, OtherEntries
  <2>5. AllWait(a) => AllWait(b)
    BY <1>1, <2>3 DEF AllWait
  <2> QED
    BY <2>4, <2>5 DEF b
<1> QED
  BY <1>4, <1>5

\* bind_all puts a request in line for each server port.
LEMMA BindLine ==
  ASSUME TunnelConstants, TaskTypes, wire \in Seq(Requests),
         NEW a \in Actives, EntriesFit(a), RoutesFit(a), a.entries = {}, LineAt(a),
         NEW configs \in Seq(Configs), NEW busy,
         \A c, d \in Elements(configs) : c.id = d.id => c = d
  PROVE  LET b == BindAll(a, configs, busy) IN
         b \in Actives /\ EntriesFit(b) /\ RoutesFit(b) /\ LineAt(b) /\ AllWait(b)
<1>1. PICK f : /\ BindAll(a, configs, busy) = f[Len(configs)]
               /\ BoundUpTo(a, configs, busy, f, Len(configs))
               /\ \A i \in 0 .. Len(configs) : f[i] \in Actives /\ EntriesFit(f[i]) /\ RoutesFit(f[i])
  BY BindFacts
<1> DEFINE T == {i \in 0 .. Len(configs) : LineAt(f[i]) /\ AllWait(f[i])}
<1>2. Len(configs) \in Nat /\ Len(configs) \in 0 .. Len(configs)
  OBVIOUS
<1>3. 0 \in T
  <2>1. f[0] = a
    BY <1>1, <1>2 DEF BoundUpTo
  <2> QED
    BY <1>2, <2>1 DEF AllWait
<1>4. ASSUME NEW i \in 0 .. Len(configs), i # Len(configs), i \in T PROVE i + 1 \in T
  <2>1. i + 1 \in 0 .. Len(configs) /\ i + 1 # 0 /\ (i + 1) - 1 = i /\ configs[i + 1] \in Configs
    BY <1>2, <1>4
  <2>2. f[i + 1] = AddEntry(f[i], configs[i + 1], busy)
    BY <1>1, <2>1 DEF BoundUpTo
  <2>3. LineAt(f[i + 1]) /\ AllWait(f[i + 1])
    BY <1>1, <1>4, <2>1, <2>2, AddLine
  <2> QED
    BY <2>1, <2>3
<1>5. 0 .. Len(configs) \subseteq T
  <2> HIDE DEF T
  <2>1. \A i \in 0 .. Len(configs) : i # Len(configs) /\ i \in T => i + 1 \in T
    BY <1>4
  <2> QED
    BY <1>2, <1>3, <2>1, UpTo
<1>6. Len(configs) \in T
  BY <1>2, <1>5
<1> QED
  BY <1>1, <1>2, <1>6

\* With nothing in line, no answers and no routes, there is nothing to say.
Silent ==
  worker = NoRequest /\ replies = <<>> /\ wire = <<>> /\ listening = {} /\ ~alive
    /\ cancels = [p \in Ports |-> "none"]

\* Where nothing was asked for, there is nothing to keep.
LEMMA NoLine ==
  ASSUME TunnelConstants, Silent, NEW a, a.requests = <<>>, a.attempts \in Nat,
         \A p \in Ports : a.routes[p].owner = "nobody"
  PROVE  LineAt(a)
<1>1. \A p \in Ports : ~Owned(a, p)
  BY DEF Owned
<1>2. Elements(<<>>) = {}
  BY DEF Elements
<1>3. ASSUME NEW p \in Ports PROVE PortInv(a, p)
  <2>1. StaleEnds(a, p)
    BY DEF Silent, StaleEnds, Ends
  <2>2. LiveCounts(a, p) /\ HolderWaits(a, p)
    BY <1>1, <1>3 DEF LiveCounts, HolderWaits, InQueue, AtServer, Done, IsOpen
  <2> QED
    BY <2>1, <2>2 DEF PortInv
<1>4. Numbers(a)
  BY <1>1, <1>2, RequestFacts DEF Silent, Numbers, Numbered
<1> QED
  BY <1>3, <1>4 DEF LineAt

\* The connection is there: what waits in the queue is for it.
LEMMA ConnectLine ==
  ASSUME TunnelConstants, TaskInv, Silent, Connect
  PROVE  LineAt(active)'
<1>1. /\ phase = "connecting" /\ alive' = TRUE
      /\ UNCHANGED <<worker, cancels, replies, wire, listening>>
  BY DEF Connect, requesting
<1>2. PICK busy \in SUBSET LocalPorts : active' = BindAll(active, wanted, busy)
  BY DEF Connect
<1>3. /\ active \in Actives /\ active = NoForwards /\ EntriesFit(active) /\ RoutesFit(active)
      /\ active.entries = {} /\ wanted \in Seq(Configs) /\ WantedFit /\ wire \in Seq(Requests)
  <2>1. active = NoForwards /\ active \in Actives /\ EntriesFit(active) /\ RoutesFit(active)
        /\ wanted \in Seq(Configs) /\ WantedFit
    BY <1>1 DEF TaskInv, TaskTypes, NothingYet
  <2>2. active.entries = {}
    BY <2>1 DEF NoForwards
  <2>3. wire \in Seq(Requests)
    BY DEF Silent
  <2> QED
    BY <2>1, <2>2, <2>3
<1>4. LineAt(active)
  <2>1. \A p \in Ports : active.routes[p].owner = "nobody"
    BY <1>3 DEF RoutesFit
  <2>2. active.requests = <<>> /\ active.attempts \in Nat
    BY <1>3 DEF NoForwards
  <2> QED
    BY <2>1, <2>2, NoLine
<1>5. PICK b : b = active'
  OBVIOUS
<1>6. RoutesFit(b) /\ LineAt(b) /\ AllWait(b)
  BY <1>2, <1>3, <1>4, <1>5, BindLine DEF WantedFit, TaskInv
<1>7. ASSUME NEW p \in Ports PROVE PortInv(b, p)'
  <2>1. StaleEnds(b, p) /\ LiveCounts(b, p) /\ HolderWaits(b, p)
    BY <1>6 DEF LineAt, PortInv
  <2>2. Owned(b, p) => InQueue(b, p)
    <3> SUFFICES ASSUME Owned(b, p), ~InQueue(b, p) PROVE FALSE
      OBVIOUS
    <3>1. Live(b, p) # NoRequest
      BY RequestFacts DEF Live
    <3>2. Done(b, p)
      BY <3>1 DEF Silent, AtServer, Done
    <3>3. ~Answered(b, p)
      BY DEF Silent, Answered, Told, Elements
    <3>4. PICK e \in b.entries : ServerSide(e) /\ e.config.port = p
      BY <1>6 DEF RoutesFit, Owned
    <3>5. e.pending = 0
      BY <2>1, <3>2, <3>3, <3>4 DEF HolderWaits
    <3> QED
      BY <1>6, <3>4, <3>5 DEF AllWait
  <2>3. /\ ~Done(b, p) /\ ~IsOpen(b, p) /\ ~AtServer(b, p)
    BY <2>1, <2>2 DEF Done, IsOpen, AtServer, LiveCounts
  <2>4. /\ Owned(b, p)' = Owned(b, p) /\ Live(b, p)' = Live(b, p)
        /\ InQueue(b, p)' = InQueue(b, p) /\ Answered(b, p)' = Answered(b, p)
        /\ AtServer(b, p)' = AtServer(b, p) /\ Done(b, p)' = Done(b, p) /\ IsOpen(b, p)' = IsOpen(b, p)
        /\ Coming(b, p)' = Coming(b, p)
    BY <1>1 DEF Owned, Live, InQueue, Answered, AtServer, Done, IsOpen, Coming
  <2> QED
    BY <1>1, <2>1, <2>3, <2>4 DEF PortInv, StaleEnds, LiveCounts, HolderWaits
<1> QED
  <2>1. Numbers(b)'
    BY <1>1, <1>6 DEF LineAt, Numbers, Numbered, Owned
  <2>2. LineAt(b)'
    BY <1>7, <2>1 DEF LineAt
  <2> QED
    BY <1>5, <2>2 DEF LineAt, Numbers, Numbered, Owned

\* The answer that is read is the one the holder of its port waits for.
LEMMA SettleLine ==
  ASSUME TunnelConstants, TaskInv, LineInv, replies # <<>>,
         active' = Settle(active, Head(replies)), replies' = Tail(replies),
         UNCHANGED <<requesting, server>>
  PROVE  LineAt(active)'
<1> DEFINE x == Head(replies)
           mine == {e \in active.entries : e.pending = x.attempt}
<1>1. /\ active \in Actives /\ EntriesFit(active) /\ RoutesFit(active) /\ replies \in Seq(Answer)
      /\ UNCHANGED <<worker, cancels, wire, listening, alive>>
  BY TypedSo DEF TaskInv, requesting, server
<1>2. /\ x \in Answer /\ Elements(replies) = Elements(replies') \cup {x}
      /\ \A n : /\ Told(replies, n) <=> Told(replies', n) \/ x.attempt = n
                /\ Refusal(replies, n) <=> Refusal(replies', n) \/ (x.attempt = n /\ ~x.granted)
                /\ Once(replies, n) => Once(replies', n) /\ (x.attempt = n => ~Told(replies', n))
  BY <1>1, AnswerTail
<1>3. x.attempt \in Nat \ {0} /\ x.granted \in BOOLEAN
  BY <1>2 DEF Answer
<1>4. PICK b : b = active'
  OBVIOUS
<1>5. /\ b \in Actives /\ b.requests = active.requests /\ b.attempts = active.attempts
      /\ \A e \in b.entries :
              \/ e \in active.entries \ mine
              \/ e.pending = 0 /\ e.holds = x.granted /\ \E f \in mine : f.config = e.config
      /\ \A p \in Ports :
              IF ~x.granted /\ \E e \in mine : e.config.port = p
              THEN b.routes[p] = NoRoute ELSE b.routes[p] = active.routes[p]
  BY <1>1, <1>2, <1>4, SettleFacts, SMTT(30) DEF Answer
<1> HIDE DEF x
<1>6. ASSUME NEW p \in Ports
      PROVE  StaleEnds(active, p) /\ LiveCounts(active, p) /\ HolderWaits(active, p)
  BY DEF LineInv, PortInv
<1>7. ASSUME NEW e \in mine
      PROVE  /\ ServerSide(e) /\ e.config.port \in Ports /\ Owned(active, e.config.port)
             /\ active.routes[e.config.port].live = x.attempt
  <2>1. /\ ServerSide(e) /\ e.config.port \in Ports /\ e.config.id # "nobody"
        /\ active.routes[e.config.port].owner = e.config.id
    BY <1>1, <1>3, ActiveFacts, ConfigFacts DEF EntriesFit, RoutesFit
  <2> QED
    BY <1>3, <1>6, <2>1 DEF HolderWaits, Owned
<1>8. ASSUME NEW p \in Ports, Owned(active, p), active.routes[p].live = x.attempt
      PROVE  /\ Answered(active, p) /\ Done(active, p) /\ ~Told(replies', x.attempt)
             /\ \A e \in active.entries : ServerSide(e) /\ e.config.port = p => e \in mine
             /\ \E e \in mine : e.config.port = p
  <2>1. Answered(active, p) /\ Done(active, p)
    BY <1>2, <1>6, <1>8 DEF Answered, LiveCounts, Done
  <2>2. \A e \in active.entries : ServerSide(e) /\ e.config.port = p => e \in mine
    BY <1>6, <1>8, <2>1 DEF HolderWaits
  <2>3. \E e \in active.entries : ServerSide(e) /\ e.config.port = p
    BY <1>1, <1>8 DEF RoutesFit, Owned
  <2> QED
    BY <1>2, <1>6, <1>8, <2>1, <2>2, <2>3 DEF HolderWaits
<1> HIDE DEF mine
<1>9. ASSUME NEW p \in Ports PROVE PortInv(b, p)'
  <2> DEFINE n == active.routes[p].live
  <2>1. StaleEnds(active, p) /\ LiveCounts(active, p) /\ HolderWaits(active, p)
    BY <1>6
  <2>2. CASE Owned(active, p) /\ n = x.attempt /\ ~x.granted
    <3>1. /\ ~Owned(b, p) /\ ~IsOpen(active, p) /\ NoneFor(active.requests, p)
          /\ ~AtServer(active, p) /\ ~InQueue(active, p)
      BY <1>2, <1>5, <1>8, <2>1, <2>2 DEF Owned, NoRoute, IsOpen, LiveCounts, Done
    <3>2. /\ ~Owned(b, p)' /\ ~IsOpen(b, p)' /\ ~AtServer(b, p)' /\ ~InQueue(b, p)' /\ ~Done(b, p)'
          /\ Coming(b, p)' = Coming(active, p)
      BY <1>1, <1>5, <3>1 DEF Owned, IsOpen, AtServer, InQueue, Done, Coming
    <3>3. Ends(active.requests, p, NoRequest, FALSE)
      BY <3>1, NoneMeans
    <3>4. StaleEnds(b, p)'
      BY <1>1, <1>5, <2>1, <3>1, <3>2, <3>3 DEF StaleEnds
    <3>5. LiveCounts(b, p)' /\ HolderWaits(b, p)'
      BY <3>2 DEF LiveCounts, HolderWaits
    <3> QED
      BY <3>4, <3>5 DEF PortInv
  <2>3. CASE Owned(active, p) /\ n = x.attempt /\ x.granted
    <3>1. b.routes[p] = active.routes[p] /\ Done(active, p) /\ Answered(active, p) /\ ~Told(replies', n)
      BY <1>5, <1>8, <2>3
    <3>2. ~Refusal(replies', n) /\ (IsOpen(active, p) \/ Refusal(replies, n))
      BY <3>1 DEF Told, Refusal, IsOpen
    <3>3. ~Refusal(replies, n)
      BY <1>2, <2>3, <3>2
    <3>4. /\ Owned(b, p)' = Owned(active, p) /\ Live(b, p)' = Live(active, p)
          /\ InQueue(b, p)' = InQueue(active, p) /\ AtServer(b, p)' = AtServer(active, p)
          /\ Done(b, p)' /\ IsOpen(b, p)' /\ IsOpen(active, p) /\ ~Answered(b, p)'
          /\ Coming(b, p)' = Coming(active, p)
      BY <1>1, <1>5, <3>1, <3>2, <3>3 DEF Owned, Live, InQueue, AtServer, Done, IsOpen,
         Answered, Coming
    <3>5. StaleEnds(b, p)' /\ LiveCounts(b, p)'
      BY <1>1, <1>5, <2>1, <3>1, <3>4 DEF StaleEnds, LiveCounts, Done
    <3>6. \A e \in b.entries : ServerSide(e) /\ e.config.port = p => e.pending = 0
      BY <1>5, <1>8, <2>3
    <3>7. HolderWaits(b, p)'
      BY <1>2, <2>1, <2>3, <3>1, <3>4, <3>6 DEF HolderWaits
    <3> QED
      BY <3>5, <3>7 DEF PortInv
  <2>4. CASE ~(Owned(active, p) /\ n = x.attempt)
    <3>1. \A e \in mine : e.config.port # p
      BY <1>7, <2>4
    <3>2. b.routes[p] = active.routes[p]
      BY <1>5, <3>1
    <3>3. Owned(active, p) => /\ Told(replies', n) <=> Told(replies, n)
                              /\ Refusal(replies', n) <=> Refusal(replies, n)
      BY <1>2, <2>4
    <3>4. /\ Owned(b, p)' = Owned(active, p) /\ Live(b, p)' = Live(active, p)
          /\ InQueue(b, p)' = InQueue(active, p) /\ AtServer(b, p)' = AtServer(active, p)
          /\ Answered(b, p)' = Answered(active, p) /\ Coming(b, p)' = Coming(active, p)
          /\ Done(b, p)' = Done(active, p)
      BY <1>1, <1>5, <3>2, <3>3 DEF Owned, Live, InQueue, AtServer, Done, Answered, Coming
    <3>5. IsOpen(b, p)' = IsOpen(active, p)
      BY <3>2, <3>3, <3>4 DEF IsOpen, Done
    <3>6. StaleEnds(b, p)' /\ LiveCounts(b, p)'
      BY <1>1, <1>5, <2>1, <3>2, <3>4, <3>5 DEF StaleEnds, LiveCounts
    <3>7. \A e \in b.entries : ServerSide(e) /\ e.config.port = p => e \in active.entries
      BY <1>5, <3>1
    <3>8. HolderWaits(b, p)'
      BY <1>2, <2>1, <3>2, <3>4, <3>7 DEF HolderWaits
    <3> QED
      BY <3>6, <3>8 DEF PortInv
  <2> QED
    BY <1>3, <2>2, <2>3, <2>4
<1>10. Numbers(b)'
  <2>1. \A p \in Ports : Owned(b, p) => Owned(active, p) /\ b.routes[p] = active.routes[p]
    BY <1>5 DEF Owned, NoRoute
  <2> QED
    BY <1>1, <1>2, <1>5, <2>1 DEF LineInv, Numbers, Numbered, Owned
<1> QED
  <2>1. LineAt(b)'
    BY <1>9, <1>10 DEF LineAt
  <2> QED
    BY <1>4, <2>1 DEF LineAt

\* A control is applied.
LEMMA ControlLine ==
  ASSUME TunnelConstants, TaskInv, LineInv, ApplyControl
  PROVE  LineAt(active)'
<1> DEFINE x == Head(controls)
<1>1. PICK busy \in SUBSET LocalPorts :
        ReportOrEnd(IF x.kind = "add" THEN AddEntry(active, x.config, busy)
                                      ELSE RemoveEntry(active, x.id))
  BY DEF ApplyControl
<1>2. controls # <<>> /\ UNCHANGED <<worker, cancels, replies, wire, listening, alive>>
  BY DEF ApplyControl, requesting, server
<1>3. /\ active \in Actives /\ EntriesFit(active) /\ RoutesFit(active) /\ TaskTypes
      /\ wire \in Seq(Requests) /\ LineAt(active) /\ controls \in Seq(Controls)
  BY DEF TaskInv, TaskTypes, LineInv, WorldTypes, LineAt
<1>4. x \in Controls
  BY <1>2, <1>3
<1>5. PICK b : b = active'
  OBVIOUS
<1> HIDE DEF x
<1>6. LineAt(b)
  <2>1. CASE x.kind = "add"
    <3>1. x.config \in Configs /\ b = AddEntry(active, x.config, busy)
      BY <1>1, <1>4, <1>5, <2>1, ControlFacts DEF ReportOrEnd
    <3> QED
      BY <1>3, <3>1, AddLine
  <2>2. CASE x.kind # "add"
    <3>1. x.id \in Ids /\ b = RemoveEntry(active, x.id)
      BY <1>1, <1>4, <1>5, <2>2, ControlFacts DEF ReportOrEnd
    <3> QED
      BY <1>3, <3>1, RemoveLine
  <2> QED
    BY <2>1, <2>2
<1>7. LineAt(b)'
  <2>1. ASSUME NEW p \in Ports PROVE PortInv(b, p)'
    <3>1. PortInv(b, p)
      BY <1>6 DEF LineAt
    <3> QED
      BY <1>2, <3>1 DEF PortInv, StaleEnds, LiveCounts, HolderWaits, IsOpen, Done, InQueue,
         AtServer,
         Answered, Coming
  <2>2. Numbers(b)'
    BY <1>2, <1>6 DEF LineAt, Numbers
  <2> QED
    BY <2>1, <2>2 DEF LineAt
<1> QED
  BY <1>5, <1>7 DEF LineAt

\* The tunnel has ended: nothing is left in line.
LEMMA ReturnLine ==
  ASSUME TunnelConstants, TaskInv, NEW how, Return(how)
  PROVE  LineAt(active)' /\ Silent'
<1>1. Silent'
  BY DEF Return, Silent
<1>2. /\ active'.requests = <<>> /\ active'.attempts \in Nat
      /\ \A p \in Ports : active'.routes[p].owner = "nobody"
  <2>1. active.attempts \in Nat
    BY ActiveFacts DEF TaskInv, TaskTypes
  <2>2. active' = [NoForwards EXCEPT !.attempts = active.attempts]
    BY DEF Return
  <2>3. NoForwards \in Actives /\ NoForwards.requests = <<>>
    BY NoForwardsFit DEF NoForwards
  <2>4. active'.requests = <<>> /\ active'.attempts \in Nat
    BY <2>1, <2>2, <2>3 DEF Actives
  <2>5. RoutesFit(active') /\ active'.entries = {}
    BY <2>1, <2>2, NoForwardsFit
  <2> QED
    BY <2>4, <2>5 DEF RoutesFit
<1>3. PICK b : b = active'
  OBVIOUS
<1>4. LineAt(b)'
  <2>1. \A p \in Ports : ~Owned(b, p)
    BY <1>2, <1>3 DEF Owned
  <2>2. ASSUME NEW p \in Ports PROVE PortInv(b, p)'
    <3>1. StaleEnds(b, p)'
      BY <1>1, <1>2, <1>3 DEF Silent, StaleEnds, Ends
    <3>2. LiveCounts(b, p)' /\ HolderWaits(b, p)'
      BY <2>1, <2>2 DEF LiveCounts, HolderWaits, InQueue, AtServer, Done, IsOpen
    <3> QED
      BY <3>1, <3>2 DEF PortInv
  <2>3. Elements(<<>>) = {}
    BY DEF Elements
  <2>4. Numbers(b)'
    BY <1>1, <1>2, <1>3, <2>1, <2>3, RequestFacts DEF Silent, Numbers, Numbered
  <2> QED
    BY <2>2, <2>4 DEF LineAt
<1> QED
  BY <1>1, <1>3, <1>4 DEF LineAt

\* Nothing is asked for before the tunnel is connected.
Early == phase = "connecting" => Silent

\* The worker's steps keep the types and the numbers.
LEMMA WorkerWorld ==
  ASSUME TunnelConstants, TaskTypes, LineInv, WorkerStep
  PROVE  WorldTypes' /\ Numbers(active)'
<1>1. /\ wire \in Seq(Requests) /\ listening \subseteq Ports
      /\ cancels \in [Ports -> {"none", "unsent", "sent"}]
      /\ (~alive => wire = <<>> /\ listening = {}) /\ Numbers(active)
  BY DEF LineInv, WorldTypes
<1>2. CASE TakeRequest
  <2> DEFINE q == active.requests
             x == Head(q)
             d == Tail(q)
  <2>1. /\ q \in Seq(Requests) /\ q # <<>> /\ worker' = x
        /\ active' = [active EXCEPT !.requests = d]
        /\ wire' = IF alive THEN Append(wire, x) ELSE wire
        /\ UNCHANGED <<cancels, replies, listening, alive>>
    BY <1>2, TypedSo DEF TakeRequest
  <2>2. x \in Requests /\ Elements(q) = Elements(d) \cup {x}
    <3>1. FALSE \in BOOLEAN
      OBVIOUS
    <3> QED
      BY <2>1, <3>1, LineTail
  <2>3. active'.requests = d /\ active'.routes = active.routes /\ active'.attempts = active.attempts
    <3> HIDE DEF d
    <3> QED
      BY <2>1, TypedSo DEF Actives
  <2> HIDE DEF q, x, d
  <2>4. wire' \in Seq(Requests) /\ Elements(wire') \subseteq Elements(wire) \cup {x}
    <3>1. CASE alive
      BY <1>1, <2>1, <2>2, <3>1, AppendElements
    <3>2. CASE ~alive
      BY <1>1, <2>1, <3>2
    <3> QED
      BY <3>1, <3>2
  <2>5. WorldTypes'
    BY <1>1, <2>1, <2>4 DEF WorldTypes
  <2>6. \A r : Numbered(active, r) => Numbered(active', r)
    BY <2>3 DEF Numbered, Owned
  <2>7. x \in Elements(active.requests) /\ Elements(d) \subseteq Elements(active.requests)
    BY <2>2 DEF q
  <2>8. \A r \in Elements(wire') : r.kind = "listen" => r.attempt <= active.attempts
    BY <1>1, <2>4, <2>7 DEF Numbers, Numbered
  <2>9. Numbered(active', worker') /\ \A r \in Elements(active'.requests) : Numbered(active', r)
    BY <1>1, <2>1, <2>3, <2>6, <2>7 DEF Numbers
  <2>10. /\ \A r \in Elements(replies) : r.attempt <= active'.attempts
         /\ \A p \in Ports : Owned(active', p) => active'.routes[p].live \in 1 .. active'.attempts
         /\ \A p, other \in Ports : Owned(active', p) /\ Owned(active', other)
              /\ active'.routes[p].live = active'.routes[other].live => p = other
    BY <1>1, <2>3 DEF Numbers, Owned
  <2> QED
    BY <2>1, <2>3, <2>5, <2>8, <2>9, <2>10 DEF Numbers
<1>3. CASE TimeOut \/ RequestFails
  <2>1. /\ worker' = NoRequest /\ Reply(FALSE) /\ UNCHANGED <<active, wire, listening, alive>>
        /\ cancels' = cancels \/ cancels' = [cancels EXCEPT ![worker.port] = "unsent"]
    BY <1>3 DEF TimeOut, RequestFails, server
  <2>2. \A r \in Elements(replies') : r \in Elements(replies) \/ (worker.kind = "listen" /\ r.attempt = worker.attempt)
    BY <2>1, ReplyFacts
  <2>3. WorldTypes'
    BY <1>1, <2>1 DEF WorldTypes
  <2>4. Numbered(active, NoRequest)
    BY RequestFacts DEF Numbered
  <2>5. \A r \in Elements(replies') : r.attempt <= active.attempts
    BY <1>1, <2>2 DEF Numbers, Numbered
  <2> QED
    BY <1>1, <2>1, <2>3, <2>4, <2>5 DEF Numbers, Numbered
<1>4. ASSUME NEW c \in Ports, CancelBehind(c) PROVE WorldTypes' /\ Numbers(active)'
  <2> DEFINE x == [kind |-> "cancel", port |-> c, attempt |-> 1]
  <2>1. /\ UNCHANGED <<active, worker, replies, listening, alive>>
        /\ cancels' = [cancels EXCEPT ![c] = "sent"] \/ cancels' = [cancels EXCEPT ![c] = "none"]
        /\ wire' = wire \/ (alive /\ wire' = Append(wire, x))
    BY <1>4 DEF CancelBehind
  <2>2. x \in Requests /\ x.kind = "cancel"
    BY DEF Requests
  <2> HIDE DEF x
  <2>3. wire' \in Seq(Requests) /\ Elements(wire') \subseteq Elements(wire) \cup {x}
    <3>1. CASE wire' = wire
      BY <1>1, <3>1
    <3>2. CASE wire' = Append(wire, x)
      BY <1>1, <2>2, <3>2, AppendElements
    <3> QED
      BY <2>1, <3>1, <3>2
  <2>4. WorldTypes'
    BY <1>1, <2>1, <2>3 DEF WorldTypes
  <2> QED
    BY <1>1, <2>1, <2>2, <2>3, <2>4 DEF Numbers, Numbered
<1> QED
  BY <1>2, <1>3, <1>4 DEF WorkerStep

\* The server's steps keep the types and the numbers.
LEMMA ServerWorld ==
  ASSUME TunnelConstants, TaskTypes, LineInv, ServerHandles
  PROVE  WorldTypes' /\ Numbers(active)'
<1> DEFINE x == Head(wire)
<1>1. /\ wire \in Seq(Requests) /\ listening \subseteq Ports
      /\ cancels \in [Ports -> {"none", "unsent", "sent"}]
      /\ (~alive => wire = <<>> /\ listening = {}) /\ Numbers(active)
      /\ wire # <<>> /\ wire' = Tail(wire) /\ UNCHANGED <<active, alive>>
  BY DEF LineInv, WorldTypes, ServerHandles
<1>2. x \in Requests /\ wire' \in Seq(Requests) /\ Elements(wire) = Elements(wire') \cup {x}
  BY <1>1, WireTail
<1>3. /\ listening' \subseteq listening \cup {x.port}
      /\ cancels' = cancels \/ cancels' = [cancels EXCEPT ![x.port] = "none"]
      /\ worker' \in {worker, NoRequest}
      /\ replies' = replies \/ \E granted \in BOOLEAN : Reply(granted)
  <2>1. CASE x.kind = "listen"
    <3>1. PICK granted \in {FALSE} \cup {x.port \notin listening} :
            /\ listening' = IF granted THEN listening \cup {x.port} ELSE listening
            /\ IF worker = x THEN Reply(granted) /\ worker' = NoRequest ELSE UNCHANGED <<worker, replies>>
      BY <2>1 DEF ServerHandles
    <3>2. granted \in BOOLEAN
      OBVIOUS
    <3>3. cancels' = cancels
      BY <2>1 DEF ServerHandles
    <3> QED
      BY <3>1, <3>2, <3>3
  <2>2. CASE x.kind # "listen"
    BY <2>2 DEF ServerHandles
  <2> QED
    BY <2>1, <2>2
<1> HIDE DEF x
<1>4. x.port \in Ports
  BY <1>2, RequestFacts
<1>5. WorldTypes'
  BY <1>1, <1>2, <1>3, <1>4 DEF WorldTypes
<1>6. \A r \in Elements(replies') : r \in Elements(replies) \/ (worker.kind = "listen" /\ r.attempt = worker.attempt)
  BY <1>3, ReplyFacts
<1>7. Numbered(active, NoRequest)
  BY RequestFacts DEF Numbered
<1>8. \A r \in Elements(replies') : r.attempt <= active.attempts
  BY <1>1, <1>6 DEF Numbers, Numbered
<1> QED
  BY <1>1, <1>2, <1>3, <1>5, <1>7, <1>8 DEF Numbers, Numbered

\* What leaves the requests alone, or ends the connection.
LEMMA StillWorld ==
  ASSUME LineInv, UNCHANGED <<active, requesting, replies>>,
         UNCHANGED server \/ (wire' = <<>> /\ listening' = {} /\ alive' = FALSE)
  PROVE  LineInv'
<1>1. \A p \in Ports : PortInv(active, p)'
  BY StillLine
<1>2. Elements(<<>>) = {} /\ <<>> \in Seq(Requests)
  BY DEF Elements
<1>3. WorldTypes' /\ Numbers(active)'
  BY <1>2 DEF LineInv, WorldTypes, Numbers, Numbered, Owned, server, requesting
<1> QED
  BY <1>1, <1>3 DEF LineInv

\* The task's own steps.
LEMMA ReturnKeepsLine ==
  ASSUME TunnelConstants, TaskInv, NEW how, Return(how)
  PROVE  LineInv' /\ Early'
<1>1. LineAt(active)' /\ Silent'
  BY ReturnLine
<1>2. WorldTypes'
  BY <1>1 DEF Silent, WorldTypes
<1> QED
  BY <1>1, <1>2 DEF LineInv, LineAt, Early

\* The lines' invariant is kept by every step.
LEMMA LineStep ==
  ASSUME TunnelConstants, TaskInv, LineInv, Early, [Next]_vars
  PROVE  LineInv' /\ Early'
<1>1. TaskTypes /\ WorldTypes
  BY DEF TaskInv, LineInv
<1>2. CASE Connect
  <2>1. LineAt(active)'
    BY <1>2, ConnectLine DEF Early, Connect
  <2>2. WorldTypes' /\ Early'
    BY <1>1, <1>2 DEF WorldTypes, Early, Connect, requesting
  <2> QED
    BY <2>1, <2>2 DEF LineInv, LineAt
<1>3. CASE AwaitReply \/ ApplyReply
  <2>1. /\ replies # <<>> /\ active' = Settle(active, Head(replies)) /\ replies' = Tail(replies)
        /\ UNCHANGED <<requesting, server>> /\ phase' # "connecting"
    BY <1>3 DEF AwaitReply, ApplyReply, ReportOrEnd
  <2>2. LineAt(active)'
    BY <2>1, SettleLine
  <2>3. WorldTypes' /\ Early'
    BY <1>1, <2>1 DEF WorldTypes, Early, requesting, server
  <2> QED
    BY <2>2, <2>3 DEF LineInv, LineAt
<1>4. CASE ApplyControl
  <2>1. LineAt(active)'
    BY <1>4, ControlLine
  <2>2. WorldTypes' /\ Early'
    BY <1>1, <1>4 DEF WorldTypes, Early, ApplyControl, ReportOrEnd, requesting, server
  <2> QED
    BY <2>1, <2>2 DEF LineInv, LineAt
<1>5. CASE WorkerStep \/ ServerHandles
  <2>1. \A p \in Ports : PortInv(active, p)'
    BY <1>1, <1>5, FailedStep, TakenStep, CancelStep, ListenHandled, CancelHandled DEF WorkerStep
  <2>2. WorldTypes' /\ Numbers(active)'
    BY <1>1, <1>5, WorkerWorld, ServerWorld
  <2>3. Early'
    <3>1. phase' = phase
      BY <1>5 DEF WorkerStep, TakeRequest, TimeOut, RequestFails, CancelBehind, ServerHandles
    <3>2. CASE phase = "connecting"
      <4>1. /\ worker = NoRequest /\ wire = <<>> /\ \A p \in Ports : cancels[p] = "none"
            /\ active.requests = <<>>
        BY <3>2 DEF Early, Silent, TaskInv, NothingYet, NoForwards
      <4> QED
        BY <1>5, <4>1 DEF WorkerStep, TakeRequest, TimeOut, RequestFails, CancelBehind,
           ServerHandles
    <3> QED
      BY <3>1, <3>2 DEF Early
  <2> QED
    BY <2>1, <2>2, <2>3 DEF LineInv
<1>6. CASE /\ UNCHANGED <<active, requesting, replies>> /\ (phase' = phase \/ phase' # "connecting")
           /\ UNCHANGED server \/ (alive /\ wire' = <<>> /\ listening' = {} /\ alive' = FALSE)
  <2>1. LineInv'
    BY <1>6, StillWorld
  <2>2. Early'
    BY <1>6 DEF Early, Silent, requesting, server
  <2> QED
    BY <2>1, <2>2
<1>7. CASE (\E config \in Configs : AddForward(config)) \/ (\E id \in Ids : RemoveForward(id))
  BY <1>6, <1>7 DEF AddForward, RemoveForward, Send
<1>8. CASE StopTunnel \/ StopBinding \/ EndServing \/ LeaveMap \/ ConnectionDies
           \/ (\E p \in Ports : Forwarded(p)) \/ (\E c \in conns : RouteGone(c) \/ ConnEnds(c))
           \/ UNCHANGED vars
  BY <1>6, <1>8 DEF StopTunnel, StopBinding, EndServing, LeaveMap, ConnectionDies, Forwarded,
     RouteGone, ConnEnds, ConnsAre, vars
<1>9. CASE QueueChange \/ FinishBinding \/ StopConnecting \/ ConnectFails \/ Close
  <2>1. CASE \E how : Return(how)
    BY <2>1, ReturnKeepsLine
  <2>2. CASE ~ \E how : Return(how)
    BY <1>6, <1>9, <2>2 DEF QueueChange, FinishBinding, StopConnecting, ConnectFails, Close
  <2> QED
    BY <2>1, <2>2
<1> QED
  BY <1>2, <1>3, <1>4, <1>5, <1>7, <1>8, <1>9 DEF Next, TaskStep

-----------------------------------------------------------------------------
(* The other types. *)

\* The types of what is left: the phases, what is shown, the connections.
StatusTypes ==
  /\ phase \in {"connecting", "binding", "serving", "closing", "ended", "gone"}
  /\ outcome \in {"none", "disconnected", "error"}
  /\ listed \in BOOLEAN /\ stop \in BOOLEAN
  /\ Len(controls) <= Capacity
  /\ snapshot \subseteq Ids
  /\ reported \subseteq [id : Ids, bound : BOOLEAN]
  /\ conns \subseteq [port : Ports, live : Nat]

\* What is shown of forwards is of the right types.
LEMMA PublishTypes ==
  ASSUME TunnelConstants, NEW a \in Actives
  PROVE  EntryIds(a) \subseteq Ids /\ Statuses(a) \subseteq [id : Ids, bound : BOOLEAN]
<1>1. \A e \in a.entries : e.config.id \in Ids /\ Serves(e) \in BOOLEAN
  BY ActiveFacts, ConfigFacts DEF Serves
<1>2. EntryIds(a) \subseteq Ids
  BY <1>1 DEF EntryIds
<1>3. Statuses(a) \subseteq [id : Ids, bound : BOOLEAN]
  BY <1>1 DEF Statuses
<1> QED
  BY <1>2, <1>3

\* The ids of forwards are ids.
LEMMA IdsFacts ==
  ASSUME TunnelConstants, NEW q \in Seq(Configs)
  PROVE  IdsOf(q) \subseteq Ids
BY ConfigFacts DEF IdsOf

\* Nothing is sent for a tunnel that has no forwards.
LEMMA LineInit ==
  ASSUME TunnelConstants, Init
  PROVE  LineInv /\ Early /\ StatusTypes
<1>1. Silent /\ active = NoForwards /\ cancels = [p \in Ports |-> "none"]
  BY DEF Init, Silent
<1>2. /\ active.requests = <<>> /\ active.attempts = 0
      /\ \A p \in Ports : active.routes[p].owner = "nobody"
  BY <1>1 DEF NoForwards, NoRoute
<1>3. LineAt(active)
  BY <1>1, <1>2, NoLine
<1>4. WorldTypes
  BY <1>1 DEF Silent, WorldTypes
<1>5. IdsOf(Initial) \subseteq Ids
  BY IdsFacts DEF TunnelConstants
<1>6. StatusTypes
  <2>1. controls = <<>> /\ Capacity \in Nat
    BY DEF Init, TunnelConstants
  <2>2. /\ phase = "connecting" /\ outcome = "none" /\ listed = TRUE /\ stop = FALSE
        /\ snapshot = IdsOf(Initial) /\ reported = {} /\ conns = {}
    BY DEF Init
  <2>3. Len(controls) <= Capacity
    <3>1. Len(controls) = 0
      BY <2>1
    <3> QED
      BY <2>1, <3>1
  <2>4. listed \in BOOLEAN /\ stop \in BOOLEAN
    BY <2>2
  <2>5. reported \subseteq [id : Ids, bound : BOOLEAN] /\ conns \subseteq [port : Ports, live : Nat]
    BY <2>2
  <2> QED
    BY <1>5, <2>2, <2>3, <2>5, <2>4 DEF StatusTypes
<1> QED
  BY <1>1, <1>3, <1>4, <1>6 DEF LineInv, LineAt, Early

\* What a step does to the queue, to what is shown and to the connections.
LEMMA StatusStep ==
  ASSUME TunnelConstants, TaskInv, StatusTypes, [Next]_vars, listening \subseteq Ports
  PROVE  StatusTypes'
<1>1. TaskInv'
  BY TaskStepKeeps
<1>2. /\ active \in Actives /\ active' \in Actives /\ Capacity \in Nat
      /\ controls \in Seq(Controls) /\ wanted' \in Seq(Configs)
  BY <1>1 DEF TaskInv, TaskTypes, TunnelConstants
<1>3. CASE \E how \in {"disconnected", "error", outcome} : Return(how)
  BY <1>2, <1>3 DEF StatusTypes, Return
<1>4. CASE \E x \in Controls : Send(x)
  <2>1. PICK x \in Controls : Send(x)
    BY <1>4
  <2>2. Len(controls') <= Capacity
    <3>1. controls' = Append(controls, x) /\ Len(controls) < Capacity /\ Len(controls) \in Nat
      BY <1>2, <2>1 DEF Send
    <3> HIDE DEF Controls
    <3> QED
      BY <1>2, <3>1
  <2> QED
    BY <2>1, <2>2 DEF Send, StatusTypes
<1>5. CASE QueueChange /\ ~Return("disconnected")
  <2>1. /\ controls # <<>> /\ controls' = Tail(controls) /\ snapshot' = IdsOf(wanted')
        /\ UNCHANGED <<phase, outcome, listed, stop, reported, conns>>
    BY <1>5 DEF QueueChange
  <2>2. Len(controls') <= Capacity
    BY <1>2, <2>1 DEF StatusTypes
  <2> QED
    BY <1>2, <2>1, <2>2, IdsFacts DEF StatusTypes
<1>6. CASE ApplyControl
  <2>1. /\ controls # <<>> /\ controls' = Tail(controls) /\ UNCHANGED <<listed, stop, conns>>
        /\ \/ Publish(active') /\ UNCHANGED <<phase, outcome>>
           \/ phase' = "closing" /\ outcome' = "disconnected" /\ UNCHANGED <<reported, snapshot>>
    BY <1>6 DEF ApplyControl, ReportOrEnd
  <2>2. Len(controls') <= Capacity
    BY <1>2, <2>1 DEF StatusTypes
  <2> QED
    BY <1>2, <2>1, <2>2, PublishTypes DEF StatusTypes, Publish
<1>7. CASE ApplyReply \/ (FinishBinding /\ ~Return("error"))
  <2>1. /\ UNCHANGED <<controls, outcome, listed, stop, conns>> /\ phase' \in {phase, "serving"} /\ Publish(active')
        \/ /\ UNCHANGED <<controls, listed, stop, conns, reported, snapshot>>
           /\ phase' = "closing" /\ outcome' = "disconnected"
    BY <1>7 DEF ApplyReply, FinishBinding, ReportOrEnd, Publish
  <2> QED
    BY <1>2, <2>1, PublishTypes DEF StatusTypes, Publish
<1>8. CASE (\E p \in Ports : Forwarded(p)) \/ (\E c \in conns : RouteGone(c) \/ ConnEnds(c))
  <2>1. \A p \in Ports : active.routes[p].live \in Nat
    BY <1>2, ActiveFacts
  <2> QED
    BY <1>8, <2>1 DEF StatusTypes, Forwarded, RouteGone, ConnEnds, ConnsAre
<1>9. CASE \/ Connect \/ AwaitReply \/ StopBinding \/ EndServing \/ LeaveMap \/ StopTunnel
           \/ WorkerStep \/ ServerHandles \/ ConnectionDies \/ UNCHANGED vars
  <2>1. CASE Connect \/ AwaitReply \/ StopBinding \/ EndServing \/ LeaveMap \/ StopTunnel
    BY <2>1 DEF Connect, AwaitReply, StopBinding, EndServing, LeaveMap, StopTunnel, StatusTypes
  <2>2. CASE WorkerStep \/ ServerHandles \/ ConnectionDies \/ UNCHANGED vars
    BY <2>2 DEF WorkerStep, TakeRequest, TimeOut, RequestFails, CancelBehind, ServerHandles,
       ConnectionDies,
       vars, StatusTypes
  <2> QED
    BY <1>9, <2>1, <2>2
<1>10. CASE (\E config \in Configs : AddForward(config)) \/ (\E id \in Ids : RemoveForward(id))
  BY <1>4, <1>10 DEF AddForward, RemoveForward, Controls
<1>11. CASE QueueChange \/ FinishBinding \/ StopConnecting \/ ConnectFails \/ Close
  BY <1>3, <1>5, <1>7, <1>11 DEF StopConnecting, ConnectFails, Close
<1> QED
  BY <1>6, <1>7, <1>8, <1>9, <1>10, <1>11 DEF Next, TaskStep

\* The inductive invariant of a tunnel.
TunnelInv == TaskInv /\ LineInv /\ Early /\ StatusTypes

\* It holds of a tunnel that was just spawned.
LEMMA TunnelInit ==
  ASSUME TunnelConstants, Init
  PROVE  TunnelInv
BY TaskInit, LineInit DEF TunnelInv

\* Every step keeps it.
LEMMA TunnelStep ==
  ASSUME TunnelConstants, TunnelInv, [Next]_vars
  PROVE  TunnelInv'
<1>1. listening \subseteq Ports
  BY DEF TunnelInv, LineInv, WorldTypes
<1> QED
  BY <1>1, TaskStepKeeps, LineStep, StatusStep DEF TunnelInv

\* A forward that is served by the server is the one of its port's route.
LEMMA HolderIs ==
  ASSUME TunnelConstants, TunnelInv, NEW e \in active.entries, ServerSide(e)
  PROVE  /\ e.config.port \in Ports /\ Owned(active, e.config.port)
         /\ Serves(e) <=> Done(active, e.config.port) /\ ~Answered(active, e.config.port)
<1> DEFINE p == e.config.port
<1>1. active \in Actives /\ active.entries \subseteq Entries
  BY TypedSo DEF TunnelInv, TaskInv
<1>2. p \in Ports /\ e.config.id # "nobody"
  BY <1>1, ConfigFacts
<1>3. Owned(active, p)
  BY <1>2 DEF TunnelInv, TaskInv, RoutesFit, Owned
<1>4. /\ e.pending = IF Done(active, p) /\ ~Answered(active, p) THEN 0 ELSE active.routes[p].live
      /\ active.routes[p].live # 0
  BY <1>2, <1>3 DEF TunnelInv, LineInv, PortInv, HolderWaits, Numbers
<1> QED
  BY <1>2, <1>3, <1>4 DEF Serves, ServerSide

\* With it the server and the tunnel agree.
LEMMA TunnelMeans ==
  ASSUME TunnelConstants, TunnelInv
  PROVE  TypeOK /\ ReportedIsOpen /\ NothingLeftListening
<1>1. TypeOK
  <2>1. /\ controls \in Seq(Controls) /\ wanted \in Seq(Configs) /\ replies \in Answers
        /\ worker \in Requests \cup {NoRequest} /\ active \in Actives
    BY DEF TunnelInv, TaskInv, TaskTypes
  <2>2. /\ wire \in Seq(Requests) /\ listening \subseteq Ports
        /\ cancels \in [Ports -> {"none", "unsent", "sent"}]
    BY DEF TunnelInv, LineInv, WorldTypes
  <2> QED
    BY <2>1, <2>2 DEF TypeOK, TunnelInv, StatusTypes, Answers, Actives, Routes
<1>2. ReportedIsOpen
  <2> SUFFICES ASSUME phase = "serving", alive, NEW e \in active.entries, e.config.kind = "remote",
                      [id |-> e.config.id, bound |-> TRUE] \in reported
               PROVE  e.config.port \in listening
    BY DEF ReportedIsOpen
  <2>1. PICK f \in active.entries : f.config.id = e.config.id /\ Serves(f)
    BY DEF TunnelInv, TaskInv, Shown, Statuses
  <2>2. f = e /\ ServerSide(e)
    BY <2>1 DEF TunnelInv, TaskInv, EntriesFit, Serves, ServerSide
  <2>3. e.config.port \in Ports /\ Done(active, e.config.port) /\ ~Answered(active, e.config.port)
    BY <2>1, <2>2, HolderIs
  <2>4. IsOpen(active, e.config.port)
    BY <2>3 DEF IsOpen, Done, Answered, Told, Refusal
  <2> QED
    BY <2>3, <2>4 DEF TunnelInv, LineInv, PortInv, LiveCounts
<1>3. NothingLeftListening
  <2> SUFFICES ASSUME phase = "serving", Settled, NEW p \in listening
               PROVE  \E e \in active.entries : Serves(e) /\ e.config.kind = "remote" /\ e.config.port = p
    BY DEF NothingLeftListening
  <2>1. p \in Ports
    BY DEF TunnelInv, LineInv, WorldTypes
  <2>2. ~Coming(active, p) /\ ~Cancelled(wire, p, 0)
    BY <2>1 DEF Settled, Coming, Cancelled, Elements
  <2>3. IsOpen(active, p)
    BY <2>1, <2>2 DEF TunnelInv, LineInv, PortInv, StaleEnds
  <2>4. Done(active, p) /\ Owned(active, p) /\ ~Answered(active, p)
    BY <2>3 DEF IsOpen, Done, Answered, Told, Settled, Elements
  <2>5. PICK e \in active.entries : ServerSide(e) /\ e.config.port = p
    BY <2>1, <2>4 DEF Owned, TunnelInv, TaskInv, RoutesFit
  <2> QED
    BY <2>4, <2>5, HolderIs DEF ServerSide
<1> QED
  BY <1>1, <1>2, <1>3

-----------------------------------------------------------------------------
(* The tunnel as it is checked with the other parts. *)

\* While another part runs, nothing of this one changes.
LEMMA TunnelPart ==
  ASSUME part = "tunnel" => TunnelInv, [PartNext]_allVars
  PROVE  (part = "tunnel" => TunnelInv)'
<1>1. TunnelConstants
  BY ConnectionAssumption
<1>2. CASE TunnelRuns /\ Next
  BY <1>1, <1>2, TunnelStep DEF TunnelRuns
<1>3. CASE part # "tunnel" /\ part' = part
  BY <1>3
<1>4. CASE UNCHANGED allVars
  <2>1. UNCHANGED part /\ UNCHANGED vars
    BY <1>4 DEF allVars, useVars, vars, tunnelVars, requesting, server
  <2> QED
    BY <1>1, <2>1, TunnelStep
<1> QED
  BY <1>2, <1>3, <1>4 DEF PartNext, DeadlineRuns, AuthRuns, PromptsRun, StoreRuns,
                          TunnelRuns, RelayRuns, SocksRuns, X11Runs

\* A tunnel has the forwards asked for last and no others, each connection of the
\* server goes to the one forward that holds its port, and a tunnel without
\* forwards ends, for every set of forwards and every length of the control queue
\* (tunnel.rs queue_until_empty, apply; remote_forward.rs claim).
THEOREM TunnelsAreAsAsked == PartSpec => []TunnelIsAsAsked
<1>1. PartInit => (part = "tunnel" => TunnelInv)
  BY TunnelInit, ConnectionAssumption DEF PartInit
<1>2. (part = "tunnel" => TunnelInv) /\ [PartNext]_allVars => (part = "tunnel" => TunnelInv)'
  BY TunnelPart
<1>3. (part = "tunnel" => TunnelInv) => TunnelIsAsAsked
  BY TaskMeans, ConnectionAssumption DEF TunnelInv, TunnelIsAsAsked
<1> QED
  BY <1>1, <1>2, <1>3, PTL DEF PartSpec

\* What a tunnel reports open the server listens on, and once every request was
\* answered it listens on nothing else, whatever was timed out, cancelled and asked
\* for again before (remote_forward.rs RequestWorker, tunnel.rs settle).
THEOREM ServersAgree == PartSpec => []ServerAgrees
<1>1. PartInit => (part = "tunnel" => TunnelInv)
  BY TunnelInit, ConnectionAssumption DEF PartInit
<1>2. (part = "tunnel" => TunnelInv) /\ [PartNext]_allVars => (part = "tunnel" => TunnelInv)'
  BY TunnelPart
<1>3. (part = "tunnel" => TunnelInv) => ServerAgrees
  BY TunnelMeans, ConnectionAssumption DEF ServerAgrees
<1> QED
  BY <1>1, <1>2, <1>3, PTL DEF PartSpec
=============================================================================
