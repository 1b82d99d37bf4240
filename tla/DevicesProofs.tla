---------------------------- MODULE DevicesProofs ----------------------------
(***************************************************************************)
(* Theorems about the saved devices and the terminal sessions opened to     *)
(* them: what the run of MCDevices checks of the sessions, of the stores    *)
(* and of an import, for any number of calls, output, sizes, devices, files *)
(* and failures, and what it rests on. Each component's steps are proved to *)
(* keep its invariant first; at the end, the parts of the run are put       *)
(* together.                                                               *)
(***************************************************************************)
EXTENDS MCDevices, ListFacts, FiniteSetTheorems, TLAPS

(* -------------------------------- sequences ------------------------------- *)

LEMMA TailFacts ==
  ASSUME NEW S, NEW s \in Seq(S), s # <<>>
  PROVE  /\ Len(s) \in Nat \ {0} /\ DOMAIN s = 1 .. Len(s)
         /\ Head(s) = s[1] /\ s[1] \in S
         /\ Tail(s) \in Seq(S) /\ Len(Tail(s)) = Len(s) - 1
         /\ DOMAIN Tail(s) = 1 .. (Len(s) - 1)
         /\ \A i \in DOMAIN Tail(s) : i + 1 \in DOMAIN s /\ Tail(s)[i] = s[i + 1]
OBVIOUS

LEMMA AppendFacts ==
  ASSUME NEW S, NEW s \in Seq(S), NEW e \in S
  PROVE  /\ Len(s) \in Nat /\ DOMAIN s = 1 .. Len(s)
         /\ Append(s, e) \in Seq(S) /\ Len(Append(s, e)) = Len(s) + 1
         /\ DOMAIN Append(s, e) = 1 .. (Len(s) + 1)
         /\ \A i \in DOMAIN s : Append(s, e)[i] = s[i]
         /\ Append(s, e)[Len(s) + 1] = e
OBVIOUS

(* ------------------------------ the SSH session --------------------------- *)

\* Keystrokes, or a size.
Messages == Sizes \cup {"keys"}
EndCodes == {"code0", "failed"}

\* The types, by what the steps that disturb them have in common.
QueueTyped == queue \in Seq(Messages) /\ Len(queue) <= calls /\ calls \in 0 .. MaxCalls
WireTyped == wire \in Seq(Ssh!Msgs) /\ holding \in Ssh!Msgs \cup {Ssh!None}
InboxTyped == inbox \in Seq(Ssh!Msgs) /\ Len(inbox) <= Room
EventsTyped ==
  /\ events \in Seq(Ssh!Finals \cup {"connecting", "connected"})
  /\ Len(events) <= (IF phase \in {"idle", "resolving", "refused"} THEN 0
                     ELSE IF phase = "connecting" THEN 1
                     ELSE IF phase = "reported" THEN 3 ELSE 2)
  /\ phase \in {"over", "goodbye", "closing"} => result \in Ssh!Finals
SizesTyped ==
  /\ asked \in Sizes /\ size \in Sizes /\ ptySize \in Sizes \cup {Ssh!None}
  /\ writing \in Messages \cup {Ssh!None}
  /\ writing # Ssh!None => phase = "shell"
PlainTyped ==
  /\ phase \in {"idle", "resolving", "refused", "connecting", "opening", "shell",
                "closing", "goodbye", "over", "reported"}
  /\ stop \in BOOLEAN /\ listed \in BOOLEAN /\ stalled \in BOOLEAN /\ alive \in BOOLEAN
  /\ serverEnd \in Ssh!Ends \cup {Ssh!None} /\ exitCode \in {Ssh!None, "code0", "failed"}
  /\ result \in Ssh!Finals \cup {Ssh!None}
  /\ output \in {Ssh!None, "open", "closed", "gone"}
  /\ sent \in 0 .. MaxOutput

SessionTypes ==
  /\ QueueTyped /\ WireTyped /\ InboxTyped /\ EventsTyped /\ SizesTyped /\ PlainTyped

LEMMA SessionTypesHold ==
  ASSUME SessionTypes, DevicesAssumption
  PROVE  Ssh!TypeOK
<1>1. queue \in Seq(Messages) /\ Len(queue) <= MaxCalls
  BY DEF SessionTypes, QueueTyped, DevicesAssumption
<1>2. events \in Seq(Ssh!Finals \cup {"connecting", "connected"}) /\ Len(events) <= 3
  BY DEF SessionTypes, EventsTyped
<1> QED
  BY <1>1, <1>2 DEF SessionTypes, QueueTyped, WireTyped, InboxTyped, SizesTyped, PlainTyped,
                    Ssh!TypeOK, Messages

\* The newest size is on its way through the queue, is the one being sent, or
\* is what the terminal has, or will be asked for with.
Sending == IF phase = "shell" THEN ptySize ELSE size
InQueue ==
  \E i \in DOMAIN queue :
    queue[i] = asked /\ \A j \in DOMAIN queue : j > i => queue[j] \notin Sizes
PastQueue ==
  /\ \A i \in DOMAIN queue : queue[i] \notin Sizes
  /\ IF writing \in Sizes THEN writing = asked ELSE Sending = asked
SizeUnderWay ==
  \/ phase \in {"idle", "resolving", "connecting", "opening"}
  \/ phase = "shell" /\ alive
  => InQueue \/ PastQueue

\* Every exit code on its way, or read, is the server's word.
CodesAreTheServers ==
  /\ \A i \in DOMAIN wire : wire[i] \in EndCodes => serverEnd = wire[i]
  /\ \A i \in DOMAIN inbox : inbox[i] \in EndCodes => serverEnd = inbox[i]
  /\ holding \in EndCodes => serverEnd = holding
  /\ exitCode \in EndCodes => serverEnd = exitCode
ExitIsClean == CodesAreTheServers /\ Ssh!ExitedIsClean

\* The recorder has a file only while something of the session holds it.
Recorded ==
  /\ recording \in [known : BOOLEAN, file : BOOLEAN, hole : BOOLEAN, starting : BOOLEAN]
  /\ recording.file => recording.known \/ phase = "reported"
  /\ recording.hole = FALSE
  /\ phase = "idle" => ~recording.known
  /\ recording.starting => recording.known \/ phase \in {"refused", "reported"}
  /\ Ssh!EndLetsGo

SessionInv == SessionTypes /\ SizeUnderWay /\ ExitIsClean /\ Recorded

LEMMA QueueTypedStep ==
  ASSUME QueueTyped, DevicesAssumption, [Ssh!Next]_Ssh!vars
  PROVE  QueueTyped'
<1> USE DEF DevicesAssumption, QueueTyped, Messages, Ssh!link, Ssh!control
<1>1. CASE Ssh!Connect \/ Ssh!ResolveFails \/ Ssh!Spawn \/ Ssh!Disconnect \/ Ssh!StopRecording
  BY <1>1 DEF Ssh!Connect, Ssh!Recorder, Ssh!ResolveFails, Ssh!Spawn, Ssh!Disconnect,
     Ssh!StopRecording
<1>2. CASE Ssh!LetOutputGo \/ Ssh!StopHandshake \/ Ssh!EstablishFails \/ Ssh!Established \/ Ssh!OpenShell
  BY <1>2 DEF Ssh!LetOutputGo, Ssh!StopHandshake, Ssh!Finish, Ssh!EstablishFails,
     Ssh!Established, Ssh!OpenShell
<1>3. CASE Ssh!OpenShellFails \/ Ssh!SendControl \/ Ssh!SendFails \/ Ssh!Read \/ Ssh!ReadEnd
  BY <1>3 DEF Ssh!OpenShellFails, Ssh!Finish, Ssh!SendControl, Ssh!SendFails, Ssh!AfterShell,
     Ssh!Read, Ssh!StatusOf, Ssh!Deliver, Ssh!Record, Ssh!ReadEnd
<1>4. CASE Ssh!StopShell \/ Ssh!CloseChannel \/ Ssh!CloseConnection \/ Ssh!Report \/ Ssh!RusshReads
  BY <1>4 DEF Ssh!StopShell, Ssh!Finish, Ssh!CloseChannel, Ssh!CloseConnection, Ssh!Report,
     Ssh!Recorder, Ssh!RusshReads, Ssh!Talking
<1>5. CASE Ssh!RusshDelivers \/ Ssh!ServerPrints \/ Ssh!ServerEnds \/ Ssh!ServerStalls \/ Ssh!ConnectionDrops
  BY <1>5 DEF Ssh!RusshDelivers, Ssh!ServerPrints, Ssh!Talking, Ssh!ServerEnds,
     Ssh!ServerStalls, Ssh!ConnectionDrops
<1>6. CASE Ssh!WriteStdin
  BY <1>6 DEF Ssh!WriteStdin
<1>7. CASE Ssh!ResizePty
  BY <1>7 DEF Ssh!ResizePty
<1>8. CASE Ssh!Track
  BY <1>8 DEF Ssh!Track
<1>9. CASE Ssh!TakeControl
  BY <1>9 DEF Ssh!TakeControl
<1>10. CASE Ssh!Unlist
  BY <1>10 DEF Ssh!Unlist
<1>11. CASE Ssh!StartRecording
  BY <1>11 DEF Ssh!StartRecording, Ssh!FetchRecorder, Ssh!OpenRecording, Ssh!Recorder
<1>12. CASE UNCHANGED Ssh!vars
  BY <1>12 DEF Ssh!vars
<1> QED
  BY <1>1, <1>2, <1>3, <1>4, <1>5, <1>6, <1>7, <1>8, <1>9, <1>10, <1>11, <1>12 DEF Ssh!Next,
     Ssh!Frontend, Ssh!Handshake, Ssh!Opening, Ssh!Writer, Ssh!Reader, Ssh!Ending, Ssh!Russh,
     Ssh!Server

LEMMA WireTypedStep ==
  ASSUME WireTyped, DevicesAssumption, [Ssh!Next]_Ssh!vars
  PROVE  WireTyped'
<1> USE DEF WireTyped, Ssh!Msgs, Ssh!Ends, Ssh!None, Ssh!link, Ssh!control
<1>1. CASE Ssh!Connect \/ Ssh!ResolveFails \/ Ssh!Spawn \/ Ssh!WriteStdin \/ Ssh!ResizePty
  BY <1>1 DEF Ssh!Connect, Ssh!Recorder, Ssh!ResolveFails, Ssh!Spawn, Ssh!WriteStdin, Ssh!ResizePty
<1>2. CASE Ssh!Disconnect \/ Ssh!StartRecording \/ Ssh!StopRecording \/ Ssh!LetOutputGo \/ Ssh!Track
  BY <1>2 DEF Ssh!Disconnect, Ssh!StartRecording, Ssh!FetchRecorder, Ssh!OpenRecording,
     Ssh!Recorder, Ssh!StopRecording, Ssh!LetOutputGo, Ssh!Track
<1>3. CASE Ssh!StopHandshake \/ Ssh!EstablishFails \/ Ssh!Established \/ Ssh!OpenShell \/ Ssh!OpenShellFails
  BY <1>3 DEF Ssh!StopHandshake, Ssh!Finish, Ssh!EstablishFails, Ssh!Established, Ssh!OpenShell,
     Ssh!OpenShellFails
<1>4. CASE Ssh!TakeControl \/ Ssh!SendControl \/ Ssh!SendFails \/ Ssh!Read \/ Ssh!ReadEnd
  BY <1>4 DEF Ssh!TakeControl, Ssh!SendControl, Ssh!SendFails, Ssh!Finish, Ssh!AfterShell,
     Ssh!Read, Ssh!StatusOf, Ssh!Deliver, Ssh!Record, Ssh!ReadEnd
<1>5. CASE Ssh!StopShell \/ Ssh!CloseChannel \/ Ssh!CloseConnection \/ Ssh!Report \/ Ssh!Unlist
  BY <1>5 DEF Ssh!StopShell, Ssh!Finish, Ssh!CloseChannel, Ssh!CloseConnection, Ssh!Report,
     Ssh!Recorder, Ssh!Unlist
<1>6. CASE Ssh!ServerStalls
  BY <1>6 DEF Ssh!ServerStalls, Ssh!Talking
<1>7. CASE Ssh!RusshReads
  BY <1>7 DEF Ssh!RusshReads, Ssh!Talking
<1>8. CASE Ssh!RusshDelivers
  BY <1>8 DEF Ssh!RusshDelivers
<1>9. CASE Ssh!ServerPrints
  BY <1>9 DEF Ssh!ServerPrints, Ssh!Talking
<1>10. CASE Ssh!ConnectionDrops
  BY <1>10 DEF Ssh!ConnectionDrops
<1>11. CASE Ssh!ServerEnds
  <2>1. PICK end \in Ssh!Ends :
          wire' = wire \o (IF end = "unreported" THEN <<"close">> ELSE <<end, "close">>)
    BY <1>11 DEF Ssh!ServerEnds, Ssh!Talking
  <2>2. <<"close">> \in Seq(Ssh!Msgs) /\ (end # "unreported" => <<end, "close">> \in Seq(Ssh!Msgs))
    BY <2>1 DEF Ssh!ServerEnds, Ssh!Talking
  <2>3. CASE end = "unreported"
    <3> DEFINE last == <<"close">>
    <3>1. wire' = wire \o last /\ last \in Seq(Ssh!Msgs) /\ holding' = holding
      BY <1>11, <2>1, <2>2, <2>3 DEF Ssh!ServerEnds
    <3> HIDE DEF last
    <3> QED
      BY <3>1
  <2>4. CASE end # "unreported"
    <3> DEFINE last == <<end, "close">>
    <3>1. wire' = wire \o last /\ last \in Seq(Ssh!Msgs) /\ holding' = holding
      BY <1>11, <2>1, <2>2, <2>4 DEF Ssh!ServerEnds, Ssh!Talking
    <3> HIDE DEF last
    <3> QED
      BY <3>1
  <2> QED
    BY <2>3, <2>4
<1>12. CASE UNCHANGED Ssh!vars
  BY <1>12 DEF Ssh!vars
<1> QED
  BY <1>1, <1>2, <1>3, <1>4, <1>5, <1>6, <1>7, <1>8, <1>9, <1>10, <1>11, <1>12 DEF Ssh!Next,
     Ssh!Frontend, Ssh!Handshake, Ssh!Opening, Ssh!Writer, Ssh!Reader, Ssh!Ending, Ssh!Russh,
     Ssh!Server

LEMMA InboxTypedStep ==
  ASSUME InboxTyped, WireTyped, DevicesAssumption, [Ssh!Next]_Ssh!vars
  PROVE  InboxTyped'
<1> USE DEF DevicesAssumption, InboxTyped, WireTyped, Ssh!Msgs, Ssh!None, Ssh!link, Ssh!control
<1>1. CASE Ssh!Connect \/ Ssh!ResolveFails \/ Ssh!Spawn \/ Ssh!WriteStdin \/ Ssh!ResizePty
  BY <1>1 DEF Ssh!Connect, Ssh!Recorder, Ssh!ResolveFails, Ssh!Spawn, Ssh!WriteStdin, Ssh!ResizePty
<1>2. CASE Ssh!Disconnect \/ Ssh!StartRecording \/ Ssh!StopRecording \/ Ssh!LetOutputGo \/ Ssh!Track
  BY <1>2 DEF Ssh!Disconnect, Ssh!StartRecording, Ssh!FetchRecorder, Ssh!OpenRecording,
     Ssh!Recorder, Ssh!StopRecording, Ssh!LetOutputGo, Ssh!Track
<1>3. CASE Ssh!StopHandshake \/ Ssh!EstablishFails \/ Ssh!Established \/ Ssh!OpenShell \/ Ssh!OpenShellFails
  BY <1>3 DEF Ssh!StopHandshake, Ssh!Finish, Ssh!EstablishFails, Ssh!Established, Ssh!OpenShell,
     Ssh!OpenShellFails
<1>4. CASE Ssh!TakeControl \/ Ssh!SendControl \/ Ssh!SendFails \/ Ssh!ReadEnd \/ Ssh!StopShell
  BY <1>4 DEF Ssh!TakeControl, Ssh!SendControl, Ssh!SendFails, Ssh!Finish, Ssh!AfterShell,
     Ssh!ReadEnd, Ssh!StopShell
<1>5. CASE Ssh!CloseConnection \/ Ssh!Report \/ Ssh!Unlist \/ Ssh!RusshReads \/ Ssh!ServerPrints
  BY <1>5 DEF Ssh!CloseConnection, Ssh!Report, Ssh!Recorder, Ssh!Unlist, Ssh!RusshReads,
     Ssh!Talking, Ssh!ServerPrints
<1>6. CASE Ssh!ServerEnds \/ Ssh!ServerStalls \/ Ssh!ConnectionDrops
  BY <1>6 DEF Ssh!ServerEnds, Ssh!Talking, Ssh!ServerStalls, Ssh!ConnectionDrops
<1>7. CASE Ssh!RusshDelivers
  BY <1>7 DEF Ssh!RusshDelivers
<1>8. CASE Ssh!Read
  BY <1>8 DEF Ssh!Read, Ssh!Finish, Ssh!AfterShell, Ssh!StatusOf, Ssh!Deliver, Ssh!Record
<1>9. CASE Ssh!CloseChannel
  <2>1. inbox' = inbox \/ (inbox # <<>> /\ inbox' = Tail(inbox))
    BY <1>9 DEF Ssh!CloseChannel
  <2>2. inbox # <<>> => Tail(inbox) \in Seq(Ssh!Msgs) /\ Len(inbox) \in Nat /\ Len(Tail(inbox)) = Len(inbox) - 1
    BY ONLY InboxTyped, TailFacts DEF InboxTyped
  <2> QED
    BY ONLY InboxTyped, DevicesAssumption, <2>1, <2>2 DEF InboxTyped, DevicesAssumption
<1>10. CASE UNCHANGED Ssh!vars
  BY <1>10 DEF Ssh!vars
<1> QED
  BY <1>1, <1>2, <1>3, <1>4, <1>5, <1>6, <1>7, <1>8, <1>9, <1>10 DEF Ssh!Next, Ssh!Frontend,
     Ssh!Handshake, Ssh!Opening, Ssh!Writer, Ssh!Reader, Ssh!Ending, Ssh!Russh, Ssh!Server

LEMMA EventsTypedStep ==
  ASSUME EventsTyped, PlainTyped, DevicesAssumption, [Ssh!Next]_Ssh!vars
  PROVE  EventsTyped'
<1> USE DEF EventsTyped, PlainTyped, Ssh!Finals, Ssh!None, Ssh!link, Ssh!control
<1>1. CASE Ssh!Connect \/ Ssh!ResolveFails \/ Ssh!WriteStdin \/ Ssh!ResizePty \/ Ssh!Disconnect
  BY <1>1 DEF Ssh!Connect, Ssh!Recorder, Ssh!ResolveFails, Ssh!WriteStdin, Ssh!ResizePty,
     Ssh!Disconnect
<1>2. CASE Ssh!StartRecording \/ Ssh!StopRecording \/ Ssh!LetOutputGo \/ Ssh!Track \/ Ssh!StopHandshake
  BY <1>2 DEF Ssh!StartRecording, Ssh!FetchRecorder, Ssh!OpenRecording, Ssh!Recorder,
     Ssh!StopRecording, Ssh!LetOutputGo, Ssh!Track, Ssh!StopHandshake, Ssh!Finish
<1>3. CASE Ssh!EstablishFails \/ Ssh!OpenShell \/ Ssh!OpenShellFails \/ Ssh!TakeControl \/ Ssh!SendControl
  BY <1>3 DEF Ssh!EstablishFails, Ssh!Finish, Ssh!OpenShell, Ssh!OpenShellFails,
     Ssh!TakeControl, Ssh!SendControl
<1>4. CASE Ssh!SendFails \/ Ssh!ReadEnd \/ Ssh!StopShell \/ Ssh!CloseChannel \/ Ssh!CloseConnection
  BY <1>4 DEF Ssh!SendFails, Ssh!Finish, Ssh!AfterShell, Ssh!ReadEnd, Ssh!StopShell,
     Ssh!CloseChannel, Ssh!CloseConnection
<1>5. CASE Ssh!Unlist \/ Ssh!RusshReads \/ Ssh!RusshDelivers \/ Ssh!ServerPrints \/ Ssh!ServerEnds
  BY <1>5 DEF Ssh!Unlist, Ssh!RusshReads, Ssh!Talking, Ssh!RusshDelivers, Ssh!ServerPrints,
     Ssh!ServerEnds
<1>6. CASE Ssh!ServerStalls \/ Ssh!ConnectionDrops
  BY <1>6 DEF Ssh!ServerStalls, Ssh!Talking, Ssh!ConnectionDrops
<1>7. CASE Ssh!Spawn
  BY <1>7 DEF Ssh!Spawn
<1>8. CASE Ssh!Established
  BY <1>8 DEF Ssh!Established
<1>9. CASE Ssh!Report
  BY <1>9 DEF Ssh!Report, Ssh!Recorder
<1>10. CASE Ssh!Read
  BY <1>10 DEF Ssh!Read, Ssh!Finish, Ssh!AfterShell, Ssh!StatusOf, Ssh!Deliver, Ssh!Record
<1>11. CASE UNCHANGED Ssh!vars
  BY <1>11 DEF Ssh!vars
<1> QED
  BY <1>1, <1>2, <1>3, <1>4, <1>5, <1>6, <1>7, <1>8, <1>9, <1>10, <1>11 DEF Ssh!Next,
     Ssh!Frontend, Ssh!Handshake, Ssh!Opening, Ssh!Writer, Ssh!Reader, Ssh!Ending, Ssh!Russh,
     Ssh!Server

LEMMA SizesTypedStep ==
  ASSUME SizesTyped, QueueTyped, DevicesAssumption, [Ssh!Next]_Ssh!vars
  PROVE  SizesTyped'
<1> USE DEF SizesTyped, QueueTyped, Messages, Ssh!None, Ssh!link, Ssh!control
<1>1. CASE Ssh!Connect \/ Ssh!ResolveFails \/ Ssh!Spawn \/ Ssh!WriteStdin \/ Ssh!Disconnect
  BY <1>1 DEF Ssh!Connect, Ssh!Recorder, Ssh!ResolveFails, Ssh!Spawn, Ssh!WriteStdin, Ssh!Disconnect
<1>2. CASE Ssh!StartRecording \/ Ssh!StopRecording \/ Ssh!LetOutputGo \/ Ssh!StopHandshake \/ Ssh!EstablishFails
  BY <1>2 DEF Ssh!StartRecording, Ssh!FetchRecorder, Ssh!OpenRecording, Ssh!Recorder,
     Ssh!StopRecording, Ssh!LetOutputGo, Ssh!StopHandshake, Ssh!Finish, Ssh!EstablishFails
<1>3. CASE Ssh!Established \/ Ssh!OpenShell \/ Ssh!OpenShellFails \/ Ssh!ReadEnd \/ Ssh!StopShell
  BY <1>3 DEF Ssh!Established, Ssh!OpenShell, Ssh!OpenShellFails, Ssh!Finish, Ssh!ReadEnd,
     Ssh!AfterShell, Ssh!StopShell
<1>4. CASE Ssh!CloseChannel \/ Ssh!CloseConnection \/ Ssh!Report \/ Ssh!Unlist \/ Ssh!RusshReads
  BY <1>4 DEF Ssh!CloseChannel, Ssh!CloseConnection, Ssh!Report, Ssh!Recorder, Ssh!Unlist,
     Ssh!RusshReads, Ssh!Talking
<1>5. CASE Ssh!RusshDelivers \/ Ssh!ServerPrints \/ Ssh!ServerEnds \/ Ssh!ServerStalls \/ Ssh!ConnectionDrops
  BY <1>5 DEF Ssh!RusshDelivers, Ssh!ServerPrints, Ssh!Talking, Ssh!ServerEnds,
     Ssh!ServerStalls, Ssh!ConnectionDrops
<1>6. CASE Ssh!ResizePty
  BY <1>6 DEF Ssh!ResizePty
<1>7. CASE Ssh!Track
  BY <1>7 DEF Ssh!Track
<1>8. CASE Ssh!TakeControl
  BY <1>8 DEF Ssh!TakeControl
<1>9. CASE Ssh!SendControl
  BY <1>9 DEF Ssh!SendControl
<1>10. CASE Ssh!SendFails
  BY <1>10 DEF Ssh!SendFails, Ssh!Finish, Ssh!AfterShell
<1>11. CASE Ssh!Read
  BY <1>11 DEF Ssh!Read, Ssh!Finish, Ssh!AfterShell, Ssh!StatusOf, Ssh!Deliver, Ssh!Record
<1>12. CASE UNCHANGED Ssh!vars
  BY <1>12 DEF Ssh!vars
<1> QED
  BY <1>1, <1>2, <1>3, <1>4, <1>5, <1>6, <1>7, <1>8, <1>9, <1>10, <1>11, <1>12 DEF Ssh!Next,
     Ssh!Frontend, Ssh!Handshake, Ssh!Opening, Ssh!Writer, Ssh!Reader, Ssh!Ending, Ssh!Russh,
     Ssh!Server

LEMMA PlainTypedStep ==
  ASSUME PlainTyped, InboxTyped, EventsTyped, DevicesAssumption, [Ssh!Next]_Ssh!vars
  PROVE  PlainTyped'
<1> USE DEF DevicesAssumption, PlainTyped, Ssh!Finals, Ssh!Ends, Ssh!None, Ssh!link, Ssh!control
<1>1. CASE Ssh!WriteStdin \/ Ssh!ResizePty \/ Ssh!Track \/ Ssh!StopHandshake \/ Ssh!EstablishFails
  BY <1>1 DEF Ssh!WriteStdin, Ssh!ResizePty, Ssh!Track, Ssh!StopHandshake, Ssh!Finish,
     Ssh!EstablishFails
<1>2. CASE Ssh!Established \/ Ssh!OpenShell \/ Ssh!OpenShellFails \/ Ssh!TakeControl \/ Ssh!SendControl
  BY <1>2 DEF Ssh!Established, Ssh!OpenShell, Ssh!OpenShellFails, Ssh!Finish, Ssh!TakeControl,
     Ssh!SendControl
<1>3. CASE Ssh!SendFails \/ Ssh!ReadEnd \/ Ssh!StopShell \/ Ssh!RusshReads \/ Ssh!RusshDelivers
  BY <1>3 DEF Ssh!SendFails, Ssh!Finish, Ssh!AfterShell, Ssh!ReadEnd, Ssh!StopShell,
     Ssh!RusshReads, Ssh!Talking, Ssh!RusshDelivers
<1>4. CASE Ssh!Connect
  BY <1>4 DEF Ssh!Connect, Ssh!Recorder
<1>5. CASE Ssh!ResolveFails
  BY <1>5 DEF Ssh!ResolveFails, Ssh!Recorder
<1>6. CASE Ssh!Spawn
  BY <1>6 DEF Ssh!Spawn
<1>7. CASE Ssh!Disconnect
  BY <1>7 DEF Ssh!Disconnect
<1>8. CASE Ssh!ServerPrints
  BY <1>8 DEF Ssh!ServerPrints, Ssh!Talking
<1>9. CASE Ssh!ServerEnds
  BY <1>9 DEF Ssh!ServerEnds, Ssh!Talking
<1>10. CASE Ssh!Report
  BY <1>10 DEF Ssh!Report, Ssh!Recorder
<1>11. CASE Ssh!CloseChannel
  BY <1>11 DEF Ssh!CloseChannel
<1>12. CASE Ssh!CloseConnection
  <2>1. alive' \in BOOLEAN /\ stop' \in BOOLEAN /\ listed' \in BOOLEAN /\ stalled' \in BOOLEAN
    BY <1>12, Zenon DEF Ssh!CloseConnection
  <2>2. UNCHANGED <<serverEnd, exitCode, result, output, sent>> /\ phase' \in {phase, "over"}
    BY <1>12 DEF Ssh!CloseConnection
  <2> QED
    BY <2>1, <2>2
<1>13. CASE Ssh!Unlist
  <2>1. listed' \in BOOLEAN /\ stop' \in BOOLEAN /\ stalled' \in BOOLEAN /\ alive' \in BOOLEAN
    BY <1>13, Zenon DEF Ssh!Unlist
  <2>2. UNCHANGED <<serverEnd, exitCode, result, output, sent>> /\ phase' \in {phase, "over"}
    BY <1>13 DEF Ssh!Unlist
  <2> QED
    BY <2>1, <2>2
<1>14. CASE Ssh!LetOutputGo
  BY <1>14 DEF Ssh!LetOutputGo
<1>15. CASE Ssh!StartRecording
  BY <1>15 DEF Ssh!StartRecording, Ssh!FetchRecorder, Ssh!OpenRecording, Ssh!Recorder
<1>16. CASE Ssh!StopRecording
  BY <1>16 DEF Ssh!StopRecording, Ssh!Recorder
<1>17. CASE Ssh!ServerStalls
  BY <1>17 DEF Ssh!ServerStalls, Ssh!Talking
<1>18. CASE Ssh!ConnectionDrops
  <2>1. alive' \in BOOLEAN /\ stop' \in BOOLEAN /\ listed' \in BOOLEAN /\ stalled' \in BOOLEAN
    BY <1>18, Zenon DEF Ssh!ConnectionDrops
  <2>2. UNCHANGED <<serverEnd, exitCode, result, output, sent>> /\ phase' \in {phase, "over"}
    BY <1>18 DEF Ssh!ConnectionDrops
  <2> QED
    BY <2>1, <2>2
<1>19. CASE Ssh!Read
  <2>1. inbox # <<>> => Head(inbox) \in {"data", "code0", "failed", "close"}
    BY TailFacts DEF InboxTyped, Ssh!Msgs
  <2> QED
    BY <1>19, <2>1 DEF Ssh!Read, Ssh!Finish, Ssh!AfterShell, Ssh!StatusOf, Ssh!Deliver, Ssh!Record
<1>20. CASE UNCHANGED Ssh!vars
  BY <1>20 DEF Ssh!vars
<1> QED
  BY <1>1, <1>2, <1>3, <1>4, <1>5, <1>6, <1>7, <1>8, <1>9, <1>10, <1>11, <1>12, <1>13, <1>14,
     <1>15, <1>16, <1>17, <1>18, <1>19, <1>20 DEF Ssh!Next, Ssh!Frontend, Ssh!Handshake,
     Ssh!Opening, Ssh!Writer, Ssh!Reader, Ssh!Ending, Ssh!Russh, Ssh!Server

LEMMA RecordedStep ==
  ASSUME PlainTyped, Recorded, DevicesAssumption, [Ssh!Next]_Ssh!vars
  PROVE  Recorded'
<1> USE DEF Recorded, Ssh!EndLetsGo, Ssh!link, Ssh!control, PlainTyped
<1>1. CASE Ssh!WriteStdin \/ Ssh!ResizePty \/ Ssh!Disconnect \/ Ssh!Track \/ Ssh!StopHandshake
  BY <1>1 DEF Ssh!WriteStdin, Ssh!ResizePty, Ssh!Disconnect, Ssh!Track, Ssh!StopHandshake,
     Ssh!Finish
<1>2. CASE Ssh!EstablishFails \/ Ssh!Established \/ Ssh!OpenShell \/ Ssh!OpenShellFails \/ Ssh!TakeControl
  BY <1>2 DEF Ssh!EstablishFails, Ssh!Finish, Ssh!Established, Ssh!OpenShell,
     Ssh!OpenShellFails, Ssh!TakeControl
<1>3. CASE Ssh!SendControl \/ Ssh!SendFails \/ Ssh!ReadEnd \/ Ssh!RusshReads \/ Ssh!RusshDelivers
  BY <1>3 DEF Ssh!SendControl, Ssh!SendFails, Ssh!Finish, Ssh!AfterShell, Ssh!ReadEnd,
     Ssh!RusshReads, Ssh!Talking, Ssh!RusshDelivers
<1>4. CASE Ssh!ServerPrints \/ Ssh!ServerEnds \/ Ssh!ServerStalls \/ Ssh!ConnectionDrops
  BY <1>4 DEF Ssh!ServerPrints, Ssh!Talking, Ssh!ServerEnds, Ssh!ServerStalls, Ssh!ConnectionDrops
<1>5. CASE Ssh!Connect
  BY <1>5 DEF Ssh!Connect, Ssh!Recorder
<1>6. CASE Ssh!ResolveFails
  BY <1>6 DEF Ssh!ResolveFails, Ssh!Recorder
<1>7. CASE Ssh!StartRecording
  <2>1. CASE Ssh!FetchRecorder
    BY <2>1 DEF Ssh!FetchRecorder
  <2>2. CASE Ssh!OpenRecording
    <3>1. recording.starting /\ UNCHANGED <<phase, listed, output>>
      BY <2>2 DEF Ssh!OpenRecording
    <3>2. CASE recording' = [recording EXCEPT !.starting = FALSE]
      BY <3>1, <3>2
    <3>3. CASE recording' = [Ssh!Recorder(recording.known, Ssh!InUse) EXCEPT !.starting = FALSE]
      BY <3>1, <3>3 DEF Ssh!Recorder, Ssh!InUse
    <3> QED
      BY <2>2, <3>2, <3>3 DEF Ssh!OpenRecording
  <2> QED
    BY <1>7, <2>1, <2>2 DEF Ssh!StartRecording
<1>8. CASE Ssh!StopRecording
  BY <1>8 DEF Ssh!StopRecording, Ssh!Recorder
<1>9. CASE Ssh!Report
  BY <1>9 DEF Ssh!Report, Ssh!Recorder
<1>10. CASE Ssh!Read
  BY <1>10 DEF Ssh!Read, Ssh!Finish, Ssh!AfterShell, Ssh!StatusOf, Ssh!Deliver, Ssh!Record
<1>11. CASE Ssh!Spawn
  BY <1>11 DEF Ssh!Spawn
<1>12. CASE Ssh!LetOutputGo
  BY <1>12 DEF Ssh!LetOutputGo
<1>13. CASE Ssh!Unlist
  BY <1>13 DEF Ssh!Unlist, Ssh!Recorder
<1>14. CASE Ssh!StopShell
  BY <1>14 DEF Ssh!StopShell, Ssh!Finish
<1>15. CASE Ssh!CloseChannel
  BY <1>15 DEF Ssh!CloseChannel
<1>16. CASE Ssh!CloseConnection
  BY <1>16 DEF Ssh!CloseConnection
<1>17. CASE UNCHANGED Ssh!vars
  BY <1>17 DEF Ssh!vars
<1> QED
  BY <1>1, <1>2, <1>3, <1>4, <1>5, <1>6, <1>7, <1>8, <1>9, <1>10, <1>11, <1>12, <1>13, <1>14,
     <1>15, <1>16, <1>17 DEF Ssh!Next, Ssh!Frontend, Ssh!Handshake, Ssh!Opening, Ssh!Writer,
     Ssh!Reader, Ssh!Ending, Ssh!Russh, Ssh!Server

LEMMA SizeStep ==
  ASSUME QueueTyped, SizesTyped, SizeUnderWay, DevicesAssumption, [Ssh!Next]_Ssh!vars
  PROVE  SizeUnderWay'
<1> USE DEF QueueTyped, SizesTyped, Messages, SizeUnderWay, InQueue, PastQueue, Sending, Ssh!link, Ssh!control, Ssh!None
<1>1. CASE Ssh!Connect \/ Ssh!ResolveFails \/ Ssh!Spawn \/ Ssh!Disconnect \/ Ssh!StartRecording
  BY <1>1 DEF Ssh!Connect, Ssh!Recorder, Ssh!ResolveFails, Ssh!Spawn, Ssh!Disconnect,
     Ssh!StartRecording, Ssh!FetchRecorder, Ssh!OpenRecording
<1>2. CASE Ssh!StopRecording \/ Ssh!LetOutputGo \/ Ssh!StopHandshake \/ Ssh!EstablishFails \/ Ssh!Established
  BY <1>2 DEF Ssh!StopRecording, Ssh!Recorder, Ssh!LetOutputGo, Ssh!StopHandshake, Ssh!Finish,
     Ssh!EstablishFails, Ssh!Established
<1>3. CASE Ssh!OpenShell \/ Ssh!OpenShellFails \/ Ssh!ReadEnd \/ Ssh!StopShell \/ Ssh!CloseChannel
  BY <1>3 DEF Ssh!OpenShell, Ssh!OpenShellFails, Ssh!Finish, Ssh!ReadEnd, Ssh!AfterShell,
     Ssh!StopShell, Ssh!CloseChannel
<1>4. CASE Ssh!CloseConnection \/ Ssh!Report \/ Ssh!RusshReads \/ Ssh!RusshDelivers \/ Ssh!ServerPrints
  BY <1>4 DEF Ssh!CloseConnection, Ssh!Report, Ssh!Recorder, Ssh!RusshReads, Ssh!Talking,
     Ssh!RusshDelivers, Ssh!ServerPrints
<1>5. CASE Ssh!ServerEnds \/ Ssh!ServerStalls \/ Ssh!ConnectionDrops
  BY <1>5 DEF Ssh!ServerEnds, Ssh!Talking, Ssh!ServerStalls, Ssh!ConnectionDrops
<1>6. CASE Ssh!WriteStdin
  <2>1. /\ DOMAIN queue = 1 .. Len(queue) /\ DOMAIN queue' = 1 .. (Len(queue) + 1) /\ Len(queue) \in Nat
        /\ \A i \in DOMAIN queue : queue'[i] = queue[i]
        /\ queue'[Len(queue) + 1] = "keys" /\ "keys" \notin Sizes
    BY <1>6, AppendFacts DEF Ssh!WriteStdin, DevicesAssumption
  <2>2. CASE InQueue
    <3>1. PICK i \in DOMAIN queue :
            queue[i] = asked /\ \A j \in DOMAIN queue : j > i => queue[j] \notin Sizes
      BY <2>2
    <3>2. asked' = asked
      BY <1>6 DEF Ssh!WriteStdin, DevicesAssumption
    <3>3. i \in DOMAIN queue' /\ queue'[i] = asked' /\ \A j \in DOMAIN queue' : j > i => queue'[j] \notin Sizes
      BY <2>1, <3>1, <3>2
    <3> QED
      BY <3>3
  <2>3. CASE PastQueue
    BY <1>6, <2>1, <2>3 DEF Ssh!WriteStdin, DevicesAssumption
  <2> QED
    BY <1>6, <2>2, <2>3 DEF Ssh!WriteStdin, DevicesAssumption
<1>7. CASE Ssh!ResizePty
  <2>1. /\ DOMAIN queue' = 1 .. (Len(queue) + 1) /\ Len(queue) \in Nat
        /\ queue'[Len(queue) + 1] = asked'
    BY <1>7, AppendFacts DEF Ssh!ResizePty
  <2>2. InQueue'
    BY <2>1
  <2> QED
    BY <2>2
<1>8. CASE Ssh!Track
  <2>1. /\ DOMAIN queue = 1 .. Len(queue) /\ DOMAIN queue' = 1 .. (Len(queue) - 1)
        /\ Len(queue) \in Nat \ {0} /\ Head(queue) = queue[1]
        /\ \A i \in DOMAIN queue' : queue'[i] = queue[i + 1]
    BY <1>8, TailFacts DEF Ssh!Track
  <2>2. CASE InQueue
    <3>1. PICK i \in DOMAIN queue :
            queue[i] = asked /\ \A j \in DOMAIN queue : j > i => queue[j] \notin Sizes
      BY <2>2
    <3>2. CASE i = 1
      <4>1. \A j \in DOMAIN queue' : queue'[j] \notin Sizes
        BY <2>1, <3>1, <3>2
      <4> QED
        BY <1>8, <2>1, <3>1, <3>2, <4>1 DEF Ssh!Track
    <3>3. CASE i > 1
      <4>1. i - 1 \in DOMAIN queue' /\ queue'[i - 1] = asked'
        BY <1>8, <2>1, <3>1, <3>3 DEF Ssh!Track
      <4>2. \A j \in DOMAIN queue' : j > i - 1 => queue'[j] \notin Sizes
        BY <2>1, <3>1, <3>3
      <4> QED
        BY <4>1, <4>2
    <3> QED
      BY <2>1, <3>2, <3>3
  <2>3. CASE PastQueue
    <3>0. \A i \in DOMAIN queue : queue[i] \notin Sizes
      BY <2>3
    <3>1. queue[1] \notin Sizes /\ \A j \in DOMAIN queue' : queue'[j] \notin Sizes
      <4>1. \A j \in 1 .. (Len(queue) - 1) : j + 1 \in 1 .. Len(queue)
        BY <2>1
      <4> QED
        BY <2>1, <3>0, <4>1
    <3> QED
      BY <1>8, <2>1, <2>3, <3>1 DEF Ssh!Track
  <2> QED
    BY <1>8, <2>2, <2>3 DEF Ssh!Track
<1>9. CASE Ssh!TakeControl
  <2>1. /\ DOMAIN queue = 1 .. Len(queue) /\ DOMAIN queue' = 1 .. (Len(queue) - 1)
        /\ Len(queue) \in Nat \ {0} /\ Head(queue) = queue[1]
        /\ \A i \in DOMAIN queue' : queue'[i] = queue[i + 1]
    BY <1>9, TailFacts DEF Ssh!TakeControl
  <2>2. CASE InQueue
    <3>1. PICK i \in DOMAIN queue :
            queue[i] = asked /\ \A j \in DOMAIN queue : j > i => queue[j] \notin Sizes
      BY <2>2
    <3>2. CASE i = 1
      <4>1. \A j \in DOMAIN queue' : queue'[j] \notin Sizes
        BY <2>1, <3>1, <3>2
      <4> QED
        BY <1>9, <2>1, <3>1, <3>2, <4>1 DEF Ssh!TakeControl
    <3>3. CASE i > 1
      <4>1. i - 1 \in DOMAIN queue' /\ queue'[i - 1] = asked'
        BY <1>9, <2>1, <3>1, <3>3 DEF Ssh!TakeControl
      <4>2. \A j \in DOMAIN queue' : j > i - 1 => queue'[j] \notin Sizes
        BY <2>1, <3>1, <3>3
      <4> QED
        BY <4>1, <4>2
    <3> QED
      BY <2>1, <3>2, <3>3
  <2>3. CASE PastQueue
    <3>0. \A i \in DOMAIN queue : queue[i] \notin Sizes
      BY <2>3
    <3>1. queue[1] \notin Sizes /\ \A j \in DOMAIN queue' : queue'[j] \notin Sizes
      <4>1. \A j \in 1 .. (Len(queue) - 1) : j + 1 \in 1 .. Len(queue)
        BY <2>1
      <4> QED
        BY <2>1, <3>0, <4>1
    <3> QED
      BY <1>9, <2>1, <2>3, <3>1 DEF Ssh!TakeControl
  <2> QED
    BY <1>9, <2>2, <2>3 DEF Ssh!TakeControl
<1>10. CASE Ssh!SendControl
  BY <1>10 DEF Ssh!SendControl
<1>11. CASE Ssh!SendFails
  BY <1>11 DEF Ssh!SendFails, Ssh!Finish, Ssh!AfterShell
<1>12. CASE Ssh!Read
  BY <1>12 DEF Ssh!Read, Ssh!Finish, Ssh!AfterShell, Ssh!StatusOf, Ssh!Deliver, Ssh!Record
<1>13. CASE Ssh!Unlist
  BY <1>13 DEF Ssh!Unlist
<1>14. CASE UNCHANGED Ssh!vars
  BY <1>14 DEF Ssh!vars
<1> QED
  BY <1>1, <1>2, <1>3, <1>4, <1>5, <1>6, <1>7, <1>8, <1>9, <1>10, <1>11, <1>12, <1>13, <1>14
     DEF Ssh!Next, Ssh!Frontend, Ssh!Handshake, Ssh!Opening, Ssh!Writer, Ssh!Reader, Ssh!Ending,
     Ssh!Russh, Ssh!Server

LEMMA ExitStep ==
  ASSUME WireTyped, InboxTyped, PlainTyped, ExitIsClean, DevicesAssumption, [Ssh!Next]_Ssh!vars
  PROVE  ExitIsClean'
<1> USE DEF WireTyped, InboxTyped, PlainTyped, ExitIsClean, CodesAreTheServers, EndCodes, Ssh!ExitedIsClean, Ssh!link, Ssh!control, Ssh!None, Ssh!Msgs, Ssh!Ends
<1>1. CASE Ssh!Connect \/ Ssh!ResolveFails \/ Ssh!Spawn \/ Ssh!WriteStdin \/ Ssh!ResizePty
  BY <1>1 DEF Ssh!Connect, Ssh!Recorder, Ssh!ResolveFails, Ssh!Spawn, Ssh!WriteStdin, Ssh!ResizePty
<1>2. CASE Ssh!Disconnect \/ Ssh!StartRecording \/ Ssh!StopRecording \/ Ssh!LetOutputGo \/ Ssh!Track
  BY <1>2 DEF Ssh!Disconnect, Ssh!StartRecording, Ssh!FetchRecorder, Ssh!OpenRecording,
     Ssh!Recorder, Ssh!StopRecording, Ssh!LetOutputGo, Ssh!Track
<1>3. CASE Ssh!StopHandshake \/ Ssh!EstablishFails \/ Ssh!Established \/ Ssh!OpenShell \/ Ssh!OpenShellFails
  BY <1>3 DEF Ssh!StopHandshake, Ssh!Finish, Ssh!EstablishFails, Ssh!Established, Ssh!OpenShell,
     Ssh!OpenShellFails
<1>4. CASE Ssh!TakeControl \/ Ssh!SendControl \/ Ssh!SendFails \/ Ssh!ReadEnd \/ Ssh!StopShell
  BY <1>4 DEF Ssh!TakeControl, Ssh!SendControl, Ssh!SendFails, Ssh!Finish, Ssh!AfterShell,
     Ssh!ReadEnd, Ssh!StopShell
<1>5. CASE Ssh!CloseConnection \/ Ssh!Report \/ Ssh!Unlist \/ Ssh!ServerStalls \/ Ssh!ConnectionDrops
  BY <1>5 DEF Ssh!CloseConnection, Ssh!Report, Ssh!Recorder, Ssh!Unlist, Ssh!ServerStalls,
     Ssh!Talking, Ssh!ConnectionDrops
<1>6. CASE Ssh!Read
  BY <1>6 DEF Ssh!Read, Ssh!Finish, Ssh!AfterShell, Ssh!StatusOf, Ssh!Deliver, Ssh!Record
<1>7. CASE Ssh!CloseChannel
  <2>1. inbox' = inbox \/ (inbox # <<>> /\ inbox' = Tail(inbox))
    BY <1>7 DEF Ssh!CloseChannel
  <2>2. inbox # <<>> => \A i \in DOMAIN Tail(inbox) : i + 1 \in DOMAIN inbox /\ Tail(inbox)[i] = inbox[i + 1]
    BY ONLY InboxTyped, TailFacts DEF InboxTyped
  <2>3. \A i \in DOMAIN inbox' : inbox'[i] \in EndCodes => serverEnd = inbox'[i]
    BY ONLY ExitIsClean, <2>1, <2>2 DEF ExitIsClean, CodesAreTheServers
  <2> QED
    BY <1>7, <2>3 DEF Ssh!CloseChannel
<1>8. CASE Ssh!RusshReads
  BY <1>8 DEF Ssh!RusshReads, Ssh!Talking
<1>9. CASE Ssh!RusshDelivers
  BY <1>9 DEF Ssh!RusshDelivers
<1>10. CASE Ssh!ServerPrints
  BY <1>10 DEF Ssh!ServerPrints, Ssh!Talking
<1>11. CASE Ssh!ServerEnds
  BY <1>11 DEF Ssh!ServerEnds, Ssh!Talking
<1>12. CASE UNCHANGED Ssh!vars
  BY <1>12 DEF Ssh!vars
<1> QED
  BY <1>1, <1>2, <1>3, <1>4, <1>5, <1>6, <1>7, <1>8, <1>9, <1>10, <1>11, <1>12 DEF Ssh!Next,
     Ssh!Frontend, Ssh!Handshake, Ssh!Opening, Ssh!Writer, Ssh!Reader, Ssh!Ending, Ssh!Russh,
     Ssh!Server

LEMMA SessionInit ==
  ASSUME Ssh!Init, DevicesAssumption
  PROVE  SessionInv
<1> USE DEF Ssh!Init, DevicesAssumption, Ssh!None
<1>1. queue = <<>> /\ wire = <<>> /\ inbox = <<>> /\ events = <<>>
  OBVIOUS
<1>2. QueueTyped /\ InboxTyped /\ WireTyped
  BY <1>1 DEF QueueTyped, InboxTyped, WireTyped
<1>3. EventsTyped
  BY <1>1 DEF EventsTyped
<1>4. SizesTyped
  BY DEF SizesTyped
<1>8. stop \in BOOLEAN /\ listed \in BOOLEAN /\ stalled \in BOOLEAN /\ alive \in BOOLEAN
  OBVIOUS
<1>9. PlainTyped
  BY <1>8 DEF PlainTyped
<1>5. SizeUnderWay
  BY <1>1 DEF SizeUnderWay, PastQueue, Sending
<1>6. ExitIsClean
  BY <1>1 DEF ExitIsClean, CodesAreTheServers, EndCodes, Ssh!ExitedIsClean
<1>7. Recorded
  BY DEF Recorded, Ssh!EndLetsGo
<1> QED
  BY <1>2, <1>3, <1>4, <1>5, <1>6, <1>7, <1>9 DEF SessionInv, SessionTypes

LEMMA SessionStep ==
  ASSUME SessionInv, DevicesAssumption, [Ssh!Next]_Ssh!vars
  PROVE  SessionInv'
BY QueueTypedStep, WireTypedStep, InboxTypedStep, EventsTypedStep, SizesTypedStep,
   PlainTypedStep, RecordedStep, SizeStep, ExitStep DEF SessionInv, SessionTypes

(* ------------------------------- local shells ----------------------------- *)

\* The thread that may kill the child is the one that waits for it, and it is
\* over once it did: while it waits, the pid is the child's own.
ReaperOwnsChild == reaper = "waiting" => child \in {"running", "dead"}

\* The threads exist from the opening on, which happens once, and are let go at
\* the end.
NoThreadsYet ==
  phase \in {"idle", "opening"} => child = Local!None /\ reaper = Local!None /\ result = Local!None
TornIsOver == torn => phase \in {"over", "reported"}

\* The shell exits once.
CodeIsFinal == code # Local!None => child \in {"dead", "reaped"}

\* What the reaper reports is how the child ended: its own code, or a kill of
\* a session that is already over; or that it could not read it.
ReportIsTrue ==
  done # Local!None =>
    \/ child = "reaped" /\ (done = code \/ torn)
    \/ reaper = "gaveup" /\ done = "failed"

\* The status is what the shell's code says of it, except that a session whose
\* writer is gone counts as ended too; any other end was asked for, or an error.
ExitIsTold == result = "exited" => code = "zero" \/ writer = "ended"

QueueOK == queue \in Seq({"keys", "resize", "disconnect"})

ShellInv ==
  /\ QueueOK
  /\ ReaperOwnsChild /\ NoThreadsYet /\ TornIsOver
  /\ CodeIsFinal /\ ReportIsTrue /\ ExitIsTold
  /\ Local!NeverSignalsReaped

LEMMA ShellInit == Local!Init => ShellInv
BY DEF Local!Init, ShellInv, QueueOK, ReaperOwnsChild, NoThreadsYet, TornIsOver, CodeIsFinal,
       ReportIsTrue, ExitIsTold, Local!NeverSignalsReaped, Local!None

LEMMA FrontendStep ==
  ASSUME ShellInv, Local!Spawn \/ Local!Call
  PROVE  ShellInv'
BY DEF ShellInv, QueueOK, ReaperOwnsChild, NoThreadsYet, TornIsOver, CodeIsFinal,
       ReportIsTrue, ExitIsTold, Local!NeverSignalsReaped, Local!Spawn, Local!Call, Local!shell, Local!threads, Local!None

\* The control task only lets go; what is left to do is the reaper's.
LEMMA LocalTaskStep ==
  ASSUME ShellInv, Local!Task
  PROVE  ShellInv'
<1> USE DEF ShellInv, ReaperOwnsChild, NoThreadsYet, TornIsOver, CodeIsFinal,
            ReportIsTrue, ExitIsTold, Local!NeverSignalsReaped, Local!None, Local!shell, Local!threads
<1>1. CASE Local!Opened
  BY <1>1 DEF Local!Opened, QueueOK
<1>2. CASE Local!OpenFails
  BY <1>2 DEF Local!OpenFails, QueueOK
<1>3. CASE Local!Control
  <2>1. QueueOK' /\ Head(queue) \in {"keys", "resize", "disconnect"}
    BY <1>3 DEF Local!Control, QueueOK
  <2>2. CASE Head(queue) = "keys"
    BY <1>3, <2>1, <2>2 DEF Local!Control, Local!Type, Local!Teardown
  <2>3. CASE Head(queue) = "resize"
    BY <1>3, <2>1, <2>3 DEF Local!Control
  <2>4. CASE Head(queue) = "disconnect"
    BY <1>3, <2>1, <2>4 DEF Local!Control, Local!Teardown
  <2> QED
    BY <2>1, <2>2, <2>3, <2>4
<1>4. CASE Local!ShellDone
  BY <1>4 DEF Local!ShellDone, Local!Teardown, QueueOK
<1>5. CASE Local!Report
  BY <1>5 DEF Local!Report, QueueOK
<1> QED
  BY <1>1, <1>2, <1>3, <1>4, <1>5 DEF Local!Task

LEMMA ThreadsStep ==
  ASSUME ShellInv, Local!Reader \/ Local!Writer
  PROVE  ShellInv'
<1> USE DEF ShellInv, QueueOK, ReaperOwnsChild, NoThreadsYet, TornIsOver, CodeIsFinal,
            ReportIsTrue, ExitIsTold, Local!NeverSignalsReaped, Local!shell
<1>1. CASE Local!Reader
  BY <1>1 DEF Local!Reader, Local!ReaderChecks, Local!ReaderPolls, Local!Poll
<1>2. CASE Local!Writer
  BY <1>2 DEF Local!Writer, Local!WriterWrites, Local!WriterLetsGo
<1> QED
  BY <1>1, <1>2

\* It reaps or kills the child it waits for, once.
LEMMA ReaperStep ==
  ASSUME ShellInv, Local!Reaper
  PROVE  ShellInv'
<1> USE DEF ShellInv, QueueOK, ReaperOwnsChild, NoThreadsYet, TornIsOver, CodeIsFinal,
            ReportIsTrue, ExitIsTold, Local!NeverSignalsReaped, Local!None
<1>1. CASE Local!ReaperReaps
  BY <1>1 DEF Local!ReaperReaps
<1>2. CASE Local!ReaperKills
  BY <1>2 DEF Local!ReaperKills
<1>3. CASE Local!ReaperGivesUp
  BY <1>3 DEF Local!ReaperGivesUp, Local!shell
<1> QED
  BY <1>1, <1>2, <1>3 DEF Local!Reaper

\* However the shell and its jobs behave.
LEMMA ShellStep ==
  ASSUME ShellInv, Local!Shell
  PROVE  ShellInv'
<1> USE DEF ShellInv, QueueOK, ReaperOwnsChild, NoThreadsYet, TornIsOver, CodeIsFinal,
            ReportIsTrue, ExitIsTold, Local!NeverSignalsReaped, Local!threads, Local!None
<1>1. CASE Local!Exits
  BY <1>1 DEF Local!Exits
<1>2. CASE Local!Prints \/ Local!LeavesJob \/ Local!StopsReading
  BY <1>2 DEF Local!Prints, Local!LeavesJob, Local!StopsReading
<1> QED
  BY <1>1, <1>2 DEF Local!Shell

\* What is counted: the calls that wait, in the queue or with the writer, and
\* the output not read yet.
CallsCounted ==
  /\ QueueOK /\ calls \in 0 .. MaxCalls /\ pending \in Nat
  /\ Len(queue) <= calls /\ pending + Len(queue) <= calls + 1
  /\ phase \in {"idle", "opening"} => pending = 0
OutputCounted == prints \in 0 .. MaxOutput /\ printed \in 0 .. prints
LoopTyped ==
  /\ phase \in {"idle", "opening", "running", "over", "reported"}
  /\ result \in {Local!None, "exited", "disconnected", "error"}
  /\ result # Local!None <=> phase \in {"over", "reported"}
  /\ listed \in BOOLEAN /\ torn \in BOOLEAN /\ misfired \in BOOLEAN
ProcessTyped ==
  /\ child \in {Local!None, "running", "dead", "reaped"}
  /\ code \in {Local!None, "zero", "failed"}
  /\ job \in BOOLEAN /\ full \in BOOLEAN
  /\ reader \in {Local!None, "loop", "polling", "ended"}
  /\ writer \in {Local!None, "idle", "ended"} /\ reaper \in {Local!None, "waiting", "ended", "gaveup"}
  /\ done \in {Local!None, "zero", "failed"}

LEMMA CallsCountedStep ==
  ASSUME CallsCounted, DevicesAssumption, [Local!Next]_Local!vars
  PROVE  CallsCounted'
<1> USE DEF DevicesAssumption, CallsCounted, QueueOK, Local!shell, Local!threads
<1>1. CASE Local!Spawn \/ Local!OpenFails \/ Local!ShellDone \/ Local!ReaderChecks \/ Local!ReaderPolls
  BY <1>1 DEF Local!Spawn, Local!OpenFails, Local!ShellDone, Local!Teardown, Local!ReaderChecks,
     Local!ReaderPolls, Local!Poll
<1>2. CASE Local!WriterLetsGo \/ Local!ReaperReaps \/ Local!ReaperKills \/ Local!ReaperGivesUp \/ Local!Prints \/ Local!Exits
  BY <1>2 DEF Local!WriterLetsGo, Local!ReaperReaps, Local!ReaperKills, Local!ReaperGivesUp,
     Local!shell, Local!Prints, Local!SlaveOpen, Local!Exits
<1>3. CASE Local!LeavesJob \/ Local!StopsReading
  BY <1>3 DEF Local!LeavesJob, Local!StopsReading
<1>4. CASE Local!Call
  BY <1>4 DEF Local!Call
<1>5. CASE Local!Opened
  BY <1>5 DEF Local!Opened
<1>6. CASE Local!Report
  BY <1>6 DEF Local!Report
<1>7. CASE Local!WriterWrites
  BY <1>7 DEF Local!WriterWrites, Local!SlaveOpen
<1>8. CASE Local!Control
  <2>1. queue \in Seq({"keys", "resize", "disconnect"}) /\ queue # <<>> /\ queue' = Tail(queue)
    BY <1>8 DEF Local!Control
  <2>2. /\ queue' \in Seq({"keys", "resize", "disconnect"}) /\ Len(queue') = Len(queue) - 1
        /\ Len(queue) \in Nat \ {0}
    BY <2>1
  <2>3. pending' \in {pending, pending + 1} /\ calls' = calls
        /\ phase = "running" /\ phase' \in {"running", "over"}
    <3>1. Head(queue) \in {"keys", "resize", "disconnect"}
      BY <2>1
    <3> QED
      BY <1>8, <3>1 DEF Local!Control, Local!Type, Local!Teardown
  <2> QED
    BY <2>2, <2>3
<1>9. CASE UNCHANGED Local!vars
  BY <1>9 DEF Local!vars
<1> QED
  BY <1>1, <1>2, <1>3, <1>4, <1>5, <1>6, <1>7, <1>8, <1>9 DEF Local!Next, Local!Task,
     Local!Reader, Local!Writer, Local!Reaper, Local!Shell

LEMMA OutputCountedStep ==
  ASSUME OutputCounted, DevicesAssumption, [Local!Next]_Local!vars
  PROVE  OutputCounted'
<1> USE DEF DevicesAssumption, OutputCounted, Local!shell, Local!threads
<1>1. CASE Local!Spawn \/ Local!Call \/ Local!Opened \/ Local!OpenFails \/ Local!ShellDone
  BY <1>1 DEF Local!Spawn, Local!Call, Local!Opened, Local!OpenFails, Local!ShellDone,
     Local!Teardown
<1>2. CASE Local!Report \/ Local!ReaderChecks \/ Local!WriterWrites \/ Local!WriterLetsGo \/ Local!ReaperReaps
  BY <1>2 DEF Local!Report, Local!ReaderChecks, Local!WriterWrites, Local!SlaveOpen,
     Local!WriterLetsGo, Local!ReaperReaps
<1>3. CASE Local!ReaperKills \/ Local!ReaperGivesUp \/ Local!Exits \/ Local!LeavesJob \/ Local!StopsReading
  BY <1>3 DEF Local!ReaperKills, Local!ReaperGivesUp, Local!shell, Local!Exits, Local!LeavesJob,
     Local!StopsReading
<1>4. CASE Local!ReaderPolls
  BY <1>4 DEF Local!ReaderPolls, Local!Poll
<1>5. CASE Local!Prints
  BY <1>5 DEF Local!Prints, Local!SlaveOpen
<1>6. CASE Local!Control
  BY <1>6 DEF Local!Control, Local!Type, Local!Teardown
<1>7. CASE UNCHANGED Local!vars
  BY <1>7 DEF Local!vars
<1> QED
  BY <1>1, <1>2, <1>3, <1>4, <1>5, <1>6, <1>7 DEF Local!Next, Local!Task, Local!Reader,
     Local!Writer, Local!Reaper, Local!Shell

LEMMA LoopTypedStep ==
  ASSUME LoopTyped, CallsCounted, DevicesAssumption, [Local!Next]_Local!vars
  PROVE  LoopTyped'
<1> USE DEF LoopTyped, Local!shell, Local!threads, Local!None
<1>1. CASE Local!Spawn \/ Local!Call \/ Local!ReaderChecks \/ Local!WriterWrites \/ Local!WriterLetsGo
  BY <1>1 DEF Local!Spawn, Local!Call, Local!ReaderChecks, Local!WriterWrites, Local!SlaveOpen,
     Local!WriterLetsGo
<1>2. CASE Local!Prints \/ Local!Exits \/ Local!LeavesJob \/ Local!StopsReading
  BY <1>2 DEF Local!Prints, Local!SlaveOpen, Local!Exits, Local!LeavesJob, Local!StopsReading
<1>3. CASE Local!Opened
  BY <1>3 DEF Local!Opened
<1>4. CASE Local!OpenFails
  BY <1>4 DEF Local!OpenFails
<1>5. CASE Local!ShellDone
  BY <1>5 DEF Local!ShellDone, Local!Teardown
<1>6. CASE Local!Report
  BY <1>6 DEF Local!Report
<1>7. CASE Local!ReaderPolls
  BY <1>7 DEF Local!ReaderPolls, Local!Poll
<1>8. CASE Local!ReaperReaps
  BY <1>8 DEF Local!ReaperReaps
<1>9. CASE Local!ReaperKills \/ Local!ReaperGivesUp
  BY <1>9 DEF Local!ReaperKills, Local!ReaperGivesUp, Local!shell
<1>10. CASE Local!Control
  <2>1. Head(queue) \in {"keys", "resize", "disconnect"}
    BY <1>10 DEF Local!Control, Local!Type, Local!Teardown, CallsCounted, QueueOK
  <2>2. \/ UNCHANGED <<phase, result, torn, misfired>>
        \/ /\ phase' = "over" /\ result' \in {"exited", "disconnected"}
           /\ torn' = TRUE /\ misfired' = misfired
    BY <1>10, <2>1 DEF Local!Control, Local!Type, Local!Teardown
  <2>3. listed' = listed
    BY <1>10 DEF Local!Control, Local!Type, Local!Teardown
  <2> QED
    BY <2>2, <2>3
<1>11. CASE UNCHANGED Local!vars
  BY <1>11 DEF Local!vars
<1> QED
  BY <1>1, <1>2, <1>3, <1>4, <1>5, <1>6, <1>7, <1>8, <1>9, <1>10, <1>11 DEF Local!Next,
     Local!Task, Local!Reader, Local!Writer, Local!Reaper, Local!Shell

LEMMA ProcessTypedStep ==
  ASSUME ProcessTyped, CallsCounted, DevicesAssumption, [Local!Next]_Local!vars
  PROVE  ProcessTyped'
<1> USE DEF ProcessTyped, Local!shell, Local!threads, Local!None
<1>1. CASE Local!Spawn \/ Local!Call \/ Local!ReaderChecks \/ Local!WriterWrites \/ Local!WriterLetsGo
  BY <1>1 DEF Local!Spawn, Local!Call, Local!ReaderChecks, Local!WriterWrites, Local!SlaveOpen,
     Local!WriterLetsGo
<1>2. CASE Local!Opened
  BY <1>2 DEF Local!Opened
<1>3. CASE Local!OpenFails
  BY <1>3 DEF Local!OpenFails
<1>4. CASE Local!ShellDone
  BY <1>4 DEF Local!ShellDone, Local!Teardown
<1>5. CASE Local!Report
  BY <1>5 DEF Local!Report
<1>6. CASE Local!ReaderPolls
  BY <1>6 DEF Local!ReaderPolls, Local!Poll
<1>7. CASE Local!ReaperReaps
  BY <1>7 DEF Local!ReaperReaps
<1>8. CASE Local!ReaperKills \/ Local!ReaperGivesUp
  BY <1>8 DEF Local!ReaperKills, Local!ReaperGivesUp, Local!shell
<1>9. CASE Local!Control
  BY <1>9 DEF Local!Control, Local!Type, Local!Teardown
<1>10. CASE Local!Prints
  BY <1>10 DEF Local!Prints, Local!SlaveOpen
<1>11. CASE Local!Exits
  BY <1>11 DEF Local!Exits
<1>12. CASE Local!LeavesJob
  BY <1>12 DEF Local!LeavesJob
<1>13. CASE Local!StopsReading
  BY <1>13 DEF Local!StopsReading
<1>14. CASE UNCHANGED Local!vars
  BY <1>14 DEF Local!vars
<1> QED
  BY <1>1, <1>2, <1>3, <1>4, <1>5, <1>6, <1>7, <1>8, <1>9, <1>10, <1>11, <1>12, <1>13, <1>14
     DEF Local!Next, Local!Task, Local!Reader, Local!Writer, Local!Reaper, Local!Shell

SessionShellInv == ShellInv /\ CallsCounted /\ OutputCounted /\ LoopTyped /\ ProcessTyped

LEMMA SessionShellInit ==
  ASSUME Local!Init, DevicesAssumption
  PROVE  SessionShellInv
<1>1. queue \in Seq({"keys", "resize", "disconnect"}) /\ Len(queue) = 0
  BY DEF Local!Init
<1>2. CallsCounted /\ OutputCounted
  BY <1>1 DEF Local!Init, CallsCounted, OutputCounted, QueueOK, DevicesAssumption
<1>3. LoopTyped
  BY DEF Local!Init, LoopTyped, Local!None
<1>4. ProcessTyped
  BY DEF Local!Init, ProcessTyped, Local!None
<1> QED
  BY <1>2, <1>3, <1>4, ShellInit DEF SessionShellInv

LEMMA SessionShellStep ==
  ASSUME SessionShellInv, DevicesAssumption, [Local!Next]_Local!vars
  PROVE  SessionShellInv'
<1>1. ShellInv'
  <2>1. CASE UNCHANGED Local!vars
    BY <2>1 DEF SessionShellInv, Local!vars, Local!shell, Local!threads, ShellInv, QueueOK,
                ReaperOwnsChild, NoThreadsYet, TornIsOver, CodeIsFinal, ReportIsTrue,
                ExitIsTold, Local!NeverSignalsReaped
  <2>2. CASE Local!Next
    BY <2>2, FrontendStep, LocalTaskStep, ThreadsStep, ReaperStep, ShellStep
    DEF Local!Next, SessionShellInv
  <2> QED
    BY <2>1, <2>2
<1> QED
  BY <1>1, CallsCountedStep, OutputCountedStep, LoopTypedStep, ProcessTypedStep
  DEF SessionShellInv

\* The reaper alone waits for the child or signals it, and what the session says
\* of the shell's end is what became of it (local_shell.rs: reaper, run).
THEOREM ShellInvariant == Local!Spec => []ShellInv
<1>1. ShellInv /\ [Local!Next]_Local!vars => ShellInv'
  <2> SUFFICES ASSUME ShellInv, [Local!Next]_Local!vars PROVE ShellInv'
    OBVIOUS
  <2>1. CASE UNCHANGED Local!vars
    BY <2>1 DEF Local!vars, Local!shell, Local!threads, ShellInv, QueueOK, ReaperOwnsChild,
       NoThreadsYet,
                TornIsOver, CodeIsFinal, ReportIsTrue, ExitIsTold, Local!NeverSignalsReaped
  <2>2. CASE Local!Next
    BY <2>2, FrontendStep, LocalTaskStep, ThreadsStep, ReaperStep, ShellStep DEF Local!Next
  <2> QED
    BY <2>1, <2>2
<1> QED
  BY <1>1, ShellInit, PTL DEF Local!Spec

\* The shell is never signalled once it was waited for, however it ends, is
\* disconnected from, or leaves jobs behind (reaper).
THEOREM ReapedIsNeverSignalled == Local!Spec => []Local!NeverSignalsReaped
<1>1. ShellInv => Local!NeverSignalsReaped
  BY DEF ShellInv
<1> QED
  BY <1>1, ShellInvariant, PTL

(* ------------------------------- serial sessions -------------------------- *)

\* Writes wait until they are taken, and there is no result before the end.
WaitingCounted == waiting <= writes
NoResultYet == phase \notin {"over", "gone"} => result = "none"
SerialInv == Serial!TypeOK /\ WaitingCounted /\ NoResultYet

LEMMA SerialStep ==
  ASSUME SerialInv, DevicesAssumption, [Serial!Next]_Serial!vars
  PROVE  SerialInv'
<1> USE DEF DevicesAssumption, SerialInv, Serial!TypeOK, WaitingCounted, NoResultYet, Serial!device
<1>1. CASE Serial!Spawn
  BY <1>1 DEF Serial!Spawn
<1>2. CASE Serial!WriteStdin
  BY <1>2 DEF Serial!WriteStdin, Serial!Listed
<1>3. CASE Serial!Disconnect
  BY <1>3 DEF Serial!Disconnect, Serial!Listed
<1>4. CASE Serial!Open
  BY <1>4 DEF Serial!Open, Serial!Over
<1>5. CASE Serial!TypeSnippet
  BY <1>5 DEF Serial!TypeSnippet
<1>6. CASE Serial!Pump
  BY <1>6 DEF Serial!Pump, Serial!ReadChunk, Serial!Over
<1>7. CASE Serial!ApplyControl
  BY <1>7 DEF Serial!ApplyControl, Serial!Apply, Serial!WrittenOrOver, Serial!Over
<1>8. CASE Serial!Report
  BY <1>8 DEF Serial!Report
<1>9. CASE Serial!DeviceSends
  BY <1>9 DEF Serial!DeviceSends, Serial!Listed
<1>10. CASE Serial!DeviceChanges
  BY <1>10 DEF Serial!DeviceChanges, Serial!Listed
<1>11. CASE UNCHANGED Serial!vars
  BY <1>11 DEF Serial!vars
<1> QED
  BY <1>1, <1>2, <1>3, <1>4, <1>5, <1>6, <1>7, <1>8, <1>9, <1>10, <1>11 DEF Serial!Next, Serial!Task

LEMMA SerialInit ==
  ASSUME Serial!Init, DevicesAssumption
  PROVE  SerialInv
<1> USE DEF Serial!Init, DevicesAssumption
<1>1. stop \in BOOLEAN /\ ready \in BOOLEAN
  OBVIOUS
<1>2. /\ waiting \in 0 .. MaxWrites /\ writes \in 0 .. MaxWrites /\ waiting <= writes
      /\ incoming \in 0 .. MaxInput /\ shown \in 0 .. MaxInput /\ sentIn \in 0 .. MaxInput
      /\ incoming + shown = sentIn
  OBVIOUS
<1> QED
  BY <1>1, <1>2 DEF SerialInv, Serial!TypeOK, WaitingCounted, NoResultYet

(* ------------------------------- the stores ------------------------------- *)

\* What a file may hold: of the profiles, a default that is saved.
Fits(f) ==
  IF f = "profiles" THEN {p \in Stored!Contents["profiles"] : p.default => p.saved}
  ELSE Stored!Contents[f]
\* What a file holds, but for the version of the profiles.
Same(f, c, d) ==
  IF f = "profiles" THEN [c EXCEPT !.v1 = FALSE] = [d EXCEPT !.v1 = FALSE] ELSE c = d

\* The files and their stores, by what they may hold: only the devices' file is
\* ever damaged.
FilesTyped ==
  /\ mem = [f \in Stored!ConfigFiles |-> mem[f]] /\ disk = [f \in Stored!ConfigFiles |-> disk[f]]
  /\ \A f \in Stored!ConfigFiles :
      mem[f] \in Fits(f) /\ (disk[f] \in Fits(f) \/ (f = "devices" /\ disk[f] = Corrupt))
  /\ behind \in [Stored!ConfigFiles -> {"never", "once", "now"}]

\* A store that isn't behind is as its file; and what a reload has read is, too,
\* unless a write overtook it.
FilesAgree ==
  /\ worker.at \in 0 .. 5
  /\ \A f \in Stored!ConfigFiles :
      /\ behind[f] # "now" => Same(f, mem[f], disk[f])
      /\ Stored!Overtaken(f) => worker.found \in Fits(f) /\ (behind[f] # "now" => worker.found = disk[f])

FilesInv == FilesTyped /\ FilesAgree

\* The files by name, and the order a reload reads them in.
LEMMA FileNames ==
  /\ Stored!ConfigFiles = {"devices", "profiles", "settings", "bookmarks", "commands", "workspace"}
  /\ \A n \in 1 .. 5 : Stored!Reloaded[n] \in Stored!ConfigFiles /\ Stored!Reloaded[n] # "workspace"
  /\ Stored!Reloaded[1] = "devices" /\ Stored!Reloaded[2] = "profiles"
  /\ \A n \in 1 .. 5 : Stored!Reloaded[n] = "commands" => n = 5
  /\ Len(Stored!Reloaded) = 5
<1>1. Len(Stored!Reloaded) = 5 /\ DOMAIN Stored!Reloaded = 1 .. 5
  BY DEF Stored!Reloaded
<1>2. /\ Stored!Reloaded[1] = "devices" /\ Stored!Reloaded[2] = "profiles" /\ Stored!Reloaded[3] = "settings"
      /\ Stored!Reloaded[4] = "bookmarks" /\ Stored!Reloaded[5] = "commands"
  BY DEF Stored!Reloaded
<1> QED
  BY <1>1, <1>2 DEF Stored!ConfigFiles

\* What each of them holds.
LEMMA ContentsOf ==
  /\ Fits("devices") = Stored!Maps(Ids, Devices)
  /\ Fits("profiles") = {p \in [saved : BOOLEAN, panes : SUBSET Ids, default : BOOLEAN, v1 : BOOLEAN] :
                          p.default => p.saved}
  /\ Fits("settings") = 1 .. 2 /\ Fits("bookmarks") = SUBSET Ids /\ Fits("workspace") = 0 .. 2
  /\ Fits("commands") = Stored!Maps(CommandIds, Texts)
BY DEF Fits, Stored!Contents, Stored!FontSizes

\* A store that starts empty is well-formed.
LEMMA EmptyFits ==
  \A f \in Stored!ConfigFiles : Stored!Empty[f] \in Fits(f)
<1>1. <<>> \in Fits("devices") /\ <<>> \in Fits("commands")
  <2>1. <<>> \in [{} -> Devices] /\ <<>> \in [{} -> Texts]
    OBVIOUS
  <2> QED
    BY <2>1, ContentsOf DEF Stored!Maps
<1>2. Stored!NoProfiles \in Fits("profiles")
  BY ContentsOf DEF Stored!NoProfiles
<1> QED
  BY <1>1, <1>2, ContentsOf, FileNames DEF Stored!Empty

\* Persist, then commit: memory is as the disk, but for a read it overtakes.
LEMMA CommitStep ==
  ASSUME FilesInv, NEW f \in Stored!ConfigFiles, NEW c \in Fits(f), Stored!Commit(f, c), UNCHANGED worker
  PROVE  FilesInv'
<1>1. /\ mem' = [g \in Stored!ConfigFiles |-> IF g = f THEN c ELSE mem[g]]
      /\ disk' = [g \in Stored!ConfigFiles |-> IF g = f THEN c ELSE disk[g]]
      /\ \A g \in Stored!ConfigFiles : g # f => behind'[g] = behind[g]
      /\ behind' \in [Stored!ConfigFiles -> {"never", "once", "now"}]
      /\ Stored!Overtaken(f) => behind'[f] = "now"
  BY DEF FilesInv, FilesTyped, Stored!Commit
<1>2. \A g \in Stored!ConfigFiles : Stored!Overtaken(g)' = Stored!Overtaken(g)
  BY DEF Stored!Overtaken
<1>3. FilesTyped'
  <2>1. mem' = [g \in Stored!ConfigFiles |-> mem'[g]] /\ disk' = [g \in Stored!ConfigFiles |-> disk'[g]]
    BY <1>1, Zenon
  <2>2. \A g \in Stored!ConfigFiles :
          mem'[g] \in Fits(g) /\ (disk'[g] \in Fits(g) \/ (g = "devices" /\ disk'[g] = Corrupt))
    BY <1>1 DEF FilesInv, FilesTyped
  <2> QED
    BY <1>1, <2>1, <2>2 DEF FilesTyped
<1>4. FilesAgree'
  BY <1>1, <1>2 DEF FilesInv, FilesAgree, Same
<1> QED
  BY <1>3, <1>4 DEF FilesInv

\* What touches no file, and at most begins to read the next one.
LEMMA QuietFiles ==
  ASSUME FilesInv, UNCHANGED <<disk, mem, behind>>,
         worker' = worker \/ (worker'.at \in 0 .. 5 /\ (worker'.at > 0 => ~worker'.read))
  PROVE  FilesInv'
<1>1. FilesTyped'
  BY DEF FilesInv, FilesTyped
<1>2. \A f \in Stored!ConfigFiles : Stored!Overtaken(f)' => Stored!Overtaken(f) /\ worker' = worker
  BY DEF Stored!Overtaken
<1> QED
  BY <1>1, <1>2 DEF FilesInv, FilesAgree, Same

\* The file being read is one the reload reads.
LEMMA NextFileFacts ==
  ASSUME FilesInv, worker.at > 0, Stored!NextFile
  PROVE  worker'.at \in 0 .. 5 /\ (worker'.at > 0 => ~worker'.read)
BY FileNames DEF FilesInv, FilesAgree, Stored!NextFile

\* Only another instance damages a file, and memory is behind of it then.
LEMMA CorruptIsBehind ==
  ASSUME FilesInv, NEW f \in Stored!ConfigFiles, disk[f] = Corrupt
  PROVE  f = "devices" /\ behind[f] = "now"
<1>1. \A g \in Stored!ConfigFiles : Corrupt \notin Fits(g)
  BY StoresAssumption DEF Fits, Stored!StoresConstants
<1> QED
  BY <1>1 DEF FilesInv, FilesTyped, FilesAgree, Same

\* The read of a reload, which moves a damaged file aside.
LEMMA ReadStep ==
  ASSUME FilesInv, Stored!ReadFile
  PROVE  FilesInv'
<1> DEFINE f == Stored!Reloaded[worker.at]
<1>1. worker.at \in 1 .. 5 /\ f \in Stored!ConfigFiles
  BY FileNames DEF FilesInv, FilesAgree, Stored!ReadFile
<1>2. CASE Stored!NextFile /\ UNCHANGED disk
  BY <1>1, <1>2, NextFileFacts, QuietFiles DEF Stored!ReadFile
<1>3. CASE /\ worker' = [at |-> worker.at, read |-> TRUE,
                         found |-> IF disk[f] = Corrupt THEN Stored!Empty[f] ELSE disk[f]]
           /\ disk' = [disk EXCEPT ![f] = IF @ = Corrupt THEN Stored!Empty[f] ELSE @]
  <2> DEFINE c == IF disk[f] = Corrupt THEN Stored!Empty[f] ELSE disk[f]
  <2>1. c \in Fits(f)
    BY <1>1, EmptyFits DEF FilesInv, FilesTyped
  <2>2. /\ disk' = [g \in Stored!ConfigFiles |-> IF g = f THEN c ELSE disk[g]]
        /\ UNCHANGED <<mem, behind>>
        /\ worker'.at = worker.at /\ worker'.found = c
    BY <1>1, <1>3 DEF FilesInv, FilesTyped, Stored!ReadFile
  <2>3. disk[f] = Corrupt => behind[f] = "now"
    BY <1>1, CorruptIsBehind
  <2>4. \A g \in Stored!ConfigFiles : Stored!Overtaken(g)' => g = f
    BY <2>2 DEF Stored!Overtaken
  <2> HIDE DEF c, f
  <2>5. FilesTyped'
    <3>1. mem' = [g \in Stored!ConfigFiles |-> mem'[g]] /\ disk' = [g \in Stored!ConfigFiles |-> disk'[g]]
      BY <2>2, Zenon DEF FilesInv, FilesTyped
    <3>2. \A g \in Stored!ConfigFiles :
            mem'[g] \in Fits(g) /\ (disk'[g] \in Fits(g) \/ (g = "devices" /\ disk'[g] = Corrupt))
      BY <2>1, <2>2 DEF FilesInv, FilesTyped
    <3> QED
      BY <2>2, <3>1, <3>2 DEF FilesInv, FilesTyped
  <2>6. behind[f] # "now" => c = disk[f]
    BY <2>3 DEF c
  <2>7. FilesAgree'
    <3> SUFFICES ASSUME NEW g \in Stored!ConfigFiles
                 PROVE  /\ behind'[g] # "now" => Same(g, mem'[g], disk'[g])
                        /\ Stored!Overtaken(g)' => worker'.found \in Fits(g)
                                                   /\ (behind'[g] # "now" => worker'.found = disk'[g])
      BY <1>1, <2>2 DEF FilesAgree
    <3> QED
      BY <1>1, <2>1, <2>2, <2>4, <2>6 DEF FilesInv, FilesAgree, Same
  <2> QED
    BY <2>5, <2>7 DEF FilesInv
<1> QED
  BY <1>2, <1>3 DEF Stored!ReadFile

\* What was read takes the place of what is in memory.
LEMMA SwapStep ==
  ASSUME FilesInv, Stored!Swap
  PROVE  FilesInv'
<1> DEFINE f == Stored!Reloaded[worker.at]
<1>1. worker.at \in 1 .. 5 /\ f \in Stored!ConfigFiles /\ Stored!Overtaken(f)
  BY FileNames DEF FilesInv, FilesAgree, Stored!Swap, Stored!Overtaken
<1> HIDE DEF f
<1>2. /\ mem' = [g \in Stored!ConfigFiles |-> IF g = f THEN worker.found ELSE mem[g]]
      /\ disk' = disk
      /\ behind' \in [Stored!ConfigFiles -> {"never", "once", "now"}]
      /\ \A g \in Stored!ConfigFiles : behind'[g] # "now" =>
            behind[g] # "now" \/ (g = f /\ worker.found = disk[f])
      /\ worker'.at \in 0 .. 5 /\ (worker'.at > 0 => ~worker'.read)
  BY <1>1, NextFileFacts DEF FilesInv, FilesTyped, Stored!Swap, f
<1>3. worker.found \in Fits(f) /\ (behind[f] # "now" => worker.found = disk[f])
  BY <1>1 DEF FilesInv, FilesAgree
<1>4. FilesTyped'
  <2>1. mem' = [g \in Stored!ConfigFiles |-> mem'[g]] /\ disk' = [g \in Stored!ConfigFiles |-> disk'[g]]
    BY <1>2, Zenon DEF FilesInv, FilesTyped
  <2>2. \A g \in Stored!ConfigFiles :
          mem'[g] \in Fits(g) /\ (disk'[g] \in Fits(g) \/ (g = "devices" /\ disk'[g] = Corrupt))
    BY <1>2, <1>3 DEF FilesInv, FilesTyped
  <2> QED
    BY <1>2, <2>1, <2>2 DEF FilesTyped
<1>5. FilesAgree'
  BY <1>2, <1>3 DEF FilesInv, FilesAgree, Same, Stored!Overtaken
<1> QED
  BY <1>4, <1>5 DEF FilesInv

\* A launch reads what the disk has, or starts empty where it can't.
LEMMA RestartStep ==
  ASSUME FilesInv, Stored!Restart
  PROVE  FilesInv'
<1>1. PICK unread \in SUBSET {"devices"}, converted \in BOOLEAN :
        /\ behind' = [f \in Stored!ConfigFiles |-> IF f \in unread THEN "now"
                                                   ELSE IF behind[f] = "now" THEN "once" ELSE behind[f]]
        /\ mem' = [f \in Stored!ConfigFiles |-> IF f \in unread \/ disk[f] = Corrupt THEN Stored!Empty[f] ELSE disk[f]]
        /\ disk' = [[f \in Stored!ConfigFiles |-> IF disk[f] = Corrupt THEN Stored!Empty[f] ELSE disk[f]]
                      EXCEPT !["profiles"].v1 = @ /\ ~converted]
        /\ worker' = [at |-> 0]
  BY DEF Stored!Restart
<1> DEFINE kept == [f \in Stored!ConfigFiles |-> IF disk[f] = Corrupt THEN Stored!Empty[f] ELSE disk[f]]
           layout == [kept["profiles"] EXCEPT !.v1 = @ /\ ~converted]
<1>2. \A f \in Stored!ConfigFiles : kept[f] \in Fits(f)
  BY EmptyFits DEF FilesInv, FilesTyped
<1>3. layout \in Fits("profiles") /\ Same("profiles", kept["profiles"], layout)
  <2>1. kept["profiles"] \in Fits("profiles")
    BY <1>2, FileNames
  <2> HIDE DEF kept
  <2> QED
    BY <2>1, ContentsOf DEF Same
<1>4. disk' = [f \in Stored!ConfigFiles |-> IF f = "profiles" THEN layout ELSE kept[f]]
  <2>1. "profiles" \in Stored!ConfigFiles
    BY FileNames
  <2> QED
    BY <1>1, <2>1
<1>5. \A f \in Stored!ConfigFiles : mem'[f] = IF f \in unread THEN Stored!Empty[f] ELSE kept[f]
  BY <1>1
<1>6. mem' = [f \in Stored!ConfigFiles |-> mem'[f]]
  BY <1>1
<1> HIDE DEF kept, layout
<1>7. FilesTyped'
  <2>1. disk' = [f \in Stored!ConfigFiles |-> disk'[f]]
    BY <1>4, Zenon
  <2>2. \A f \in Stored!ConfigFiles : mem'[f] \in Fits(f) /\ disk'[f] \in Fits(f)
    BY <1>2, <1>3, <1>4, <1>5, EmptyFits
  <2>3. behind' \in [Stored!ConfigFiles -> {"never", "once", "now"}]
    BY <1>1 DEF FilesInv, FilesTyped
  <2> QED
    BY <1>6, <2>1, <2>2, <2>3, Zenon DEF FilesTyped
<1>8. FilesAgree'
  <2>1. \A f \in Stored!ConfigFiles : behind'[f] # "now" => Same(f, mem'[f], disk'[f])
    BY <1>1, <1>3, <1>4, <1>5 DEF Same
  <2>2. worker'.at = 0
    BY <1>1
  <2> QED
    BY <2>1, <2>2 DEF FilesAgree, Stored!Overtaken
<1> QED
  BY <1>7, <1>8 DEF FilesInv

\* A finite map, by its entries.
LEMMA MapsFacts ==
  ASSUME NEW S, NEW T, NEW g \in Stored!Maps(S, T)
  PROVE  DOMAIN g \subseteq S /\ g = [x \in DOMAIN g |-> g[x]] /\ \A x \in DOMAIN g : g[x] \in T
BY DEF Stored!Maps

\* An entry put into a map.
LEMMA WithFacts ==
  ASSUME NEW S, NEW T, NEW g \in Stored!Maps(S, T), NEW x \in S, NEW v \in T
  PROVE  /\ Stored!With(g, x, v) \in Stored!Maps(S, T)
         /\ DOMAIN Stored!With(g, x, v) = DOMAIN g \cup {x} /\ Stored!With(g, x, v)[x] = v
         /\ \A y \in DOMAIN g : y # x => Stored!With(g, x, v)[y] = g[y]
<1>1. PICK s \in SUBSET S : g \in [s -> T]
  BY DEF Stored!Maps
<1>2. Stored!With(g, x, v) \in [s \cup {x} -> T]
  BY <1>1 DEF Stored!With
<1> QED
  BY <1>1, <1>2 DEF Stored!With, Stored!Maps

\* An entry taken out of a map.
LEMMA MapWithoutFacts ==
  ASSUME NEW S, NEW T, NEW g \in Stored!Maps(S, T), NEW x
  PROVE  /\ Stored!Minus(g, x) \in Stored!Maps(S, T)
         /\ DOMAIN Stored!Minus(g, x) = DOMAIN g \ {x}
         /\ \A y \in DOMAIN g : y # x => Stored!Minus(g, x)[y] = g[y]
<1>1. PICK s \in SUBSET S : g \in [s -> T]
  BY DEF Stored!Maps
<1>2. Stored!Minus(g, x) \in [s \ {x} -> T]
  BY <1>1 DEF Stored!Minus
<1> QED
  BY <1>1, <1>2 DEF Stored!Minus, Stored!Maps

\* Whatever another instance writes, memory is behind of it.
LEMMA OthersWrite ==
  ASSUME FilesInv, NEW c \in Fits("devices") \cup {Corrupt}, NEW p \in Fits("profiles"),
         \A f \in Stored!ConfigFiles : disk'[f] = IF f = "devices" THEN c ELSE IF f = "profiles" THEN p ELSE disk[f],
         disk' = [f \in Stored!ConfigFiles |-> disk'[f]],
         behind' = [behind EXCEPT !["devices"] = "now", !["profiles"] = "now"],
         UNCHANGED <<mem, worker>>
  PROVE  FilesInv'
<1>1. FilesTyped'
  <2>1. \A f \in Stored!ConfigFiles :
          mem'[f] \in Fits(f) /\ (disk'[f] \in Fits(f) \/ (f = "devices" /\ disk'[f] = Corrupt))
    BY DEF FilesInv, FilesTyped
  <2>2. mem' = [f \in Stored!ConfigFiles |-> mem'[f]]
    BY DEF FilesInv, FilesTyped
  <2>3. behind' \in [Stored!ConfigFiles -> {"never", "once", "now"}]
    BY DEF FilesInv, FilesTyped
  <2> QED
    BY <2>1, <2>2, <2>3 DEF FilesTyped
<1>2. \A f \in Stored!ConfigFiles : behind'[f] # "now" => behind[f] # "now" /\ disk'[f] = disk[f]
  BY DEF FilesInv, FilesTyped
<1>3. FilesAgree'
  BY <1>2 DEF FilesInv, FilesAgree, Same, Stored!Overtaken
<1> QED
  BY <1>1, <1>3 DEF FilesInv

\* Another instance saves or deletes a device, or a file is damaged.
LEMMA OthersStep ==
  ASSUME FilesInv, Stored!Others
  PROVE  FilesInv'
<1>1. {"devices", "profiles"} \subseteq Stored!ConfigFiles /\ disk["profiles"] \in Fits("profiles")
  BY FileNames DEF FilesInv, FilesTyped
<1>2. /\ behind' = [behind EXCEPT !["devices"] = "now", !["profiles"] = "now"]
      /\ UNCHANGED <<mem, worker>>
  BY DEF Stored!Others
<1>3. ASSUME NEW i \in Ids, NEW dev \in Devices, disk["devices"] # Corrupt,
             disk' = [disk EXCEPT !["devices"] = Stored!With(@, i, dev)]
      PROVE  FilesInv'
  <2>1. disk["devices"] \in Fits("devices")
    BY <1>1, <1>3 DEF FilesInv, FilesTyped
  <2>2. Stored!With(disk["devices"], i, dev) \in Fits("devices")
    <3>1. disk["devices"] \in Stored!Maps(Ids, Devices)
      BY <2>1, ContentsOf
    <3>2. Stored!With(disk["devices"], i, dev) \in Stored!Maps(Ids, Devices)
      BY <3>1, WithFacts
    <3> QED
      BY <3>2, ContentsOf
  <2>3. /\ disk' = [f \in Stored!ConfigFiles |-> disk'[f]]
        /\ \A f \in Stored!ConfigFiles :
             disk'[f] = IF f = "devices" THEN Stored!With(disk["devices"], i, dev)
                        ELSE IF f = "profiles" THEN disk["profiles"] ELSE disk[f]
    BY <1>1, <1>3 DEF FilesInv, FilesTyped
  <2> QED
    BY <1>1, <1>2, <2>2, <2>3, OthersWrite
<1>4. ASSUME NEW i \in Ids, disk["devices"] # Corrupt,
             disk' = [disk EXCEPT !["devices"] = Stored!Minus(@, i), !["profiles"].panes = @ \ {i}]
      PROVE  FilesInv'
  <2>1. disk["devices"] \in Fits("devices")
    BY <1>1, <1>4 DEF FilesInv, FilesTyped
  <2>2. Stored!Minus(disk["devices"], i) \in Fits("devices")
    <3>1. disk["devices"] \in Stored!Maps(Ids, Devices)
      BY <2>1, ContentsOf
    <3>2. Stored!Minus(disk["devices"], i) \in Stored!Maps(Ids, Devices)
      BY <3>1, MapWithoutFacts
    <3> QED
      BY <3>2, ContentsOf
  <2> DEFINE p == [disk["profiles"] EXCEPT !.panes = @ \ {i}]
  <2>3. p \in Fits("profiles")
    BY <1>1, ContentsOf
  <2>4. /\ disk' = [f \in Stored!ConfigFiles |-> disk'[f]]
        /\ \A f \in Stored!ConfigFiles :
             disk'[f] = IF f = "devices" THEN Stored!Minus(disk["devices"], i)
                        ELSE IF f = "profiles" THEN p ELSE disk[f]
    BY <1>1, <1>4 DEF FilesInv, FilesTyped
  <2> HIDE DEF p
  <2> QED
    BY <1>1, <1>2, <2>2, <2>3, <2>4, OthersWrite
<1>5. CASE disk' = [disk EXCEPT !["devices"] = Corrupt]
  <2>1. /\ disk' = [f \in Stored!ConfigFiles |-> disk'[f]]
        /\ \A f \in Stored!ConfigFiles :
             disk'[f] = IF f = "devices" THEN Corrupt
                        ELSE IF f = "profiles" THEN disk["profiles"] ELSE disk[f]
    BY <1>1, <1>5 DEF FilesInv, FilesTyped
  <2> QED
    BY <1>1, <1>2, <2>1, OthersWrite
<1>6. disk["devices"] # Corrupt => DOMAIN disk["devices"] \subseteq Ids
  BY <1>1, ContentsOf, MapsFacts DEF FilesInv, FilesTyped
<1> QED
  BY <1>3, <1>4, <1>5, <1>6 DEF Stored!Others

\* The command under way, by what it is.
OpTyped ==
  \/ op.do \in {"nothing", "confirm"}
  \/ op \in [do : {"secret", "device"}, id : Ids, device : Devices, typed : BOOLEAN]
  \/ op \in [do : {"forget", "panes", "jumps"}, id : Ids, failed : BOOLEAN]
  \/ /\ op.do \in {"drop", "add"} /\ op.file \in Imports /\ op.n \in 1 .. Len(op.file)
     /\ op = [do |-> op.do, file |-> op.file, n |-> op.n, saved |-> op.saved, confirmed |-> op.confirmed]

\* The device an import is at.
LEMMA ImportFacts ==
  ASSUME NEW d \in Imports, NEW n \in 1 .. Len(d)
  PROVE  d[n].id \in Ids /\ d[n].device \in Devices
<1> DEFINE S == [id : Ids, device : Devices]
<1>1. d \in Seq(S)
  BY StoresAssumption DEF Stored!StoresConstants
<1> HIDE DEF S
<1>2. d[n] \in S
  BY <1>1
<1> QED
  BY <1>2 DEF S

\* A device, and the same without its jump host.
LEMMA DeviceFacts ==
  ASSUME NEW d \in Devices
  PROVE  /\ d.method \in {"password", "key", "serial"} /\ d.jump \in Ids \cup {NoOne}
         /\ [d EXCEPT !.jump = NoOne] \in Devices
         /\ [d EXCEPT !.jump = NoOne].jump = NoOne
         /\ [d EXCEPT !.jump = NoOne].method = d.method /\ [d EXCEPT !.jump = NoOne].target = d.target
<1>1. /\ d = [name |-> d.name, method |-> d.method, target |-> d.target, jump |-> d.jump,
              risks |-> d.risks, forwards |-> d.forwards]
      /\ d.method \in {"password", "key", "serial"} /\ d.jump \in Ids \cup {NoOne}
      /\ [d EXCEPT !.jump = NoOne] \in Devices
  BY StoresAssumption DEF Stored!StoresConstants
<1>2. "jump" \in DOMAIN d
  BY <1>1
<1> QED
  BY <1>1, <1>2

\* What memory has of each file.
LEMMA MemFacts ==
  ASSUME FilesInv
  PROVE  /\ {"devices", "profiles", "settings", "bookmarks", "commands", "workspace"} \subseteq Stored!ConfigFiles
         /\ mem["devices"] \in Stored!Maps(Ids, Devices) /\ mem["profiles"] \in Fits("profiles")
         /\ mem["bookmarks"] \subseteq Ids /\ mem["commands"] \in Stored!Maps(CommandIds, Texts)
BY FileNames, ContentsOf DEF FilesInv, FilesTyped

\* No edit of the profiles leaves a default that names nothing.
LEMMA ProfileEditsFit ==
  ASSUME FilesInv, NEW c \in Stored!ProfileEdits
  PROVE  c \in Fits("profiles")
<1> DEFINE p == mem["profiles"]
<1>1. DOMAIN mem["devices"] \subseteq Ids /\ p \in Fits("profiles")
  BY MemFacts, MapsFacts
<1> HIDE DEF p
<1>2. ASSUME NEW s \in SUBSET DOMAIN mem["devices"]
      PROVE  [p EXCEPT !.saved = TRUE, !.panes = s, !.v1 = FALSE] \in Fits("profiles")
  <2>1. s \in SUBSET Ids
    BY <1>1
  <2> QED
    BY <1>1, <2>1, ContentsOf
<1>3. Stored!Deleted(p) \in Fits("profiles")
  BY <1>1, ContentsOf DEF Stored!Deleted
<1>4. p.saved => [p EXCEPT !.default = TRUE, !.v1 = FALSE] \in Fits("profiles")
  BY <1>1, ContentsOf
<1>5. [p EXCEPT !.default = FALSE, !.v1 = FALSE] \in Fits("profiles")
  BY <1>1, ContentsOf
<1>6. \/ \E s \in SUBSET DOMAIN mem["devices"] : c = [p EXCEPT !.saved = TRUE, !.panes = s, !.v1 = FALSE]
      \/ p.saved /\ (c = Stored!Deleted(p) \/ c = [p EXCEPT !.default = TRUE, !.v1 = FALSE])
      \/ c = [p EXCEPT !.default = FALSE, !.v1 = FALSE]
  BY DEF Stored!ProfileEdits, p
<1> QED
  BY <1>2, <1>3, <1>4, <1>5, <1>6

\* Edits of one file leave it well-formed, and none is of the devices.
LEMMA EditsFit ==
  ASSUME FilesInv, NEW f \in Stored!ConfigFiles, NEW c \in Stored!Edits(f)
  PROVE  f \notin {"devices", "commands"} /\ c \in Fits(f)
<1>1. CASE f = "profiles"
  BY <1>1, ProfileEditsFit DEF Stored!Edits
<1>2. CASE f = "settings"
  BY <1>2, ContentsOf DEF Stored!Edits, Stored!SettingsEdits, Stored!Sanitized
<1>3. CASE f = "bookmarks"
  <2>1. c \in Stored!BookmarkEdits
    BY <1>3 DEF Stored!Edits
  <2>2. DOMAIN mem["devices"] \subseteq Ids /\ mem["bookmarks"] \subseteq Ids
    BY MemFacts, MapsFacts
  <2>3. c \subseteq Ids
    BY <2>1, <2>2 DEF Stored!BookmarkEdits
  <2> QED
    BY <1>3, <2>3, ContentsOf
<1>4. CASE f = "workspace"
  BY <1>4, ContentsOf DEF Stored!Edits, Stored!WorkspaceEdits
<1> QED
  BY <1>1, <1>2, <1>3, <1>4, FileNames DEF Stored!Edits

\* Devices are devices still without their jump hosts.
LEMMA ClearedFits ==
  ASSUME FilesInv, NEW js
  PROVE  [j \in DOMAIN mem["devices"] |->
            IF j \in js THEN [mem["devices"][j] EXCEPT !.jump = NoOne] ELSE mem["devices"][j]]
         \in Stored!Maps(Ids, Devices)
<1> DEFINE g == mem["devices"]
           h == [j \in DOMAIN g |-> IF j \in js THEN [g[j] EXCEPT !.jump = NoOne] ELSE g[j]]
<1>1. DOMAIN g \subseteq Ids /\ \A j \in DOMAIN g : g[j] \in Devices
  BY MemFacts, MapsFacts
<1>2. \A j \in DOMAIN g : [g[j] EXCEPT !.jump = NoOne] \in Devices
  BY <1>1, DeviceFacts
<1> HIDE DEF g
<1>3. h \in [DOMAIN g -> Devices]
  BY <1>1, <1>2
<1>4. h \in Stored!Maps(Ids, Devices)
  BY <1>1, <1>3 DEF Stored!Maps
<1> QED
  BY <1>4 DEF g

\* An imported command gets an id that no saved command has.
LEMMA AddedFits ==
  ASSUME FilesInv, DOMAIN mem["commands"] # CommandIds, NEW c \in CommandIds, NEW t \in Texts
  PROVE  \E x \in CommandIds \ DOMAIN mem["commands"] :
           Stored!AddInto(mem["commands"], c, t) = Stored!With(mem["commands"], x, t)
<1>1. DOMAIN mem["commands"] \subseteq CommandIds
  BY MemFacts, MapsFacts
<1>2. Stored!Renamed(mem["commands"], c, t) \in CommandIds \ DOMAIN mem["commands"]
  BY <1>1 DEF Stored!Renamed
<1> QED
  BY <1>2 DEF Stored!AddInto

\* What a command writes.
LEMMA WriteStep ==
  ASSUME FilesInv, OpTyped, UNCHANGED worker,
         \/ Stored!Edit \/ Stored!SaveCommand \/ Stored!ImportCommand \/ Stored!ImportProfile
         \/ Stored!StartDelete
  PROVE  FilesInv'
<1>1. CASE Stored!Edit
  <2>1. PICK f \in Stored!ConfigFiles : \E c \in Stored!Edits(f) : Stored!Commit(f, c)
    BY <1>1 DEF Stored!Edit
  <2> QED
    BY <2>1, EditsFit, CommitStep
<1>2. CASE Stored!SaveCommand
  <2>1. PICK c \in Stored!Maps(CommandIds, Texts) : Stored!Commit("commands", c)
    <3>1. mem["commands"] \in Stored!Maps(CommandIds, Texts)
      BY MemFacts
    <3>2. \A c \in CommandIds, t \in Texts :
            Stored!With(mem["commands"], c, t) \in Stored!Maps(CommandIds, Texts)
      BY <3>1, WithFacts
    <3>3. \A c : Stored!Minus(mem["commands"], c) \in Stored!Maps(CommandIds, Texts)
      BY <3>1, MapWithoutFacts
    <3> QED
      BY <1>2, <3>2, <3>3 DEF Stored!SaveCommand
  <2> QED
    BY <2>1, ContentsOf, CommitStep, MemFacts
<1>3. CASE Stored!ImportCommand
  <2>1. PICK c \in CommandIds, t \in Texts :
          Stored!Commit("commands", Stored!AddInto(mem["commands"], c, t)) /\ DOMAIN mem["commands"] # CommandIds
    BY <1>3 DEF Stored!ImportCommand
  <2>2. PICK x \in CommandIds :
          Stored!AddInto(mem["commands"], c, t) = Stored!With(mem["commands"], x, t)
    BY <2>1, AddedFits
  <2>3. Stored!With(mem["commands"], x, t) \in Stored!Maps(CommandIds, Texts)
    BY MemFacts, WithFacts
  <2> QED
    BY <2>1, <2>2, <2>3, ContentsOf, CommitStep, MemFacts
<1>4. CASE Stored!ImportProfile
  <2>1. PICK s \in SUBSET Ids :
          Stored!Commit("profiles", [mem["profiles"] EXCEPT !.saved = TRUE, !.panes = s, !.v1 = FALSE])
    BY <1>4 DEF Stored!ImportProfile
  <2>2. [mem["profiles"] EXCEPT !.saved = TRUE, !.panes = s, !.v1 = FALSE] \in Fits("profiles")
    BY MemFacts, ContentsOf
  <2> QED
    BY <2>1, <2>2, CommitStep, MemFacts
<1>5. CASE Stored!StartDelete
  <2>1. PICK i : Stored!Commit("devices", Stored!Minus(mem["devices"], i))
    BY <1>5 DEF Stored!StartDelete
  <2>2. Stored!Minus(mem["devices"], i) \in Stored!Maps(Ids, Devices)
    BY MemFacts, MapWithoutFacts
  <2> QED
    BY <2>1, <2>2, ContentsOf, CommitStep, MemFacts
<1> QED
  BY <1>1, <1>2, <1>3, <1>4, <1>5

\* What the steps of a command write.
LEMMA StepsWrite ==
  ASSUME FilesInv, OpTyped, Stored!Steps
  PROVE  FilesInv'
<1>1. mem["devices"] \in Stored!Maps(Ids, Devices) /\ "devices" \in Stored!ConfigFiles /\ "profiles" \in Stored!ConfigFiles
  BY MemFacts
<1>2. CASE UNCHANGED <<disk, mem, behind, worker>>
  BY <1>2, QuietFiles
<1>3. CASE Stored!SaveDevice
  <2>1. op.id \in Ids /\ op.device \in Devices
    BY <1>3 DEF OpTyped, Stored!SaveDevice
  <2>2. Stored!With(mem["devices"], op.id, op.device) \in Stored!Maps(Ids, Devices)
    BY <1>1, <2>1, WithFacts
  <2> QED
    BY <1>1, <1>2, <1>3, <2>2, ContentsOf, CommitStep DEF Stored!SaveDevice, Stored!WriteFails
<1>4. CASE Stored!ClearPanes
  <2>1. [mem["profiles"] EXCEPT !.panes = @ \ {op.id}, !.v1 = FALSE] \in Fits("profiles")
    <3>1. mem["profiles"] \in Fits("profiles")
      BY MemFacts
    <3> QED
      BY <3>1, ContentsOf
  <2> QED
    BY <1>1, <1>2, <1>4, <2>1, CommitStep DEF Stored!ClearPanes, Stored!WriteFails
<1>5. CASE Stored!ClearJumps
  <2> DEFINE js == Stored!Jumping(op.id)
             g == [j \in DOMAIN mem["devices"] |->
                    IF j \in js THEN [mem["devices"][j] EXCEPT !.jump = NoOne] ELSE mem["devices"][j]]
  <2>1. g \in Fits("devices")
    BY ClearedFits, ContentsOf
  <2>2. Stored!Commit("devices", g) \/ UNCHANGED <<disk, mem, behind, worker>>
    BY <1>5 DEF Stored!ClearJumps, Stored!WriteFails
  <2>3. worker' = worker
    BY <1>5 DEF Stored!ClearJumps
  <2> HIDE DEF g
  <2> QED
    BY <1>1, <1>2, <2>1, <2>2, <2>3, CommitStep
<1>6. CASE Stored!AddDevice
  <2> DEFINE d == op.file[op.n]
  <2>1. op.file \in Imports /\ op.n \in 1 .. Len(op.file)
    BY <1>6 DEF OpTyped, Stored!AddDevice
  <2>2. d.id \in Ids /\ d.device \in Devices
    BY <2>1, ImportFacts
  <2> HIDE DEF d
  <2>3. Stored!With(mem["devices"], d.id, d.device) \in Stored!Maps(Ids, Devices)
    BY <1>1, <2>2, WithFacts
  <2> QED
    BY <1>1, <1>2, <1>6, <2>3, ContentsOf, CommitStep DEF Stored!AddDevice, Stored!WriteFails, d
<1> QED
  BY <1>2, <1>3, <1>4, <1>5, <1>6 DEF Stored!Steps, Stored!SaveSecret, Stored!ForgetSecret,
     Stored!StartImport,
     Stored!DropSecret, Stored!history

\* Every step keeps the files and their stores as they should be.
LEMMA FilesStep ==
  ASSUME FilesInv, OpTyped, Stored!Next
  PROVE  FilesInv'
<1>1. CASE Stored!EditFails \/ Stored!StartSave \/ Stored!Preview \/ Stored!StartReload
  BY <1>1, QuietFiles DEF Stored!EditFails, Stored!StartSave, Stored!Preview, Stored!StartReload,
     Stored!WriteFails, Stored!history
<1>2. CASE Stored!Edit \/ Stored!SaveCommand \/ Stored!ImportCommand \/ Stored!ImportProfile \/ Stored!StartDelete
  BY <1>2, WriteStep DEF Stored!Edit, Stored!SaveCommand, Stored!ImportCommand,
     Stored!ImportProfile,
     Stored!StartDelete
<1> QED
  BY <1>1, <1>2, StepsWrite, ReadStep, SwapStep, RestartStep, OthersStep DEF Stored!Next,
     Stored!User, Stored!Reload

\* What the keyring may hold.
Secrets == [method : {"password", "key"}, target : {d.target : d \in Devices}, jump : Ids \cup {NoOne}]
\* A secret was typed only for a device that has one.
KeysTyped ==
  /\ keyring \in [Ids -> Secrets \cup {NoOne}]
  /\ op.do \in {"secret", "device"} => (op.typed => Stored!HasSecret(op.device))
  /\ forgotten \subseteq Ids /\ loose \subseteq Ids /\ unagreed \in BOOLEAN

\* An import goes through its devices twice.
LEMMA ImportOp ==
  ASSUME OpTyped, op.do \in {"drop", "add"}
  PROVE  /\ op.file \in Imports /\ Len(op.file) \in Nat /\ op.n \in 1 .. Len(op.file)
         /\ op' = [op EXCEPT !.n = @ + 1] =>
              /\ op'.do = op.do /\ op'.file = op.file /\ op'.n = op.n + 1
              /\ op'.saved = op.saved /\ op'.confirmed = op.confirmed
         /\ op' = [op EXCEPT !.do = "add", !.n = 1] =>
              /\ op'.do = "add" /\ op'.file = op.file /\ op'.n = 1
              /\ op'.saved = op.saved /\ op'.confirmed = op.confirmed
<1>1. /\ op.file \in Imports /\ op.n \in 1 .. Len(op.file)
      /\ op = [do |-> op.do, file |-> op.file, n |-> op.n, saved |-> op.saved, confirmed |-> op.confirmed]
  BY DEF OpTyped
<1>2. Len(op.file) \in Nat
  <2>1. op.file \in Seq([id : Ids, device : Devices])
    BY <1>1, StoresAssumption DEF Stored!StoresConstants
  <2> QED
    BY <2>1
<1>3. ASSUME op' = [op EXCEPT !.n = @ + 1]
      PROVE  op' = [do |-> op.do, file |-> op.file, n |-> op.n + 1, saved |-> op.saved, confirmed |-> op.confirmed]
  BY <1>1, <1>3
<1>4. ASSUME op' = [op EXCEPT !.do = "add", !.n = 1]
      PROVE  op' = [do |-> "add", file |-> op.file, n |-> 1, saved |-> op.saved, confirmed |-> op.confirmed]
  BY <1>1, <1>4
<1>5. ASSUME op' = [op EXCEPT !.n = @ + 1]
      PROVE  /\ op'.do = op.do /\ op'.file = op.file /\ op'.n = op.n + 1
             /\ op'.saved = op.saved /\ op'.confirmed = op.confirmed
  BY ONLY <1>3, <1>5
<1>6. ASSUME op' = [op EXCEPT !.do = "add", !.n = 1]
      PROVE  /\ op'.do = "add" /\ op'.file = op.file /\ op'.n = 1
             /\ op'.saved = op.saved /\ op'.confirmed = op.confirmed
  BY ONLY <1>4, <1>6
<1> QED
  BY <1>1, <1>2, <1>5, <1>6

\* Every step leaves a command under way that is well-formed.
LEMMA OpStep ==
  ASSUME FilesInv, OpTyped, Stored!Next
  PROVE  OpTyped'
<1> USE DEF OpTyped
<1>1. CASE UNCHANGED op \/ Stored!Idle
  BY <1>1 DEF Stored!Idle
<1>2. CASE Stored!StartSave
  <2>1. PICK i \in Ids, dev \in Devices, typed \in BOOLEAN :
          op' = [do |-> "secret", id |-> i, device |-> dev, typed |-> typed /\ Stored!HasSecret(dev)]
    BY <1>2 DEF Stored!StartSave
  <2>2. (typed /\ Stored!HasSecret(dev)) \in BOOLEAN
    BY Zenon
  <2> QED
    BY <2>1, <2>2
<1>3. CASE Stored!Preview
  BY <1>3 DEF Stored!Preview
<1>4. CASE Stored!StartDelete
  <2>1. DOMAIN mem["devices"] \subseteq Ids
    BY MemFacts, MapsFacts
  <2> QED
    BY <1>4, <2>1 DEF Stored!StartDelete
<1>5. CASE Stored!SaveSecret
  BY <1>1, <1>5 DEF Stored!SaveSecret
<1>6. CASE Stored!ForgetSecret \/ Stored!ClearPanes
  <2>1. op \in [do : {"forget", "panes", "jumps"}, id : Ids, failed : BOOLEAN]
    BY <1>6 DEF Stored!ForgetSecret, Stored!ClearPanes
  <2>2. \E step \in {"panes", "jumps"}, failed \in BOOLEAN : Stored!NextCleanup(step, failed)
    BY <1>6 DEF Stored!ForgetSecret, Stored!ClearPanes
  <2> QED
    BY <2>1, <2>2 DEF Stored!NextCleanup
<1>7. CASE Stored!StartImport
  <2>1. CASE Stored!Idle
    BY <1>1, <2>1
  <2>2. ASSUME NEW d \in Imports,
               op' = [do |-> "drop", file |-> d, n |-> 1, saved |-> mem["devices"], confirmed |-> op.confirmed]
        PROVE  OpTyped'
    <3>1. d \in Seq([id : Ids, device : Devices]) /\ d # <<>>
      BY StoresAssumption DEF Stored!StoresConstants
    <3>2. Len(d) \in Nat \ {0}
      BY <3>1
    <3> QED
      BY <2>2, <3>2
  <2> QED
    BY <1>7, <2>1, <2>2 DEF Stored!StartImport
<1>8. CASE Stored!DropSecret \/ Stored!AddDevice
  <2>1. /\ op.do \in {"drop", "add"} /\ op.file \in Imports /\ op.n \in 1 .. Len(op.file)
        /\ op = [do |-> op.do, file |-> op.file, n |-> op.n, saved |-> op.saved, confirmed |-> op.confirmed]
    BY <1>8 DEF Stored!DropSecret, Stored!AddDevice
  <2>2. Len(op.file) \in Nat
    BY <2>1, ImportOp
  <2>3. \/ Stored!Idle
        \/ op.n < Len(op.file) /\ op' = [op EXCEPT !.n = @ + 1]
        \/ op' = [op EXCEPT !.do = "add", !.n = 1]
    <3>1. CASE Stored!DropSecret
      BY <3>1 DEF Stored!DropSecret
    <3>2. CASE Stored!AddDevice
      BY <3>2 DEF Stored!AddDevice
    <3> QED
      BY <1>8, <3>1, <3>2
  <2>4. CASE op.n < Len(op.file) /\ op' = [op EXCEPT !.n = @ + 1]
    <3>1. op' = [do |-> op.do, file |-> op.file, n |-> op.n + 1, saved |-> op.saved, confirmed |-> op.confirmed]
      BY <2>1, <2>4
    <3> QED
      BY <2>1, <2>2, <2>4, <3>1
  <2>5. CASE op' = [op EXCEPT !.do = "add", !.n = 1]
    <3>1. op' = [do |-> "add", file |-> op.file, n |-> 1, saved |-> op.saved, confirmed |-> op.confirmed]
      BY <2>1, <2>5
    <3> QED
      BY <2>1, <2>2, <3>1
  <2> QED
    BY <1>1, <2>3, <2>4, <2>5
<1> QED
  BY <1>1, <1>2, <1>4, <1>5, <1>6, <1>7, <1>8, <1>3 DEF Stored!Next, Stored!User, Stored!Steps,
     Stored!Reload,
     Stored!Edit, Stored!EditFails, Stored!SaveCommand, Stored!ImportCommand, Stored!ImportProfile,
     Stored!SaveDevice, Stored!ClearJumps, Stored!StartReload, Stored!ReadFile, Stored!Swap, Stored!Restart,
     Stored!Others

\* What a device's secret is, and what it is once the device changed.
LEMMA SecretFacts ==
  ASSUME NEW d \in Devices, NEW k \in Secrets
  PROVE  /\ Stored!HasSecret(d) => Stored!SecretFor(d) \in Secrets
         /\ Stored!SentTo(k, d) \in Secrets
         /\ [k EXCEPT !.jump = NoOne] \in Secrets
         /\ [k EXCEPT !.jump = NoOne] = [method |-> k.method, target |-> k.target, jump |-> NoOne]
         /\ k = [method |-> k.method, target |-> k.target, jump |-> k.jump]
<1>1. d.method \in {"password", "key", "serial"} /\ d.jump \in Ids \cup {NoOne}
  BY DeviceFacts
<1>2. d.target \in {e.target : e \in Devices}
  OBVIOUS
<1>3. k \in [method : {"password", "key"}, target : {e.target : e \in Devices}, jump : Ids \cup {NoOne}]
  BY DEF Secrets
<1>4. [k EXCEPT !.jump = NoOne] = [method |-> k.method, target |-> k.target, jump |-> NoOne]
  BY <1>3
<1>5. Stored!HasSecret(d) => Stored!SecretFor(d) \in Secrets
  BY <1>1, <1>2 DEF Stored!HasSecret, Stored!SecretFor, Secrets
<1>6. Stored!SentTo(k, d) \in Secrets
  BY <1>1, <1>2, <1>3 DEF Secrets, Stored!SentTo
<1>7. [method |-> k.method, target |-> k.target, jump |-> NoOne] \in Secrets
  BY <1>3 DEF Secrets
<1>8. k = [method |-> k.method, target |-> k.target, jump |-> k.jump]
  BY <1>3
<1> QED
  BY <1>4, <1>5, <1>6, <1>7, <1>8

\* Every step leaves only secrets in the keyring.
LEMMA KeysStep ==
  ASSUME FilesInv, OpTyped, KeysTyped, Stored!Next
  PROVE  KeysTyped'
<1>1. ASSUME UNCHANGED <<keyring, unagreed>>, UNCHANGED op \/ Stored!Idle,
             forgotten' \subseteq Ids, loose' \subseteq Ids
      PROVE  KeysTyped'
  BY <1>1 DEF KeysTyped, Stored!Idle
<1>2. CASE Stored!Edit \/ Stored!EditFails \/ Stored!SaveCommand \/ Stored!ImportCommand \/ Stored!ImportProfile
  BY <1>1, <1>2 DEF KeysTyped, Stored!Edit, Stored!EditFails, Stored!SaveCommand,
     Stored!ImportCommand,
     Stored!ImportProfile, Stored!history
<1>3. CASE Stored!StartReload \/ Stored!ReadFile \/ Stored!Swap \/ Stored!Restart
  BY <1>1, <1>3 DEF KeysTyped, Stored!StartReload, Stored!ReadFile, Stored!Swap, Stored!Restart,
     Stored!history
<1>4. CASE Stored!StartSave
  <2>1. PICK i \in Ids, dev \in Devices, typed \in BOOLEAN :
          op' = [do |-> "secret", id |-> i, device |-> dev, typed |-> typed /\ Stored!HasSecret(dev)]
    BY <1>4 DEF Stored!StartSave
  <2>2. op'.do = "secret" /\ op'.device = dev /\ op'.typed = (typed /\ Stored!HasSecret(dev))
    BY <2>1, Zenon
  <2>3. op'.typed => Stored!HasSecret(op'.device)
    BY <2>2, Zenon
  <2> QED
    BY <1>4, <2>2, <2>3 DEF KeysTyped, Stored!StartSave
<1>5. CASE Stored!StartDelete \/ Stored!Preview \/ Stored!StartImport
  BY <1>5 DEF KeysTyped, Stored!StartDelete, Stored!Preview, Stored!StartImport, Stored!Idle,
     Stored!history
<1>6. CASE Stored!SaveSecret
  <2>1. CASE Stored!Idle /\ UNCHANGED <<keyring, loose>>
    BY <1>1, <1>6, <2>1 DEF KeysTyped, Stored!SaveSecret
  <2>2. CASE /\ keyring' = [keyring EXCEPT ![op.id] = Stored!SecretSaved(op)]
             /\ op' = [op EXCEPT !.do = "device"]
             /\ loose' \subseteq loose \cup {op.id}
    <3>1. op \in [do : {"secret", "device"}, id : Ids, device : Devices, typed : BOOLEAN]
      BY <1>6 DEF OpTyped, Stored!SaveSecret
    <3>2. op.id \in Ids /\ op.device \in Devices /\ (op.typed => Stored!HasSecret(op.device))
      BY <1>6, <3>1 DEF KeysTyped, Stored!SaveSecret
    <3>3. \A d \in Devices : Stored!HasSecret(d) => Stored!SecretFor(d) \in Secrets
      BY DeviceFacts DEF Stored!HasSecret, Stored!SecretFor, Secrets
    <3>4. Stored!SecretSaved(op) \in Secrets \cup {NoOne}
      BY <3>2, <3>3 DEF Stored!SecretSaved, KeysTyped
    <3>5. op'.device = op.device /\ op'.typed = op.typed
      BY <2>2, <3>1
    <3> QED
      BY <1>6, <2>2, <3>2, <3>4, <3>5 DEF KeysTyped, Stored!SaveSecret
  <2> QED
    BY <1>6, <2>1, <2>2 DEF Stored!SaveSecret
<1>7. CASE Stored!SaveDevice
  <2>1. op.id \in Ids /\ op.device \in Devices
    BY <1>7 DEF OpTyped, Stored!SaveDevice
  <2>2. keyring[op.id] \in Secrets \cup {NoOne}
    BY <2>1 DEF KeysTyped
  <2>3. keyring[op.id] # NoOne => Stored!SentTo(keyring[op.id], op.device) \in Secrets
    BY <2>1, <2>2, SecretFacts
  <2>4. keyring' \in [Ids -> Secrets \cup {NoOne}]
    BY <1>7, <2>1, <2>2, <2>3 DEF KeysTyped, Stored!SaveDevice
  <2>5. loose' \subseteq loose
    BY <1>7 DEF Stored!SaveDevice
  <2> QED
    BY <1>7, <2>4, <2>5 DEF KeysTyped, Stored!SaveDevice, Stored!Idle
<1>8. CASE Stored!ForgetSecret \/ Stored!ClearPanes
  <2>1. op \in [do : {"forget", "panes", "jumps"}, id : Ids, failed : BOOLEAN]
    BY <1>8 DEF OpTyped, Stored!ForgetSecret, Stored!ClearPanes
  <2>2. op'.do \in {"panes", "jumps"}
    BY <1>8, <2>1 DEF Stored!ForgetSecret, Stored!ClearPanes, Stored!NextCleanup
  <2>3. op.id \in Ids
    BY <2>1
  <2> QED
    BY <1>8, <2>2, <2>3 DEF KeysTyped, Stored!ForgetSecret, Stored!ClearPanes, Stored!history
<1>9. CASE Stored!ClearJumps
  <2>1. op.id \in Ids
    BY <1>9 DEF OpTyped, Stored!ClearJumps
  <2>2. keyring' \in [Ids -> Secrets \cup {NoOne}]
    <3>1. \A k \in Secrets : [k EXCEPT !.jump = NoOne] \in Secrets
      BY StoresAssumption, SecretFacts DEF Secrets
    <3>2. \A j \in Ids : keyring[j] \in Secrets \cup {NoOne}
      BY DEF KeysTyped
    <3> DEFINE js == Stored!Jumping(op.id)
               cleared == [j \in Ids |-> IF j \in js /\ keyring[j] # NoOne
                                         THEN [keyring[j] EXCEPT !.jump = NoOne] ELSE keyring[j]]
    <3>3. cleared \in [Ids -> Secrets \cup {NoOne}]
      BY <3>1, <3>2
    <3>4. keyring' = cleared \/ keyring' = keyring
      BY <1>9 DEF Stored!ClearJumps
    <3> QED
      BY <3>3, <3>4 DEF KeysTyped
  <2> QED
    BY <1>9, <2>1, <2>2 DEF KeysTyped, Stored!ClearJumps, Stored!Idle
<1>10. CASE Stored!DropSecret
  <2> DEFINE d == op.file[op.n]
  <2>1. d.id \in Ids
    BY <1>10, ImportFacts DEF OpTyped, Stored!DropSecret
  <2>2. /\ keyring' = keyring \/ keyring' = [keyring EXCEPT ![d.id] = NoOne]
        /\ loose' \subseteq loose \cup {d.id} /\ UNCHANGED <<forgotten, unagreed>>
    BY <1>10 DEF Stored!DropSecret
  <2>3. op'.do \in {"nothing", "drop", "add"}
    <3>1. op.do = "drop"
      BY <1>10 DEF Stored!DropSecret
    <3>2. \/ Stored!Idle \/ op' = [op EXCEPT !.n = @ + 1] \/ op' = [op EXCEPT !.do = "add", !.n = 1]
      BY <1>10 DEF Stored!DropSecret
    <3> QED
      BY <3>1, <3>2, ImportOp DEF Stored!Idle
  <2> HIDE DEF d
  <2> QED
    BY <2>1, <2>2, <2>3 DEF KeysTyped
<1>11. CASE Stored!AddDevice
  <2>1. unagreed' \in BOOLEAN
    BY <1>11, Zenon DEF KeysTyped, Stored!AddDevice
  <2>2. op'.do \in {"nothing", "add"}
    <3>1. op.do = "add"
      BY <1>11 DEF Stored!AddDevice
    <3>2. \/ Stored!Idle \/ op' = [op EXCEPT !.n = @ + 1]
      BY <1>11 DEF Stored!AddDevice
    <3> QED
      BY <3>1, <3>2, ImportOp DEF Stored!Idle
  <2>3. forgotten' \subseteq forgotten /\ UNCHANGED <<keyring, loose>>
    BY <1>11 DEF Stored!AddDevice
  <2> QED
    BY <2>1, <2>2, <2>3 DEF KeysTyped
<1>12. CASE Stored!Others
  <2>1. \A d \in Devices : Stored!HasSecret(d) => Stored!SecretFor(d) \in Secrets
    BY DeviceFacts DEF Stored!HasSecret, Stored!SecretFor, Secrets
  <2>2. \/ UNCHANGED keyring
        \/ \E i \in Ids, k \in Secrets \cup {NoOne} : keyring' = [keyring EXCEPT ![i] = k]
        \/ \E i : keyring' = [keyring EXCEPT ![i] = NoOne]
    BY <1>12, <2>1 DEF Stored!Others
  <2>3. forgotten' \subseteq forgotten /\ UNCHANGED <<op, loose, unagreed>>
    BY <1>12 DEF Stored!Others
  <2> QED
    BY <2>2, <2>3 DEF KeysTyped
<1> QED
  BY <1>2, <1>3, <1>4, <1>5, <1>6, <1>7, <1>8, <1>9, <1>10, <1>11, <1>12
  DEF Stored!Next, Stored!User, Stored!Steps, Stored!Reload

\* A commit writes one file, and doesn't undo that memory fell behind.
LEMMA CommitFacts ==
  ASSUME FilesInv, NEW f \in Stored!ConfigFiles, NEW c, Stored!Commit(f, c)
  PROVE  /\ mem'[f] = c /\ disk'[f] = c /\ (behind'[f] = "never" => behind[f] = "never")
         /\ \A g \in Stored!ConfigFiles : g # f =>
              mem'[g] = mem[g] /\ disk'[g] = disk[g] /\ behind'[g] = behind[g]
BY DEF FilesInv, FilesTyped, Stored!Commit

\* Memory that never fell behind of a file is not changed but by a command that
\* writes it.
Held(f) == behind'[f] = "never" => behind[f] = "never" /\ Same(f, mem'[f], mem[f])

\* So it is for what writes other files, a reload, a launch, another instance.
LEMMA FileHeld ==
  ASSUME FilesInv, NEW f \in Stored!ConfigFiles,
         \/ UNCHANGED <<mem, behind>>
         \/ \E g \in Stored!ConfigFiles : g # f /\ \E c : Stored!Commit(g, c)
         \/ Stored!Swap \/ Stored!Restart \/ Stored!Others
  PROVE  Held(f)
<1> USE DEF Held, Same
<1>1. CASE UNCHANGED <<mem, behind>>
  BY <1>1
<1>2. CASE \E g \in Stored!ConfigFiles : g # f /\ \E c : Stored!Commit(g, c)
  <2>1. mem'[f] = mem[f] /\ behind'[f] = behind[f]
    BY <1>2, CommitFacts
  <2> QED
    BY <2>1
<1>3. CASE Stored!Swap
  <2> DEFINE g == Stored!Reloaded[worker.at]
  <2>1. worker.at \in 1 .. 5 /\ g \in Stored!ConfigFiles /\ Stored!Overtaken(g)
    BY <1>3, FileNames DEF FilesInv, FilesAgree, Stored!Swap, Stored!Overtaken
  <2>2. /\ mem' = [mem EXCEPT ![g] = worker.found]
        /\ behind' = [behind EXCEPT ![g] = IF @ = "now" /\ worker.found = disk[g] THEN "once" ELSE @]
    BY <1>3 DEF Stored!Swap
  <2> HIDE DEF g
  <2>3. behind[g] = "never" => worker.found = disk[g]
    BY <2>1 DEF FilesInv, FilesAgree
  <2>4. behind[f] = "never" => Same(f, mem[f], disk[f])
    BY DEF FilesInv, FilesAgree
  <2>5. behind'[f] = "never" => behind[f] = "never"
    BY <2>2 DEF FilesInv, FilesTyped
  <2>6. mem'[f] = IF f = g THEN worker.found ELSE mem[f]
    BY <2>1, <2>2 DEF FilesInv, FilesTyped
  <2> QED
    BY <2>3, <2>4, <2>5, <2>6
<1>4. CASE Stored!Restart
  <2>1. /\ behind'[f] = "never" => behind[f] = "never"
        /\ behind'[f] = "never" => mem'[f] = IF disk[f] = Corrupt THEN Stored!Empty[f] ELSE disk[f]
    BY <1>4 DEF Stored!Restart
  <2>2. behind[f] = "never" => disk[f] # Corrupt /\ Same(f, mem[f], disk[f])
    BY CorruptIsBehind DEF FilesInv, FilesAgree
  <2> QED
    BY <2>1, <2>2
<1>5. CASE Stored!Others
  <2>1. mem' = mem /\ (behind'[f] = "never" => behind[f] = "never")
    BY <1>5 DEF Stored!Others, FilesInv, FilesTyped
  <2> QED
    BY <2>1
<1> QED
  BY <1>1, <1>2, <1>3, <1>4, <1>5

\* The same of the devices and of the panes.
DevicesHeld == behind'["devices"] = "never" => behind["devices"] = "never" /\ mem'["devices"] = mem["devices"]
PanesHeld ==
  behind'["profiles"] = "never" => behind["profiles"] = "never" /\ mem'["profiles"].panes = mem["profiles"].panes

\* It follows from what holds of their files.
LEMMA HeldFacts ==
  ASSUME FilesInv, FilesInv'
  PROVE  (Held("devices") => DevicesHeld) /\ (Held("profiles") => PanesHeld)
<1>1. mem["profiles"] \in Fits("profiles") /\ mem'["profiles"] \in Fits("profiles")
  BY FileNames DEF FilesInv, FilesTyped
<1>2. Same("profiles", mem'["profiles"], mem["profiles"]) => mem'["profiles"].panes = mem["profiles"].panes
  <2>1. ASSUME NEW p \in Fits("profiles") PROVE [p EXCEPT !.v1 = FALSE].panes = p.panes
    BY ContentsOf
  <2> QED
    BY <1>1, <2>1 DEF Same
<1> QED
  BY <1>2 DEF Held, DevicesHeld, PanesHeld, Same

\* A step that does no more than let a command be, or end.
Quiet ==
  /\ UNCHANGED <<keyring, loose, unagreed>> /\ forgotten' \subseteq forgotten
  /\ op' = op \/ op' = [do |-> "nothing"]
  /\ DevicesHeld /\ PanesHeld

\* Which steps are quiet.
LEMMA QuietSteps ==
  ASSUME FilesInv, FilesInv',
         \/ Stored!EditFails \/ Stored!SaveCommand \/ Stored!ImportCommand
         \/ Stored!StartReload \/ Stored!ReadFile \/ Stored!Swap \/ Stored!Restart
         \/ UNCHANGED Stored!vars
  PROVE  Quiet
<1>1. {"devices", "profiles", "commands"} \subseteq Stored!ConfigFiles
  BY FileNames
<1>2. Held("devices") /\ Held("profiles")
  <2>1. CASE UNCHANGED <<mem, behind>>
    BY <1>1, <2>1, FileHeld
  <2>2. CASE \E c : Stored!Commit("commands", c)
    BY <1>1, <2>2, FileHeld
  <2>3. CASE Stored!Swap \/ Stored!Restart
    BY <1>1, <2>3, FileHeld
  <2> QED
    BY <2>1, <2>2, <2>3 DEF Stored!EditFails, Stored!WriteFails, Stored!SaveCommand,
       Stored!ImportCommand,
       Stored!StartReload, Stored!ReadFile, Stored!vars
<1>3. DevicesHeld /\ PanesHeld
  BY <1>2, HeldFacts
<1>4. /\ UNCHANGED <<keyring, loose, unagreed>> /\ forgotten' = forgotten
      /\ op' = op \/ op' = [do |-> "nothing"]
  BY DEF Stored!EditFails, Stored!SaveCommand, Stored!ImportCommand, Stored!StartReload,
     Stored!ReadFile,
     Stored!Swap, Stored!Restart, Stored!Idle, Stored!vars, Stored!history
<1> QED
  BY <1>3, <1>4 DEF Quiet

(* ------------------------- what a delete leaves -------------------------- *)

\* Memory never fell behind of what a delete is about.
NeverBehind == behind["devices"] = "never" /\ behind["profiles"] = "never"
\* Nothing that is saved knows the device.
Gone(i) ==
  /\ keyring[i] = NoOne /\ i \notin mem["profiles"].panes
  /\ i \notin DOMAIN mem["devices"] /\ \A j \in DOMAIN mem["devices"] : mem["devices"][j].jump # i
\* A save, or a delete, is under way.
Saving == op.do \in {"secret", "device"}
Deleting == op.do \in {"forget", "panes", "jumps"}
\* While a delete is under way and nothing failed, what its steps did so far stays
\* done; no save brings back a device that is gone, or jumps through one.
ForgettingInv ==
  /\ Saving => op.id \notin forgotten
  /\ NeverBehind =>
      /\ \A i \in forgotten : Gone(i)
      /\ Saving => op.device.jump \notin forgotten
      /\ Deleting => op.id \notin DOMAIN mem["devices"]
      /\ op.do \in {"panes", "jumps"} /\ ~op.failed => keyring[op.id] = NoOne
      /\ op.do = "jumps" /\ ~op.failed => op.id \notin mem["profiles"].panes

\* Quiet steps bring nothing back.
LEMMA QuietForgets ==
  ASSUME ForgettingInv, Quiet
  PROVE  ForgettingInv'
<1>1. NeverBehind' => /\ NeverBehind /\ mem'["devices"] = mem["devices"]
                      /\ mem'["profiles"].panes = mem["profiles"].panes
  BY DEF Quiet, DevicesHeld, PanesHeld, NeverBehind
<1>2. NeverBehind' => \A i \in forgotten' : Gone(i)'
  BY <1>1 DEF ForgettingInv, Gone, Quiet
<1> USE DEF Saving, Deleting
<1>3. CASE op' = op
  BY <1>1, <1>2, <1>3 DEF ForgettingInv, Quiet
<1>4. CASE op' = [do |-> "nothing"]
  BY <1>1, <1>2, <1>4 DEF ForgettingInv
<1> QED
  BY <1>3, <1>4 DEF Quiet

\* Changes of the profiles, and of what the command is.
LEMMA UserForgets ==
  ASSUME FilesInv, FilesInv', KeysTyped, ForgettingInv,
         Stored!Edit \/ Stored!ImportProfile \/ Stored!Preview \/ Stored!StartSave \/ Stored!StartDelete
  PROVE  ForgettingInv'
<1>1. {"devices", "profiles"} \subseteq Stored!ConfigFiles /\ mem["profiles"] \in Fits("profiles")
  BY FileNames DEF FilesInv, FilesTyped
<1>2. op.do = "nothing" /\ keyring' = keyring
  BY DEF Stored!Edit, Stored!ImportProfile, Stored!Preview, Stored!StartSave, Stored!StartDelete
<1>3. CASE Stored!Edit
  <2>1. PICK f \in Stored!ConfigFiles : \E c \in Stored!Edits(f) : Stored!Commit(f, c)
    BY <1>3 DEF Stored!Edit
  <2>2. PICK c \in Stored!Edits(f) : Stored!Commit(f, c)
    BY <2>1
  <2>3. UNCHANGED <<op, forgotten>>
    BY <1>3 DEF Stored!Edit, Stored!history
  <2>4. f # "devices"
    BY <2>2, EditsFit
  <2>5. /\ mem'["devices"] = mem["devices"] /\ behind'["devices"] = behind["devices"]
        /\ behind'["profiles"] = "never" => behind["profiles"] = "never"
    BY <1>1, <2>2, <2>4, CommitFacts
  <2>6. mem'["profiles"].panes \subseteq mem["profiles"].panes \cup DOMAIN mem["devices"]
    <3>1. CASE f # "profiles"
      BY <1>1, <2>2, <3>1, CommitFacts
    <3>2. CASE f = "profiles"
      <4>1. mem'["profiles"] = c /\ c \in Stored!ProfileEdits
        BY <1>1, <2>2, <3>2, CommitFacts DEF Stored!Edits
      <4> DEFINE p == mem["profiles"]
      <4>2. \/ \E s \in SUBSET DOMAIN mem["devices"] : c = [p EXCEPT !.saved = TRUE, !.panes = s, !.v1 = FALSE]
            \/ c = Stored!Deleted(p) \/ c = [p EXCEPT !.default = TRUE, !.v1 = FALSE]
            \/ c = [p EXCEPT !.default = FALSE, !.v1 = FALSE]
        BY <4>1 DEF Stored!ProfileEdits
      <4>3. p \in Fits("profiles")
        BY <1>1
      <4> HIDE DEF p
      <4>4. /\ \A s : [p EXCEPT !.saved = TRUE, !.panes = s, !.v1 = FALSE].panes = s
            /\ Stored!Deleted(p).panes = {}
            /\ [p EXCEPT !.default = TRUE, !.v1 = FALSE].panes = p.panes
            /\ [p EXCEPT !.default = FALSE, !.v1 = FALSE].panes = p.panes
        BY <4>3, ContentsOf DEF Stored!Deleted
      <4>5. c.panes \subseteq p.panes \cup DOMAIN mem["devices"]
        <5>1. ASSUME NEW s \in SUBSET DOMAIN mem["devices"],
                     c = [p EXCEPT !.saved = TRUE, !.panes = s, !.v1 = FALSE]
              PROVE  c.panes \subseteq DOMAIN mem["devices"]
          BY ONLY <4>4, <5>1
        <5>2. CASE c = Stored!Deleted(p)
          BY ONLY <4>4, <5>2
        <5>3. CASE c = [p EXCEPT !.default = TRUE, !.v1 = FALSE] \/ c = [p EXCEPT !.default = FALSE, !.v1 = FALSE]
          BY ONLY <4>4, <5>3
        <5> QED
          BY <4>2, <5>1, <5>2, <5>3
      <4> QED
        BY <4>1, <4>5 DEF p
    <3> QED
      BY <3>1, <3>2
  <2> QED
    BY <1>2, <2>3, <2>5, <2>6 DEF ForgettingInv, NeverBehind, Gone, Saving, Deleting
<1>4. CASE Stored!ImportProfile
  <2>1. PICK s \in SUBSET Ids :
          /\ Stored!Commit("profiles", [mem["profiles"] EXCEPT !.saved = TRUE, !.panes = s, !.v1 = FALSE])
          /\ forgotten' = forgotten \ s /\ UNCHANGED op
    BY <1>4 DEF Stored!ImportProfile
  <2> DEFINE c == [mem["profiles"] EXCEPT !.saved = TRUE, !.panes = s, !.v1 = FALSE]
  <2>2. c.panes = s
    BY <1>1, ContentsOf
  <2>3. Stored!Commit("profiles", c)
    BY <2>1
  <2> HIDE DEF c
  <2>4. /\ mem'["profiles"] = c /\ (behind'["profiles"] = "never" => behind["profiles"] = "never")
        /\ mem'["devices"] = mem["devices"] /\ behind'["devices"] = behind["devices"]
    BY <1>1, <2>3, CommitFacts
  <2>5. /\ mem'["devices"] = mem["devices"] /\ behind'["devices"] = behind["devices"]
        /\ mem'["profiles"].panes = s /\ (behind'["profiles"] = "never" => behind["profiles"] = "never")
    BY <2>2, <2>4
  <2>6. (op' = op /\ forgotten' = forgotten \ s) /\ (NeverBehind' => NeverBehind)
    BY <2>1, <2>5 DEF NeverBehind
  <2>7. NeverBehind' => \A i \in forgotten' : Gone(i)'
    BY <1>2, <2>5, <2>6 DEF ForgettingInv, Gone
  <2> QED
    BY <1>2, <2>6, <2>7 DEF ForgettingInv, Saving, Deleting
<1>5. CASE Stored!Preview
  <2>1. op'.do = "confirm" /\ UNCHANGED <<mem, behind, forgotten>>
    BY <1>5 DEF Stored!Preview, Stored!history
  <2> QED
    BY <1>2, <2>1 DEF ForgettingInv, NeverBehind, Gone, Saving, Deleting
<1>6. CASE Stored!StartSave
  <2>1. PICK i \in Ids, dev \in Devices, typed \in BOOLEAN :
          /\ dev.jump \in {NoOne} \cup DOMAIN mem["devices"]
          /\ op' = [do |-> "secret", id |-> i, device |-> dev, typed |-> typed /\ Stored!HasSecret(dev)]
          /\ forgotten' = forgotten \ {i} /\ UNCHANGED <<mem, behind>>
    BY <1>6 DEF Stored!StartSave
  <2>2. NoOne \notin forgotten
    BY StoresAssumption DEF KeysTyped, Stored!StoresConstants
  <2>3. NeverBehind => dev.jump \notin forgotten
    BY <2>1, <2>2 DEF ForgettingInv, Gone
  <2>4. op'.do = "secret" /\ op'.id = i /\ op'.device = dev
    BY <2>1, Zenon
  <2>5. forgotten' = forgotten \ {i} /\ UNCHANGED <<mem, behind>>
    BY <2>1
  <2> QED
    BY <1>2, <2>3, <2>4, <2>5 DEF ForgettingInv, NeverBehind, Gone, Saving, Deleting
<1>7. CASE Stored!StartDelete
  <2>1. PICK i \in DOMAIN mem["devices"] :
          /\ Stored!Commit("devices", Stored!Minus(mem["devices"], i))
          /\ op' = [do |-> "forget", id |-> i, failed |-> FALSE] /\ UNCHANGED forgotten
    BY <1>7 DEF Stored!StartDelete, Stored!history
  <2>2. mem["devices"] \in Stored!Maps(Ids, Devices)
    BY MemFacts
  <2>3. /\ mem'["devices"] = Stored!Minus(mem["devices"], i) /\ mem'["profiles"] = mem["profiles"]
        /\ behind'["profiles"] = behind["profiles"] /\ (behind'["devices"] = "never" => behind["devices"] = "never")
    BY <1>1, <2>1, CommitFacts
  <2>4. /\ DOMAIN mem'["devices"] = DOMAIN mem["devices"] \ {i}
        /\ \A j \in DOMAIN mem'["devices"] : mem'["devices"][j] = mem["devices"][j]
    BY <2>3 DEF Stored!Minus
  <2>5. op'.do = "forget" /\ op'.id = i
    BY <2>1
  <2> QED
    BY <1>2, <2>1, <2>3, <2>4, <2>5 DEF ForgettingInv, NeverBehind, Gone, Saving, Deleting
<1> QED
  BY <1>3, <1>4, <1>5, <1>6, <1>7

\* What a cleanup leaves of the command it is of.
LEMMA CleanupOp ==
  ASSUME OpTyped, Deleting, NEW step, NEW failed \in BOOLEAN, Stored!NextCleanup(step, failed)
  PROVE  op'.do = step /\ op'.id = op.id /\ op'.failed = (op.failed \/ failed)
<1>1. op \in [do : {"forget", "panes", "jumps"}, id : Ids, failed : BOOLEAN]
  BY DEF OpTyped, Deleting
<1>2. op' = [do |-> step, id |-> op.id, failed |-> op.failed \/ failed]
  BY <1>1 DEF Stored!NextCleanup
<1> QED
  BY <1>2, Zenon

\* A save brings back only the device it is of, which it took off the history.
LEMMA SaveForgets ==
  ASSUME FilesInv, OpTyped, KeysTyped, ForgettingInv, Stored!SaveSecret \/ Stored!SaveDevice
  PROVE  ForgettingInv'
<1>1. op \in [do : {"secret", "device"}, id : Ids, device : Devices, typed : BOOLEAN]
  BY DEF OpTyped, Stored!SaveSecret, Stored!SaveDevice
<1>2. Saving /\ op.id \notin forgotten /\ forgotten' = forgotten
  BY DEF ForgettingInv, Saving, Stored!SaveSecret, Stored!SaveDevice
<1>3. CASE Stored!SaveSecret
  <2>1. /\ \A i \in forgotten : keyring'[i] = keyring[i]
        /\ UNCHANGED <<mem, behind>>
    BY <1>1, <1>2, <1>3 DEF Stored!SaveSecret, KeysTyped
  <2>2. \/ op'.do = "nothing"
        \/ op'.do = "device" /\ op'.id = op.id /\ op'.device = op.device
    BY <1>1, <1>3 DEF Stored!SaveSecret, Stored!Idle
  <2> QED
    BY <1>2, <2>1, <2>2 DEF ForgettingInv, NeverBehind, Gone, Saving, Deleting
<1>4. CASE Stored!SaveDevice
  <2>1. op'.do = "nothing" /\ \A i \in forgotten : keyring'[i] = keyring[i]
    BY <1>1, <1>2, <1>4 DEF Stored!SaveDevice, KeysTyped, Stored!Idle
  <2>2. CASE UNCHANGED <<mem, behind>>
    BY <1>2, <2>1, <2>2 DEF ForgettingInv, NeverBehind, Gone, Saving, Deleting
  <2>3. CASE Stored!Commit("devices", Stored!With(mem["devices"], op.id, op.device))
    <3>1. {"devices", "profiles"} \subseteq Stored!ConfigFiles
      BY FileNames
    <3>2. /\ mem'["devices"] = Stored!With(mem["devices"], op.id, op.device) /\ mem'["profiles"] = mem["profiles"]
          /\ behind'["profiles"] = behind["profiles"] /\ (behind'["devices"] = "never" => behind["devices"] = "never")
      BY <2>3, <3>1, CommitFacts
    <3>3. /\ DOMAIN mem'["devices"] = DOMAIN mem["devices"] \cup {op.id}
          /\ \A j \in DOMAIN mem'["devices"] :
               mem'["devices"][j] = IF j = op.id THEN op.device ELSE mem["devices"][j]
      BY <3>2 DEF Stored!With
    <3>4. ASSUME NeverBehind', NEW i \in forgotten PROVE Gone(i)'
      <4>1. NeverBehind /\ Gone(i) /\ op.device.jump # i /\ op.id # i
        BY <1>2, <3>2, <3>4 DEF ForgettingInv, NeverBehind
      <4> QED
        BY <2>1, <3>2, <3>3, <4>1 DEF Gone
    <3> QED
      BY <1>2, <2>1, <3>4 DEF ForgettingInv, Saving, Deleting
  <2> QED
    BY <1>4, <2>2, <2>3 DEF Stored!SaveDevice, Stored!WriteFails
<1> QED
  BY <1>3, <1>4

\* The cleanups of a delete, before the last.
LEMMA CleanupForgets ==
  ASSUME FilesInv, OpTyped, KeysTyped, ForgettingInv, Stored!ForgetSecret \/ Stored!ClearPanes
  PROVE  ForgettingInv'
<1>1. Deleting /\ op.id \in Ids /\ forgotten' = forgotten
  BY DEF OpTyped, Deleting, Stored!ForgetSecret, Stored!ClearPanes, Stored!history
<1>2. CASE Stored!ForgetSecret
  <2>1. UNCHANGED <<mem, behind>> /\ \A i \in Ids : keyring[i] = NoOne => keyring'[i] = NoOne
    BY <1>1, <1>2 DEF Stored!ForgetSecret, KeysTyped
  <2>2. \/ Stored!NextCleanup("panes", FALSE) /\ keyring'[op.id] = NoOne
        \/ Stored!NextCleanup("panes", TRUE)
    BY <1>1, <1>2 DEF Stored!ForgetSecret, KeysTyped
  <2>3. op'.do = "panes" /\ op'.id = op.id /\ (~op'.failed => keyring'[op.id] = NoOne)
    BY <1>1, <2>2, CleanupOp
  <2> QED
    BY <1>1, <2>1, <2>3 DEF ForgettingInv, NeverBehind, Gone, Saving, Deleting, KeysTyped
<1>3. CASE Stored!ClearPanes
  <2> DEFINE p == mem["profiles"]
  <2>1. {"devices", "profiles"} \subseteq Stored!ConfigFiles /\ p \in Fits("profiles")
    BY FileNames DEF FilesInv, FilesTyped
  <2> HIDE DEF p
  <2>2. [p EXCEPT !.panes = @ \ {op.id}, !.v1 = FALSE].panes = p.panes \ {op.id}
    BY <2>1, ContentsOf
  <2>3. \/ /\ Stored!Commit("profiles", [p EXCEPT !.panes = @ \ {op.id}, !.v1 = FALSE])
           /\ Stored!NextCleanup("jumps", FALSE)
        \/ op.id \notin p.panes /\ Stored!NextCleanup("jumps", FALSE) /\ UNCHANGED <<mem, behind>>
        \/ Stored!NextCleanup("jumps", TRUE) /\ UNCHANGED <<mem, behind>>
    BY <1>3 DEF Stored!ClearPanes, Stored!WriteFails, p
  <2>4. /\ mem'["devices"] = mem["devices"] /\ mem'["profiles"].panes \subseteq p.panes
        /\ behind'["devices"] = behind["devices"] /\ (behind'["profiles"] = "never" => behind["profiles"] = "never")
        /\ Stored!NextCleanup("jumps", TRUE) \/
             (Stored!NextCleanup("jumps", FALSE) /\ op.id \notin mem'["profiles"].panes)
    <3>1. CASE /\ UNCHANGED <<mem, behind>>
               /\ \/ op.id \notin p.panes /\ Stored!NextCleanup("jumps", FALSE)
                  \/ Stored!NextCleanup("jumps", TRUE)
      BY <3>1 DEF p
    <3>2. CASE /\ Stored!Commit("profiles", [p EXCEPT !.panes = @ \ {op.id}, !.v1 = FALSE])
               /\ Stored!NextCleanup("jumps", FALSE)
      <4>1. mem'["profiles"].panes = p.panes \ {op.id}
        BY <2>1, <2>2, <3>2, CommitFacts
      <4>2. /\ mem'["devices"] = mem["devices"] /\ behind'["devices"] = behind["devices"]
            /\ behind'["profiles"] = "never" => behind["profiles"] = "never"
        BY <2>1, <3>2, CommitFacts
      <4> QED
        BY <3>2, <4>1, <4>2
    <3> QED
      BY <2>3, <3>1, <3>2
  <2>5. op'.do = "jumps" /\ op'.id = op.id /\ (~op'.failed => ~op.failed /\ op.id \notin mem'["profiles"].panes)
    BY <1>1, <2>4, CleanupOp
  <2>6. keyring' = keyring /\ op.do = "panes"
    BY <1>3 DEF Stored!ClearPanes
  <2> QED
    BY <1>1, <2>4, <2>5, <2>6 DEF ForgettingInv, NeverBehind, Gone, Saving, Deleting, p
<1> QED
  BY <1>2, <1>3

\* What clearing the devices that jump through one leaves of them.
LEMMA ClearJumpsFacts ==
  ASSUME FilesInv, OpTyped, Stored!ClearJumps
  PROVE  /\ DOMAIN mem'["devices"] = DOMAIN mem["devices"] /\ mem'["profiles"] = mem["profiles"]
         /\ behind'["profiles"] = behind["profiles"] /\ (behind'["devices"] = "never" => behind["devices"] = "never")
         /\ op.id \in Ids /\ op'.do = "nothing"
         /\ \/ UNCHANGED <<mem, keyring>> /\ (forgotten' = forgotten \/ Stored!Jumping(op.id) = {})
            \/ /\ \A j \in DOMAIN mem["devices"] :
                    mem'["devices"][j] = IF mem["devices"][j].jump = op.id
                                         THEN [mem["devices"][j] EXCEPT !.jump = NoOne] ELSE mem["devices"][j]
               /\ keyring' = [j \in Ids |-> IF j \in Stored!Jumping(op.id) /\ keyring[j] # NoOne
                                            THEN [keyring[j] EXCEPT !.jump = NoOne] ELSE keyring[j]]
         /\ forgotten' \in {forgotten, forgotten \cup {op.id}} /\ (op.failed => forgotten' = forgotten)
<1> DEFINE js == Stored!Jumping(op.id)
           g == [j \in DOMAIN mem["devices"] |->
                  IF j \in js THEN [mem["devices"][j] EXCEPT !.jump = NoOne] ELSE mem["devices"][j]]
           cleared == [j \in Ids |-> IF j \in js /\ keyring[j] # NoOne
                                     THEN [keyring[j] EXCEPT !.jump = NoOne] ELSE keyring[j]]
<1>1. op.id \in Ids /\ op'.do = "nothing"
  BY DEF OpTyped, Stored!ClearJumps, Stored!Idle
<1>2. {"devices", "profiles"} \subseteq Stored!ConfigFiles
  BY FileNames
<1>3. forgotten' \in {forgotten, forgotten \cup {op.id}} /\ (op.failed => forgotten' = forgotten)
  BY DEF Stored!ClearJumps
<1>4. \/ Stored!Commit("devices", g) /\ keyring' = cleared
      \/ UNCHANGED <<mem, behind, keyring>> /\ (forgotten' = forgotten \/ js = {})
  BY DEF Stored!ClearJumps, Stored!WriteFails
<1>5. /\ DOMAIN g = DOMAIN mem["devices"]
      /\ \A j \in DOMAIN mem["devices"] :
           g[j] = IF mem["devices"][j].jump = op.id
                  THEN [mem["devices"][j] EXCEPT !.jump = NoOne] ELSE mem["devices"][j]
  BY DEF Stored!Jumping
<1> HIDE DEF g
<1>6. ASSUME Stored!Commit("devices", g)
      PROVE  /\ mem'["devices"] = g /\ mem'["profiles"] = mem["profiles"]
             /\ behind'["profiles"] = behind["profiles"]
             /\ behind'["devices"] = "never" => behind["devices"] = "never"
  BY <1>2, <1>6, CommitFacts
<1> QED
  BY <1>1, <1>3, <1>4, <1>5, <1>6

\* The last cleanup: the device is nowhere, or the delete isn't reported as done.
LEMMA JumpsForget ==
  ASSUME FilesInv, OpTyped, KeysTyped, ForgettingInv, Stored!ClearJumps
  PROVE  ForgettingInv'
<1>1. op.do = "jumps" /\ op'.do = "nothing" /\ op.id \in Ids
  BY ClearJumpsFacts DEF Stored!ClearJumps
<1>2. NoOne \notin Ids /\ forgotten \subseteq Ids
  BY StoresAssumption DEF Stored!StoresConstants, KeysTyped
<1>3. ASSUME NeverBehind', NEW i \in forgotten' PROVE Gone(i)'
  <2>1. NeverBehind /\ i \in Ids
    BY <1>2, <1>3, ClearJumpsFacts DEF NeverBehind
  <2>2. /\ keyring[i] = NoOne /\ i \notin mem["profiles"].panes /\ i \notin DOMAIN mem["devices"]
        /\ i = op.id \/ \A j \in DOMAIN mem["devices"] : mem["devices"][j].jump # i
    <3>1. CASE i \in forgotten
      BY <2>1, <3>1 DEF ForgettingInv, Gone
    <3>2. CASE i = op.id /\ ~op.failed
      BY <1>1, <2>1, <3>2 DEF ForgettingInv, Deleting
    <3> QED
      BY <1>3, <3>1, <3>2, ClearJumpsFacts
  <2>3. keyring'[i] = NoOne /\ i \notin mem'["profiles"].panes /\ i \notin DOMAIN mem'["devices"]
    BY <2>1, <2>2, ClearJumpsFacts
  <2>4. ASSUME NEW j \in DOMAIN mem'["devices"] PROVE mem'["devices"][j].jump # i
    <3>1. j \in DOMAIN mem["devices"] /\ mem["devices"][j] \in Devices
      BY <2>4, ClearJumpsFacts, MemFacts, MapsFacts
    <3>2. [mem["devices"][j] EXCEPT !.jump = NoOne].jump = NoOne /\ NoOne # i
      BY <1>2, <2>1, <3>1, DeviceFacts
    <3>3. CASE UNCHANGED mem /\ (forgotten' = forgotten \/ Stored!Jumping(op.id) = {})
      <4>1. i \in forgotten \/ Stored!Jumping(op.id) = {}
        BY <1>3, <3>3
      <4>2. i \in forgotten => Gone(i)
        BY <2>1 DEF ForgettingInv
      <4> QED
        BY <2>2, <3>1, <3>3, <4>1, <4>2 DEF Stored!Jumping, Gone
    <3>4. CASE mem'["devices"][j] = IF mem["devices"][j].jump = op.id
                                    THEN [mem["devices"][j] EXCEPT !.jump = NoOne] ELSE mem["devices"][j]
      <4>1. CASE mem["devices"][j].jump = op.id
        BY <3>2, <3>4, <4>1
      <4>2. CASE mem["devices"][j].jump # op.id
        BY <2>2, <3>1, <3>4, <4>2
      <4> QED
        BY <4>1, <4>2
    <3> QED
      BY <3>1, <3>3, <3>4, ClearJumpsFacts
  <2> QED
    BY <2>3, <2>4 DEF Gone
<1> QED
  BY <1>1, <1>3 DEF ForgettingInv, Saving, Deleting

\* What an import adds is taken off the history.
LEMMA ImportForgets ==
  ASSUME FilesInv, OpTyped, KeysTyped, ForgettingInv,
         Stored!StartImport \/ Stored!DropSecret \/ Stored!AddDevice \/ Stored!Others
  PROVE  ForgettingInv'
<1>1. CASE Stored!StartImport
  <2>1. op'.do \in {"drop", "nothing"} /\ UNCHANGED <<mem, behind, keyring, forgotten>>
    BY <1>1 DEF Stored!StartImport, Stored!Idle, Stored!history
  <2> QED
    BY <2>1 DEF ForgettingInv, NeverBehind, Gone, Saving, Deleting
<1>2. CASE Stored!DropSecret
  <2> DEFINE d == op.file[op.n]
  <2>1. op.do = "drop" /\ UNCHANGED <<mem, behind, forgotten>>
    BY <1>2 DEF Stored!DropSecret
  <2>2. op'.do \in {"nothing", "drop", "add"}
    <3>1. \/ Stored!Idle \/ op' = [op EXCEPT !.n = @ + 1] \/ op' = [op EXCEPT !.do = "add", !.n = 1]
      BY <1>2 DEF Stored!DropSecret
    <3> QED
      BY <2>1, <3>1, ImportOp DEF Stored!Idle
  <2>3. keyring' = keyring \/ keyring' = [keyring EXCEPT ![d.id] = NoOne]
    BY <1>2 DEF Stored!DropSecret
  <2> HIDE DEF d
  <2>4. \A i \in forgotten : keyring[i] = NoOne => keyring'[i] = NoOne
    BY <2>3 DEF KeysTyped
  <2> QED
    BY <2>1, <2>2, <2>4 DEF ForgettingInv, NeverBehind, Gone, Saving, Deleting
<1>3. CASE Stored!AddDevice
  <2> DEFINE d == op.file[op.n]
  <2>1. op.do = "add" /\ keyring' = keyring
    BY <1>3 DEF Stored!AddDevice
  <2>2. op'.do \in {"nothing", "add"}
    <3>1. Stored!Idle \/ op' = [op EXCEPT !.n = @ + 1]
      BY <1>3 DEF Stored!AddDevice
    <3> QED
      BY <2>1, <3>1, ImportOp DEF Stored!Idle
  <2>3. \/ UNCHANGED <<mem, behind, forgotten>>
        \/ /\ Stored!Commit("devices", Stored!With(mem["devices"], d.id, d.device))
           /\ forgotten' = forgotten \ {d.id, d.device.jump}
    BY <1>3 DEF Stored!AddDevice, Stored!WriteFails
  <2> HIDE DEF d
  <2>4. CASE UNCHANGED <<mem, behind, forgotten>>
    BY <2>1, <2>2, <2>4 DEF ForgettingInv, NeverBehind, Gone, Saving, Deleting
  <2>5. CASE /\ Stored!Commit("devices", Stored!With(mem["devices"], d.id, d.device))
             /\ forgotten' = forgotten \ {d.id, d.device.jump}
    <3>1. {"devices", "profiles"} \subseteq Stored!ConfigFiles
      BY FileNames
    <3>2. /\ mem'["devices"] = Stored!With(mem["devices"], d.id, d.device) /\ mem'["profiles"] = mem["profiles"]
          /\ behind'["profiles"] = behind["profiles"] /\ (behind'["devices"] = "never" => behind["devices"] = "never")
      BY <2>5, <3>1, CommitFacts
    <3>3. /\ DOMAIN mem'["devices"] = DOMAIN mem["devices"] \cup {d.id}
          /\ \A j \in DOMAIN mem'["devices"] :
               mem'["devices"][j] = IF j = d.id THEN d.device ELSE mem["devices"][j]
      BY <3>2 DEF Stored!With
    <3>4. ASSUME NeverBehind', NEW i \in forgotten' PROVE Gone(i)'
      <4>1. NeverBehind /\ Gone(i) /\ d.device.jump # i /\ d.id # i
        BY <2>5, <3>2, <3>4 DEF ForgettingInv, NeverBehind
      <4> QED
        BY <2>1, <3>2, <3>3, <4>1 DEF Gone
    <3> QED
      BY <2>2, <3>4 DEF ForgettingInv, Saving, Deleting
  <2> QED
    BY <2>3, <2>4, <2>5
<1>4. CASE Stored!Others
  <2>1. behind'["devices"] = "now" /\ op' = op /\ forgotten' \subseteq forgotten
    BY <1>4, FileNames DEF Stored!Others, FilesInv, FilesTyped
  <2> QED
    BY <2>1 DEF ForgettingInv, NeverBehind, Saving
<1> QED
  BY <1>1, <1>2, <1>3, <1>4

\* Every step keeps what was deleted forgotten.
LEMMA ForgettingStep ==
  ASSUME FilesInv, FilesInv', OpTyped, KeysTyped, ForgettingInv, [Stored!Next]_Stored!vars
  PROVE  ForgettingInv'
BY QuietSteps, QuietForgets, UserForgets, SaveForgets, CleanupForgets, JumpsForget, ImportForgets
DEF Stored!Next, Stored!User, Stored!Steps, Stored!Reload

(* --------------------------- whose a secret is --------------------------- *)

\* There is no secret, or it is the device's.
MeantFor(i, dev) == keyring[i] = NoOne \/ keyring[i] = Stored!SecretFor(dev)
\* The import may save the device with the secret stored.
Entrusted(d) == d.id \in loose \/ MeantFor(d.id, d.device)
\* Secrets are those of the devices as saved; an import has checked the devices
\* before the one it is at against what was saved, and all before it adds any.
SecretsInv ==
  behind["devices"] = "never" =>
  /\ \A i \in DOMAIN mem["devices"] : i \in loose \/ MeantFor(i, mem["devices"][i])
  /\ op.do = "secret" => op.id \in DOMAIN mem["devices"] \/ keyring[op.id] = NoOne
  /\ op.do = "device" => \/ op.id \in loose \/ keyring[op.id] = NoOne
                         \/ keyring[op.id].method = op.device.method
  /\ op.do = "drop" => /\ op.saved = mem["devices"]
                       /\ \A m \in 1 .. (op.n - 1) : Entrusted(op.file[m])
  /\ op.do = "add" => \A m \in 1 .. Len(op.file) : Entrusted(op.file[m])

\* Quiet steps change no secret and no device.
LEMMA QuietSecrets ==
  ASSUME SecretsInv, Quiet
  PROVE  SecretsInv'
<1>1. /\ behind'["devices"] = "never" => behind["devices"] = "never" /\ mem'["devices"] = mem["devices"]
      /\ UNCHANGED <<keyring, loose>>
  BY DEF Quiet, DevicesHeld
<1>2. CASE op' = op
  BY <1>1, <1>2 DEF SecretsInv, MeantFor, Entrusted
<1>3. CASE op' = [do |-> "nothing"]
  BY <1>1, <1>3 DEF SecretsInv, MeantFor
<1> QED
  BY <1>2, <1>3 DEF Quiet

\* Neither do these, but a save that begins, an import that does, and a delete.
LEMMA UserSecrets ==
  ASSUME FilesInv, OpTyped, SecretsInv,
         \/ Stored!Edit \/ Stored!ImportProfile \/ Stored!Preview \/ Stored!StartSave \/ Stored!StartDelete
         \/ Stored!StartImport \/ Stored!ClearPanes \/ Stored!Others
  PROVE  SecretsInv'
<1>1. {"devices", "profiles"} \subseteq Stored!ConfigFiles
  BY FileNames
<1> DEFINE Kept == /\ behind'["devices"] = "never" => behind["devices"] = "never" /\ mem'["devices"] = mem["devices"]
                   /\ UNCHANGED <<keyring, loose>>
<1>2. ASSUME Kept, op'.do \notin {"secret", "device", "drop", "add"} PROVE SecretsInv'
  BY <1>2 DEF SecretsInv, MeantFor
<1>3. CASE Stored!Edit
  <2>1. PICK f \in Stored!ConfigFiles : \E c \in Stored!Edits(f) : Stored!Commit(f, c)
    BY <1>3 DEF Stored!Edit
  <2>2. f # "devices"
    BY <2>1, EditsFit
  <2>3. Kept
    BY <1>1, <1>3, <2>1, <2>2, CommitFacts DEF Stored!Edit, Stored!history
  <2>4. op'.do = "nothing"
    BY <1>3 DEF Stored!Edit
  <2> QED
    BY <1>2, <2>3, <2>4
<1>4. CASE Stored!ImportProfile
  <2>1. PICK c : Stored!Commit("profiles", c)
    BY <1>4 DEF Stored!ImportProfile
  <2>2. UNCHANGED <<keyring, loose>> /\ op'.do = "nothing"
    BY <1>4 DEF Stored!ImportProfile
  <2>3. mem'["devices"] = mem["devices"] /\ behind'["devices"] = behind["devices"]
    BY <1>1, <2>1, CommitFacts
  <2> QED
    BY <1>2, <2>2, <2>3
<1>5. CASE Stored!Preview
  BY <1>2, <1>5 DEF Stored!Preview, Stored!history
<1>6. CASE Stored!StartSave
  <2>1. PICK i \in Ids, dev \in Devices, typed \in BOOLEAN :
          /\ i \in DOMAIN mem["devices"] \/ i \in Stored!Unused
          /\ op' = [do |-> "secret", id |-> i, device |-> dev, typed |-> typed /\ Stored!HasSecret(dev)]
          /\ UNCHANGED <<mem, keyring, behind, loose>>
    BY <1>6 DEF Stored!StartSave
  <2>2. op'.do = "secret" /\ op'.id = i
    BY <2>1, Zenon
  <2>3. i \in DOMAIN mem["devices"] \/ keyring[i] = NoOne
    BY <2>1 DEF Stored!Unused
  <2> QED
    BY <2>1, <2>2, <2>3 DEF SecretsInv, MeantFor
<1>7. CASE Stored!StartDelete
  <2>1. PICK i \in DOMAIN mem["devices"] : Stored!Commit("devices", Stored!Minus(mem["devices"], i))
    BY <1>7 DEF Stored!StartDelete
  <2>2. op'.do = "forget" /\ UNCHANGED <<keyring, loose>>
    BY <1>7 DEF Stored!StartDelete, Stored!history
  <2>3. mem'["devices"] = Stored!Minus(mem["devices"], i) /\ (behind'["devices"] = "never" => behind["devices"] = "never")
    BY <1>1, <2>1, CommitFacts
  <2>4. \A j \in DOMAIN mem'["devices"] : j \in DOMAIN mem["devices"] /\ mem'["devices"][j] = mem["devices"][j]
    BY <2>3 DEF Stored!Minus
  <2> QED
    BY <2>2, <2>3, <2>4 DEF SecretsInv, MeantFor
<1>8. CASE Stored!StartImport
  <2>1. UNCHANGED <<mem, keyring, behind, loose>>
    BY <1>8 DEF Stored!StartImport, Stored!history
  <2>2. CASE Stored!Idle
    BY <1>2, <2>1, <2>2 DEF Stored!Idle
  <2>3. CASE \E d \in Imports : op' = [do |-> "drop", file |-> d, n |-> 1,
                                       saved |-> mem["devices"], confirmed |-> op.confirmed]
    <3>1. op'.do = "drop" /\ op'.saved = mem["devices"] /\ op'.n = 1
      BY <2>3
    <3> QED
      BY <2>1, <3>1 DEF SecretsInv, MeantFor
  <2> QED
    BY <1>8, <2>2, <2>3 DEF Stored!StartImport
<1>9. CASE Stored!ClearPanes
  <2>1. UNCHANGED <<mem, behind>> \/ \E c : Stored!Commit("profiles", c)
    BY <1>9 DEF Stored!ClearPanes, Stored!WriteFails
  <2>2. Kept
    BY <1>1, <1>9, <2>1, CommitFacts DEF Stored!ClearPanes, Stored!history
  <2>3. op'.do \notin {"secret", "device", "drop", "add"}
    <3>1. Deleting /\ \E failed \in BOOLEAN : Stored!NextCleanup("jumps", failed)
      BY <1>9 DEF Stored!ClearPanes, Deleting
    <3> QED
      BY <3>1, CleanupOp
  <2> QED
    BY <1>2, <2>2, <2>3
<1>10. CASE Stored!Others
  BY <1>10, FileNames DEF Stored!Others, FilesInv, FilesTyped, SecretsInv
<1> QED
  BY <1>3, <1>4, <1>5, <1>6, <1>7, <1>8, <1>9, <1>10

\* A save: the keyring first, then the device it is for.
LEMMA SaveSecrets ==
  ASSUME FilesInv, OpTyped, KeysTyped, SecretsInv, Stored!SaveSecret \/ Stored!SaveDevice
  PROVE  SecretsInv'
<1>1. /\ op \in [do : {"secret", "device"}, id : Ids, device : Devices, typed : BOOLEAN]
      /\ keyring \in [Ids -> Secrets \cup {NoOne}]
  BY DEF OpTyped, KeysTyped, Stored!SaveSecret, Stored!SaveDevice
<1>2. mem["devices"] \in Stored!Maps(Ids, Devices) /\ {"devices", "profiles"} \subseteq Stored!ConfigFiles
  BY MemFacts
<1>3. CASE Stored!SaveSecret
  <2>1. op.do = "secret" /\ UNCHANGED <<mem, behind>>
    BY <1>3 DEF Stored!SaveSecret
  <2>2. CASE Stored!Idle /\ UNCHANGED <<keyring, loose>>
    BY <2>1, <2>2 DEF SecretsInv, MeantFor, Stored!Idle
  <2>3. CASE /\ keyring' = [keyring EXCEPT ![op.id] = Stored!SecretSaved(op)]
             /\ op' = [op EXCEPT !.do = "device"]
             /\ loose' = IF keyring'[op.id] # keyring[op.id] THEN loose \cup {op.id} ELSE loose
    <3>1. op'.do = "device" /\ op'.id = op.id /\ op'.device = op.device
      BY <1>1, <2>3
    <3>2. /\ \A i \in Ids : i # op.id => keyring'[i] = keyring[i]
          /\ keyring'[op.id] = Stored!SecretSaved(op)
          /\ loose \subseteq loose' /\ (op.id \notin loose' => keyring'[op.id] = keyring[op.id])
      BY <1>1, <2>3
    <3>3. ASSUME behind["devices"] = "never", NEW i \in DOMAIN mem["devices"], i \notin loose'
          PROVE  MeantFor(i, mem["devices"][i])'
      <4>1. keyring'[i] = keyring[i] /\ i \notin loose
        BY <1>2, <3>2, <3>3, MapsFacts
      <4> QED
        BY <2>1, <3>3, <4>1 DEF SecretsInv, MeantFor
    <3>4. ASSUME behind["devices"] = "never", op.id \notin loose', keyring'[op.id] # NoOne
          PROVE  keyring'[op.id].method = op.device.method
      <4>1. CASE op.typed
        BY <3>2, <4>1 DEF Stored!SecretSaved, Stored!SecretFor
      <4>2. CASE ~op.typed
        <5>1. keyring'[op.id] = keyring[op.id] /\ op.id \notin loose
          BY <3>2, <3>4
        <5>2. op.id \in DOMAIN mem["devices"]
          BY <2>1, <3>4, <5>1 DEF SecretsInv
        <5>3. keyring[op.id] = Stored!SecretFor(mem["devices"][op.id])
          BY <3>4, <5>1, <5>2 DEF SecretsInv, MeantFor
        <5>4. mem["devices"][op.id].method = op.device.method
          BY <3>2, <3>4, <4>2, <5>2 DEF Stored!SecretSaved
        <5> QED
          BY <5>1, <5>3, <5>4 DEF Stored!SecretFor
      <4> QED
        BY <4>1, <4>2
    <3> QED
      BY <2>1, <3>1, <3>3, <3>4 DEF SecretsInv
  <2> QED
    BY <1>3, <2>2, <2>3 DEF Stored!SaveSecret
<1>4. CASE Stored!SaveDevice
  <2>1. op.do = "device" /\ op'.do = "nothing"
    BY <1>4 DEF Stored!SaveDevice, Stored!Idle
  <2>2. CASE UNCHANGED <<mem, behind, keyring, loose>>
    BY <2>1, <2>2 DEF SecretsInv, MeantFor
  <2>3. CASE /\ Stored!Commit("devices", Stored!With(mem["devices"], op.id, op.device))
             /\ loose' = IF keyring[op.id] = NoOne \/ keyring[op.id].method = op.device.method
                         THEN loose \ {op.id} ELSE loose
             /\ keyring' = [keyring EXCEPT ![op.id] = IF @ = NoOne THEN @ ELSE Stored!SentTo(@, op.device)]
    <3>1. /\ mem'["devices"] = Stored!With(mem["devices"], op.id, op.device)
          /\ behind'["devices"] = "never" => behind["devices"] = "never"
      BY <1>2, <2>3, CommitFacts
    <3>2. /\ DOMAIN mem'["devices"] = DOMAIN mem["devices"] \cup {op.id}
          /\ \A j \in DOMAIN mem'["devices"] :
               mem'["devices"][j] = IF j = op.id THEN op.device ELSE mem["devices"][j]
      BY <3>1 DEF Stored!With
    <3>3. /\ \A i \in Ids : i # op.id => keyring'[i] = keyring[i] /\ (i \in loose => i \in loose')
          /\ keyring'[op.id] = IF keyring[op.id] = NoOne THEN NoOne ELSE Stored!SentTo(keyring[op.id], op.device)
      BY <1>1, <2>3
    <3>4. ASSUME behind["devices"] = "never", NEW i \in DOMAIN mem["devices"], i # op.id, i \notin loose'
          PROVE  MeantFor(i, mem["devices"][i])'
      <4>1. i \in Ids /\ keyring'[i] = keyring[i] /\ i \notin loose /\ mem'["devices"][i] = mem["devices"][i]
        BY <1>2, <3>2, <3>3, <3>4, MapsFacts
      <4> QED
        BY <3>4, <4>1 DEF SecretsInv, MeantFor
    <3>5. ASSUME behind["devices"] = "never", op.id \notin loose'
          PROVE  keyring'[op.id] = NoOne \/ keyring'[op.id] = Stored!SecretFor(op.device)
      <4>1. keyring[op.id] = NoOne \/ keyring[op.id].method = op.device.method
        BY <2>1, <2>3, <3>5 DEF SecretsInv
      <4> QED
        BY <3>3, <4>1 DEF Stored!SentTo, Stored!SecretFor
    <3>6. ASSUME behind'["devices"] = "never", NEW i \in DOMAIN mem'["devices"], i \notin loose'
          PROVE  MeantFor(i, mem["devices"][i])'
      <4>1. CASE i = op.id
        <5>1. mem'["devices"][i] = op.device
          BY <3>2, <3>6, <4>1
        <5> QED
          BY <3>1, <3>5, <3>6, <4>1, <5>1 DEF MeantFor
      <4>2. CASE i # op.id
        BY <3>1, <3>2, <3>4, <3>6, <4>2
      <4> QED
        BY <4>1, <4>2
    <3> QED
      BY <2>1, <3>6 DEF SecretsInv
  <2> QED
    BY <1>4, <2>2, <2>3 DEF Stored!SaveDevice, Stored!WriteFails
<1> QED
  BY <1>3, <1>4

\* A delete: a secret is gone, and those of devices that jumped are for no jump.
LEMMA DeleteSecrets ==
  ASSUME FilesInv, OpTyped, KeysTyped, SecretsInv, Stored!ForgetSecret \/ Stored!ClearJumps
  PROVE  SecretsInv'
<1>1. CASE Stored!ForgetSecret
  <2>1. Deleting /\ op.id \in Ids /\ UNCHANGED <<mem, behind>>
    BY <1>1 DEF Deleting, OpTyped, Stored!ForgetSecret
  <2>2. op'.do = "panes"
    <3>1. \E failed \in BOOLEAN : Stored!NextCleanup("panes", failed)
      BY <1>1 DEF Stored!ForgetSecret
    <3> QED
      BY <2>1, <3>1, CleanupOp
  <2>3. \A i \in Ids : i \notin loose' => keyring'[i] = NoOne \/ (i \notin loose /\ keyring'[i] = keyring[i])
    BY <1>1, <2>1 DEF Stored!ForgetSecret, KeysTyped
  <2>4. DOMAIN mem["devices"] \subseteq Ids
    BY MemFacts, MapsFacts
  <2> QED
    BY <2>1, <2>2, <2>3, <2>4 DEF SecretsInv, MeantFor
<1>2. CASE Stored!ClearJumps
  <2>1. /\ op'.do = "nothing" /\ DOMAIN mem'["devices"] = DOMAIN mem["devices"] /\ loose' = loose
        /\ behind'["devices"] = "never" => behind["devices"] = "never"
    BY <1>2, ClearJumpsFacts DEF Stored!ClearJumps
  <2>2. ASSUME behind'["devices"] = "never", NEW i \in DOMAIN mem["devices"], i \notin loose
        PROVE  MeantFor(i, mem["devices"][i])'
    <3>1. MeantFor(i, mem["devices"][i])
      BY <2>1, <2>2 DEF SecretsInv
    <3>2. i \in Ids /\ mem["devices"][i] \in Devices
      BY <2>2, MemFacts, MapsFacts
    <3>3. CASE UNCHANGED <<mem, keyring>>
      BY <3>1, <3>3 DEF MeantFor
    <3>4. CASE /\ mem'["devices"][i] = IF mem["devices"][i].jump = op.id
                                       THEN [mem["devices"][i] EXCEPT !.jump = NoOne] ELSE mem["devices"][i]
               /\ keyring' = [j \in Ids |-> IF j \in Stored!Jumping(op.id) /\ keyring[j] # NoOne
                                            THEN [keyring[j] EXCEPT !.jump = NoOne] ELSE keyring[j]]
      <4> DEFINE d == mem["devices"][i]
                 k == keyring[i]
      <4>1. keyring'[i] = IF d.jump = op.id /\ k # NoOne THEN [k EXCEPT !.jump = NoOne] ELSE k
        BY <2>2, <3>2, <3>4 DEF Stored!Jumping
      <4>2. k \in Secrets \cup {NoOne} /\ d \in Devices /\ (k = NoOne \/ k = Stored!SecretFor(d))
        BY <3>1, <3>2 DEF KeysTyped, MeantFor
      <4>3. mem'["devices"][i] = IF d.jump = op.id THEN [d EXCEPT !.jump = NoOne] ELSE d
        BY <3>4
      <4> HIDE DEF d, k
      <4>4. CASE d.jump = op.id /\ k # NoOne
        <5>1. keyring'[i] = [method |-> k.method, target |-> k.target, jump |-> NoOne]
          BY <4>1, <4>2, <4>4, SecretFacts
        <5>2. k.method = d.method /\ k.target = d.target
          BY <4>2, <4>4 DEF Stored!SecretFor
        <5>3. /\ [d EXCEPT !.jump = NoOne].jump = NoOne
              /\ [d EXCEPT !.jump = NoOne].method = d.method /\ [d EXCEPT !.jump = NoOne].target = d.target
          BY <4>2, DeviceFacts
        <5>4. Stored!SecretFor([d EXCEPT !.jump = NoOne]) = [method |-> d.method, target |-> d.target, jump |-> NoOne]
          BY <5>3 DEF Stored!SecretFor
        <5>5. mem'["devices"][i] = [d EXCEPT !.jump = NoOne]
          BY <4>3, <4>4
        <5> QED
          BY <5>1, <5>2, <5>4, <5>5, Zenon DEF MeantFor
      <4>5. CASE d.jump = op.id /\ k = NoOne
        BY <4>1, <4>5 DEF MeantFor
      <4>6. CASE d.jump # op.id
        BY <4>1, <4>2, <4>3, <4>6 DEF MeantFor
      <4> QED
        BY <4>4, <4>5, <4>6
    <3> QED
      BY <1>2, <2>2, <3>3, <3>4, ClearJumpsFacts
  <2> QED
    BY <2>1, <2>2 DEF SecretsInv
<1> QED
  BY <1>1, <1>2

\* What drop_inherited_secret leaves is for what the import brings.
LEMMA DropKeeps ==
  ASSUME FilesInv, OpTyped, KeysTyped, SecretsInv, Stored!DropSecret
  PROVE  SecretsInv'
<1> DEFINE d == op.file[op.n]
<1>1. /\ op.do = "drop" /\ UNCHANGED <<mem, behind>>
      /\ Len(op.file) \in Nat /\ op.n \in 1 .. Len(op.file) /\ op.file \in Imports
  BY ImportOp DEF Stored!DropSecret
<1>2. d.id \in Ids /\ d.device \in Devices
  BY <1>1, ImportFacts
<1>3. \/ op'.do = "nothing"
      \/ op.n < Len(op.file) /\ op'.do = "drop" /\ op'.n = op.n + 1 /\ op'.file = op.file /\ op'.saved = op.saved
      \/ op.n = Len(op.file) /\ op'.do = "add" /\ op'.n = 1 /\ op'.file = op.file
  <2>1. \/ Stored!Idle
        \/ op.n < Len(op.file) /\ op' = [op EXCEPT !.n = @ + 1]
        \/ ~(op.n < Len(op.file)) /\ op' = [op EXCEPT !.do = "add", !.n = 1]
    BY DEF Stored!DropSecret
  <2>2. Stored!Idle => op'.do = "nothing"
    BY DEF Stored!Idle
  <2> QED
    BY <1>1, <2>1, <2>2, ImportOp
<1>4. \/ /\ d.id \in DOMAIN op.saved /\ Stored!SameTarget(op.saved[d.id], d.device)
         /\ UNCHANGED <<keyring, loose>>
      \/ keyring' = [keyring EXCEPT ![d.id] = NoOne] /\ loose' = loose \ {d.id}
      \/ loose' = loose \cup {d.id} /\ UNCHANGED keyring
  BY DEF Stored!DropSecret
<1> HIDE DEF d
<1>5. \A i \in Ids : (i \in loose \/ keyring[i] = NoOne) => (i \in loose' \/ keyring'[i] = NoOne)
  BY <1>2, <1>4 DEF KeysTyped
<1>6. \A i \in Ids : i \in loose' \/ keyring'[i] = NoOne \/ (i \notin loose' /\ i \notin loose /\ keyring'[i] = keyring[i])
                     \/ (i \in loose /\ i \in loose')
  BY <1>2, <1>4 DEF KeysTyped
<1>7. ASSUME NEW i \in Ids, NEW dev, i \in loose \/ MeantFor(i, dev)
      PROVE  i \in loose' \/ keyring'[i] = NoOne \/ keyring'[i] = Stored!SecretFor(dev)
  BY <1>5, <1>6, <1>7 DEF MeantFor
<1>8. ASSUME behind["devices"] = "never"
      PROVE  d.id \in loose' \/ keyring'[d.id] = NoOne \/ keyring'[d.id] = Stored!SecretFor(d.device)
  <2>1. CASE /\ d.id \in DOMAIN op.saved /\ Stored!SameTarget(op.saved[d.id], d.device)
             /\ UNCHANGED <<keyring, loose>>
    <3>1. op.saved = mem["devices"]
      BY <1>1, <1>8 DEF SecretsInv
    <3>2. d.id \in loose \/ keyring[d.id] = NoOne \/ keyring[d.id] = Stored!SecretFor(op.saved[d.id])
      BY <1>8, <2>1, <3>1 DEF SecretsInv, MeantFor
    <3>3. keyring[d.id] # NoOne => keyring[d.id].method # "serial"
      BY <1>2 DEF KeysTyped, Secrets
    <3>4. Stored!SecretFor(op.saved[d.id]).method = op.saved[d.id].method
      BY DEF Stored!SecretFor
    <3> QED
      BY <2>1, <3>2, <3>3, <3>4 DEF Stored!SameTarget
  <2> QED
    BY <1>2, <1>4, <2>1 DEF KeysTyped
<1>9. DOMAIN mem["devices"] \subseteq Ids /\ \A m \in 1 .. Len(op.file) : op.file[m].id \in Ids
  BY <1>1, MemFacts, MapsFacts, ImportFacts
<1>10. ASSUME behind["devices"] = "never", NEW m \in 1 .. op.n
       PROVE  \/ op.file[m].id \in loose' \/ keyring'[op.file[m].id] = NoOne
              \/ keyring'[op.file[m].id] = Stored!SecretFor(op.file[m].device)
  <2>1. CASE m = op.n
    BY <1>8, <1>10, <2>1 DEF d
  <2>2. CASE m # op.n
    <3>1. Entrusted(op.file[m])
      BY <1>1, <1>10, <2>2 DEF SecretsInv
    <3>2. op.file[m].id \in Ids
      BY <1>1, <1>9
    <3> QED
      BY <1>7, <3>1, <3>2 DEF Entrusted
  <2> QED
    BY <2>1, <2>2
<1>11. ASSUME behind["devices"] = "never", NEW i \in DOMAIN mem["devices"]
       PROVE  i \in loose' \/ keyring'[i] = NoOne \/ keyring'[i] = Stored!SecretFor(mem["devices"][i])
  BY <1>7, <1>9, <1>11 DEF SecretsInv
<1>12. ASSUME behind["devices"] = "never" PROVE SecretsInv'
  <2>1. CASE op'.do = "nothing"
    BY <1>1, <1>11, <1>12, <2>1 DEF SecretsInv, MeantFor
  <2>2. CASE op.n < Len(op.file) /\ op'.do = "drop" /\ op'.n = op.n + 1 /\ op'.file = op.file /\ op'.saved = op.saved
    <3>1. op'.n - 1 = op.n /\ op'.saved = mem'["devices"]
      BY <1>1, <1>12, <2>2 DEF SecretsInv
    <3> QED
      BY <1>1, <1>10, <1>11, <1>12, <2>2, <3>1 DEF SecretsInv, MeantFor, Entrusted
  <2>3. CASE op.n = Len(op.file) /\ op'.do = "add" /\ op'.n = 1 /\ op'.file = op.file
    BY <1>1, <1>10, <1>11, <1>12, <2>3 DEF SecretsInv, MeantFor, Entrusted
  <2> QED
    BY <1>3, <2>1, <2>2, <2>3
<1> QED
  BY <1>1, <1>12 DEF SecretsInv

\* So no device is saved with another's secret.
LEMMA AddKeeps ==
  ASSUME FilesInv, OpTyped, KeysTyped, SecretsInv, Stored!AddDevice
  PROVE  SecretsInv'
<1> DEFINE d == op.file[op.n]
<1>1. /\ op.do = "add" /\ UNCHANGED <<keyring, loose>>
      /\ Len(op.file) \in Nat /\ op.n \in 1 .. Len(op.file) /\ op.file \in Imports
  BY ImportOp DEF Stored!AddDevice
<1>2. op'.do = "nothing" \/ (op'.do = "add" /\ op'.file = op.file)
  <2>1. Stored!Idle \/ op' = [op EXCEPT !.n = @ + 1]
    BY DEF Stored!AddDevice
  <2> QED
    BY <1>1, <2>1, ImportOp DEF Stored!Idle
<1>3. UNCHANGED <<mem, behind>> \/ Stored!Commit("devices", Stored!With(mem["devices"], d.id, d.device))
  BY DEF Stored!AddDevice, Stored!WriteFails
<1> HIDE DEF d
<1>4. /\ behind'["devices"] = "never" => behind["devices"] = "never"
      /\ \A i \in DOMAIN mem'["devices"] :
            \/ i \in DOMAIN mem["devices"] /\ mem'["devices"][i] = mem["devices"][i]
            \/ i = d.id /\ mem'["devices"][i] = d.device
  <2>1. CASE UNCHANGED <<mem, behind>>
    BY <2>1
  <2>2. CASE Stored!Commit("devices", Stored!With(mem["devices"], d.id, d.device))
    <3>1. /\ mem'["devices"] = Stored!With(mem["devices"], d.id, d.device)
          /\ behind'["devices"] = "never" => behind["devices"] = "never"
      BY <2>2, CommitFacts, FileNames
    <3> QED
      BY <3>1 DEF Stored!With
  <2> QED
    BY <1>3, <2>1, <2>2
<1>5. behind["devices"] = "never" => d.id \in loose \/ MeantFor(d.id, d.device)
  BY <1>1 DEF SecretsInv, Entrusted, d
<1>6. ASSUME behind["devices"] = "never", NEW i \in DOMAIN mem'["devices"]
      PROVE  i \in loose' \/ keyring'[i] = NoOne \/ keyring'[i] = Stored!SecretFor(mem'["devices"][i])
  <2>1. CASE i \in DOMAIN mem["devices"] /\ mem'["devices"][i] = mem["devices"][i]
    BY <1>1, <1>6, <2>1 DEF SecretsInv, MeantFor
  <2>2. CASE i = d.id /\ mem'["devices"][i] = d.device
    BY <1>1, <1>5, <1>6, <2>2 DEF MeantFor
  <2> QED
    BY <1>4, <1>6, <2>1, <2>2
<1> QED
  BY <1>1, <1>2, <1>4, <1>6 DEF SecretsInv, MeantFor, Entrusted

\* Every step keeps the secrets those of the devices.
LEMMA SecretsStep ==
  ASSUME FilesInv, FilesInv', OpTyped, KeysTyped, SecretsInv, [Stored!Next]_Stored!vars
  PROVE  SecretsInv'
BY QuietSteps, QuietSecrets, UserSecrets, SaveSecrets, DeleteSecrets, DropKeeps, AddKeeps
DEF Stored!Next, Stored!User, Stored!Steps, Stored!Reload

(* ------------------------ what an import may bring ----------------------- *)

\* An import is under way.
Importing == op.do \in {"drop", "add"}
\* The user confirmed the risks of each device of the file among the devices saved
\* when it began, and what was saved since then, the import itself saved.
RisksInv ==
  /\ Importing =>
       \A m \in 1 .. Len(op.file) :
         Stored!Confirmed(op.confirmed, Stored!DeviceRisks(op.file[m], op.saved))
  /\ behind["devices"] = "never" =>
      /\ ~unagreed
      /\ op.do = "add" => \A i \in DOMAIN mem["devices"] :
                            i \in DOMAIN op.saved \/ \E m \in 1 .. (op.n - 1) : op.file[m].id = i

\* Each device of a file is in the list of its risks, if it has any.
LEMMA RisksListed ==
  ASSUME NEW d \in Imports, NEW saved, NEW m \in 1 .. Len(d)
  PROVE  Stored!Confirmed(Stored!RisksOf(d, saved), Stored!DeviceRisks(d[m], saved))
<1> DEFINE S == [id : Ids, device : Devices]
           q == [n \in DOMAIN d |-> Stored!DeviceRisks(d[n], saved)]
           none == {[name |-> d[n].device.name, risks |-> {}] : n \in DOMAIN d}
           T == {q[n] : n \in DOMAIN d}
           listed_ == Stored!Without(q, none)
           r == Stored!DeviceRisks(d[m], saved)
<1>1. d \in Seq(S)
  BY StoresAssumption DEF Stored!StoresConstants
<1>2. DOMAIN d = 1 .. Len(d) /\ Len(d) \in Nat
  <2> HIDE DEF S
  <2> QED
    BY <1>1
<1>3. q \in Seq(T) /\ Len(q) = Len(d)
  <2> HIDE DEF S
  <2>1. q \in [1 .. Len(d) -> T]
    BY <1>2
  <2> HIDE DEF q, T
  <2> QED
    BY <1>2, <2>1
<1>4. r \in Elements(q)
  <2>1. q[m] = r
    BY <1>2
  <2> HIDE DEF q, r
  <2> QED
    BY <1>3, <2>1 DEF Elements
<1>5. CASE r.risks = {}
  BY <1>5 DEF Stored!Confirmed
<1>6. CASE r.risks # {}
  <2>1. r \notin none
    <3> SUFFICES ASSUME NEW n \in DOMAIN d, r = [name |-> d[n].device.name, risks |-> {}]
                 PROVE  FALSE
      OBVIOUS
    <3> QED
      BY <1>6
  <2> HIDE DEF q, none, T, r
  <2>2. listed_ = Without(q, none)
    BY DEF Stored!Without, Without
  <2>3. listed_ \in Seq(T) /\ Elements(listed_) = Elements(q) \ none
    BY <1>3, <2>2, WithoutFacts
  <2> HIDE DEF listed_
  <2>4. PICK n \in 1 .. Len(listed_) : listed_[n] = r
    BY <1>4, <2>1, <2>3 DEF Elements
  <2>5. n \in DOMAIN listed_
    BY <2>3, <2>4
  <2>6. Stored!Confirmed(listed_, r)
    BY <2>4, <2>5 DEF Stored!Confirmed
  <2> QED
    BY <2>6 DEF listed_, q, none, r, Stored!RisksOf
<1> QED
  BY <1>5, <1>6

\* An import starts when file and devices are as they were confirmed.
LEMMA StartAgreed ==
  ASSUME FilesInv, RisksInv, Stored!StartImport
  PROVE  RisksInv'
<1>1. UNCHANGED <<mem, behind, unagreed>>
  BY DEF Stored!StartImport, Stored!history
<1>2. CASE Stored!Idle
  BY <1>1, <1>2 DEF RisksInv, Importing, Stored!Idle
<1>3. ASSUME NEW d \in Imports, Stored!Agreed(d),
             op' = [do |-> "drop", file |-> d, n |-> 1, saved |-> mem["devices"], confirmed |-> op.confirmed]
      PROVE  RisksInv'
  <2>1. /\ op'.do = "drop" /\ op'.file = d /\ op'.saved = mem["devices"] /\ op'.confirmed = op.confirmed
    BY <1>3
  <2>3. Stored!RisksOf(d, mem["devices"]) = op.confirmed
    BY <1>3 DEF Stored!Agreed
  <2>4. \A m \in 1 .. Len(d) : Stored!Confirmed(op.confirmed, Stored!DeviceRisks(d[m], mem["devices"]))
    BY <2>3, RisksListed
  <2> QED
    BY <1>1, <2>1, <2>4 DEF RisksInv, Importing
<1> QED
  BY <1>2, <1>3 DEF Stored!StartImport

\* A device brings no risk but those it had when the import was agreed to.
LEMMA AddAgreed ==
  ASSUME FilesInv, OpTyped, RisksInv, Stored!AddDevice
  PROVE  RisksInv'
<1> DEFINE d == op.file[op.n]
<1>1. /\ op.do = "add" /\ Len(op.file) \in Nat /\ op.n \in 1 .. Len(op.file)
  BY ImportOp DEF Stored!AddDevice
<1>2. \/ op'.do = "nothing"
      \/ /\ op'.do = "add" /\ op'.file = op.file /\ op'.n = op.n + 1
         /\ op'.saved = op.saved /\ op'.confirmed = op.confirmed
  <2>1. Stored!Idle \/ op' = [op EXCEPT !.n = @ + 1]
    BY DEF Stored!AddDevice
  <2> QED
    BY <1>1, <2>1, ImportOp DEF Stored!Idle
<1>3. \/ UNCHANGED <<mem, behind, unagreed>> /\ op'.do = "nothing"
      \/ /\ Stored!Commit("devices", Stored!With(mem["devices"], d.id, d.device))
         /\ unagreed' = (unagreed \/ ~ Stored!Confirmed(op.confirmed, Stored!DeviceRisks(d, Stored!SavedBefore(op))))
  BY DEF Stored!AddDevice, Stored!WriteFails, Stored!Idle
<1> HIDE DEF d
<1>4. CASE UNCHANGED <<mem, behind, unagreed>> /\ op'.do = "nothing"
  BY <1>4 DEF RisksInv, Importing
<1>5. CASE /\ Stored!Commit("devices", Stored!With(mem["devices"], d.id, d.device))
           /\ unagreed' = (unagreed \/ ~ Stored!Confirmed(op.confirmed, Stored!DeviceRisks(d, Stored!SavedBefore(op))))
  <2>1. /\ mem'["devices"] = Stored!With(mem["devices"], d.id, d.device)
        /\ behind'["devices"] = "never" => behind["devices"] = "never"
    BY <1>5, CommitFacts, FileNames
  <2>2. DOMAIN mem'["devices"] = DOMAIN mem["devices"] \cup {d.id}
    BY <2>1 DEF Stored!With
  <2>3. ASSUME behind["devices"] = "never"
        PROVE  Stored!Confirmed(op.confirmed, Stored!DeviceRisks(d, Stored!SavedBefore(op)))
    <3>1. DOMAIN Stored!SavedBefore(op) \subseteq DOMAIN op.saved
      BY <1>1, <2>3 DEF Stored!SavedBefore, RisksInv
    <3>2. Stored!Confirmed(op.confirmed, Stored!DeviceRisks(d, op.saved))
      BY <1>1 DEF RisksInv, Importing, d
    <3>3. /\ Stored!DeviceRisks(d, Stored!SavedBefore(op)).name = Stored!DeviceRisks(d, op.saved).name
          /\ Stored!DeviceRisks(d, Stored!SavedBefore(op)).risks \subseteq Stored!DeviceRisks(d, op.saved).risks
      BY <3>1 DEF Stored!DeviceRisks
    <3> QED
      BY <3>2, <3>3 DEF Stored!Confirmed
  <2>4. behind'["devices"] = "never" => ~unagreed'
    BY <1>5, <2>1, <2>3 DEF RisksInv
  <2>5. CASE op'.do = "nothing"
    BY <2>4, <2>5 DEF RisksInv, Importing
  <2>6. CASE /\ op'.do = "add" /\ op'.file = op.file /\ op'.n = op.n + 1
             /\ op'.saved = op.saved /\ op'.confirmed = op.confirmed
    <3>1. ASSUME behind'["devices"] = "never", NEW i \in DOMAIN mem'["devices"]
          PROVE  i \in DOMAIN op.saved \/ \E m \in 1 .. op.n : op.file[m].id = i
      <4>1. CASE i = d.id
        BY <1>1, <4>1 DEF d
      <4>2. CASE i \in DOMAIN mem["devices"]
        <5>1. i \in DOMAIN op.saved \/ \E m \in 1 .. (op.n - 1) : op.file[m].id = i
          BY <1>1, <2>1, <3>1, <4>2 DEF RisksInv
        <5>2. 1 .. (op.n - 1) \subseteq 1 .. op.n
          BY <1>1
        <5> QED
          BY <5>1, <5>2
      <4> QED
        BY <2>2, <3>1, <4>1, <4>2
    <3>2. op'.n - 1 = op.n
      BY <1>1, <2>6
    <3> QED
      BY <1>1, <2>4, <2>6, <3>1, <3>2 DEF RisksInv, Importing
  <2> QED
    BY <1>2, <2>5, <2>6
<1> QED
  BY <1>3, <1>4, <1>5

\* Every step keeps to what was agreed.
LEMMA RisksStep ==
  ASSUME FilesInv, FilesInv', OpTyped, KeysTyped, SecretsInv, RisksInv, [Stored!Next]_Stored!vars
  PROVE  RisksInv'
<1>1. ASSUME Quiet PROVE RisksInv'
  <2>1. /\ behind'["devices"] = "never" => behind["devices"] = "never" /\ mem'["devices"] = mem["devices"]
        /\ unagreed' = unagreed
    BY <1>1 DEF Quiet, DevicesHeld
  <2>2. CASE op' = op
    BY <2>1, <2>2 DEF RisksInv, Importing
  <2>3. CASE op' = [do |-> "nothing"]
    BY <2>1, <2>3 DEF RisksInv, Importing
  <2> QED
    BY <1>1, <2>2, <2>3 DEF Quiet
<1>2. ASSUME op'.do \notin {"drop", "add"}, unagreed' = unagreed,
             behind'["devices"] = "never" => behind["devices"] = "never"
      PROVE  RisksInv'
  BY <1>2 DEF RisksInv, Importing
<1>3. ASSUME \/ UNCHANGED behind
             \/ \E f \in Stored!ConfigFiles : \E c : Stored!Commit(f, c)
      PROVE  behind'["devices"] = "never" => behind["devices"] = "never"
  BY <1>3, CommitFacts, FileNames
<1>4. CASE Stored!Edit \/ Stored!ImportProfile \/ Stored!Preview \/ Stored!StartSave \/ Stored!StartDelete
  <2>1. CASE Stored!StartSave
    <3>1. PICK i \in Ids, dev \in Devices, typed \in BOOLEAN :
            op' = [do |-> "secret", id |-> i, device |-> dev,
                   typed |-> typed /\ Stored!HasSecret(dev)]
      BY <2>1, Zenon DEF Stored!StartSave
    <3>2. op'.do = "secret"
      BY <3>1, Zenon
    <3>3. unagreed' = unagreed /\ UNCHANGED behind
      BY <2>1, Zenon DEF Stored!StartSave
    <3> QED
      BY <1>2, <3>2, <3>3
  <2>2. CASE Stored!Edit \/ Stored!ImportProfile \/ Stored!Preview \/ Stored!StartDelete
    <3>1. op'.do \notin {"drop", "add"} /\ unagreed' = unagreed
      <4>1. CASE Stored!Edit \/ Stored!ImportProfile
        BY <4>1 DEF Stored!Edit, Stored!ImportProfile, Stored!history
      <4>2. CASE Stored!Preview
        BY <4>2 DEF Stored!Preview, Stored!history
      <4>3. CASE Stored!StartDelete
        BY <4>3 DEF Stored!StartDelete, Stored!history
      <4> QED
        BY <2>2, <4>1, <4>2, <4>3
    <3>2. UNCHANGED behind \/ \E f \in Stored!ConfigFiles : \E c : Stored!Commit(f, c)
      BY <2>2, FileNames DEF Stored!Edit, Stored!ImportProfile, Stored!Preview, Stored!StartDelete
    <3> QED
      BY <1>2, <1>3, <3>1, <3>2
  <2> QED
    BY <1>4, <2>1, <2>2
<1>5. CASE Stored!SaveSecret \/ Stored!SaveDevice
  <2>1. op \in [do : {"secret", "device"}, id : Ids, device : Devices, typed : BOOLEAN]
    BY <1>5 DEF OpTyped, Stored!SaveSecret, Stored!SaveDevice
  <2>2. op'.do \notin {"drop", "add"} /\ unagreed' = unagreed
    BY <1>5, <2>1 DEF Stored!SaveSecret, Stored!SaveDevice, Stored!Idle
  <2>3. UNCHANGED behind \/ \E c : Stored!Commit("devices", c)
    BY <1>5 DEF Stored!SaveSecret, Stored!SaveDevice, Stored!WriteFails
  <2> QED
    BY <1>2, <1>3, <2>2, <2>3, FileNames
<1>6. CASE Stored!ForgetSecret \/ Stored!ClearPanes
  <2>1. Deleting /\ \E step \in {"panes", "jumps"}, failed \in BOOLEAN : Stored!NextCleanup(step, failed)
    BY <1>6 DEF Deleting, Stored!ForgetSecret, Stored!ClearPanes
  <2>2. op'.do \notin {"drop", "add"}
    BY <2>1, CleanupOp
  <2>3. unagreed' = unagreed /\ (UNCHANGED behind \/ \E c : Stored!Commit("profiles", c))
    BY <1>6 DEF Stored!ForgetSecret, Stored!ClearPanes, Stored!WriteFails, Stored!history
  <2> QED
    BY <1>2, <1>3, <2>2, <2>3, FileNames
<1>7. CASE Stored!ClearJumps
  <2>1. op'.do = "nothing" /\ unagreed' = unagreed /\ (behind'["devices"] = "never" => behind["devices"] = "never")
    BY <1>7, ClearJumpsFacts DEF Stored!ClearJumps
  <2> QED
    BY <1>2, <2>1
<1>8. CASE Stored!DropSecret
  <2>1. /\ op.do = "drop" /\ UNCHANGED <<mem, behind, unagreed>>
        /\ \/ Stored!Idle \/ op' = [op EXCEPT !.n = @ + 1] \/ op' = [op EXCEPT !.do = "add", !.n = 1]
    BY <1>8 DEF Stored!DropSecret
  <2>2. CASE Stored!Idle
    BY <1>2, <2>1, <2>2 DEF Stored!Idle
  <2>3. CASE op' = [op EXCEPT !.n = @ + 1] \/ op' = [op EXCEPT !.do = "add", !.n = 1]
    <3>1. op'.do \in {"drop", "add"} /\ op'.file = op.file /\ op'.saved = op.saved /\ op'.confirmed = op.confirmed
      BY <2>1, <2>3, ImportOp
    <3>2. behind["devices"] = "never" => op.saved = mem["devices"]
      BY <2>1 DEF SecretsInv
    <3> QED
      BY <2>1, <3>1, <3>2 DEF RisksInv, Importing
  <2> QED
    BY <2>1, <2>2, <2>3
<1>9. CASE Stored!Others
  <2>1. op' = op /\ unagreed' = unagreed /\ behind'["devices"] = "now"
    BY <1>9, FileNames DEF Stored!Others, FilesInv, FilesTyped
  <2> QED
    BY <2>1 DEF RisksInv, Importing
<1> QED
  BY <1>1, <1>4, <1>5, <1>6, <1>7, <1>8, <1>9, QuietSteps, StartAgreed, AddAgreed
  DEF Stored!Next, Stored!User, Stored!Steps, Stored!Reload

(* The commands the user saved.                                             *)

\* Every step keeps the commands the user saved as they were.
LEMMA TrustedStep ==
  ASSUME FilesInv, Stored!CommandsTrusted, [Stored!Next]_Stored!vars
  PROVE  Stored!CommandsTrusted'
<1> USE DEF Stored!CommandsTrusted
<1>1. {"devices", "profiles", "commands"} \subseteq Stored!ConfigFiles
  BY FileNames
<1>2. ASSUME UNCHANGED trusted,
             \/ UNCHANGED mem
             \/ \E f \in Stored!ConfigFiles : f # "commands" /\ \E c : Stored!Commit(f, c)
      PROVE  Stored!CommandsTrusted'
  <2>1. mem'["commands"] = mem["commands"]
    BY <1>1, <1>2, CommitFacts
  <2> QED
    BY <1>2, <2>1
<1>3. CASE Stored!Edit
  <2>1. PICK f \in Stored!ConfigFiles : \E c \in Stored!Edits(f) : Stored!Commit(f, c)
    BY <1>3 DEF Stored!Edit
  <2>2. f # "commands" /\ UNCHANGED trusted
    BY <1>3, <2>1, EditsFit DEF Stored!Edit, Stored!history
  <2> QED
    BY <1>2, <2>1, <2>2
<1>4. CASE Stored!SaveCommand
  <2>1. CASE \E c \in CommandIds, t \in Texts :
               /\ Stored!Commit("commands", Stored!With(mem["commands"], c, t))
               /\ trusted' = Stored!With(trusted, c, t)
    <3>1. PICK c \in CommandIds, t \in Texts :
            mem'["commands"] = Stored!With(mem["commands"], c, t) /\ trusted' = Stored!With(trusted, c, t)
      BY <1>1, <2>1, CommitFacts
    <3> QED
      BY <3>1 DEF Stored!With
  <2>2. CASE \E c \in DOMAIN mem["commands"] :
               /\ Stored!Commit("commands", Stored!Minus(mem["commands"], c))
               /\ trusted' = Stored!Minus(trusted, c)
    <3>1. PICK c :
            mem'["commands"] = Stored!Minus(mem["commands"], c) /\ trusted' = Stored!Minus(trusted, c)
      BY <1>1, <2>2, CommitFacts
    <3> QED
      BY <3>1 DEF Stored!Minus
  <2> QED
    BY <1>4, <2>1, <2>2 DEF Stored!SaveCommand
<1>5. CASE Stored!ImportCommand
  <2>1. PICK c \in CommandIds, t \in Texts :
          /\ Stored!Commit("commands", Stored!AddInto(mem["commands"], c, t))
          /\ DOMAIN mem["commands"] # CommandIds
    BY <1>5 DEF Stored!ImportCommand
  <2>2. PICK x \in CommandIds \ DOMAIN mem["commands"] :
          Stored!AddInto(mem["commands"], c, t) = Stored!With(mem["commands"], x, t)
    BY <2>1, AddedFits
  <2>3. mem'["commands"] = Stored!With(mem["commands"], x, t) /\ trusted' = trusted
    BY <1>1, <1>5, <2>1, <2>2, CommitFacts DEF Stored!ImportCommand, Stored!history
  <2> QED
    BY <2>2, <2>3 DEF Stored!With
<1>6. CASE Stored!ImportProfile
  <2>1. UNCHANGED trusted /\ \E c : Stored!Commit("profiles", c)
    BY <1>6 DEF Stored!ImportProfile
  <2> QED
    BY <1>1, <1>2, <2>1
<1>7. CASE Stored!StartDelete \/ Stored!SaveDevice \/ Stored!ClearJumps \/ Stored!AddDevice
  <2>1. UNCHANGED trusted /\ (UNCHANGED mem \/ \E c : Stored!Commit("devices", c))
    BY <1>7 DEF Stored!StartDelete, Stored!SaveDevice, Stored!ClearJumps, Stored!AddDevice,
       Stored!WriteFails,
       Stored!history
  <2> QED
    BY <1>1, <1>2, <2>1
<1>8. CASE Stored!ClearPanes
  <2>1. UNCHANGED trusted /\ (UNCHANGED mem \/ \E c : Stored!Commit("profiles", c))
    BY <1>8 DEF Stored!ClearPanes, Stored!WriteFails, Stored!history
  <2> QED
    BY <1>1, <1>2, <2>1
<1>9. CASE UNCHANGED <<trusted, mem>>
  BY <1>2, <1>9
<1>10. CASE Stored!Swap
  <2> DEFINE f == Stored!Reloaded[worker.at]
  <2>1. f \in Stored!ConfigFiles
    BY <1>10, FileNames DEF FilesInv, FilesAgree, Stored!Swap
  <2>2. /\ mem' = [mem EXCEPT ![f] = worker.found]
        /\ trusted' = IF f = "commands" THEN worker.found ELSE trusted
    BY <1>10 DEF Stored!Swap
  <2> HIDE DEF f
  <2>3. mem'["commands"] = IF f = "commands" THEN worker.found ELSE mem["commands"]
    BY <1>1, <2>1, <2>2 DEF FilesInv, FilesTyped
  <2> QED
    BY <2>2, <2>3
<1>11. CASE Stored!Restart
  <2>1. trusted' = mem'["commands"]
    BY <1>11 DEF Stored!Restart
  <2> QED
    BY <2>1
<1> QED
  BY <1>3, <1>4, <1>5, <1>6, <1>7, <1>8, <1>9, <1>10, <1>11
  DEF Stored!Next, Stored!User, Stored!Steps, Stored!Reload, Stored!EditFails, Stored!WriteFails, Stored!StartSave,
      Stored!Preview, Stored!SaveSecret, Stored!ForgetSecret, Stored!StartImport, Stored!DropSecret,
      Stored!StartReload, Stored!ReadFile, Stored!Others, Stored!history, Stored!vars

\* All of it.
StoresInv ==
  /\ FilesInv /\ OpTyped /\ KeysTyped
  /\ ForgettingInv /\ SecretsInv /\ RisksInv /\ Stored!CommandsTrusted

\* Every step keeps the invariant of the stores.
LEMMA StoresStep ==
  ASSUME StoresInv, [Stored!Next]_Stored!vars
  PROVE  StoresInv'
<1>1. FilesInv' /\ OpTyped' /\ KeysTyped'
  <2>1. CASE Stored!Next
    BY <2>1, FilesStep, OpStep, KeysStep DEF StoresInv
  <2>2. CASE UNCHANGED Stored!vars
    <3>1. UNCHANGED <<disk, mem, behind, worker, op, keyring, forgotten, loose, unagreed>>
      BY <2>2 DEF Stored!vars
    <3> QED
      BY <3>1, QuietFiles DEF StoresInv, OpTyped, KeysTyped
  <2> QED
    BY <2>1, <2>2
<1>2. ForgettingInv' /\ SecretsInv' /\ RisksInv' /\ Stored!CommandsTrusted'
  BY <1>1, ForgettingStep, SecretsStep, RisksStep, TrustedStep DEF StoresInv
<1> QED
  BY <1>1, <1>2 DEF StoresInv

\* It holds at the first launch.
LEMMA StoresInit ==
  ASSUME Stored!Init
  PROVE  StoresInv
<1> DEFINE i == CHOOSE i \in Ids : TRUE
           layout == [saved |-> TRUE, default |-> TRUE, v1 |-> TRUE, panes |-> {i}]
<1>1. i \in Ids
  BY StoresAssumption DEF Stored!StoresConstants
<1>2. PICK d \in Devices :
        /\ d.jump = NoOne /\ d.risks = {}
        /\ disk = [Stored!Empty EXCEPT !["devices"] = [j \in {i} |-> d], !["profiles"] = layout]
        /\ keyring \in [Ids -> {NoOne} \cup {[method |-> d.method, target |-> d.target, jump |-> NoOne]}]
        /\ \A j \in Ids : j \notin DOMAIN disk["devices"] \/ d.method = "serial" => keyring[j] = NoOne
  BY DEF Stored!Init
<1>3. /\ mem = disk /\ op.do = "nothing" /\ worker.at = 0 /\ forgotten = {} /\ loose = {} /\ unagreed = FALSE
      /\ behind = [f \in Stored!ConfigFiles |-> "never"] /\ trusted = <<>>
  BY DEF Stored!Init
<1> HIDE DEF i
<1>4. /\ [j \in {i} |-> d] \in Fits("devices") /\ layout \in Fits("profiles")
  <2>1. [j \in {i} |-> d] \in [{i} -> Devices]
    OBVIOUS
  <2>2. [j \in {i} |-> d] \in Stored!Maps(Ids, Devices)
    BY <1>1, <2>1 DEF Stored!Maps
  <2>3. layout \in [saved : BOOLEAN, panes : SUBSET Ids, default : BOOLEAN, v1 : BOOLEAN] /\ layout.saved
    BY <1>1
  <2> HIDE DEF layout
  <2> QED
    BY <2>2, <2>3, ContentsOf
<1>5. disk = [f \in Stored!ConfigFiles |-> IF f = "devices" THEN [j \in {i} |-> d]
                                           ELSE IF f = "profiles" THEN layout ELSE Stored!Empty[f]]
  BY <1>2, FileNames DEF Stored!Empty
<1>6. FilesInv
  <2>1. \A f \in Stored!ConfigFiles : disk[f] \in Fits(f)
    BY <1>4, <1>5, EmptyFits
  <2>2. FilesTyped
    BY <1>3, <1>5, <2>1 DEF FilesTyped
  <2>3. FilesAgree
    BY <1>3 DEF FilesAgree, Same, Stored!Overtaken
  <2> QED
    BY <2>2, <2>3 DEF FilesInv
<1>7. KeysTyped
  <2>1. \A j \in Ids : keyring[j] \in Secrets \cup {NoOne}
    <3>1. CASE d.method = "serial"
      BY <1>2, <3>1
    <3>2. CASE d.method # "serial"
      <4>1. d.method \in {"password", "key"} /\ d.target \in {e.target : e \in Devices}
        BY <1>2, <3>2, DeviceFacts
      <4>2. [method |-> d.method, target |-> d.target, jump |-> NoOne] \in Secrets
        BY <4>1 DEF Secrets
      <4> QED
        BY <1>2, <4>2
    <3> QED
      BY <3>1, <3>2
  <2>2. keyring = [j \in Ids |-> keyring[j]]
    BY <1>2
  <2> QED
    BY <1>3, <2>1, <2>2 DEF KeysTyped
<1>8. SecretsInv
  <2>1. \A j \in DOMAIN mem["devices"] : MeantFor(j, mem["devices"][j])
    <3>1. mem["devices"] = [j \in {i} |-> d]
      BY <1>3, <1>5, FileNames
    <3> QED
      BY <1>1, <1>2, <3>1 DEF MeantFor, Stored!SecretFor
  <2> QED
    BY <1>3, <2>1 DEF SecretsInv
<1>9. OpTyped /\ ForgettingInv /\ RisksInv /\ Stored!CommandsTrusted
  BY <1>3 DEF OpTyped, ForgettingInv, Saving, Deleting, RisksInv, Importing, Stored!CommandsTrusted
<1> QED
  BY <1>6, <1>7, <1>8, <1>9 DEF StoresInv

(* -------------------------------- the import ------------------------------ *)

\* The file, and what is saved, are sequences of something.
Sequence(s) == s \in Seq(Range(s))
\* The stages of an import.
Stages == {"admitting", "linking", "saving", "failed", "done"}

\* How far the import is: what is still to be done, in the order it is done.
ImportShape ==
  /\ Sequence(file) /\ Sequence(before) /\ Sequence(store) /\ Sequence(created) /\ Sequence(linked)
  /\ stage \in Stages /\ skipped \in Nat
  /\ stage # "admitting" => hosts = {}
  /\ stage \notin {"admitting", "linking"} => planned = {}
  /\ stage \in {"admitting", "linking"} => \A d \in Range(store) : d.id.of = "saved"
  /\ stage \in {"admitting", "done"} => created = <<>> /\ linked = <<>>

\* The hosts that are devices by now.
Imported == {d \in ThisImport : d.id.of = "file"}

\* Their sections.
Settled == {d.id.n : d \in Imported}

\* Every host of the file is waiting, or a device, or was skipped.
HostsInv ==
  /\ hosts \cup planned \cup Settled \subseteq DOMAIN ParseHosts(file)
  /\ hosts \cap planned = {} /\ hosts \cap Settled = {} /\ planned \cap Settled = {}
  /\ Cardinality(hosts \cup planned \cup Settled) + skipped = Cardinality(DOMAIN ParseHosts(file))

\* An id is of one device, and the next one minted is of none.
IdsInv ==
  /\ \A d \in ThisImport : d.id = Id(d.id.of, d.id.n) /\ d.id.of \in {"saved", "file", "hop"}
  /\ \A d, e \in ThisImport : d.id = e.id => d = e
  /\ stage \in {"admitting", "linking"} =>
        \A d \in ThisImport : d.id.of = "hop" => d.id.n \in 1 .. Len(created)

\* The book has a device under its key if it is new; else a saved one.
Booked(d) ==
  /\ KeyOf(d) \in DOMAIN byKey
  /\ IF d.id.of = "saved" THEN byKey[KeyOf(d)].id.of = "saved" ELSE byKey[KeyOf(d)].id = d.id

\* The book has a host under the key that will be linked straight.
PlannedStraight(k, n) == byKey[k].id = FileId(n) /\ k = KeyOf(DeviceOf(n)) /\ Parsed(n).jump = Direct

\* The book has this device under the key, and it goes straight.
Straight(k, j) == j.id = byKey[k].id /\ j.jump = NoJump /\ KeyOf(j) = k

\* Every device is booked, and a planned host too; and what the book says doesn't
\* jump will not, or is there and doesn't.
BookInv ==
  /\ \A d \in ThisImport : Booked(d)
  /\ \A n \in planned : Booked(DeviceOf(n))
  /\ \A k \in DOMAIN byKey :
      /\ byKey[k].id.of # "none"
      /\ ~byKey[k].jumps => \/ \E n \in planned : PlannedStraight(k, n)
                            \/ \E j \in ThisImport : Straight(k, j)

\* A host that is a device goes straight, or through what the book has for its
\* jump.
ThroughBook(d, t) == t \in DOMAIN byKey /\ byKey[t].id = d.jump /\ ~byKey[t].jumps

LinkedBy(d, jump) ==
  IF d.jump = NoJump THEN jump.via = "direct"
  ELSE jump.via = "hop" /\ ThroughBook(d, TargetOf(jump))

\* So are all of them linked, as their sections say.
LinksInv == \A d \in Imported : LinkedBy(d, Parsed(d.id.n).jump)

\* All of it.
ImportInv == ImportShape /\ HostsInv /\ IdsInv /\ BookInv /\ LinksInv

\* The first of a set of numbers is the least.
LEMMA FirstFacts ==
  ASSUME NEW T, T \subseteq Nat, T # {}
  PROVE  First(T) \in T /\ \A m \in T : First(T) <= m
BY LeastNatural DEF First

\* A sequence is one of its elements.
LEMMA ElementsOf ==
  ASSUME NEW S, NEW s \in Seq(S)
  PROVE  Sequence(s)
<1>1. /\ Len(s) \in Nat /\ s \in [1 .. Len(s) -> S] /\ DOMAIN s = 1 .. Len(s)
  BY LenProperties
<1>2. \A i \in 1 .. Len(s) : s[i] \in Range(s)
  BY <1>1 DEF Range
<1>3. s \in [1 .. Len(s) -> Range(s)]
  BY <1>1, <1>2
<1>4. [1 .. Len(s) -> Range(s)] \subseteq Seq(Range(s))
  BY <1>1
<1> QED
  BY <1>3, <1>4 DEF Sequence

\* An element more.
LEMMA AppendRange ==
  ASSUME NEW s, Sequence(s), NEW e
  PROVE  /\ Sequence(Append(s, e)) /\ Range(Append(s, e)) = Range(s) \cup {e}
         /\ Len(s) \in Nat /\ Len(Append(s, e)) = Len(s) + 1
<1> DEFINE S == Range(s) \cup {e}
<1>1. s \in Seq(S) /\ e \in S
  <2>1. s \in Seq(Range(s)) /\ Range(s) \subseteq S
    BY DEF Sequence
  <2>2. e \in S
    OBVIOUS
  <2> HIDE DEF S
  <2> QED
    BY <2>1, <2>2, SeqMonotonic
<1>2. /\ Append(s, e) \in Seq(S) /\ Len(Append(s, e)) = Len(s) + 1 /\ Len(s) \in Nat
      /\ DOMAIN s = 1 .. Len(s) /\ DOMAIN Append(s, e) = 1 .. (Len(s) + 1)
      /\ \A i \in DOMAIN s : Append(s, e)[i] = s[i]
      /\ Append(s, e)[Len(s) + 1] = e
  <2> HIDE DEF S
  <2> QED
    BY <1>1, AppendFacts
<1>3. Range(Append(s, e)) = Range(s) \cup {e}
  <2>1. ASSUME NEW x \in Range(s) PROVE x \in Range(Append(s, e))
    <3>1. PICK i \in DOMAIN s : x = s[i]
      BY DEF Range
    <3>2. i \in DOMAIN Append(s, e) /\ Append(s, e)[i] = x
      BY <1>2, <3>1
    <3> QED
      BY <3>2 DEF Range
  <2>2. e \in Range(Append(s, e))
    <3>1. Len(s) + 1 \in DOMAIN Append(s, e)
      BY <1>2
    <3> QED
      BY <1>2, <3>1 DEF Range
  <2>3. ASSUME NEW x \in Range(Append(s, e)) PROVE x \in Range(s) \cup {e}
    <3>1. PICK i \in DOMAIN Append(s, e) : x = Append(s, e)[i]
      BY DEF Range
    <3>2. CASE i = Len(s) + 1
      BY <1>2, <3>1, <3>2
    <3>3. CASE i # Len(s) + 1
      <4>1. i \in DOMAIN s /\ x = s[i]
        BY <1>2, <3>1, <3>3
      <4> QED
        BY <4>1 DEF Range
    <3> QED
      BY <3>2, <3>3
  <2> QED
    BY <2>1, <2>2, <2>3
<1> QED
  BY <1>2, <1>3 DEF Sequence

\* The first element aside.
LEMMA TailRange ==
  ASSUME NEW s, Sequence(s), s # <<>>
  PROVE  /\ Sequence(Tail(s)) /\ Range(s) = {Head(s)} \cup Range(Tail(s))
<1>1. /\ Len(s) \in Nat \ {0} /\ DOMAIN s = 1 .. Len(s)
      /\ Head(s) = s[1] /\ s[1] \in Range(s)
      /\ Tail(s) \in Seq(Range(s)) /\ Len(Tail(s)) = Len(s) - 1
      /\ DOMAIN Tail(s) = 1 .. (Len(s) - 1)
      /\ \A i \in DOMAIN Tail(s) : i + 1 \in DOMAIN s /\ Tail(s)[i] = s[i + 1]
  BY TailFacts DEF Sequence
<1>2. ASSUME NEW x \in Range(s) PROVE x \in {Head(s)} \cup Range(Tail(s))
  <2>1. PICK i \in DOMAIN s : x = s[i]
    BY DEF Range
  <2>2. CASE i = 1
    BY <1>1, <2>1, <2>2
  <2>3. CASE i # 1
    <3>1. i - 1 \in DOMAIN Tail(s) /\ (i - 1) + 1 = i
      BY <1>1, <2>1, <2>3
    <3>2. Tail(s)[i - 1] = x
      BY <1>1, <2>1, <3>1
    <3> QED
      BY <3>1, <3>2 DEF Range
  <2> QED
    BY <2>2, <2>3
<1>3. ASSUME NEW x \in Range(Tail(s)) PROVE x \in Range(s)
  <2>1. PICK i \in DOMAIN Tail(s) : x = Tail(s)[i]
    BY DEF Range
  <2> QED
    BY <1>1, <2>1 DEF Range
<1>4. Sequence(Tail(s))
  BY <1>1, ElementsOf
<1> QED
  BY <1>1, <1>2, <1>3, <1>4

\* The file, the devices saved before and the login name stay as they are.
LEMMA GivenStays ==
  ASSUME UNCHANGED Given
  PROVE  /\ \A n : Parsed(n)' = Parsed(n)
         /\ \A n : DeviceOf(n)' = DeviceOf(n)
         /\ \A hop : TargetOf(hop)' = TargetOf(hop)
         /\ ParseHosts(file)' = ParseHosts(file)
<1>1. ParseHosts(file)' = ParseHosts(file) /\ login' = login /\ before' = before
  BY DEF Given
<1>2. \A n : Parsed(n)' = Parsed(n)
  BY <1>1 DEF Parsed
<1>3. \A n : DeviceOf(n)' = DeviceOf(n)
  BY <1>1, <1>2 DEF DeviceOf
<1>4. \A hop : BaseOf(hop)' = BaseOf(hop)
  BY <1>1, <1>2 DEF BaseOf
<1>5. \A hop : TargetOf(hop)' = TargetOf(hop)
  BY <1>1, <1>4 DEF TargetOf
<1> QED
  BY <1>1, <1>2, <1>3, <1>5

\* A device of the file, its jump linked, and one created.
LEMMA NewDevices ==
  /\ \A n, jump : LET d == [DeviceOf(n) EXCEPT !.jump = jump] IN
        d.id = FileId(n) /\ d.jump = jump /\ d.key = DeviceOf(n).key /\ KeyOf(d) = KeyOf(DeviceOf(n))
  /\ \A n : DeviceOf(n).id = FileId(n)
  /\ \A hop : LET d == NewJumpHost(hop) IN
        /\ d.id = HopId(Len(created) + 1) /\ d.jump = NoJump /\ KeyOf(d) = TargetOf(hop)
<1>1. \A n, jump : LET d == [DeviceOf(n) EXCEPT !.jump = jump] IN
        d.id = FileId(n) /\ d.jump = jump /\ d.key = DeviceOf(n).key /\ KeyOf(d) = KeyOf(DeviceOf(n))
  BY DEF DeviceOf, KeyOf
<1>2. \A n : DeviceOf(n).id = FileId(n)
  BY DEF DeviceOf
<1>3. \A hop : LET d == NewJumpHost(hop) IN
        /\ d.id = HopId(Len(created) + 1) /\ d.jump = NoJump /\ KeyOf(d) = TargetOf(hop)
  BY DEF NewJumpHost, KeyOf, TargetOf
<1> QED
  BY <1>1, <1>2, <1>3

\* An id says what it is of, and which.
LEMMA IdFacts ==
  /\ \A of, n : Id(of, n).of = of /\ Id(of, n).n = n
  /\ \A n : FileId(n).of = "file" /\ FileId(n).n = n
  /\ \A n : HopId(n).of = "hop" /\ HopId(n).n = n
  /\ \A n : SavedId(n).of = "saved" /\ SavedId(n).n = n
  /\ NoJump.of = "none"
BY DEF Id, FileId, HopId, SavedId, NoJump

\* What the book has, it keeps; a new key leads to what was put there.
LEMMA RememberFacts ==
  ASSUME NEW k, NEW v, k \notin DOMAIN byKey, Remember(k, v)
  PROVE  /\ DOMAIN byKey' = DOMAIN byKey \cup {k} /\ byKey'[k] = v
         /\ \A x \in DOMAIN byKey : byKey'[x] = byKey[x]
BY DEF Remember

\* The hosts are numbered by sections.
LEMMA SectionNumbers ==
  ASSUME Sequence(file)
  PROVE  DOMAIN ParseHosts(file) \subseteq Nat /\ IsFiniteSet(DOMAIN ParseHosts(file))
<1>1. Len(file) \in Nat /\ DOMAIN file = 1 .. Len(file)
  BY LenProperties DEF Sequence
<1>2. DOMAIN ParseHosts(file) \subseteq 1 .. Len(file)
  BY <1>1 DEF ParseHosts
<1>3. IsFiniteSet(1 .. Len(file))
  BY <1>1, FS_Interval
<1> QED
  BY <1>1, <1>2, <1>3, FS_Subset

\* The host that is next is one of the file.
LEMMA FirstHost ==
  ASSUME ImportInv
  PROVE  /\ hosts # {} => First(hosts) \in hosts
         /\ planned # {} => First(planned) \in planned
<1>1. hosts \subseteq Nat /\ planned \subseteq Nat
  BY SectionNumbers DEF ImportInv, ImportShape, HostsInv
<1> QED
  BY <1>1, FirstFacts

\* A host that is skipped is counted.
LEMMA HostSkipped ==
  ASSUME Sequence(file), skipped \in Nat, HostsInv, UNCHANGED Given, NEW n \in hosts \cup planned,
         hosts' = hosts \ {n}, planned' = planned \ {n}, Settled' = Settled, skipped' = skipped + 1
  PROVE  HostsInv'
<1> DEFINE all == hosts \cup planned \cup Settled
<1>1. all \subseteq DOMAIN ParseHosts(file) /\ IsFiniteSet(all)
  <2>1. all \subseteq DOMAIN ParseHosts(file)
    BY DEF HostsInv
  <2> HIDE DEF all
  <2> QED
    BY <2>1, SectionNumbers, FS_Subset
<1>2. hosts' \cup planned' \cup Settled' = all \ {n}
  BY DEF HostsInv
<1>3. n \in all
  OBVIOUS
<1>4. Cardinality(all \ {n}) = Cardinality(all) - 1 /\ Cardinality(all) \in Nat
  <2> HIDE DEF all
  <2> QED
    BY <1>1, <1>3, FS_RemoveElement, FS_CardinalityType
<1>5. Cardinality(all) + skipped = Cardinality(DOMAIN ParseHosts(file))
  BY DEF HostsInv
<1>6. Cardinality(hosts' \cup planned' \cup Settled') + skipped' = Cardinality(DOMAIN ParseHosts(file))
  <2>1. (Cardinality(all) - 1) + (skipped + 1) = Cardinality(all) + skipped
    BY <1>4
  <2>2. Cardinality(hosts' \cup planned' \cup Settled') = Cardinality(all) - 1
    BY <1>2, <1>4
  <2> QED
    BY <1>5, <2>1, <2>2
<1>7. ParseHosts(file)' = ParseHosts(file)
  BY GivenStays
<1> QED
  BY <1>6, <1>7 DEF HostsInv

\* One that is planned, or becomes a device, is still there.
LEMMA HostMoved ==
  ASSUME HostsInv, UNCHANGED <<Given, skipped>>, NEW n,
         \/ n \in hosts /\ hosts' = hosts \ {n} /\ planned' = planned \cup {n} /\ Settled' = Settled
         \/ n \in planned /\ hosts' = hosts /\ planned' = planned \ {n} /\ Settled' = Settled \cup {n}
  PROVE  HostsInv'
<1>1. hosts' \cup planned' \cup Settled' = hosts \cup planned \cup Settled
  OBVIOUS
<1>2. ParseHosts(file)' = ParseHosts(file)
  BY GivenStays
<1> QED
  BY <1>1, <1>2 DEF HostsInv

\* A step that plans no host and makes no device.
LEMMA NothingNew ==
  ASSUME ImportInv, UNCHANGED <<Given, hosts, planned, byKey, skipped>>, ThisImport' = ThisImport,
         stage' \in {"admitting", "linking"} =>
            stage \in {"admitting", "linking"} /\ created' = created
  PROVE  HostsInv' /\ IdsInv' /\ BookInv' /\ LinksInv'
<1>1. Imported' = Imported /\ Settled' = Settled
  BY DEF Imported, Settled
<1>2. HostsInv'
  BY <1>1, GivenStays DEF ImportInv, HostsInv
<1>3. IdsInv'
  BY DEF ImportInv, IdsInv
<1>4. BookInv'
  <2>1. \A d : Booked(d)' <=> Booked(d)
    BY DEF Booked
  <2>2. \A k, n : PlannedStraight(k, n)' <=> PlannedStraight(k, n)
    BY GivenStays DEF PlannedStraight
  <2>3. \A k, j : Straight(k, j)' <=> Straight(k, j)
    BY DEF Straight
  <2>4. \A n : Booked(DeviceOf(n))' <=> Booked(DeviceOf(n))
    BY GivenStays DEF Booked
  <2> QED
    BY <2>1, <2>2, <2>3, <2>4 DEF ImportInv, BookInv
<1>5. LinksInv'
  <2>1. \A d, t : ThroughBook(d, t)' <=> ThroughBook(d, t)
    BY DEF ThroughBook
  <2>2. \A n : Parsed(n)' = Parsed(n) /\ TargetOf(Parsed(n).jump)' = TargetOf(Parsed(n).jump)
    BY GivenStays
  <2>3. \A d, n : LinkedBy(d, Parsed(n).jump)' <=> LinkedBy(d, Parsed(n).jump)
    BY <2>1, <2>2 DEF LinkedBy, ThroughBook
  <2> QED
    BY <1>1, <2>3 DEF ImportInv, LinksInv
<1> QED
  BY <1>2, <1>3, <1>4, <1>5

\* What the book has stays true while it grows.
Grows == \A k \in DOMAIN byKey : k \in DOMAIN byKey' /\ byKey'[k] = byKey[k]

LEMMA BookGrows ==
  ASSUME UNCHANGED Given, Grows
  PROVE  /\ \A d : Booked(d) => Booked(d)'
         /\ \A n : Booked(DeviceOf(n)) => Booked(DeviceOf(n))'
         /\ \A k \in DOMAIN byKey : \A n : PlannedStraight(k, n) => PlannedStraight(k, n)'
         /\ \A k \in DOMAIN byKey : \A j : Straight(k, j) => Straight(k, j)'
         /\ \A d, n : LinkedBy(d, Parsed(n).jump) => LinkedBy(d, Parsed(n).jump)'
<1>1. \A d : Booked(d) => Booked(d)'
  BY DEF Booked, Grows
<1>2. \A n : Booked(DeviceOf(n)) => Booked(DeviceOf(n))'
  BY GivenStays DEF Booked, Grows
<1>3. \A k \in DOMAIN byKey : \A n : PlannedStraight(k, n) => PlannedStraight(k, n)'
  BY GivenStays DEF PlannedStraight, Grows
<1>4. \A k \in DOMAIN byKey : \A j : Straight(k, j) => Straight(k, j)'
  BY DEF Straight, Grows
<1>5. ASSUME NEW d, NEW n, LinkedBy(d, Parsed(n).jump) PROVE LinkedBy(d, Parsed(n).jump)'
  <2>1. Parsed(n)' = Parsed(n) /\ TargetOf(Parsed(n).jump)' = TargetOf(Parsed(n).jump)
    BY GivenStays
  <2>2. ThroughBook(d, TargetOf(Parsed(n).jump)) => ThroughBook(d, TargetOf(Parsed(n).jump))'
    BY <2>1 DEF ThroughBook, Grows
  <2> QED
    BY <1>5, <2>1, <2>2 DEF LinkedBy
<1> QED
  BY <1>1, <1>2, <1>3, <1>4, <1>5

\* A host that is skipped, or planned: the book leads to it then.
LEMMA AdmitStep ==
  ASSUME ImportInv, Admit
  PROVE  ImportInv'
<1>n. PICK n : n = First(hosts)
  OBVIOUS
<1>k. PICK key : key = KeyOf(DeviceOf(n))
  OBVIOUS
<1>1. /\ n \in hosts /\ stage = "admitting" /\ hosts' = hosts \ {n}
      /\ UNCHANGED <<Given, store, stage, created, linked>>
  BY <1>n, FirstHost DEF Admit
<1>2. ThisImport' = ThisImport /\ Imported' = Imported /\ Settled' = Settled
  BY <1>1 DEF ThisImport, Imported, Settled
<1>3. \/ skipped' = skipped + 1 /\ UNCHANGED <<planned, byKey>>
      \/ /\ key \notin DOMAIN byKey
         /\ planned' = planned \cup {n} /\ UNCHANGED skipped /\ Remember(key, KnownAs(n))
  BY <1>n, <1>k DEF Admit
<1>4. ImportShape'
  BY <1>1, <1>3 DEF ImportInv, ImportShape, Given
<1>5. HostsInv'
  <2>1. CASE skipped' = skipped + 1 /\ UNCHANGED <<planned, byKey>>
    <3>1. planned' = planned \ {n}
      BY <1>1, <2>1 DEF ImportInv, HostsInv
    <3>2. Sequence(file) /\ skipped \in Nat /\ HostsInv
      BY DEF ImportInv, ImportShape
    <3> QED
      BY <1>1, <1>2, <2>1, <3>1, <3>2, HostSkipped
  <2>2. CASE planned' = planned \cup {n} /\ UNCHANGED skipped
    BY <1>1, <1>2, <2>2, HostMoved DEF ImportInv
  <2> QED
    BY <1>3, <2>1, <2>2
<1>6. IdsInv'
  BY <1>1, <1>2 DEF ImportInv, IdsInv
<1>7. Grows
  BY <1>3, RememberFacts DEF Grows
<1>8. LinksInv'
  <2>1. \A d, m : LinkedBy(d, Parsed(m).jump) => LinkedBy(d, Parsed(m).jump)'
    BY <1>1, <1>7, BookGrows
  <2> QED
    BY <1>2, <2>1 DEF ImportInv, LinksInv
<1>9. BookInv'
  <2>1. ASSUME NEW d \in ThisImport' PROVE Booked(d)'
    BY <1>1, <1>2, <1>7, BookGrows DEF ImportInv, BookInv
  <2>2. ASSUME NEW m \in planned, Booked(DeviceOf(m)) PROVE Booked(DeviceOf(m))'
    BY <1>1, <1>7, <2>2, BookGrows
  <2>3. ASSUME NEW k \in DOMAIN byKey
        PROVE  /\ byKey'[k] = byKey[k] /\ byKey[k].id.of # "none"
               /\ ~byKey[k].jumps => \/ \E m \in planned : PlannedStraight(k, m)'
                                     \/ \E j \in ThisImport' : Straight(k, j)'
    <3>1. /\ \A m : PlannedStraight(k, m) => PlannedStraight(k, m)'
          /\ \A j : Straight(k, j) => Straight(k, j)'
      BY <1>1, <1>7, BookGrows
    <3>2. byKey'[k] = byKey[k]
      BY <1>7 DEF Grows
    <3>3. /\ byKey[k].id.of # "none"
          /\ ~byKey[k].jumps => \/ \E m \in planned : PlannedStraight(k, m)
                                \/ \E j \in ThisImport : Straight(k, j)
      BY DEF ImportInv, BookInv
    <3> QED
      BY <1>2, <3>1, <3>2, <3>3
  <2>4. CASE UNCHANGED <<planned, byKey>>
    BY <2>1, <2>2, <2>3, <2>4 DEF ImportInv, BookInv
  <2>5. CASE key \notin DOMAIN byKey /\ planned' = planned \cup {n} /\ Remember(key, KnownAs(n))
    <3>1. DOMAIN byKey' = DOMAIN byKey \cup {key} /\ byKey'[key] = KnownAs(n)
      BY <2>5, RememberFacts
    <3>2. /\ Parsed(n)' = Parsed(n) /\ DeviceOf(n)' = DeviceOf(n) /\ key = KeyOf(DeviceOf(n))
          /\ DeviceOf(n).id = FileId(n) /\ FileId(n).of = "file"
      BY <1>1, <1>k, GivenStays, NewDevices, IdFacts
    <3>3. KnownAs(n).id = FileId(n) /\ (~KnownAs(n).jumps => Parsed(n).jump = Direct)
      BY DEF KnownAs
    <3>4. Booked(DeviceOf(n))'
      BY <3>1, <3>2, <3>3 DEF Booked
    <3>5. ~byKey'[key].jumps => PlannedStraight(key, n)'
      BY <3>1, <3>2, <3>3 DEF PlannedStraight
    <3>6. byKey'[key].id.of # "none"
      BY <3>1, <3>2, <3>3
    <3>7. \A m \in planned' : Booked(DeviceOf(m))'
      BY <2>2, <2>5, <3>4 DEF ImportInv, BookInv
    <3>8. \A k \in DOMAIN byKey' :
            /\ byKey'[k].id.of # "none"
            /\ ~byKey'[k].jumps => \/ \E m \in planned' : PlannedStraight(k, m)'
                                   \/ \E j \in ThisImport' : Straight(k, j)'
      BY <2>3, <2>5, <3>1, <3>5, <3>6
    <3> QED
      BY <2>1, <3>7, <3>8 DEF BookInv
  <2> QED
    BY <1>3, <2>4, <2>5
<1> QED
  BY <1>4, <1>5, <1>6, <1>8, <1>9 DEF ImportInv

\* A host becomes a device, linked as its jump says; so may a jump host.
LEMMA HostLinked ==
  ASSUME ImportInv, UNCHANGED <<Given, store, stage, hosts, skipped>>, stage = "linking",
         NEW n \in planned, planned' = planned \ {n},
         NEW d, linked' = Append(linked, d), d.id = FileId(n), KeyOf(d) = KeyOf(DeviceOf(n)),
         LinkedBy(d, Parsed(n).jump)',
         NEW H, \/ H = {} /\ UNCHANGED <<created, byKey>>
                \/ \E h : /\ H = {h} /\ created' = Append(created, h)
                          /\ h.id = HopId(Len(created) + 1) /\ h.jump = NoJump
                          /\ KeyOf(h) \notin DOMAIN byKey
                          /\ Remember(KeyOf(h), [id |-> h.id, jumps |-> FALSE])
  PROVE  ImportInv'
<1>1. /\ ImportShape /\ HostsInv /\ IdsInv /\ BookInv /\ LinksInv
      /\ Sequence(linked) /\ Sequence(created)
  BY DEF ImportInv, ImportShape
<1>h. /\ H = {} => UNCHANGED <<created, byKey>>
      /\ \A h \in H : /\ H = {h} /\ created' = Append(created, h)
                      /\ h.id = HopId(Len(created) + 1) /\ h.jump = NoJump
                      /\ KeyOf(h) \notin DOMAIN byKey
                      /\ Remember(KeyOf(h), [id |-> h.id, jumps |-> FALSE])
  OBVIOUS
<1>2. /\ Sequence(linked') /\ Range(linked') = Range(linked) \cup {d}
      /\ Sequence(created') /\ Range(created') = Range(created) \cup H
      /\ Len(created) \in Nat /\ Len(created') = Len(created) + (IF H = {} THEN 0 ELSE 1)
  <2>1. Sequence(linked') /\ Range(linked') = Range(linked) \cup {d}
    BY <1>1, AppendRange
  <2>2. Len(created) \in Nat
    BY <1>1, LenProperties DEF Sequence
  <2>3. CASE H = {}
    BY <1>1, <1>h, <2>1, <2>2, <2>3
  <2>4. CASE H # {}
    <3>1. PICK h : h \in H
      BY <2>4
    <3>2. H = {h} /\ created' = Append(created, h)
      BY <1>h, <3>1
    <3>3. /\ Sequence(Append(created, h)) /\ Range(Append(created, h)) = Range(created) \cup {h}
          /\ Len(Append(created, h)) = Len(created) + 1
      BY <1>1, AppendRange
    <3> QED
      BY <2>1, <2>2, <2>4, <3>2, <3>3
  <2> QED
    BY <2>3, <2>4
<1>3. ThisImport' = ThisImport \cup H \cup {d}
  BY <1>2 DEF ThisImport
<1>4. /\ d.id.of = "file" /\ d.id.n = n /\ d.id = Id(d.id.of, d.id.n)
      /\ \A h \in H : /\ h.id = HopId(Len(created) + 1) /\ h.id.of = "hop" /\ h.jump = NoJump
                      /\ h.id.n = Len(created) + 1 /\ h.id = Id(h.id.of, h.id.n)
  <2>1. ASSUME NEW h \in H
        PROVE  /\ h.id = HopId(Len(created) + 1) /\ h.id.of = "hop" /\ h.jump = NoJump
               /\ h.id.n = Len(created) + 1 /\ h.id = Id(h.id.of, h.id.n)
    <3>1. h.id = HopId(Len(created) + 1) /\ h.jump = NoJump
      BY <1>h
    <3>2. h.id.of = "hop" /\ h.id.n = Len(created) + 1
      BY <3>1, IdFacts
    <3> QED
      BY <3>1, <3>2 DEF HopId
  <2>2. d.id.of = "file" /\ d.id.n = n
    BY IdFacts
  <2>3. d.id = Id(d.id.of, d.id.n)
    BY <2>2 DEF FileId
  <2> QED
    BY <2>1, <2>2, <2>3
<1>5. Imported' = Imported \cup {d} /\ Settled' = Settled \cup {n}
  BY <1>3, <1>4 DEF Imported, Settled
<1>6. ImportShape'
  BY <1>1, <1>2 DEF ImportShape, Given
<1>7. HostsInv'
  BY <1>1, <1>5, HostMoved
<1>8. IdsInv'
  <2>1. ASSUME NEW e \in ThisImport PROVE e.id # d.id /\ \A h \in H : e.id # h.id
    <3>1. e.id.of = "file" => e.id.n # n
      BY <1>1 DEF HostsInv, Imported, Settled
    <3>2. e.id.of = "hop" => e.id.n \in 1 .. Len(created)
      BY <1>1 DEF IdsInv
    <3>3. Len(created) + 1 \notin 1 .. Len(created)
      BY <1>2
    <3> QED
      BY <1>4, <3>1, <3>2, <3>3
  <2>2. \A e, f \in ThisImport' : e.id = f.id => e = f
    <3>1. \A e, f \in ThisImport : e.id = f.id => e = f
      BY <1>1 DEF IdsInv
    <3>2. \A e, f \in H : e = f
      OBVIOUS
    <3>3. \A h \in H : h.id # d.id
      BY <1>4
    <3> QED
      BY <1>3, <2>1, <3>1, <3>2, <3>3
  <2>3. \A e \in ThisImport' : e.id = Id(e.id.of, e.id.n) /\ e.id.of \in {"saved", "file", "hop"}
    BY <1>1, <1>3, <1>4 DEF IdsInv
  <2>4. \A e \in ThisImport' : e.id.of = "hop" => e.id.n \in 1 .. Len(created')
    <3>1. Len(created') = Len(created) + (IF H = {} THEN 0 ELSE 1)
      BY <1>2
    <3>2. 1 .. Len(created) \subseteq 1 .. Len(created')
      BY <1>2, <3>1
    <3>3. \A h \in H : Len(created) + 1 \in 1 .. Len(created')
      BY <1>2, <3>1
    <3> QED
      BY <1>1, <1>3, <1>4, <3>2, <3>3 DEF IdsInv
  <2> QED
    BY <2>2, <2>3, <2>4 DEF IdsInv
<1>9. Grows
  <2>1. CASE H = {}
    BY <1>h, <2>1 DEF Grows
  <2>2. ASSUME NEW h \in H PROVE Grows
    BY <1>h, RememberFacts DEF Grows
  <2> QED
    BY <2>1, <2>2
<1>10. LinksInv'
  <2>1. \A e \in Imported : LinkedBy(e, Parsed(e.id.n).jump)'
    BY <1>1, <1>9, BookGrows DEF LinksInv
  <2>2. LinkedBy(d, Parsed(d.id.n).jump)'
    BY <1>4
  <2> QED
    BY <1>5, <2>1, <2>2 DEF LinksInv
<1>11. BookInv'
  <2>1. ASSUME NEW e \in ThisImport' PROVE Booked(e)'
    <3>1. CASE e \in ThisImport
      BY <1>1, <1>9, <3>1, BookGrows DEF BookInv
    <3>2. CASE e \in H
      <4>1. /\ DOMAIN byKey' = DOMAIN byKey \cup {KeyOf(e)}
            /\ byKey'[KeyOf(e)] = [id |-> e.id, jumps |-> FALSE]
        <5>1. KeyOf(e) \notin DOMAIN byKey /\ Remember(KeyOf(e), [id |-> e.id, jumps |-> FALSE])
          BY <1>h, <3>2
        <5> QED
          BY <5>1, RememberFacts
      <4>2. e.id.of = "hop"
        BY <1>4, <3>2
      <4>3. KeyOf(e) \in DOMAIN byKey' /\ byKey'[KeyOf(e)].id = e.id
        BY <4>1
      <4> QED
        BY <4>2, <4>3 DEF Booked
    <3>3. CASE e = d
      <4>1. Booked(DeviceOf(n)) /\ DeviceOf(n).id = FileId(n)
        BY <1>1, NewDevices DEF BookInv
      <4>2. Booked(d)
        BY <1>4, <4>1, IdFacts DEF Booked
      <4> QED
        BY <1>9, <3>3, <4>2, BookGrows
    <3> QED
      BY <1>3, <3>1, <3>2, <3>3
  <2>2. \A m \in planned' : Booked(DeviceOf(m))'
    <3>1. \A m \in planned' : Booked(DeviceOf(m))
      BY <1>1 DEF BookInv
    <3> QED
      BY <1>9, <3>1, BookGrows
  <2>3. ASSUME NEW k \in DOMAIN byKey'
        PROVE  /\ byKey'[k].id.of # "none"
               /\ ~byKey'[k].jumps => \/ \E m \in planned' : PlannedStraight(k, m)'
                                      \/ \E j \in ThisImport' : Straight(k, j)'
    <3>1. CASE k \in DOMAIN byKey
      <4>1. /\ byKey'[k] = byKey[k] /\ byKey[k].id.of # "none"
            /\ ~byKey[k].jumps => \/ \E m \in planned : PlannedStraight(k, m)
                                  \/ \E j \in ThisImport : Straight(k, j)
        BY <1>1, <1>9, <3>1 DEF BookInv, Grows
      <4>2. /\ \A m : PlannedStraight(k, m) => PlannedStraight(k, m)'
            /\ \A j : Straight(k, j) => Straight(k, j)'
        BY <1>9, <3>1, BookGrows
      <4>3. PlannedStraight(k, n) => Straight(k, d)'
        <5>1. Parsed(n).jump = Direct => d.jump = NoJump
          <6>1. Parsed(n)' = Parsed(n)
            BY GivenStays
          <6> QED
            BY <6>1 DEF LinkedBy, Direct
        <5> QED
          BY <4>1, <5>1 DEF PlannedStraight, Straight
      <4> QED
        BY <1>3, <4>1, <4>2, <4>3
    <3>2. CASE k \notin DOMAIN byKey
      <4>1. PICK h \in H : k = KeyOf(h) /\ byKey'[k] = [id |-> h.id, jumps |-> FALSE]
        <5>1. PICK h : h \in H
          BY <1>h, <3>2
        <5>2. /\ DOMAIN byKey' = DOMAIN byKey \cup {KeyOf(h)}
              /\ byKey'[KeyOf(h)] = [id |-> h.id, jumps |-> FALSE]
          <6>1. KeyOf(h) \notin DOMAIN byKey /\ Remember(KeyOf(h), [id |-> h.id, jumps |-> FALSE])
            BY <1>h, <5>1
          <6> QED
            BY <6>1, RememberFacts
        <5> QED
          BY <3>2, <5>1, <5>2
      <4>2. Straight(k, h)' /\ byKey'[k].id.of # "none"
        BY <1>4, <4>1 DEF Straight
      <4> QED
        BY <1>3, <4>2
    <3> QED
      BY <3>1, <3>2
  <2> QED
    BY <2>1, <2>2, <2>3 DEF BookInv
<1> QED
  BY <1>6, <1>7, <1>8, <1>10, <1>11 DEF ImportInv

\* A host whose jump can't be linked is skipped; nobody was to go through it.
LEMMA HostUnlinked ==
  ASSUME ImportInv, UNCHANGED <<Given, store, stage, hosts>>, stage = "linking",
         NEW n \in planned, planned' = planned \ {n}, Parsed(n).jump # Direct, Skip
  PROVE  ImportInv'
<1>1. /\ ImportShape /\ HostsInv /\ IdsInv /\ BookInv /\ LinksInv
      /\ Sequence(file) /\ skipped \in Nat
  BY DEF ImportInv, ImportShape
<1>2. skipped' = skipped + 1 /\ UNCHANGED <<linked, byKey, created>>
  BY DEF Skip
<1>3. ThisImport' = ThisImport /\ Imported' = Imported /\ Settled' = Settled
  BY <1>2 DEF ThisImport, Imported, Settled
<1>4. ImportShape'
  BY <1>1, <1>2 DEF ImportShape, Given
<1>5. HostsInv'
  <2>1. hosts' = hosts \ {n}
    BY <1>1 DEF HostsInv
  <2> QED
    BY <1>1, <1>2, <1>3, <2>1, HostSkipped
<1>6. IdsInv'
  BY <1>1, <1>2, <1>3 DEF IdsInv
<1>7. Grows
  BY <1>2 DEF Grows
<1>8. LinksInv'
  <2>1. \A d, m : LinkedBy(d, Parsed(m).jump) => LinkedBy(d, Parsed(m).jump)'
    BY <1>7, BookGrows
  <2> QED
    BY <1>1, <1>3, <2>1 DEF LinksInv
<1>9. BookInv'
  <2>1. \A d \in ThisImport' : Booked(d)'
    BY <1>1, <1>3, <1>7, BookGrows DEF BookInv
  <2>2. \A m \in planned' : Booked(DeviceOf(m))'
    <3>1. \A m \in planned' : Booked(DeviceOf(m))
      BY <1>1 DEF BookInv
    <3> QED
      BY <1>7, <3>1, BookGrows
  <2>3. ASSUME NEW k \in DOMAIN byKey'
        PROVE  /\ byKey'[k].id.of # "none"
               /\ ~byKey'[k].jumps => \/ \E m \in planned' : PlannedStraight(k, m)'
                                      \/ \E j \in ThisImport' : Straight(k, j)'
    <3>1. /\ k \in DOMAIN byKey /\ byKey'[k] = byKey[k] /\ byKey[k].id.of # "none"
          /\ ~byKey[k].jumps => \/ \E m \in planned : PlannedStraight(k, m)
                                \/ \E j \in ThisImport : Straight(k, j)
      BY <1>1, <1>2 DEF BookInv
    <3>2. /\ \A m : PlannedStraight(k, m) => PlannedStraight(k, m)'
          /\ \A j : Straight(k, j) => Straight(k, j)'
      BY <1>7, <3>1, BookGrows
    <3>3. ~PlannedStraight(k, n)
      BY DEF PlannedStraight
    <3> QED
      BY <1>3, <3>1, <3>2, <3>3
  <2> QED
    BY <2>1, <2>2, <2>3 DEF BookInv
<1> QED
  BY <1>4, <1>5, <1>6, <1>8, <1>9 DEF ImportInv

\* A host is linked as its jump says, to what the book has or to what it puts there.
LEMMA LinkStep ==
  ASSUME ImportInv, Link
  PROVE  ImportInv'
<1>n. PICK n : n = First(planned)
  OBVIOUS
<1>1. /\ n \in planned /\ stage = "linking" /\ planned' = planned \ {n}
      /\ UNCHANGED <<Given, store, stage, hosts>>
  BY <1>n, FirstHost DEF Link
<1>2. \/ /\ Parsed(n).jump.via = "direct"
         /\ LinkTo(n, NoJump) /\ UNCHANGED <<byKey, created, skipped>>
      \/ Parsed(n).jump.via = "hop" /\ LinkThrough(n)
      \/ Parsed(n).jump.via # "direct" /\ Skip
  BY <1>n DEF Link
<1>3. Parsed(n)' = Parsed(n) /\ \A hop : TargetOf(hop)' = TargetOf(hop)
  BY <1>1, GivenStays
<1>4. Parsed(n).jump.via # "direct" => Parsed(n).jump # Direct
  BY DEF Direct
\* The device that n becomes.
<1>5. ASSUME NEW jump, LinkTo(n, jump)
      PROVE  \E d : /\ linked' = Append(linked, d) /\ d.id = FileId(n) /\ d.jump = jump
                    /\ KeyOf(d) = KeyOf(DeviceOf(n))
  <2>1. linked' = Append(linked, [DeviceOf(n) EXCEPT !.jump = jump])
    BY <1>5 DEF LinkTo
  <2>2. PICK d : d = [DeviceOf(n) EXCEPT !.jump = jump]
    OBVIOUS
  <2>3. d.id = FileId(n) /\ d.jump = jump /\ KeyOf(d) = KeyOf(DeviceOf(n))
    BY <2>2, NewDevices
  <2> QED
    BY <2>1, <2>2, <2>3
<1>6. CASE /\ Parsed(n).jump.via = "direct"
           /\ LinkTo(n, NoJump) /\ UNCHANGED <<byKey, created, skipped>>
  <2>1. PICK d : /\ linked' = Append(linked, d) /\ d.id = FileId(n) /\ d.jump = NoJump
                 /\ KeyOf(d) = KeyOf(DeviceOf(n))
    BY <1>5, <1>6
  <2>2. LinkedBy(d, Parsed(n).jump)'
    BY <1>3, <1>6, <2>1 DEF LinkedBy
  <2>3. \E H : H = {}
    OBVIOUS
  <2> QED
    BY <1>1, <1>6, <2>1, <2>2, <2>3, HostLinked
<1>7. CASE Parsed(n).jump.via = "hop" /\ LinkThrough(n)
  <2>t. PICK t : t = TargetOf(Parsed(n).jump)
    OBVIOUS
  <2>h. PICK h : h = NewJumpHost(Parsed(n).jump)
    OBVIOUS
  <2>1. \/ Skip
        \/ /\ t \notin DOMAIN byKey /\ created' = Append(created, h) /\ LinkTo(n, h.id)
           /\ Remember(t, [id |-> h.id, jumps |-> FALSE]) /\ UNCHANGED skipped
        \/ /\ t \in DOMAIN byKey /\ ~byKey[t].jumps
           /\ LinkTo(n, byKey[t].id) /\ UNCHANGED <<byKey, created, skipped>>
    BY <1>7, <2>t, <2>h DEF LinkThrough
  <2>2. CASE Skip
    BY <1>1, <1>4, <1>7, <2>2, HostUnlinked
  <2>3. CASE /\ t \notin DOMAIN byKey /\ created' = Append(created, h) /\ LinkTo(n, h.id)
             /\ Remember(t, [id |-> h.id, jumps |-> FALSE]) /\ UNCHANGED skipped
    <3>1. h.id = HopId(Len(created) + 1) /\ h.jump = NoJump /\ KeyOf(h) = t
      BY <2>t, <2>h, NewDevices
    <3>2. PICK d : /\ linked' = Append(linked, d) /\ d.id = FileId(n) /\ d.jump = h.id
                   /\ KeyOf(d) = KeyOf(DeviceOf(n))
      BY <1>5, <2>3
    <3>3. DOMAIN byKey' = DOMAIN byKey \cup {t} /\ byKey'[t] = [id |-> h.id, jumps |-> FALSE]
      BY <2>3, RememberFacts
    <3>4. d.jump # NoJump
      BY <3>1, <3>2, IdFacts
    <3>5. LinkedBy(d, Parsed(n).jump)'
      <4>1. TargetOf(Parsed(n).jump)' = t
        BY <1>3, <2>t
      <4>2. ThroughBook(d, TargetOf(Parsed(n).jump))'
        BY <3>2, <3>3, <4>1 DEF ThroughBook
      <4> QED
        BY <1>3, <1>7, <3>4, <4>2 DEF LinkedBy
    <3>6. \E g : /\ {h} = {g} /\ created' = Append(created, g)
                 /\ g.id = HopId(Len(created) + 1) /\ g.jump = NoJump
                 /\ KeyOf(g) \notin DOMAIN byKey
                 /\ Remember(KeyOf(g), [id |-> g.id, jumps |-> FALSE])
      BY <2>3, <3>1
    <3> QED
      BY <1>1, <2>3, <3>2, <3>5, <3>6, HostLinked
  <2>4. CASE /\ t \in DOMAIN byKey /\ ~byKey[t].jumps
             /\ LinkTo(n, byKey[t].id) /\ UNCHANGED <<byKey, created, skipped>>
    <3>1. PICK d : /\ linked' = Append(linked, d) /\ d.id = FileId(n) /\ d.jump = byKey[t].id
                   /\ KeyOf(d) = KeyOf(DeviceOf(n))
      BY <1>5, <2>4
    <3>2. d.jump # NoJump
      <4>1. byKey[t].id.of # "none"
        BY <2>4 DEF ImportInv, BookInv
      <4> QED
        BY <3>1, <4>1, IdFacts
    <3>3. LinkedBy(d, Parsed(n).jump)'
      <4>1. TargetOf(Parsed(n).jump)' = t
        BY <1>3, <2>t
      <4>2. ThroughBook(d, TargetOf(Parsed(n).jump))'
        BY <2>4, <3>1, <4>1 DEF ThroughBook
      <4> QED
        BY <1>3, <1>7, <3>2, <4>2 DEF LinkedBy
    <3> QED
      BY <1>1, <2>4, <3>1, <3>3, HostLinked
  <2> QED
    BY <2>1, <2>2, <2>3, <2>4
<1>8. CASE Parsed(n).jump.via # "direct" /\ Skip
  BY <1>1, <1>4, <1>8, HostUnlinked
<1> QED
  BY <1>2, <1>6, <1>7, <1>8

\* The steps between, and what is saved: all the devices are still there.
LEMMA SavingFacts ==
  ASSUME ImportShape, AllAdmitted \/ AllLinked \/ Save \/ SaveFails \/ AllSaved
  PROVE  /\ UNCHANGED <<Given, hosts, planned, byKey, skipped>>
         /\ stage' \in {"admitting", "linking"} =>
               stage \in {"admitting", "linking"} /\ created' = created
         /\ ThisImport' = ThisImport /\ ImportShape'
<1>1. ImportShape /\ UNCHANGED <<Given, hosts, planned, byKey, skipped>>
  BY DEF AllAdmitted, AllLinked, Save, SaveFails, AllSaved
<1>2. /\ stage' \in {"admitting", "linking"} =>
            stage \in {"admitting", "linking"} /\ created' = created
      /\ ThisImport' = ThisImport /\ ImportShape'
  <2>1. CASE AllAdmitted \/ AllLinked \/ SaveFails \/ AllSaved
    <3>1. UNCHANGED <<store, created, linked>>
      BY <2>1 DEF AllAdmitted, AllLinked, SaveFails, AllSaved
    <3>2. ThisImport' = ThisImport
      BY <3>1 DEF ThisImport
    <3>3. /\ stage' \in Stages /\ (stage' \in {"admitting", "linking"} => stage = "admitting")
          /\ (stage' # "admitting" => hosts = {}) /\ stage' # "admitting"
          /\ (stage' \notin {"admitting", "linking"} => planned = {})
          /\ (stage' = "done" => created = <<>> /\ linked = <<>>)
      BY <1>1, <2>1 DEF AllAdmitted, AllLinked, SaveFails, AllSaved, ImportShape, Stages
    <3> QED
      BY <1>1, <3>1, <3>2, <3>3 DEF ImportShape, Given
  <2>2. CASE Save
    <3>1. \E s \in {created, linked} :
            /\ s # <<>> /\ store' = Append(store, Head(s))
            /\ \/ s = created /\ created' = Tail(s) /\ linked' = linked
               \/ s = linked /\ linked' = Tail(s) /\ created' = created
      BY <2>2 DEF Save
    <3>2. PICK q \in {created, linked} :
            /\ q # <<>> /\ store' = Append(store, Head(q))
            /\ \/ q = created /\ created' = Tail(q) /\ linked' = linked
               \/ q = linked /\ linked' = Tail(q) /\ created' = created
      BY <3>1
    <3>3. Sequence(q) /\ Sequence(store)
      BY <1>1, <3>2 DEF ImportShape
    <3>4. Sequence(Tail(q)) /\ Range(q) = {Head(q)} \cup Range(Tail(q))
      BY <3>2, <3>3, TailRange
    <3>5. Sequence(store') /\ Range(store') = Range(store) \cup {Head(q)}
      BY <3>2, <3>3, AppendRange
    <3>6. ThisImport' = ThisImport
      BY <3>2, <3>4, <3>5 DEF ThisImport
    <3>7. stage = "saving" /\ stage' = "saving"
      BY <2>2 DEF Save
    <3>8. ImportShape'
      BY <1>1, <3>2, <3>4, <3>5, <3>7 DEF ImportShape, Given
    <3> QED
      BY <3>6, <3>7, <3>8
  <2> QED
    BY <2>1, <2>2
<1> QED
  BY <1>1, <1>2

LEMMA SavingStep ==
  ASSUME ImportInv, AllAdmitted \/ AllLinked \/ Save \/ SaveFails \/ AllSaved
  PROVE  ImportInv'
<1>1. ImportShape
  BY DEF ImportInv
<1> QED
  BY <1>1, SavingFacts, NothingNew DEF ImportInv

\* Every step keeps the invariant of the import.
LEMMA ImportStep ==
  ASSUME ImportInv, [Next]_sshvars
  PROVE  ImportInv'
<1>1. CASE Next
  BY <1>1, AdmitStep, LinkStep, SavingStep DEF Next
<1>2. CASE UNCHANGED sshvars
  <2>1. UNCHANGED <<Given, hosts, planned, byKey, skipped, stage, created, store, linked>>
    BY <1>2 DEF sshvars, Given
  <2>2. ThisImport' = ThisImport
    BY <2>1 DEF ThisImport
  <2>3. ImportShape'
    BY <2>1 DEF ImportInv, ImportShape, Given
  <2> QED
    BY <2>1, <2>2, <2>3, NothingNew DEF ImportInv
<1> QED
  BY <1>1, <1>2

\* A function on 1 .. n is a sequence.
LEMMA FunctionSequence ==
  ASSUME NEW n \in Nat, NEW f, f = [i \in 1 .. n |-> f[i]]
  PROVE  Sequence(f)
<1>1. \A i \in 1 .. n : f[i] \in Range(f)
  BY DEF Range
<1>2. f \in [1 .. n -> Range(f)]
  BY <1>1
<1>3. [1 .. n -> Range(f)] \subseteq Seq(Range(f))
  OBVIOUS
<1> QED
  BY <1>2, <1>3 DEF Sequence

\* What an export writes is a file.
LEMMA ExportedSequence ==
  ASSUME NEW s, Sequence(s)
  PROVE  Sequence(Exported(s))
<1>1. Len(s) \in Nat /\ DOMAIN s = 1 .. Len(s)
  BY LenProperties DEF Sequence
<1> DEFINE f == Exported(s)
<1>2. f = [i \in 1 .. Len(s) |-> f[i]]
  BY <1>1 DEF Exported
<1> HIDE DEF f
<1>3. Sequence(f)
  BY <1>1, <1>2, FunctionSequence
<1> QED
  BY <1>3 DEF f

\* Of the devices saved before, the book has the first under each key.
LEMMA SeededFacts ==
  ASSUME NEW s, Sequence(s)
  PROVE  /\ DOMAIN Seeded(s) = {KeyOf(d) : d \in Range(s)}
         /\ \A k \in DOMAIN Seeded(s) : \E d \in Range(s) :
              /\ KeyOf(d) = k /\ Seeded(s)[k].id = d.id /\ (Seeded(s)[k].jumps <=> d.jump # NoJump)
<1>1. DOMAIN s \subseteq Nat
  BY LenProperties DEF Sequence
<1>2. DOMAIN Seeded(s) = {KeyOf(d) : d \in Range(s)}
  <2>1. DOMAIN Seeded(s) = {KeyOf(s[i]) : i \in DOMAIN s}
    BY DEF Seeded
  <2> QED
    BY <2>1 DEF Range
<1>3. ASSUME NEW k \in DOMAIN Seeded(s)
      PROVE  \E d \in Range(s) :
              /\ KeyOf(d) = k /\ Seeded(s)[k].id = d.id /\ (Seeded(s)[k].jumps <=> d.jump # NoJump)
  <2> DEFINE alike == {i \in DOMAIN s : KeyOf(s[i]) = k}
  <2>1. k \in {KeyOf(s[i]) : i \in DOMAIN s}
    BY DEF Seeded
  <2>2. alike # {} /\ alike \subseteq Nat
    BY <1>1, <2>1
  <2>3. First(alike) \in alike
    <3> HIDE DEF alike
    <3> QED
      BY <2>2, FirstFacts
  <2>4. Seeded(s)[k] = [id |-> s[First(alike)].id, jumps |-> s[First(alike)].jump # NoJump]
    BY <2>1 DEF Seeded
  <2>5. PICK d : d = s[First(alike)]
    OBVIOUS
  <2>6. d \in Range(s) /\ KeyOf(d) = k
    BY <2>3, <2>5 DEF Range
  <2>7. Seeded(s)[k] = [id |-> d.id, jumps |-> d.jump # NoJump]
    BY <2>4, <2>5
  <2>8. Seeded(s)[k].id = d.id /\ (Seeded(s)[k].jumps <=> d.jump # NoJump)
    <3>1. Seeded(s)[k].id = d.id
      BY <2>7
    <3>2. Seeded(s)[k].jumps = (d.jump # NoJump)
      <4>1. ASSUME NEW b \in BOOLEAN, Seeded(s)[k] = [id |-> d.id, jumps |-> b]
            PROVE  Seeded(s)[k].jumps = b
        BY <4>1
      <4>2. (d.jump # NoJump) \in BOOLEAN
        OBVIOUS
      <4> QED
        BY <2>7, <4>1, <4>2
    <3> QED
      BY <3>1, <3>2
  <2> QED
    BY <2>6, <2>8
<1> QED
  BY <1>2, <1>3

\* It holds when the import begins.
LEMMA ImportInit ==
  ASSUME Init, ImportAssumption
  PROVE  ImportInv
<1>1. /\ store = before /\ byKey = Seeded(before) /\ created = <<>> /\ linked = <<>>
      /\ stage = "admitting" /\ hosts = DOMAIN ParseHosts(file) /\ planned = {} /\ skipped = 0
  BY DEF Init
<1>2. Sequence(<<>>) /\ Range(<<>>) = {}
  BY DEF Sequence, Range
<1>3. \A f \in Files : Sequence(f)
  BY ImportAssumption DEF SshConstants, Sequence
<1>4. \A s \in Stores : Sequence(s)
  BY ImportAssumption DEF SshConstants, Sequence
<1>5. Sequence(file) /\ Sequence(before)
  BY <1>2, <1>3, <1>4, ExportedSequence DEF Init
<1>6. /\ \A i, j \in DOMAIN before : before[i].id = before[j].id => i = j
      /\ \A i \in DOMAIN before : before[i].id = SavedId(before[i].id.n)
  <2>1. before \in Stores \/ before = <<>>
    BY DEF Init
  <2> QED
    BY <2>1, ImportAssumption DEF SshConstants
<1>7. ThisImport = Range(before)
  BY <1>1, <1>2 DEF ThisImport
<1>8. \A d \in ThisImport : d.id = SavedId(d.id.n) /\ d.id.of = "saved"
  <2>1. \A d \in ThisImport : d.id = SavedId(d.id.n)
    BY <1>6, <1>7 DEF Range
  <2> QED
    BY <2>1, IdFacts
<1>9. Imported = {} /\ Settled = {}
  BY <1>8 DEF Imported, Settled
<1>10. ImportShape
  BY <1>1, <1>2, <1>5, <1>7, <1>8 DEF ImportShape, Stages
<1>11. HostsInv
  <2>1. Cardinality(DOMAIN ParseHosts(file)) \in Nat
    BY <1>5, SectionNumbers, FS_CardinalityType
  <2>2. hosts \cup planned \cup Settled = DOMAIN ParseHosts(file)
    BY <1>1, <1>9
  <2>3. hosts \cap planned = {} /\ hosts \cap Settled = {} /\ planned \cap Settled = {}
    BY <1>1, <1>9
  <2>4. Cardinality(hosts \cup planned \cup Settled) + skipped = Cardinality(DOMAIN ParseHosts(file))
    BY <1>1, <2>1, <2>2
  <2> QED
    BY <2>2, <2>3, <2>4 DEF HostsInv
<1>12. IdsInv
  <2>1. \A d, e \in ThisImport : d.id = e.id => d = e
    BY <1>6, <1>7 DEF Range
  <2>2. \A d \in ThisImport : d.id = Id(d.id.of, d.id.n)
    BY <1>8 DEF SavedId
  <2> QED
    BY <1>8, <2>1, <2>2 DEF IdsInv
<1>13. /\ DOMAIN byKey = {KeyOf(d) : d \in ThisImport}
       /\ \A k \in DOMAIN byKey : \E d \in ThisImport :
            KeyOf(d) = k /\ byKey[k].id = d.id /\ (byKey[k].jumps <=> d.jump # NoJump)
  BY <1>1, <1>5, <1>7, SeededFacts
<1>14. BookInv
  <2>1. \A k \in DOMAIN byKey : byKey[k].id.of = "saved"
    BY <1>8, <1>13
  <2>5. \A k \in DOMAIN byKey : ~byKey[k].jumps => \E j \in ThisImport : Straight(k, j)
    BY <1>13 DEF Straight
  <2>2. \A d \in ThisImport : Booked(d)
    BY <1>8, <1>13, <2>1 DEF Booked
  <2>3. \A k \in DOMAIN byKey : byKey[k].id.of # "none"
    BY <2>1
  <2>4. \A n \in planned : Booked(DeviceOf(n))
    BY <1>1
  <2> QED
    BY <2>2, <2>3, <2>4, <2>5 DEF BookInv
<1>15. LinksInv
  BY <1>9 DEF LinksInv
<1> QED
  BY <1>10, <1>11, <1>12, <1>14, <1>15 DEF ImportInv

\* effective_jump takes the first section that has a word on the host.
Rules(h, i) == HasProxy(file[i]) /\ Applies(file[i], h)

\* It is the first in file order, and there is none only if no section has one.
LEMMA EffectiveFacts ==
  ASSUME Sequence(file), NEW h
  PROVE  LET jump == EffectiveJump(file, h) IN
         \/ jump = Direct /\ \A i \in DOMAIN file : ~Rules(h, i)
         \/ \E i \in DOMAIN file :
              /\ Rules(h, i) /\ \A j \in 1 .. i - 1 : ~Rules(h, j)
              /\ jump \in {Unsupported, JumpOf(file[i])}
<1> DEFINE setting == {i \in DOMAIN file : HasProxy(file[i]) /\ Applies(file[i], h)}
<1>1. Len(file) \in Nat /\ DOMAIN file = 1 .. Len(file)
  BY LenProperties DEF Sequence
<1>2. EffectiveJump(file, h) =
        IF setting = {} THEN Direct
        ELSE IF file[First(setting)].kind = "match" THEN Unsupported
        ELSE JumpOf(file[First(setting)])
  BY DEF EffectiveJump
<1>3. \A i \in DOMAIN file : i \in setting <=> Rules(h, i)
  BY DEF Rules
<1>4. setting \subseteq 1 .. Len(file) /\ setting \subseteq Nat
  BY <1>1
<1> HIDE DEF setting
<1>5. CASE setting = {}
  BY <1>2, <1>3, <1>5
<1>6. CASE setting # {}
  <2>1. First(setting) \in setting /\ \A m \in setting : First(setting) <= m
    BY <1>4, <1>6, FirstFacts
  <2>2. \A j \in 1 .. First(setting) - 1 : ~Rules(h, j)
    <3>1. ASSUME NEW j \in 1 .. First(setting) - 1 PROVE j \in DOMAIN file /\ j \notin setting
      <4>1. First(setting) \in 1 .. Len(file)
        BY <1>4, <2>1
      <4>2. j \in 1 .. Len(file) /\ j < First(setting)
        BY <1>1, <4>1
      <4>3. j \in setting => First(setting) <= j
        BY <2>1
      <4> QED
        BY <1>1, <4>1, <4>2, <4>3
    <3> QED
      BY <1>3, <3>1
  <2>3. Rules(h, First(setting)) /\ First(setting) \in DOMAIN file
    BY <1>1, <1>3, <1>4, <2>1
  <2>4. EffectiveJump(file, h) \in {Unsupported, JumpOf(file[First(setting)])}
    BY <1>2, <1>6
  <2> QED
    BY <2>2, <2>3, <2>4
<1> QED
  BY <1>5, <1>6

\* What each kind of jump is told apart by.
LEMMA JumpFacts ==
  /\ \A section : JumpOf(section).via = "direct" => JumpOf(section) = Direct
  /\ Unsupported.via \notin {"direct", "hop"} /\ Direct.via = "direct"
BY DEF JumpOf, Direct, Unsupported

\* A device of the file is linked by the file's first word on it.
LEMMA RoutesHold == ImportInv => RoutedAsWritten
<1> SUFFICES ASSUME ImportInv, NEW d \in FromFile
    PROVE  IF d.jump = NoJump
           THEN \A i \in DOMAIN file :
                  Rules(WrittenAs(d), i) /\ JumpOf(file[i]) # Direct =>
                    \E j \in 1 .. i - 1 : Rules(WrittenAs(d), j) /\ JumpOf(file[j]) = Direct
           ELSE \E i \in DOMAIN file :
                  /\ Rules(WrittenAs(d), i) /\ \A j \in 1 .. i - 1 : ~Rules(WrittenAs(d), j)
                  /\ JumpOf(file[i]).via = "hop"
                  /\ \A j \in ThisImport : j.id = d.jump => KeyOf(j) = TargetOf(JumpOf(file[i]))
  BY DEF RoutedAsWritten, Rules
<1>1. /\ ImportShape /\ HostsInv /\ IdsInv /\ BookInv /\ LinksInv
      /\ Sequence(file)
  BY DEF ImportInv, ImportShape
<1>2. d \in Range(store) /\ d.id.of = "file" /\ d \in Imported
  BY DEF FromFile, Imported, ThisImport
<1>3. planned = {}
  BY <1>1, <1>2 DEF ImportShape
<1>h. PICK h : h = WrittenAs(d)
  OBVIOUS
<1>j. PICK jump : jump = Parsed(d.id.n).jump
  OBVIOUS
<1>4. jump = EffectiveJump(file, h)
  <2>1. d.id.n \in DOMAIN ParseHosts(file)
    BY <1>1, <1>2 DEF HostsInv, Settled
  <2>2. \A n \in DOMAIN ParseHosts(file) :
          ParseHosts(file)[n].jump = EffectiveJump(file, ParseHosts(file)[n].host)
    BY DEF ParseHosts
  <2> QED
    BY <1>h, <1>j, <2>1, <2>2 DEF WrittenAs, Parsed
<1>5. LinkedBy(d, jump)
  BY <1>1, <1>2, <1>j DEF LinksInv
<1>6. Len(file) \in Nat /\ DOMAIN file = 1 .. Len(file)
  BY <1>1, LenProperties DEF Sequence
<1>7. \/ jump = Direct /\ \A i \in DOMAIN file : ~Rules(h, i)
      \/ \E i \in DOMAIN file :
           /\ Rules(h, i) /\ \A j \in 1 .. i - 1 : ~Rules(h, j)
           /\ jump \in {Unsupported, JumpOf(file[i])}
  BY <1>1, <1>4, EffectiveFacts
<1>8. CASE d.jump = NoJump
  <2>1. jump.via = "direct"
    BY <1>5, <1>8 DEF LinkedBy
  <2>2. ASSUME NEW i \in DOMAIN file, Rules(h, i), JumpOf(file[i]) # Direct
        PROVE  \E j \in 1 .. i - 1 : Rules(h, j) /\ JumpOf(file[j]) = Direct
    <3>1. PICK j \in DOMAIN file :
            /\ Rules(h, j) /\ \A k \in 1 .. j - 1 : ~Rules(h, k)
            /\ jump \in {Unsupported, JumpOf(file[j])}
      BY <1>7, <2>2
    <3>2. JumpOf(file[j]) = Direct
      BY <2>1, <3>1, JumpFacts
    <3>3. j \in 1 .. i - 1
      <4>1. i # j /\ i \notin 1 .. j - 1
        BY <2>2, <3>1, <3>2
      <4> QED
        BY <1>6, <4>1
    <3> QED
      BY <3>1, <3>2, <3>3
  <2> QED
    BY <1>8, <1>h, <2>2
<1>9. CASE d.jump # NoJump
  <2>1. jump.via = "hop" /\ ThroughBook(d, TargetOf(jump))
    BY <1>5, <1>9 DEF LinkedBy
  <2>2. PICK i \in DOMAIN file :
          /\ Rules(h, i) /\ \A j \in 1 .. i - 1 : ~Rules(h, j)
          /\ jump \in {Unsupported, JumpOf(file[i])}
    BY <1>7, <2>1, JumpFacts
  <2>3. JumpOf(file[i]) = jump
    BY <2>1, <2>2, JumpFacts
  <2>4. PICK j \in ThisImport : Straight(TargetOf(jump), j)
    BY <1>1, <1>3, <2>1 DEF BookInv, ThroughBook
  <2>5. \A e \in ThisImport : e.id = d.jump => KeyOf(e) = TargetOf(jump)
    <3>1. j.id = d.jump /\ KeyOf(j) = TargetOf(jump)
      BY <2>1, <2>4 DEF Straight, ThroughBook
    <3> QED
      BY <1>1, <3>1 DEF IdsInv
  <2> QED
    BY <1>9, <1>h, <2>1, <2>2, <2>3, <2>5
<1> QED
  BY <1>8, <1>9

\* The book leads to what doesn't jump, and everything planned is linked by then.
LEMMA OneHopHolds == ImportInv => OneHop
<1> SUFFICES ASSUME ImportInv, NEW d \in FromFile, d.jump # NoJump
    PROVE  d.id # d.jump /\ \E j \in ThisImport : j.id = d.jump /\ j.jump = NoJump
  BY DEF OneHop
<1>1. ImportShape /\ IdsInv /\ BookInv /\ LinksInv
  BY DEF ImportInv
<1>2. d \in Range(store) /\ d.id.of = "file" /\ d \in Imported /\ d \in ThisImport
  BY DEF FromFile, Imported, ThisImport
<1>3. planned = {}
  BY <1>1, <1>2 DEF ImportShape
<1>4. ThroughBook(d, TargetOf(Parsed(d.id.n).jump))
  BY <1>1, <1>2 DEF LinksInv, LinkedBy
<1>5. PICK j \in ThisImport : Straight(TargetOf(Parsed(d.id.n).jump), j)
  BY <1>1, <1>3, <1>4 DEF BookInv, ThroughBook
<1>6. j.id = d.jump /\ j.jump = NoJump
  BY <1>4, <1>5 DEF Straight, ThroughBook
<1>7. d.id # d.jump
  BY <1>1, <1>2, <1>6 DEF IdsInv
<1> QED
  BY <1>6, <1>7

\* The book has one new device under a key, and no saved one with it.
LEMMA NoTwinsHolds == ImportInv => NoTwins
<1> SUFFICES ASSUME ImportInv, NEW d \in Range(store), NEW e \in Range(store),
                    d.id.of # "saved", KeyOf(d) = KeyOf(e)
    PROVE  d = e
  BY DEF NoTwins
<1>1. d \in ThisImport /\ e \in ThisImport
  BY DEF ThisImport
<1>2. Booked(d) /\ Booked(e)
  BY <1>1 DEF ImportInv, BookInv
<1>3. d.id = e.id
  BY <1>2 DEF Booked
<1> QED
  BY <1>1, <1>3 DEF ImportInv, IdsInv

\* A host is one device at most.
LEMMA AllCountedHolds == ImportInv => AllCounted
<1> SUFFICES ASSUME ImportInv, stage = "done"
    PROVE  Cardinality(FromFile) + skipped = Cardinality(DOMAIN ParseHosts(file))
  BY DEF AllCounted
<1>1. ImportShape /\ HostsInv /\ IdsInv /\ created = <<>> /\ linked = <<>> /\ hosts = {} /\ planned = {}
  BY DEF ImportInv, ImportShape
<1>2. ThisImport = Range(store)
  <2>1. Range(<<>>) = {}
    BY DEF Range
  <2> QED
    BY <1>1, <2>1 DEF ThisImport
<1>3. Imported = FromFile
  BY <1>2 DEF Imported, FromFile
<1>4. Cardinality(Settled) + skipped = Cardinality(DOMAIN ParseHosts(file))
  BY <1>1 DEF HostsInv
<1>5. IsFiniteSet(Settled)
  <2>1. Settled \subseteq DOMAIN ParseHosts(file)
    BY <1>1 DEF HostsInv
  <2> QED
    BY <1>1, <2>1, SectionNumbers, FS_Subset DEF ImportShape
<1>6. ExistsBijection(Settled, FromFile)
  <2> DEFINE f == [n \in Settled |-> CHOOSE d \in FromFile : d.id.n = n]
  <2>1. \A n \in Settled : f[n] \in FromFile /\ f[n].id.n = n
    BY <1>3 DEF Settled
  <2>2. \A d \in FromFile : d.id.n \in Settled /\ f[d.id.n] = d
    <3>1. ASSUME NEW d \in FromFile, NEW e \in FromFile, d.id.n = e.id.n PROVE d = e
      <4>1. d \in ThisImport /\ e \in ThisImport /\ d.id.of = "file" /\ e.id.of = "file"
        BY <1>2 DEF FromFile
      <4>2. d.id = Id(d.id.of, d.id.n) /\ e.id = Id(e.id.of, e.id.n)
        BY <1>1, <4>1 DEF IdsInv
      <4>3. d.id = e.id
        BY <3>1, <4>1, <4>2
      <4> QED
        BY <1>1, <4>1, <4>3 DEF IdsInv
    <3>2. \A d \in FromFile : d.id.n \in Settled
      BY <1>3 DEF Settled
    <3> HIDE DEF f
    <3> QED
      BY <2>1, <3>1, <3>2
  <2>3. f \in [Settled -> FromFile]
    BY <2>1
  <2> HIDE DEF f
  <2>4. IsInjective(f)
    BY <2>1, <2>3 DEF IsInjective
  <2>5. f \in Surjection(Settled, FromFile)
    BY <2>2, <2>3 DEF Surjection
  <2> QED
    BY <2>3, <2>4, <2>5 DEF ExistsBijection, Bijection, Injection
<1> QED
  BY <1>4, <1>5, <1>6, FS_Bijection

(* -------------------------------- the export ------------------------------ *)

\* A name that was used gets a suffix that wasn't: there are more of them than
\* names used.
LEMMA FreeAliasFacts ==
  ASSUME NEW name, Sequence(name), NEW used, IsFiniteSet(used)
  PROVE  FreeAlias(name, used) \notin used
<1> DEFINE count == Cardinality(used)
           free == {n \in 2 .. count + 2 : Append(name, n) \notin used}
           tries == {Append(name, n) : n \in 2 .. count + 2}
<1>1. count \in Nat
  BY FS_CardinalityType
<1>2. \A n \in Nat : Append(name, n)[Len(name) + 1] = n
  <2>1. ASSUME NEW n \in Nat PROVE Append(name, n)[Len(name) + 1] = n
    <3> DEFINE S == Range(name) \cup {n}
    <3>1. name \in Seq(Range(name)) /\ Range(name) \subseteq S /\ n \in S
      BY DEF Sequence
    <3> HIDE DEF S
    <3>2. name \in Seq(S) /\ n \in S
      BY <3>1, SeqMonotonic
    <3> QED
      BY <3>2, AppendFacts
  <2> QED
    BY <2>1
<1> HIDE DEF count
<1>3. IsFiniteSet(2 .. count + 2) /\ Cardinality(2 .. count + 2) = count + 1
  <2>1. IsFiniteSet(2 .. count + 2) /\ Cardinality(2 .. count + 2) = (IF 2 > count + 2 THEN 0 ELSE (count + 2) - 2 + 1)
    BY <1>1, FS_Interval
  <2> QED
    BY <1>1, <2>1
<1>4. ExistsBijection(2 .. count + 2, tries)
  <2> DEFINE f == [n \in 2 .. count + 2 |-> Append(name, n)]
  <2>1. f \in [2 .. count + 2 -> tries]
    OBVIOUS
  <2>2. \A n \in 2 .. count + 2 : f[n][Len(name) + 1] = n
    BY <1>1, <1>2
  <2>3. \A t \in tries : \E n \in 2 .. count + 2 : f[n] = t
    OBVIOUS
  <2> HIDE DEF f, tries
  <2>4. IsInjective(f)
    BY <2>1, <2>2 DEF IsInjective
  <2>5. f \in Surjection(2 .. count + 2, tries)
    BY <2>1, <2>3 DEF Surjection
  <2> QED
    BY <2>1, <2>4, <2>5 DEF ExistsBijection, Bijection, Injection
<1>5. free # {}
  <2> SUFFICES ASSUME free = {} PROVE FALSE
    OBVIOUS
  <2>1. tries \subseteq used
    OBVIOUS
  <2> HIDE DEF tries
  <2>2. Cardinality(tries) = count + 1
    BY <1>3, <1>4, FS_Bijection
  <2>3. Cardinality(tries) <= Cardinality(used)
    BY <2>1, FS_Subset
  <2> QED
    BY <1>1, <2>2, <2>3 DEF count
<1>6. free \subseteq Nat
  BY <1>1
<1>7. First(free) \in free
  <2> HIDE DEF free
  <2> QED
    BY <1>5, <1>6, FirstFacts
<1>8. Append(name, First(free)) \notin used
  BY <1>7
<1> QED
  BY <1>8 DEF FreeAlias, count

\* One step of AliasesOf, and all of them.
Named(s, f, n) ==
  IF n = 0 THEN <<>> ELSE Append(f[n - 1], FreeAlias(s[n].name, Range(f[n - 1])))
NamedUpTo(s, f, n) == f = [i \in 0 .. n |-> Named(s, f, i)]

LEMMA NamesExist ==
  ASSUME NEW s, NEW N \in Nat
  PROVE  \E f : NamedUpTo(s, f, N)
<1> DEFINE T == {n \in 0 .. N : \E f : NamedUpTo(s, f, n)}
<1>1. 0 \in T
  <2> DEFINE f == [i \in 0 .. 0 |-> <<>>]
  <2>1. \A i \in 0 .. 0 : Named(s, f, i) = <<>>
    BY DEF Named
  <2>2. f = [i \in 0 .. 0 |-> Named(s, f, i)]
    BY <2>1
  <2> HIDE DEF f
  <2>3. NamedUpTo(s, f, 0)
    BY <2>2 DEF NamedUpTo
  <2> QED
    BY <2>3
<1>2. ASSUME NEW n \in 0 .. N, n # N, n \in T PROVE n + 1 \in T
  <2>1. PICK f : NamedUpTo(s, f, n)
    BY <1>2
  <2> DEFINE g == [i \in 0 .. n + 1 |-> IF i = n + 1 THEN Named(s, f, i) ELSE f[i]]
  <2>2. \A i \in 0 .. n : f[i] = Named(s, f, i)
    BY <2>1 DEF NamedUpTo
  <2>3. ASSUME NEW i \in 0 .. n + 1 PROVE g[i] = Named(s, g, i)
    <3>1. i # 0 => g[i - 1] = f[i - 1]
      OBVIOUS
    <3>2. g[i] = Named(s, f, i)
      BY <2>2
    <3> HIDE DEF g
    <3> QED
      BY <3>1, <3>2 DEF Named
  <2>4. g = [i \in 0 .. n + 1 |-> g[i]]
    OBVIOUS
  <2> HIDE DEF g
  <2>5. NamedUpTo(s, g, n + 1)
    BY <2>3, <2>4 DEF NamedUpTo
  <2>6. n + 1 \in 0 .. N
    BY <1>2
  <2> QED
    BY <2>5, <2>6
<1>3. 0 .. N \subseteq T
  <2> HIDE DEF T
  <2> QED
    BY <1>1, <1>2, UpTo
<1> QED
  BY <1>3

\* No two devices get one alias.
LEMMA AliasFacts ==
  ASSUME NEW s, Sequence(s), \A i \in DOMAIN s : Sequence(s[i].name)
  PROVE  \A i, j \in DOMAIN s : AliasesOf(s)[i] = AliasesOf(s)[j] => i = j
<1>1. PICK N \in Nat : N = Len(s) /\ DOMAIN s = 1 .. N
  BY LenProperties DEF Sequence
<1> DEFINE F == CHOOSE f : f = [n \in 0 .. N |->
                  IF n = 0 THEN <<>> ELSE Append(f[n - 1], FreeAlias(s[n].name, Range(f[n - 1])))]
<1>2. AliasesOf(s) = F[N]
  BY <1>1 DEF AliasesOf
<1>3. NamedUpTo(s, F, N)
  <2>1. PICK f : NamedUpTo(s, f, N)
    BY <1>1, NamesExist
  <2>2. f = [n \in 0 .. N |->
               IF n = 0 THEN <<>> ELSE Append(f[n - 1], FreeAlias(s[n].name, Range(f[n - 1])))]
    BY <2>1 DEF NamedUpTo, Named
  <2>3. F = [n \in 0 .. N |->
               IF n = 0 THEN <<>> ELSE Append(F[n - 1], FreeAlias(s[n].name, Range(F[n - 1])))]
    BY <2>2, Zenon
  <2> QED
    BY <2>3 DEF NamedUpTo, Named
<1> HIDE DEF F
<1> DEFINE Fine(n) == /\ Sequence(F[n]) /\ Len(F[n]) = n /\ IsFiniteSet(Range(F[n]))
                      /\ \A i, j \in 1 .. n : F[n][i] = F[n][j] => i = j
           T == {n \in 0 .. N : Fine(n)}
<1>4. \A n \in 0 .. N : F[n] = Named(s, F, n)
  BY <1>3 DEF NamedUpTo
<1>5. 0 \in T
  <2>1. F[0] = <<>>
    BY <1>1, <1>4 DEF Named
  <2>2. Sequence(<<>>) /\ Len(<<>>) = 0 /\ Range(<<>>) = {} /\ IsFiniteSet({})
    BY FS_EmptySet DEF Sequence, Range
  <2>3. Fine(0)
    <3>1. Sequence(F[0]) /\ Len(F[0]) = 0 /\ Range(F[0]) = {} /\ IsFiniteSet(Range(F[0]))
      BY <2>1, <2>2
    <3>2. \A i \in 1 .. 0 : FALSE
      OBVIOUS
    <3> QED
      BY <3>1, <3>2
  <2>4. 0 \in 0 .. N
    BY <1>1
  <2> HIDE DEF Fine
  <2> QED
    BY <2>3, <2>4
<1>6. ASSUME NEW n \in 0 .. N, n # N, n \in T PROVE n + 1 \in T
  <2>1. n + 1 \in 0 .. N /\ n + 1 \in DOMAIN s /\ n + 1 # 0 /\ (n + 1) - 1 = n
    <3>1. n \in Nat /\ n < N
      BY <1>1, <1>6
    <3> QED
      BY <1>1, <3>1
  <2>2. Fine(n)
    BY <1>6
  <2> DEFINE a == FreeAlias(s[n + 1].name, Range(F[n]))
  <2>3. a \notin Range(F[n])
    BY <2>1, <2>2, FreeAliasFacts
  <2>4. F[n + 1] = Append(F[n], a)
    BY <1>4, <2>1 DEF Named
  <2> HIDE DEF a
  <2>5. /\ Sequence(F[n + 1]) /\ Range(F[n + 1]) = Range(F[n]) \cup {a} /\ Len(F[n + 1]) = n + 1
    BY <2>2, <2>4, AppendRange
  <2>6. IsFiniteSet(Range(F[n + 1]))
    <3>1. PICK used : used = Range(F[n])
      OBVIOUS
    <3>2. IsFiniteSet(used \cup {a})
      BY <2>2, <3>1, FS_AddElement
    <3> QED
      BY <2>5, <3>1, <3>2
  <2>7. /\ \A i \in 1 .. n : F[n + 1][i] = F[n][i] /\ F[n][i] \in Range(F[n])
        /\ F[n + 1][n + 1] = a
    <3> DEFINE S == Range(F[n]) \cup {a}
    <3>1. F[n] \in Seq(Range(F[n])) /\ Range(F[n]) \subseteq S /\ a \in S
      BY <2>2 DEF Sequence
    <3> HIDE DEF S
    <3>2. F[n] \in Seq(S)
      BY <3>1, SeqMonotonic
    <3>3. /\ DOMAIN F[n] = 1 .. n
          /\ \A i \in DOMAIN F[n] : Append(F[n], a)[i] = F[n][i]
          /\ Append(F[n], a)[Len(F[n]) + 1] = a
      BY <2>2, <3>1, <3>2, AppendFacts
    <3> QED
      BY <2>2, <2>4, <3>3 DEF Range
  <2>8. ASSUME NEW i \in 1 .. n + 1, NEW j \in 1 .. n + 1, F[n + 1][i] = F[n + 1][j]
        PROVE  i = j
    <3>1. /\ i \in 1 .. n \/ i = n + 1
          /\ j \in 1 .. n \/ j = n + 1
      BY <1>1
    <3> QED
      BY <2>2, <2>3, <2>7, <2>8, <3>1
  <2> QED
    BY <2>1, <2>5, <2>6, <2>8
<1>7. 0 .. N \subseteq T
  <2> HIDE DEF T
  <2> QED
    BY <1>1, <1>5, <1>6, UpTo
<1>8. Fine(N)
  BY <1>1, <1>7
<1> QED
  BY <1>1, <1>2, <1>8

\* Two lists of one element at most after another.
LEMMA AndTwo ==
  ASSUME NEW S, NEW s \in Seq(S), NEW t \in Seq(S), Len(t) \in {0, 1}, NEW u \in Seq(S), Len(u) \in {0, 1}
  PROVE  LET all == s \o t \o u IN
         /\ Len(s) \in Nat
         /\ DOMAIN all = 1 .. Len(s) + Len(t) + Len(u)
         /\ \A i \in 1 .. Len(s) : all[i] = s[i]
         /\ Len(t) = 1 => all[Len(s) + 1] = t[1]
         /\ Len(u) = 1 => all[Len(s) + Len(t) + 1] = u[1]
<1>1. PICK st : st = s \o t
  OBVIOUS
<1>2. st \in Seq(S)
  BY <1>1
<1>3. /\ Len(st) = Len(s) + Len(t) /\ Len(s) \in Nat
      /\ \A i \in 1 .. Len(s) : st[i] = s[i]
      /\ Len(t) = 1 => st[Len(s) + 1] = t[1]
  BY <1>1
<1>4. PICK all : all = st \o u
  OBVIOUS
<1>5. /\ all \in Seq(S) /\ Len(all) = Len(st) + Len(u) /\ DOMAIN all = 1 .. Len(st) + Len(u)
      /\ \A i \in 1 .. Len(st) : all[i] = st[i]
      /\ Len(u) = 1 => all[Len(st) + 1] = u[1]
  BY <1>2, <1>4
<1>6. /\ DOMAIN all = 1 .. Len(s) + Len(t) + Len(u)
      /\ \A i \in 1 .. Len(s) : all[i] = s[i]
      /\ Len(t) = 1 => all[Len(s) + 1] = t[1]
      /\ Len(u) = 1 => all[Len(s) + Len(t) + 1] = u[1]
  BY <1>3, <1>5
<1> QED
  BY <1>1, <1>3, <1>4, <1>6

\* A section with each setting once, and with a jump if there is one.
Keywords(section, device) ==
  /\ Settings(section, {"hostname"}) = {1} /\ section.set[1].value = device.address
  /\ Settings(section, {"port"}) = {2} /\ section.set[2].value = device.port
  /\ Settings(section, {"user"}) = {3} /\ section.set[3].value = device.user
  /\ IF device.key = NoKey THEN Settings(section, {"identityfile"}) = {}
     ELSE Settings(section, {"identityfile"}) = {4} /\ section.set[4].value = device.key

Proxied(section, jump) ==
  \E i \in Nat : Settings(section, Proxies) = {i} /\ section.set[i] = Entry("proxyjump", jump)

\* So is every section of an export.
LEMMA LinesFacts ==
  ASSUME NEW devices, NEW n, NEW section, section.set = Lines(devices, n)
  PROVE  LET hop == JumpsOf(devices, n)
             jump == HopVia(AliasesOf(devices)[First(hop)], NoUser, NoPort) IN
         /\ Keywords(section, devices[n])
         /\ hop = {} => Settings(section, Proxies) = {}
         /\ hop # {} => Proxied(section, jump)
<1>1. PICK hop : hop = JumpsOf(devices, n)
  OBVIOUS
<1>2. PICK jump : jump = HopVia(AliasesOf(devices)[First(hop)], NoUser, NoPort)
  OBVIOUS
<1> DEFINE E1 == Entry("hostname", devices[n].address)
           E2 == Entry("port", devices[n].port)
           E3 == Entry("user", devices[n].user)
           E4 == Entry("identityfile", devices[n].key)
           E5 == Entry("proxyjump", jump)
<1>3. section.set = <<E1, E2, E3>> \o (IF devices[n].key = NoKey THEN <<>> ELSE <<E4>>)
                      \o (IF hop = {} THEN <<>> ELSE <<E5>>)
  BY <1>1, <1>2 DEF Lines
<1>4. /\ E1.key = "hostname" /\ E1.value = devices[n].address
      /\ E2.key = "port" /\ E2.value = devices[n].port
      /\ E3.key = "user" /\ E3.value = devices[n].user
      /\ E4.key = "identityfile" /\ E4.value = devices[n].key
      /\ E5.key = "proxyjump"
  BY DEF Entry
<1> DEFINE S == {E1, E2, E3, E4, E5}
           three == <<E1, E2, E3>>
           key == IF devices[n].key = NoKey THEN <<>> ELSE <<E4>>
           via == IF hop = {} THEN <<>> ELSE <<E5>>
           set == section.set
<1>5. three \in Seq(S)
  OBVIOUS
<1>6. Len(three) = 3 /\ three[1] = E1 /\ three[2] = E2 /\ three[3] = E3
  OBVIOUS
<1>7. /\ key \in Seq(S) /\ (IF devices[n].key = NoKey THEN Len(key) = 0 ELSE Len(key) = 1 /\ key[1] = E4)
      /\ via \in Seq(S) /\ (IF hop = {} THEN Len(via) = 0 ELSE Len(via) = 1 /\ via[1] = E5)
      /\ set = three \o key \o via
  <2>1. \A e : e \in S => <<e>> \in Seq(S) /\ Len(<<e>>) = 1 /\ <<e>>[1] = e
    <3> HIDE DEF S
    <3> QED
      OBVIOUS
  <2>2. <<>> \in Seq(S) /\ Len(<<>>) = 0 /\ E4 \in S /\ E5 \in S
    OBVIOUS
  <2>3. set = three \o key \o via
    <3> HIDE DEF E1, E2, E3, E4, E5
    <3> QED
      BY <1>3, Zenon
  <2> HIDE DEF E1, E2, E3, E4, E5, S
  <2>4. key \in Seq(S) /\ (IF devices[n].key = NoKey THEN Len(key) = 0 ELSE Len(key) = 1 /\ key[1] = E4)
    BY <2>1, <2>2
  <2>5. via \in Seq(S) /\ (IF hop = {} THEN Len(via) = 0 ELSE Len(via) = 1 /\ via[1] = E5)
    BY <2>1, <2>2
  <2> QED
    BY <2>3, <2>4, <2>5
<1> HIDE DEF E1, E2, E3, E4, E5, S, three, key, via, set
<1>8. /\ (IF devices[n].key = NoKey THEN Len(key) = 0 ELSE Len(key) = 1 /\ key[1] = E4)
      /\ (IF hop = {} THEN Len(via) = 0 ELSE Len(via) = 1 /\ via[1] = E5)
  BY <1>7
<1>9. /\ Len(key) \in {0, 1} /\ Len(via) \in {0, 1}
      /\ DOMAIN set = 1 .. Len(three) + Len(key) + Len(via)
      /\ \A i \in 1 .. Len(three) : set[i] = three[i]
      /\ Len(key) = 1 => set[Len(three) + 1] = key[1]
      /\ Len(via) = 1 => set[Len(three) + Len(key) + 1] = via[1]
  <2>1. Len(key) \in {0, 1} /\ Len(via) \in {0, 1}
    BY <1>8
  <2>2. key \in Seq(S) /\ via \in Seq(S) /\ set = three \o key \o via
    BY <1>7
  <2> QED
    BY <1>5, <2>1, <2>2, AndTwo
<1>10. /\ DOMAIN set = 1 .. 3 + (IF devices[n].key = NoKey THEN 0 ELSE 1) + (IF hop = {} THEN 0 ELSE 1)
       /\ set[1] = E1 /\ set[2] = E2 /\ set[3] = E3
       /\ devices[n].key # NoKey => set[4] = E4
       /\ hop # {} => set[4 + (IF devices[n].key = NoKey THEN 0 ELSE 1)] = E5
  <2>1. Len(key) = (IF devices[n].key = NoKey THEN 0 ELSE 1) /\ Len(via) = (IF hop = {} THEN 0 ELSE 1)
    BY <1>8
  <2>2. /\ DOMAIN set = 1 .. 3 + Len(key) + Len(via)
        /\ \A i \in 1 .. 3 : set[i] = three[i]
        /\ Len(key) = 1 => set[3 + 1] = key[1]
        /\ Len(via) = 1 => set[3 + Len(key) + 1] = via[1]
    BY <1>6, <1>9
  <2>3. set[1] = E1 /\ set[2] = E2 /\ set[3] = E3
    BY <1>6, <2>2
  <2>4. devices[n].key # NoKey => set[4] = E4
    BY <1>8, <2>2
  <2>5. hop # {} => set[4 + (IF devices[n].key = NoKey THEN 0 ELSE 1)] = E5
    BY <1>8, <2>1, <2>2
  <2> QED
    BY <2>1, <2>2, <2>3, <2>4, <2>5
<1>11. Settings(section, {"hostname"}) = {1} /\ Settings(section, {"port"}) = {2} /\ Settings(section, {"user"}) = {3}
  BY <1>4, <1>10 DEF Settings, set
<1>12. /\ devices[n].key = NoKey => Settings(section, {"identityfile"}) = {}
       /\ devices[n].key # NoKey => Settings(section, {"identityfile"}) = {4}
  BY <1>4, <1>10 DEF Settings, set
<1>13. hop = {} => Settings(section, Proxies) = {}
  BY <1>4, <1>10 DEF Settings, Proxies, set
<1>14. hop # {} => Settings(section, Proxies) = {4 + (IF devices[n].key = NoKey THEN 0 ELSE 1)}
  BY <1>4, <1>10 DEF Settings, Proxies, set
<1>15. ASSUME hop # {} PROVE Proxied(section, jump)
  <2> DEFINE i == 4 + (IF devices[n].key = NoKey THEN 0 ELSE 1)
  <2>1. i \in Nat /\ Settings(section, Proxies) = {i} /\ section.set[i] = E5
    BY <1>10, <1>14, <1>15 DEF set
  <2> HIDE DEF i
  <2> QED
    BY <2>1 DEF E5, Proxied
<1>16. /\ section.set[1].value = devices[n].address /\ section.set[2].value = devices[n].port
       /\ section.set[3].value = devices[n].user
       /\ devices[n].key # NoKey => section.set[4].value = devices[n].key
  BY <1>4, <1>10 DEF set
<1>17. Keywords(section, devices[n])
  BY <1>11, <1>12, <1>16 DEF Keywords
<1> QED
  BY <1>1, <1>2, <1>13, <1>15, <1>17

\* What the importer reads in an exported file: the devices, and each through the
\* one its jump names, if that was exported too.
LEMMA ExportFacts ==
  ASSUME SshConstants, NEW devices \in Stores, file = Exported(devices)
  PROVE  /\ DOMAIN ParseHosts(file) = DOMAIN devices
         /\ \A n \in DOMAIN devices :
             LET hop == JumpsOf(devices, n) IN
             /\ KeyOf(DeviceOf(n)) = KeyOf(devices[n]) /\ DeviceOf(n).key = devices[n].key
             /\ DeviceOf(n).user # NoUser
             /\ hop = {} => Parsed(n).jump = Direct
             /\ hop # {} => Parsed(n).jump.via = "hop"
                            /\ \E h \in hop : TargetOf(Parsed(n).jump) = KeyOf(devices[h])
<1> DEFINE alias(n) == AliasesOf(devices)[n]
           hops(n) == JumpsOf(devices, n)
<1>1. /\ Sequence(devices) /\ Len(devices) \in Nat /\ DOMAIN devices = 1 .. Len(devices)
      /\ \A n \in DOMAIN devices : Sequence(devices[n].name) /\ devices[n].user # NoUser
  <2>1. Sequence(devices) /\ \A n \in DOMAIN devices : Sequence(devices[n].name) /\ devices[n].user # NoUser
    BY DEF SshConstants, Sequence
  <2> QED
    BY <2>1, LenProperties DEF Sequence
<1>2. \A i, j \in DOMAIN devices : alias(i) = alias(j) => i = j
  BY <1>1, AliasFacts
<1>3. /\ DOMAIN file = DOMAIN devices
      /\ \A n \in DOMAIN devices :
          /\ file[n].kind = "host" /\ file[n].aliases = <<alias(n)>> /\ file[n].hits = {alias(n)}
          /\ file[n].negated = {} /\ file[n].set = Lines(devices, n)
  BY DEF Exported
<1>4. ASSUME NEW n \in DOMAIN devices
      PROVE  file[n].aliases # <<>> /\ file[n].aliases[1] = alias(n) /\ Range(file[n].aliases) = {alias(n)}
  <2>1. file[n].aliases = <<alias(n)>>
    BY <1>3
  <2> HIDE DEF alias
  <2> QED
    BY <2>1 DEF Range
<1>5. /\ DOMAIN ParseHosts(file) = DOMAIN devices
      /\ \A n \in DOMAIN devices :
          Parsed(n).host = HostOf(file[n]) /\ Parsed(n).jump = EffectiveJump(file, HostOf(file[n]))
  BY <1>3, <1>4 DEF ParseHosts, Parsed
<1> HIDE DEF alias, hops
<1>6. \A i \in Nat : First({i}) = i
  BY FirstFacts
<1>7. ASSUME NEW n \in DOMAIN devices
      PROVE  LET host == HostOf(file[n]) IN
             /\ host.name = alias(n) /\ host.aliases = {alias(n)} /\ host.address = devices[n].address
             /\ host.port = devices[n].port /\ host.user = devices[n].user /\ host.key = devices[n].key
  <2>1. Keywords(file[n], devices[n])
    BY <1>3, LinesFacts
  <2>2. /\ First({1}) = 1 /\ First({2}) = 2 /\ First({3}) = 3 /\ First({4}) = 4
    BY <1>6
  <2>3. FirstOr(file[n], {"hostname"}, file[n].aliases[1]) = devices[n].address
    BY <2>1, <2>2 DEF Keywords, FirstOr
  <2>4. FirstOr(file[n], {"port"}, DefaultPort) = devices[n].port
    BY <2>1, <2>2 DEF Keywords, FirstOr
  <2>5. FirstOr(file[n], {"user"}, NoUser) = devices[n].user
    BY <2>1, <2>2 DEF Keywords, FirstOr
  <2>6. FirstOr(file[n], {"identityfile"}, NoKey) = devices[n].key
    BY <2>1, <2>2 DEF Keywords, FirstOr
  <2> QED
    BY <1>4, <2>3, <2>4, <2>5, <2>6 DEF HostOf
<1>8. ASSUME NEW n \in DOMAIN devices
      PROVE  /\ HasProxy(file[n]) <=> hops(n) # {}
             /\ hops(n) # {} => JumpOf(file[n]) = HopVia(alias(First(hops(n))), NoUser, NoPort)
  <2> DEFINE via == HopVia(alias(First(hops(n))), NoUser, NoPort)
  <2>1. /\ hops(n) = {} => Settings(file[n], Proxies) = {}
        /\ hops(n) # {} => Proxied(file[n], via)
    BY <1>3, LinesFacts DEF alias, hops
  <2>2. via.via = "hop"
    BY DEF HopVia
  <2> HIDE DEF via
  <2>3. ASSUME hops(n) # {} PROVE HasProxy(file[n]) /\ JumpOf(file[n]) = via
    <3>1. PICK i \in Nat : Settings(file[n], Proxies) = {i} /\ file[n].set[i] = Entry("proxyjump", via)
      BY <2>1, <2>3 DEF Proxied
    <3>2. file[n].set[First(Settings(file[n], Proxies))] = Entry("proxyjump", via)
      BY <1>6, <3>1
    <3>3. Entry("proxyjump", via).key = "proxyjump" /\ Entry("proxyjump", via).value = via
      BY DEF Entry
    <3> QED
      BY <2>2, <3>1, <3>2, <3>3 DEF HasProxy, JumpOf
  <2> QED
    BY <2>1, <2>3 DEF HasProxy, via
<1>9. ASSUME NEW n \in DOMAIN devices
      PROVE  Parsed(n).jump = IF hops(n) = {} THEN Direct ELSE HopVia(alias(First(hops(n))), NoUser, NoPort)
  <2>1. \A i \in DOMAIN file : Applies(file[i], HostOf(file[n])) <=> i = n
    BY <1>2, <1>3, <1>7 DEF Applies, Selects
  <2>2. {i \in DOMAIN file : HasProxy(file[i]) /\ Applies(file[i], HostOf(file[n]))}
          = IF hops(n) = {} THEN {} ELSE {n}
    BY <1>3, <1>8, <2>1
  <2>3. n \in Nat /\ First({n}) = n
    BY <1>1, <1>6
  <2>4. file[n].kind # "match"
    BY <1>3
  <2>5. EffectiveJump(file, HostOf(file[n])) = IF hops(n) = {} THEN Direct ELSE JumpOf(file[n])
    BY <2>2, <2>3, <2>4 DEF EffectiveJump
  <2> QED
    BY <1>5, <1>8, <2>5
<1>10. ASSUME NEW h \in DOMAIN devices
       PROVE  TargetOf(HopVia(alias(h), NoUser, NoPort)) = KeyOf(devices[h])
  <2> DEFINE hop == HopVia(alias(h), NoUser, NoPort)
  <2>1. hop.host = alias(h) /\ hop.user = NoUser /\ hop.port = NoPort
    BY DEF HopVia
  <2> HIDE DEF hop
  <2>2. {n \in DOMAIN ParseHosts(file) : hop.host \in Parsed(n).host.aliases} = {h}
    BY <1>2, <1>5, <1>7, <2>1
  <2>3. First({h}) = h
    BY <1>1, <1>6
  <2>4. BaseOf(hop) = Parsed(h).host
    BY <2>2, <2>3 DEF BaseOf
  <2>5. /\ Parsed(h).host.address = devices[h].address /\ Parsed(h).host.port = devices[h].port
        /\ Parsed(h).host.user = devices[h].user /\ devices[h].user # NoUser
    BY <1>1, <1>5, <1>7
  <2>6. TargetOf(hop) = KeyOf(devices[h])
    BY <2>1, <2>4, <2>5 DEF TargetOf, KeyOf, UserOr
  <2> QED
    BY <2>6 DEF hop
<1>11. ASSUME NEW n \in DOMAIN devices
       PROVE  /\ KeyOf(DeviceOf(n)) = KeyOf(devices[n]) /\ DeviceOf(n).key = devices[n].key
              /\ DeviceOf(n).user # NoUser
  BY <1>1, <1>5, <1>7 DEF DeviceOf, KeyOf, UserOr
<1>12. ASSUME NEW n \in DOMAIN devices, hops(n) # {}
       PROVE  Parsed(n).jump.via = "hop" /\ \E h \in hops(n) : TargetOf(Parsed(n).jump) = KeyOf(devices[h])
  <2>1. hops(n) \subseteq DOMAIN devices /\ hops(n) \subseteq Nat
    BY <1>1 DEF hops, JumpsOf
  <2>2. First(hops(n)) \in hops(n)
    BY <1>12, <2>1, FirstFacts
  <2>3. HopVia(alias(First(hops(n))), NoUser, NoPort).via = "hop"
    BY DEF HopVia
  <2> QED
    BY <1>9, <1>10, <1>12, <2>1, <2>2, <2>3
<1> QED
  BY <1>5, <1>9, <1>11, <1>12 DEF hops

\* What an export that can say all of it is read as: each device, going through
\* the device that its jump was.
OwnFile == origin # <<>> => origin \in Stores /\ file = Exported(origin) /\ before = <<>>

LEMMA OwnFacts ==
  ASSUME SshConstants, OwnFile, origin # <<>>, Sayable(origin)
  PROVE  /\ DOMAIN ParseHosts(file) = DOMAIN origin
         /\ \A i, j \in DOMAIN origin : origin[i].id = origin[j].id => i = j
         /\ \A n \in DOMAIN origin :
             /\ KeyOf(DeviceOf(n)) = KeyOf(origin[n]) /\ DeviceOf(n).key = origin[n].key
             /\ DeviceOf(n).user # NoUser
             /\ origin[n].jump = NoJump => Parsed(n).jump = Direct
             /\ origin[n].jump # NoJump =>
                  /\ Parsed(n).jump.via = "hop"
                  /\ \E h \in DOMAIN origin :
                      /\ origin[h].id = origin[n].jump /\ origin[h].jump = NoJump
                      /\ TargetOf(Parsed(n).jump) = KeyOf(origin[h])
<1>1. origin \in Stores /\ file = Exported(origin)
  BY DEF OwnFile
<1>2. /\ DOMAIN ParseHosts(file) = DOMAIN origin
      /\ \A n \in DOMAIN origin :
          /\ KeyOf(DeviceOf(n)) = KeyOf(origin[n]) /\ DeviceOf(n).key = origin[n].key
          /\ DeviceOf(n).user # NoUser
          /\ JumpsOf(origin, n) = {} => Parsed(n).jump = Direct
          /\ JumpsOf(origin, n) # {} =>
                /\ Parsed(n).jump.via = "hop"
                /\ \E h \in JumpsOf(origin, n) : TargetOf(Parsed(n).jump) = KeyOf(origin[h])
  BY <1>1, ExportFacts
<1>3. \A i, j \in DOMAIN origin : origin[i].id = SavedId(origin[i].id.n) /\ (origin[i].id = origin[j].id => i = j)
  BY <1>1 DEF SshConstants
<1>4. \A h \in DOMAIN origin : origin[h].id # NoJump
  BY <1>3, IdFacts
<1>5. ASSUME NEW n \in DOMAIN origin, origin[n].jump = NoJump PROVE Parsed(n).jump = Direct
  BY <1>2, <1>4, <1>5 DEF JumpsOf
<1>6. ASSUME NEW n \in DOMAIN origin, origin[n].jump # NoJump
      PROVE  /\ Parsed(n).jump.via = "hop"
             /\ \E h \in DOMAIN origin :
                 /\ origin[h].id = origin[n].jump /\ origin[h].jump = NoJump
                 /\ TargetOf(Parsed(n).jump) = KeyOf(origin[h])
  <2>1. PICK h \in DOMAIN origin : origin[h].id = origin[n].jump /\ origin[h].jump = NoJump
    BY <1>6 DEF Sayable
  <2>2. h \in JumpsOf(origin, n) /\ \A g \in JumpsOf(origin, n) : g = h
    BY <1>3, <2>1 DEF JumpsOf
  <2> QED
    BY <1>2, <2>1, <2>2
<1> QED
  BY <1>2, <1>3, <1>5, <1>6

\* The book has a host of the export that was admitted, and knows if it is to be
\* linked straight.
BookedFor(k, n) ==
  /\ n \notin hosts /\ k = KeyOf(origin[n])
  /\ byKey[k].id = FileId(n) /\ (byKey[k].jumps => origin[n].jump # NoJump)

AsParsed(d) == KeyOf(d) = KeyOf(DeviceOf(d.id.n)) /\ d.key = DeviceOf(d.id.n).key

\* Of an export that can say all of it, no host is skipped, the book has just the
\* hosts admitted, and each becomes the device it says.
BackInv ==
  origin # <<>> /\ Sayable(origin) =>
    /\ skipped = 0
    /\ \A n \in DOMAIN origin \ hosts : KeyOf(origin[n]) \in DOMAIN byKey
    /\ \A k \in DOMAIN byKey : \E n \in DOMAIN origin : BookedFor(k, n)
    /\ \A d \in Imported : AsParsed(d)

\* What doesn't admit anyone, and adds only hosts as parsed.
LEMMA BackStays ==
  ASSUME BackInv, UNCHANGED <<Given, hosts, byKey>>, origin # <<>> /\ Sayable(origin) => skipped' = skipped,
         \A d \in Imported' : d \in Imported \/ AsParsed(d)
  PROVE  BackInv'
<1> SUFFICES ASSUME origin # <<>>, Sayable(origin)
             PROVE  /\ skipped' = 0
                    /\ \A n \in DOMAIN origin \ hosts : KeyOf(origin[n]) \in DOMAIN byKey
                    /\ \A k \in DOMAIN byKey : \E n \in DOMAIN origin : BookedFor(k, n)
                    /\ \A d \in Imported' : AsParsed(d)'
  BY DEF BackInv, Given, BookedFor
<1>1. \A d : AsParsed(d)' <=> AsParsed(d)
  BY GivenStays DEF AsParsed
<1> QED
  BY <1>1 DEF BackInv

\* Nobody has the host's key yet, so it is admitted.
LEMMA AdmitBack ==
  ASSUME SshConstants, OwnFile, ImportInv, BackInv, Admit
  PROVE  BackInv'
<1>n. PICK n : n = First(hosts)
  OBVIOUS
<1>k. PICK key : key = KeyOf(DeviceOf(n))
  OBVIOUS
<1>1. /\ n \in hosts /\ hosts' = hosts \ {n}
      /\ UNCHANGED <<Given, store, stage, created, linked>>
  BY <1>n, FirstHost DEF Admit
<1>2. \/ /\ DeviceOf(n).user = NoUser \/ key \in DOMAIN byKey
         /\ skipped' = skipped + 1 /\ UNCHANGED <<planned, byKey>>
      \/ /\ ~(DeviceOf(n).user = NoUser \/ key \in DOMAIN byKey)
         /\ UNCHANGED skipped /\ Remember(key, KnownAs(n))
  BY <1>n, <1>k DEF Admit
<1>3. Imported' = Imported /\ \A d : AsParsed(d)' <=> AsParsed(d)
  BY <1>1, GivenStays DEF Imported, ThisImport, AsParsed
<1> SUFFICES ASSUME origin # <<>>, Sayable(origin)
             PROVE  /\ skipped' = 0
                    /\ \A m \in DOMAIN origin \ hosts' : KeyOf(origin[m]) \in DOMAIN byKey'
                    /\ \A k \in DOMAIN byKey' : \E m \in DOMAIN origin : BookedFor(k, m)'
                    /\ \A d \in Imported' : AsParsed(d)'
  BY <1>1 DEF BackInv, Given
<1>4. /\ skipped = 0
      /\ \A m \in DOMAIN origin \ hosts : KeyOf(origin[m]) \in DOMAIN byKey
      /\ \A k \in DOMAIN byKey : \E m \in DOMAIN origin : BookedFor(k, m)
      /\ \A d \in Imported : AsParsed(d)
  BY DEF BackInv
<1>5. n \in DOMAIN origin
  BY <1>1, OwnFacts DEF ImportInv, HostsInv
<1>6. key = KeyOf(origin[n]) /\ DeviceOf(n).user # NoUser /\ (origin[n].jump = NoJump => Parsed(n).jump = Direct)
  BY <1>k, <1>5, OwnFacts
<1>7. key \notin DOMAIN byKey
  <2>1. ASSUME NEW m \in DOMAIN origin, m \notin hosts, key = KeyOf(origin[m]) PROVE FALSE
    BY <1>1, <1>5, <1>6, <2>1 DEF Sayable
  <2> QED
    BY <1>4, <2>1 DEF BookedFor
<1>8. skipped' = 0 /\ Remember(key, KnownAs(n))
  BY <1>2, <1>4, <1>6, <1>7
<1>9. /\ DOMAIN byKey' = DOMAIN byKey \cup {key} /\ byKey'[key] = KnownAs(n)
      /\ \A k \in DOMAIN byKey : byKey'[k] = byKey[k]
  BY <1>7, <1>8, RememberFacts
<1>10. BookedFor(key, n)'
  <2>1. KnownAs(n).id = FileId(n) /\ (KnownAs(n).jumps => origin[n].jump # NoJump)
    BY <1>6 DEF KnownAs
  <2> QED
    BY <1>1, <1>6, <1>9, <2>1 DEF BookedFor, Given
<1>11. ASSUME NEW k \in DOMAIN byKey, NEW m, BookedFor(k, m) PROVE BookedFor(k, m)'
  BY <1>1, <1>9, <1>11 DEF BookedFor, Given
<1> QED
  BY <1>1, <1>3, <1>4, <1>5, <1>6, <1>8, <1>9, <1>10, <1>11

\* What the host goes through is in the book, so it is linked.
LEMMA LinkBack ==
  ASSUME SshConstants, OwnFile, ImportInv, BackInv, Link
  PROVE  BackInv'
<1>n. PICK n : n = First(planned)
  OBVIOUS
<1>1. n \in planned /\ stage = "linking" /\ UNCHANGED <<Given, store, hosts>>
  BY <1>n, FirstHost DEF Link
<1>2. \/ Parsed(n).jump.via = "direct" /\ LinkTo(n, NoJump) /\ UNCHANGED <<byKey, created, skipped>>
      \/ Parsed(n).jump.via = "hop" /\ LinkThrough(n)
      \/ Parsed(n).jump.via \notin {"direct", "hop"}
  BY <1>n DEF Link
<1> SUFFICES ASSUME origin # <<>>, Sayable(origin) PROVE BackInv'
  BY <1>1 DEF BackInv, Given
<1>3. /\ \A m \in DOMAIN origin \ hosts : KeyOf(origin[m]) \in DOMAIN byKey
      /\ \A k \in DOMAIN byKey : \E m \in DOMAIN origin : BookedFor(k, m)
  BY DEF BackInv
<1>4. n \in DOMAIN origin /\ hosts = {}
  BY <1>1, OwnFacts DEF ImportInv, HostsInv, ImportShape
<1>5. \/ Parsed(n).jump = Direct
      \/ /\ Parsed(n).jump.via = "hop"
         /\ \E h \in DOMAIN origin :
             origin[h].jump = NoJump /\ TargetOf(Parsed(n).jump) = KeyOf(origin[h])
  BY <1>4, OwnFacts
\* Linked straight, or to what the book has.
<1>6. \E jump : LinkTo(n, jump) /\ UNCHANGED <<byKey, created, skipped>>
  <2>1. CASE Parsed(n).jump.via = "hop" /\ LinkThrough(n)
    <3>1. PICK h \in DOMAIN origin : origin[h].jump = NoJump /\ TargetOf(Parsed(n).jump) = KeyOf(origin[h])
      BY <1>5, <2>1 DEF Direct
    <3>t. PICK t : t = TargetOf(Parsed(n).jump)
      OBVIOUS
    <3>2. t \in DOMAIN byKey
      BY <1>3, <1>4, <3>1, <3>t
    <3>3. ~byKey[t].jumps
      <4>1. PICK m \in DOMAIN origin : BookedFor(t, m)
        BY <1>3, <3>2
      <4>2. KeyOf(origin[m]) = KeyOf(origin[h])
        BY <3>1, <3>t, <4>1 DEF BookedFor
      <4>3. m = h
        BY <4>2 DEF Sayable
      <4> QED
        BY <3>1, <4>1, <4>3 DEF BookedFor
    <3>4. t[3] # NoUser
      <4>1. t = KeyOf(DeviceOf(h)) /\ DeviceOf(h).user # NoUser
        BY <3>1, <3>t, OwnFacts
      <4>2. KeyOf(DeviceOf(h))[3] = DeviceOf(h).user
        BY DEF KeyOf
      <4> QED
        BY <4>1, <4>2
    <3> QED
      BY <2>1, <3>t, <3>2, <3>3, <3>4 DEF LinkThrough
  <2> QED
    BY <1>2, <1>5, <2>1 DEF Direct
<1>7. PICK jump : LinkTo(n, jump) /\ UNCHANGED <<byKey, created, skipped>>
  BY <1>6
<1>8. PICK d : /\ linked' = Append(linked, d)
               /\ d.id = FileId(n) /\ d.key = DeviceOf(n).key /\ KeyOf(d) = KeyOf(DeviceOf(n))
  <2>1. linked' = Append(linked, [DeviceOf(n) EXCEPT !.jump = jump])
    BY <1>7 DEF LinkTo
  <2>2. PICK d : d = [DeviceOf(n) EXCEPT !.jump = jump]
    OBVIOUS
  <2>3. d.id = FileId(n) /\ d.key = DeviceOf(n).key /\ KeyOf(d) = KeyOf(DeviceOf(n))
    BY <2>2, NewDevices
  <2> QED
    BY <2>1, <2>2, <2>3
<1>9. Range(linked') = Range(linked) \cup {d}
  BY <1>8, AppendRange DEF ImportInv, ImportShape
<1>10. AsParsed(d)
  BY <1>8, IdFacts DEF AsParsed
<1>11. \A e \in Imported' : e \in Imported \/ AsParsed(e)
  BY <1>1, <1>7, <1>9, <1>10 DEF Imported, ThisImport
<1> QED
  BY <1>1, <1>7, <1>11, BackStays

\* Every step keeps that.
LEMMA BackStep ==
  ASSUME SshConstants, OwnFile, ImportInv, BackInv, [Next]_sshvars
  PROVE  OwnFile' /\ BackInv'
<1>1. UNCHANGED Given
  BY DEF Next, Admit, AllAdmitted, Link, AllLinked, Save, SaveFails, AllSaved, sshvars, Given
<1>2. OwnFile'
  BY <1>1 DEF Given, OwnFile
<1>3. CASE Admit
  BY <1>2, <1>3, AdmitBack
<1>4. CASE Link
  BY <1>2, <1>4, LinkBack
<1>5. CASE AllAdmitted \/ AllLinked \/ Save \/ SaveFails \/ AllSaved
  <2>1. UNCHANGED <<Given, hosts, byKey, skipped>> /\ ThisImport' = ThisImport
    BY <1>5, SavingFacts DEF ImportInv
  <2>2. Imported' = Imported
    BY <2>1 DEF Imported
  <2> QED
    BY <1>2, <2>1, <2>2, BackStays
<1>6. CASE UNCHANGED sshvars
  <2>1. UNCHANGED <<Given, hosts, byKey, skipped>> /\ Imported' = Imported
    BY <1>6 DEF sshvars, Given, Imported, ThisImport
  <2> QED
    BY <1>2, <2>1, BackStays
<1> QED
  BY <1>2, <1>3, <1>4, <1>5, <1>6 DEF Next

\* It holds when the import begins: nothing is saved.
LEMMA BackInit ==
  ASSUME SshConstants, Init
  PROVE  OwnFile /\ BackInv
<1>1. OwnFile
  BY DEF Init, OwnFile
<1>2. ASSUME origin # <<>>, Sayable(origin) PROVE before = <<>> /\ hosts = DOMAIN origin
  BY <1>1, <1>2, OwnFacts DEF OwnFile, Init
<1>3. Range(<<>>) = {} /\ DOMAIN <<>> = {}
  BY DEF Range
<1>4. DOMAIN Seeded(<<>>) = {}
  BY <1>3 DEF Seeded
<1>5. ASSUME origin # <<>>, Sayable(origin) PROVE DOMAIN byKey = {} /\ Imported = {} /\ skipped = 0
  BY <1>2, <1>3, <1>4, <1>5 DEF Init, Imported, ThisImport
<1> QED
  BY <1>1, <1>2, <1>5 DEF BackInv

\* Every host is a device by then, and what it goes through is the one that the
\* device exported went through.
LEMMA RoundTripHolds ==
  ASSUME SshConstants, OwnFile, ImportInv, BackInv
  PROVE  RoundTrip
<1> SUFFICES ASSUME stage = "done", origin # <<>>, Sayable(origin), NEW d \in Range(origin)
             PROVE  \E e \in Range(store) :
                      /\ KeyOf(e) = KeyOf(d) /\ e.key = d.key
                      /\ d.jump = NoJump <=> e.jump = NoJump
                      /\ d.jump # NoJump => \A via \in Range(origin), other \in Range(store) :
                              via.id = d.jump /\ other.id = e.jump => KeyOf(via) = KeyOf(other)
  BY DEF RoundTrip
<1>1. PICK n \in DOMAIN origin : d = origin[n]
  BY DEF Range
<1>2. /\ ImportShape /\ HostsInv /\ IdsInv /\ BookInv /\ LinksInv
      /\ Sequence(file) /\ hosts = {} /\ planned = {} /\ created = <<>> /\ linked = <<>>
  BY DEF ImportInv, ImportShape
<1>3. /\ skipped = 0 /\ \A k \in DOMAIN byKey : \E m \in DOMAIN origin : BookedFor(k, m)
      /\ \A e \in Imported : AsParsed(e)
  BY DEF BackInv
<1>4. ThisImport = Range(store)
  BY <1>2 DEF ThisImport, Range
<1>5. Settled = DOMAIN ParseHosts(file)
  <2>1. /\ Settled \subseteq DOMAIN ParseHosts(file)
        /\ Cardinality(Settled) + skipped = Cardinality(DOMAIN ParseHosts(file))
    <3>1. hosts \cup planned \cup Settled = Settled
      BY <1>2
    <3> QED
      BY <1>2, <3>1 DEF HostsInv
  <2>2. IsFiniteSet(DOMAIN ParseHosts(file))
    BY <1>2, SectionNumbers
  <2>3. Cardinality(Settled) \in Nat
    BY <2>1, <2>2, FS_Subset, FS_CardinalityType
  <2>4. Cardinality(Settled) = Cardinality(DOMAIN ParseHosts(file))
    BY <1>3, <2>1, <2>3
  <2> QED
    BY <2>1, <2>2, <2>4, FS_Subset
<1>6. PICK e \in Imported : e.id.n = n
  <2>1. n \in Settled
    BY <1>5, OwnFacts
  <2> QED
    BY <2>1 DEF Settled
<1>7. e \in Range(store)
  BY <1>4 DEF Imported
<1>8. KeyOf(e) = KeyOf(d) /\ e.key = d.key
  BY <1>1, <1>3, <1>6, OwnFacts DEF AsParsed
<1>9. LinkedBy(e, Parsed(n).jump)
  BY <1>2, <1>6 DEF LinksInv
<1>10. d.jump = NoJump <=> e.jump = NoJump
  BY <1>1, <1>9, OwnFacts DEF LinkedBy, Direct
<1>11. ASSUME d.jump # NoJump, NEW via \in Range(origin), NEW other \in Range(store),
              via.id = d.jump, other.id = e.jump
       PROVE  KeyOf(via) = KeyOf(other)
  <2>1. PICK h \in DOMAIN origin : origin[h].id = d.jump /\ TargetOf(Parsed(n).jump) = KeyOf(origin[h])
    BY <1>1, <1>11, OwnFacts
  <2>2. via = origin[h]
    <3>1. PICK g \in DOMAIN origin : via = origin[g]
      BY DEF Range
    <3> QED
      BY <1>11, <2>1, <3>1, OwnFacts
  <2>3. KeyOf(via) \in DOMAIN byKey /\ byKey[KeyOf(via)].id = e.jump
    BY <1>9, <1>10, <1>11, <2>1, <2>2 DEF LinkedBy, ThroughBook
  <2>4. PICK m \in DOMAIN origin : BookedFor(KeyOf(via), m)
    BY <1>3, <2>3
  <2>5. other.id = FileId(m) /\ KeyOf(via) = KeyOf(origin[m])
    BY <1>11, <2>3, <2>4 DEF BookedFor
  <2>6. other \in Imported /\ other.id.n = m
    BY <1>4, <2>5, IdFacts DEF Imported
  <2>7. KeyOf(other) = KeyOf(DeviceOf(m)) /\ KeyOf(DeviceOf(m)) = KeyOf(origin[m])
    BY <1>3, <2>6, OwnFacts DEF AsParsed
  <2> QED
    BY <2>5, <2>7
<1> QED
  BY <1>7, <1>8, <1>10, <1>11

(* ---------------------------------- parts --------------------------------- *)

\* While another part runs, nothing of this one changes.
LEMMA SessionPart ==
  ASSUME part = "ssh" => SessionInv, [PartNext]_allVars
  PROVE  (part = "ssh" => SessionInv)'
<1>1. CASE SshRuns /\ Ssh!Next
  BY <1>1, SessionStep, DevicesAssumption DEF SshRuns
<1>2. CASE part # "ssh" /\ part' = part
  BY <1>2
<1>3. CASE UNCHANGED allVars
  <2>1. UNCHANGED <<part, Ssh!vars>>
    BY <1>3 DEF allVars, Ssh!vars, Ssh!link, Ssh!control, shared, sshOnly
  <2> QED
    BY <2>1, SessionStep, DevicesAssumption
<1> QED
  BY <1>1, <1>2, <1>3 DEF PartNext, SshRuns, LocalRuns, SerialRuns, StoresRun, ImportRuns

\* While another part runs, nothing of this one changes.
LEMMA LocalPart ==
  ASSUME part = "local" => SessionShellInv, [PartNext]_allVars
  PROVE  (part = "local" => SessionShellInv)'
<1>1. CASE LocalRuns /\ Local!Next
  BY <1>1, SessionShellStep, DevicesAssumption DEF LocalRuns
<1>2. CASE part # "local" /\ part' = part
  BY <1>2
<1>3. CASE UNCHANGED allVars
  <2>1. UNCHANGED <<part, Local!vars>>
    BY <1>3 DEF allVars, Local!vars, Local!shell, Local!threads, shared, sshOnly, localOnly
  <2> QED
    BY <2>1, SessionShellStep, DevicesAssumption
<1> QED
  BY <1>1, <1>2, <1>3 DEF PartNext, SshRuns, LocalRuns, SerialRuns, StoresRun, ImportRuns

\* While another part runs, nothing of this one changes.
LEMMA SerialPart ==
  ASSUME part = "serial" => SerialInv, [PartNext]_allVars
  PROVE  (part = "serial" => SerialInv)'
<1>1. CASE SerialRuns /\ Serial!Next
  BY <1>1, SerialStep, DevicesAssumption DEF SerialRuns
<1>2. CASE part # "serial" /\ part' = part
  BY <1>2
<1>3. CASE UNCHANGED allVars
  <2>1. UNCHANGED <<part, Serial!vars>>
    BY <1>3 DEF allVars, Serial!vars, Serial!device, shared, serialOnly
  <2> QED
    BY <2>1, SerialStep, DevicesAssumption
<1> QED
  BY <1>1, <1>2, <1>3 DEF PartNext, SshRuns, LocalRuns, SerialRuns, StoresRun, ImportRuns

\* While another part runs, nothing of this one changes.
LEMMA StoresPart ==
  ASSUME part = "stores" => StoresInv, [PartNext]_allVars
  PROVE  (part = "stores" => StoresInv)'
<1>1. CASE StoresRun /\ Stored!Next
  BY <1>1, StoresStep DEF StoresRun
<1>2. CASE part # "stores" /\ part' = part
  BY <1>2
<1>3. CASE UNCHANGED allVars
  <2>1. UNCHANGED <<part, Stored!vars>>
    BY <1>3 DEF allVars, Stored!vars, storeVars
  <2> QED
    BY <2>1, StoresStep
<1> QED
  BY <1>1, <1>2, <1>3 DEF PartNext, SshRuns, LocalRuns, SerialRuns, StoresRun, ImportRuns

\* Either an import runs, or none has begun.
ImportGoesWell ==
  IF part = "import" THEN ImportInv /\ OwnFile /\ BackInv ELSE stage = Unused

LEMMA ImportPart == PartSpec => []ImportGoesWell
<1>1. PartInit => ImportGoesWell
  BY ImportInit, BackInit, ImportAssumption DEF PartInit, NoImport, ImportGoesWell
<1>2. ASSUME ImportGoesWell, [PartNext]_allVars PROVE ImportGoesWell'
  <2>1. CASE ImportRuns /\ Next
    <3>1. ImportInv /\ OwnFile /\ BackInv /\ part' = "import"
      BY <1>2, <2>1 DEF ImportRuns, ImportGoesWell
    <3>2. ImportInv' /\ OwnFile' /\ BackInv'
      BY <2>1, <3>1, ImportStep, BackStep, ImportAssumption
    <3> QED
      BY <3>1, <3>2 DEF ImportGoesWell
  <2>2. CASE UNCHANGED <<part, sshvars>>
    <3>1. part = "import" => ImportInv' /\ OwnFile' /\ BackInv'
      BY <1>2, <2>2, ImportStep, BackStep, ImportAssumption DEF ImportGoesWell
    <3> QED
      BY <1>2, <2>2, <3>1 DEF ImportGoesWell, sshvars
  <2>3. UNCHANGED <<part, sshvars>> \/ (ImportRuns /\ Next)
    BY <1>2 DEF PartNext, SshRuns, LocalRuns, SerialRuns, StoresRun, ImportRuns, allVars
  <2> QED
    BY <2>1, <2>2, <2>3
<1> QED
  BY <1>1, <1>2, PTL DEF PartSpec

\* The shell of an SSH session gets the size the pane asked for last, however
\* often it was resized and wherever the session was meanwhile, and only a shell
\* the server said to have ended with code 0 is reported as exited (run_shell).
THEOREM SshShellIsAsAsked == PartSpec => []ShellIsAsAsked
<1>1. PartInit => (part = "ssh" => SessionInv)
  BY SessionInit, DevicesAssumption DEF PartInit
<1>2. (part = "ssh" => SessionInv) /\ [PartNext]_allVars => (part = "ssh" => SessionInv)'
  BY SessionPart
<1>3. (part = "ssh" => SessionInv) => ShellIsAsAsked
  <2> SUFFICES ASSUME part = "ssh", SessionInv PROVE ShellIsAsAsked
    BY DEF ShellIsAsAsked
  <2>1. Ssh!TypeOK
    BY SessionTypesHold, DevicesAssumption DEF SessionInv
  <2>2. Ssh!SizeReachesShell
    <3> SUFFICES ASSUME phase = "shell", alive, queue = <<>>, writing = Ssh!None
                 PROVE  ptySize = asked
      BY DEF Ssh!SizeReachesShell
    <3>2. InQueue \/ PastQueue
      BY DEF SessionInv, SizeUnderWay
    <3>3. ~InQueue /\ writing \notin Sizes
      BY DevicesAssumption DEF InQueue, DevicesAssumption, Ssh!None
    <3> QED
      BY <3>2, <3>3 DEF PastQueue, Sending
  <2>3. Ssh!ExitedIsClean
    BY DEF SessionInv, ExitIsClean
  <2> QED
    BY <2>1, <2>2, <2>3 DEF ShellIsAsAsked
<1> QED
  BY <1>1, <1>2, <1>3, PTL DEF PartSpec

\* However an SSH session ends, its output ends and its recorder closes; and a
\* recording that goes on has no hole (spawn_session, Recorder).
THEOREM SshOutputIsKept == PartSpec => []OutputIsKept
<1>1. PartInit => (part = "ssh" => SessionInv)
  BY SessionInit, DevicesAssumption DEF PartInit
<1>2. (part = "ssh" => SessionInv) /\ [PartNext]_allVars => (part = "ssh" => SessionInv)'
  BY SessionPart
<1>3. (part = "ssh" => SessionInv) => OutputIsKept
  BY DEF SessionInv, Recorded, OutputIsKept, Ssh!RecordingHasNoHole
<1> QED
  BY <1>1, <1>2, <1>3, PTL DEF PartSpec

\* What the run checks of local shells and serial ports: a shell is never
\* signalled once it was waited for, and nothing is lost count of (reaper,
\* SerialSession).
THEOREM ReapedAreLeftAlone == PartSpec => []ReapedIsLeftAlone
<1> DEFINE Inv == (part = "local" => SessionShellInv) /\ (part = "serial" => SerialInv)
<1>1. PartInit => Inv
  BY SessionShellInit, SerialInit, DevicesAssumption DEF PartInit
<1>2. Inv /\ [PartNext]_allVars => Inv'
  BY LocalPart, SerialPart
<1>3. Inv => ReapedIsLeftAlone
  <2> SUFFICES ASSUME Inv PROVE ReapedIsLeftAlone
    OBVIOUS
  <2>1. CASE part = "local"
    <3>1. Local!TypeOK
      BY <2>1, DevicesAssumption DEF SessionShellInv, CallsCounted, QueueOK, OutputCounted,
         LoopTyped,
         ProcessTyped, Local!TypeOK, DevicesAssumption
    <3> QED
      BY <2>1, <3>1 DEF SessionShellInv, ShellInv, ReapedIsLeftAlone
  <2> QED
    BY <2>1 DEF ReapedIsLeftAlone, SerialInv
<1> HIDE DEF Inv
<1> QED
  BY <1>1, <1>2, <1>3, PTL DEF PartSpec

\* A serial port that goes away in the middle of a write, or a disconnect then,
\* never makes an error of the session (apply_control).
THEOREM SerialErrorsAreOfThePort == PartSpec => ErrorsAreOfThePort
<1>1. PartInit => (part = "serial" => SerialInv)
  BY SerialInit, DevicesAssumption DEF PartInit
<1>2. (part = "serial" => SerialInv) /\ [PartNext]_allVars => (part = "serial" => SerialInv)'
  BY SerialPart
<1>3. (part = "serial" => SerialInv) /\ [PartNext]_allVars
        => [part = "serial" /\ phase = "applying" => result' # "error"]_allVars
  <2> SUFFICES ASSUME SerialInv, PartNext, part = "serial", phase = "applying"
               PROVE  result' # "error"
    OBVIOUS
  <2>1. Serial!Next
    BY DEF PartNext, SshRuns, LocalRuns, StoresRun, ImportRuns
  <2>2. result = "none"
    BY DEF SerialInv, NoResultYet
  <2> QED
    BY <2>1, <2>2 DEF Serial!Next, Serial!Task, Serial!Spawn, Serial!WriteStdin, Serial!Disconnect,
       Serial!Open, Serial!TypeSnippet, Serial!Pump, Serial!ApplyControl, Serial!Apply,
       Serial!WrittenOrOver, Serial!Over, Serial!Report, Serial!DeviceSends, Serial!DeviceChanges
<1> QED
  BY <1>1, <1>2, <1>3, PTL DEF PartSpec, ErrorsAreOfThePort

\* What is saved and what memory has of it agree wherever a command of several
\* writes fails, is overtaken by a reload or is cut short by a restart, and what
\* was deleted with success is nowhere known any more (Stored!Commit,
\* delete_device_impl, reload).
THEOREM TheStoresAgree == PartSpec => []StoresAgree
<1>1. PartInit => (part = "stores" => StoresInv)
  BY StoresInit DEF PartInit
<1>2. (part = "stores" => StoresInv) /\ [PartNext]_allVars => (part = "stores" => StoresInv)'
  BY StoresPart
<1>3. (part = "stores" => StoresInv) => StoresAgree
  <2> SUFFICES ASSUME StoresInv
               PROVE  /\ Stored!TypeOK /\ Stored!MemoryIsDisk
                      /\ Stored!DefaultIsSaved /\ Stored!DeletedIsForgotten
    BY DEF StoresAgree
  <2>1. Stored!TypeOK
    <3>1. \A f \in Stored!ConfigFiles : mem[f] \in Stored!Contents[f] /\ (f # "devices" => disk[f] \in Stored!Contents[f])
      BY DEF StoresInv, FilesInv, FilesTyped, Fits
    <3>2. \A f \in Stored!ConfigFiles \ {"devices"} : disk[f] # Corrupt
      BY <3>1, StoresAssumption DEF Stored!StoresConstants
    <3>3. \A i \in Ids : keyring[i] # NoOne => keyring[i].method \in {"password", "key"}
      BY DEF StoresInv, KeysTyped, Secrets
    <3>4. op.do \in {"nothing", "secret", "device", "forget", "panes", "jumps", "confirm", "drop", "add"}
      BY DEF StoresInv, OpTyped
    <3> QED
      BY <3>1, <3>2, <3>3, <3>4, FileNames
      DEF StoresInv, KeysTyped, FilesInv, FilesTyped, FilesAgree, Stored!TypeOK
  <2>2. Stored!MemoryIsDisk
    BY DEF StoresInv, FilesInv, FilesAgree, Same, Stored!MemoryIsDisk
  <2>3. Stored!DefaultIsSaved
    <3>1. mem["profiles"] \in Fits("profiles") /\ disk["profiles"] \in Fits("profiles")
      BY FileNames DEF StoresInv, FilesInv, FilesTyped
    <3> QED
      BY <3>1 DEF Fits, Stored!DefaultIsSaved
  <2>4. Stored!DeletedIsForgotten
    BY DEF StoresInv, ForgettingInv, NeverBehind, Gone, Stored!DeletedIsForgotten, Stored!Jumping
  <2> QED
    BY <2>1, <2>2, <2>3, <2>4
<1> QED
  BY <1>1, <1>2, <1>3, PTL DEF PartSpec

\* A stored secret is only ever for what the user gave it for, whatever is
\* imported, changed or deleted and whichever write of it fails; an import acts
\* on no risk but those confirmed, and changes no command the user saved
\* (drop_inherited_secret, import_devices, add_into).
THEOREM TheSecretsStayPut == PartSpec => []SecretsStayPut
<1>1. PartInit => (part = "stores" => StoresInv)
  BY StoresInit DEF PartInit
<1>2. (part = "stores" => StoresInv) /\ [PartNext]_allVars => (part = "stores" => StoresInv)'
  BY StoresPart
<1>3. (part = "stores" => StoresInv) => SecretsStayPut
  <2> SUFFICES ASSUME StoresInv PROVE Stored!SecretsStayPut /\ Stored!RisksAgreed /\ Stored!CommandsTrusted
    BY DEF SecretsStayPut
  <2>1. behind["devices"] = "never" => disk["devices"] = mem["devices"]
    BY FileNames DEF StoresInv, FilesInv, FilesAgree, Same
  <2>2. Stored!SecretsStayPut
    BY <2>1 DEF StoresInv, SecretsInv, MeantFor, Stored!SecretsStayPut
  <2>3. Stored!RisksAgreed
    BY DEF StoresInv, RisksInv, Stored!RisksAgreed
  <2> QED
    BY <2>2, <2>3 DEF StoresInv
<1> QED
  BY <1>1, <1>2, <1>3, PTL DEF PartSpec

\* Whatever the file says, an imported host goes through the jump host that the
\* file's first word on it names, which jumps nowhere itself, and straight only
\* where ssh would; it is new among what is saved; and no host of the file is
\* lost without being counted (import_hosts, effective_jump, jump_host_for).
THEOREM AllImportedAsWritten == PartSpec => []ImportedAsWritten
<1>1. ImportGoesWell => ImportedAsWritten
  BY RoutesHold, OneHopHolds, NoTwinsHolds, AllCountedHolds DEF ImportedAsWritten, ImportGoesWell
<1> QED
  BY <1>1, ImportPart, PTL

\* Devices exported, and imported where nothing is saved, come back, each through
\* the jump host it had, as far as a config file can say so (assign_aliases,
\* write_host_block, import_hosts).
THEOREM ExportsComeBack == PartSpec => []RoundTrip
<1>1. ASSUME ImportGoesWell PROVE RoundTrip
  <2>1. CASE part = "import"
    BY <1>1, <2>1, RoundTripHolds, ImportAssumption DEF ImportGoesWell
  <2>2. CASE part # "import"
    BY <1>1, <2>2 DEF ImportGoesWell, RoundTrip, Unused
  <2> QED
    BY <2>1, <2>2
<1> QED
  BY <1>1, ImportPart, PTL
=============================================================================
