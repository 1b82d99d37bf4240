-------------------------------- MODULE Socks --------------------------------
(***************************************************************************)
(* One connection accepted by a local forward (tunnel.rs, socks.rs): for     *)
(* ssh -L it goes to a fixed target, for ssh -D the client says where to in a *)
(* SOCKS handshake. The client sends the fields of its request one by one and *)
(* may stop anywhere; whatever it sends after them is unread input.           *)
(***************************************************************************)
EXTENDS Integers, Sequences, SequencesExt, Lists

CONSTANTS Requests   \* what clients send, see below

(* A request: version 4, 5 or another one; the methods offer "none"; the      *)
(* version repeated; the command is CONNECT; its address is an "ip", a "name"  *)
(* or of an "other" type; the name is valid; a NUL-terminated field too long;  *)
(* data sent right behind the request.                                       *)
RequestShapes ==
  [version : {0, 4, 5}, offersNone : BOOLEAN, again : {0, 5}, connect : BOOLEAN,
   address : {"ip", "name", "other"}, valid : BOOLEAN, long : BOOLEAN, eager : BOOLEAN]

Rejections == {"GeneralFailure", "NotAllowed", "HostUnreachable", "ConnectionRefused",
               "CommandNotSupported", "AddressNotSupported"}

\* Only SOCKS4 has a field that ends with a NUL, and only SOCKS5 says of which
\* type its address is.
SocksConstants ==
  Requests \subseteq {r \in RequestShapes : /\ r.version # 4 => ~r.long
                                            /\ r.version # 5 => r.address # "other"}

VARIABLES
  request,   \* what the client means to send
  sent,      \* how many of its fields it sent
  closed,    \* it closed its side
  dynamic,   \* ssh -D, or a fixed target
  state,     \* "reading", "opening", "pumping", "closing", "dropped"
  taken,     \* fields read
  target,    \* "unread", "ok", or the rejection it deserves
  answers,   \* what was written to the client
  lingered,  \* LINGER passed while closing
  opened     \* the direct-tcpip channel was

vars == <<request, sent, closed, dynamic, state, taken, target, answers, lingered, opened>>

\* The request's fields, in order.
Fields(r) ==
  CASE r.version = 5 -> <<"version", "methods", "header", "address">>
    [] r.version = 4 /\ r.address # "name" -> <<"version", "fixed", "user">>
    [] r.version = 4 /\ r.address = "name" -> <<"version", "fixed", "user", "host">>
    [] OTHER -> <<"version">>

Sendable(r) == Len(Fields(r)) + (IF r.eager THEN 1 ELSE 0)

TypeOK ==
  /\ request \in RequestShapes
  /\ sent \in 0 .. Sendable(request) /\ taken \in 0 .. sent
  /\ state \in {"reading", "opening", "pumping", "closing", "dropped"}
  /\ target \in {"unread", "ok"} \cup Rejections
  /\ Range(answers) \subseteq {"AuthNone", "NoAcceptable", "Granted"} \cup Rejections
  /\ {closed, dynamic, lingered, opened} \subseteq BOOLEAN

\* handle_connection
Init ==
  /\ request \in Requests
  /\ sent = 0
  /\ closed = FALSE
  /\ dynamic \in BOOLEAN
  /\ state = IF dynamic THEN "reading" ELSE "opening"
  /\ taken = 0
  /\ target = "unread"
  /\ answers = <<>>
  /\ lingered = FALSE
  /\ opened = FALSE

-----------------------------------------------------------------------------
(* The client. *)

ClientSends ==
  /\ ~closed /\ sent < Sendable(request)
  /\ sent' = sent + 1
  /\ UNCHANGED <<request, closed, dynamic, state, taken, target, answers, lingered, opened>>

ClientCloses ==
  /\ ~closed
  /\ closed' = TRUE
  /\ UNCHANGED <<request, sent, dynamic, state, taken, target, answers, lingered, opened>>

-----------------------------------------------------------------------------
(* accept: one read at a time. *)

\* reply: a SOCKS4 client only learns granted or rejected.
Answer(a) ==
  answers' = Append(answers, IF request.version = 4 /\ a # "Granted" THEN "GeneralFailure" ELSE a)

\* A read that ends the handshake: the stream is closed gracefully.
Fail == state' = "closing" /\ UNCHANGED <<target, opened>>

GoOn == UNCHANGED <<state, target, answers, opened>>

\* read_v5_target, host_name: a name is passed on unresolved if it is clean.
TargetOf(r) == IF r.address = "name" /\ ~r.valid THEN "HostUnreachable" ELSE "ok"

\* Mutant: the target is looked at first.
CheckTargetFirst(t) ==
  /\ target' = t
  /\ UNCHANGED opened
  /\ IF t # "ok" THEN Answer(t) /\ state' = "closing"
     ELSE IF ~request.connect THEN Answer("CommandNotSupported") /\ state' = "closing"
     ELSE state' = "opening" /\ UNCHANGED answers

\* check_request
Check(t) ==
  /\ target' = t
  /\ UNCHANGED opened
  /\ IF ~request.connect THEN Answer("CommandNotSupported") /\ state' = "closing"
     ELSE IF t # "ok" THEN Answer(t) /\ state' = "closing"
     ELSE state' = "opening" /\ UNCHANGED answers

LastField == taken + 1 = Len(Fields(request))

ReadVersion == IF request.version = 0 THEN Fail /\ UNCHANGED answers ELSE GoOn

\* negotiate_v5_auth
ReadMethods ==
  IF request.offersNone
  THEN Answer("AuthNone") /\ UNCHANGED <<state, target, opened>>
  ELSE Answer("NoAcceptable") /\ Fail

\* read_v5_request: behind an address of unknown length nothing can be read.
ReadHeader ==
  IF request.again # 5 THEN Answer("GeneralFailure") /\ Fail
  ELSE IF request.address = "other" THEN Check("AddressNotSupported")
  ELSE GoOn

\* read_v4_request, read_nul_terminated, push_bounded
ReadTerminated ==
  IF request.long THEN Fail /\ UNCHANGED answers
  ELSE IF LastField THEN Check(TargetOf(request)) ELSE GoOn

ReadField ==
  /\ state = "reading"
  /\ taken < sent
  /\ taken' = taken + 1
  /\ LET field == Fields(request)[taken + 1] IN
     \/ field = "version" /\ ReadVersion
     \/ field = "methods" /\ ReadMethods
     \/ field = "header" /\ ReadHeader
     \/ field = "address" /\ Check(TargetOf(request))
     \/ field = "fixed" /\ GoOn
     \/ field \in {"user", "host"} /\ ReadTerminated
  /\ UNCHANGED <<request, sent, closed, dynamic, lingered>>

\* The client closed in the middle of its request.
ReadFails ==
  /\ state = "reading" /\ taken = sent /\ closed
  /\ state' = "closing"
  /\ UNCHANGED <<request, sent, closed, dynamic, taken, target, answers, lingered, opened>>

\* SOCKS_HANDSHAKE_TIMEOUT: an idle client is simply dropped.
HandshakeTimeOut ==
  /\ state = "reading"
  /\ state' = "dropped"
  /\ UNCHANGED <<request, sent, closed, dynamic, taken, target, answers, lingered, opened>>

-----------------------------------------------------------------------------
(* The channel, the copying and the close. *)

\* open_failure_reply
OpenOutcomes == {"Granted", "ConnectionRefused", "NotAllowed", "GeneralFailure"}

\* forward_fixed, forward_socks
OpenChannel ==
  /\ state = "opening"
  /\ \E outcome \in OpenOutcomes :
       /\ opened' = (outcome = "Granted")
       /\ IF dynamic THEN Answer(outcome) ELSE UNCHANGED answers
       /\ state' = IF outcome = "Granted" THEN "pumping" ELSE IF dynamic THEN "closing" ELSE "dropped"
  /\ UNCHANGED <<request, sent, closed, dynamic, taken, target, lingered>>

\* Accepted.pump: until the bridge ends, or fails.
PumpEnds ==
  /\ state = "pumping"
  /\ state' = "dropped"
  /\ taken' = sent
  /\ UNCHANGED <<request, sent, closed, dynamic, target, answers, lingered, opened>>

\* close_within: what the client still sends is read until it closes, or LINGER.
CloseGracefully ==
  /\ state = "closing"
  /\ \/ taken < sent /\ taken' = sent /\ UNCHANGED <<state, lingered>>
     \/ taken = sent /\ closed /\ state' = "dropped" /\ UNCHANGED <<taken, lingered>>
     \/ state' = "dropped" /\ lingered' = TRUE /\ UNCHANGED taken
  /\ UNCHANGED <<request, sent, closed, dynamic, target, answers, opened>>

\* The forward is removed or the tunnel stops: run_listener's JoinSet drops.
Abort ==
  /\ state # "dropped"
  /\ state' = "dropped"
  /\ lingered' = TRUE
  /\ UNCHANGED <<request, sent, closed, dynamic, taken, target, answers, opened>>

ConnectionStep ==
  ReadField \/ ReadFails \/ HandshakeTimeOut \/ OpenChannel \/ PumpEnds \/ CloseGracefully

Next == ClientSends \/ ClientCloses \/ ConnectionStep \/ Abort

Spec == Init /\ [][Next]_vars

\* The connection's task runs and its time-outs fire; the client owes nothing.
LiveSpec == Spec /\ WF_vars(ConnectionStep)

-----------------------------------------------------------------------------
(* Properties. *)

\* What the protocol says the answer to a request read in full is (RFC 1928,
\* section 6, and the order of socks.rs's checks).
Deserved(r) ==
  IF r.version = 5 /\ ~r.offersNone THEN "NoAcceptable"
  ELSE IF r.version = 5 /\ r.again # 5 THEN "GeneralFailure"
  ELSE IF ~r.connect THEN "CommandNotSupported"
  ELSE IF r.version = 5 /\ r.address = "other" THEN "AddressNotSupported"
  ELSE IF r.address = "name" /\ ~r.valid THEN "HostUnreachable" ELSE "none"

Final == Without(answers, {"AuthNone"})

\* A client gets at most one answer, the one its request deserves; one that
\* deserves none gets what became of its channel (accept, reply).
AnswerIsDeserved ==
  /\ Len(Final) <= 1
  /\ Final # <<>> =>
       LET due == Deserved(request) IN
       \/ due = "none" /\ (Final[1] = "Granted" <=> opened)
       \/ due # "none" /\ ~opened
          /\ Final[1] = IF request.version = 4 THEN "GeneralFailure" ELSE due

\* No channel is asked for a target that is not clean, was not read in full, or
\* for another command (host_name: a NUL would end the whole SSH connection).
OnlyCleanTargets ==
  dynamic /\ opened =>
    /\ request.connect /\ ~request.long
    /\ request.address # "other" /\ (request.address = "name" => request.valid)
    /\ taken >= Len(Fields(request))

\* The answer to a refused client is not lost to a reset: the socket is dropped
\* with unread input only after LINGER (close).
RejectionArrives ==
  state = "dropped" /\ Final # <<>> /\ taken < sent => lingered \/ opened

\* A client that never finishes its request, or never closes after a rejection,
\* does not hold its task.
HandshakeEnds == state \in {"reading", "closing"} ~> state \in {"pumping", "dropped"}
=============================================================================
