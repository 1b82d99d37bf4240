--------------------------------- MODULE X11 ---------------------------------
(***************************************************************************)
(* X11 forwarding of one session (x11/, ssh/handler.rs): every channel the  *)
(* server opens must show the fake cookie the server was given, and is then *)
(* relayed to the local X server with another one: the real cookie, found   *)
(* in the Xauthority file, when forwarding is trusted, a fresh one of the X *)
(* server's SECURITY extension otherwise.                                  *)
(***************************************************************************)
EXTENDS Integers, Sequences, FiniteSets

CONSTANTS
    Channels,       \* bound: the channels the server opens
    MaxChannels,    \* MAX_X11_CHANNELS
    Displays,       \* bound: values of $DISPLAY
    Files           \* bound: Xauthority files

\* The server may open any number of channels; a file is a sequence of entries.
Entry == [address : STRING, number : Int, magic : BOOLEAN, cut : BOOLEAN, cookie : STRING]
X11Constants ==
    /\ IsFiniteSet(Channels) /\ MaxChannels \in Nat
    /\ Files \subseteq Seq(Entry)

VARIABLES
    display,        \* the local X server: where it is, and its number
    trusted,
    file,           \* the Xauthority file, as it is now
    secure,         \* the X server has the SECURITY extension
    phase,          \* per channel, where it is
    setup,          \* per channel, the client's setup
    reached,        \* per channel, how Xauthority names the server reached
    sent,           \* per channel, the cookie its client was relayed with
    told            \* the warnings shown, in order

x11vars == <<display, trusted, file, secure, phase, setup, reached, sent, told>>

(* ------------------- the display and its Xauthority entry ---------------- *)

LastPort == 65535
BasePort == 6000
NoDisplay == [kind |-> "none"]

\* display_from, parse_display on Unix: a path or no host is a socket, another
\* host a TCP port; no display, or one with no port, is none.
DisplayOf(value) ==
    CASE value.host = "unset" -> NoDisplay
      [] value.host \in {"/path", "", "unix"} -> [kind |-> "socket", number |-> value.number]
      [] BasePort + value.number > LastPort -> NoDisplay
      [] OTHER -> [kind |-> "tcp", host |-> value.host, number |-> value.number]

\* What a host resolves to.
IpsOf(host) ==
    CASE host = "localhost" -> {"127.0.0.1", "::1", "::ffff:127.0.0.1"}
      [] host = "loopback2" -> {"127.0.0.2"}
      [] OTHER -> {"lan"}

\* auth_address_of: 127.0.0.1 and ::1 (only) are named like a local server.
AuthAddressOf(ip) == IF ip \in {"127.0.0.1", "::1", "::ffff:127.0.0.1"} THEN "here" ELSE ip

\* X11Local::connect: the names of the server reached.
Servers == IF display.kind = "socket" THEN {"here"} ELSE {AuthAddressOf(ip) : ip \in IpsOf(display.host)}

AnyNumber == -1     \* no number in the entry

\* AuthAddress::matches, matches_number.
Matches(entry, where, number) ==
    /\ entry.magic /\ entry.number \in {AnyNumber, number}
    /\ entry.address = where \/ entry.address = "wild"

NoCookie == "no cookie"
\* find_cookie: the first entry that applies, before one that is cut short.
FindCookie(f, where, number) ==
    LET whole == {i \in DOMAIN f : \A j \in 1..i : ~f[j].cut}
        hits == {i \in whole : Matches(f[i], where, number)}
    IN IF hits = {} THEN NoCookie ELSE f[CHOOSE i \in hits : \A j \in hits : i <= j].cookie

(* ------------------------------- channels -------------------------------- *)

Fake == "fake"
Setups == [valid : BOOLEAN, magic : BOOLEAN, cookie : {Fake, "part of fake", "guessed", NoCookie}]
NoSetup == [valid |-> FALSE, magic |-> FALSE, cookie |-> NoCookie]

\* carries_cookie, constant_time_eq.
CarriesCookie(s) == s.valid /\ s.magic /\ s.cookie = Fake

Init ==
    /\ \E value \in Displays : display = DisplayOf(value)
    /\ trusted \in BOOLEAN /\ file \in Files /\ secure \in BOOLEAN
    /\ phase = [c \in Channels |-> "none"]
    /\ setup = [c \in Channels |-> NoSetup]
    /\ reached = [c \in Channels |-> "here"]
    /\ sent = [c \in Channels |-> "nothing"]
    /\ told = IF display = NoDisplay THEN <<"failure">> ELSE <<>>

Holding == {c \in Channels : phase[c] \notin {"none", "over"}}

\* warn_once.
Warn(what) == told' = IF \E i \in DOMAIN told : told[i] = what THEN told ELSE Append(told, what)

Go(c, to) == phase' = [phase EXCEPT ![c] = to]
Local == <<display, trusted, secure>>

\* server_channel_open_x11: a slot, or none. A session that forwards no X11,
\* or has no display, never asked for the channel and refuses it.
Open(c) ==
    /\ phase[c] = "none"
    /\ IF display = NoDisplay THEN Go(c, "over") /\ UNCHANGED told
       ELSE IF Cardinality(Holding) < MaxChannels THEN Go(c, "reading") /\ UNCHANGED told
       ELSE Go(c, "over") /\ Warn("limit")
    /\ UNCHANGED <<Local, file, setup, reached, sent>>

\* read_client_setup: of the setup, what its client sends in time. A refused
\* client is not worth a warning.
ReadSetup(c) ==
    /\ phase[c] = "reading"
    /\ \E s \in Setups :
        /\ setup' = [setup EXCEPT ![c] = s]
        /\ Go(c, IF CarriesCookie(s) THEN "connecting" ELSE "over")
    /\ UNCHANGED <<Local, file, reached, sent, told>>

SetupTimesOut(c) ==
    /\ phase[c] = "reading" /\ Go(c, "over")
    /\ UNCHANGED <<Local, file, setup, reached, sent, told>>

\* open_x_server: connected, and the cookie for that server read. Trusted, the
\* client's setup goes there at once, with it; untrusted, it is used to ask.
Connect(c) ==
    /\ phase[c] = "connecting"
    /\ \E where \in Servers :
        LET real == FindCookie(file, where, display.number) IN
        /\ reached' = [reached EXCEPT ![c] = where]
        /\ IF trusted
           THEN /\ sent' = [sent EXCEPT ![c] = real] /\ Go(c, "relayed")
                /\ IF real = NoCookie THEN Warn("cookie") ELSE UNCHANGED told
           ELSE Go(c, "setup") /\ UNCHANGED <<sent, told>>
    /\ UNCHANGED <<Local, file, setup>>

\* generate_untrusted_cookie and open_untrusted: the setup's reply, the
\* extension, its version and the cookie, each an answer to wait for; then a
\* second connection, which has the client's setup with it.
After == [setup |-> "extension", extension |-> "version", version |-> "generate", generate |-> "again"]
Answered(c) ==
    /\ phase[c] \in DOMAIN After /\ (phase[c] = "extension" => secure)
    /\ Go(c, After[phase[c]])
    /\ UNCHANGED <<Local, file, setup, reached, sent, told>>

ConnectAgain(c) ==
    /\ phase[c] = "again" /\ Go(c, "relayed")
    /\ sent' = [sent EXCEPT ![c] = "generated"]
    /\ UNCHANGED <<Local, file, setup, reached, told>>

\* Mutant: without the extension, the real cookie will do.
FallBack(c) ==
    /\ phase[c] = "extension" /\ ~secure /\ Go(c, "relayed")
    /\ sent' = [sent EXCEPT ![c] = FindCookie(file, reached[c], display.number)]
    /\ UNCHANGED <<Local, file, setup, reached, told>>
\* query_extension_opcode, untrusted_failure: nothing to fall back to.
NoExtension(c) ==
    /\ phase[c] = "extension" /\ ~secure /\ Go(c, "over") /\ Warn("failure")
    /\ UNCHANGED <<Local, file, setup, reached, sent>>

Opening == {"connecting", "again"} \cup DOMAIN After

\* The X server can't be reached, refuses (an error, an event, too long a
\* reply), or doesn't answer in time.
OpenFails(c) ==
    /\ phase[c] \in Opening /\ Go(c, "over") /\ Warn("failure")
    /\ UNCHANGED <<Local, file, setup, reached, sent>>

\* The relay ends, and with it the channel's slot.
RelayEnds(c) ==
    /\ phase[c] = "relayed" /\ Go(c, "over")
    /\ UNCHANGED <<Local, file, setup, reached, sent, told>>

\* A display manager writes the file anew.
NewFile ==
    /\ \E f \in Files \ {file} : file' = f
    /\ UNCHANGED <<Local, phase, setup, reached, sent, told>>

Next ==
    \/ \E c \in Channels :
        \/ Open(c) \/ ReadSetup(c) \/ SetupTimesOut(c)
        \/ Connect(c) \/ Answered(c) \/ ConnectAgain(c)
        \/ NoExtension(c) \/ OpenFails(c) \/ RelayEnds(c)
    \/ NewFile

Deadlines(c) == SetupTimesOut(c) \/ OpenFails(c)
Fairness == \A c \in Channels : WF_x11vars(Deadlines(c))
Spec == Init /\ [][Next]_x11vars
LiveSpec == Spec /\ Fairness

-----------------------------------------------------------------------------

TypeOK ==
    /\ phase \in [Channels -> {"none", "reading", "relayed", "over"} \cup Opening]
    /\ setup \in [Channels -> Setups]
    /\ trusted \in BOOLEAN /\ secure \in BOOLEAN /\ file \in Files

\* However many channels the server opens, only so many are served at a time
\* (x11_permit).
SlotsBounded == Cardinality(Holding) <= MaxChannels

\* Nobody but a client of the server that was given the fake cookie gets to
\* the X server.
OnlyOurClients ==
    \A c \in Channels :
        sent[c] # "nothing" => setup[c].valid /\ setup[c].magic /\ setup[c].cookie = Fake

\* An untrusted client never gets the real cookie, nor a connection without
\* one; and what a trusted one gets is a cookie for that very X server.
CookieIsMeant ==
    \A c \in Channels : sent[c] # "nothing" =>
        IF trusted
        THEN sent[c] # NoCookie =>
                \E f \in Files : \E i \in DOMAIN f :
                    /\ f[i].cookie = sent[c] /\ f[i].magic
                    /\ f[i].address \in {reached[c], "wild"}
                    /\ f[i].number \in {AnyNumber, display.number}
        ELSE sent[c] = "generated"

\* One kind of problem is told once, and hides no other.
ToldOnce == \A i, j \in DOMAIN told : told[i] = told[j] => i = j

\* A client that sends nothing, or an X server that answers nothing, keeps no
\* slot: every channel is relayed or over.
SlotsComeBack == \A c \in Channels : phase[c] \in {"reading"} \cup Opening ~> phase[c] \in {"relayed", "over"}
=============================================================================
