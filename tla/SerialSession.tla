---------------------------- MODULE SerialSession ----------------------------
(***************************************************************************)
(* One serial session (serial.rs): the port opened, the connect snippet,   *)
(* then one task that reads, applies control messages and watches for a    *)
(* disconnect. Under flow control a write waits until the device is ready, *)
(* perhaps for ever, and nothing is read meanwhile.                        *)
(***************************************************************************)
EXTENDS Naturals, Sequences

CONSTANTS
    MaxWrites,  \* bound: writes of the frontend
    MaxInput    \* bound: chunks the device sends

VARIABLES
    phase,      \* "idle", "opening", "snippet", "pump", "applying", "over", "gone"
    stop,       \* the handle's stop flag
    waiting,      \* control messages: writes waiting
    ready,      \* the device takes bytes
    port,       \* the port: "up", "eof" (closed at the other end), "broken"
    incoming,   \* chunks the device sent, not read yet
    shown,      \* chunks handed to the sink
    result,     \* the status reported at the end
    writes, sentIn

vars == <<phase, stop, waiting, ready, port, incoming, shown, result, writes, sentIn>>
device == <<ready, port, sentIn>>

Init ==
    /\ phase = "idle" /\ stop = FALSE /\ waiting = 0 /\ ready = TRUE /\ port = "up"
    /\ incoming = 0 /\ shown = 0 /\ result = "none" /\ writes = 0 /\ sentIn = 0

Listed == phase \notin {"idle", "gone"}

Spawn ==
    /\ phase = "idle"
    /\ phase' = "opening"
    /\ UNCHANGED <<stop, waiting, incoming, shown, result, writes, device>>

WriteStdin ==
    /\ Listed /\ writes < MaxWrites
    /\ waiting' = waiting + 1 /\ writes' = writes + 1
    /\ UNCHANGED <<phase, stop, incoming, shown, result, device>>

Disconnect ==
    /\ Listed /\ ~stop
    /\ stop' = TRUE
    /\ UNCHANGED <<phase, waiting, incoming, shown, result, writes, device>>

Over(status) == phase' = "over" /\ result' = status

\* open_port; the snippet, when there is one, is applied like a write.
Open ==
    /\ phase = "opening"
    /\ \/ phase' \in {"snippet", "pump"} /\ UNCHANGED result
       \/ Over("error")
    /\ UNCHANGED <<stop, waiting, incoming, shown, writes, device>>

\* Mutant: a failed write is an error.
WrittenOrError(next) ==
    \/ port = "up" /\ ready /\ phase' = next /\ UNCHANGED result
    \/ port # "up" /\ Over("error")

\* apply_control: a failed write ends the pump, cleanly.
WrittenOrOver(next) ==
    \/ port = "up" /\ ready /\ phase' = next /\ UNCHANGED result
    \/ port # "up" /\ Over("disconnected")

\* apply_control_until_stop.
Apply(next) == WrittenOrOver(next) \/ (stop /\ Over("disconnected"))

\* Whatever comes of the snippet, the pump runs next.
TypeSnippet ==
    /\ phase = "snippet" /\ (ready \/ port # "up" \/ stop)
    /\ phase' = "pump"
    /\ UNCHANGED <<stop, waiting, incoming, shown, result, writes, device>>

ApplyControl ==
    /\ phase = "applying" /\ Apply("pump")
    /\ UNCHANGED <<stop, waiting, incoming, shown, writes, device>>

ReadChunk ==
    /\ incoming > 0 /\ incoming' = incoming - 1
    /\ shown' = shown + 1
    /\ UNCHANGED <<phase, waiting, result>>

\* run_pump's select: bytes or the end of them, a control message, the stop.
Pump ==
    /\ phase = "pump"
    /\ \/ ReadChunk
       \/ /\ incoming = 0 /\ port = "eof" /\ Over("disconnected")
          /\ UNCHANGED <<incoming, shown, waiting>>
       \/ /\ port = "broken" /\ Over("error")
          /\ UNCHANGED <<incoming, shown, waiting>>
       \/ /\ waiting > 0 /\ waiting' = waiting - 1 /\ phase' = "applying"
          /\ UNCHANGED <<incoming, shown, result>>
       \/ /\ stop /\ Over("disconnected")
          /\ UNCHANGED <<incoming, shown, waiting>>
    /\ UNCHANGED <<stop, writes, device>>

Report ==
    /\ phase = "over"
    /\ phase' = "gone" /\ waiting' = 0
    /\ UNCHANGED <<stop, incoming, shown, result, writes, device>>

DeviceSends ==
    /\ Listed /\ port = "up" /\ sentIn < MaxInput
    /\ sentIn' = sentIn + 1 /\ incoming' = incoming + 1
    /\ UNCHANGED <<phase, stop, waiting, shown, result, writes, ready, port>>

DeviceChanges ==
    /\ Listed
    /\ \/ ready' = ~ready /\ UNCHANGED port
       \/ port = "up" /\ port' \in {"eof", "broken"} /\ UNCHANGED ready
    /\ UNCHANGED <<phase, stop, waiting, incoming, shown, result, writes, sentIn>>

Task == Open \/ TypeSnippet \/ Pump \/ ApplyControl \/ Report
Next == Spawn \/ WriteStdin \/ Disconnect \/ Task \/ DeviceSends \/ DeviceChanges

Spec == Init /\ [][Next]_vars
Fairness == WF_vars(Task)
LiveSpec == Spec /\ Fairness

-----------------------------------------------------------------------------

TypeOK ==
    /\ phase \in {"idle", "opening", "snippet", "pump", "applying", "over", "gone"}
    /\ stop \in BOOLEAN /\ ready \in BOOLEAN /\ port \in {"up", "eof", "broken"}
    /\ waiting \in 0..MaxWrites /\ writes \in 0..MaxWrites
    /\ incoming \in 0..MaxInput /\ shown \in 0..MaxInput /\ sentIn \in 0..MaxInput
    /\ incoming + shown = sentIn
    /\ result \in {"none", "disconnected", "error"}

\* A port that goes away in the middle of a write, like one closed at the
\* other end, ends the session without an error; an error is a port that
\* could not be opened or read.
ErrorsAreOfThePort == [][phase = "applying" => result' # "error"]_vars

\* A disconnected session ends, though the device never takes the bytes
\* being written to it.
StopEnds == stop ~> phase = "gone"
=============================================================================
