--------------------------- MODULE OrderedDelivery ---------------------------
(***************************************************************************)
(* What a terminal is promised about its session's output, whatever happens *)
(* on the way: the bytes are shown in the order the session printed them,   *)
(* each at most once, a byte is skipped only after it was given up (the     *)
(* backlog limit or the grace period of an ended session), and the end is   *)
(* reported only once every byte was shown or given up.                     *)
(*                                                                         *)
(* Byte k is the byte the session printed at offset k.                     *)
(***************************************************************************)
EXTENDS Integers, Sequences

VARIABLES
  sent,   \* how many bytes the session has printed
  lost,   \* the bytes given up before the terminal acknowledged them
  shown,  \* the bytes the terminal has taken, in order
  over,   \* the session has ended: it prints no more
  ended   \* the terminal was told that the output is complete

vars == <<sent, lost, shown, over, ended>>

\* The byte the terminal had taken just before its i-th one (-1 for none).
Before(bytes, i) == IF i = 1 THEN -1 ELSE bytes[i - 1]

\* The first byte that the terminal has not yet got past.
NextByte == Before(shown, Len(shown) + 1) + 1

Init ==
  /\ sent = 0
  /\ lost = {}
  /\ shown = <<>>
  /\ over = FALSE
  /\ ended = FALSE

\* The session prints; unread bytes may be given up to make room.
Produce ==
  /\ ~over
  /\ sent' \in Nat
  /\ sent' > sent
  /\ lost \subseteq lost'
  /\ lost' \subseteq 0 .. sent' - 1
  /\ UNCHANGED <<shown, over, ended>>

Finish ==
  /\ ~over
  /\ over' = TRUE
  /\ UNCHANGED <<sent, lost, shown, ended>>

\* Unread output of a finished session is given up.
GiveUp ==
  /\ over
  /\ lost \subseteq lost'
  /\ lost' \subseteq 0 .. sent - 1
  /\ UNCHANGED <<sent, shown, over, ended>>

\* The terminal takes the following bytes, skipping only bytes given up.
Show ==
  /\ ~ended
  /\ Len(shown') > Len(shown)
  /\ \A i \in 1 .. Len(shown) : shown'[i] = shown[i]
  /\ \A i \in Len(shown) + 1 .. Len(shown') :
       /\ Before(shown', i) < shown'[i]
       /\ shown'[i] < sent
       /\ Before(shown', i) + 1 .. shown'[i] - 1 \subseteq lost
  /\ UNCHANGED <<sent, lost, over, ended>>

End ==
  /\ over
  /\ ended' = TRUE
  /\ NextByte .. sent - 1 \subseteq lost
  /\ UNCHANGED <<sent, lost, shown, over>>

Next == Produce \/ Finish \/ GiveUp \/ Show \/ End

Spec == Init /\ [][Next]_vars
=============================================================================
