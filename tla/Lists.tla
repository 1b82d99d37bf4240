--------------------------------- MODULE Lists ---------------------------------
(***************************************************************************)
(* What is done to the lists of the program, as functions of them.          *)
(***************************************************************************)
EXTENDS Integers, Sequences

\* The list q without the elements in D, in the same order (Array.filter).
Without(q, D) ==
  LET kept[i \in 0 .. Len(q)] ==
        IF i = 0 THEN <<>>
        ELSE IF q[i] \in D THEN kept[i - 1] ELSE Append(kept[i - 1], q[i])
  IN kept[Len(q)]
================================================================================
