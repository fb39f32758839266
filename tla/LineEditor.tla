----------------------------- MODULE LineEditor -----------------------------
(***************************************************************************)
(* What the password prompt promises: a line of text that grows by one     *)
(* byte, shrinks by one byte at its end, and is handed over whole and      *)
(* emptied when Return is pressed.  A line never exceeds MaxLength bytes.  *)
(***************************************************************************)
EXTENDS Integers, Sequences

CONSTANTS
    Text,       \* the bytes the prompt accepts
    MaxLength   \* the longest line the prompt keeps

VARIABLE line

Init == line = <<>>

Insert(b) ==
    /\ Len(line) < MaxLength
    /\ line' = Append(line, b)

Erase ==
    /\ line # <<>>
    /\ line' = SubSeq(line, 1, Len(line) - 1)

Submit == line' = <<>>

Next == (\E b \in Text : Insert(b)) \/ Erase \/ Submit

Spec == Init /\ [][Next]_line
=============================================================================
