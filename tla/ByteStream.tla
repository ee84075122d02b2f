------------------------------ MODULE ByteStream ------------------------------
(***************************************************************************)
(* What an assembler promises to the code that emits into it: whatever has *)
(* been written so far, followed by the next value and nothing else.       *)
(* There is no buffer, no capacity and no growth here.                     *)
(***************************************************************************)
EXTENDS Sequences

CONSTANT Values      \* the byte sequences that may be written

VARIABLE written

Init == written = <<>>

Write == \E v \in Values : written' = written \o v

Spec == Init /\ [][Write]_written
===============================================================================
