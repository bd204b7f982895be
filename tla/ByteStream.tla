------------------------------ MODULE ByteStream ------------------------------
(***************************************************************************)
(* What a demuxer expects of its input: from where a seek has left it,     *)
(* reads deliver the bytes of the file one after the other.  After a       *)
(* failure the place may be unknown, until the next seek.                  *)
(***************************************************************************)
EXTENDS Integers

CONSTANTS Unknown,   \* not an offset
          Longest    \* the most that is delivered at a time

VARIABLES at,   \* the offset of the next byte
          got   \* the bytes the last step has delivered

Init == at = 0 /\ got = << >>

\* The next n bytes of the file.
Deliver(n) == /\ at # Unknown
              /\ got' = [i \in 1 .. n |-> at + (i - 1)]
              /\ at' = at + n

\* Some bytes, nobody knows which.
Grope == at = Unknown /\ at' = Unknown

\* A seek, or a failure, or nothing yet.
Go == at' \in Nat \cup {Unknown} /\ got' = << >>

Next == Grope \/ Go \/ \E n \in 1 .. Longest : Deliver(n)

Spec == Init /\ [][Next]_<< at, got >>
=============================================================================
