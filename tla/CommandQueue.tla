---------------------------- MODULE CommandQueue ----------------------------
(***************************************************************************)
(* What the message pool of a player promises to the threads that use it:  *)
(* a first-in first-out queue of at most Capacity commands whose Put never *)
(* blocks and never fails.  A Put into a full queue discards the oldest    *)
(* command, and only that one.                                             *)
(***************************************************************************)
EXTENDS Naturals, Sequences

CONSTANTS Command,   \* the commands that can be queued
          Capacity   \* how many of them the queue holds

VARIABLE queue

Init == queue = << >>

\* Enqueue c; a full queue loses its head first.
Put(c) == queue' = IF Len(queue) < Capacity
                   THEN Append(queue, c)
                   ELSE Append(Tail(queue), c)

\* Remove the oldest command.
Take == /\ queue # << >>
        /\ queue' = Tail(queue)

Next == Take \/ \E c \in Command : Put(c)

Spec == Init /\ [][Next]_queue
=============================================================================
