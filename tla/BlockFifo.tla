----------------------------- MODULE BlockFifo ------------------------------
(***************************************************************************)
(* What the map queue promises: rotation after rotation the FPGA gets the  *)
(* blocks of the file, from block "from" on, without a gap or a repetition *)
(* until the last one, which it then gets for ever.  At most room blocks   *)
(* are loaded ahead; the head of fifo is the one being played, and it is   *)
(* never missing while the antenna turns.                                  *)
(***************************************************************************)
EXTENDS Integers, Sequences

CONSTANTS Positions, Last
VARIABLES room, from, played, fifo
vars == <<room, from, played, fifo>>

BlockOf(r) == IF from + r < Last THEN from + r ELSE Last

Init == room \in Nat \ {0} /\ from = 0 /\ played = 0 /\ fifo = <<>>

\* The simulator is stopped, and perhaps told where to start the next time.
Restart ==
    /\ from' \in Positions \cup {0} /\ played' = 0 /\ fifo' = <<>>

Load ==
    /\ Len(fifo) < room
    /\ fifo' = Append(fifo, BlockOf(played + Len(fifo)))
    /\ UNCHANGED <<from, played>>

Play ==
    /\ Len(fifo) > 1
    /\ fifo' = Tail(fifo)
    /\ played' = played + 1
    /\ UNCHANGED from

Next == (Restart \/ Load \/ Play) /\ UNCHANGED room

Spec == Init /\ [][Next]_vars
=============================================================================
