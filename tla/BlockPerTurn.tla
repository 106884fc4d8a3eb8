---------------------------- MODULE BlockPerTurn ----------------------------
(***************************************************************************)
(* What the FPGA promises of the stream: while the simulator plays, one    *)
(* block in each turn of the antenna, in order; while it does not, none    *)
(* goes by.  A run that ends inside a block loses the rest of it, or has   *)
(* not begun it.                                                           *)
(***************************************************************************)
EXTENDS Integers

VARIABLES blocks,    \* blocks in the stream before it repeats
          playing,   \* is a run under way?
          block      \* its block of this turn, or the next run's first

vars == <<blocks, playing, block>>

Following == (block + 1) % blocks

Init == blocks \in Nat \ {0} /\ playing = FALSE /\ block \in 0 .. blocks - 1

Start == ~playing /\ playing' = TRUE /\ UNCHANGED <<blocks, block>>

Turn == playing /\ block' = Following /\ UNCHANGED <<blocks, playing>>

Stop ==
    /\ playing /\ playing' = FALSE
    /\ block' \in {block, Following}
    /\ UNCHANGED blocks

Next == Start \/ Turn \/ Stop

Spec == Init /\ [][Next]_vars
=============================================================================
