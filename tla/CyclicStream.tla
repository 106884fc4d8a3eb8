---------------------------- MODULE CyclicStream ----------------------------
(***************************************************************************)
(* What a DMA channel promises the FPGA: silent until it is started once,  *)
(* then the memory blocks one after the other, for ever, in order and      *)
(* without a gap.  Starting it again changes nothing of that.              *)
(***************************************************************************)
EXTENDS Integers

VARIABLES blocks,   \* how many there are
          on,       \* is the channel streaming?
          pos       \* the block it is streaming

vars == <<blocks, on, pos>>

Init == blocks \in Nat \ {0} /\ on = FALSE /\ pos = 0

Begin == ~on /\ on' = TRUE /\ pos' = 0 /\ UNCHANGED blocks

NextBlock == on /\ pos' = (pos + 1) % blocks /\ UNCHANGED <<blocks, on>>

Next == Begin \/ NextBlock

Spec == Init /\ [][Next]_vars
=============================================================================
