---------------------------- MODULE MCDmaChannel ----------------------------
(***************************************************************************)
(* The two channels of the server, each on a ring of a few chains.         *)
(***************************************************************************)
EXTENDS DmaChannel

CONSTANTS clutter, target

MCBlocks == [c \in Channels |-> IF c = clutter THEN 1 ELSE 4]
MCBuffers == 0 .. 3
=============================================================================
