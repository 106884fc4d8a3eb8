------------------------------ MODULE Playback ------------------------------
(***************************************************************************)
(* What the FPGA really plays: MapQueue as the software sees it, with the  *)
(* stream of DmaChannel, which nothing ever stops or rewinds, consumed as   *)
(* Fpga is shown to consume it (BlockPerTurn).                             *)
(*                                                                         *)
(* The software numbers the rotations of a run from zero and loads         *)
(* rotation r into slot r % BlkCnt.  The stream goes on where it was, and  *)
(* on its way from memory to the front end a slice waits in buffers: those *)
(* of the DMA engine, a width converter and a FIFO of 16 slices.  Only the *)
(* reset of the whole FPGA clears them: disable(), reset() and loadMap()   *)
(* do not, and the front end looks at the position of a slice alone.       *)
(*                                                                         *)
(* The buffers hold less than a block.  The model follows one slice of     *)
(* each block, any one, from memory to the turn in which it is played.     *)
(***************************************************************************)
EXTENDS MapQueue

CONSTANT Unread    \* a slice that is still in memory only

VARIABLES
    slot,          \* the slot the stream plays in this rotation, or the next run's first
    interrupted,   \* history: has a run been stopped after it began to play?
    streaming,     \* has the DMA engine been started?
    piece,         \* the followed slice of the block in slot, as it was read, or Unread
    ahead,         \* that of the block after it
    early          \* is it so near the beginning of a block that the buffers hold
                   \* it when the block before it ends?

played == <<slot, interrupted, streaming, piece, ahead>>
playVars == <<vars, played, early>>

Turns == INSTANCE BlockPerTurn
           WITH blocks <- BlkCnt, playing <- enabled, block <- slot

PlayInit ==
    /\ Init /\ slot = 0 /\ interrupted = FALSE
    /\ streaming = FALSE /\ piece = Unread /\ ahead = Unread
    /\ early \in BOOLEAN

\* startDmaTransfer; an engine that runs already goes on as it was.
PlayEnable == Enable /\ streaming' = TRUE /\ UNCHANGED <<slot, interrupted, piece, ahead>>

\* The engine reads the slice into its buffers: one of the first as soon as they
\* have room, the simulator being enabled or not, any other one when the stream
\* has come near it.
Fetch ==
    /\ streaming /\ piece = Unread /\ (early \/ enabled)
    /\ piece' = mem[slot]
    /\ UNCHANGED <<vars, slot, interrupted, streaming, ahead>>

\* The buffers reach into the next block while this one is being played.  The
\* timing assumption of Rotate holds for what is read ahead of the rotation too.
FetchAhead ==
    /\ early /\ enabled /\ piece /= Unread /\ ahead = Unread
    /\ age < MaxLag
    /\ ahead' = mem[Turns!Following]
    /\ UNCHANGED <<vars, slot, interrupted, streaming, piece>>

\* The rest of a block begun is thrown away by the next run, what the buffers
\* hold of the block after it is not; or the run has not begun its block.
PlayStop(call) ==
    /\ Stop(call) /\ UNCHANGED streaming
    /\ interrupted' = (interrupted \/ enabled)
    /\ \/ /\ enabled /\ Turns!Stop /\ slot' = Turns!Following
          /\ piece' = ahead /\ ahead' = Unread
       \/ /\ enabled /\ Turns!Stop /\ slot' = slot
          /\ ahead = Unread /\ (early \/ piece = Unread)
          /\ UNCHANGED <<piece, ahead>>
       \/ ~enabled /\ UNCHANGED <<slot, piece, ahead>>

\* The stream keeps step with the antenna: the whole block has been handed over
\* when the server's counter moves on (MovesOnAfterLastSlice of Fpga).
PlayRotate ==
    /\ Rotate /\ Turns!Turn
    /\ piece /= Unread /\ piece' = ahead /\ ahead' = Unread
    /\ UNCHANGED <<interrupted, streaming>>

PlayNext ==
    /\ UNCHANGED <<given, early>>
    /\ \/ \E call \in {"disable", "reset", "loadMap"} : PlayStop(call)
       \/ PlayRotate \/ PlayEnable \/ Fetch \/ FetchAhead
       \/ (DisableReturns \/ ResetReturns) /\ UNCHANGED played
       \/ (\E position \in Positions : LoadMap(position)) /\ UNCHANGED played
       \/ (Wake \/ BeginPass \/ LoadBlock \/ EndPass) /\ UNCHANGED played

PlaySpec ==
    /\ PlayInit /\ [][PlayNext]_playVars
    /\ WF_playVars(RefreshThread /\ UNCHANGED <<played, early>>)
    /\ WF_playVars(RpcReturns /\ UNCHANGED <<played, early>>)

-----------------------------------------------------------------------------
\* Until a run is stopped in the middle, the FPGA gets in each rotation what the
\* software loaded for it, although slices are read before their rotation.
FirstRunInStep ==
    Playing /\ ~interrupted /\ MaxLag < BlkCnt =>
        mem[slot] = Expected(currArp) /\ piece \in {Expected(currArp), Unread}

\* What a rotation plays when it is of this run: at most a queue ahead, or
\* behind by the delay.
OfThisRun(content) ==
    \E r \in currArp - MaxLag .. currArp + BlkCnt - 1 : content = Expected(r)

\* In any later run that was loaded, the slices played are of this run as well;
\* all but those that the buffers kept from before, which are among the first
\* of a block and are played in the very first rotation only.
PlaysNearby ==
    enabled /\ loaded /\ fileBlocks = HeaderBlocks /\ MaxLag <= BlkCnt =>
        /\ OfThisRun(mem[slot])
        /\ piece /= Unread =>
               OfThisRun(piece) \/ (early /\ interrupted /\ currArp = 0)

\* "block index to write (circular buffer) with 0 being the starting ARP": once
\* maps are loaded, a run begins with the block of the starting ARP.
StartsWithFirstBlock ==
    enabled /\ loaded /\ currArp = 0 /\ Expected(0) < fileBlocks =>
        mem[slot] = Expected(0)
=============================================================================
