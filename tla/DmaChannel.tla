----------------------------- MODULE DmaChannel -----------------------------
(***************************************************************************)
(* One DMA channel of the server as SimulatorHandler::startDmaTransfer     *)
(* drives it: each enable() asks it to take back the BDs of the chain      *)
(* before, allocate a new chain, describe it as a loop over the memory     *)
(* blocks and give it to the engine.  stopDmaTransfer, called by disable() *)
(* and so by reset(), is empty: between two starts nothing happens to the  *)
(* channel, and the engine goes on.                                        *)
(*                                                                         *)
(* The handler runs in the only thread of the server, one driver call per  *)
(* action; the engine moves between any two of them.                       *)
(***************************************************************************)
EXTENDS BdRing

CONSTANTS
    Channels,     \* clutter and targets; they share nothing
    Blocks,       \* memory blocks of each map: CL_BLK_CNT = 1, MT_BLK_CNT = 4
    NoBd          \* the null XAxiDma_Bd pointer

ASSUME BlockAssumption ==
    /\ Blocks \in [Channels -> Nat \ {0}]
    /\ \A c \in Channels : 0 .. Blocks[c] - 1 \subseteq Buffers
    /\ NoBd \notin Bd

\* The length of a chain divides the size of the ring (4 and 2 divide 64).
ASSUME ChainsAlign ==
    \A c \in Channels : AllCnt % (IF Blocks[c] > 2 THEN Blocks[c] ELSE 2) = 0

VARIABLES
    channel,   \* which of the two channels this is
    pc,        \* where startDmaTransfer is
    first,     \* firstClutterBdPtr / firstTargetBdPtr of the handler
    set, setCnt,  \* the BDs in hand: first one, number of them
    done,      \* the loop variable: BDs of the new chain described so far
    sizeOk     \* does BdSetLength accept blockByteSize? (0 < size <= maximum)

callVars == <<pc, first, set, setCnt, done, sizeOk>>
vars == <<ringVars, callVars, channel>>

BlockCount == Blocks[channel]

\* Mutant of BdCount: one BD for a map of one block.
OneBdForOneBlock == BlockCount

\* bdCount = max(2, blockCount): one BD cannot be both start and end of frame.
BdCount == IF BlockCount > 2 THEN BlockCount ELSE 2

\* The handler's pointer members have no initializer: null or anything.
Init ==
    /\ RingInit
    /\ channel \in Channels
    /\ pc = "idle" /\ set = NoBd /\ setCnt = 0 /\ done = 0
    /\ sizeOk = TRUE
    /\ first \in {NoBd, 0}

\* enable() calls; calibrate() may have changed blockByteSize since the last
\* call.  Old BDs are looked for only if an earlier call returned a chain.
Call ==
    /\ pc = "idle"
    /\ sizeOk' \in BOOLEAN
    /\ pc' = IF first /= NoBd THEN "fromHw" ELSE "alloc"
    /\ UNCHANGED <<ringVars, first, set, setCnt, done, channel>>

CleanFromHw ==
    /\ pc = "fromHw"
    /\ \E k \in 0 .. AllCnt :
          /\ BdRingFromHw(k, AllCnt)
          /\ setCnt' = k
          /\ set' = IF k > 0 THEN hwHead ELSE NoBd
          /\ pc' = IF k > 0 THEN "free" ELSE "alloc"
    /\ UNCHANGED <<first, done, sizeOk>>

\* The handler raises if the driver refuses; RingSpec and CallReturns, checked
\* below, show that it never does.
CleanFree ==
    /\ pc = "free"
    /\ BdRingFree(setCnt, set)
    /\ pc' = "alloc"
    /\ UNCHANGED <<first, set, setCnt, done, sizeOk>>

\* Mutant of AllocBds: the set is taken to begin one BD later.
AllocatesOneLater ==
    /\ pc = "alloc" /\ BdRingAlloc(BdCount)
    /\ set' = Ahead(freeHead, 1) /\ setCnt' = BdCount /\ done' = 0
    /\ pc' = "describe"
    /\ UNCHANGED <<first, sizeOk>>

AllocBds ==
    /\ pc = "alloc" /\ BdRingAlloc(BdCount)
    /\ set' = freeHead /\ setCnt' = BdCount /\ done' = 0
    /\ pc' = "describe"
    /\ UNCHANGED <<first, sizeOk>>

\* Mutant of Describe: the last turn is not recognised.
DescribeNoEnd ==
    /\ pc = "describe" /\ sizeOk /\ done < BdCount
    /\ LET b == Ahead(set, done)
       IN  WriteBd(b, IF done = 0 THEN {"SOF"} ELSE bd[b].ctrl,
                   done % BlockCount, bd[b].next)
    /\ done' = done + 1
    /\ UNCHANGED <<pc, first, set, setCnt, sizeOk>>

\* Mutant of Describe: the address is advanced before the buffer is set.
DescribeNextBlock ==
    /\ pc = "describe" /\ sizeOk /\ done < BdCount
    /\ LET b == Ahead(set, done)
           last == done = BdCount - 1
       IN  WriteBd(b,
                   IF last THEN {"EOF"} ELSE IF done = 0 THEN {"SOF"} ELSE bd[b].ctrl,
                   (done + 1) % BlockCount,
                   IF last THEN set ELSE bd[b].next)
    /\ done' = done + 1
    /\ UNCHANGED <<pc, first, set, setCnt, sizeOk>>

\* One turn of the loop.  SOF goes on the first BD before the loop; the last
\* one gets its link back to the first and EOF after it.  BdSetCtrl replaces
\* the bits of its BD; the BDs in between keep the bits they had.
Describe ==
    /\ pc = "describe" /\ sizeOk /\ done < BdCount
    /\ LET b == Ahead(set, done)
           last == done = BdCount - 1
       IN  WriteBd(b,
                   IF last THEN {"EOF"} ELSE IF done = 0 THEN {"SOF"} ELSE bd[b].ctrl,
                   done % BlockCount,
                   IF last THEN set ELSE bd[b].next)
    /\ done' = done + 1
    /\ UNCHANGED <<pc, first, set, setCnt, sizeOk>>

Commit ==
    /\ pc = "describe" /\ done = BdCount
    /\ BdRingToHw(setCnt, set)
    /\ first' = set
    /\ pc' = "idle"
    /\ UNCHANGED <<set, setCnt, done, sizeOk>>

\* DmaInitFailedException: a length refused (the first BD already has SOF and
\* its buffer), no BD left, or a set refused.  What was allocated stays
\* allocated: no path calls XAxiDma_BdRingUnAlloc.
RaiseLength ==
    /\ pc = "describe" /\ ~sizeOk
    /\ WriteBd(set, {"SOF"}, 0, bd[set].next)
    /\ pc' = "idle"
    /\ UNCHANGED <<first, set, setCnt, done, sizeOk>>

\* Mutant of Raise: with no BD left the call waits for one.
RaiseNotAlloc ==
    /\ pc = "describe" /\ done = BdCount /\ ToHwFails(setCnt, set)
    /\ pc' = "idle"
    /\ UNCHANGED <<ringVars, first, set, setCnt, done, sizeOk>>

Raise ==
    /\ \/ pc = "alloc" /\ AllocFails(BdCount)
       \/ pc = "describe" /\ done = BdCount /\ ToHwFails(setCnt, set)
    /\ pc' = "idle"
    /\ UNCHANGED <<ringVars, first, set, setCnt, done, sizeOk>>

\* The rest of a call that has begun.
Proceed ==
    /\ \/ CleanFromHw \/ CleanFree
       \/ AllocBds \/ Describe \/ Commit
       \/ RaiseLength \/ Raise
    /\ UNCHANGED channel

Engine == EngineStep /\ UNCHANGED <<callVars, channel>>

Next == Call \/ Proceed \/ Engine

\* startDmaTransfer never waits for anything but the processor.
Spec == Init /\ [][Next]_vars /\ WF_vars(Proceed)

-----------------------------------------------------------------------------
\* The handler keeps to the contract of the driver: it calls the operations
\* with arguments they accept and writes only to BDs it holds.
KeepsContract == RingSpec

\* A chain that holds exactly the BDs just allocated is never refused: the
\* allocation starts where the pre-work group does, and the first and the last
\* BD mark the packet (the reason for "max(2, blockCount)").
CommitAccepted ==
    pc = "describe" /\ done = BdCount /\ preCnt = BdCount => ~ToHwFails(setCnt, set)

\* The tail of a cyclic chain is "not part of ring" (ToHw), so the walk of
\* FromHw is never cut short by it.
CyclicTail == go => hwTail \notin Bd

\* However often startDmaTransfer is called and wherever the engine is then,
\* even when it overwrites the descriptors the engine is cycling over, the
\* FPGA gets the blocks of the map in order without a gap.
Stream == INSTANCE CyclicStream
            WITH blocks <- BlockCount,
                 on <- go, pos <- IF go THEN bd[cur].buf ELSE 0
StreamSpec == Stream!Spec

\* enable() is not held up by the channel: the call returns or raises.
CallReturns == pc /= "idle" ~> pc = "idle"

-----------------------------------------------------------------------------
(* What a comment says, and the code does not do.                          *)

\* "free old BDs": each call takes back the chain of the call before, so
\* that (nothing being stranded) the next chain can always be allocated.
OldBdsFreed == pc = "alloc" /\ preCnt = 0 => ~AllocFails(BdCount)
=============================================================================
