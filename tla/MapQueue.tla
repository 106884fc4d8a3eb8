------------------------------ MODULE MapQueue ------------------------------
(***************************************************************************)
(* The circular queue of map blocks between a map file and the FPGA, as    *)
(* loadNextTargetMap (four blocks) and loadNextClutterMap (one) keep it:   *)
(* the same steps, each on members, a file and memory of its own.          *)
(*                                                                         *)
(* One block of the file is one rotation of the antenna.  While the        *)
(* simulator is enabled the FPGA counts rotations (simAcpIdx / calAcpCnt)  *)
(* and plays one block in each; the refresh thread wakes once a second and *)
(* loads the blocks of the rotations to come.  The RPC thread stops both,  *)
(* loads the first blocks (loadMap) and starts them again (enable).        *)
(*                                                                         *)
(* Indices are u32 in the code: they are kept below Wrap and subtracted    *)
(* modulo Wrap.                                                            *)
(***************************************************************************)
EXTENDS Integers, Sequences

CONSTANTS
    Maps,          \* clutter and targets
    BlkCnts,       \* for each map, MT_BLK_CNT = 4 or CL_BLK_CNT = 1
    Wrap,          \* 2^32 in the code
    HeaderBlocks,  \* blockCount of the file header
    FileSizes,     \* whole blocks the file may really have
    Positions,     \* arpPosition arguments of loadMap
    Blank,         \* a block cleared by reset()
    Torn,          \* a block of which only the beginning could be read
    MaxArp,        \* bound: rotations in one run of the simulator
    MaxLags        \* timing: rotations between two refreshes (see Rotate)

ASSUME QueueAssumption ==
    /\ BlkCnts \in [Maps -> Nat \ {0}]
    /\ MaxArp \in Nat /\ MaxLags \in [Maps -> Nat]
    /\ HeaderBlocks \in Nat \ {0} /\ FileSizes \subseteq 0 .. HeaderBlocks
    /\ Positions \subseteq Nat
    /\ Wrap \in Nat
    /\ \A p \in Positions \cup {0}, m \in Maps : p + MaxArp + 2 * BlkCnts[m] < Wrap

VARIABLES
    map,        \* which of the two maps this is
    fileBlocks, \* whole blocks of its file
    enabled,   \* control register: is the simulator running?
    currArp,   \* rotations the FPGA has counted since it was enabled
    fromArp,   \* file block of rotation 0
    loadIdx,   \* targetArpLoadIdx / clutterArpLoadIdx: rotation to load next
    mem,       \* what each block of the queue's memory holds
    good,      \* is the loader's file stream free of failbit?
    arp,       \* the loader's local copy of currArp
    runs,      \* runCount of the loader
    pc,        \* the loader: "none", "sleep", "due", "loop"
    rpc,       \* the RPC thread: "idle", "disable", "reset", "loadMap", "load"
    loaded,    \* has loadMap been called since the simulator was last stopped?
    age        \* rotations since the start of the last finished refresh

fpga   == <<enabled, currArp, age>>
queue  == <<fromArp, loadIdx, mem>>
loader == <<good, arp, runs, pc>>
given  == <<map, fileBlocks>>
vars   == <<fpga, queue, loader, rpc, loaded, given>>

BlkCnt == BlkCnts[map]
MaxLag == MaxLags[map]
Slots == 0 .. BlkCnt - 1
Blocks == 0 .. HeaderBlocks - 1
AllBlank == [s \in Slots |-> Blank]

Minus(a, b) == IF a >= b THEN a - b ELSE a - b + Wrap     \* u32 subtraction
Least(a, b) == IF a < b THEN a ELSE b                      \* MIN

-----------------------------------------------------------------------------
\* The members have no initializer; the constructor clears the memory.
Init ==
    /\ map \in Maps /\ fileBlocks \in FileSizes
    /\ enabled = FALSE /\ currArp = 0 /\ age = 0
    /\ fromArp \in Positions /\ loadIdx \in {0, BlkCnt + 1}
    /\ mem = AllBlank
    /\ good = TRUE /\ arp = 0 /\ runs = 0 /\ pc = "none"
    /\ rpc = "idle" /\ loaded = FALSE

-----------------------------------------------------------------------------
(* The RPC thread.                                                         *)

\* disable(), alone or as the beginning of reset() and loadMap(): the FPGA
\* clears its counter and the call waits for the refresh thread.
Stop(call) ==
    /\ rpc = "idle"
    /\ rpc' = call
    /\ enabled' = FALSE /\ currArp' = 0 /\ age' = 0
    /\ loaded' = FALSE
    /\ UNCHANGED <<queue, loader>>

\* The refresh thread has been joined.
DisableReturns ==
    /\ rpc = "disable" /\ pc = "none"
    /\ rpc' = "idle"
    /\ UNCHANGED <<fpga, queue, loader, loaded>>

ResetReturns ==
    /\ rpc = "reset" /\ pc = "none"
    /\ rpc' = "idle"
    /\ fromArp' = 0 /\ mem' = AllBlank
    /\ UNCHANGED <<fpga, loadIdx, loader, loaded>>

\* Mutant of LoadMap: the load index is not reset.
LoadMapKeepsIndex(position) ==
    /\ rpc = "loadMap" /\ pc = "none"
    /\ rpc' = "load" /\ pc' = "due"
    /\ fromArp' = position /\ mem' = AllBlank
    /\ good' = TRUE
    /\ UNCHANGED <<fpga, arp, runs, loaded, loadIdx>>

\* The rest of reset(), then the indices of loadMap and its own load through
\* a stream opened for this call.
LoadMap(position) ==
    /\ rpc = "loadMap" /\ pc = "none"
    /\ rpc' = "load" /\ pc' = "due"
    /\ fromArp' = position /\ loadIdx' = 0 /\ mem' = AllBlank
    /\ good' = TRUE
    /\ UNCHANGED <<fpga, arp, runs, loaded>>

\* enable(): the refresh thread opens the file again and starts its loop.
\* (An enable() while that thread runs is the subject of SimServer.)
Enable ==
    /\ rpc = "idle" /\ pc = "none"
    /\ enabled' = TRUE
    /\ good' = TRUE /\ pc' = "sleep"
    /\ UNCHANGED <<currArp, age, queue, arp, runs, rpc, loaded>>

-----------------------------------------------------------------------------
(* The loader, in the refresh thread or in loadMap.                        *)

\* Mutant of Wake: while (true).
WakeForEver ==
    /\ pc = "sleep"
    /\ pc' = "due"
    /\ UNCHANGED <<fpga, queue, good, arp, runs, rpc, loaded>>

\* while (ctrl->enabled): one more refresh, or the end of the thread.
Wake ==
    /\ pc = "sleep"
    /\ pc' = IF enabled THEN "due" ELSE "none"
    /\ UNCHANGED <<fpga, queue, good, arp, runs, rpc, loaded>>

\* The loader reads the header and where the FPGA is, once for the whole pass.
BeginPass ==
    /\ pc = "due"
    /\ arp' = currArp /\ runs' = 0 /\ pc' = "loop"
    /\ UNCHANGED <<fpga, queue, good, rpc, loaded>>

QueueSize == Minus(loadIdx, arp)
\* Mutant of MayLoad: one block more than the queue has.
MayLoadOneMore == QueueSize <= BlkCnt /\ runs < BlkCnt

MayLoad == QueueSize < BlkCnt /\ runs < BlkCnt

\* Mutant of BlockFilePos: the last block of the file is taken for its end.
BlockFilePosShort ==
    Least(fromArp + loadIdx, IF good THEN HeaderBlocks - 2 ELSE Wrap - 1)

\* A failed stream reads a header of zeroes: blockCount - 1 is then Wrap - 1.
BlockFilePos ==
    Least(fromArp + loadIdx, IF good THEN HeaderBlocks - 1 ELSE Wrap - 1)

\* Mutant of LoadBlock: every read is taken to succeed.
LoadBlockUnchecked ==
    /\ pc = "loop" /\ MayLoad
    /\ runs' = runs + 1
    /\ good' = (good /\ BlockFilePos < fileBlocks)
    /\ mem' = [mem EXCEPT ![loadIdx % BlkCnt] = BlockFilePos]
    /\ loadIdx' = loadIdx + 1
    /\ UNCHANGED <<fpga, fromArp, arp, pc, rpc, loaded>>

\* Mutant of LoadBlock: the index is advanced before its place is computed.
LoadBlockNextPlace ==
    /\ pc = "loop" /\ MayLoad
    /\ runs' = runs + 1
    /\ good' = (good /\ BlockFilePos < fileBlocks)
    /\ mem' = IF good' THEN [mem EXCEPT ![(loadIdx + 1) % BlkCnt] = BlockFilePos] ELSE mem
    /\ loadIdx' = loadIdx + 1
    /\ UNCHANGED <<fpga, fromArp, arp, pc, rpc, loaded>>

\* One turn of the load loop.  A read past the end of the file sets failbit,
\* having stored what was left of the file; a stream with failbit set stores
\* nothing, and nothing clears it.  The test of eof() after seekg() is never
\* true, since seekg() has cleared that bit.  loadIdx advances all the same.
LoadBlock ==
    /\ pc = "loop" /\ MayLoad
    /\ runs' = runs + 1
    /\ good' = (good /\ BlockFilePos < fileBlocks)
    /\ LET slot == loadIdx % BlkCnt IN
        \/ /\ good'
           /\ mem' = [mem EXCEPT ![slot] = BlockFilePos]
        \/ /\ good /\ ~good'
           /\ mem' \in {mem, [mem EXCEPT ![slot] = Torn]}
        \/ /\ ~good
           /\ mem' = mem
    /\ loadIdx' = loadIdx + 1
    /\ UNCHANGED <<fpga, fromArp, arp, pc, rpc, loaded>>

\* Mutant of EndPass: the refresh thread refreshes once.
EndPassEnds ==
    /\ pc = "loop" /\ ~MayLoad
    /\ pc' = "none"
    /\ IF rpc = "load"
       THEN rpc' = "idle" /\ loaded' = TRUE
       ELSE UNCHANGED <<rpc, loaded>>
    /\ age' = IF enabled THEN currArp - arp ELSE 0
    /\ UNCHANGED <<enabled, currArp, queue, good, arp, runs>>

\* The loop is over, at once if the queue was full ("early exit").
EndPass ==
    /\ pc = "loop" /\ ~MayLoad
    /\ IF rpc = "load"
       THEN pc' = "none" /\ rpc' = "idle" /\ loaded' = TRUE
       ELSE pc' = "sleep" /\ UNCHANGED <<rpc, loaded>>
    /\ age' = IF enabled THEN currArp - arp ELSE 0
    /\ UNCHANGED <<enabled, currArp, queue, good, arp, runs>>

-----------------------------------------------------------------------------
\* The FPGA starts the next rotation.  Timing assumption: from the start of a
\* refresh to the end of the next one (a second of sleep and the reads), the
\* antenna turns at most MaxLag times.
Rotate ==
    /\ enabled
    /\ currArp < MaxArp /\ age < MaxLag
    /\ currArp' = currArp + 1 /\ age' = age + 1
    /\ UNCHANGED <<enabled, queue, loader, rpc, loaded>>

RefreshThread ==
    (Wake \/ BeginPass \/ LoadBlock \/ EndPass) /\ UNCHANGED given
RpcReturns ==
    /\ DisableReturns \/ ResetReturns \/ \E p \in Positions : LoadMap(p)
    /\ UNCHANGED given

Next ==
    /\ \/ \E call \in {"disable", "reset", "loadMap"} : Stop(call)
       \/ Enable
       \/ Rotate
       \/ DisableReturns \/ ResetReturns
       \/ \E position \in Positions : LoadMap(position)
       \/ Wake \/ BeginPass \/ LoadBlock \/ EndPass
    /\ UNCHANGED given

\* Threads run: the refresh thread is woken by its timer, a join returns when
\* the thread has ended.  Nothing obliges a client to call, or the antenna to
\* turn.
Spec ==
    /\ Init /\ [][Next]_vars
    /\ WF_vars(RefreshThread) /\ WF_vars(RpcReturns)

-----------------------------------------------------------------------------
TypeOK ==
    /\ map \in Maps /\ fileBlocks \in FileSizes
    /\ enabled \in BOOLEAN /\ good \in BOOLEAN /\ loaded \in BOOLEAN
    /\ currArp \in 0 .. MaxArp /\ arp \in 0 .. MaxArp
    /\ age \in 0 .. MaxArp
    /\ fromArp \in Positions \cup {0}
    /\ loadIdx \in 0 .. MaxArp + 2 * BlkCnt
    /\ mem \in [Slots -> Blocks \cup {Blank, Torn}]
    /\ runs \in 0 .. BlkCnt
    /\ pc \in {"none", "sleep", "due", "loop"}
    /\ rpc \in {"idle", "disable", "reset", "loadMap", "load"}

\* The file block that belongs to rotation r: the last one once the file has
\* been played ("ensure we don't go over the EOF").
Expected(r) == Least(fromArp + r, HeaderBlocks - 1)

\* A block is overwritten only after the rotation it was loaded for has ended:
\* the FPGA may have moved on since the loader looked, never back.
OverwritesOnlyPlayed ==
    [][enabled /\ mem' /= mem => loadIdx < currArp + BlkCnt]_vars

\* In a run that was loaded, and as long as the file has the block, the block of
\* rotation r is in its place from the moment the rotation begins, however the
\* rotations fall between the steps of the loader.  The single block of the
\* clutter map can only follow: it may still be that of an earlier rotation.
Playing == enabled /\ loaded /\ Expected(currArp) < fileBlocks
InPlace(r) == mem[currArp % BlkCnt] = Expected(r)
PlaysExpected ==
    Playing => /\ MaxLag < BlkCnt => InPlace(currArp)
               /\ MaxLag <= BlkCnt => \E back \in 0 .. MaxLag : InPlace(currArp - back)

\* Every rotation that begins gets its block, unless the simulator is stopped.
RotationServed ==
    \A r \in 0 .. MaxArp :
        (enabled /\ loaded /\ currArp = r) ~> (loadIdx > r \/ ~enabled)

\* A call that waits for the refresh thread returns.
CallsReturn == rpc /= "idle" ~> rpc = "idle"

\* The four-block queue of a run that was loaded, as the FPGA consumes it: a
\* FIFO of the blocks of a file that has them all.
Live == /\ loaded \/ rpc = "load"
        /\ BlkCnt > MaxLag /\ fileBlocks = HeaderBlocks
Fifo == INSTANCE BlockFifo
          WITH room   <- BlkCnt,
               from   <- IF Live THEN fromArp ELSE 0,
               played <- IF Live THEN currArp ELSE 0,
               fifo   <- IF Live
                         THEN [k \in 1 .. loadIdx - currArp |->
                                  mem[(currArp + k - 1) % BlkCnt]]
                         ELSE <<>>,
               Last   <- HeaderBlocks - 1
FifoSpec == Fifo!Spec
=============================================================================
