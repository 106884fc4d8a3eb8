------------------------------- MODULE BdRing -------------------------------
(***************************************************************************)
(* The buffer descriptor (BD) ring of one transmit channel of the AXI DMA  *)
(* driver (xilinx/xaxidma_bdring.c) under the engine's cyclic mode.        *)
(*                                                                         *)
(* A BD is named by its index in the ring.  The driver divides the ring    *)
(* into four groups that follow each other around it,                      *)
(*                                                                         *)
(*      post -> hardware -> pre -> free -> (post)                          *)
(*                                                                         *)
(* each given by its first BD and its size.  Every operation moves BDs     *)
(* over the border between two groups.  The engine is external: it follows *)
(* the next pointers stored in the BDs and knows nothing of the groups.    *)
(***************************************************************************)
EXTENDS Integers

CONSTANTS
    AllCnt,      \* BDs in the ring (64: 4096 bytes of BD space, 64 bytes each)
    Separation,  \* what ToHw adds to HwTail, in BDs (64, see HwTailAfter)
    Buffers,     \* the memory blocks a BD can point to
    Unset        \* the buffer address of a BD nobody has described

ASSUME RingAssumption ==
    /\ AllCnt \in Nat \ {0}
    /\ Separation \in Nat /\ AllCnt <= Separation
    /\ Unset \notin Buffers

VARIABLES
    freeHead, preHead, hwHead, postHead,  \* first BD of each group
    freeCnt, preCnt, hwCnt, postCnt,      \* number of BDs of each group
    hwTail,   \* last BD given to the engine, or past the ring when cyclic
    bd,       \* the descriptors in memory
    cur,      \* the engine's current descriptor (CDESC)
    go        \* has a tail been written since the channel was started?

free == <<freeHead, freeCnt>>
pre  == <<preHead, preCnt>>
hw   == <<hwHead, hwCnt>>
post == <<postHead, postCnt>>
ringVars == <<free, pre, hw, post, hwTail, bd, cur, go>>

Bd == 0 .. AllCnt - 1
Ctrl == SUBSET {"SOF", "EOF"}   \* the bits that begin and end a packet

-----------------------------------------------------------------------------
\* Mutant of Ahead: the wrap comes one BD too late.
AheadWrapsLate(b, n) == IF b + n > AllCnt THEN b + n - AllCnt ELSE b + n

\* XAXIDMA_RING_SEEKAHEAD and XAXIDMA_RING_SEEKBACK: one conditional wrap.
Ahead(b, n) == IF b + n > AllCnt - 1 THEN b + n - AllCnt ELSE b + n
Back(b, n)  == IF b - n < 0 THEN b - n + AllCnt ELSE b - n

\* XAxiDma_BdRingNext
NextBd(b) == IF b >= AllCnt - 1 THEN 0 ELSE b + 1

\* XAxiDma_BdRingCreate, then BdRingStart with no BD given to the hardware.
RingInit ==
    /\ freeHead = 0 /\ preHead = 0 /\ hwHead = 0 /\ postHead = 0
    /\ freeCnt = AllCnt /\ preCnt = 0 /\ hwCnt = 0 /\ postCnt = 0
    /\ hwTail = 0
    /\ bd = [b \in Bd |-> [cmplt |-> FALSE, ctrl |-> {}, buf |-> Unset,
                           next |-> NextBd(b)]]
    /\ cur = 0 /\ go = FALSE

-----------------------------------------------------------------------------
\* XAxiDma_BdRingAlloc: n free BDs, from freeHead on, become pre-work BDs.
\* Enabled when the call succeeds; AllocFails when it returns XST_FAILURE.
AllocFails(n) == freeCnt < n

BdRingAlloc(n) ==
    /\ n > 0 /\ ~AllocFails(n)
    /\ freeHead' = Ahead(freeHead, n)
    /\ freeCnt' = freeCnt - n
    /\ preCnt' = preCnt + n
    /\ UNCHANGED <<preHead, hw, post, hwTail, bd, cur, go>>

\* Mutant of BdRingUnAlloc: the free group keeps its head.
UnAllocKeepsHead(n, b) ==
    /\ n > 0 /\ preCnt >= n
    /\ Ahead(b, n) = freeHead
    /\ freeCnt' = freeCnt + n
    /\ preCnt' = preCnt - n
    /\ UNCHANGED <<freeHead, preHead, hw, post, hwTail, bd, cur, go>>

\* XAxiDma_BdRingUnAlloc: the last n pre-work BDs, starting at b, go back.
BdRingUnAlloc(n, b) ==
    /\ n > 0 /\ preCnt >= n
    /\ Ahead(b, n) = freeHead
    /\ freeHead' = Back(freeHead, n)
    /\ freeCnt' = freeCnt + n
    /\ preCnt' = preCnt - n
    /\ UNCHANGED <<preHead, hw, post, hwTail, bd, cur, go>>

\* Is b among the cnt BDs from head on?
InGroup(b, head, cnt) == \E i \in 0 .. cnt - 1 : b = Ahead(head, i)

\* The client fills a BD in: XAxiDma_BdSetCtrl replaces the packet
\* bits, BdSetBufAddr the buffer, BdSetNext the link.
WriteBd(b, ctrl, buf, next) ==
    /\ bd' = [bd EXCEPT ![b].ctrl = ctrl, ![b].buf = buf, ![b].next = next]
    /\ UNCHANGED <<free, pre, hw, post, hwTail, cur, go>>

\* XAxiDma_BdRingToHw refuses a set that does not start the pre-work group
\* or whose first and last BD do not mark a packet.  (Its test for a zero
\* length never fires here: BdSetLength has refused that length before.)
ToHwFails(n, b) ==
    \/ preCnt < n \/ preHead /= b
    \/ "SOF" \notin bd[b].ctrl
    \/ "EOF" \notin bd[Ahead(b, n - 1)].ctrl

\* A set refused for its missing EOF has lost the completed bits of all its
\* BDs but the last.
ToHwRefusedLate(n, b) ==
    /\ n > 0 /\ preCnt >= n /\ preHead = b
    /\ "SOF" \in bd[b].ctrl /\ "EOF" \notin bd[Ahead(b, n - 1)].ctrl
    /\ bd' = [x \in Bd |-> [bd[x] EXCEPT !.cmplt =
                  @ /\ \A i \in 0 .. n - 2 : x /= Ahead(b, i)]]
    /\ UNCHANGED <<free, pre, hw, post, hwTail, cur, go>>

\* Mutant of HwTailAfter: the driver without its change for cyclic chains.
TailInRing(n, b) == Ahead(b, n - 1)

\* HwTail is the last BD of the set; of a set whose last BD links back to its
\* first, HwTail += Separation, an XAxiDma_Bd * and so a number of BDs, takes
\* it out of the ring.
HwTailAfter(n, b) ==
    LET last == Ahead(b, n - 1) IN
        IF bd[last].next = b THEN last + Separation ELSE last

BdRingToHw(n, b) ==
    /\ n > 0 /\ ~ToHwFails(n, b)
    /\ bd' = [x \in Bd |-> [bd[x] EXCEPT !.cmplt =
                  @ /\ \A i \in 0 .. n - 1 : x /= Ahead(b, i)]]
    /\ preHead' = Ahead(preHead, n)
    /\ preCnt' = preCnt - n
    /\ hwCnt' = hwCnt + n
    /\ hwTail' = HwTailAfter(n, b)
    /\ go' = TRUE
    /\ UNCHANGED <<free, hwHead, post, cur>>

\* Mutant of WholePackets: the completed bit is not looked at.
PacketsUnchecked(limit) ==
    {n \in 1 .. hwCnt :
        /\ n <= limit
        /\ \A i \in 0 .. n - 2 : Ahead(hwHead, i) /= hwTail
        /\ "EOF" \in bd[Ahead(hwHead, n - 1)].ctrl}

\* XAxiDma_BdRingFromHw walks the completed BDs from hwHead on, at most limit
\* of them and never past hwTail, and leaves out those of a packet whose EOF it
\* has not met: the numbers of BDs it may stop at, and the one it returns.
WholePackets(limit) ==
    {n \in 1 .. hwCnt :
        /\ n <= limit
        /\ \A i \in 0 .. n - 1 : bd[Ahead(hwHead, i)].cmplt
        /\ \A i \in 0 .. n - 2 : Ahead(hwHead, i) /= hwTail
        /\ "EOF" \in bd[Ahead(hwHead, n - 1)].ctrl}

FromHwReturns(n, limit) ==
    /\ n = 0 \/ n \in WholePackets(limit)
    /\ \A m \in WholePackets(limit) : m <= n

BdRingFromHw(n, limit) ==
    /\ FromHwReturns(n, limit)
    /\ hwCnt' = hwCnt - n
    /\ postCnt' = postCnt + n
    /\ hwHead' = Ahead(hwHead, n)
    /\ UNCHANGED <<free, pre, postHead, hwTail, bd, cur, go>>

\* XAxiDma_BdRingFree: n post-work BDs, the first of them b, become free.
BdRingFree(n, b) ==
    /\ n > 0 /\ postCnt >= n /\ postHead = b
    /\ freeCnt' = freeCnt + n
    /\ postCnt' = postCnt - n
    /\ postHead' = Ahead(postHead, n)
    /\ UNCHANGED <<freeHead, pre, hw, hwTail, bd, cur, go>>

\* The engine finishes its current BD, sets the completed bit and fetches the
\* next one.  In cyclic mode it neither stops at the tail nor minds a completed
\* bit that is still set.
EngineStep ==
    /\ go
    /\ bd' = [bd EXCEPT ![cur].cmplt = TRUE]
    /\ cur' = bd[cur].next
    /\ UNCHANGED <<free, pre, hw, post, hwTail, go>>

-----------------------------------------------------------------------------
\* Any client that calls the operations with any arguments and writes only to
\* the BDs it holds.
Descriptors == [cmplt : BOOLEAN, ctrl : Ctrl, buf : Buffers \cup {Unset},
                next : Bd]

RingNext ==
    \/ \E n \in 1 .. AllCnt : BdRingAlloc(n)
    \/ \E n \in 1 .. AllCnt, b \in Bd : BdRingUnAlloc(n, b)
    \/ \E b, next \in Bd, ctrl \in Ctrl, buf \in Buffers \cup {Unset} :
          InGroup(b, preHead, preCnt) /\ WriteBd(b, ctrl, buf, next)
    \/ \E n \in 1 .. AllCnt, b \in Bd : BdRingToHw(n, b)
    \/ \E n \in 1 .. AllCnt, b \in Bd : ToHwRefusedLate(n, b)
    \/ \E n \in 0 .. AllCnt, limit \in 1 .. AllCnt : BdRingFromHw(n, limit)
    \/ \E n \in 1 .. AllCnt, b \in Bd : BdRingFree(n, b)
    \/ EngineStep

RingSpec == RingInit /\ [][RingNext]_ringVars

-----------------------------------------------------------------------------
RingTypeOK ==
    /\ freeHead \in Bd /\ preHead \in Bd /\ hwHead \in Bd /\ postHead \in Bd
    /\ freeCnt \in 0 .. AllCnt /\ preCnt \in 0 .. AllCnt
    /\ hwCnt \in 0 .. AllCnt /\ postCnt \in 0 .. AllCnt
    /\ hwTail \in 0 .. AllCnt + Separation
    /\ bd \in [Bd -> Descriptors]
    /\ cur \in Bd
    /\ go \in BOOLEAN

\* The internal counters add up (XAxiDma_BdRingCheck) and each group begins
\* where the one before it ends: no BD is in two groups and none is lost,
\* however the operations are interleaved and whatever they are called with.
RingPartition ==
    /\ freeCnt + preCnt + hwCnt + postCnt = AllCnt
    /\ hwHead = Ahead(postHead, postCnt)
    /\ preHead = Ahead(hwHead, hwCnt)
    /\ freeHead = Ahead(preHead, preCnt)

\* What FromHw hands back for examination has been through the engine: every
\* post-work BD is completed, whatever the engine cycles over meanwhile.
PostCompleted ==
    \A i \in 0 .. postCnt - 1 : bd[Ahead(postHead, i)].cmplt
=============================================================================
