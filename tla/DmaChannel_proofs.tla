-------------------------- MODULE DmaChannel_proofs --------------------------
(***************************************************************************)
(* For every ring and map size: startDmaTransfer keeps to the contract of  *)
(* the driver, so what is proved of the driver under any client holds of   *)
(* each channel of the server.                                             *)
(***************************************************************************)
EXTENDS DmaChannel, BdRing_proofs, CircularSlots

\* What the handler's locals mean at each point of startDmaTransfer.  While a
\* chain is described, it is the last BdCount BDs of the pre-work group: the
\* ones before it, if any, were stranded by a call that raised.
Locals ==
    /\ first \in Bd \cup {NoBd}
    /\ done \in 0 .. BdCount
    /\ pc = "free" => set \in Bd /\ setCnt \in 1 .. AllCnt
    /\ pc = "describe" =>
          /\ set \in Bd /\ setCnt = BdCount
          /\ BdCount <= preCnt
          /\ freeHead = Ahead(set, BdCount)

ChannelInv == Borders /\ channel \in Channels /\ Locals

LEMMA BdCountFacts ==
    ASSUME channel \in Channels
    PROVE  /\ BlockCount \in Nat \ {0} /\ 0 .. BlockCount - 1 \subseteq Buffers
           /\ BdCount \in Nat /\ BdCount >= 2 /\ BdCount >= BlockCount
<1>1. BlockCount \in Nat \ {0} /\ 0 .. BlockCount - 1 \subseteq Buffers
  BY BlockAssumption DEF BlockCount
<1>2. QED  BY <1>1 DEF BdCount

\* The channel is the same for ever, and so is the length of its chains.
LEMMA SameChannel ==
    ASSUME [Next]_vars
    PROVE  channel' = channel /\ BdCount' = BdCount
<1>1. channel' = channel
  BY DEF Next, Call, Proceed, Engine, vars
<1>2. QED  BY <1>1 DEF BdCount, BlockCount

\* The BDs being described belong to the pre-work group.
LEMMA SetInPre ==
    ASSUME ChannelInv, pc = "describe", NEW k \in 0 .. BdCount - 1
    PROVE  Ahead(set, k) \in Bd /\ InGroup(Ahead(set, k), preHead, preCnt)
<1> DEFINE j == preCnt - BdCount + k
<1>1. j \in 0 .. preCnt - 1
  BY BdCountFacts DEF ChannelInv, Borders, RingTypeOK, Locals
<1>2. Ahead(set, k) = Ahead(preHead, j)
  <2>1. /\ BdCount \in Nat /\ BdCount <= preCnt
        /\ set \in Bd /\ freeHead = Ahead(set, BdCount)
    BY BdCountFacts DEF ChannelInv, Locals
  <2>2. QED
    BY <2>1, RingAssumption
    DEF ChannelInv, Borders, RingTypeOK, RingPartition, Ahead, Bd
<1>3. Ahead(set, k) \in Bd
  BY BdCountFacts, RingAssumption, AheadInRing
  DEF ChannelInv, Borders, RingTypeOK, Locals
<1>4. QED  BY <1>1, <1>2, <1>3 DEF InGroup

-----------------------------------------------------------------------------
(* Every step of the channel is a step of the driver under its contract.   *)

LEMMA DescribeKeepsContract ==
    ASSUME ChannelInv, Describe
    PROVE  RingNext
<1> DEFINE b == Ahead(set, done)
           ctrl == IF done = BdCount - 1 THEN {"EOF"}
                   ELSE IF done = 0 THEN {"SOF"} ELSE bd[b].ctrl
           next == IF done = BdCount - 1 THEN set ELSE bd[b].next
<1>1. pc = "describe" /\ WriteBd(b, ctrl, done % BlockCount, next)
  BY DEF Describe
<1>2. done \in 0 .. BdCount - 1
  BY BdCountFacts DEF Describe, ChannelInv, Locals
<1>3. b \in Bd /\ InGroup(b, preHead, preCnt)
  BY <1>1, <1>2, SetInPre
<1>4. bd[b] \in Descriptors
  BY <1>3 DEF ChannelInv, Borders, RingTypeOK
<1>5. ctrl \in Ctrl
  BY <1>4 DEF Descriptors, Ctrl
<1>6. next \in Bd
  BY <1>1, <1>4 DEF Descriptors, ChannelInv, Locals
<1>7. done % BlockCount \in Buffers
  BY <1>2, BdCountFacts DEF ChannelInv
<1>8. QED  BY <1>1, <1>3, <1>5, <1>6, <1>7 DEF RingNext

LEMMA RaiseLengthKeepsContract ==
    ASSUME ChannelInv, RaiseLength
    PROVE  RingNext
<1>1. pc = "describe" /\ WriteBd(set, {"SOF"}, 0, bd[set].next)
  BY DEF RaiseLength
<1>2. set \in Bd
  BY <1>1 DEF ChannelInv, Locals
<1>3. Ahead(set, 0) = set
  BY <1>2, RingAssumption DEF Ahead, Bd
<1>4. InGroup(set, preHead, preCnt)
  BY <1>1, <1>3, SetInPre, BdCountFacts DEF ChannelInv
<1>5. bd[set].next \in Bd
  BY <1>2 DEF ChannelInv, Borders, RingTypeOK, Descriptors
<1>6. {"SOF"} \in Ctrl /\ 0 \in Buffers
  BY BdCountFacts DEF Ctrl, ChannelInv
<1>7. QED  BY <1>1, <1>2, <1>4, <1>5, <1>6 DEF RingNext

LEMMA StepKeepsContract == ChannelInv /\ [Next]_vars => [RingNext]_ringVars
<1> SUFFICES ASSUME ChannelInv, [Next]_vars PROVE [RingNext]_ringVars
  OBVIOUS
<1>1. CASE Call
  BY <1>1 DEF Call
<1>2. CASE CleanFromHw
  <2>1. AllCnt \in 1 .. AllCnt
    BY RingAssumption
  <2>2. QED  BY <1>2, <2>1 DEF CleanFromHw, RingNext
<1>3. CASE CleanFree
  BY <1>3 DEF CleanFree, RingNext, ChannelInv, Locals
<1>4. CASE AllocBds
  <2>1. BdCount \in 1 .. AllCnt
    BY <1>4, BdCountFacts, RingAssumption
    DEF AllocBds, BdRingAlloc, AllocFails, ChannelInv, Borders, RingTypeOK
  <2>2. QED  BY <1>4, <2>1 DEF AllocBds, RingNext
<1>5. CASE Describe
  BY <1>5, DescribeKeepsContract
<1>6. CASE Commit
  <2>1. BdCount \in 1 .. AllCnt
    BY <1>6, BdCountFacts, RingAssumption
    DEF Commit, ChannelInv, Borders, RingTypeOK, Locals
  <2>2. QED  BY <1>6, <2>1 DEF Commit, RingNext, ChannelInv, Locals
<1>7. CASE RaiseLength
  BY <1>7, RaiseLengthKeepsContract
<1>8. CASE Raise
  BY <1>8 DEF Raise
<1>9. CASE Engine
  BY <1>9 DEF Engine, RingNext
<1>10. CASE UNCHANGED vars
  BY <1>10 DEF vars
<1>11. QED
  BY <1>1, <1>2, <1>3, <1>4, <1>5, <1>6, <1>7, <1>8, <1>9, <1>10
  DEF Next, Proceed

-----------------------------------------------------------------------------
LEMMA LocalsNext == ChannelInv /\ [Next]_vars => Locals'
<1> SUFFICES ASSUME ChannelInv, [Next]_vars PROVE Locals'
  OBVIOUS
<1> USE BdCountFacts, SameChannel DEF ChannelInv, Locals
<1>1. CASE Call
  BY <1>1 DEF Call
<1>2. CASE CleanFromHw
  <2> PICK k \in 0 .. AllCnt :
              /\ BdRingFromHw(k, AllCnt)
              /\ setCnt' = k
              /\ set' = IF k > 0 THEN hwHead ELSE NoBd
              /\ pc' = IF k > 0 THEN "free" ELSE "alloc"
    BY <1>2 DEF CleanFromHw
  <2> QED
    BY <1>2, RingAssumption DEF CleanFromHw, Borders, RingTypeOK
<1>3. CASE CleanFree
  BY <1>3 DEF CleanFree
<1>4. CASE AllocBds
  BY <1>4, RingAssumption
  DEF AllocBds, BdRingAlloc, AllocFails, Borders, RingTypeOK
<1>5. CASE Describe
  BY <1>5 DEF Describe, WriteBd, free, pre, Ahead
<1>6. CASE Commit
  BY <1>6 DEF Commit
<1>7. CASE RaiseLength
  BY <1>7 DEF RaiseLength
<1>8. CASE Raise
  BY <1>8 DEF Raise
<1>9. CASE Engine
  BY <1>9 DEF Engine, EngineStep, callVars, free, pre, Ahead
<1>10. CASE UNCHANGED vars
  BY <1>10 DEF vars, callVars, ringVars, free, pre, Ahead
<1>11. QED
  BY <1>1, <1>2, <1>3, <1>4, <1>5, <1>6, <1>7, <1>8, <1>9, <1>10
  DEF Next, Proceed

LEMMA ChannelInvariant == Spec => []ChannelInv
<1>1. Init => ChannelInv
  <2>1. Init => Locals
    BY BdCountFacts, RingAssumption DEF Init, Locals, Bd
  <2>2. QED  BY <2>1, BordersInit DEF Init, ChannelInv
<1>2. ChannelInv /\ [Next]_vars => ChannelInv'
  BY StepKeepsContract, BordersNext, LocalsNext, SameChannel DEF ChannelInv
<1>3. QED  BY <1>1, <1>2, PTL DEF Spec

\* startDmaTransfer is a client that keeps the contract of the driver.
THEOREM ChannelKeepsContract == Spec => KeepsContract
<1>1. Init => RingInit  BY DEF Init
<1>2. QED
  BY <1>1, ChannelInvariant, StepKeepsContract, PTL DEF Spec, KeepsContract, RingSpec

\* Over any number of enables, failed ones included, the ring of a channel
\* stays divided into its four groups ...
THEOREM ChannelRingPartitioned == Spec => []RingPartition
  BY ChannelKeepsContract, RingPartitioned, PTL DEF KeepsContract

\* ... and the handler frees only BDs the engine has completed.
THEOREM ChannelPostCompleted == Spec => []PostCompleted
  BY ChannelKeepsContract, ReturnedBdsCompleted, PTL DEF KeepsContract

-----------------------------------------------------------------------------
(* The chain that is given to the engine is accepted.                      *)

\* What has been written into the chain so far, and what the engine was given.
Marks ==
    /\ pc = "describe" /\ done > 0 => "SOF" \in bd[set].ctrl
    /\ pc = "describe" /\ done = BdCount =>
          /\ "EOF" \in bd[Ahead(set, BdCount - 1)].ctrl
          /\ bd[Ahead(set, BdCount - 1)].next = set

ChainInv == ChannelInv /\ Marks /\ CyclicTail

\* Two BDs of the chain are different BDs.
LEMMA DistinctInSet ==
    ASSUME ChannelInv, pc = "describe", NEW k \in 1 .. BdCount - 1
    PROVE  Ahead(set, k) /= set
<1>1. /\ set \in Bd /\ BdCount \in Nat /\ BdCount <= preCnt /\ preCnt \in 0 .. AllCnt
  BY BdCountFacts DEF ChannelInv, Locals, Borders, RingTypeOK
<1>2. QED  BY <1>1, RingAssumption DEF Ahead, Bd

LEMMA DescribeMarks ==
    ASSUME ChainInv, Describe, [Next]_vars
    PROVE  Marks'
<1> DEFINE b == Ahead(set, done)
           last == done = BdCount - 1
           ctrl == IF last THEN {"EOF"} ELSE IF done = 0 THEN {"SOF"} ELSE bd[b].ctrl
           next == IF last THEN set ELSE bd[b].next
<1>1. /\ pc = "describe" /\ pc' = pc /\ set' = set /\ done' = done + 1
      /\ WriteBd(b, ctrl, done % BlockCount, next)
  BY DEF Describe
<1>2. done \in 0 .. BdCount - 1 /\ BdCount \in Nat /\ BdCount >= 2 /\ set \in Bd
  BY <1>1, BdCountFacts DEF Describe, ChainInv, ChannelInv, Locals
<1>3. BdCount' = BdCount
  BY SameChannel
<1>4. b \in Bd /\ bd \in [Bd -> Descriptors]
  BY <1>1, <1>2, SetInPre DEF ChainInv, ChannelInv, Borders, RingTypeOK
<1>5. /\ bd'[b].ctrl = ctrl /\ bd'[b].next = next
      /\ b /= set => bd'[set] = bd[set]
  BY <1>1, <1>2, <1>4 DEF WriteBd, Descriptors
<1>6. "SOF" \in bd'[set].ctrl
  <2>1. CASE done = 0
    <3>1. b = set
      BY <2>1, <1>2, RingAssumption DEF Ahead, Bd
    <3>2. QED  BY <2>1, <3>1, <1>2, <1>5
  <2>2. CASE done > 0
    <3>1. b /= set
      BY <2>2, <1>1, <1>2, DistinctInSet DEF ChainInv
    <3>2. QED  BY <2>2, <3>1, <1>1, <1>5 DEF ChainInv, Marks
  <2>3. QED  BY <1>2, <2>1, <2>2
<1>7. ASSUME done' = BdCount'
      PROVE  /\ "EOF" \in bd'[Ahead(set, BdCount - 1)].ctrl
             /\ bd'[Ahead(set, BdCount - 1)].next = set
  <2>1. last
    BY <1>1, <1>2, <1>3, <1>7
  <2>2. QED  BY <2>1, <1>5
<1>8. Ahead(set, BdCount - 1)' = Ahead(set, BdCount - 1)
  BY <1>1, <1>3 DEF Ahead
<1>9. QED  BY <1>1, <1>3, <1>6, <1>7, <1>8 DEF Marks

\* The engine writes nothing but completed bits.
LEMMA EngineMarks ==
    ASSUME ChainInv, Engine, [Next]_vars
    PROVE  Marks'
<1>1. /\ pc' = pc /\ set' = set /\ done' = done /\ BdCount' = BdCount
      /\ bd' = [bd EXCEPT ![cur].cmplt = TRUE]
  BY SameChannel DEF Engine, EngineStep, callVars
<1>2. \A b \in Bd : bd'[b].ctrl = bd[b].ctrl /\ bd'[b].next = bd[b].next
  BY <1>1 DEF ChainInv, ChannelInv, Borders, RingTypeOK, Descriptors
<1>3. ASSUME pc = "describe"
      PROVE  set \in Bd /\ Ahead(set, BdCount - 1) \in Bd
  BY <1>3, BdCountFacts, SetInPre DEF ChainInv, ChannelInv, Locals
<1>4. Ahead(set, BdCount - 1)' = Ahead(set, BdCount - 1)
  BY <1>1 DEF Ahead
<1>5. QED  BY <1>1, <1>2, <1>3, <1>4 DEF ChainInv, Marks

LEMMA MarksNext == ChainInv /\ [Next]_vars => Marks'
<1> SUFFICES ASSUME ChainInv, [Next]_vars PROVE Marks'
  OBVIOUS
<1> USE DEF Marks
<1>1. CASE Call        BY <1>1 DEF Call
<1>2. CASE CleanFromHw BY <1>2 DEF CleanFromHw
<1>3. CASE CleanFree   BY <1>3 DEF CleanFree
<1>4. CASE AllocBds
  BY <1>4, BdCountFacts, SameChannel DEF AllocBds, ChainInv, ChannelInv
<1>5. CASE Describe    BY <1>5, DescribeMarks
<1>6. CASE Commit      BY <1>6 DEF Commit
<1>7. CASE RaiseLength BY <1>7 DEF RaiseLength
<1>8. CASE Raise       BY <1>8 DEF Raise
<1>9. CASE Engine      BY <1>9, EngineMarks
<1>10. CASE UNCHANGED vars
  <2>1. BdCount' = BdCount /\ set' = set /\ bd' = bd /\ pc' = pc /\ done' = done
    BY <1>10, SameChannel DEF vars, ringVars, callVars
  <2>2. Ahead(set, BdCount - 1)' = Ahead(set, BdCount - 1)
    BY <2>1 DEF Ahead
  <2>3. QED  BY <2>1, <2>2 DEF ChainInv
<1>11. QED
  BY <1>1, <1>2, <1>3, <1>4, <1>5, <1>6, <1>7, <1>8, <1>9, <1>10
  DEF Next, Proceed

\* A committed chain links back to its beginning, so its tail leaves the ring.
LEMMA CyclicTailNext == ChainInv /\ [Next]_vars => CyclicTail'
<1> SUFFICES ASSUME ChainInv, [Next]_vars PROVE CyclicTail'
  OBVIOUS
<1>1. CASE Commit
  <2>1. /\ pc = "describe" /\ done = BdCount /\ setCnt = BdCount /\ set \in Bd
        /\ hwTail' = HwTailAfter(setCnt, set)
    BY <1>1 DEF Commit, BdRingToHw, ChainInv, ChannelInv, Locals
  <2>2. Ahead(set, BdCount - 1) \in Bd
    BY <2>1, BdCountFacts, SetInPre DEF ChainInv, ChannelInv
  <2>3. hwTail' = Ahead(set, BdCount - 1) + Separation
    BY <2>1 DEF HwTailAfter, ChainInv, Marks
  <2>4. QED  BY <2>2, <2>3, RingAssumption DEF CyclicTail, Bd
<1>2. CASE ~Commit
  <2>1. UNCHANGED <<hwTail, go>>
    BY <1>2 DEF Next, Proceed, Call, CleanFromHw, BdRingFromHw, CleanFree, BdRingFree,
       AllocBds, BdRingAlloc, Describe, RaiseLength, WriteBd, Raise, Engine, EngineStep,
       vars, ringVars
  <2>2. QED  BY <2>1 DEF ChainInv, CyclicTail, Bd
<1>3. QED  BY <1>1, <1>2

LEMMA ChainInvariant == Spec => []ChainInv
<1>1. Init => Marks /\ CyclicTail
  BY DEF Init, RingInit, Marks, CyclicTail
<1>2. ChainInv /\ [Next]_vars => (Marks /\ CyclicTail)'
  BY MarksNext, CyclicTailNext
<1>3. QED
  BY <1>1, <1>2, ChannelInvariant, PTL DEF Spec, ChainInv

\* A chain that holds exactly the BDs just allocated begins where the pre-work
\* group does and marks a packet, for every number of blocks: the driver takes
\* it.
THEOREM ChainsAccepted == Spec => []CommitAccepted
<1>1. ChainInv => CommitAccepted
  <2> SUFFICES ASSUME ChainInv, pc = "describe", done = BdCount, preCnt = BdCount
               PROVE  ~ToHwFails(setCnt, set)
    BY DEF CommitAccepted
  <2>1. /\ set \in Bd /\ setCnt = BdCount /\ BdCount \in Nat /\ BdCount >= 2
        /\ freeHead = Ahead(set, BdCount) /\ freeHead = Ahead(preHead, preCnt)
        /\ preHead \in Bd /\ preCnt \in 0 .. AllCnt
    BY BdCountFacts DEF ChainInv, ChannelInv, Locals, Borders, RingTypeOK, RingPartition
  <2>2. preHead = set
    BY <2>1, RingAssumption DEF Ahead, Bd
  <2>3. "SOF" \in bd[set].ctrl /\ "EOF" \in bd[Ahead(set, BdCount - 1)].ctrl
    BY <2>1 DEF ChainInv, Marks
  <2>4. QED  BY <2>1, <2>2, <2>3 DEF ToHwFails
<1>2. QED  BY <1>1, ChainInvariant, PTL

\* The tail of a started channel is never a BD of the ring, whatever its size.
THEOREM TailOutsideRing == Spec => []CyclicTail
<1>1. ChainInv => CyclicTail  BY DEF ChainInv
<1>2. QED  BY <1>1, ChainInvariant, PTL

-----------------------------------------------------------------------------
(* What the engine reads from the descriptors.                             *)

\* A chain begins at a multiple of its length, so a descriptor has the same
\* place in every chain it is ever part of: writing it again changes nothing the
\* engine depends on.
Starts == {s \in Bd : s % BdCount = 0}
Places ==
    \A s \in Starts, i \in 0 .. BdCount - 1 :
        /\ bd[s + i].buf \in {Unset, i % BlockCount}
        /\ i < BdCount - 1 => bd[s + i].next = s + i + 1
        /\ i = BdCount - 1 /\ bd[s + i].buf /= Unset => bd[s + i].next = s

Aligned ==
    /\ freeHead \in Starts
    /\ pc = "describe" =>
          /\ set \in Starts
          /\ \A i \in 0 .. done - 1 : bd[set + i].buf /= Unset

\* The engine is in a chain that was described to its end; only the chain that
\* starts the ring can set it off.
Looped(s) == \A i \in 0 .. BdCount - 1 : bd[s + i].buf /= Unset
OnLoop ==
    /\ go => \E s \in Starts : cur \in s .. s + BdCount - 1 /\ Looped(s)
    /\ ~go => cur = 0 /\ preHead = 0

StreamInv == Places /\ Aligned /\ OnLoop

LEMMA ChainFacts ==
    ASSUME ChannelInv
    PROVE  /\ BlockCount \in Nat \ {0} /\ BdCount \in Nat /\ BdCount >= 2
           /\ BdCount = BlockCount \/ (BdCount = 2 /\ BlockCount = 1)
           /\ AllCnt \in Nat \ {0} /\ AllCnt % BdCount = 0
           /\ bd \in [Bd -> Descriptors] /\ preHead \in Bd /\ freeHead \in Bd
           /\ go \in BOOLEAN
<1>1. BlockCount \in Nat \ {0} /\ BdCount \in Nat /\ BdCount >= 2
  BY BdCountFacts DEF ChannelInv
<1>2. BdCount = BlockCount \/ (BdCount = 2 /\ BlockCount = 1)
  BY <1>1 DEF BdCount
<1>3. AllCnt % BdCount = 0
  BY ChainsAlign DEF BdCount, BlockCount, ChannelInv
<1>4. QED
  BY <1>1, <1>2, <1>3, RingAssumption DEF ChannelInv, Borders, RingTypeOK

\* A chain does not wrap around the ring, and the next one follows it.
LEMMA ChainPlace ==
    ASSUME ChannelInv, NEW s \in Starts
    PROVE  /\ s \in Nat /\ s + BdCount <= AllCnt
           /\ Ahead(s, BdCount) \in Starts
           /\ \A i \in 0 .. BdCount - 1 : Ahead(s, i) = s + i /\ s + i \in Bd
<1>1. /\ BdCount \in Int /\ BdCount > 0 /\ AllCnt \in Int /\ AllCnt % BdCount = 0
      /\ s \in Int /\ s >= 0 /\ s < AllCnt /\ s % BdCount = 0
  BY ChainFacts DEF Starts, Bd
<1>2. s + BdCount <= AllCnt
  BY <1>1, SlotsDiffer
<1>3. (s + BdCount) % BdCount = 0
  <2>1. s + BdCount \in Int /\ (s + BdCount) - BdCount = s
    BY <1>1
  <2>2. QED  BY <1>1, <2>1, SlotsRepeat
<1>4. 0 % BdCount = 0
  BY <1>1
<1>5. Ahead(s, BdCount) \in Starts
  BY <1>1, <1>2, <1>3, <1>4 DEF Ahead, Starts, Bd
<1>6. \A i \in 0 .. BdCount - 1 : Ahead(s, i) = s + i /\ s + i \in Bd
  BY <1>1, <1>2 DEF Ahead, Bd
<1>7. QED  BY <1>1, <1>2, <1>5, <1>6

\* A BD has one place in one chain.
LEMMA PlaceUnique ==
    ASSUME ChannelInv, NEW s \in Starts, NEW t \in Starts,
           NEW i \in 0 .. BdCount - 1, NEW j \in 0 .. BdCount - 1, s + i = t + j
    PROVE  s = t /\ i = j
<1>1. /\ BdCount \in Int /\ BdCount > 0 /\ s \in Int /\ t \in Int
      /\ s % BdCount = t % BdCount
  BY ChainFacts DEF Starts, Bd
<1>2. ~(s < t)
  <2>1. t < s + BdCount  BY <1>1
  <2>2. QED  BY <1>1, <2>1, SlotsDiffer
<1>3. ~(t < s)
  <2>1. s < t + BdCount  BY <1>1
  <2>2. QED  BY <1>1, <2>1, SlotsDiffer
<1>4. QED  BY <1>1, <1>2, <1>3

LEMMA SameBlocks ==
    ASSUME [Next]_vars
    PROVE  BlockCount' = BlockCount /\ BdCount' = BdCount /\ Starts' = Starts
  BY SameChannel DEF BlockCount, Starts

\* A buffer, once given to a BD, is the one the BD has for ever.
Kept == \A b \in Bd : bd[b].buf /= Unset => bd'[b].buf = bd[b].buf

LEMMA WriteInPlace ==
    ASSUME ChannelInv, Places, set \in Starts, [Next]_vars,
           NEW k \in 0 .. BdCount - 1, NEW ctrl,
           WriteBd(set + k, ctrl, k % BlockCount,
                   IF k = BdCount - 1 THEN set ELSE bd[set + k].next)
    PROVE  Places' /\ Kept /\ bd'[set + k].buf /= Unset
<1>1. /\ BlockCount \in Nat \ {0} /\ BdCount \in Nat /\ BdCount >= 2
      /\ bd \in [Bd -> Descriptors] /\ set + k \in Bd
  BY ChainFacts, ChainPlace
<1>2. /\ bd'[set + k].buf = k % BlockCount
      /\ bd'[set + k].next = IF k = BdCount - 1 THEN set ELSE bd[set + k].next
      /\ \A b \in Bd : b /= set + k => bd'[b] = bd[b]
  BY <1>1 DEF WriteBd, Descriptors
<1>3. k % BlockCount /= Unset
  <2>1. k % BlockCount \in 0 .. BlockCount - 1
    BY <1>1
  <2>2. QED  BY <2>1, BdCountFacts, RingAssumption DEF ChannelInv
<1>4. Kept
  <2>1. bd[set + k].buf \in {Unset, k % BlockCount}
    BY DEF Places
  <2>2. QED  BY <1>2, <2>1 DEF Kept
<1>5. Places'
  <2> SUFFICES ASSUME NEW s \in Starts, NEW i \in 0 .. BdCount - 1
               PROVE  /\ bd'[s + i].buf \in {Unset, i % BlockCount}
                      /\ i < BdCount - 1 => bd'[s + i].next = s + i + 1
                      /\ i = BdCount - 1 /\ bd'[s + i].buf /= Unset
                            => bd'[s + i].next = s
    BY SameBlocks DEF Places
  <2>1. s + i \in Bd
    BY ChainPlace
  <2>2. CASE s + i = set + k
    <3>1. s = set /\ i = k
      BY <2>2, PlaceUnique
    <3>2. k < BdCount - 1 => bd[set + k].next = set + k + 1
      BY DEF Places
    <3>3. QED  BY <1>1, <1>2, <3>1, <3>2
  <2>3. CASE s + i /= set + k
    <3>1. bd'[s + i] = bd[s + i]
      BY <1>2, <2>1, <2>3
    <3>2. QED  BY <3>1 DEF Places
  <2>4. QED  BY <2>2, <2>3
<1>6. QED  BY <1>2, <1>3, <1>4, <1>5

\* The driver and the engine write control and status bits only.
LEMMA LinksUntouched ==
    ASSUME ChannelInv, Places, [Next]_vars,
           \A b \in Bd : bd'[b].buf = bd[b].buf /\ bd'[b].next = bd[b].next
    PROVE  Places' /\ Kept
<1>1. \A s \in Starts, i \in 0 .. BdCount - 1 :
          bd'[s + i].buf = bd[s + i].buf /\ bd'[s + i].next = bd[s + i].next
  BY ChainPlace
<1>2. Places'
  BY <1>1, SameBlocks DEF Places
<1>3. QED  BY <1>2 DEF Kept

\* The turn of the loop writes the BD number done of the chain in its place.
LEMMA DescribeInPlace ==
    ASSUME ChannelInv, Places, set \in Starts, Describe, [Next]_vars
    PROVE  Places' /\ Kept /\ bd'[set + done].buf /= Unset
<1>1. done \in 0 .. BdCount - 1
  BY ChainFacts DEF Describe, ChannelInv, Locals
<1>2. Ahead(set, done) = set + done
  BY <1>1, ChainPlace
<1> DEFINE ctrl == IF done = BdCount - 1 THEN {"EOF"}
                   ELSE IF done = 0 THEN {"SOF"} ELSE bd[set + done].ctrl
<1>3. WriteBd(set + done, ctrl, done % BlockCount,
              IF done = BdCount - 1 THEN set ELSE bd[set + done].next)
  BY <1>2 DEF Describe
<1> HIDE DEF ctrl
<1>4. QED  BY <1>1, <1>3, WriteInPlace

LEMMA PlacesNext ==
    ASSUME ChannelInv, Places, Aligned, [Next]_vars
    PROVE  Places' /\ Kept
<1>1. CASE Describe
  BY <1>1, DescribeInPlace DEF Describe, Aligned
<1>2. CASE RaiseLength
  <2>1. /\ set \in Starts /\ set \in Int
        /\ WriteBd(set, {"SOF"}, 0, bd[set].next)
    BY <1>2, ChainPlace DEF RaiseLength, Aligned
  <2>2. /\ BdCount >= 2 /\ BdCount \in Nat
        /\ 0 % BlockCount = 0 /\ set + 0 = set
    BY <2>1, ChainFacts
  <2>3. /\ 0 \in 0 .. BdCount - 1 /\ 0 /= BdCount - 1
    BY <2>2
  <2>4. WriteBd(set + 0, {"SOF"}, 0 % BlockCount,
                IF 0 = BdCount - 1 THEN set ELSE bd[set + 0].next)
    BY <2>1, <2>2, <2>3
  <2>5. QED  BY <2>1, <2>3, <2>4, WriteInPlace
<1>3. CASE Commit
  <2>1. \A b \in Bd : bd'[b].buf = bd[b].buf /\ bd'[b].next = bd[b].next
    BY <1>3, ChainFacts DEF Commit, BdRingToHw, Descriptors
  <2>2. QED  BY <2>1, LinksUntouched
<1>4. CASE Engine
  <2>1. \A b \in Bd : bd'[b].buf = bd[b].buf /\ bd'[b].next = bd[b].next
    BY <1>4, ChainFacts DEF Engine, EngineStep, Descriptors
  <2>2. QED  BY <2>1, LinksUntouched
<1>5. CASE bd' = bd
  BY <1>5, LinksUntouched
<1>6. QED
  BY <1>1, <1>2, <1>3, <1>4, <1>5
  DEF Next, Proceed, Call, CleanFromHw, BdRingFromHw, CleanFree, BdRingFree,
      AllocBds, BdRingAlloc, Raise, vars, ringVars

LEMMA AlignedNext ==
    ASSUME ChannelInv, Places, Aligned, [Next]_vars
    PROVE  Aligned'
<1>1. freeHead' \in Starts
  <2>1. CASE AllocBds
    BY <2>1, ChainPlace DEF AllocBds, BdRingAlloc, Aligned
  <2>2. CASE ~AllocBds
    BY <2>2 DEF Next, Proceed, Call, CleanFromHw, BdRingFromHw, CleanFree, BdRingFree,
       Describe, RaiseLength, WriteBd, Commit, BdRingToHw, Raise, Engine, EngineStep,
       vars, ringVars, free, Aligned
  <2>3. QED  BY <2>1, <2>2
<1>2. ASSUME pc' = "describe"
      PROVE  /\ set' \in Starts
             /\ \A i \in 0 .. done' - 1 : bd'[set' + i].buf /= Unset
  <2>1. CASE AllocBds
    BY <2>1 DEF AllocBds, Aligned
  <2>2. CASE Describe
    <3>1. /\ set' = set /\ set \in Starts /\ done' = done + 1
          /\ done \in 0 .. BdCount - 1 /\ BdCount \in Nat
          /\ \A i \in 0 .. done - 1 : bd[set + i].buf /= Unset
      BY <2>2, ChainFacts DEF Describe, Aligned, ChannelInv, Locals
    <3>2. Kept /\ bd'[set + done].buf /= Unset
      BY <2>2, <3>1, DescribeInPlace
    <3>3. ASSUME NEW i \in 0 .. done - 1
          PROVE  bd'[set + i].buf /= Unset
      <4>1. set + i \in Bd /\ bd[set + i].buf /= Unset
        BY <3>1, ChainPlace
      <4>2. QED  BY <4>1, <3>2 DEF Kept
    <3>4. QED  BY <3>1, <3>2, <3>3
  <2>3. CASE ~AllocBds /\ ~Describe
    <3>1. pc = "describe" /\ set' = set /\ done' = done
      BY <1>2, <2>3 DEF Next, Proceed, Call, CleanFromHw, CleanFree, RaiseLength, Commit,
         Raise, Engine, callVars, vars
    <3>2. /\ set \in Starts /\ done \in 0 .. BdCount /\ BdCount \in Nat
          /\ \A i \in 0 .. done - 1 : bd[set + i].buf /= Unset
      BY <3>1, ChainFacts DEF Aligned, ChannelInv, Locals
    <3>3. Kept
      BY PlacesNext
    <3>4. ASSUME NEW i \in 0 .. done - 1
          PROVE  bd'[set + i].buf /= Unset
      <4>1. set + i \in Bd /\ bd[set + i].buf /= Unset
        BY <3>2, ChainPlace
      <4>2. QED  BY <4>1, <3>3 DEF Kept
    <3>5. QED  BY <3>1, <3>2, <3>4
  <2>4. QED  BY <2>1, <2>2, <2>3
<1>3. QED  BY <1>1, <1>2, SameBlocks DEF Aligned

\* Whatever the handler does, the engine goes on in the loop it is in.
LEMMA LoopKept ==
    ASSUME ChannelInv, Kept, go, OnLoop, [Next]_vars, cur' = cur
    PROVE  /\ \E s \in Starts' : cur' \in s .. s + BdCount' - 1 /\ Looped(s)'
           /\ bd'[cur].buf = bd[cur].buf
<1>1. PICK s \in Starts : cur \in s .. s + BdCount - 1 /\ Looped(s)
  BY DEF OnLoop
<1>2. s \in Nat /\ BdCount \in Nat /\ cur \in Int
  BY ChainFacts, ChainPlace DEF ChannelInv, Borders, RingTypeOK, Bd
<1>3. \A i \in 0 .. BdCount - 1 :
         /\ s + i \in Bd /\ bd[s + i].buf /= Unset
         /\ bd'[s + i].buf = bd[s + i].buf
  BY <1>1, ChainPlace DEF Looped, Kept
<1>4. Looped(s)'
  BY <1>3, SameBlocks DEF Looped
<1>5. cur - s \in 0 .. BdCount - 1 /\ s + (cur - s) = cur
  BY <1>1, <1>2
<1>6. bd'[cur].buf = bd[cur].buf
  BY <1>3, <1>5
<1>7. QED  BY <1>1, <1>4, <1>6, SameBlocks
LEMMA CommitStreams ==
    ASSUME ChainInv, StreamInv, Kept, Commit, [Next]_vars
    PROVE  OnLoop' /\ [Stream!Next]_Stream!vars
<1>1. /\ pc = "describe" /\ done = BdCount /\ preHead = set /\ set \in Starts
      /\ cur' = cur /\ go' = TRUE
  BY DEF Commit, BdRingToHw, ToHwFails, StreamInv, Aligned
<1>2. ChannelInv /\ BdCount \in Nat /\ BdCount >= 2 /\ BlockCount \in Nat \ {0}
  BY ChainFacts DEF ChainInv
<1>3. CASE go
  <2>1. /\ \E s \in Starts' : cur' \in s .. s + BdCount' - 1 /\ Looped(s)'
        /\ bd'[cur].buf = bd[cur].buf
    BY <1>1, <1>2, <1>3, LoopKept DEF StreamInv
  <2>2. OnLoop'
    BY <1>1, <2>1 DEF OnLoop
  <2>3. UNCHANGED Stream!vars
    BY <1>1, <1>3, <2>1, SameBlocks DEF Stream!vars
  <2>4. QED  BY <2>2, <2>3
<1>4. CASE ~go
  <2>1. cur = 0 /\ set = 0
    BY <1>1, <1>4 DEF StreamInv, OnLoop
  <2>2. \A i \in 0 .. BdCount - 1 :
           set + i \in Bd /\ bd[set + i].buf /= Unset /\ bd'[set + i].buf /= Unset
    <3>1. \A i \in 0 .. BdCount - 1 : set + i \in Bd /\ bd[set + i].buf /= Unset
      BY <1>1, <1>2, ChainPlace DEF StreamInv, Aligned
    <3>2. \A i \in 0 .. BdCount - 1 : bd'[set + i].buf = bd[set + i].buf
      BY <3>1 DEF Kept
    <3>3. QED  BY <3>1, <3>2
  <2>3. OnLoop'
    <3>1. cur' \in set .. set + BdCount' - 1
      BY <1>1, <1>2, <2>1, SameBlocks
    <3>2. \A i \in 0 .. BdCount' - 1 : bd'[set + i].buf /= Unset
      BY <2>2, SameBlocks
    <3>3. set \in Starts'
      BY <1>1, SameBlocks
    <3>4. QED  BY <1>1, <3>1, <3>2, <3>3 DEF OnLoop, Looped
  <2>4. bd'[0].buf = 0
    <3>1. 0 \in 0 .. BdCount - 1 /\ set + 0 = 0 /\ 0 % BlockCount = 0
      BY <1>2, <2>1
    <3>2. bd[set + 0].buf \in {Unset, 0 % BlockCount}
      BY <1>1, <3>1 DEF StreamInv, Places
    <3>3. 0 \in Bd /\ bd[0].buf /= Unset
      BY <2>2, <3>1
    <3>4. QED  BY <3>1, <3>2, <3>3 DEF Kept
  <2>5. Stream!Begin
    BY <1>1, <1>4, <2>1, <2>4, SameBlocks DEF Stream!Begin
  <2>6. QED  BY <2>3, <2>5 DEF Stream!Next
<1>5. QED  BY <1>2, <1>3, <1>4, ChainFacts

\* The engine reads the next place of the same chain, or its first again.
LEMMA EngineStreams ==
    ASSUME ChainInv, StreamInv, Kept, Engine, [Next]_vars
    PROVE  OnLoop' /\ [Stream!Next]_Stream!vars
<1>1. go /\ go' = go /\ cur' = bd[cur].next
  BY DEF Engine, EngineStep
<1>2. PICK s \in Starts : cur \in s .. s + BdCount - 1 /\ Looped(s)
  BY <1>1 DEF StreamInv, OnLoop
<1>3. /\ ChannelInv /\ BdCount \in Nat /\ BdCount >= 2 /\ BlockCount \in Nat \ {0}
      /\ BdCount = BlockCount \/ (BdCount = 2 /\ BlockCount = 1)
  BY ChainFacts DEF ChainInv
<1>4. s \in Nat /\ cur \in Int
  BY <1>3, ChainPlace DEF ChannelInv, Borders, RingTypeOK, Bd
<1> DEFINE i == cur - s
           j == IF i = BdCount - 1 THEN 0 ELSE i + 1
<1>5. i \in 0 .. BdCount - 1 /\ j \in 0 .. BdCount - 1 /\ cur = s + i
  BY <1>2, <1>3, <1>4
<1> HIDE DEF i
<1>6. \A k \in 0 .. BdCount - 1 :
         /\ s + k \in Bd /\ bd[s + k].buf = k % BlockCount
         /\ bd'[s + k].buf = bd[s + k].buf /\ bd'[s + k].buf /= Unset
  BY <1>2, <1>3, ChainPlace DEF Looped, Kept, StreamInv, Places
<1>7. cur' = s + j
  <2>1. /\ i < BdCount - 1 => bd[s + i].next = s + i + 1
        /\ i = BdCount - 1 /\ bd[s + i].buf /= Unset => bd[s + i].next = s
    BY <1>5 DEF StreamInv, Places
  <2>2. bd[s + i].buf /= Unset
    BY <1>2, <1>5 DEF Looped
  <2>3. QED  BY <1>1, <1>3, <1>4, <1>5, <2>1, <2>2
<1>8. OnLoop'
  <2>1. cur' \in s .. s + BdCount' - 1
    BY <1>3, <1>4, <1>5, <1>7, SameBlocks
  <2>2. \A k \in 0 .. BdCount' - 1 : bd'[s + k].buf /= Unset
    BY <1>6, SameBlocks
  <2>3. s \in Starts'
    BY SameBlocks
  <2>4. QED  BY <1>1, <2>1, <2>2, <2>3 DEF OnLoop, Looped
<1>9. j % BlockCount = ((i % BlockCount) + 1) % BlockCount
  <2>1. CASE BdCount = BlockCount
    <3>1. i % BlockCount = i
      BY <1>3, <1>5, <2>1
    <3>2. QED  BY <1>3, <1>5, <2>1, <3>1
  <2>2. CASE BlockCount = 1
    <3>1. \A k \in Int : k % 1 = 0
      OBVIOUS
    <3>2. QED  BY <1>3, <1>5, <2>2, <3>1
  <2>3. QED  BY <1>3, <2>1, <2>2
<1>10. bd[cur].buf = i % BlockCount /\ bd'[cur'].buf = j % BlockCount
  BY <1>5, <1>6, <1>7
<1>11. Stream!NextBlock
  BY <1>1, <1>9, <1>10, SameBlocks DEF Stream!NextBlock
<1>12. QED  BY <1>8, <1>11 DEF Stream!Next

LEMMA StreamNext ==
    ASSUME ChainInv, StreamInv, [Next]_vars
    PROVE  StreamInv' /\ [Stream!Next]_Stream!vars
<1>1. ChannelInv /\ Places' /\ Kept /\ Aligned'
  BY PlacesNext, AlignedNext DEF ChainInv, StreamInv
<1>2. OnLoop' /\ [Stream!Next]_Stream!vars
  <2>1. CASE Commit  BY <1>1, <2>1, CommitStreams
  <2>2. CASE Engine  BY <1>1, <2>2, EngineStreams
  <2>3. CASE ~Commit /\ ~Engine
    <3>1. cur' = cur /\ go' = go /\ preHead' = preHead
      BY <2>3 DEF Next, Proceed, Call, CleanFromHw, BdRingFromHw, CleanFree, BdRingFree,
         AllocBds, BdRingAlloc, Describe, RaiseLength, WriteBd, Raise, vars, ringVars, pre
    <3>2. CASE go
      <4>1. /\ \E s \in Starts' : cur' \in s .. s + BdCount' - 1 /\ Looped(s)'
            /\ bd'[cur].buf = bd[cur].buf
        BY <1>1, <3>1, <3>2, LoopKept DEF StreamInv
      <4>2. QED
        BY <3>1, <3>2, <4>1, SameBlocks DEF OnLoop, Stream!vars
    <3>3. CASE ~go
      BY <3>1, <3>3, SameBlocks DEF StreamInv, OnLoop, Stream!vars
    <3>4. QED  BY <3>2, <3>3
  <2>4. QED  BY <2>1, <2>2, <2>3
<1>3. QED  BY <1>1, <1>2 DEF StreamInv

LEMMA StreamInit ==
    ASSUME Init
    PROVE  StreamInv /\ Stream!Init
<1>1. ChannelInv
  <2>1. Locals
    BY BdCountFacts, RingAssumption DEF Init, Locals, Bd
  <2>2. QED  BY <2>1, BordersInit DEF Init, ChannelInv
<1>2. \A b \in Bd : bd[b].buf = Unset /\ bd[b].next = NextBd(b)
  BY DEF Init, RingInit
<1>3. Places
  <2> SUFFICES ASSUME NEW s \in Starts, NEW i \in 0 .. BdCount - 1
               PROVE  /\ bd[s + i].buf = Unset
                      /\ i < BdCount - 1 => bd[s + i].next = s + i + 1
    BY DEF Places
  <2>1. /\ s + i \in Bd /\ s \in Nat /\ s + BdCount <= AllCnt
        /\ BdCount \in Nat /\ AllCnt \in Nat
    BY <1>1, ChainPlace, ChainFacts
  <2>2. i < BdCount - 1 => NextBd(s + i) = s + i + 1
    BY <2>1 DEF NextBd
  <2>3. QED  BY <1>2, <2>1, <2>2
<1>4. Aligned
  <2>1. 0 \in Starts
    BY <1>1, ChainFacts DEF Starts, Bd
  <2>2. QED  BY <2>1 DEF Init, RingInit, Aligned
<1>5. OnLoop
  BY DEF Init, RingInit, OnLoop
<1>6. Stream!Init
  BY <1>1, ChainFacts DEF Init, RingInit, Stream!Init
<1>7. QED  BY <1>3, <1>4, <1>5, <1>6 DEF StreamInv

\* startDmaTransfer implements the promise of the channel for rings and maps of
\* any size: once the first chain is started the FPGA gets the blocks in order
\* without a gap, though later calls describe descriptors the engine is cycling
\* over and others are taken back under it.
THEOREM ChannelStreams == Spec => StreamSpec
<1>1. ChainInv /\ StreamInv /\ [Next]_vars => StreamInv' /\ [Stream!Next]_Stream!vars
  BY StreamNext
<1>2. Init => StreamInv /\ Stream!Init
  BY StreamInit
<1>3. QED
  BY <1>1, <1>2, ChainInvariant, PTL DEF Spec, StreamSpec, Stream!Spec
=============================================================================
