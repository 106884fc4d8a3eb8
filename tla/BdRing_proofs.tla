---------------------------- MODULE BdRing_proofs ----------------------------
(***************************************************************************)
(* For every ring size and every client: the driver's operations keep the  *)
(* ring well typed and divided into its four groups, and hand back only    *)
(* descriptors the engine has completed.                                   *)
(***************************************************************************)
EXTENDS BdRing, TLAPS

\* A seek by at most a whole turn stays in the ring (XAXIDMA_RING_SEEKAHEAD).
LEMMA AheadInRing ==
    ASSUME NEW b \in Bd, NEW n \in 0 .. AllCnt
    PROVE  Ahead(b, n) \in Bd
  BY RingAssumption DEF Ahead, Bd

\* FromHw returns no more BDs than the hardware group holds.
LEMMA FromHwBound ==
    ASSUME RingTypeOK, NEW n \in Nat, NEW limit \in Nat, FromHwReturns(n, limit)
    PROVE  n \in 0 .. hwCnt
  BY RingAssumption DEF FromHwReturns, WholePackets, RingTypeOK

\* The counters, group borders and pointers alone: what the engine and the
\* writes to descriptors leave as it is.
Borders == /\ RingTypeOK
           /\ RingPartition

LEMMA BordersInit == RingInit => Borders
<1> SUFFICES ASSUME RingInit PROVE Borders
  OBVIOUS
<1>1. bd \in [Bd -> Descriptors]
  <2>1. \A b \in Bd : NextBd(b) \in Bd
    BY RingAssumption DEF NextBd, Bd
  <2>2. QED  BY <2>1 DEF RingInit, Descriptors, Ctrl
<1>2. /\ freeHead = 0 /\ preHead = 0 /\ hwHead = 0 /\ postHead = 0
      /\ freeCnt = AllCnt /\ preCnt = 0 /\ hwCnt = 0 /\ postCnt = 0
      /\ hwTail = 0 /\ cur = 0 /\ go = FALSE
  BY DEF RingInit
<1>3. RingTypeOK
  <2>1. go \in BOOLEAN
    BY <1>2, Zenon
  <2>2. 0 \in Bd /\ 0 \in 0 .. AllCnt /\ AllCnt \in 0 .. AllCnt
        /\ 0 \in 0 .. AllCnt + Separation
    BY RingAssumption DEF Bd
  <2>3. QED  BY <1>1, <1>2, <2>1, <2>2, Zenon DEF RingTypeOK
<1>4. RingPartition
  BY <1>2, RingAssumption DEF RingPartition, Ahead
<1>5. QED  BY <1>3, <1>4 DEF Borders

LEMMA AllocStep ==
    ASSUME Borders, NEW n \in 1 .. AllCnt, BdRingAlloc(n)
    PROVE  Borders'
  BY RingAssumption
  DEF Borders, RingTypeOK, RingPartition, BdRingAlloc, AllocFails, hw, post, Ahead, Bd

LEMMA UnAllocStep ==
    ASSUME Borders, NEW n \in 1 .. AllCnt, NEW b \in Bd, BdRingUnAlloc(n, b)
    PROVE  Borders'
  BY RingAssumption
  DEF Borders, RingTypeOK, RingPartition, BdRingUnAlloc, hw, post, Ahead, Back, Bd

LEMMA WriteStep ==
    ASSUME Borders, NEW b \in Bd, NEW next \in Bd, NEW ctrl \in Ctrl,
           NEW buf \in Buffers \cup {Unset}, WriteBd(b, ctrl, buf, next)
    PROVE  Borders'
  BY DEF Borders, RingTypeOK, RingPartition, WriteBd, free, pre, hw, post,
         Ahead, Descriptors

LEMMA ToHwStep ==
    ASSUME Borders, NEW n \in 1 .. AllCnt, NEW b \in Bd, BdRingToHw(n, b)
    PROVE  Borders'
<1>1. Ahead(b, n - 1) \in Bd
  BY AheadInRing, RingAssumption
<1>2. hwTail' \in 0 .. AllCnt + Separation
  BY <1>1, RingAssumption DEF BdRingToHw, HwTailAfter, Bd
<1>3. bd' \in [Bd -> Descriptors]
  BY DEF BdRingToHw, Borders, RingTypeOK, Descriptors
<1>4. /\ n <= preCnt /\ preHead = b
      /\ preHead' = Ahead(preHead, n) /\ preCnt' = preCnt - n
      /\ hwCnt' = hwCnt + n /\ go' = TRUE
      /\ UNCHANGED <<freeHead, freeCnt, hwHead, postHead, postCnt, cur>>
  BY RingAssumption DEF Borders, RingTypeOK, BdRingToHw, ToHwFails, free, post
<1>5. RingTypeOK'
  <2>1. go' \in BOOLEAN
    BY <1>4, Zenon
  <2>2. preHead' \in Bd /\ preCnt' \in 0 .. AllCnt
    BY <1>4, RingAssumption DEF Borders, RingTypeOK, Ahead, Bd
  <2>3. hwCnt' \in 0 .. AllCnt
    BY <1>4, RingAssumption DEF Borders, RingTypeOK, RingPartition
  <2>4. UNCHANGED <<freeHead, freeCnt, hwHead, postHead, postCnt, cur, Bd>>
    BY <1>4 DEF Bd
  <2>5. QED
    BY <1>2, <1>3, <2>1, <2>2, <2>3, <2>4 DEF Borders, RingTypeOK
<1>6. RingPartition'
  BY <1>4, RingAssumption DEF Borders, RingTypeOK, RingPartition, Ahead, Bd
<1>7. QED  BY <1>5, <1>6 DEF Borders

LEMMA RefusedStep ==
    ASSUME Borders, NEW n \in 1 .. AllCnt, NEW b \in Bd, ToHwRefusedLate(n, b)
    PROVE  Borders'
<1>1. bd' \in [Bd -> Descriptors]
  BY DEF ToHwRefusedLate, Borders, RingTypeOK, Descriptors
<1>2. UNCHANGED <<free, pre, hw, post, hwTail, cur, go>>
  BY DEF ToHwRefusedLate
<1>3. QED
  BY <1>1, <1>2 DEF Borders, RingTypeOK, RingPartition, free, pre, hw, post, Ahead

LEMMA FromHwStep ==
    ASSUME Borders, NEW n \in 0 .. AllCnt, NEW limit \in 1 .. AllCnt,
           BdRingFromHw(n, limit)
    PROVE  Borders'
<1>1. n \in 0 .. hwCnt
  BY FromHwBound, RingAssumption DEF Borders, BdRingFromHw
<1>2. QED
  BY <1>1, RingAssumption
  DEF Borders, RingTypeOK, RingPartition, BdRingFromHw, free, pre, Ahead, Bd

LEMMA FreeStep ==
    ASSUME Borders, NEW n \in 1 .. AllCnt, NEW b \in Bd, BdRingFree(n, b)
    PROVE  Borders'
  BY RingAssumption
  DEF Borders, RingTypeOK, RingPartition, BdRingFree, pre, hw, Ahead, Bd

LEMMA EngineKeepsBorders ==
    ASSUME Borders, EngineStep
    PROVE  Borders'
<1>1. bd' \in [Bd -> Descriptors] /\ cur' \in Bd
  BY DEF Borders, RingTypeOK, EngineStep, Descriptors
<1>2. UNCHANGED <<free, pre, hw, post, hwTail, go>>
  BY DEF EngineStep
<1>3. QED
  BY <1>1, <1>2 DEF Borders, RingTypeOK, RingPartition, free, pre, hw, post, Ahead

LEMMA BordersNext == Borders /\ [RingNext]_ringVars => Borders'
<1> SUFFICES ASSUME Borders, [RingNext]_ringVars PROVE Borders'
  OBVIOUS
<1>1. CASE RingNext
  BY <1>1, AllocStep, UnAllocStep, WriteStep, ToHwStep, RefusedStep, FromHwStep,
     FreeStep, EngineKeepsBorders DEF RingNext
<1>2. CASE UNCHANGED ringVars
  BY <1>2 DEF Borders, RingTypeOK, RingPartition, ringVars, free, pre, hw, post, Ahead
<1>3. QED  BY <1>1, <1>2

\* Every pointer stays in the ring, every counter in its range.
THEOREM RingTypeCorrect == RingSpec => []RingTypeOK
<1>1. Borders => RingTypeOK  BY DEF Borders
<1>2. QED  BY <1>1, BordersInit, BordersNext, PTL DEF RingSpec

\* The counters add up and the four groups follow each other around the ring,
\* whatever sequence of driver calls is made.
THEOREM RingPartitioned == RingSpec => []RingPartition
<1>1. Borders => RingPartition  BY DEF Borders
<1>2. QED  BY <1>1, BordersInit, BordersNext, PTL DEF RingSpec

-----------------------------------------------------------------------------
\* No BD of the post-work group is in the pre-work group.
LEMMA GroupsDisjoint ==
    ASSUME Borders, NEW j \in 0 .. postCnt - 1, NEW i \in 0 .. preCnt - 1
    PROVE  Ahead(postHead, j) /= Ahead(preHead, i)
  BY RingAssumption DEF Borders, RingTypeOK, RingPartition, Ahead, Bd

LEMMA PostInRing ==
    ASSUME Borders, NEW j \in 0 .. postCnt - 1
    PROVE  Ahead(postHead, j) \in Bd
  BY RingAssumption DEF Borders, RingTypeOK, Ahead, Bd

LEMMA ToHwKeepsPost ==
    ASSUME Borders, PostCompleted, NEW n \in 1 .. AllCnt, NEW b \in Bd,
           BdRingToHw(n, b)
    PROVE  PostCompleted'
<1> SUFFICES ASSUME NEW j \in 0 .. postCnt - 1
             PROVE  bd'[Ahead(postHead, j)].cmplt
  BY DEF PostCompleted, BdRingToHw, post, Ahead
<1> DEFINE x == Ahead(postHead, j)
<1>1. x \in Bd
  BY PostInRing
<1>2. n <= preCnt /\ b = preHead
  BY RingAssumption DEF Borders, RingTypeOK, BdRingToHw, ToHwFails
<1>3. \A i \in 0 .. n - 1 : x /= Ahead(b, i)
  BY <1>2, GroupsDisjoint, RingAssumption DEF Borders, RingTypeOK
<1>4. bd[x].cmplt
  BY DEF PostCompleted
<1>5. bd'[x] = [bd[x] EXCEPT !.cmplt = @ /\ \A i \in 0 .. n - 1 : x /= Ahead(b, i)]
  BY <1>1 DEF BdRingToHw
<1>6. bd[x] \in Descriptors
  BY <1>1 DEF Borders, RingTypeOK
<1>7. QED  BY <1>3, <1>4, <1>5, <1>6 DEF Descriptors

LEMMA RefusedKeepsPost ==
    ASSUME Borders, PostCompleted, NEW n \in 1 .. AllCnt, NEW b \in Bd,
           ToHwRefusedLate(n, b)
    PROVE  PostCompleted'
<1> SUFFICES ASSUME NEW j \in 0 .. postCnt - 1
             PROVE  bd'[Ahead(postHead, j)].cmplt
  BY DEF PostCompleted, ToHwRefusedLate, post, Ahead
<1> DEFINE x == Ahead(postHead, j)
<1>1. x \in Bd
  BY PostInRing
<1>2. n <= preCnt /\ b = preHead
  BY RingAssumption DEF Borders, RingTypeOK, ToHwRefusedLate
<1>3. \A i \in 0 .. n - 2 : x /= Ahead(b, i)
  BY <1>2, GroupsDisjoint, RingAssumption DEF Borders, RingTypeOK
<1>4. bd[x].cmplt
  BY DEF PostCompleted
<1>5. bd'[x] = [bd[x] EXCEPT !.cmplt = @ /\ \A i \in 0 .. n - 2 : x /= Ahead(b, i)]
  BY <1>1 DEF ToHwRefusedLate
<1>6. bd[x] \in Descriptors
  BY <1>1 DEF Borders, RingTypeOK
<1>7. QED  BY <1>3, <1>4, <1>5, <1>6 DEF Descriptors

LEMMA FromHwKeepsPost ==
    ASSUME Borders, PostCompleted, NEW n \in 0 .. AllCnt,
           NEW limit \in 1 .. AllCnt, BdRingFromHw(n, limit)
    PROVE  PostCompleted'
<1>0. /\ postCnt' = postCnt + n /\ UNCHANGED <<bd, postHead>>
      /\ postCnt \in Int
  BY RingAssumption DEF BdRingFromHw, Borders, RingTypeOK
<1> SUFFICES ASSUME NEW j \in 0 .. postCnt + n - 1
             PROVE  bd[Ahead(postHead, j)].cmplt
  BY <1>0 DEF PostCompleted, Ahead
<1>1. n \in 0 .. hwCnt
  BY FromHwBound, RingAssumption DEF Borders, BdRingFromHw
<1>2. CASE j < postCnt
  BY <1>2, RingAssumption DEF PostCompleted, Borders, RingTypeOK
<1>3. CASE j >= postCnt
  <2>1. Ahead(postHead, j) = Ahead(hwHead, j - postCnt)
    BY <1>1, <1>3, RingAssumption
    DEF Borders, RingTypeOK, RingPartition, Ahead, Bd
  <2>2. j - postCnt \in 0 .. n - 1 /\ n /= 0
    BY <1>1, <1>3, RingAssumption DEF Borders, RingTypeOK
  <2>3. n \in WholePackets(limit)
    BY <2>2 DEF BdRingFromHw, FromHwReturns
  <2>4. QED  BY <2>1, <2>2, <2>3 DEF WholePackets
<1>4. QED
  BY <1>2, <1>3, RingAssumption DEF Borders, RingTypeOK

LEMMA FreeKeepsPost ==
    ASSUME Borders, PostCompleted, NEW n \in 1 .. AllCnt, NEW b \in Bd,
           BdRingFree(n, b)
    PROVE  PostCompleted'
<1> SUFFICES ASSUME NEW j \in 0 .. postCnt - n - 1
             PROVE  bd[Ahead(Ahead(postHead, n), j)].cmplt
  BY DEF PostCompleted, BdRingFree, Ahead
<1>1. Ahead(Ahead(postHead, n), j) = Ahead(postHead, j + n)
  BY RingAssumption DEF Borders, RingTypeOK, RingPartition, BdRingFree, Ahead, Bd
<1>2. j + n \in 0 .. postCnt - 1
  BY RingAssumption DEF Borders, RingTypeOK
<1>3. QED  BY <1>1, <1>2 DEF PostCompleted

LEMMA EngineKeepsPost ==
    ASSUME Borders, PostCompleted, EngineStep
    PROVE  PostCompleted'
<1> SUFFICES ASSUME NEW j \in 0 .. postCnt - 1
             PROVE  bd'[Ahead(postHead, j)].cmplt
  BY DEF PostCompleted, EngineStep, post, Ahead
<1>1. Ahead(postHead, j) \in Bd
  BY PostInRing
<1>2. bd[Ahead(postHead, j)].cmplt
  BY DEF PostCompleted
<1>3. QED
  BY <1>1, <1>2 DEF EngineStep, Borders, RingTypeOK, Descriptors

LEMMA WriteKeepsPost ==
    ASSUME Borders, PostCompleted, NEW b \in Bd, NEW ctrl, NEW buf, NEW next,
           WriteBd(b, ctrl, buf, next)
    PROVE  PostCompleted'
<1> SUFFICES ASSUME NEW j \in 0 .. postCnt - 1
             PROVE  bd'[Ahead(postHead, j)].cmplt
  BY DEF PostCompleted, WriteBd, post, Ahead
<1>1. Ahead(postHead, j) \in Bd
  BY PostInRing
<1>2. bd[Ahead(postHead, j)].cmplt
  BY DEF PostCompleted
<1>3. QED
  BY <1>1, <1>2 DEF WriteBd, Borders, RingTypeOK, Descriptors

\* What FromHw has handed back has been through the engine, in every state.
THEOREM ReturnedBdsCompleted == RingSpec => []PostCompleted
<1> DEFINE Inv == Borders /\ PostCompleted
<1>1. RingInit => Inv
  <2>1. RingInit => PostCompleted
    BY DEF RingInit, PostCompleted
  <2>2. QED  BY <2>1, BordersInit
<1>2. Inv /\ [RingNext]_ringVars => Inv'
  <2> SUFFICES ASSUME Inv, [RingNext]_ringVars PROVE PostCompleted'
    BY BordersNext
  <2>1. CASE \E n \in 1 .. AllCnt : BdRingAlloc(n)
    BY <2>1 DEF BdRingAlloc, PostCompleted, post, Ahead
  <2>2. CASE \E n \in 1 .. AllCnt, b \in Bd : BdRingUnAlloc(n, b)
    BY <2>2 DEF BdRingUnAlloc, PostCompleted, post, Ahead
  <2>3. CASE \E b, next \in Bd, ctrl \in Ctrl, buf \in Buffers \cup {Unset} :
                InGroup(b, preHead, preCnt) /\ WriteBd(b, ctrl, buf, next)
    BY <2>3, WriteKeepsPost
  <2>4. CASE \E n \in 1 .. AllCnt, b \in Bd : BdRingToHw(n, b)
    BY <2>4, ToHwKeepsPost
  <2>4a. CASE \E n \in 1 .. AllCnt, b \in Bd : ToHwRefusedLate(n, b)
    BY <2>4a, RefusedKeepsPost
  <2>5. CASE \E n \in 0 .. AllCnt, limit \in 1 .. AllCnt : BdRingFromHw(n, limit)
    BY <2>5, FromHwKeepsPost
  <2>6. CASE \E n \in 1 .. AllCnt, b \in Bd : BdRingFree(n, b)
    BY <2>6, FreeKeepsPost
  <2>7. CASE EngineStep
    BY <2>7, EngineKeepsPost
  <2>8. CASE UNCHANGED ringVars
    BY <2>8 DEF ringVars, post, PostCompleted, Ahead
  <2>9. QED
    BY <2>1, <2>2, <2>3, <2>4, <2>4a, <2>5, <2>6, <2>7, <2>8 DEF RingNext
<1>3. Inv => PostCompleted  OBVIOUS
<1>4. QED  BY <1>1, <1>2, <1>3, PTL DEF RingSpec
=============================================================================
