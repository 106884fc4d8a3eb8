-------------------------- MODULE MapQueue_proofs ---------------------------
(***************************************************************************)
(* For every queue size, file and timing: the loader overwrites only what  *)
(* has been played, what it loads is in its place in time, and (Playback)  *)
(* what the FPGA plays while the stream goes on from where it was.         *)
(***************************************************************************)
EXTENDS Playback, CircularSlots, SequenceTheorems, TLAPS

-----------------------------------------------------------------------------
(* Types, and where the loader is.                                         *)

\* While a call of the RPC thread is under way the simulator is disabled; and
\* the FPGA never goes back during a pass of the loader.
LoaderBehind ==
    /\ enabled \/ loaded => rpc = "idle"
    /\ ~enabled => currArp = 0
    /\ enabled /\ pc = "loop" => arp <= currArp /\ currArp - arp <= age
    /\ age <= currArp /\ age <= MaxLag

Inv == TypeOK /\ LoaderBehind

LEMMA MapFacts ==
    ASSUME map \in Maps, fileBlocks \in FileSizes
    PROVE  /\ BlkCnt \in Nat \ {0} /\ MaxLag \in Nat
           /\ HeaderBlocks \in Nat \ {0} /\ fileBlocks \in 0 .. HeaderBlocks
           /\ MaxArp \in Nat /\ Wrap \in Nat /\ Positions \cup {0} \subseteq Nat
           /\ MaxArp + 2 * BlkCnt < Wrap
  BY QueueAssumption DEF BlkCnt, MaxLag

LEMMA InvInit == Init => Inv
<1> SUFFICES ASSUME Init PROVE Inv
  OBVIOUS
<1>1. AllBlank \in [Slots -> Blocks \cup {Blank, Torn}]
  BY DEF AllBlank
<1>2. BlkCnt \in Nat \ {0} /\ MaxLag \in Nat /\ MaxArp \in Nat
  BY MapFacts DEF Init
<1>3. {enabled, good, loaded} \subseteq BOOLEAN
  BY DEF Init
<1>4. TypeOK
  BY <1>1, <1>2, <1>3 DEF Init, TypeOK
<1>5. LoaderBehind
  BY <1>2 DEF Init, LoaderBehind
<1>6. QED
  BY <1>4, <1>5 DEF Inv

LEMMA InvNext == Inv /\ [Next]_vars => Inv'
<1> SUFFICES ASSUME Inv, [Next]_vars PROVE Inv'
  OBVIOUS
<1>0. map' = map /\ fileBlocks' = fileBlocks  BY DEF Next, vars, given
<1>f. /\ BlkCnt \in Nat \ {0} /\ MaxLag \in Nat
      /\ HeaderBlocks \in Nat \ {0} /\ fileBlocks \in 0 .. HeaderBlocks
      /\ MaxArp \in Nat /\ Wrap \in Nat /\ Positions \cup {0} \subseteq Nat
      /\ MaxArp + 2 * BlkCnt < Wrap
  BY MapFacts DEF Inv, TypeOK
<1>b. AllBlank \in [Slots -> Blocks \cup {Blank, Torn}]
  BY DEF AllBlank
<1>g. BlkCnt' = BlkCnt /\ MaxLag' = MaxLag /\ Slots' = Slots
  BY <1>0 DEF BlkCnt, MaxLag, Slots
<1> USE <1>0, <1>f, <1>g DEF Inv, TypeOK, LoaderBehind
<1>1. ASSUME NEW call \in {"disable", "reset", "loadMap"}, Stop(call)
      PROVE  Inv'
  <2>1. enabled' \in BOOLEAN /\ loaded' \in BOOLEAN /\ ~enabled'
    BY <1>1 DEF Stop
  <2>2. QED
    BY <1>1, <2>1 DEF Stop, queue, loader
<1>2. CASE DisableReturns
  BY <1>2 DEF DisableReturns, fpga, queue, loader
<1>3. CASE ResetReturns
  BY <1>3, <1>b DEF ResetReturns, fpga, loader
<1>4. ASSUME NEW position \in Positions, LoadMap(position)
      PROVE  Inv'
  BY <1>4, <1>b DEF LoadMap, fpga
<1>5. CASE Enable
  BY <1>5 DEF Enable, queue
<1>6. CASE Wake
  BY <1>6 DEF Wake, fpga, queue
<1>7. CASE BeginPass
  BY <1>7 DEF BeginPass, fpga, queue
<1>8. CASE LoadBlock
  <2>1. loadIdx + 1 \in 0 .. MaxArp + 2 * BlkCnt
    BY <1>8 DEF LoadBlock, MayLoad, QueueSize, Minus
  <2>2. runs + 1 \in 0 .. BlkCnt
    BY <1>8 DEF LoadBlock, MayLoad
  <2>3. good => BlockFilePos \in Blocks
    BY DEF BlockFilePos, Least, Blocks
  <2>4. mem' \in [Slots -> Blocks \cup {Blank, Torn}]
    BY <1>8, <2>3 DEF LoadBlock
  <2>5. good' \in BOOLEAN
    BY <1>8 DEF LoadBlock
  <2>6. QED
    BY <1>8, <2>1, <2>2, <2>4, <2>5 DEF LoadBlock, fpga
<1>9. CASE EndPass
  <2>1. age' \in 0 .. MaxArp /\ age' <= currArp /\ age' <= MaxLag
    BY <1>9 DEF EndPass
  <2>2. loaded' \in BOOLEAN
    BY <1>9 DEF EndPass
  <2>3. QED
    BY <1>9, <2>1, <2>2 DEF EndPass, queue
<1>10. CASE Rotate
  BY <1>10 DEF Rotate, queue, loader
<1>11. CASE UNCHANGED vars
  BY <1>11 DEF vars, fpga, queue, loader, given
<1>12. QED
  BY <1>1, <1>2, <1>3, <1>4, <1>5, <1>6, <1>7, <1>8, <1>9, <1>10, <1>11 DEF Next

THEOREM MapQueueTypes == Spec => []TypeOK
<1>1. Inv => TypeOK
  BY DEF Inv
<1>2. QED
  BY <1>1, InvInit, InvNext, PTL DEF Spec

\* Blocks not yet played are never overwritten: the u32 difference with the
\* copy of the FPGA's position can be out of date, but only to the safe side.
THEOREM UnplayedNeverOverwritten == Spec => OverwritesOnlyPlayed
<1> DEFINE Overwrite == enabled /\ mem' /= mem => loadIdx < currArp + BlkCnt
<1>1. ASSUME Inv, LoadBlock, enabled
      PROVE  loadIdx < currArp + BlkCnt
  <2>1. Minus(loadIdx, arp) < BlkCnt /\ arp <= currArp
    BY <1>1 DEF LoadBlock, MayLoad, QueueSize, Inv, LoaderBehind
  <2>2. /\ loadIdx \in Nat /\ arp \in Nat /\ currArp \in Nat
        /\ arp < Wrap /\ BlkCnt \in Nat
    BY <1>1, MapFacts DEF Inv, TypeOK
  <2>3. QED
    BY <2>1, <2>2, QueueAssumption DEF Minus
<1>2. Inv /\ [Next]_vars => [Overwrite]_vars
  <2> SUFFICES ASSUME Inv, Next, enabled, mem' /= mem
               PROVE  loadIdx < currArp + BlkCnt
    OBVIOUS
  <2>1. rpc = "idle"
    BY DEF Inv, LoaderBehind
  <2>2. LoadBlock
    BY <2>1 DEF Next, Stop, DisableReturns, ResetReturns, LoadMap, Enable, Wake,
       BeginPass, EndPass, Rotate, queue
  <2>3. QED  BY <1>1, <2>2
<1>3. QED
  BY <1>2, InvInit, InvNext, PTL DEF Spec, OverwritesOnlyPlayed

-----------------------------------------------------------------------------
(* The blocks of a run that was loaded.                                    *)

\* The last BlkCnt rotations the loader has served are in their slots, as far as
\* the file has their blocks; a stream that failed has met the end of the file.
Window ==
    \A r \in Nat :
        r < loadIdx /\ loadIdx <= r + BlkCnt /\ Expected(r) < fileBlocks =>
            mem[r % BlkCnt] = Expected(r)
Failed == ~good => Expected(loadIdx) >= fileBlocks

\* The loader is at most a queue ahead of the FPGA.
Ahead ==
    /\ loadIdx <= currArp + BlkCnt
    /\ pc = "loop" => arp <= currArp

\* The last pass, finished age rotations ago, filled the queue; a pass under way
\* has counted its blocks from the rotation it saw.
Filled ==
    MaxLag <= BlkCnt =>
        /\ loaded => loadIdx >= currArp - age + BlkCnt
        /\ pc = "loop" => loadIdx >= arp + runs

Loading == loaded \/ rpc = "load"
LiveInv == Loading => Window /\ Failed /\ Ahead /\ Filled

LEMMA ExpectedFacts ==
    ASSUME fromArp \in Nat, HeaderBlocks \in Nat \ {0},
           NEW r \in Nat, NEW s \in Nat, r <= s
    PROVE  Expected(r) \in Nat /\ Expected(r) <= Expected(s)
  BY DEF Expected, Least

LEMMA LiveInit == Init => LiveInv
  BY DEF Init, LiveInv, Loading

LEMMA LiveNext == Inv /\ LiveInv /\ [Next]_vars => LiveInv'
<1> SUFFICES ASSUME Inv, LiveInv, [Next]_vars, Loading' PROVE (Window /\ Failed /\ Ahead /\ Filled)'
  BY DEF LiveInv
<1>0. map' = map /\ fileBlocks' = fileBlocks  BY DEF Next, vars, given
<1>f. /\ BlkCnt \in Nat \ {0} /\ MaxLag \in Nat
      /\ HeaderBlocks \in Nat \ {0} /\ fileBlocks \in 0 .. HeaderBlocks
      /\ MaxArp \in Nat /\ Wrap \in Nat /\ Positions \cup {0} \subseteq Nat
      /\ MaxArp + 2 * BlkCnt < Wrap
  BY MapFacts DEF Inv, TypeOK
<1>g. BlkCnt' = BlkCnt /\ MaxLag' = MaxLag
  BY <1>0 DEF BlkCnt, MaxLag
<1>t. /\ currArp \in Nat /\ arp \in Nat /\ loadIdx \in Nat /\ age \in Nat
      /\ runs \in Nat /\ fromArp \in Nat /\ currArp <= MaxArp /\ arp <= MaxArp
      /\ mem \in [Slots -> Blocks \cup {Blank, Torn}]
  BY <1>f DEF Inv, TypeOK
<1>o. LoaderBehind
  BY DEF Inv
<1> USE <1>0, <1>f, <1>g, <1>t
<1>1. ASSUME NEW call \in {"disable", "reset", "loadMap"}, Stop(call)
      PROVE  FALSE
  BY <1>1 DEF Stop, Loading
<1>2. CASE DisableReturns \/ ResetReturns
  BY <1>2, <1>o DEF DisableReturns, ResetReturns, Loading, LoaderBehind
<1>4. ASSUME NEW position \in Positions, LoadMap(position)
      PROVE  (Window /\ Failed /\ Ahead /\ Filled)'
  <2>1. ~loaded /\ ~enabled
    BY <1>4, <1>o DEF LoadMap, LoaderBehind
  <2>2. QED
    BY <2>1, <1>4, <1>o DEF LoadMap, LoaderBehind, Window, Failed, Ahead, Filled, fpga
\* What follows from the state before, and survives a step that loads nothing.
<1>l. ASSUME UNCHANGED <<fromArp, loadIdx, mem>>, Loading
      PROVE  /\ Failed /\ Ahead /\ Filled /\ Window'
             /\ Expected(loadIdx)' = Expected(loadIdx)
  <2>1. Window /\ Failed /\ Ahead /\ Filled
    BY <1>l DEF LiveInv
  <2>2. Window' /\ Expected(loadIdx)' = Expected(loadIdx)
    BY <2>1, <1>l DEF Window, Expected
  <2>3. QED  BY <2>1, <2>2
<1>5. CASE Enable
  <2>1. Loading
    BY <1>5 DEF Enable, Loading
  <2>2. QED
    BY <2>1, <1>l, <1>5 DEF Enable, Failed, Ahead, Filled, queue
<1>6. CASE Wake
  <2>1. Loading
    BY <1>6 DEF Wake, Loading
  <2>2. QED
    BY <2>1, <1>l, <1>6 DEF Wake, Failed, Ahead, Filled, queue, fpga
<1>7. CASE BeginPass
  <2>1. Loading
    BY <1>7 DEF BeginPass, Loading
  <2>2. Filled
    BY <2>1, <1>l, <1>7 DEF BeginPass, queue
  <2>3. MaxLag <= BlkCnt => loadIdx >= currArp
    <3>1. CASE loaded
      BY <2>2, <3>1, <1>o DEF Filled, LoaderBehind
    <3>2. CASE rpc = "load"
      BY <3>2, <1>o DEF LoaderBehind
    <3>3. QED  BY <3>1, <3>2, <2>1 DEF Loading
  <2>4. QED
    BY <2>1, <2>3, <1>l, <1>7 DEF BeginPass, Failed, Ahead, Filled, queue, fpga
<1>8. CASE LoadBlock
  <2>1. Window /\ Failed /\ Ahead /\ Filled
    BY <1>8 DEF LoadBlock, LiveInv, Loading
  <2>2. loadIdx - arp < BlkCnt
    BY <1>8, MapFacts DEF LoadBlock, MayLoad, QueueSize, Minus
  <2>3. Ahead' /\ Filled'
    BY <2>1, <2>2, <1>8 DEF LoadBlock, Ahead, Filled, fpga
  <2>4. Expected(loadIdx) \in Nat /\ Expected(loadIdx)' \in Nat
        /\ Expected(loadIdx) <= Expected(loadIdx)'
    BY <1>8 DEF LoadBlock, Expected, Least
  <2>5. good => BlockFilePos = Expected(loadIdx)
    BY DEF BlockFilePos, Expected
  <2>a. good' <=> good /\ BlockFilePos < fileBlocks
    BY <1>8, Zenon DEF LoadBlock
  <2>b. good => Expected(loadIdx) \in Int /\ (good' <=> Expected(loadIdx) < fileBlocks)
    BY <2>4, <2>5, <2>a
  <2>6. Failed'
    <3>1. ~good' => Expected(loadIdx) >= fileBlocks
      BY <2>1, <2>4, <2>b DEF Failed
    <3>2. QED  BY <3>1, <2>4 DEF Failed
  <2>7. ASSUME NEW r \in Nat, r < loadIdx + 1, loadIdx + 1 <= r + BlkCnt,
               Expected(r) < fileBlocks
        PROVE  mem'[r % BlkCnt] = Expected(r)
    <3>1. r % BlkCnt \in Slots /\ loadIdx % BlkCnt \in Slots
      BY DivMod DEF Slots
    <3>2. CASE r = loadIdx
      <4>1. good /\ good'
        BY <2>1, <2>4, <2>7, <2>b, <3>2 DEF Failed
      <4>2. mem' = [mem EXCEPT ![loadIdx % BlkCnt] = BlockFilePos]
        BY <4>1, <1>8 DEF LoadBlock
      <4>3. QED  BY <2>5, <3>1, <3>2, <4>1, <4>2
    <3>3. CASE r < loadIdx
      <4>1. r % BlkCnt /= loadIdx % BlkCnt
        BY <2>7, <3>3, SlotsDiffer
      <4>2. mem'[r % BlkCnt] = mem[r % BlkCnt]
        BY <3>1, <4>1, <1>8 DEF LoadBlock
      <4>3. mem[r % BlkCnt] = Expected(r)
        BY <2>1, <2>7, <3>3 DEF Window
      <4>4. QED  BY <4>2, <4>3
    <3>4. QED  BY <2>7, <3>2, <3>3
  <2>8. Window'
    BY <2>7, <1>8 DEF LoadBlock, Window, Expected
  <2>9. QED  BY <2>3, <2>6, <2>8
<1>9. CASE EndPass
  <2>1. Loading /\ UNCHANGED <<fromArp, loadIdx, mem>>
    BY <1>9 DEF EndPass, Loading, queue
  <2>2. Failed /\ Ahead /\ Filled /\ Window'
    BY <2>1, <1>l
  <2>3. Failed' /\ Ahead'
    BY <2>1, <2>2, <1>l, <1>9 DEF EndPass, Failed, Ahead, queue
  <2>4. MaxLag <= BlkCnt => loadIdx >= arp + BlkCnt
    BY <2>2, <1>9 DEF EndPass, MayLoad, QueueSize, Minus, Filled
  <2>5. Filled'
    BY <2>1, <2>4, <1>9, <1>o DEF EndPass, Filled, queue, LoaderBehind
  <2>6. QED  BY <2>2, <2>3, <2>5
<1>10. CASE Rotate
  <2>1. Loading
    BY <1>10 DEF Rotate, Loading, loader
  <2>2. UNCHANGED <<fromArp, loadIdx, mem>>
    BY <1>10 DEF Rotate, queue
  <2>3. Failed /\ Ahead /\ Filled /\ Window' /\ Expected(loadIdx)' = Expected(loadIdx)
    BY <2>1, <2>2, <1>l
  <2>4. QED
    BY <2>1, <2>2, <2>3, <1>10, <1>o
       DEF Rotate, Failed, Ahead, Filled, queue, loader, LoaderBehind
<1>11. CASE UNCHANGED vars
  <2>1. Loading /\ UNCHANGED <<fromArp, loadIdx, mem>>
    BY <1>11 DEF vars, queue, Loading
  <2>2. QED
    BY <2>1, <1>l, <1>11 DEF vars, Failed, Ahead, Filled, queue, loader, fpga
<1>12. QED
  BY <1>1, <1>2, <1>4, <1>5, <1>6, <1>7, <1>8, <1>9, <1>10, <1>11 DEF Next

LEMMA LiveInvariant == Spec => [](Inv /\ LiveInv)
<1>1. Init => Inv /\ LiveInv
  BY InvInit, LiveInit
<1>2. Inv /\ LiveInv /\ [Next]_vars => (Inv /\ LiveInv)'
  BY InvNext, LiveNext
<1>3. QED
  BY <1>1, <1>2, PTL DEF Spec

LEMMA InPlaceThen ==
    ASSUME Inv, LiveInv, Playing, MaxLag < BlkCnt
    PROVE  InPlace(currArp)
<1>1. BlkCnt \in Nat \ {0} /\ MaxLag \in Nat
  BY MapFacts DEF Inv, TypeOK
<1>2. /\ currArp \in Nat /\ loadIdx \in Nat /\ age \in Nat /\ age <= MaxLag
      /\ Expected(currArp) < fileBlocks
  BY DEF Inv, TypeOK, LoaderBehind, Playing
<1>3. Window /\ Ahead /\ Filled /\ loaded
  BY DEF LiveInv, Loading, Playing
<1>4. currArp < loadIdx /\ loadIdx <= currArp + BlkCnt
  BY <1>1, <1>2, <1>3 DEF Ahead, Filled
<1>5. QED
  BY <1>2, <1>3, <1>4 DEF Window, InPlace

\* A queue that may be drained to the last block holds that of an earlier
\* rotation, no older than the delay.
LEMMA InPlaceOrLastThen ==
    ASSUME Inv, LiveInv, Playing, MaxLag <= BlkCnt
    PROVE  \E back \in 0 .. MaxLag : InPlace(currArp - back)
<1>1. BlkCnt \in Nat \ {0} /\ MaxLag \in Nat
      /\ HeaderBlocks \in Nat \ {0} /\ fileBlocks \in 0 .. HeaderBlocks
  BY MapFacts DEF Inv, TypeOK
<1>2. /\ currArp \in Nat /\ loadIdx \in Nat /\ age \in Nat /\ age <= MaxLag
      /\ age <= currArp /\ Expected(currArp) < fileBlocks
  BY DEF Inv, TypeOK, LoaderBehind, Playing
<1>f. fromArp \in Nat
  BY QueueAssumption DEF Inv, TypeOK
<1>3. Window /\ Ahead /\ Filled /\ loaded
  BY DEF LiveInv, Loading, Playing
<1>4. currArp <= loadIdx /\ loadIdx >= BlkCnt /\ loadIdx <= currArp + BlkCnt
      /\ (loadIdx = currArp => MaxLag = BlkCnt)
  BY <1>1, <1>2, <1>3 DEF Ahead, Filled
<1>5. CASE currArp < loadIdx
  <2>1. InPlace(currArp)
    BY <1>2, <1>3, <1>4, <1>5 DEF Window, InPlace
  <2>2. 0 \in 0 .. MaxLag /\ currArp - 0 = currArp
    BY <1>1, <1>2
  <2>3. QED  BY <2>1, <2>2
<1>6. CASE loadIdx = currArp
  <2> DEFINE r == currArp - BlkCnt
  <2>1. r \in Nat /\ r < loadIdx /\ loadIdx <= r + BlkCnt /\ r <= currArp
    BY <1>1, <1>2, <1>4, <1>6
  <2>2. Expected(r) < fileBlocks
    BY <2>1, <1>1, <1>2, <1>f DEF Expected, Least
  <2>3. mem[r % BlkCnt] = Expected(r)
    BY <2>1, <2>2, <1>3 DEF Window
  <2>4. r % BlkCnt = currArp % BlkCnt
    BY <1>1, <1>2, <2>1, SlotsRepeat
  <2>5. InPlace(r)
    BY <2>3, <2>4 DEF InPlace
  <2>6. BlkCnt \in 0 .. MaxLag
    BY <1>1, <1>4, <1>6
  <2>7. QED  BY <2>5, <2>6
<1>7. QED  BY <1>2, <1>4, <1>5, <1>6

\* The block of a rotation, or (clutter) of one it follows, is in its place,
\* whatever the size of the queue, the file, and the order in which rotations and
\* steps of loadNextTargetMap and loadNextClutterMap fall.
THEOREM QueueInPlace == Spec => []PlaysExpected
<1>1. Inv /\ LiveInv => PlaysExpected
  BY InPlaceThen, InPlaceOrLastThen DEF PlaysExpected
<1>2. QED  BY <1>1, LiveInvariant, PTL

-----------------------------------------------------------------------------
(* Refinement: the queue of a loaded run is the FIFO of BlockFifo.         *)

Loaded == loadIdx - currArp
Contents(a, n) == [k \in 1 .. n |-> Expected(a + k - 1)]

LEMMA ContentsType ==
    ASSUME NEW n \in Nat, NEW a \in Nat
    PROVE  /\ Contents(a, n) \in Seq({Expected(i) : i \in Nat})
           /\ Len(Contents(a, n)) = n
<1> DEFINE S == {Expected(i) : i \in Nat}
<1>1. \A k \in 1 .. n : Expected(a + k - 1) \in S
  OBVIOUS
<1> HIDE DEF S
<1>2. Contents(a, n) \in [1 .. n -> S]
  BY <1>1 DEF Contents
<1>3. QED  BY <1>2 DEF S

LEMMA ContentsAppend ==
    ASSUME NEW n \in Nat, NEW a \in Nat
    PROVE  Append(Contents(a, n), Expected(a + n)) = Contents(a, n + 1)
<1>1. Contents(a, n) \in Seq({Expected(i) : i \in Nat}) /\ Len(Contents(a, n)) = n
  BY ContentsType
<1>2. Len(Append(Contents(a, n), Expected(a + n))) = n + 1
  BY <1>1
<1>3. QED  BY <1>1, <1>2 DEF Contents

LEMMA ContentsTail ==
    ASSUME NEW n \in Nat, n > 0, NEW a \in Nat
    PROVE  Tail(Contents(a, n)) = Contents(a + 1, n - 1)
<1> DEFINE t == Tail(Contents(a, n))
<1>1. Contents(a, n) \in Seq({Expected(i) : i \in Nat}) /\ Len(Contents(a, n)) = n
  BY ContentsType
<1>2. \A k \in 1 .. n - 1 : t[k] = Contents(a, n)[k + 1]
  BY <1>1
<1>3. Len(t) = n - 1 /\ t \in Seq({Expected(i) : i \in Nat})
  BY <1>1
<1>4. DOMAIN t = 1 .. n - 1 /\ t = [k \in DOMAIN t |-> t[k]]
  BY <1>3, LenProperties
<1>5. \A k \in 1 .. n - 1 : t[k] = Expected(a + 1 + k - 1)
  BY <1>2 DEF Contents
<1> HIDE DEF t
<1>6. t = [k \in 1 .. n - 1 |-> Expected(a + 1 + k - 1)]
  BY <1>4, <1>5
<1>7. QED  BY <1>6 DEF Contents, t

LEMMA FifoContents ==
    ASSUME Inv, LiveInv, Live
    PROVE  /\ Loaded \in 0 .. BlkCnt
           /\ [k \in 1 .. Loaded |-> mem[(currArp + k - 1) % BlkCnt]] = Contents(currArp, Loaded)
           /\ loaded => Loaded >= BlkCnt - age
           /\ Loading
<1>1. BlkCnt \in Nat \ {0} /\ MaxLag \in Nat /\ HeaderBlocks \in Nat \ {0}
      /\ Positions \cup {0} \subseteq Nat
  BY MapFacts DEF Inv, TypeOK
<1>2. /\ currArp \in Nat /\ loadIdx \in Nat /\ age \in Nat /\ age <= MaxLag
      /\ fromArp \in Nat /\ (rpc = "load" => currArp = 0)
  BY <1>1 DEF Inv, TypeOK, LoaderBehind
<1>3. Loading /\ Window /\ Ahead /\ Filled
      /\ fileBlocks = HeaderBlocks /\ BlkCnt > MaxLag
  BY DEF LiveInv, Loading, Live
<1>4. loaded => Loaded >= BlkCnt - age
  BY <1>1, <1>2, <1>3 DEF Loaded, Filled
<1>5. Loaded \in 0 .. BlkCnt
  BY <1>1, <1>2, <1>3, <1>4 DEF Loaded, Ahead, Loading
<1>6. ASSUME NEW k \in 1 .. Loaded
      PROVE  mem[(currArp + k - 1) % BlkCnt] = Expected(currArp + k - 1)
  <2> DEFINE r == currArp + k - 1
  <2>1. r \in Nat /\ r < loadIdx /\ loadIdx <= r + BlkCnt
    BY <1>1, <1>2, <1>5 DEF Loaded
  <2>2. Expected(r) < fileBlocks
    BY <2>1, <1>1, <1>2, <1>3 DEF Expected, Least
  <2>3. QED  BY <2>1, <2>2, <1>3 DEF Window
<1>7. QED
  BY <1>3, <1>4, <1>5, <1>6 DEF Contents

LEMMA FifoInit == Init => Fifo!Init
<1> SUFFICES ASSUME Init PROVE Fifo!Init
  OBVIOUS
<1>1. ~Live
  BY DEF Init, Live
<1>2. BlkCnt \in Nat \ {0}
  BY MapFacts DEF Init
<1>3. QED
  BY <1>1, <1>2 DEF Fifo!Init

LEMMA FifoNext == Inv /\ LiveInv /\ [Next]_vars => [Fifo!Next]_Fifo!vars
<1> SUFFICES ASSUME Inv, LiveInv, [Next]_vars PROVE [Fifo!Next]_Fifo!vars
  OBVIOUS
<1>0. map' = map /\ fileBlocks' = fileBlocks  BY DEF Next, vars, given
<1>f. /\ BlkCnt \in Nat \ {0} /\ MaxLag \in Nat /\ HeaderBlocks \in Nat \ {0}
      /\ MaxArp \in Nat /\ Wrap \in Nat /\ Positions \cup {0} \subseteq Nat
      /\ MaxArp + 2 * BlkCnt < Wrap
  BY MapFacts DEF Inv, TypeOK
<1>g. BlkCnt' = BlkCnt /\ MaxLag' = MaxLag
  BY <1>0 DEF BlkCnt, MaxLag
<1>t. /\ currArp \in Nat /\ arp \in Nat /\ loadIdx \in Nat /\ age \in Nat
      /\ fromArp \in Nat /\ arp <= MaxArp
  BY <1>f DEF Inv, TypeOK
<1>o. LoaderBehind
  BY DEF Inv
<1> USE <1>0, <1>f, <1>g, <1>t
\* A run that is not loaded has an empty FIFO.
<1>d. ASSUME ~Live, ~Live' PROVE UNCHANGED Fifo!vars
  BY <1>d DEF Fifo!vars
<1>r. ASSUME ~Live' PROVE [Fifo!Next]_Fifo!vars
  BY <1>r DEF Fifo!Next, Fifo!Restart
<1>l. ASSUME Live, Live', UNCHANGED <<fromArp, currArp, loadIdx, mem>>
      PROVE  UNCHANGED Fifo!vars
  BY <1>l DEF Fifo!vars
<1>1. ASSUME NEW call \in {"disable", "reset", "loadMap"}, Stop(call)
      PROVE  ~Live'
  BY <1>1 DEF Stop, Live
<1>2. CASE DisableReturns \/ ResetReturns
  <2>1. ~Live'
    BY <1>2, <1>o DEF DisableReturns, ResetReturns, Live, LoaderBehind
  <2>2. QED  BY <2>1, <1>r
<1>4. ASSUME NEW position \in Positions, LoadMap(position), Live'
      PROVE  Fifo!Next
  <2>1. currArp = 0 /\ currArp' = 0 /\ loadIdx' = 0 /\ fromArp' = position
    BY <1>4, <1>o DEF LoadMap, LoaderBehind, fpga
  <2>2. [k \in 1 .. 0 |-> mem'[(0 + k - 1) % BlkCnt]] = << >>
    OBVIOUS
  <2>3. QED
    BY <2>1, <2>2, <1>4 DEF Fifo!Next, Fifo!Restart
<1>5. CASE Enable \/ Wake \/ BeginPass \/ EndPass
  <2>1. UNCHANGED <<fromArp, currArp, loadIdx, mem>>
    BY <1>5 DEF Enable, Wake, BeginPass, EndPass, fpga, queue
  <2>2. Live' => (loaded \/ rpc = "load") /\ BlkCnt > MaxLag /\ fileBlocks = HeaderBlocks
    BY <1>5 DEF Enable, Wake, BeginPass, EndPass, Live
  <2>3. QED
    BY <2>1, <2>2, <1>l, <1>r DEF Live
<1>8. ASSUME LoadBlock, Live
      PROVE  Fifo!Next
  <2> DEFINE n == Loaded
  <2>1. /\ n \in 0 .. BlkCnt /\ Loading
        /\ [k \in 1 .. n |-> mem[(currArp + k - 1) % BlkCnt]] = Contents(currArp, n)
    BY <1>8, FifoContents
  <2>2. Live' /\ currArp' = currArp /\ fromArp' = fromArp /\ loadIdx' = loadIdx + 1
    BY <1>8 DEF LoadBlock, Live, fpga
  <2>3. loadIdx - arp < BlkCnt /\ arp <= currArp
    BY <1>8, <2>1 DEF LoadBlock, MayLoad, QueueSize, Minus, LiveInv, Ahead
  <2>4. n < BlkCnt
    BY <2>1, <2>3 DEF Loaded
  <2>5. Window' /\ Ahead'
    BY <2>2, LiveNext DEF LiveInv, Loading, Live
  <2>6. ASSUME NEW k \in 1 .. n + 1
        PROVE  mem'[(currArp + k - 1) % BlkCnt] = Expected(currArp + k - 1)
    <3> DEFINE r == currArp + k - 1
    <3>1. r \in Nat /\ r < loadIdx + 1 /\ loadIdx + 1 <= r + BlkCnt
      BY <2>1, <2>4 DEF Loaded
    <3>2. Expected(r) < fileBlocks
      BY <3>1, <1>8 DEF Expected, Least, Live
    <3>3. QED  BY <3>1, <3>2, <2>2, <2>5 DEF Window, Expected
  <2>7. [k \in 1 .. n + 1 |-> mem'[(currArp + k - 1) % BlkCnt]]
          = Append(Contents(currArp, n), Expected(currArp + n))
    <3>1. [k \in 1 .. n + 1 |-> mem'[(currArp + k - 1) % BlkCnt]] = Contents(currArp, n + 1)
      BY <2>6 DEF Contents
    <3>2. n \in Nat
      BY <2>1
    <3>3. QED  BY <3>1, <3>2, ContentsAppend
  <2>8. (loadIdx - currArp)' = n + 1 /\ Len(Contents(currArp, n)) = n
    BY <2>1, <2>2, ContentsType DEF Loaded
  <2>9. Fifo!BlockOf(currArp + n) = Expected(currArp + n)
    BY <1>8, <2>1 DEF Fifo!BlockOf, Expected, Least
  <2>10. Fifo!Load
    BY <1>8, <2>1, <2>2, <2>4, <2>7, <2>8, <2>9 DEF Fifo!Load, Loaded
  <2>11. QED  BY <2>10 DEF Fifo!Next
<1>9. ASSUME Rotate, Live
      PROVE  Fifo!Next
  <2> DEFINE n == Loaded
  <2>1. /\ n \in 0 .. BlkCnt /\ (loaded => n >= BlkCnt - age)
        /\ [k \in 1 .. n |-> mem[(currArp + k - 1) % BlkCnt]] = Contents(currArp, n)
    BY <1>9, FifoContents
  <2>2. /\ Live' /\ currArp' = currArp + 1 /\ fromArp' = fromArp
        /\ loadIdx' = loadIdx /\ mem' = mem
    BY <1>9 DEF Rotate, Live, queue
  <2>3. loaded /\ n > 1
    BY <1>9, <2>1, <1>o DEF Rotate, Live, LoaderBehind
  <2>4. \A k \in 1 .. n - 1 :
          mem[(currArp + 1 + k - 1) % BlkCnt] = Expected(currArp + 1 + k - 1)
    <3>1. ASSUME NEW k \in 1 .. n - 1
          PROVE  mem[(currArp + 1 + k - 1) % BlkCnt] = Expected(currArp + 1 + k - 1)
      <4>1. k + 1 \in 1 .. n /\ currArp + 1 + k - 1 = currArp + (k + 1) - 1
        BY <2>1
      <4>2. QED  BY <4>1, <2>1 DEF Contents
    <3>2. QED  BY <3>1
  <2>5. [k \in 1 .. n - 1 |-> mem[(currArp + 1 + k - 1) % BlkCnt]]
          = Tail(Contents(currArp, n))
    <3>1. [k \in 1 .. n - 1 |-> mem[(currArp + 1 + k - 1) % BlkCnt]]
            = Contents(currArp + 1, n - 1)
      BY <2>4 DEF Contents
    <3>2. n \in Nat /\ n > 0
      BY <2>1, <2>3
    <3>3. QED  BY <3>1, <3>2, ContentsTail
  <2>6. (loadIdx - currArp)' = n - 1 /\ Len(Contents(currArp, n)) = n
    <3>1. n \in Nat
      BY <2>1
    <3>2. Len(Contents(currArp, n)) = n
      BY <3>1, ContentsType
    <3>3. QED  BY <2>2, <3>1, <3>2 DEF Loaded
  <2>7. Fifo!Play
    BY <1>9, <2>1, <2>2, <2>3, <2>5, <2>6 DEF Fifo!Play, Loaded
  <2>8. QED  BY <2>7 DEF Fifo!Next
<1>10. CASE LoadBlock \/ Rotate
  <2>1. CASE Live  BY <2>1, <1>8, <1>9, <1>10
  <2>2. CASE ~Live
    <3>1. ~Live'
      BY <1>10, <2>2 DEF LoadBlock, Rotate, Live
    <3>2. QED  BY <3>1, <1>r
  <2>3. QED  BY <2>1, <2>2
<1>11. CASE UNCHANGED vars
  <2>1. UNCHANGED <<fromArp, currArp, loadIdx, mem>> /\ Live' = Live
    BY <1>11 DEF vars, fpga, queue, Live
  <2>2. QED  BY <2>1, <1>l, <1>r
<1>12. QED
  BY <1>1, <1>2, <1>4, <1>5, <1>10, <1>11, <1>r DEF Next

\* The circular memory, its two indices and the loader implement a FIFO.
THEOREM QueueIsFifo == Spec => FifoSpec
<1>1. Spec => Fifo!Init /\ [][Fifo!Next]_Fifo!vars
  BY LiveInvariant, FifoInit, FifoNext, PTL DEF Spec
<1>2. QED
  BY <1>1 DEF FifoSpec, Fifo!Spec

-----------------------------------------------------------------------------
(* Playback.                                                               *)

\* Any K rotations in a row use every slot.
LEMMA SlotsCovered ==
    ASSUME NEW K \in Int, K > 0, NEW n \in Int, NEW s \in 0 .. K - 1
    PROVE  \E r \in n - K .. n - 1 : r % K = s
<1> DEFINE d == (n - 1 - s) % K
           q == (n - 1 - s) \div K
           r == n - 1 - d
<1>1. d \in 0 .. K - 1 /\ q \in Int /\ n - 1 - s = K * q + d /\ K * q \in Int
  BY DivMod
<1> HIDE DEF d, q
<1>2. r \in n - K .. n - 1 /\ r = K * q + s
  BY <1>1
<1>3. r % K = s
  BY <1>1, <1>2, Remainder
<1>4. QED  BY <1>2, <1>3

-----------------------------------------------------------------------------
\* Each step of the stream's model is a step of the software's, or none of it.
LEMMA PlayRefines == PlaySpec => Init /\ [][Next]_vars
<1>1. PlayInit => Init
  BY DEF PlayInit
<1>2. [PlayNext]_playVars => [Next]_vars
  BY DEF PlayNext, PlayStop, PlayRotate, PlayEnable, Fetch, FetchAhead, Next, playVars
<1>3. QED  BY <1>1, <1>2, PTL DEF PlaySpec

LEMMA PlayInvariant == PlaySpec => [](Inv /\ LiveInv)
<1>1. Init => Inv /\ LiveInv
  BY InvInit, LiveInit
<1>2. Inv /\ LiveInv /\ [Next]_vars => (Inv /\ LiveInv)'
  BY InvNext, LiveNext
<1>3. QED  BY <1>1, <1>2, PlayRefines, PTL

\* The steps that leave the stream where it is.
Elsewhere ==
    DisableReturns \/ ResetReturns \/ (\E position \in Positions : LoadMap(position))
        \/ Wake \/ BeginPass \/ LoadBlock \/ EndPass

LEMMA PlaySteps ==
    ASSUME [PlayNext]_playVars
    PROVE  /\ UNCHANGED <<given, early>>
           /\ \/ \E call \in {"disable", "reset", "loadMap"} : PlayStop(call)
              \/ PlayRotate \/ PlayEnable \/ Fetch \/ FetchAhead
              \/ Elsewhere /\ UNCHANGED played
              \/ UNCHANGED <<vars, played>>
  BY DEF PlayNext, playVars, vars, Elsewhere

InStep ==
    /\ slot \in 0 .. BlkCnt - 1
    /\ ~interrupted => slot = currArp % BlkCnt

LEMMA InStepInit == PlayInit => InStep
<1> SUFFICES ASSUME PlayInit PROVE InStep
  OBVIOUS
<1>1. BlkCnt \in Nat \ {0} /\ slot = 0 /\ currArp = 0
  BY MapFacts DEF PlayInit, Init
<1>2. (BlkCnt * 0 + 0) % BlkCnt = 0 /\ BlkCnt * 0 + 0 = 0
  BY <1>1, Remainder
<1>3. QED  BY <1>1, <1>2 DEF InStep

LEMMA InStepNext == Inv /\ InStep /\ [PlayNext]_playVars => InStep'
<1> SUFFICES ASSUME Inv, InStep, [PlayNext]_playVars PROVE InStep'
  OBVIOUS
<1>1. BlkCnt \in Nat \ {0} /\ currArp \in Nat /\ (~enabled => currArp = 0)
  BY MapFacts DEF Inv, TypeOK, LoaderBehind
<1>2. BlkCnt' = BlkCnt
  BY PlaySteps DEF given, BlkCnt
<1>3. Turns!Following = (slot + 1) % BlkCnt /\ Turns!Following \in 0 .. BlkCnt - 1
  BY <1>1, DivMod DEF Turns!Following, InStep
<1>4. ASSUME NEW call \in {"disable", "reset", "loadMap"}, PlayStop(call)
      PROVE  InStep'
  BY <1>1, <1>2, <1>3, <1>4 DEF PlayStop, Stop, InStep
<1>5. CASE PlayRotate
  <2>1. currArp' = currArp + 1 /\ slot' = Turns!Following /\ interrupted' = interrupted
    BY <1>5 DEF PlayRotate, Rotate, Turns!Turn
  <2>2. (currArp + 1) % BlkCnt = ((currArp % BlkCnt) + 1) % BlkCnt
    <3>1. BlkCnt \in Int /\ BlkCnt > 0 /\ currArp \in Int
      BY <1>1
    <3>2. QED  BY <3>1, NextRound, Zenon
  <2>3. QED  BY <1>2, <1>3, <2>1, <2>2 DEF InStep
<1>6. ASSUME UNCHANGED <<currArp, slot, interrupted>> PROVE InStep'
  BY <1>2, <1>6 DEF InStep
<1>7. CASE PlayEnable \/ Fetch \/ FetchAhead \/ UNCHANGED <<vars, played>>
  BY <1>6, <1>7 DEF PlayEnable, Enable, Fetch, FetchAhead, vars, fpga, played
<1>8. CASE Elsewhere /\ UNCHANGED played
  BY <1>6, <1>8 DEF Elsewhere, DisableReturns, ResetReturns, LoadMap, Wake, BeginPass,
     LoadBlock, EndPass, fpga, played
<1>9. QED
  BY <1>4, <1>5, <1>7, <1>8, PlaySteps

\* What the buffers hold: nothing before the engine has run, and so nothing old
\* in the first run; of a block that is not being played only an early slice.
Buffers ==
    /\ ~streaming => piece = Unread /\ ahead = Unread
    /\ ahead /= Unread => early
    /\ ~interrupted /\ streaming => enabled
    /\ ~enabled => ahead = Unread /\ (early \/ piece = Unread)

\* In the first run, the slices of the blocks the software counts on.
FirstPieces ==
    enabled /\ loaded /\ ~interrupted /\ MaxLag < BlkCnt =>
        /\ Expected(currArp) < fileBlocks => piece \in {Expected(currArp), Unread}
        /\ Expected(currArp + 1) < fileBlocks => ahead \in {Expected(currArp + 1), Unread}

\* In any run, slices of blocks of this run, but for those kept from before.
\* Reading ahead of a rotation there is one rotation less to be behind.
NearPieces ==
    enabled /\ loaded /\ fileBlocks = HeaderBlocks /\ MaxLag <= BlkCnt =>
        /\ piece = Unread \/ OfThisRun(piece) \/ (early /\ interrupted /\ currArp = 0)
        /\ \/ ahead = Unread
           \/ \E r \in currArp + 1 - MaxLag .. currArp + BlkCnt - 1 : ahead = Expected(r)

InBuffers == Buffers /\ FirstPieces /\ NearPieces

\* Whatever slot the stream is in, the last rotation loaded into it is of this run.
LEMMA SlotOfThisRun ==
    ASSUME Inv, LiveInv, enabled, loaded, fileBlocks = HeaderBlocks, MaxLag <= BlkCnt,
           NEW s \in 0 .. BlkCnt - 1
    PROVE  \E r \in currArp - age .. currArp + BlkCnt - 1 : mem[s] = Expected(r)
<1>1. BlkCnt \in Nat \ {0} /\ MaxLag \in Nat
      /\ HeaderBlocks \in Nat \ {0} /\ fileBlocks \in 0 .. HeaderBlocks
  BY MapFacts DEF Inv, TypeOK
<1>2. /\ currArp \in Nat /\ loadIdx \in Nat /\ age \in Nat
      /\ age <= MaxLag /\ age <= currArp
  BY DEF Inv, TypeOK, LoaderBehind
<1>3. fromArp \in Nat
  BY QueueAssumption DEF Inv, TypeOK
<1>4. Window /\ loadIdx <= currArp + BlkCnt /\ loadIdx >= currArp - age + BlkCnt
  BY DEF LiveInv, Loading, Ahead, Filled
<1>5. PICK r \in loadIdx - BlkCnt .. loadIdx - 1 : r % BlkCnt = s
  <2>1. BlkCnt \in Int /\ BlkCnt > 0 /\ loadIdx \in Int /\ s \in 0 .. BlkCnt - 1
    BY <1>1, <1>2
  <2>2. QED  BY <2>1, SlotsCovered, Zenon
<1>6. r \in Nat /\ r < loadIdx /\ loadIdx <= r + BlkCnt
      /\ r \in currArp - age .. currArp + BlkCnt - 1
  BY <1>1, <1>2, <1>4
<1>7. Expected(r) < fileBlocks
  BY <1>1, <1>3, <1>6 DEF Expected, Least
<1>8. QED  BY <1>4, <1>5, <1>6, <1>7 DEF Window

\* What can be read of a rotation that has begun, or ahead of the next one.
LEMMA ReadInFirstRun ==
    ASSUME Inv, LiveInv, InStep, enabled, loaded, ~interrupted, MaxLag < BlkCnt
    PROVE  /\ Expected(currArp) < fileBlocks => mem[slot] = Expected(currArp)
           /\ age < MaxLag /\ Expected(currArp + 1) < fileBlocks =>
                  mem[Turns!Following] = Expected(currArp + 1)
<1>1. BlkCnt \in Nat \ {0} /\ MaxLag \in Nat
  BY MapFacts DEF Inv, TypeOK
<1>2. currArp \in Nat /\ loadIdx \in Nat /\ age \in Nat /\ age <= MaxLag
  BY DEF Inv, TypeOK, LoaderBehind
<1>3. Window /\ loadIdx <= currArp + BlkCnt /\ loadIdx >= currArp - age + BlkCnt
  BY <1>1 DEF LiveInv, Loading, Ahead, Filled
<1>4. slot = currArp % BlkCnt
  BY DEF InStep
<1>5. Expected(currArp) < fileBlocks => mem[slot] = Expected(currArp)
  BY <1>1, <1>2, <1>3, <1>4 DEF Window
<1>6. Turns!Following = (currArp + 1) % BlkCnt
  <2>1. BlkCnt \in Int /\ BlkCnt > 0 /\ currArp \in Int
    BY <1>1, <1>2
  <2>2. (currArp + 1) % BlkCnt = ((currArp % BlkCnt) + 1) % BlkCnt
    BY <2>1, NextRound, Zenon
  <2>3. QED  BY <1>4, <2>2 DEF Turns!Following
<1>7. ASSUME age < MaxLag, Expected(currArp + 1) < fileBlocks
      PROVE  mem[Turns!Following] = Expected(currArp + 1)
  <2>1. currArp + 1 \in Nat /\ currArp + 1 < loadIdx /\ loadIdx <= (currArp + 1) + BlkCnt
    BY <1>1, <1>2, <1>3, <1>7
  <2>2. QED  BY <1>3, <1>6, <1>7, <2>1 DEF Window
<1>8. QED  BY <1>5, <1>7

LEMMA PiecesInit == PlayInit => InBuffers
  BY DEF PlayInit, Init, InBuffers, Buffers, FirstPieces, NearPieces

LEMMA PiecesNext == Inv /\ LiveInv /\ InStep /\ InBuffers /\ [PlayNext]_playVars => InBuffers'
<1> SUFFICES ASSUME Inv, LiveInv, InStep, InBuffers, [PlayNext]_playVars PROVE InBuffers'
  OBVIOUS
<1>1. /\ BlkCnt \in Nat \ {0} /\ MaxLag \in Nat
      /\ currArp \in Nat /\ age \in Nat /\ age <= MaxLag
  BY MapFacts DEF Inv, TypeOK, LoaderBehind
<1>2. UNCHANGED <<map, fileBlocks, early>> /\ BlkCnt' = BlkCnt /\ MaxLag' = MaxLag
  BY PlaySteps DEF given, BlkCnt, MaxLag
<1>3. Buffers /\ FirstPieces /\ NearPieces
  BY DEF InBuffers
<1>4. ASSUME UNCHANGED fromArp PROVE \A r : Expected(r)' = Expected(r)
  BY <1>4 DEF Expected
<1>5. ASSUME UNCHANGED <<fromArp, currArp>>
      PROVE  \A x : OfThisRun(x)' <=> OfThisRun(x)
  BY <1>2, <1>4, <1>5 DEF OfThisRun
<1>6. ASSUME NEW call \in {"disable", "reset", "loadMap"}, PlayStop(call)
      PROVE  InBuffers'
  <2>1. ~enabled' /\ streaming' = streaming /\ interrupted' = (interrupted \/ enabled)
    BY <1>6 DEF PlayStop, Stop
  <2>2. ahead' = Unread /\ (early \/ piece' = Unread) /\ (~streaming => piece' = Unread)
    <3>1. CASE enabled /\ piece' = ahead /\ ahead' = Unread
      <4>1. early \/ ahead = Unread
        BY <1>3 DEF Buffers
      <4>2. QED  BY <1>3, <3>1, <4>1 DEF Buffers
    <3>2. CASE enabled /\ ahead = Unread /\ (early \/ piece = Unread) /\ UNCHANGED <<piece, ahead>>
      BY <1>3, <3>2 DEF Buffers
    <3>3. CASE ~enabled /\ UNCHANGED <<piece, ahead>>
      BY <1>3, <3>3 DEF Buffers
    <3>4. QED  BY <1>6, <3>1, <3>2, <3>3 DEF PlayStop
  <2>3. Buffers'
    BY <1>2, <1>3, <2>1, <2>2 DEF Buffers
  <2>4. QED  BY <2>1, <2>3 DEF InBuffers, FirstPieces, NearPieces
<1>7. CASE PlayRotate
  <2>1. /\ enabled /\ enabled' = enabled /\ loaded' = loaded /\ fromArp' = fromArp
        /\ currArp' = currArp + 1 /\ piece' = ahead /\ ahead' = Unread
        /\ interrupted' = interrupted /\ streaming' = streaming /\ piece /= Unread
    BY <1>7 DEF PlayRotate, Rotate, queue
  <2>2. Buffers'
    BY <1>3, <2>1 DEF Buffers
  <2>3. FirstPieces'
    BY <1>2, <1>3, <1>4, <2>1 DEF FirstPieces
  <2>4. NearPieces'
    <3>1. SUFFICES ASSUME enabled, loaded, fileBlocks = HeaderBlocks, MaxLag <= BlkCnt,
                          ahead /= Unread
                   PROVE  OfThisRun(piece)'
      BY <1>2, <2>1 DEF NearPieces
    <3>2. PICK r \in currArp + 1 - MaxLag .. currArp + BlkCnt - 1 : ahead = Expected(r)
      BY <1>3, <3>1 DEF NearPieces
    <3>3. r \in (currArp + 1) - MaxLag .. (currArp + 1) + BlkCnt - 1
      BY <1>1, <3>2
    <3>4. QED  BY <1>2, <1>4, <2>1, <3>2, <3>3 DEF OfThisRun
  <2>5. QED  BY <2>2, <2>3, <2>4 DEF InBuffers
<1>8. CASE PlayEnable
  <2>1. /\ enabled' /\ streaming' /\ rpc = "idle"
        /\ UNCHANGED <<loaded, fromArp, currArp, piece, ahead, interrupted>>
    BY <1>8 DEF PlayEnable, Enable, queue
  <2>2. CASE enabled
    <3>1. Buffers' /\ FirstPieces' /\ NearPieces'
      BY <1>2, <1>3, <1>4, <1>5, <2>1, <2>2 DEF Buffers, FirstPieces, NearPieces
    <3>2. QED  BY <3>1 DEF InBuffers
  <2>3. CASE ~enabled
    <3>1. currArp = 0 /\ ahead = Unread /\ (early \/ piece = Unread)
          /\ (~interrupted => piece = Unread)
      BY <1>3, <2>3 DEF Buffers, Inv, LoaderBehind
    <3>2. Buffers' /\ FirstPieces' /\ NearPieces'
      BY <1>2, <2>1, <3>1 DEF Buffers, FirstPieces, NearPieces
    <3>3. QED  BY <3>2 DEF InBuffers
  <2>4. QED  BY <2>2, <2>3
<1>9. CASE Fetch
  <2>1. /\ streaming /\ (early \/ enabled) /\ piece' = mem[slot]
        /\ UNCHANGED <<enabled, loaded, fromArp, currArp, ahead, interrupted, streaming>>
    BY <1>9 DEF Fetch, vars, fpga, queue
  <2>2. Buffers'
    BY <1>2, <1>3, <2>1 DEF Buffers
  <2>3. FirstPieces'
    BY <1>2, <1>3, <1>4, <2>1, ReadInFirstRun DEF FirstPieces
  <2>4. NearPieces'
    <3>1. SUFFICES ASSUME enabled, loaded, fileBlocks = HeaderBlocks, MaxLag <= BlkCnt
                   PROVE  OfThisRun(mem[slot])
      BY <1>2, <1>3, <1>4, <1>5, <2>1 DEF NearPieces
    <3>2. PICK r \in currArp - age .. currArp + BlkCnt - 1 : mem[slot] = Expected(r)
      BY <3>1, SlotOfThisRun DEF InStep
    <3>3. r \in currArp - MaxLag .. currArp + BlkCnt - 1
      BY <1>1, <3>2
    <3>4. QED  BY <3>2, <3>3 DEF OfThisRun
  <2>5. QED  BY <2>2, <2>3, <2>4 DEF InBuffers
<1>10. CASE FetchAhead
  <2>1. /\ enabled /\ early /\ piece /= Unread
        /\ age < MaxLag /\ ahead' = mem[Turns!Following]
        /\ UNCHANGED <<enabled, loaded, fromArp, currArp, piece, interrupted, streaming>>
    BY <1>10 DEF FetchAhead, vars, fpga, queue
  <2>2. Buffers'
    BY <1>2, <1>3, <2>1 DEF Buffers
  <2>3. FirstPieces'
    BY <1>2, <1>3, <1>4, <2>1, ReadInFirstRun DEF FirstPieces
  <2>4. NearPieces'
    <3>1. SUFFICES ASSUME loaded, fileBlocks = HeaderBlocks, MaxLag <= BlkCnt
                   PROVE  \E r \in currArp + 1 - MaxLag .. currArp + BlkCnt - 1 :
                              mem[Turns!Following] = Expected(r)
      BY <1>2, <1>3, <1>4, <1>5, <2>1 DEF NearPieces
    <3>2. Turns!Following \in 0 .. BlkCnt - 1
      BY <1>1, DivMod DEF Turns!Following, InStep
    <3>3. PICK r \in currArp - age .. currArp + BlkCnt - 1 :
              mem[Turns!Following] = Expected(r)
      BY <2>1, <3>1, <3>2, SlotOfThisRun
    <3>4. r \in currArp + 1 - MaxLag .. currArp + BlkCnt - 1
      BY <1>1, <2>1, <3>3
    <3>5. QED  BY <3>3, <3>4
  <2>5. QED  BY <2>2, <2>3, <2>4 DEF InBuffers
<1>11. CASE Elsewhere /\ UNCHANGED played
  <2>1. UNCHANGED <<piece, ahead, interrupted, streaming, enabled, currArp>>
    BY <1>11 DEF Elsewhere, DisableReturns, ResetReturns, LoadMap, Wake, BeginPass,
       LoadBlock, EndPass, fpga, played
  <2>2. Buffers'
    BY <1>2, <1>3, <2>1 DEF Buffers
  <2>3. enabled => UNCHANGED <<loaded, fromArp>>
    BY <1>11 DEF Elsewhere, DisableReturns, ResetReturns, LoadMap, Wake, BeginPass,
       LoadBlock, EndPass, queue, Inv, LoaderBehind
  <2>4. FirstPieces' /\ NearPieces'
    BY <1>2, <1>3, <1>4, <1>5, <2>1, <2>3 DEF FirstPieces, NearPieces
  <2>5. QED  BY <2>2, <2>4 DEF InBuffers
<1>12. CASE UNCHANGED <<vars, played>>
  <2>1. UNCHANGED <<piece, ahead, interrupted, streaming, enabled, currArp, loaded, fromArp>>
    BY <1>12 DEF vars, fpga, queue, played
  <2>2. Buffers' /\ FirstPieces' /\ NearPieces'
    BY <1>2, <1>3, <1>4, <1>5, <2>1 DEF Buffers, FirstPieces, NearPieces
  <2>3. QED  BY <2>2 DEF InBuffers
<1>13. QED
  BY <1>6, <1>7, <1>8, <1>9, <1>10, <1>11, <1>12, PlaySteps

LEMMA PlayPieces == PlaySpec => [](InStep /\ InBuffers)
<1>1. PlayInit => InStep /\ InBuffers
  BY InStepInit, PiecesInit
<1>2. Inv /\ LiveInv /\ InStep /\ InBuffers /\ [PlayNext]_playVars => (InStep /\ InBuffers)'
  BY InStepNext, PiecesNext
<1>3. QED  BY <1>1, <1>2, PlayInvariant, PTL DEF PlaySpec

\* Until the first interruption the stream and the software agree on the slot,
\* and no slice was read before its block was loaded.
THEOREM FirstRunsInStep == PlaySpec => []FirstRunInStep
<1>1. ASSUME Inv, LiveInv, InStep, InBuffers PROVE FirstRunInStep
  <2>1. SUFFICES ASSUME Playing, ~interrupted, MaxLag < BlkCnt
                 PROVE  mem[slot] = Expected(currArp) /\ piece \in {Expected(currArp), Unread}
    BY DEF FirstRunInStep
  <2>2. mem[slot] = Expected(currArp)
    BY <1>1, <2>1, ReadInFirstRun DEF Playing
  <2>3. piece \in {Expected(currArp), Unread}
    BY <1>1, <2>1 DEF InBuffers, FirstPieces, Playing
  <2>4. QED  BY <2>2, <2>3
<1>2. Inv /\ LiveInv /\ (InStep /\ InBuffers) => FirstRunInStep
  BY <1>1
<1>3. QED  BY <1>2, PlayInvariant, PlayPieces, PTL

\* Whatever slot the stream is in after any number of restarts, the block in its
\* memory belongs to this run, and so does each slice that is played, wherever it
\* lies in its block: the buffers that nothing clears can only add slices of an
\* earlier run to the first rotation, and only as many as they hold.
THEOREM LaterRunsNearby == PlaySpec => []PlaysNearby
<1>1. ASSUME Inv, LiveInv, InStep, InBuffers PROVE PlaysNearby
  <2>1. SUFFICES ASSUME enabled, loaded, fileBlocks = HeaderBlocks, MaxLag <= BlkCnt
                 PROVE  /\ OfThisRun(mem[slot])
                        /\ piece /= Unread =>
                               OfThisRun(piece) \/ (early /\ interrupted /\ currArp = 0)
    BY DEF PlaysNearby
  <2>2. OfThisRun(mem[slot])
    <3>1. PICK r \in currArp - age .. currArp + BlkCnt - 1 : mem[slot] = Expected(r)
      BY <1>1, <2>1, SlotOfThisRun DEF InStep
    <3>2. /\ BlkCnt \in Nat \ {0} /\ MaxLag \in Nat
          /\ currArp \in Nat /\ age \in Nat /\ age <= MaxLag
      BY <1>1, MapFacts DEF Inv, TypeOK, LoaderBehind
    <3>3. r \in currArp - MaxLag .. currArp + BlkCnt - 1
      BY <3>1, <3>2
    <3>4. QED  BY <3>1, <3>3 DEF OfThisRun
  <2>3. piece /= Unread => OfThisRun(piece) \/ (early /\ interrupted /\ currArp = 0)
    BY <1>1, <2>1 DEF InBuffers, NearPieces
  <2>4. QED  BY <2>2, <2>3
<1>2. Inv /\ LiveInv /\ (InStep /\ InBuffers) => PlaysNearby
  BY <1>1
<1>3. QED  BY <1>2, PlayInvariant, PlayPieces, PTL
=============================================================================
