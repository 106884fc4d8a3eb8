---------------------------- MODULE Video_proofs ----------------------------
(***************************************************************************)
(* For every divider, slice length and sequence of triggers: the sample on *)
(* air is that of the microseconds since the trigger, it ends, and the     *)
(* trigger period is measured to a microsecond.                            *)
(***************************************************************************)
EXTENDS Video, TLAPS

D == UsecDivider

\* Clocks since the last microsecond pulse.
Phase == IF usec_counter >= 2 THEN usec_counter - 2 ELSE usec_counter - 2 + D

\* The edge detector sees the divider's output one and two clocks late, so that
\* it pulses exactly when the counter is 1.
Delayed ==
    /\ usec_resync[2] <=> usec_counter >= 1 /\ OUT_SIG(usec_counter - 1, D)
    /\ usec_counter = 1 => ~usec_resync[1]
    /\ usec_counter >= 2 /\ OUT_SIG(usec_counter - 2, D) => usec_resync[1]

Types ==
    /\ usec_counter \in 0 .. D - 1 /\ usec_resync \in BOOLEAN \X BOOLEAN
    /\ clk_idx \in 0 .. SIZE /\ sinceTrig \in Nat

\* Before the first pulse the trigger is no older than the last one; later each
\* sample has taken its whole microsecond.
InSweep ==
    \/ clk_idx = SIZE
    \/ clk_idx = 0 /\ sinceTrig <= Phase
    \/ /\ clk_idx >= 1
       /\ sinceTrig >= Phase + (clk_idx - 1) * D + 1
       /\ sinceTrig <= Phase + clk_idx * D

VInv == Types /\ Delayed /\ InSweep

LEMMA VInit == Init => VInv
<1> SUFFICES ASSUME Init PROVE VInv
  OBVIOUS
<1>1. D \in Nat /\ D > 2 /\ SIZE \in Nat \ {0}
  BY VideoAssumption DEF D
<1>2. usec_resync \in BOOLEAN \X BOOLEAN /\ ~usec_resync[1] /\ ~usec_resync[2]
  BY DEF Init
<1>3. usec_counter = 0 /\ clk_idx = 0 /\ sinceTrig = 0
  BY DEF Init
<1>4. QED
  BY <1>1, <1>2, <1>3 DEF VInv, Types, Delayed, InSweep, Phase

\* The microsecond pulse comes once in D clocks.
LEMMA PulseAtOne == Types /\ Delayed => (USEC_PE <=> usec_counter = 1)
<1> SUFFICES ASSUME Types, Delayed PROVE USEC_PE <=> usec_counter = 1
  OBVIOUS
<1>1. D \in Nat /\ D > 2 /\ D \div 2 \in Nat
  BY VideoAssumption DEF D
<1>2. USEC_PE <=> ~usec_resync[1] /\ usec_resync[2]
  <2>1. PICK a \in BOOLEAN, b \in BOOLEAN : usec_resync = <<a, b>>
    BY DEF Types
  <2>2. QED  BY <2>1 DEF USEC_PE, rise
<1>3. CASE usec_counter = 1
  BY <1>1, <1>2, <1>3 DEF Delayed, OUT_SIG
<1>4. CASE usec_counter = 0
  BY <1>1, <1>2, <1>4 DEF Delayed
<1>5. CASE usec_counter >= 2
  <2>1. OUT_SIG(usec_counter - 1, D) => OUT_SIG(usec_counter - 2, D)
    BY <1>1, <1>5 DEF OUT_SIG, Types
  <2>2. QED  BY <1>2, <1>5, <2>1 DEF Delayed
<1>6. QED  BY <1>3, <1>4, <1>5, <1>1 DEF Types

LEMMA VNext == VInv /\ [Next]_vars => VInv'
<1> SUFFICES ASSUME VInv, [Next]_vars PROVE VInv'
  OBVIOUS
<1>1. D \in Nat /\ D > 2 /\ D \div 2 \in Nat /\ SIZE \in Nat \ {0} /\ UsecDivider = D
  BY VideoAssumption DEF D
<1>2. CASE Clock
  <2>1. usec_counter' = IF usec_counter + 1 >= D THEN 0 ELSE usec_counter + 1
    BY <1>1, <1>2 DEF Clock, Dividers, Divided
  <2>2. usec_counter \in 0 .. D - 1 /\ usec_counter' \in 0 .. D - 1
    BY <1>1, <2>1 DEF VInv, Types
  <2>3. usec_resync' = <<usec_resync[2], OUT_SIG(usec_counter, D)>>
    BY <1>1, <1>2 DEF Clock, EdgeDetectors, Resync
  <2>4. usec_resync[2] \in BOOLEAN /\ OUT_SIG(usec_counter, D) \in BOOLEAN
    BY <1>1, <2>2 DEF VInv, Types, OUT_SIG
  <2>5. /\ usec_resync' \in BOOLEAN \X BOOLEAN
        /\ usec_resync'[1] = usec_resync[2]
        /\ usec_resync'[2] = OUT_SIG(usec_counter, D)
    BY <2>3, <2>4
  <2>6. Delayed'
    <3>1. usec_resync[2] <=> usec_counter >= 1 /\ OUT_SIG(usec_counter - 1, D)
      BY DEF VInv, Delayed
    <3>2. CASE usec_counter + 1 < D
      BY <1>1, <2>1, <2>2, <2>5, <3>1, <3>2 DEF Delayed, OUT_SIG
    <3>3. CASE usec_counter + 1 >= D
      BY <1>1, <2>1, <2>2, <2>5, <3>1, <3>3 DEF Delayed, OUT_SIG
    <3>4. QED  BY <1>1, <2>2, <3>2, <3>3
  <2>7. /\ sinceTrig' = IF TRIG THEN 0 ELSE sinceTrig + 1
        /\ clk_idx' = IF TRIG THEN 0
                      ELSE IF usec_counter = 1 /\ clk_idx < SIZE THEN clk_idx + 1
                      ELSE clk_idx
    BY <1>2, PulseAtOne DEF Clock, NextSample, VInv
  <2>8. Types'
    BY <1>1, <2>2, <2>5, <2>7 DEF VInv, Types
  <2>9. Phase \in Nat /\ Phase' \in Nat
        /\ (usec_counter = 1 => Phase = D - 1 /\ Phase' = 0)
        /\ (usec_counter /= 1 => Phase' = Phase + 1)
    BY <1>1, <2>1, <2>2 DEF Phase
  <2>10. InSweep'
    <3>1. CASE TRIG
      BY <2>7, <2>9, <3>1 DEF InSweep
    <3>2. CASE ~TRIG /\ usec_counter = 1 /\ clk_idx < SIZE
      <4>1. sinceTrig \in Nat /\ clk_idx \in Nat /\ clk_idx' = clk_idx + 1
            /\ sinceTrig' = sinceTrig + 1
        BY <2>7, <3>2, <1>1 DEF VInv, Types
      <4>2. /\ (clk_idx - 1) * D \in Int /\ clk_idx * D \in Int /\ (clk_idx + 1) * D \in Int
            /\ clk_idx * D = (clk_idx - 1) * D + D
            /\ (clk_idx + 1) * D = clk_idx * D + D
        BY <4>1, <1>1
      <4>3. CASE clk_idx = 0 /\ sinceTrig <= Phase
        <5>1. sinceTrig' >= 0 + 0 * D + 1 /\ sinceTrig' <= 0 + 1 * D
          BY <1>1, <2>9, <3>2, <4>1, <4>3
        <5>2. QED  BY <5>1, <2>9, <3>2, <4>1, <4>3 DEF InSweep
      <4>4. CASE /\ clk_idx >= 1
                 /\ sinceTrig >= Phase + (clk_idx - 1) * D + 1
                 /\ sinceTrig <= Phase + clk_idx * D
        <5>1. sinceTrig' >= clk_idx * D + 1 /\ sinceTrig' <= (clk_idx + 1) * D
          BY <1>1, <2>9, <3>2, <4>1, <4>2, <4>4
        <5>2. clk_idx' - 1 = clk_idx /\ clk_idx' >= 1 /\ Phase' = 0
          BY <4>1, <2>9, <3>2
        <5>3. (clk_idx' - 1) * D = clk_idx * D /\ clk_idx' * D = (clk_idx + 1) * D
          BY <4>1, <5>2
        <5>4. /\ sinceTrig' >= Phase' + (clk_idx' - 1) * D + 1
              /\ sinceTrig' <= Phase' + clk_idx' * D
          <6>1. 0 + clk_idx * D + 1 = clk_idx * D + 1 /\ 0 + (clk_idx + 1) * D = (clk_idx + 1) * D
            BY <4>2
          <6>2. QED  BY <5>1, <5>2, <5>3, <6>1, Zenon
        <5>5. QED  BY <5>2, <5>4 DEF InSweep
      <4>5. QED  BY <3>2, <4>1, <4>3, <4>4, <1>1 DEF VInv, InSweep
    <3>3. CASE ~TRIG /\ (usec_counter /= 1 \/ clk_idx >= SIZE)
      <4>1. sinceTrig \in Nat /\ clk_idx \in 0 .. SIZE /\ clk_idx' = clk_idx
            /\ sinceTrig' = sinceTrig + 1
        BY <2>7, <3>3, <1>1 DEF VInv, Types
      <4>2. CASE clk_idx = SIZE
        BY <4>1, <4>2 DEF InSweep
      <4>3. CASE clk_idx /= SIZE
        <5>1. Phase' = Phase + 1
          BY <2>9, <3>3, <4>1, <4>3, <1>1
        <5>2. (clk_idx - 1) * D \in Int /\ clk_idx * D \in Int
          BY <4>1, <1>1
        <5>3. QED
          BY <2>9, <4>1, <4>3, <5>1, <5>2 DEF VInv, InSweep
      <4>4. QED  BY <4>2, <4>3
    <3>4. QED  BY <3>1, <3>2, <3>3, <1>1 DEF VInv, Types
  <2>11. QED  BY <2>6, <2>8, <2>10 DEF VInv
<1>3. CASE UNCHANGED vars
  BY <1>3 DEF vars, dividers, detectors, VInv, Types, Delayed, InSweep, Phase
<1>4. QED  BY <1>2, <1>3 DEF Next

LEMMA VInvariant == Spec => []VInv
  BY VInit, VNext, PTL DEF Spec

LEMMA AccurateThen == VInv => RangeAccurate
<1> SUFFICES ASSUME VInv, clk_idx < SIZE
             PROVE  /\ clk_idx * D < sinceTrig + D
                    /\ sinceTrig < (clk_idx + 1) * D
  BY DEF RangeAccurate, D
<1>1. D \in Nat /\ D > 2 /\ SIZE \in Nat /\ clk_idx \in Nat /\ sinceTrig \in Nat
  BY VideoAssumption DEF D, VInv, Types
<1>2. /\ (clk_idx - 1) * D \in Int /\ clk_idx * D \in Int
      /\ clk_idx * D = (clk_idx - 1) * D + D
      /\ (clk_idx + 1) * D = clk_idx * D + D
  BY <1>1
<1>3. Phase \in 0 .. D - 1
  BY <1>1 DEF VInv, Types, Phase
<1>4. CASE clk_idx = 0
  <2>1. 0 * D = 0 /\ 1 * D = D
    BY <1>1
  <2>2. sinceTrig <= Phase
    BY <1>1, <1>4 DEF VInv, InSweep
  <2>3. QED  BY <1>1, <1>3, <1>4, <2>1, <2>2
<1>5. CASE clk_idx >= 1
  BY <1>1, <1>2, <1>3, <1>5 DEF VInv, InSweep
<1>6. QED  BY <1>1, <1>4, <1>5

\* A target at k microseconds is drawn at k microseconds, for every clock rate.
THEOREM SampleOfTheMicrosecond == Spec => []RangeAccurate
  BY VInvariant, AccurateThen, PTL

\* A sweep is over in time, for every number of samples.
THEOREM SilentAfterSweep == Spec => []SweepEnds
<1>1. VInv => SweepEnds
  <2> SUFFICES ASSUME VInv, sinceTrig >= SIZE * D, clk_idx < SIZE PROVE FALSE
    BY DEF SweepEnds, GEN_SIGNAL, D
  <2>1. D \in Nat /\ D > 2 /\ SIZE \in Nat /\ clk_idx \in Nat /\ sinceTrig \in Nat
    BY VideoAssumption DEF D, VInv, Types
  <2>2. sinceTrig < (clk_idx + 1) * D
    BY AccurateThen DEF RangeAccurate, D
  <2>3. (clk_idx + 1) * D <= SIZE * D
    <3>1. PICK k \in Nat : SIZE = clk_idx + 1 + k
      <4>1. SIZE - clk_idx - 1 \in Nat /\ SIZE = clk_idx + 1 + (SIZE - clk_idx - 1)
        BY <2>1
      <4>2. QED  BY <4>1
    <3>2. SIZE * D = (clk_idx + 1) * D + k * D /\ k * D \in Nat /\ (clk_idx + 1) * D \in Nat
      BY <2>1, <3>1
    <3>3. QED  BY <3>2
  <2>4. (clk_idx + 1) * D \in Nat /\ SIZE * D \in Nat
    BY <2>1
  <2>5. QED  BY <2>1, <2>2, <2>3, <2>4
<1>2. QED  BY <1>1, VInvariant, PTL

-----------------------------------------------------------------------------
(* The measured period.                                                    *)

\* The count of microseconds against the clocks since the trigger: the first
\* one may come at once, each other one after a whole microsecond.
InPeriod ==
    \/ trig_us_tmp = 0 /\ sinceTrig <= Phase
    \/ /\ trig_us_tmp >= 1
       /\ sinceTrig >= Phase + (trig_us_tmp - 1) * D
       /\ sinceTrig <= Phase + trig_us_tmp * D

\* The maximum is a clock late: it may lack the microsecond just counted.
Stored ==
    /\ trig_us_tmp \in Nat /\ trig_us_max \in Nat /\ longest \in Nat
    /\ trig_us_max * D <= longest + D
    /\ longest <= (trig_us_max + 1) * D
    /\ trig_us_tmp <= trig_us_max \/ (trig_us_tmp = trig_us_max + 1 /\ Phase = 0)

PInv == VInv /\ InPeriod /\ Stored

LEMMA PhaseNext ==
    ASSUME VInv, Clock
    PROVE  /\ Phase \in 0 .. D - 1 /\ Phase' \in 0 .. D - 1
           /\ USEC_PE => Phase = D - 1 /\ Phase' = 0
           /\ ~USEC_PE => Phase' = Phase + 1
<1>1. D \in Nat /\ D > 2 /\ UsecDivider = D
  BY VideoAssumption DEF D
<1>2. usec_counter' = IF usec_counter + 1 >= D THEN 0 ELSE usec_counter + 1
  BY <1>1 DEF Clock, Dividers, Divided
<1>3. usec_counter \in 0 .. D - 1 /\ usec_counter' \in 0 .. D - 1
  BY <1>1, <1>2 DEF VInv, Types
<1>4. USEC_PE <=> usec_counter = 1
  BY PulseAtOne DEF VInv
<1>5. QED  BY <1>1, <1>2, <1>3, <1>4 DEF Phase

LEMMA InPeriodNext ==
    ASSUME PInv, Clock
    PROVE  InPeriod'
<1>1. /\ D \in Nat /\ D > 2 /\ sinceTrig \in Nat /\ trig_us_tmp \in Nat
  BY VideoAssumption DEF D, PInv, VInv, Types, Stored
<1>2. /\ Phase \in 0 .. D - 1 /\ Phase' \in 0 .. D - 1
      /\ USEC_PE => Phase = D - 1 /\ Phase' = 0
      /\ ~USEC_PE => Phase' = Phase + 1
  BY PhaseNext DEF PInv
<1>3. /\ sinceTrig' = IF TRIG THEN 0 ELSE sinceTrig + 1
      /\ trig_us_tmp' = IF TRIG THEN (IF USEC_PE THEN 1 ELSE 0)
                        ELSE IF USEC_PE THEN trig_us_tmp + 1 ELSE trig_us_tmp
  BY DEF Clock, MicrosecondsSinceTrig
<1>4. 0 * D = 0 /\ 1 * D = D
  BY <1>1
<1>5. CASE TRIG
  <2>1. CASE USEC_PE
    <3>1. trig_us_tmp' = 1 /\ sinceTrig' = 0 /\ Phase' = 0
      BY <1>2, <1>3, <1>5, <2>1
    <3>2. (trig_us_tmp' - 1) * D = 0 /\ trig_us_tmp' * D = D
      BY <1>4, <3>1
    <3>3. QED  BY <1>1, <3>1, <3>2 DEF InPeriod
  <2>2. CASE ~USEC_PE
    BY <1>2, <1>3, <1>5, <2>2 DEF InPeriod
  <2>3. QED  BY <2>1, <2>2
<1>6. CASE ~TRIG /\ USEC_PE
  <2>1. /\ trig_us_tmp' = trig_us_tmp + 1 /\ sinceTrig' = sinceTrig + 1
        /\ Phase = D - 1 /\ Phase' = 0
    BY <1>2, <1>3, <1>6
  <2>2. /\ (trig_us_tmp - 1) * D \in Int /\ trig_us_tmp * D \in Int
        /\ (trig_us_tmp + 1) * D \in Int
        /\ trig_us_tmp * D = (trig_us_tmp - 1) * D + D
        /\ (trig_us_tmp + 1) * D = trig_us_tmp * D + D
    BY <1>1
  <2>3. sinceTrig + 1 >= trig_us_tmp * D /\ sinceTrig + 1 <= (trig_us_tmp + 1) * D
    <3>1. CASE trig_us_tmp = 0 /\ sinceTrig <= Phase
      <4>1. trig_us_tmp * D = 0
        BY <1>4, <3>1
      <4>2. QED  BY <1>1, <2>1, <2>2, <3>1, <4>1
    <3>2. CASE /\ trig_us_tmp >= 1
               /\ sinceTrig >= Phase + (trig_us_tmp - 1) * D
               /\ sinceTrig <= Phase + trig_us_tmp * D
      BY <1>1, <2>1, <2>2, <3>2
    <3>3. QED  BY <3>1, <3>2 DEF PInv, InPeriod
  <2>4. (trig_us_tmp' - 1) * D = trig_us_tmp * D /\ trig_us_tmp' * D = (trig_us_tmp + 1) * D
    <3>1. trig_us_tmp' - 1 = trig_us_tmp
      BY <1>1, <2>1
    <3>2. QED  BY <2>1, <3>1
  <2>5. /\ sinceTrig' >= Phase' + (trig_us_tmp' - 1) * D
        /\ sinceTrig' <= Phase' + trig_us_tmp' * D
    <3>1. 0 + trig_us_tmp * D = trig_us_tmp * D
          /\ 0 + (trig_us_tmp + 1) * D = (trig_us_tmp + 1) * D
      BY <2>2
    <3>2. QED  BY <2>1, <2>3, <2>4, <3>1, Zenon
  <2>6. trig_us_tmp' >= 1
    BY <1>1, <2>1
  <2>7. QED  BY <2>5, <2>6 DEF InPeriod
<1>7. CASE ~TRIG /\ ~USEC_PE
  <2>1. /\ trig_us_tmp' = trig_us_tmp /\ sinceTrig' = sinceTrig + 1
        /\ Phase' = Phase + 1
    BY <1>2, <1>3, <1>7
  <2>2. (trig_us_tmp - 1) * D \in Int /\ trig_us_tmp * D \in Int
    BY <1>1
  <2>3. QED  BY <1>1, <1>2, <2>1, <2>2 DEF PInv, InPeriod
<1>8. QED  BY <1>5, <1>6, <1>7

LEMMA StoredNext ==
    ASSUME PInv, Clock
    PROVE  Stored'
<1>1. /\ D \in Nat /\ D > 2 /\ sinceTrig \in Nat /\ trig_us_tmp \in Nat
      /\ trig_us_max \in Nat /\ longest \in Nat
  BY VideoAssumption DEF D, PInv, VInv, Types, Stored
<1>2. /\ Phase \in 0 .. D - 1 /\ Phase' \in 0 .. D - 1
      /\ USEC_PE => Phase' = 0
  BY PhaseNext DEF PInv
<1>3. /\ trig_us_max' = IF trig_us_max < trig_us_tmp THEN trig_us_tmp ELSE trig_us_max
      /\ longest' = IF longest < sinceTrig THEN sinceTrig ELSE longest
      /\ trig_us_tmp' = IF TRIG THEN (IF USEC_PE THEN 1 ELSE 0)
                        ELSE IF USEC_PE THEN trig_us_tmp + 1 ELSE trig_us_tmp
  BY DEF Clock, LongestPeriod, MicrosecondsSinceTrig
<1>4. /\ trig_us_tmp' \in Nat /\ trig_us_max' \in Nat /\ longest' \in Nat
      /\ trig_us_tmp' <= trig_us_max' \/ (trig_us_tmp' = trig_us_max' + 1 /\ Phase' = 0)
  BY <1>1, <1>2, <1>3
<1>5. /\ (trig_us_tmp - 1) * D \in Int /\ trig_us_tmp * D \in Int /\ trig_us_max * D \in Int
      /\ trig_us_tmp * D = (trig_us_tmp - 1) * D + D
      /\ (trig_us_tmp + 1) * D = trig_us_tmp * D + D
      /\ (trig_us_max + 1) * D = trig_us_max * D + D
  BY <1>1
<1>6. CASE trig_us_max < trig_us_tmp
  <2>1. trig_us_max' = trig_us_tmp
    BY <1>3, <1>6
  <2>2. /\ sinceTrig >= Phase + (trig_us_tmp - 1) * D
        /\ sinceTrig <= Phase + trig_us_tmp * D
    BY <1>1, <1>6 DEF PInv, InPeriod
  <2>3. longest <= trig_us_tmp * D
    <3>1. trig_us_tmp = trig_us_max + 1
      BY <1>1, <1>6 DEF PInv, Stored
    <3>2. QED  BY <3>1 DEF PInv, Stored
  <2>4. /\ trig_us_tmp * D <= longest' + D
        /\ longest' <= (trig_us_tmp + 1) * D
    BY <1>1, <1>2, <1>3, <1>5, <2>2, <2>3
  <2>5. QED  BY <1>4, <2>1, <2>4 DEF Stored
<1>7. CASE ~(trig_us_max < trig_us_tmp)
  <2>1. trig_us_max' = trig_us_max
    BY <1>3, <1>7
  <2>2. sinceTrig <= (trig_us_max + 1) * D
    <3>1. PICK k \in Nat : trig_us_max = trig_us_tmp + k
      <4>1. trig_us_max - trig_us_tmp \in Nat
            /\ trig_us_max = trig_us_tmp + (trig_us_max - trig_us_tmp)
        BY <1>1, <1>7
      <4>2. QED  BY <4>1
    <3>2. trig_us_max * D = trig_us_tmp * D + k * D /\ k * D \in Nat
      BY <1>1, <3>1
    <3>3. sinceTrig <= Phase + trig_us_tmp * D
      <4>1. trig_us_tmp = 0 => trig_us_tmp * D = 0
        BY <1>1
      <4>2. QED  BY <1>1, <1>2, <1>5, <4>1 DEF PInv, InPeriod
    <3>4. QED  BY <1>1, <1>2, <1>5, <3>2, <3>3
  <2>3. /\ trig_us_max * D <= longest' + D
        /\ longest' <= (trig_us_max + 1) * D
    BY <1>1, <1>3, <1>5, <2>2 DEF PInv, Stored
  <2>4. QED  BY <1>4, <2>1, <2>3 DEF Stored
<1>8. QED  BY <1>6, <1>7

LEMMA PInvariant == Spec => []PInv
<1>1. Init => InPeriod /\ Stored
  <2> SUFFICES ASSUME Init PROVE InPeriod /\ Stored
    OBVIOUS
  <2>1. D \in Nat /\ D > 2 /\ 0 * D = 0 /\ (0 + 1) * D = D
    BY VideoAssumption DEF D
  <2>2. usec_counter = 0 /\ trig_us_tmp = 0 /\ trig_us_max = 0 /\ sinceTrig = 0 /\ longest = 0
    BY DEF Init
  <2>3. QED  BY <2>1, <2>2 DEF InPeriod, Stored, Phase
<1>2. PInv /\ [Next]_vars => (InPeriod /\ Stored)'
  <2> SUFFICES ASSUME PInv, [Next]_vars PROVE (InPeriod /\ Stored)'
    OBVIOUS
  <2>1. CASE Clock
    BY <2>1, InPeriodNext, StoredNext
  <2>2. CASE UNCHANGED vars
    BY <2>2 DEF vars, dividers, PInv, InPeriod, Stored, Phase
  <2>3. QED  BY <2>1, <2>2 DEF Next
<1>3. QED  BY <1>1, <1>2, VInvariant, PTL DEF Spec, PInv

\* The period reported to the server is that of the longest interval between two
\* triggers, for every divider and however the periods of a radar are staggered.
THEOREM PeriodMeasured == Spec => []PeriodAccurate
<1>1. PInv => PeriodAccurate
  <2> SUFFICES ASSUME PInv
               PROVE  /\ trig_us_max * D <= Interval + D
                      /\ Interval <= (trig_us_max + 1) * D
    BY DEF PeriodAccurate, D
  <2>1. /\ D \in Nat /\ D > 2 /\ sinceTrig \in Nat /\ trig_us_tmp \in Nat
        /\ trig_us_max \in Nat /\ longest \in Nat
        /\ trig_us_max * D <= longest + D
        /\ longest <= (trig_us_max + 1) * D
    BY VideoAssumption DEF D, PInv, VInv, Types, Stored
  <2>2. /\ trig_us_max * D \in Int /\ trig_us_tmp * D \in Int
        /\ (trig_us_max + 1) * D = trig_us_max * D + D
    BY <2>1
  <2>3. sinceTrig <= (trig_us_max + 1) * D
    <3>1. Phase \in 0 .. D - 1
      BY <2>1 DEF PInv, VInv, Types, Phase
    <3>2. sinceTrig <= Phase + trig_us_tmp * D
      <4>1. trig_us_tmp = 0 => trig_us_tmp * D = 0
        BY <2>1
      <4>2. QED  BY <2>1, <2>2, <3>1, <4>1 DEF PInv, InPeriod
    <3>3. CASE trig_us_tmp = trig_us_max + 1 /\ Phase = 0
      BY <2>1, <2>2, <3>2, <3>3
    <3>4. CASE trig_us_tmp <= trig_us_max
      <4>1. PICK k \in Nat : trig_us_max = trig_us_tmp + k
        <5>1. trig_us_max - trig_us_tmp \in Nat
              /\ trig_us_max = trig_us_tmp + (trig_us_max - trig_us_tmp)
          BY <2>1, <3>4
        <5>2. QED  BY <5>1
      <4>2. trig_us_max * D = trig_us_tmp * D + k * D /\ k * D \in Nat
        BY <2>1, <4>1
      <4>3. QED  BY <2>1, <2>2, <3>1, <3>2, <4>2
    <3>5. QED  BY <3>3, <3>4 DEF PInv, Stored
  <2>4. QED  BY <2>1, <2>2, <2>3 DEF Interval
<1>2. QED  BY <1>1, PInvariant, PTL
=============================================================================
