---------------------------- MODULE Fpga_proofs -----------------------------
(***************************************************************************)
(* For every number of ACPs in a turn and of blocks in the stream: the     *)
(* FPGA measures the turn, plays one block in each, and the server's count *)
(* follows it.  The antenna is steady: ARP falls always with the ACP of    *)
(* north or always after it (~Jitter).                                     *)
(***************************************************************************)
EXTENDS Fpga, CircularSlots

-----------------------------------------------------------------------------
(* Counting the ACPs.                                                      *)

\* ACPs the antenna has passed since the last ARP, seen or not.
SinceArp == IF phase = "with" THEN angle + 1 ELSE IF arpDue THEN N ELSE angle

\* Those of them that the counter of a run, which starts after the ARP, counts.
Counted == IF phase = "with" THEN angle ELSE SinceArp

FTypes ==
    /\ arp_samples \in 0 .. Samples + 1 /\ acp_samples = arp_samples
    /\ trig_samples \in 0 .. Samples + 1
    /\ acp_cnt_tmp \in Nat /\ acp_cnt_max \in Nat
    /\ sim_en_req \in BOOLEAN /\ first_arp \in BOOLEAN /\ ACP_IDX \in Nat
    /\ acp_cnt \in Nat /\ S_AXIS_TREADY \in BOOLEAN
    /\ angle \in 0 .. N - 1 /\ phase \in Phases
    /\ arpDue \in BOOLEAN /\ (arpDue => phase = "after" /\ angle = 0)
    /\ gap \in 0 .. Gap /\ missed \in 0 .. MaxMissed
    /\ next \in 0 .. StreamLength - 1 /\ first \in 0 .. StreamLength - 1
    /\ turn \in Nat /\ lost \in Nat /\ (CALIBRATED \/ lost <= MaxLost)

\* The turn under way is counted but for what was missed; and every turn so far
\* whose count fell short of N has lost an ACP.
Counting ==
    /\ acp_cnt_tmp <= SinceArp
    /\ arp_samples >= 1 => SinceArp <= acp_cnt_tmp + missed
    /\ acp_cnt_max <= N
    /\ ~CALIBRATED /\ arp_samples >= 1 /\ acp_cnt_max < N =>
           SinceArp + (arp_samples - 1) <= acp_cnt_tmp + lost

\* Hence the maximum is right when the signals count as calibrated.
Calibration ==
    /\ CALIBRATED => acp_cnt_max = N
    /\ RADAR_ACP_CNT \in {0, N}
    /\ first_arp => CALIBRATED /\ RADAR_ACP_CNT = N

\* The position counter is the same count, but for its limit.
Limit ==
    /\ \/ acp_cnt = acp_cnt_tmp
       \/ RADAR_ACP_CNT = N /\ acp_cnt_tmp = N /\ acp_cnt = N - 1
    /\ first_arp => acp_cnt < N

CountInv == FTypes /\ Counting /\ Calibration /\ Limit

\* The server's counter: all ACPs of the run but those missed.
RunCount ==
    /\ ~first_arp => ACP_IDX = 0
    /\ SIM_EN => /\ ACP_IDX + lost = turn * N + Counted
                 /\ phase = "after" => ACP_IDX <= turn * N + acp_cnt_tmp

-----------------------------------------------------------------------------
(* The stream against the antenna.  Slices are numbered on and on: L is the *)
(* number of the one the stream offers next, first that of the first one.  *)

\* The slice under the antenna.
Target == (FirstBlock + turn) * N + acp_cnt

\* Nothing has been taken yet, and nothing is before the first ACP.
Unfilled(L) ==
    /\ L = first /\ BANK = NoSlice /\ ACP_POS = 0
    /\ turn = 0 /\ acp_cnt <= 1 /\ ~arpDue
    /\ S_AXIS_TREADY => acp_cnt = 1
    /\ acp_cnt = 1 =>
         gap + 2 * (Target + 1 - L) <= Gap + (IF S_AXIS_TREADY THEN 1 ELSE 0)

\* The bank is less than a block behind the antenna and never ahead of it, and
\* there are clocks enough to catch up, two for each slice.
Filled(L) ==
    /\ BANK = (L - 1) % StreamLength /\ ACP_POS = (L - 1) % N
    /\ Target - N < L - 1 /\ L - 1 <= Target
    /\ S_AXIS_TREADY => L - 1 < Target
    /\ gap + 2 * (Target + 1 - L) <= Gap + (IF S_AXIS_TREADY THEN 1 ELSE 0)
    /\ arpDue => /\ acp_cnt >= 2 /\ Target - 1 <= L - 1
                 /\ acp_cnt_tmp = N => L - 1 = Target

InStep ==
    SIM_EN => \E L \in Nat : next = L % StreamLength /\ (Unfilled(L) \/ Filled(L))

FInv == CountInv /\ RunCount /\ InStep

-----------------------------------------------------------------------------
(* What the antenna does in one clock.                                     *)

Passed(acp, n) == IF acp THEN 1 ELSE n

\* At most one ACP passes, after the stream has had its clocks; the ARP comes
\* when N have passed since the last one.
AntennaEdge(arp, acp, n, valid) ==
    /\ acp => n = 0
    /\ phase' = phase /\ angle' \in 0 .. N - 1 /\ arpDue' \in BOOLEAN
    /\ arpDue' => phase = "after" /\ angle' = 0
    /\ SinceArp' = Passed(acp, n) + (IF arp THEN 0 ELSE SinceArp)
    /\ Counted' = Counted + Passed(acp, n) - (IF arp THEN N ELSE 0)
    /\ gap' = IF arp \/ Passed(acp, n) = 1 THEN 0
              ELSE IF valid /\ gap < Gap THEN gap + 1 ELSE gap
    /\ arp => SinceArp = N /\ ~arpDue'
    /\ arp => arpDue \/ (gap = Gap /\ Passed(acp, n) = 1)
    /\ arpDue /\ ~arp => arpDue'
    /\ Passed(acp, n) = 1 => gap = Gap /\ ~arpDue
    /\ arpDue' /\ ~arpDue => Passed(acp, n) = 1 /\ SinceArp = N - 1 /\ ~arp

Edge(arp, acp, n, request, valid) ==
    /\ \E trig \in BOOLEAN : Registers(arp, acp, trig, request, valid)
    /\ Misses(n, arp)
    /\ AntennaEdge(arp, acp, n, valid)

LEMMA NFacts == /\ N \in Nat /\ N > 2 /\ Slots \in Nat \ {0} /\ Gap \in Nat /\ 2 * N <= Gap
                /\ Samples \in Nat /\ MaxMissed \in Nat /\ MaxLost \in Nat
                /\ MaxMissed < N - 1 /\ MaxLost < Samples
  BY FpgaAssumption, AntennaAssumption, SamplesAssumption

LEMMA TurnedAngle ==
    ASSUME FTypes, Turned
    PROVE  /\ North => angle' = 0
           /\ ~North => angle' = angle + 1 /\ angle' \in 0 .. N - 1
<1>1. N \in Int /\ N > 0 /\ angle \in 0 .. N - 1 /\ angle' = (angle + 1) % N
  BY NFacts DEF FTypes, Turned
<1>2. ASSUME North PROVE angle' = 0
  <2>1. (N * 1 + 0) % N = 0
    BY <1>1, 0 \in 0 .. N - 1, 1 \in Int, Remainder
  <2>2. N * 1 + 0 = angle + 1
    BY <1>1, <1>2 DEF North
  <2>3. QED  BY <1>1, <2>1, <2>2
<1>3. ASSUME ~North PROVE angle' = angle + 1 /\ angle' \in 0 .. N - 1
  <2>1. angle + 1 \in 0 .. N - 1
    BY <1>1, <1>3 DEF North
  <2>2. QED  BY <1>1, <2>1, InFirstRound
<1>4. QED  BY <1>2, <1>3

LEMMA EveryEdge ==
    ASSUME ~Jitter, FTypes, Next
    PROVE  \E arp, acp, request, valid \in BOOLEAN, n \in {0, 1} :
              Edge(arp, acp, n, request, valid)
<1> USE NFacts
<1>1. /\ sim_en_req \in BOOLEAN /\ angle \in 0 .. N - 1 /\ phase \in {"with", "after"}
      /\ arpDue \in BOOLEAN /\ (arpDue => phase = "after" /\ angle = 0)
  BY DEF FTypes, Phases
<1>2. CASE QuietClock
  <2>1. PICK trig \in BOOLEAN, request \in {sim_en_req, TRUE, FALSE}, valid \in BOOLEAN :
               Quiet(trig, request, valid)
    BY <1>2 DEF QuietClock
  <2>2. AntennaEdge(FALSE, FALSE, 0, valid)
    BY <1>1, <2>1 DEF Quiet, AntennaEdge, Passed, SinceArp, Counted
  <2>3. Edge(FALSE, FALSE, 0, request, valid)
    BY <2>1, <2>2 DEF Quiet, Edge
  <2>4. QED  BY <1>1, <2>3
<1>3. CASE SeenClock
  <2>1. PICK request \in {sim_en_req, TRUE, FALSE}, valid \in BOOLEAN :
               Registers(FALSE, TRUE, FALSE, request, valid)
    BY <1>3 DEF SeenClock, InsideWith
  <2>2. angle' = angle + 1 /\ angle' \in 0 .. N - 1
    BY <1>3, TurnedAngle DEF SeenClock
  <2>3. AntennaEdge(FALSE, TRUE, 0, valid)
    BY <1>1, <1>3, <2>2 DEF SeenClock, MayTurn, Turned, AntennaEdge, Passed, SinceArp, Counted
  <2>4. Edge(FALSE, TRUE, 0, request, valid)
    BY <1>3, <2>1, <2>3 DEF SeenClock, Edge
  <2>5. QED  BY <1>1, <2>4
<1>4. CASE MissedClock
  <2>1. PICK request \in {sim_en_req, TRUE, FALSE}, valid \in BOOLEAN :
               Registers(FALSE, FALSE, FALSE, request, valid)
    BY <1>4 DEF MissedClock, InsideWith
  <2>2. angle' = angle + 1 /\ angle' \in 0 .. N - 1
    BY <1>4, TurnedAngle DEF MissedClock
  <2>3. AntennaEdge(FALSE, FALSE, 1, valid)
    BY <1>1, <1>4, <2>2 DEF MissedClock, MayTurn, Turned, AntennaEdge, Passed, SinceArp, Counted
  <2>4. Edge(FALSE, FALSE, 1, request, valid)
    BY <1>4, <2>1, <2>3 DEF MissedClock, Edge
  <2>5. QED  BY <1>1, <2>4
<1>5. CASE NorthClock
  <2>1. PICK acp \in BOOLEAN :
               /\ InsideWith(phase' = "with", acp, FALSE)
               /\ Misses(IF acp THEN 0 ELSE 1, phase' = "with")
    BY <1>5 DEF NorthClock
  <2>2. PICK request \in {sim_en_req, TRUE, FALSE}, valid \in BOOLEAN :
               Registers(phase' = "with", acp, FALSE, request, valid)
    BY <2>1 DEF InsideWith
  <2>3. /\ angle' = 0 /\ angle = N - 1 /\ phase' = phase
        /\ arpDue' = (phase = "after") /\ ~arpDue /\ gap = Gap /\ gap' = 0
    BY <1>5, TurnedAngle DEF NorthClock, North, MayTurn, Turned
  <2>4. CASE phase = "with"
    <3>1. AntennaEdge(TRUE, acp, IF acp THEN 0 ELSE 1, valid)
      BY <1>1, <2>3, <2>4 DEF AntennaEdge, Passed, SinceArp, Counted
    <3>2. (phase' = "with") = TRUE
      BY <2>3, <2>4
    <3>3. Edge(TRUE, acp, IF acp THEN 0 ELSE 1, request, valid)
      BY <2>1, <2>2, <3>1, <3>2 DEF Edge
    <3>4. QED  BY <1>1, <3>3
  <2>5. CASE phase = "after"
    <3>1. AntennaEdge(FALSE, acp, IF acp THEN 0 ELSE 1, valid)
      <4>1. /\ phase' = "after" /\ arpDue' = TRUE /\ "after" /= "with"
            /\ SinceArp = N - 1 /\ SinceArp' = N /\ Counted = N - 1 /\ Counted' = N
        BY <1>1, <2>3, <2>5 DEF SinceArp, Counted
      <4>2. Passed(acp, IF acp THEN 0 ELSE 1) = 1
        BY DEF Passed
      <4>3. QED  BY <1>1, <2>3, <2>5, <4>1, <4>2 DEF AntennaEdge
    <3>2. (phase' = "with") = FALSE
      BY <2>3, <2>5
    <3>3. Edge(FALSE, acp, IF acp THEN 0 ELSE 1, request, valid)
      BY <2>1, <2>2, <3>1, <3>2 DEF Edge
    <3>4. QED  BY <1>1, <3>3
  <2>6. QED  BY <1>1, <2>4, <2>5
<1>6. CASE ArpClock
  <2>1. PICK request \in {sim_en_req, TRUE, FALSE}, valid \in BOOLEAN :
               Registers(TRUE, FALSE, FALSE, request, valid)
    BY <1>6 DEF ArpClock, InsideWith
  <2>2. AntennaEdge(TRUE, FALSE, 0, valid)
    <3>1. arpDue /\ ~arpDue' /\ arpDue' \in BOOLEAN
      BY <1>1, <1>6 DEF ArpClock
    <3>2. phase = "after" /\ phase' = phase /\ angle = 0 /\ angle' = 0 /\ gap' = 0
      BY <1>1, <1>6, <3>1 DEF ArpClock
    <3>3. SinceArp = N /\ SinceArp' = 0 /\ Counted = N /\ Counted' = 0
      BY <3>1, <3>2 DEF SinceArp, Counted
    <3>4. angle' \in 0 .. N - 1
      BY <3>2
    <3>5. SinceArp' = 0 + 0 /\ Counted' = Counted + 0 - N
      BY <3>3
    <3>6. Passed(FALSE, 0) = 0
      BY DEF Passed
    <3>7. QED  BY <3>1, <3>2, <3>3, <3>4, <3>5, <3>6 DEF AntennaEdge, Passed
  <2>3. Edge(TRUE, FALSE, 0, request, valid)
    BY <1>6, <2>1, <2>2 DEF ArpClock, Edge
  <2>4. QED  BY <1>1, <2>3
<1>7. QED  BY <1>2, <1>3, <1>4, <1>5, <1>6 DEF Next

-----------------------------------------------------------------------------
(* The count of a turn, the maximum, and the position counter.             *)

LEMMA FTypesNext ==
    ASSUME CountInv, NEW arp \in BOOLEAN, NEW acp \in BOOLEAN, NEW n \in {0, 1},
           NEW request \in BOOLEAN, NEW valid \in BOOLEAN,
           Edge(arp, acp, n, request, valid)
    PROVE  FTypes'
<1> USE NFacts
<1>1. PICK trig \in BOOLEAN : Registers(arp, acp, trig, request, valid)
  BY DEF Edge
<1>2. FTypes
  BY DEF CountInv
<1>3. /\ arp_samples' \in 0 .. Samples + 1 /\ acp_samples' = arp_samples'
      /\ trig_samples' \in 0 .. Samples + 1
      /\ acp_cnt_tmp' \in Nat /\ acp_cnt_max' \in Nat
      /\ CALIBRATED => CALIBRATED'
  BY <1>1, <1>2 DEF FTypes, Registers, StatClock, Sampled, AcpsSinceArp, CALIBRATED
<1>4. ACP_IDX' \in Nat
  BY <1>1, <1>2 DEF FTypes, Registers, CtrlClock, CountAcp
<1>5. first_arp' \in BOOLEAN
  BY <1>1, <1>2 DEF FTypes, Registers, CtrlClock, FirstArp, CALIBRATED
<1>6. sim_en_req' \in BOOLEAN
  BY <1>1 DEF Registers, CtrlClock
<1>7. acp_cnt' \in Nat
  BY <1>1, <1>2 DEF FTypes, Registers, AxisClock, CountPosition
<1>8. S_AXIS_TREADY' \in BOOLEAN
  BY <1>1 DEF Registers, AxisClock, AxisReset, AxisLoad, AxisWait
<1>9. /\ angle' \in 0 .. N - 1 /\ phase' \in Phases /\ arpDue' \in BOOLEAN
      /\ arpDue' => phase' = "after" /\ angle' = 0
  BY <1>2 DEF FTypes, Edge, AntennaEdge
<1>10. gap' \in 0 .. Gap
  BY <1>2 DEF FTypes, Edge, AntennaEdge
<1>11. missed' \in 0 .. MaxMissed /\ lost' \in Nat /\ (CALIBRATED' \/ lost' <= MaxLost)
  BY <1>2, <1>3 DEF FTypes, Edge, Misses
<1>12. next' \in 0 .. StreamLength - 1 /\ first' \in 0 .. StreamLength - 1
  <2>1. next \in 0 .. StreamLength - 1 /\ first \in 0 .. StreamLength - 1
    BY <1>2 DEF FTypes
  <2>2. StreamLength \in Int
    BY DEF StreamLength
  <2>3. StreamLength > 0 /\ next + 1 \in Int
    BY <2>1, <2>2
  <2>4. (next + 1) % StreamLength \in 0 .. StreamLength - 1
    BY <2>2, <2>3, DivMod
  <2>5. QED  BY <1>1, <2>1, <2>4 DEF Registers
<1>13. turn' \in Nat
  BY <1>1, <1>2 DEF FTypes, Registers
<1>14. QED
  BY <1>3, <1>4, <1>5, <1>6, <1>7, <1>8, <1>9, <1>10, <1>11, <1>12, <1>13 DEF FTypes

LEMMA CountingNext ==
    ASSUME CountInv, NEW arp \in BOOLEAN, NEW acp \in BOOLEAN, NEW n \in {0, 1},
           NEW request \in BOOLEAN, NEW valid \in BOOLEAN,
           Edge(arp, acp, n, request, valid)
    PROVE  Counting' /\ Calibration' /\ Limit'
<1> USE NFacts
<1>1. PICK trig \in BOOLEAN : Registers(arp, acp, trig, request, valid)
  BY DEF Edge
<1>2. /\ arp_samples \in 0 .. Samples + 1 /\ missed \in Nat /\ lost \in Nat
      /\ acp_cnt_tmp \in Nat /\ acp_cnt_max \in Nat /\ acp_cnt \in Nat
      /\ SinceArp \in 0 .. N
  BY DEF CountInv, FTypes, SinceArp
<1>3. FTypes'
  BY FTypesNext
<1>4. /\ SinceArp' = Passed(acp, n) + (IF arp THEN 0 ELSE SinceArp)
      /\ arp => SinceArp = N
      /\ acp => n = 0
      /\ Passed(acp, n) = (IF acp THEN 1 ELSE 0) + n
      /\ SinceArp' \in 0 .. N
  <2>1. SinceArp' \in 0 .. N
    <3>1. PICK a \in 0 .. N - 1 : angle' = a
      BY <1>3 DEF FTypes
    <3>2. arpDue' \in BOOLEAN
      BY <1>3 DEF FTypes
    <3>3. QED  BY <3>1, <3>2 DEF SinceArp
  <2>2. /\ SinceArp' = Passed(acp, n) + (IF arp THEN 0 ELSE SinceArp)
        /\ arp => SinceArp = N
        /\ acp => n = 0
    BY DEF Edge, AntennaEdge
  <2>3. Passed(acp, n) = (IF acp THEN 1 ELSE 0) + n
    BY <2>2 DEF Passed
  <2>4. QED  BY <2>1, <2>2, <2>3
<1>5. /\ acp_cnt_tmp' = (IF acp THEN 1 ELSE 0) + (IF arp THEN 0 ELSE acp_cnt_tmp)
      /\ acp_cnt_max' = IF acp_cnt_max < acp_cnt_tmp THEN acp_cnt_tmp ELSE acp_cnt_max
      /\ arp_samples' = IF arp /\ arp_samples <= Samples THEN arp_samples + 1
                                                         ELSE arp_samples
      /\ RADAR_ACP_CNT' = IF CALIBRATED THEN acp_cnt_max ELSE RADAR_ACP_CNT
  BY <1>1, <1>2 DEF Registers, StatClock, AcpsSinceArp, Sampled
<1>6. missed' = n + (IF arp THEN 0 ELSE missed)
  BY DEF Edge, Misses
<1>7. ~CALIBRATED => lost' = lost + n /\ lost' <= MaxLost
  BY <1>2 DEF Edge, Misses
<1>8. CALIBRATED => CALIBRATED'
  BY <1>1, <1>2 DEF CountInv, FTypes, Registers, StatClock, Sampled, CALIBRATED
<1>9. /\ acp_cnt_tmp <= SinceArp
      /\ arp_samples >= 1 => SinceArp <= acp_cnt_tmp + missed
      /\ acp_cnt_max <= N
      /\ ~CALIBRATED /\ arp_samples >= 1 /\ acp_cnt_max < N =>
             SinceArp + (arp_samples - 1) <= acp_cnt_tmp + lost
  BY DEF CountInv, Counting
<1>10. /\ acp_cnt_tmp' <= SinceArp'
       /\ arp_samples' >= 1 => SinceArp' <= acp_cnt_tmp' + missed'
       /\ acp_cnt_max' <= N
  BY <1>2, <1>4, <1>5, <1>6, <1>9
<1>11. ~CALIBRATED /\ arp_samples' >= 1 /\ acp_cnt_max' < N =>
             SinceArp' + (arp_samples' - 1) <= acp_cnt_tmp' + lost'
  <2> HAVE ~CALIBRATED /\ arp_samples' >= 1 /\ acp_cnt_max' < N
  <2>1. acp_cnt_max < N /\ acp_cnt_tmp < N
    BY <1>2, <1>5
  <2>2. CASE arp
    BY <1>2, <1>4, <1>5, <1>7, <1>9, <2>1, <2>2
  <2>3. CASE ~arp
    BY <1>2, <1>4, <1>5, <1>7, <1>9, <2>1, <2>3
  <2>4. QED  BY <2>2, <2>3
<1>12. Counting'
  BY <1>8, <1>10, <1>11 DEF Counting
<1>13. CALIBRATED' => acp_cnt_max' = N
  <2>1. CASE CALIBRATED
    BY <1>2, <1>5, <1>10, <2>1 DEF CountInv, Calibration
  <2>2. CASE ~CALIBRATED
    <3>1. SUFFICES ASSUME CALIBRATED', acp_cnt_max' < N PROVE FALSE
      BY <1>3, <1>10 DEF FTypes
    <3>2. arp_samples' = Samples + 1
      BY <1>3, <3>1 DEF FTypes, CALIBRATED
    <3>3. SinceArp' + Samples <= acp_cnt_tmp' + lost'
      BY <1>11, <2>2, <3>1, <3>2
    <3>4. PICK since \in 0 .. N, tmp \in Nat, l \in Nat :
                 SinceArp' = since /\ acp_cnt_tmp' = tmp /\ lost' = l
      <4>1. SinceArp' \in 0 .. N
        BY <1>4
      <4>2. acp_cnt_tmp' \in Nat /\ lost' \in Nat
        BY <1>3 DEF FTypes
      <4>3. QED  BY ONLY <4>1, <4>2
    <3>5. l < Samples /\ tmp <= since
      BY <1>7, <1>10, <2>2, <3>4
    <3>6. QED  BY <3>3, <3>4, <3>5
  <2>3. QED  BY <2>1, <2>2
<1>14. /\ RADAR_ACP_CNT \in {0, N} /\ RADAR_ACP_CNT' \in {0, N}
       /\ RADAR_ACP_CNT = N \/ CALIBRATED => RADAR_ACP_CNT' = N
  BY <1>5 DEF CountInv, Calibration
<1>15. /\ first_arp' => CALIBRATED /\ (first_arp \/ arp)
       /\ first_arp => RADAR_ACP_CNT = N
  BY <1>1 DEF CountInv, Calibration, Registers, CtrlClock, FirstArp
<1>16. Calibration'
  BY <1>8, <1>13, <1>14, <1>15 DEF Calibration
<1>17. acp_cnt' = IF arp THEN (IF acp THEN 1 ELSE 0)
                  ELSE IF acp /\ (RADAR_ACP_CNT = 0 \/ acp_cnt < RADAR_ACP_CNT - 1)
                       THEN acp_cnt + 1 ELSE acp_cnt
  BY <1>1 DEF Registers, AxisClock, CountPosition
<1>18. /\ \/ acp_cnt = acp_cnt_tmp
          \/ RADAR_ACP_CNT = N /\ acp_cnt_tmp = N /\ acp_cnt = N - 1
       /\ first_arp => acp_cnt < N
  BY DEF CountInv, Limit
<1>19. \/ acp_cnt' = acp_cnt_tmp'
       \/ RADAR_ACP_CNT' = N /\ acp_cnt_tmp' = N /\ acp_cnt' = N - 1
  <2>1. CASE arp \/ ~acp
    BY <1>2, <1>5, <1>14, <1>17, <1>18, <2>1
  <2>2. CASE ~arp /\ acp
    <3>1. acp_cnt_tmp' = acp_cnt_tmp + 1 /\ acp_cnt_tmp + 1 <= N
      BY <1>2, <1>4, <1>5, <1>10, <2>2
    <3>2. acp_cnt = acp_cnt_tmp
      BY <1>2, <1>18, <3>1
    <3>3. CASE RADAR_ACP_CNT = 0
      BY <1>17, <2>2, <3>1, <3>2, <3>3
    <3>4. CASE RADAR_ACP_CNT = N
      BY <1>2, <1>14, <1>17, <2>2, <3>1, <3>2, <3>4
    <3>5. QED  BY <1>14, <3>3, <3>4
  <2>3. QED  BY <2>1, <2>2
<1>20. first_arp' => acp_cnt' < N
  BY <1>2, <1>15, <1>17, <1>18
<1>21. Limit'
  BY <1>19, <1>20 DEF Limit
<1>22. QED  BY <1>12, <1>16, <1>21

\* The server's counter, from the ARP that starts the run.
LEMMA RunCountNext ==
    ASSUME CountInv, RunCount, NEW arp \in BOOLEAN, NEW acp \in BOOLEAN, NEW n \in {0, 1},
           NEW request \in BOOLEAN, NEW valid \in BOOLEAN,
           Edge(arp, acp, n, request, valid)
    PROVE  RunCount'
<1> USE NFacts
<1> DEFINE p == Passed(acp, n)
<1>1. PICK trig \in BOOLEAN : Registers(arp, acp, trig, request, valid)
  BY DEF Edge
<1>2. /\ turn \in Nat /\ lost \in Nat /\ ACP_IDX \in Nat /\ acp_cnt_tmp \in Nat
      /\ sim_en_req \in BOOLEAN /\ first_arp \in BOOLEAN
      /\ SinceArp \in 0 .. N /\ Counted \in 0 .. N /\ phase \in {"with", "after"}
      /\ angle \in 0 .. N - 1
  BY DEF CountInv, FTypes, Phases, SinceArp, Counted
<1>3. /\ acp => n = 0
      /\ phase' = phase
      /\ Counted' = Counted + p - (IF arp THEN N ELSE 0)
      /\ arp => SinceArp = N
      /\ arp => arpDue \/ p = 1
      /\ p = 1 => ~arpDue
  BY DEF Edge, AntennaEdge
<1>4. p = (IF acp THEN 1 ELSE 0) + n
  BY <1>3 DEF Passed
<1>5. /\ ACP_IDX' = IF ~sim_en_req THEN 0
                    ELSE IF CALIBRATED /\ first_arp /\ acp THEN ACP_IDX + 1 ELSE ACP_IDX
      /\ turn' = IF ~SIM_EN THEN 0 ELSE IF arp THEN turn + 1 ELSE turn
      /\ acp_cnt_tmp' = (IF acp THEN 1 ELSE 0) + (IF arp THEN 0 ELSE acp_cnt_tmp)
  BY <1>1, <1>2 DEF Registers, CtrlClock, CountAcp, StatClock, AcpsSinceArp
<1>6. first_arp' <=> sim_en_req /\ (first_arp \/ (CALIBRATED /\ arp))
  BY <1>1 DEF Registers, CtrlClock, FirstArp
<1>7. lost' = IF CALIBRATED /\ ~SIM_EN THEN 0 ELSE lost + n
  BY DEF Edge, Misses
<1>8. first_arp => CALIBRATED
  BY DEF CountInv, Calibration
<1>9. ~first_arp => ACP_IDX = 0
  BY DEF RunCount
<1> HIDE DEF p
<1>10. ~first_arp' => ACP_IDX' = 0
  BY <1>5, <1>6, <1>8, <1>9
<1>11. ASSUME SIM_EN'
       PROVE  /\ ACP_IDX' + lost' = turn' * N + Counted'
              /\ phase' = "after" => ACP_IDX' <= turn' * N + acp_cnt_tmp'
  <2>1. sim_en_req /\ CALIBRATED /\ (first_arp \/ arp)
    BY <1>6, <1>8, <1>11 DEF SIM_EN
  <2>2. CASE first_arp
    <3>1. PICK m \in Int : m = turn * N /\ (turn + 1) * N = m + N
      BY <1>2
    <3>2. SIM_EN
      BY <2>1, <2>2 DEF SIM_EN
    <3>3. /\ ACP_IDX + lost = m + Counted
          /\ phase = "after" => ACP_IDX <= m + acp_cnt_tmp
      BY <3>1, <3>2 DEF RunCount
    <3>4. /\ ACP_IDX' = ACP_IDX + (IF acp THEN 1 ELSE 0) /\ lost' = lost + n
          /\ turn' = IF arp THEN turn + 1 ELSE turn
      BY <1>2, <1>5, <1>7, <2>1, <2>2, <3>2
    <3>5. turn' * N = IF arp THEN m + N ELSE m
      BY <3>1, <3>4
    <3>6. ACP_IDX' + lost' = turn' * N + Counted'
      BY <1>2, <1>3, <1>4, <3>3, <3>4, <3>5
    <3>7. ASSUME phase' = "after" PROVE ACP_IDX' <= turn' * N + acp_cnt_tmp'
      <4>1. CASE ~arp
        BY <1>2, <1>3, <1>5, <3>3, <3>4, <3>5, <3>7, <4>1
      <4>2. CASE arp
        <5>1. arpDue /\ p /= 1 /\ Counted = N
          BY <1>2, <1>3, <3>7, <4>2 DEF SinceArp, Counted
        <5>2. ~acp /\ n = 0
          BY <1>3, <1>4, <5>1
        <5>3. ACP_IDX' = ACP_IDX /\ acp_cnt_tmp' = 0 /\ turn' * N = m + N
          BY <1>2, <1>5, <3>4, <3>5, <4>2, <5>2
        <5>4. QED  BY <1>2, <3>3, <5>1, <5>3
      <4>3. QED  BY <4>1, <4>2
    <3>8. QED  BY <3>6, <3>7
  <2>3. CASE ~first_arp
    <3>1. ~SIM_EN /\ arp
      BY <2>1, <2>3 DEF SIM_EN
    <3>2. ACP_IDX' = 0 /\ lost' = 0 /\ turn' = 0
      BY <1>5, <1>7, <1>9, <2>1, <2>3, <3>1
    <3>3. Counted + p = N
      <4>1. CASE phase = "with"
        <5>1. ~arpDue
          BY <4>1 DEF CountInv, FTypes
        <5>2. p = 1 /\ angle + 1 = N
          BY <1>3, <3>1, <4>1, <5>1 DEF SinceArp
        <5>3. QED  BY <1>2, <4>1, <5>2 DEF Counted
      <4>2. CASE phase = "after"
        <5>1. arpDue
          BY <1>2, <1>3, <3>1, <4>2 DEF SinceArp
        <5>2. p = 0
          BY <1>3, <1>4, <5>1
        <5>3. QED  BY <1>2, <1>3, <3>1, <4>2, <5>2 DEF Counted
      <4>3. QED  BY <1>2, <4>1, <4>2
    <3>4. p \in Int
      BY <1>4
    <3>5. Counted' = 0
      BY <1>2, <1>3, <3>1, <3>3, <3>4
    <3>6. PICK tmp \in Nat : acp_cnt_tmp' = tmp
      BY <1>2, <1>5
    <3>7. turn' * N = 0 /\ 0 * N = 0
      BY <3>2
    <3>8. QED  BY <3>2, <3>5, <3>6, <3>7
  <2>4. QED  BY <2>2, <2>3
<1>12. QED
  BY <1>10, <1>11 DEF RunCount

-----------------------------------------------------------------------------
(* Slices, numbered on and on.                                             *)

\* A run starts less than a block before the second slice of its first block.
LEMMA StartsBefore ==
    ASSUME NEW f \in Nat
    PROVE  /\ StartBlock(f) \in Int
           /\ f <= StartBlock(f) * N + 1 /\ StartBlock(f) * N + 2 - N <= f
<1> USE NFacts
<1>1. PICK q, r \in Int : q = f \div N /\ r = f % N /\ r \in 0 .. N - 1 /\ f = N * q + r
  BY DivMod
<1>2. PICK m \in Int : m = q * N /\ N * q = m /\ (q + 1) * N = m + N
  BY <1>1
<1>3. StartBlock(f) = q + (IF r <= 1 THEN 0 ELSE 1)
  BY <1>1 DEF StartBlock, Block, Position
<1>4. CASE r <= 1
  <2>1. StartBlock(f) = q /\ StartBlock(f) * N = m
    BY <1>1, <1>2, <1>3, <1>4
  <2>2. QED  BY <1>1, <1>2, <1>4, <2>1
<1>5. CASE r > 1
  <2>1. StartBlock(f) = q + 1 /\ StartBlock(f) * N = m + N
    BY <1>1, <1>2, <1>3, <1>5
  <2>2. QED  BY <1>1, <1>2, <1>5, <2>1
<1>6. QED  BY <1>1, <1>4, <1>5

\* Less than a block behind the antenna, the position tells the slice.
LEMMA UnderAntenna ==
    ASSUME NEW b \in Int, NEW c \in 0 .. N - 1, NEW t \in Int, t = b * N + c,
           NEW k \in Int, t - N < k, k <= t
    PROVE  k % N = c <=> k = t
<1> USE NFacts
<1>1. t = N * b + c
  OBVIOUS
<1>2. t % N = c
  BY <1>1, Remainder
<1>3. k < t => k % N /= t % N
  <2>1. t < k + N
    OBVIOUS
  <2>2. QED  BY <2>1, SlotsDiffer
<1>4. QED  BY <1>2, <1>3

LEMMA NextSlice ==
    ASSUME NEW L \in Int
    PROVE  /\ L % StreamLength \in 0 .. StreamLength - 1
           /\ ((L % StreamLength) + 1) % StreamLength = (L + 1) % StreamLength
           /\ Position(L % StreamLength) = L % N
           /\ Block(L % StreamLength) = (L \div N) % Slots
<1> USE NFacts
<1>1. Slots \in Int /\ Slots > 0 /\ N \in Int /\ N > 0 /\ L \in Int
  OBVIOUS
<1>2. StreamLength = Slots * N /\ StreamLength \in Int /\ StreamLength > 0
  <2>1. N * Slots \in Int /\ N * Slots >= N * 0 + N /\ N * 0 = 0
    BY <1>1, 0 \in Int, Multiples
  <2>2. Slots * N = N * Slots
    OBVIOUS
  <2>3. QED  BY <2>1, <2>2 DEF StreamLength
<1>3. L % StreamLength \in 0 .. StreamLength - 1
  BY <1>1, <1>2, DivMod
<1>4. ((L % StreamLength) + 1) % StreamLength = (L + 1) % StreamLength
  BY <1>1, <1>2, NextRound
<1>5. (L % (Slots * N)) % N = L % N /\ (L % (Slots * N)) \div N = (L \div N) % Slots
  BY <1>1, Pieces
<1>6. QED  BY <1>2, <1>3, <1>4, <1>5 DEF Position, Block

-----------------------------------------------------------------------------
(* The bank of a simulator that plays.                                     *)

\* The counters: at an ARP at least two ACPs of the turn were seen, and when
\* only the ARP is missing, the position is that of a full turn if all were.
LEMMA Playing ==
    ASSUME CountInv, SIM_EN, NEW arp \in BOOLEAN, NEW acp \in BOOLEAN, NEW n \in {0, 1},
           NEW request \in BOOLEAN, NEW valid \in BOOLEAN,
           Edge(arp, acp, n, request, valid)
    PROVE  /\ acp_cnt \in 0 .. N - 1 /\ turn \in Nat /\ FirstBlock \in Int
           /\ FirstBlock' = FirstBlock /\ first' = first
           /\ turn' = IF arp THEN turn + 1 ELSE turn
           /\ acp_cnt' = IF arp THEN (IF acp THEN 1 ELSE 0)
                         ELSE IF acp /\ acp_cnt < N - 1 THEN acp_cnt + 1 ELSE acp_cnt
           /\ ~arp /\ ~acp => acp_cnt_tmp' = acp_cnt_tmp
           /\ arp => acp_cnt >= 2
           /\ arpDue' /\ ~arpDue =>
                  /\ acp_cnt >= 1 /\ acp_cnt' >= 2
                  /\ acp_cnt_tmp' = N => acp_cnt' = acp_cnt
<1> USE NFacts
<1>1. PICK trig \in BOOLEAN : Registers(arp, acp, trig, request, valid)
  BY DEF Edge
<1>2. /\ turn \in Nat /\ missed \in Nat /\ first \in Nat
      /\ acp_cnt_tmp \in Nat /\ acp_cnt \in Nat /\ SinceArp \in 0 .. N
  BY DEF CountInv, FTypes, SinceArp
<1>3. /\ first_arp /\ CALIBRATED /\ RADAR_ACP_CNT = N /\ arp_samples >= 1
      /\ SinceArp <= acp_cnt_tmp + missed /\ acp_cnt_tmp <= SinceArp
      /\ acp_cnt < N
      /\ acp_cnt = acp_cnt_tmp \/ (acp_cnt_tmp = N /\ acp_cnt = N - 1)
  <2>1. first_arp /\ CALIBRATED /\ RADAR_ACP_CNT = N
    BY DEF SIM_EN, CountInv, Calibration
  <2>2. arp_samples >= 1
    BY <2>1 DEF CountInv, FTypes, CALIBRATED
  <2>3. QED  BY <2>1, <2>2 DEF CountInv, Counting, Limit
<1>4. /\ acp_cnt_tmp' = (IF acp THEN 1 ELSE 0) + (IF arp THEN 0 ELSE acp_cnt_tmp)
      /\ acp_cnt' = IF arp THEN (IF acp THEN 1 ELSE 0)
                    ELSE IF acp /\ acp_cnt < N - 1 THEN acp_cnt + 1 ELSE acp_cnt
      /\ turn' = IF arp THEN turn + 1 ELSE turn
      /\ first' = first
  BY <1>1, <1>2, <1>3 DEF Registers, StatClock, AcpsSinceArp, AxisClock, CountPosition
<1>5. FirstBlock \in Int /\ FirstBlock' = FirstBlock
  <2>1. FirstBlock = StartBlock(first) /\ FirstBlock' = StartBlock(first')
    BY DEF FirstBlock, StartBlock
  <2>2. QED  BY <1>2, <1>4, <2>1, StartsBefore
<1>6. n + (IF arp THEN 0 ELSE missed) < N - 1 /\ missed < N - 1
  BY DEF Edge, Misses, CountInv, FTypes
<1>7. arp => acp_cnt >= 2
  <2>1. arp => SinceArp = N
    BY DEF Edge, AntennaEdge
  <2>2. QED  BY <1>2, <1>3, <1>6, <2>1
<1>8. ASSUME arpDue', ~arpDue
      PROVE  /\ acp_cnt >= 1 /\ acp_cnt' >= 2
             /\ acp_cnt_tmp' = N => acp_cnt' = acp_cnt
  <2>1. SinceArp = N - 1 /\ ~arp /\ Passed(acp, n) = 1
    BY <1>8 DEF Edge, AntennaEdge
  <2>2. acp => n = 0
    BY DEF Edge, AntennaEdge
  <2>3. acp \/ n = 1
    BY <2>1 DEF Passed
  <2>4. acp_cnt = acp_cnt_tmp /\ acp_cnt_tmp <= N - 1 /\ N - 1 <= acp_cnt_tmp + missed
    BY <1>2, <1>3, <2>1
  <2>5. CASE acp
    <3>1. n = 0 /\ missed < N - 1 /\ acp_cnt_tmp >= 1
      BY <1>2, <1>6, <2>1, <2>2, <2>4, <2>5
    <3>2. acp_cnt' = (IF acp_cnt < N - 1 THEN acp_cnt + 1 ELSE acp_cnt)
          /\ acp_cnt_tmp' = acp_cnt_tmp + 1
      BY <1>2, <1>4, <2>1, <2>5
    <3>3. QED  BY <1>2, <2>4, <3>1, <3>2
  <2>6. CASE ~acp
    <3>1. n = 1 /\ 1 + missed < N - 1
      BY <1>2, <1>6, <2>1, <2>3, <2>6
    <3>2. acp_cnt_tmp >= 2
      BY <1>2, <2>4, <3>1
    <3>3. acp_cnt' = acp_cnt /\ acp_cnt_tmp' = acp_cnt_tmp
      BY <1>2, <1>4, <2>1, <2>6
    <3>4. QED  BY <1>2, <2>4, <3>2, <3>3
  <2>7. QED  BY <2>5, <2>6
<1>9. acp_cnt \in 0 .. N - 1 /\ (~arp /\ ~acp => acp_cnt_tmp' = acp_cnt_tmp)
  BY <1>2, <1>3, <1>4
<1>10. QED  BY <1>2, <1>4, <1>5, <1>7, <1>8, <1>9

LEMMA BankClock ==
    ASSUME CountInv, SIM_EN, NEW arp \in BOOLEAN, NEW acp \in BOOLEAN, NEW n \in {0, 1},
           NEW request \in BOOLEAN, NEW valid \in BOOLEAN,
           Edge(arp, acp, n, request, valid), NEW L \in Nat, next = L % StreamLength
    PROVE  \/ /\ S_AXIS_TREADY /\ valid
              /\ next' = (L + 1) % StreamLength
              /\ BANK' = L % StreamLength /\ ACP_POS' = L % N /\ ~S_AXIS_TREADY'
           \/ /\ S_AXIS_TREADY => ~valid
              /\ UNCHANGED <<next, BANK, ACP_POS>>
              /\ S_AXIS_TREADY' <=> acp_cnt /= ACP_POS
<1>1. PICK trig \in BOOLEAN : Registers(arp, acp, trig, request, valid)
  BY DEF Edge
<1>2. CASE Taken(valid)
  <2>1. BANK' = next /\ ACP_POS' = Position(next) /\ S_AXIS_TREADY' = FALSE
        /\ next' = (next + 1) % StreamLength
    BY <1>1, <1>2 DEF Registers, AxisClock, AxisReset, AxisLoad, AxisWait
  <2>2. QED  BY <1>2, <2>1, NextSlice DEF Taken
<1>3. CASE ~Taken(valid)
  BY <1>1, <1>3 DEF Registers, AxisClock, AxisReset, AxisLoad, AxisWait, Taken
<1>4. QED  BY <1>2, <1>3

\* Nothing in the bank: the first slice is less than a block before the one
\* under the antenna.
LEMMA UnfilledTarget ==
    ASSUME CountInv, SIM_EN, NEW L \in Nat, Unfilled(L)
    PROVE  /\ Target = FirstBlock * N + acp_cnt /\ Target \in Int /\ FirstBlock * N \in Int
           /\ L <= FirstBlock * N + 1 /\ FirstBlock * N + 1 - N < L
<1> USE NFacts
<1>1. FirstBlock = StartBlock(first) /\ L = first /\ turn = 0 /\ acp_cnt \in Nat
  BY DEF FirstBlock, StartBlock, Unfilled, CountInv, FTypes
<1>2. StartBlock(L) \in Int /\ L <= StartBlock(L) * N + 1 /\ StartBlock(L) * N + 2 - N <= L
  BY StartsBefore
<1>3. PICK m \in Int : m = FirstBlock * N
  BY <1>1, <1>2
<1>4. (FirstBlock + turn) * N = m
  BY <1>1, <1>2, <1>3
<1>5. QED  BY <1>1, <1>2, <1>3, <1>4 DEF Target

LEMMA TargetType ==
    ASSUME CountInv, SIM_EN
    PROVE  Target \in Int /\ acp_cnt \in 0 .. N - 1
<1>1. first \in Nat /\ turn \in Nat /\ acp_cnt \in Nat /\ acp_cnt < N /\ N \in Nat
  BY NFacts DEF CountInv, FTypes, Limit, SIM_EN
<1>2. FirstBlock \in Int
  BY <1>1, StartsBefore DEF FirstBlock, StartBlock
<1>3. QED  BY <1>1, <1>2 DEF Target

\* The bank asks for a slice as long as it does not hold the one it wants.
LEMMA Ready ==
    ASSUME CountInv, SIM_EN, NEW L \in Nat
    PROVE  /\ Unfilled(L) => (acp_cnt /= ACP_POS <=> acp_cnt = 1)
           /\ Filled(L) => (acp_cnt /= ACP_POS <=> L - 1 < Target)
<1>1. Target \in Int /\ acp_cnt \in 0 .. N - 1 /\ N \in Nat
  BY TargetType, NFacts
<1>2. ASSUME Filled(L) PROVE acp_cnt /= ACP_POS <=> L - 1 < Target
  <2>1. PICK b \in Int : b = FirstBlock + turn
    <3>1. first \in Nat /\ turn \in Nat
      BY DEF CountInv, FTypes
    <3>2. QED  BY <3>1, StartsBefore DEF FirstBlock, StartBlock
  <2>2. Target = b * N + acp_cnt
    BY <2>1 DEF Target
  <2>3. Target - N < L - 1 /\ L - 1 <= Target /\ ACP_POS = (L - 1) % N
    BY <1>2 DEF Filled
  <2>4. PICK k, t \in Int, c \in 0 .. N - 1 : k = L - 1 /\ t = Target /\ c = acp_cnt
    BY <1>1
  <2>5. k % N = c <=> k = t
    <3>1. t = b * N + c
      BY <2>2, <2>4
    <3>2. t - N < k /\ k <= t
      BY <2>3, <2>4
    <3>3. QED  BY <2>1, <2>4, <3>1, <3>2, UnderAntenna
  <2>6. ACP_POS = acp_cnt <=> L - 1 = Target
    BY <2>3, <2>4, <2>5
  <2>7. QED  BY <1>1, <2>3, <2>6
<1>3. ASSUME Unfilled(L) PROVE acp_cnt /= ACP_POS <=> acp_cnt = 1
  BY <1>1, <1>3 DEF Unfilled
<1>4. QED  BY <1>2, <1>3

\* When the stream has had its clocks, the bank holds what it wants.
LEMMA CaughtUp ==
    ASSUME CountInv, SIM_EN, NEW L \in Nat, gap = Gap
    PROVE  /\ Unfilled(L) => acp_cnt = 0 /\ ~S_AXIS_TREADY
           /\ Filled(L) => L - 1 = Target /\ ~S_AXIS_TREADY
<1> USE NFacts
<1>1. Target \in Int /\ acp_cnt \in 0 .. N - 1 /\ S_AXIS_TREADY \in BOOLEAN
  BY TargetType DEF CountInv, FTypes
<1>2. ASSUME Unfilled(L) PROVE acp_cnt = 0 /\ ~S_AXIS_TREADY
  <2>1. acp_cnt = 1 => L <= Target
    BY <1>1, <1>2, UnfilledTarget
  <2>2. QED  BY <1>1, <1>2, <2>1 DEF Unfilled
<1>3. ASSUME Filled(L) PROVE L - 1 = Target /\ ~S_AXIS_TREADY
  BY <1>1, <1>3 DEF Filled
<1>4. QED  BY <1>2, <1>3

\* A slice that is asked for fills the bank.
LEMMA Asked ==
    ASSUME CountInv, SIM_EN, NEW L \in Nat, Unfilled(L) \/ Filled(L), S_AXIS_TREADY
    PROVE  /\ Target - N < L /\ L <= Target
           /\ gap + 2 * (Target + 1 - L) <= Gap + 1
           /\ arpDue => acp_cnt >= 2 /\ Target = L /\ acp_cnt_tmp /= N
<1> USE NFacts
<1>1. Target \in Int /\ acp_cnt \in 0 .. N - 1
  BY TargetType
<1>2. CASE Unfilled(L)
  BY <1>1, <1>2, UnfilledTarget DEF Unfilled
<1>3. CASE Filled(L)
  BY <1>1, <1>3 DEF Filled
<1>4. QED  BY <1>2, <1>3

LEMMA TargetNext ==
    ASSUME CountInv, SIM_EN, NEW arp \in BOOLEAN, NEW acp \in BOOLEAN, NEW n \in {0, 1},
           NEW request \in BOOLEAN, NEW valid \in BOOLEAN,
           Edge(arp, acp, n, request, valid)
    PROVE  Target' = Target + (IF arp THEN N ELSE 0) + acp_cnt' - acp_cnt
<1> USE NFacts
<1>1. /\ acp_cnt \in 0 .. N - 1 /\ turn \in Nat /\ FirstBlock \in Int
      /\ FirstBlock' = FirstBlock
      /\ turn' = IF arp THEN turn + 1 ELSE turn
      /\ acp_cnt' = IF arp THEN (IF acp THEN 1 ELSE 0)
                    ELSE IF acp /\ acp_cnt < N - 1 THEN acp_cnt + 1 ELSE acp_cnt
  BY Playing
<1>2. PICK b, m \in Int : b = FirstBlock + turn /\ m = b * N /\ (b + 1) * N = m + N
  BY <1>1
<1>3. Target = m + acp_cnt
  BY <1>2 DEF Target
<1>4. Target' = (IF arp THEN m + N ELSE m) + acp_cnt'
  <2>1. CASE arp
    <3>1. FirstBlock' + turn' = b + 1
      BY <1>1, <1>2, <2>1
    <3>2. QED  BY <1>2, <2>1, <3>1 DEF Target
  <2>2. CASE ~arp
    <3>1. FirstBlock' + turn' = b
      BY <1>1, <1>2, <2>2
    <3>2. QED  BY <1>2, <2>2, <3>1 DEF Target
  <2>3. QED  BY <2>1, <2>2
<1>5. PICK c \in Int : acp_cnt' = c
  <2>1. acp_cnt' \in Int
    BY <1>1
  <2>2. QED  BY ONLY <2>1
<1>6. QED  BY <1>1, <1>2, <1>3, <1>4, <1>5

\* A clock without a pulse: the bank stays, or comes closer by a slice.
LEMMA QuietInStep ==
    ASSUME CountInv, SIM_EN, NEW L \in Nat,
           next = L % StreamLength, Unfilled(L) \/ Filled(L),
           NEW request \in BOOLEAN, NEW valid \in BOOLEAN,
           Edge(FALSE, FALSE, 0, request, valid)
    PROVE  \E K \in Nat : next' = K % StreamLength /\ (Unfilled(K) \/ Filled(K))'
<1> USE NFacts
<1>1. /\ first' = first /\ turn' = turn /\ acp_cnt' = acp_cnt /\ acp_cnt_tmp' = acp_cnt_tmp
      /\ acp_cnt \in 0 .. N - 1
  BY Playing
<1>2. Target \in Int /\ gap \in 0 .. Gap /\ S_AXIS_TREADY \in BOOLEAN /\ arpDue \in BOOLEAN
  BY TargetType DEF CountInv, FTypes
<1>3. Target' = Target
  <2>1. Target' = Target + (IF FALSE THEN N ELSE 0) + acp_cnt' - acp_cnt
    BY TargetNext
  <2>2. QED  BY <1>1, <1>2, <2>1
<1>4. /\ gap' = IF valid /\ gap < Gap THEN gap + 1 ELSE gap
      /\ arpDue' <=> arpDue
  BY DEF Edge, AntennaEdge, Passed
<1>5. CASE /\ S_AXIS_TREADY /\ valid
           /\ next' = (L + 1) % StreamLength
           /\ BANK' = L % StreamLength /\ ACP_POS' = L % N /\ ~S_AXIS_TREADY'
  <2>1. /\ Target - N < L /\ L <= Target
        /\ gap + 2 * (Target + 1 - L) <= Gap + 1
        /\ arpDue => acp_cnt >= 2 /\ Target = L /\ acp_cnt_tmp /= N
    BY <1>5, Asked
  <2>2. (L + 1) - 1 = L
    OBVIOUS
  <2>3. gap' + 2 * (Target + 1 - (L + 1)) <= Gap
    BY <1>2, <1>4, <2>1
  <2>4. Target - 1 <= L <=> Target <= L + 1
    BY <1>2
  <2>5. Filled(L + 1)'
    BY <1>1, <1>2, <1>3, <1>4, <1>5, <2>1, <2>2, <2>3 DEF Filled
  <2>6. QED  BY <1>5, <2>5
<1>6. CASE /\ S_AXIS_TREADY => ~valid
           /\ UNCHANGED <<next, BANK, ACP_POS>>
           /\ S_AXIS_TREADY' <=> acp_cnt /= ACP_POS
  <2>1. CASE Unfilled(L)
    <3>1. S_AXIS_TREADY' <=> acp_cnt = 1
      BY <1>6, <2>1, Ready
    <3>2. Unfilled(L)'
      BY <1>1, <1>2, <1>3, <1>4, <1>6, <2>1, <3>1 DEF Unfilled
    <3>3. QED  BY <1>6, <3>2
  <2>2. CASE Filled(L)
    <3>1. S_AXIS_TREADY' <=> L - 1 < Target
      BY <1>6, <2>2, Ready
    <3>2. Filled(L)'
      BY <1>1, <1>2, <1>3, <1>4, <1>6, <2>2, <3>1 DEF Filled
    <3>3. QED  BY <1>6, <3>2
  <2>3. QED  BY <2>1, <2>2
<1>7. QED  BY <1>5, <1>6, BankClock

\* An ACP, which the stream has had its clocks for: there is one more slice to
\* come at most, or the first block to find.
LEMMA PulseInStep ==
    ASSUME CountInv, SIM_EN, NEW L \in Nat,
           next = L % StreamLength, Unfilled(L) \/ Filled(L),
           NEW acp \in BOOLEAN, NEW n \in {0, 1}, Passed(acp, n) = 1,
           NEW request \in BOOLEAN, NEW valid \in BOOLEAN,
           Edge(FALSE, acp, n, request, valid)
    PROVE  next' = L % StreamLength /\ (Unfilled(L) \/ Filled(L))'
<1> USE NFacts
<1>1. /\ first' = first /\ turn' = turn /\ FirstBlock' = FirstBlock
      /\ acp_cnt \in 0 .. N - 1
      /\ acp_cnt' = IF acp /\ acp_cnt < N - 1 THEN acp_cnt + 1 ELSE acp_cnt
      /\ arpDue' /\ ~arpDue =>
             /\ acp_cnt >= 1 /\ acp_cnt' >= 2
             /\ acp_cnt_tmp' = N => acp_cnt' = acp_cnt
  BY Playing
<1>2. Target \in Int
  BY TargetType
<1>3. Target' = Target + acp_cnt' - acp_cnt
  <2>1. Target' = Target + (IF FALSE THEN N ELSE 0) + acp_cnt' - acp_cnt
    BY TargetNext
  <2>2. QED  BY <1>1, <1>2, <2>1
<1>4. gap = Gap /\ gap' = 0 /\ ~arpDue
  BY DEF Edge, AntennaEdge
<1>5. /\ Unfilled(L) => acp_cnt = 0 /\ ~S_AXIS_TREADY
      /\ Filled(L) => L - 1 = Target /\ ~S_AXIS_TREADY
  BY <1>4, CaughtUp
<1>6. /\ UNCHANGED <<next, BANK, ACP_POS>>
      /\ S_AXIS_TREADY' <=> acp_cnt /= ACP_POS
  BY <1>5, BankClock
<1>7. CASE Unfilled(L)
  <2>1. acp_cnt = 0 /\ ~S_AXIS_TREADY'
    BY <1>5, <1>6, <1>7, Ready
  <2>2. acp_cnt' = (IF acp THEN 1 ELSE 0) /\ ~arpDue'
    BY <1>1, <1>4, <2>1
  <2>3. Target = FirstBlock * N + 0 /\ FirstBlock * N \in Int /\ FirstBlock * N + 1 - N < L
    BY <1>7, <2>1, UnfilledTarget
  <2>4. Target' = Target + (IF acp THEN 1 ELSE 0)
    BY <1>2, <1>3, <2>1, <2>2
  <2>5. acp => 0 + 2 * (Target + 1 + 1 - L) <= Gap
    BY <1>2, <2>3
  <2>6. acp_cnt' = 1 => gap' + 2 * (Target' + 1 - L) <= Gap
    BY <1>2, <1>4, <2>2, <2>4, <2>5
  <2>7. Unfilled(L)'
    BY <1>1, <1>6, <1>7, <2>1, <2>2, <2>6 DEF Unfilled
  <2>8. QED  BY <1>6, <2>7
<1>8. CASE Filled(L)
  <2>1. L - 1 = Target /\ ~S_AXIS_TREADY'
    BY <1>5, <1>6, <1>8, Ready
  <2>2. Target' = Target + (IF acp /\ acp_cnt < N - 1 THEN 1 ELSE 0)
    BY <1>1, <1>2, <1>3
  <2>3. /\ Target' - N < L - 1 /\ L - 1 <= Target' /\ Target' - 1 <= L - 1
        /\ gap' + 2 * (Target' + 1 - L) <= Gap
    BY <1>2, <1>4, <2>1, <2>2
  <2>4. arpDue' => acp_cnt' >= 2 /\ (acp_cnt_tmp' = N => L - 1 = Target')
    BY <1>1, <1>2, <1>3, <1>4, <2>1, <2>2
  <2>5. Filled(L)'
    BY <1>6, <1>8, <2>1, <2>3, <2>4 DEF Filled
  <2>6. QED  BY <1>6, <2>5
<1>9. QED  BY <1>7, <1>8

\* The ARP: the rest of a block is to be skipped, for which there is time.
LEMMA ArpInStep ==
    ASSUME CountInv, SIM_EN, NEW L \in Nat,
           next = L % StreamLength, Unfilled(L) \/ Filled(L),
           NEW acp \in BOOLEAN, NEW n \in {0, 1},
           NEW request \in BOOLEAN, NEW valid \in BOOLEAN,
           Edge(TRUE, acp, n, request, valid)
    PROVE  \E K \in Nat : next' = K % StreamLength /\ Filled(K)' /\ K <= Target + 1
<1> USE NFacts
<1>1. /\ first' = first /\ FirstBlock' = FirstBlock
      /\ acp_cnt \in 0 .. N - 1 /\ acp_cnt >= 2
      /\ acp_cnt' = IF acp THEN 1 ELSE 0
  BY Playing
<1>2. Target \in Int
  BY TargetType
<1>3. Target' = Target + N - acp_cnt + (IF acp THEN 1 ELSE 0)
  <2>1. Target' = Target + (IF TRUE THEN N ELSE 0) + acp_cnt' - acp_cnt
    BY TargetNext
  <2>2. QED  BY <1>1, <1>2, <2>1
<1>4. /\ gap' = 0 /\ ~arpDue'
      /\ arpDue \/ gap = Gap
      /\ arpDue => ~acp
  BY DEF Edge, AntennaEdge, Passed
<1>5. Filled(L)
  BY <1>1 DEF Unfilled
<1>6. Target - 1 <= L - 1 /\ L - 1 <= Target /\ (acp => L - 1 = Target)
  <2>1. gap = Gap => L - 1 = Target
    BY <1>5, CaughtUp
  <2>2. QED  BY <1>2, <1>4, <1>5, <2>1 DEF Filled
<1>7. CASE /\ S_AXIS_TREADY /\ valid
           /\ next' = (L + 1) % StreamLength
           /\ BANK' = L % StreamLength /\ ACP_POS' = L % N /\ ~S_AXIS_TREADY'
  <2>1. L - 1 < Target
    BY <1>5, <1>7 DEF Filled
  <2>2. (L + 1) - 1 = L /\ L = Target /\ ~acp
    BY <1>2, <1>6, <2>1
  <2>3. /\ Target' - N < L /\ L <= Target'
        /\ gap' + 2 * (Target' + 1 - (L + 1)) <= Gap
    BY <1>1, <1>2, <1>3, <1>4, <2>2
  <2>4. Filled(L + 1)'
    BY <1>4, <1>7, <2>2, <2>3 DEF Filled
  <2>5. QED  BY <1>2, <1>7, <2>2, <2>4
<1>8. CASE /\ S_AXIS_TREADY => ~valid
           /\ UNCHANGED <<next, BANK, ACP_POS>>
           /\ S_AXIS_TREADY' <=> acp_cnt /= ACP_POS
  <2>1. /\ Target' - N < L - 1 /\ L - 1 < Target'
        /\ gap' + 2 * (Target' + 1 - L) <= Gap
    BY <1>1, <1>2, <1>3, <1>4, <1>6
  <2>2. L - 1 <= Target'
    BY <1>1, <1>2, <1>3, <2>1
  <2>3. gap' + 2 * (Target' + 1 - L) <= Gap + 1
    BY <1>1, <1>2, <1>3, <1>4, <2>1
  <2>4. Filled(L)'
    BY <1>4, <1>5, <1>8, <2>1, <2>2, <2>3 DEF Filled
  <2>5. QED  BY <1>2, <1>6, <1>8, <2>4
<1>9. QED  BY <1>7, <1>8, BankClock

\* The ARP that starts a run: the bank is empty.
LEMMA StartInStep ==
    ASSUME CountInv, ~SIM_EN, SIM_EN', NEW arp \in BOOLEAN, NEW acp \in BOOLEAN,
           NEW n \in {0, 1}, NEW request \in BOOLEAN, NEW valid \in BOOLEAN,
           Edge(arp, acp, n, request, valid)
    PROVE  \E K \in Nat : next' = K % StreamLength /\ Unfilled(K)'
<1> USE NFacts
<1>1. PICK trig \in BOOLEAN : Registers(arp, acp, trig, request, valid)
  BY DEF Edge
<1>2. arp
  BY <1>1 DEF SIM_EN, Registers, CtrlClock, FirstArp
<1>3. gap' = 0 /\ ~arpDue'
  BY <1>2 DEF Edge, AntennaEdge
<1>4. BANK' = NoSlice /\ ACP_POS' = 0 /\ ~S_AXIS_TREADY'
  BY <1>1 DEF Registers, AxisClock, AxisReset, AxisLoad, AxisWait
<1>5. /\ turn' = 0 /\ acp_cnt' = IF acp THEN 1 ELSE 0
      /\ first' = next'
  BY <1>1, <1>2 DEF Registers, AxisClock, CountPosition
<1>6. PICK K \in 0 .. StreamLength - 1 : next' = K
  BY FTypesNext DEF FTypes
<1>7. StreamLength \in Int /\ StreamLength > 0 /\ K \in Nat
  BY <1>6 DEF StreamLength
<1>8. K = K % StreamLength
  BY <1>6, <1>7, InFirstRound
<1>9. /\ StartBlock(K) \in Int
      /\ K <= StartBlock(K) * N + 1 /\ StartBlock(K) * N + 2 - N <= K
  BY <1>7, StartsBefore
<1>10. PICK m \in Int : m = StartBlock(K) * N
  BY <1>9
<1>11. FirstBlock' = StartBlock(K)
  BY <1>5, <1>6 DEF FirstBlock, StartBlock
<1>12. FirstBlock' + turn' = StartBlock(K)
  BY <1>5, <1>9, <1>11
<1>13. Target' = m + (IF acp THEN 1 ELSE 0)
  BY <1>5, <1>10, <1>12 DEF Target
<1>14. acp_cnt' = 1 => gap' + 2 * (Target' + 1 - K) <= Gap
  BY <1>3, <1>5, <1>7, <1>9, <1>10, <1>13
<1>15. Unfilled(K)'
  BY <1>3, <1>4, <1>5, <1>6, <1>14 DEF Unfilled
<1>16. QED  BY <1>6, <1>7, <1>8, <1>15

LEMMA InStepNext ==
    ASSUME CountInv, InStep, NEW arp \in BOOLEAN, NEW acp \in BOOLEAN,
           NEW n \in {0, 1}, NEW request \in BOOLEAN, NEW valid \in BOOLEAN,
           Edge(arp, acp, n, request, valid)
    PROVE  InStep'
<1>1. SUFFICES ASSUME SIM_EN'
               PROVE  \E K \in Nat : next' = K % StreamLength /\ (Unfilled(K) \/ Filled(K))'
  BY DEF InStep, StreamLength
<1>2. CASE ~SIM_EN
  BY <1>1, <1>2, StartInStep
<1>3. CASE SIM_EN
  <2>1. PICK L \in Nat : next = L % StreamLength /\ (Unfilled(L) \/ Filled(L))
    BY <1>3 DEF InStep
  <2>2. CASE arp
    <3>1. Edge(TRUE, acp, n, request, valid)
      BY <2>2
    <3>2. QED  BY <1>3, <2>1, <3>1, ArpInStep
  <2>3. CASE ~arp /\ Passed(acp, n) = 1
    <3>1. Edge(FALSE, acp, n, request, valid)
      BY <2>3
    <3>2. QED  BY <1>3, <2>1, <2>3, <3>1, PulseInStep
  <2>4. CASE ~arp /\ Passed(acp, n) /= 1
    <3>1. ~acp /\ n = 0
      BY <2>4 DEF Passed
    <3>2. Edge(FALSE, FALSE, 0, request, valid)
      BY <2>4, <3>1
    <3>3. QED  BY <1>3, <2>1, <3>2, QuietInStep
  <2>5. QED  BY <2>2, <2>3, <2>4
<1>4. QED  BY <1>2, <1>3

-----------------------------------------------------------------------------
(* The invariant.                                                          *)

LEMMA FInit == ASSUME Init PROVE FInv
<1> USE NFacts
<1>1. FTypes
  <2>1. next \in 0 .. StreamLength - 1 /\ first \in 0 .. StreamLength - 1
    BY DEF Init
  <2>2. lost = 0 /\ gap = 0 /\ missed = 0 /\ turn = 0 /\ angle \in 0 .. N - 1
        /\ phase \in Phases /\ arpDue = FALSE
    BY DEF Init
  <2>3. /\ arp_samples = 0 /\ acp_samples = 0 /\ trig_samples = 0
        /\ acp_cnt_tmp = 0 /\ acp_cnt_max = 0 /\ ACP_IDX = 0 /\ acp_cnt = 0
    BY DEF Init, StatInit, CtrlInit, AxisInit
  <2>4. sim_en_req \in BOOLEAN /\ first_arp \in BOOLEAN /\ S_AXIS_TREADY \in BOOLEAN
    BY DEF Init, CtrlInit, AxisInit
  <2>5. arpDue \in BOOLEAN /\ ~arpDue
    BY <2>2
  <2>6. QED
    BY <2>1, <2>2, <2>3, <2>4, <2>5 DEF FTypes
<1>2. Counting
  BY DEF Init, StatInit, Counting, SinceArp, Phases
<1>3. Calibration /\ Limit
  BY DEF Init, StatInit, CtrlInit, AxisInit, Calibration, Limit, CALIBRATED
<1>4. RunCount /\ InStep
  BY DEF Init, CtrlInit, RunCount, InStep, SIM_EN
<1>5. QED  BY <1>1, <1>2, <1>3, <1>4 DEF FInv, CountInv

LEMMA FNext == ASSUME ~Jitter, FInv, [Next]_vars PROVE FInv'
<1>1. CASE Next
  <2>1. PICK arp, acp, request, valid \in BOOLEAN, n \in {0, 1} :
                Edge(arp, acp, n, request, valid)
    BY <1>1, EveryEdge DEF FInv, CountInv
  <2>2. CountInv'
    BY <2>1, FTypesNext, CountingNext DEF FInv, CountInv
  <2>3. RunCount'
    BY <2>1, RunCountNext DEF FInv
  <2>4. InStep'
    BY <2>1, InStepNext DEF FInv
  <2>5. QED  BY <2>2, <2>3, <2>4 DEF FInv
<1>2. CASE UNCHANGED vars
  <2> USE <1>2 DEF vars, statVars, ctrlVars, axisVars, antenna
  <2>1. FTypes'
    BY DEF FInv, CountInv, FTypes, CALIBRATED
  <2>2. Counting' /\ Calibration' /\ Limit'
    BY DEF FInv, CountInv, Counting, Calibration, Limit, CALIBRATED, SinceArp
  <2>3. RunCount'
    BY DEF FInv, RunCount, SIM_EN, SinceArp, Counted
  <2>4. InStep'
    <3>1. Target' = Target
      BY DEF Target, FirstBlock
    <3>2. \A L \in Nat : (Unfilled(L)' <=> Unfilled(L)) /\ (Filled(L)' <=> Filled(L))
      BY <3>1 DEF Unfilled, Filled
    <3>3. (SIM_EN' <=> SIM_EN) /\ next' = next
      BY DEF SIM_EN
    <3>4. QED  BY <3>2, <3>3 DEF FInv, InStep
  <2>5. QED  BY <2>1, <2>2, <2>3, <2>4 DEF FInv, CountInv
<1>3. QED  BY <1>1, <1>2

\* The inductive invariant of the FPGA with a steady antenna.
THEOREM FInvariant ==
    ASSUME ~Jitter
    PROVE  Spec => []FInv
<1>1. Init => FInv
  BY FInit
<1>2. FInv /\ [Next]_vars => FInv'
  BY FNext
<1>3. QED  BY <1>1, <1>2, PTL DEF Spec

\* "Number of ACPs between two ARPs" (radar_statistics.v): from the clock at
\* which the signals count as calibrated the number is that of a full turn.
THEOREM CountCalibrated ==
    ASSUME ~Jitter
    PROVE  Spec => []CalibratedCount
<1>1. FInv => CalibratedCount
  BY DEF FInv, CountInv, Calibration, CalibratedCount, SIM_EN
<1>2. QED  BY <1>1, FInvariant, PTL

\* radar_sim_target_axis.v: two clocks for each slice the stream offers are
\* enough for the bank to hold the slice under the antenna.
THEOREM StreamSettles ==
    ASSUME ~Jitter
    PROVE  Spec => []Settled
<1>1. FInv => Settled
  <2> SUFFICES ASSUME FInv, SIM_EN, gap = Gap PROVE acp_cnt = ACP_POS
    BY DEF Settled, DATA_VALID
  <2>1. CountInv
    BY DEF FInv
  <2>2. PICK L \in Nat : Unfilled(L) \/ Filled(L)
    BY DEF FInv, InStep
  <2>3. CASE Unfilled(L)
    BY <2>1, <2>3, CaughtUp DEF Unfilled
  <2>4. CASE Filled(L)
    <3>1. L - 1 = Target /\ Target \in Int
      BY <2>1, <2>4, CaughtUp, TargetType
    <3>2. acp_cnt /= ACP_POS <=> L - 1 < Target
      BY <2>1, <2>4, Ready
    <3>3. QED  BY <3>1, <3>2
  <2>5. QED  BY <2>2, <2>3, <2>4
<1>2. QED  BY <1>1, FInvariant, PTL

\* radar_sim_target_axis.v: when DATA_VALID lets the azimuth generator use the
\* bank, its slice is of the block of this turn, whatever was missed.
THEOREM OneBlockATurn ==
    ASSUME ~Jitter
    PROVE  Spec => []PlaysBlockOfTurn
<1>1. FInv => PlaysBlockOfTurn
  <2> USE NFacts
  <2> SUFFICES ASSUME FInv, SIM_EN, acp_cnt = ACP_POS, BANK /= NoSlice
               PROVE  Block(BANK) = (FirstBlock + turn) % Slots
    BY DEF PlaysBlockOfTurn, DATA_VALID
  <2>1. CountInv
    BY DEF FInv
  <2>2. PICK L \in Nat : Unfilled(L) \/ Filled(L)
    BY DEF FInv, InStep
  <2>3. Filled(L)
    BY <2>2 DEF Unfilled
  <2>4. Target \in Int /\ acp_cnt \in 0 .. N - 1
    BY <2>1, TargetType
  <2>5. L - 1 = Target
    <3>1. ~(L - 1 < Target)
      BY <2>1, <2>3, Ready
    <3>2. QED  BY <2>3, <2>4, <3>1 DEF Filled
  <2>6. BANK = Target % StreamLength
    BY <2>3, <2>5 DEF Filled
  <2>7. Block(BANK) = (Target \div N) % Slots
    BY <2>4, <2>6, NextSlice
  <2>8. PICK b \in Int : b = FirstBlock + turn
    <3>1. first \in Nat /\ turn \in Nat
      BY <2>1 DEF CountInv, FTypes
    <3>2. QED  BY <3>1, StartsBefore DEF FirstBlock, StartBlock
  <2>9. Target = N * b + acp_cnt
    <3>1. Target = b * N + acp_cnt
      BY <2>8 DEF Target
    <3>2. b * N = N * b
      BY <2>8
    <3>3. QED  BY <3>1, <3>2
  <2>10. Target \div N = b
    <3>1. (N * b + acp_cnt) \div N = b
      BY <2>4, <2>8, Division
    <3>2. QED  BY <2>9, <3>1
  <2>11. QED  BY <2>7, <2>8, <2>10
<1>2. QED  BY <1>1, FInvariant, PTL

\* Where the server's division leaves it.
LEMMA Rotations ==
    ASSUME FInv, SIM_EN
    PROVE  /\ turn * N <= ACP_IDX + lost
           /\ ServerRotation <= turn \/ (ServerRotation = turn + 1 /\ arpDue)
           /\ ServerRotation > turn => acp_cnt_tmp = N
<1> USE NFacts
<1>1. /\ turn \in Nat /\ lost \in Nat /\ ACP_IDX \in Nat /\ acp_cnt_tmp \in Nat
      /\ Counted \in 0 .. N /\ SinceArp \in 0 .. N /\ acp_cnt_tmp <= SinceArp
      /\ phase \in {"with", "after"} /\ angle \in 0 .. N - 1
  BY DEF FInv, CountInv, FTypes, Counting, Phases, SinceArp, Counted
<1>2. PICK m \in Int : m = turn * N /\ N * turn = m /\ N * (turn + 1) = m + N
  BY <1>1
<1>3. /\ ACP_IDX + lost = m + Counted
      /\ phase = "after" => ACP_IDX <= m + acp_cnt_tmp
  BY <1>2 DEF FInv, RunCount
<1>4. PICK q \in Int, r \in 0 .. N - 1 : q = ServerRotation /\ ACP_IDX = N * q + r
  BY <1>1, DivMod DEF ServerRotation
<1>5. N * q \in Int /\ N * q <= m + Counted
  <2>1. N * q \in Int
    BY <1>4
  <2>2. QED  BY <1>1, <1>3, <1>4, <2>1
<1>6. ~(q > turn + 1)
  <2>1. SUFFICES ASSUME turn + 1 < q PROVE FALSE
    BY <1>1, <1>4
  <2>2. N * q >= N * (turn + 1) + N
    BY <1>1, <1>4, <2>1, Multiples
  <2>3. QED  BY <1>1, <1>2, <1>5, <2>2
<1>7. ASSUME q = turn + 1 PROVE arpDue /\ acp_cnt_tmp = N
  <2>1. N * q = m + N
    BY <1>2, <1>7
  <2>2. Counted = N
    BY <1>1, <1>2, <1>5, <2>1
  <2>3. phase = "after" /\ arpDue
    BY <1>1, <2>2 DEF Counted, SinceArp
  <2>4. m + N <= m + acp_cnt_tmp
    BY <1>1, <1>2, <1>3, <1>4, <2>1, <2>3
  <2>5. QED  BY <1>1, <1>2, <2>3, <2>4
<1>8. QED  BY <1>1, <1>2, <1>3, <1>4, <1>6, <1>7

\* SimulatorHandler reads ACP_IDX (radar_sim_ctrl_axi.v) and divides by the
\* calibrated count: it lags only by what was missed, and leads only while the
\* ARP is due.
THEOREM ServerFollows ==
    ASSUME ~Jitter
    PROVE  Spec => []RotationFollows
<1>1. FInv => RotationFollows
  BY Rotations DEF RotationFollows
<1>2. QED  BY <1>1, FInvariant, PTL

\* When the server goes on to the next rotation, and may write over the block
\* in memory, the bank has the block's last slice.
THEOREM LastSliceFirst ==
    ASSUME ~Jitter
    PROVE  Spec => []MovesOnAfterLastSlice
<1>1. FInv => MovesOnAfterLastSlice
  <2> USE NFacts
  <2> SUFFICES ASSUME FInv, SIM_EN, ServerRotation > turn
               PROVE  BANK /= NoSlice /\ Position(BANK) = N - 1
    BY DEF MovesOnAfterLastSlice
  <2>1. CountInv /\ first_arp
    BY DEF FInv, SIM_EN
  <2>2. acp_cnt_tmp = N
    BY Rotations
  <2>3. arpDue
    <3>1. turn \in Nat
      BY <2>1 DEF CountInv, FTypes
    <3>2. ServerRotation <= turn \/ (ServerRotation = turn + 1 /\ arpDue)
      BY Rotations
    <3>3. ServerRotation \in Int
      BY <2>1, DivMod DEF ServerRotation, CountInv, FTypes
    <3>4. QED  BY <3>1, <3>2, <3>3
  <2>4. PICK L \in Nat : Filled(L)
    BY <2>3 DEF FInv, InStep, Unfilled
  <2>5. L - 1 = Target
    BY <2>2, <2>3, <2>4 DEF Filled
  <2>6. acp_cnt = N - 1
    BY <2>1, <2>2 DEF CountInv, Limit
  <2>7. Target \in Int /\ acp_cnt \in 0 .. N - 1
    BY <2>1, TargetType
  <2>8. BANK = Target % StreamLength
    BY <2>4, <2>5 DEF Filled
  <2>9. BANK \in 0 .. StreamLength - 1 /\ Position(BANK) = Target % N
    BY <2>7, <2>8, NextSlice
  <2>10. BANK /= NoSlice
    BY <2>9, FpgaAssumption DEF StreamLength
  <2>11. ~(acp_cnt /= ACP_POS)
    BY <2>1, <2>4, <2>5, <2>7, Ready
  <2>12. Target % N = ACP_POS
    BY <2>4, <2>5 DEF Filled
  <2>13. QED  BY <2>6, <2>9, <2>10, <2>11, <2>12
<1>2. QED  BY <1>1, FInvariant, PTL

-----------------------------------------------------------------------------
(* One block in each turn: BlockPerTurn.                                   *)

\* The slices at which a run that is stopped in block b can leave the stream.
LEMMA StopsIn ==
    ASSUME NEW K \in Nat, NEW b \in Int, b * N + 2 - N <= K, K <= b * N + N + 1
    PROVE  StartBlock(K) \in {b, b + 1}
<1> USE NFacts
<1>1. PICK s \in Int : s = StartBlock(K) /\ K <= s * N + 1 /\ s * N + 2 - N <= K
  BY StartsBefore
<1>2. PICK m, k, l \in Int : /\ m = N * b /\ m = b * N /\ k = N * s /\ k = s * N
                             /\ l = N * (b + 1) /\ l = m + N
  BY <1>1
<1>3. ~(s < b)
  <2>1. s < b => m >= k + N
    BY <1>1, <1>2, Multiples
  <2>2. QED  BY <1>1, <1>2, <2>1
<1>4. ~(b + 1 < s)
  <2>1. b + 1 < s => k >= l + N
    BY <1>1, <1>2, Multiples
  <2>2. QED  BY <1>1, <1>2, <2>1
<1>5. QED  BY <1>1, <1>3, <1>4

LEMMA StartRound ==
    ASSUME NEW L \in Nat
    PROVE  StartBlock(L % StreamLength) % Slots = StartBlock(L) % Slots
<1> USE NFacts
<1>1. PICK q \in Int : q = L \div N
  BY DivMod
<1>2. Position(L % StreamLength) = Position(L) /\ Block(L % StreamLength) = q % Slots
  <2>1. Position(L % StreamLength) = L % N /\ Block(L % StreamLength) = (L \div N) % Slots
    BY L \in Int, NextSlice
  <2>2. Position(L) = L % N
    BY DEF Position
  <2>3. QED  BY <1>1, <2>1, <2>2
<1>3. Slots \in Int /\ Slots > 0 /\ q % Slots \in 0 .. Slots - 1
  BY <1>1, DivMod
<1>4. CASE Position(L) <= 1
  <2>1. StartBlock(L % StreamLength) = q % Slots /\ StartBlock(L) = q
    BY <1>1, <1>2, <1>3, <1>4 DEF StartBlock, Block
  <2>2. (q % Slots) % Slots = q % Slots
    BY <1>3, InFirstRound
  <2>3. QED  BY <2>1, <2>2
<1>5. CASE ~(Position(L) <= 1)
  <2>1. StartBlock(L % StreamLength) = (q % Slots) + 1 /\ StartBlock(L) = q + 1
    BY <1>1, <1>2, <1>5 DEF StartBlock, Block
  <2>2. ((q % Slots) + 1) % Slots = (q + 1) % Slots
    BY <1>1, <1>3, NextRound
  <2>3. QED  BY <2>1, <2>2
<1>6. QED  BY <1>4, <1>5

\* A slice can only be taken in a run or the clock after it, and there the
\* stream is where InStep says.
Ended ==
    /\ S_AXIS_TREADY => first_arp
    /\ Handing => \E L \in Nat : next = L % StreamLength /\ (Unfilled(L) \/ Filled(L))

\* Where a run that ends now, or went on until the last clock, leaves the stream.
LEMMA EndOf ==
    ASSUME CountInv, first_arp, NEW L \in Nat, Unfilled(L) \/ Filled(L)
    PROVE  /\ FirstBlock + turn \in Int
           /\ (FirstBlock + turn) * N + 2 - N <= L /\ L <= (FirstBlock + turn) * N + N
<1> USE NFacts
<1>1. /\ first \in Nat /\ turn \in Nat /\ acp_cnt \in 0 .. N - 1
  BY DEF CountInv, FTypes, Limit
<1>2. FirstBlock = StartBlock(first) /\ FirstBlock \in Int
  BY <1>1, StartsBefore DEF FirstBlock
<1>3. PICK b, m \in Int : b = FirstBlock + turn /\ m = b * N
  BY <1>1, <1>2
<1>4. Target = m + acp_cnt
  BY <1>3 DEF Target
<1>5. CASE Filled(L)
  BY <1>1, <1>3, <1>4, <1>5 DEF Filled
<1>6. CASE Unfilled(L)
  <2>1. L = first /\ b = StartBlock(L)
    BY <1>2, <1>3, <1>6 DEF Unfilled
  <2>2. L <= StartBlock(L) * N + 1 /\ StartBlock(L) * N + 2 - N <= L
    BY StartsBefore
  <2>3. QED  BY <1>3, <2>1, <2>2
<1>7. QED  BY <1>5, <1>6

\* In the course of a run: the next turn, or the end in the block under way.
LEMMA RunClock ==
    ASSUME CountInv, SIM_EN, NEW L \in Nat, next = L % StreamLength, Unfilled(L) \/ Filled(L),
           NEW arp \in BOOLEAN, NEW acp \in BOOLEAN, NEW n \in {0, 1},
           NEW request \in BOOLEAN, NEW valid \in BOOLEAN,
           Edge(arp, acp, n, request, valid)
    PROVE  \E K \in Nat : /\ next' = K % StreamLength /\ (Unfilled(K) \/ Filled(K))'
                          /\ StartBlock(K) \in {FirstBlock + turn, FirstBlock + turn + 1}
<1> USE NFacts
<1>1. /\ acp_cnt \in 0 .. N - 1 /\ turn \in Nat /\ FirstBlock \in Int
      /\ FirstBlock' = FirstBlock /\ first' = first
      /\ turn' = IF arp THEN turn + 1 ELSE turn
      /\ acp_cnt' \in 0 .. N - 1
  BY Playing
<1>2. PICK b, m \in Int : b = FirstBlock + turn /\ m = b * N
  BY <1>1
<1>3. Target = m + acp_cnt
  BY <1>2 DEF Target
<1>4. PICK c \in 0 .. N - 1 : acp_cnt' = c
  BY <1>1
<1>5. Target' = m + (IF arp THEN N ELSE 0) + c
  <2>1. Target' = Target + (IF arp THEN N ELSE 0) + acp_cnt' - acp_cnt
    BY TargetNext
  <2>2. QED  BY <1>1, <1>2, <1>3, <1>4, <2>1
<1>6. \E K \in Nat : /\ next' = K % StreamLength /\ (Unfilled(K) \/ Filled(K))'
                     /\ arp => Filled(K)' /\ K <= Target + 1
  <2>1. CASE arp
    <3>1. Edge(TRUE, acp, n, request, valid)
      BY <2>1
    <3>2. QED  BY <2>1, <3>1, ArpInStep
  <2>2. CASE ~arp /\ Passed(acp, n) = 1
    <3>1. Edge(FALSE, acp, n, request, valid)
      BY <2>2
    <3>2. QED  BY <2>2, <3>1, PulseInStep
  <2>3. CASE ~arp /\ Passed(acp, n) /= 1
    <3>1. ~acp /\ n = 0
      BY <2>3 DEF Passed
    <3>2. Edge(FALSE, FALSE, 0, request, valid)
      BY <2>3, <3>1
    <3>3. QED  BY <2>3, <3>2, QuietInStep
  <2>4. QED  BY <2>1, <2>2, <2>3
<1>7. PICK K \in Nat : /\ next' = K % StreamLength /\ (Unfilled(K) \/ Filled(K))'
                       /\ arp => Filled(K)' /\ K <= Target + 1
  BY <1>6
<1>8. m + 2 - N <= K /\ K <= m + N + 1
  <2>1. CASE Filled(K)'
    <3>1. Target' - N < K - 1 /\ K - 1 <= Target'
      BY <2>1 DEF Filled
    <3>2. QED  BY <1>1, <1>2, <1>3, <1>5, <1>7, <3>1
  <2>2. CASE Unfilled(K)'
    <3>1. K = first /\ turn' = 0
      BY <1>1, <2>2 DEF Unfilled
    <3>2. turn = 0 /\ b = StartBlock(K)
      BY <1>1, <1>2, <3>1 DEF FirstBlock
    <3>3. K <= StartBlock(K) * N + 1 /\ StartBlock(K) * N + 2 - N <= K
      BY StartsBefore
    <3>4. QED  BY <1>2, <3>2, <3>3
  <2>3. QED  BY <1>7, <2>1, <2>2
<1>9. StartBlock(K) \in {b, b + 1}
  BY <1>2, <1>8, StopsIn
<1>10. QED  BY <1>2, <1>7, <1>9

\* The block of BlockPerTurn, and what a clock may do to it.
BlockOfTurn == (IF Handing THEN FirstBlock + turn ELSE StartBlock(next)) % Slots

OneBlock ==
    /\ BlockOfTurn' \in {BlockOfTurn, (BlockOfTurn + 1) % Slots}
    /\ ~Handing => BlockOfTurn' = BlockOfTurn

\* A run goes on, or ends with the reset that this clock asks for.
LEMMA InRun ==
    ASSUME FInv, Ended, SIM_EN,
           NEW arp \in BOOLEAN, NEW acp \in BOOLEAN, NEW n \in {0, 1},
           NEW request \in BOOLEAN, NEW valid \in BOOLEAN,
           Edge(arp, acp, n, request, valid)
    PROVE  Ended' /\ OneBlock
<1> USE NFacts
<1>1. CountInv /\ Handing /\ first_arp'
  <2>1. PICK trig \in BOOLEAN : Registers(arp, acp, trig, request, valid)
    BY DEF Edge
  <2>2. first_arp' = TRUE
    BY <2>1 DEF Registers, CtrlClock, FirstArp, SIM_EN
  <2>3. QED  BY <2>2 DEF FInv, Handing, SIM_EN
<1>2. PICK L \in Nat : next = L % StreamLength /\ (Unfilled(L) \/ Filled(L))
  BY DEF FInv, InStep
<1>3. PICK K \in Nat : /\ next' = K % StreamLength /\ (Unfilled(K) \/ Filled(K))'
                       /\ StartBlock(K) \in {FirstBlock + turn, FirstBlock + turn + 1}
  BY <1>1, <1>2, RunClock
<1>4. Ended'
  BY <1>1, <1>3 DEF Ended, StreamLength
<1>5. /\ FirstBlock \in Int /\ FirstBlock' = FirstBlock /\ turn \in Nat
      /\ turn' = IF arp THEN turn + 1 ELSE turn
  BY <1>1, Playing
<1>6. PICK b \in Int : b = FirstBlock + turn
  BY <1>5
<1>7. BlockOfTurn = b % Slots /\ ((b % Slots) + 1) % Slots = (b + 1) % Slots
  <2>1. BlockOfTurn = b % Slots
    BY <1>1, <1>6 DEF BlockOfTurn
  <2>2. ((b % Slots) + 1) % Slots = (b + 1) % Slots
    BY <1>6, Slots \in Int, Slots > 0, NextRound
  <2>3. QED  BY <2>1, <2>2
<1>8. BlockOfTurn' \in {b % Slots, (b + 1) % Slots}
  <2>1. CASE Handing'
    <3>1. FirstBlock' + turn' = b \/ FirstBlock' + turn' = b + 1
      BY <1>5, <1>6
    <3>2. BlockOfTurn' = (FirstBlock' + turn') % Slots
      BY <2>1 DEF BlockOfTurn
    <3>3. QED  BY <3>1, <3>2
  <2>2. CASE ~Handing'
    <3>1. BlockOfTurn' = StartBlock(next') % Slots
      BY <2>2 DEF BlockOfTurn, StartBlock, Block, Position
    <3>2. StartBlock(next') % Slots = StartBlock(K) % Slots
      BY <1>3, StartRound
    <3>3. StartBlock(K) = b \/ StartBlock(K) = b + 1
      BY <1>3, <1>6
    <3>4. QED  BY <3>1, <3>2, <3>3
  <2>3. QED  BY <2>1, <2>2
<1>9. QED  BY <1>1, <1>4, <1>7, <1>8 DEF OneBlock

\* The clock after it: the bank is reset, and a last slice may be taken.
LEMMA AfterRun ==
    ASSUME FInv, Ended, Handing, ~SIM_EN,
           NEW arp \in BOOLEAN, NEW acp \in BOOLEAN, NEW n \in {0, 1},
           NEW request \in BOOLEAN, NEW valid \in BOOLEAN,
           Edge(arp, acp, n, request, valid)
    PROVE  Ended' /\ OneBlock
<1> USE NFacts
<1>1. PICK trig \in BOOLEAN : Registers(arp, acp, trig, request, valid)
  BY DEF Edge
<1>2. CountInv /\ first_arp /\ ~sim_en_req
  BY DEF FInv, Handing, SIM_EN
<1>3. first_arp' = FALSE /\ S_AXIS_TREADY' = FALSE
  BY <1>1, <1>2 DEF Registers, CtrlClock, FirstArp, AxisClock, AxisReset, AxisLoad, AxisWait
<1>4. Ended' /\ ~Handing'
  BY <1>3 DEF Ended, Handing
<1>5. PICK L \in Nat : next = L % StreamLength /\ (Unfilled(L) \/ Filled(L))
  BY DEF Ended
<1>6. PICK b, m \in Int : /\ b = FirstBlock + turn /\ m = b * N
                          /\ m + 2 - N <= L /\ L <= m + N
  <2>1. /\ FirstBlock + turn \in Int
        /\ (FirstBlock + turn) * N + 2 - N <= L /\ L <= (FirstBlock + turn) * N + N
    BY <1>2, <1>5, EndOf
  <2>2. PICK b \in Int : b = FirstBlock + turn
    BY <2>1
  <2>3. b * N \in Int
    BY <2>2
  <2>4. QED  BY <2>1, <2>2, <2>3
<1>7. PICK K \in Nat : K \in {L, L + 1} /\ next' = K % StreamLength
  <2>1. (next + 1) % StreamLength = (L + 1) % StreamLength
    BY <1>5, NextSlice
  <2>2. next' = next \/ next' = (next + 1) % StreamLength
    BY <1>1 DEF Registers
  <2>3. L + 1 \in Nat
    OBVIOUS
  <2>4. QED  BY <1>5, <2>1, <2>2, <2>3
<1>8. StartBlock(K) \in {b, b + 1}
  <2>1. b * N + 2 - N <= K /\ K <= b * N + N + 1
    BY <1>6, <1>7
  <2>2. QED  BY <1>6, <2>1, StopsIn
<1>9. BlockOfTurn' = StartBlock(K) % Slots
  <2>1. BlockOfTurn' = StartBlock(next') % Slots
    BY <1>4 DEF BlockOfTurn, StartBlock, Block, Position
  <2>2. QED  BY <1>7, <2>1, StartRound
<1>10. BlockOfTurn = b % Slots /\ ((b % Slots) + 1) % Slots = (b + 1) % Slots
  <2>1. BlockOfTurn = b % Slots
    BY <1>6 DEF BlockOfTurn
  <2>2. ((b % Slots) + 1) % Slots = (b + 1) % Slots
    BY <1>6, Slots \in Int, Slots > 0, NextRound
  <2>3. QED  BY <2>1, <2>2
<1>11. QED  BY <1>4, <1>8, <1>9, <1>10 DEF OneBlock

\* No run, or the first clock of one: the stream stands.
LEMMA BetweenRuns ==
    ASSUME FInv, FInv', Ended, ~Handing,
           NEW arp \in BOOLEAN, NEW acp \in BOOLEAN, NEW n \in {0, 1},
           NEW request \in BOOLEAN, NEW valid \in BOOLEAN,
           Edge(arp, acp, n, request, valid)
    PROVE  Ended' /\ OneBlock
<1> USE NFacts
<1>1. PICK trig \in BOOLEAN : Registers(arp, acp, trig, request, valid)
  BY DEF Edge
<1>2. ~S_AXIS_TREADY /\ ~SIM_EN
  BY DEF Ended, Handing, SIM_EN
<1>3. S_AXIS_TREADY' = FALSE /\ next' = next /\ first' = next /\ turn' = 0
  BY <1>1, <1>2 DEF Registers, AxisClock, AxisReset, AxisLoad, AxisWait, Taken
<1>4. Handing' => SIM_EN'
  BY <1>3 DEF Handing, SIM_EN
<1>5. Ended'
  BY <1>3, <1>4 DEF FInv, InStep, Ended, StreamLength
<1>6. PICK b \in Int : b = StartBlock(next)
  <2>1. next \in Nat
    BY DEF FInv, CountInv, FTypes
  <2>2. QED  BY <2>1, StartsBefore
<1>7. FirstBlock' = b /\ StartBlock(next)' = b
  BY <1>3, <1>6 DEF FirstBlock, StartBlock, Block, Position
<1>8. FirstBlock' + turn' = b
  BY <1>3, <1>6, <1>7
<1>9. BlockOfTurn' = b % Slots /\ BlockOfTurn = b % Slots
  BY <1>6, <1>7, <1>8 DEF BlockOfTurn
<1>10. QED  BY <1>5, <1>9 DEF OneBlock

LEMMA TurnsNext ==
    ASSUME ~Jitter, FInv, FInv', Ended, [Next]_vars
    PROVE  Ended' /\ [Turns!Next]_(Turns!vars)
<1>1. CASE Next
  <2>1. PICK arp, acp, request, valid \in BOOLEAN, n \in {0, 1} :
                Edge(arp, acp, n, request, valid)
    BY <1>1, EveryEdge DEF FInv, CountInv
  <2>2. Ended' /\ OneBlock
    <3>1. SIM_EN \/ (Handing /\ ~SIM_EN) \/ ~Handing
      OBVIOUS
    <3>2. QED  BY <2>1, <3>1, InRun, AfterRun, BetweenRuns
  <2>3. Handing \in BOOLEAN /\ Handing' \in BOOLEAN
    BY DEF FInv, CountInv, FTypes, Handing
  <2>4. [Turns!Next]_(Turns!vars)
    BY <2>2, <2>3 DEF OneBlock, BlockOfTurn, Turns!Next, Turns!Start, Turns!Turn, Turns!Stop,
                      Turns!Following, Turns!vars
  <2>5. QED  BY <2>2, <2>4
<1>2. CASE UNCHANGED vars
  <2> USE <1>2 DEF vars, statVars, ctrlVars, axisVars, antenna
  <2>1. Handing' = Handing
    BY DEF Handing
  <2>2. \A L \in Nat : (Unfilled(L)' <=> Unfilled(L)) /\ (Filled(L)' <=> Filled(L))
    BY DEF Unfilled, Filled, Target, FirstBlock
  <2>3. Ended'
    BY <2>1, <2>2 DEF Ended
  <2>4. BlockOfTurn' = BlockOfTurn
    BY <2>1 DEF BlockOfTurn, FirstBlock, StartBlock, Block, Position
  <2>5. QED  BY <2>1, <2>3, <2>4 DEF BlockOfTurn, Turns!vars
<1>3. QED  BY <1>1, <1>2

\* radar_sim_target_axis.v implements what Playback assumes of it: the stream
\* gives one block in each turn, in order, however often the server stops a run
\* and in whatever slice of a block it does; it passes none between the runs.
THEOREM PlaysByTurns ==
    ASSUME ~Jitter
    PROVE  Spec => TurnSpec
<1>1. Init => Ended /\ Turns!Init
  <2> SUFFICES ASSUME Init PROVE Ended /\ Turns!Init
    OBVIOUS
  <2>1. ~Handing /\ ~S_AXIS_TREADY
    BY DEF Init, CtrlInit, AxisInit, Handing
  <2>2. StartBlock(next) \in Int
    BY FInit, StartsBefore DEF FInv, CountInv, FTypes
  <2>3. StartBlock(next) % Slots \in 0 .. Slots - 1
    BY <2>2, NFacts, DivMod
  <2>4. QED  BY <2>1, <2>3, NFacts DEF Ended, Turns!Init
<1>2. FInv /\ FInv' /\ Ended /\ [Next]_vars => Ended' /\ [Turns!Next]_(Turns!vars)
  BY TurnsNext
<1>3. QED  BY <1>1, <1>2, FInvariant, PTL DEF Spec, TurnSpec, Turns!Spec
=============================================================================
