-------------------------------- MODULE Fpga --------------------------------
(***************************************************************************)
(* The FPGA side of the simulator, clock by clock: RadarStatistics,        *)
(* CtrlAxi and TargetAxis wired as in design_1.tcl, between the antenna    *)
(* (ACP, ARP and TRIG pulses), the server (the enable register) and the    *)
(* stream of slices the DMA engine reads round and round from the memory   *)
(* of the queue (N slices to a block, one block in each of the Slots).     *)
(*                                                                         *)
(* The model decides what MapQueue and Playback assume: that the stream    *)
(* keeps step with the antenna, and ACP_IDX \div N with the stream.        *)
(***************************************************************************)
EXTENDS RadarStatistics, CtrlAxi, TargetAxis

CONSTANTS
    N,            \* ACPs in a turn of the antenna, and slices in a block
    Slots,        \* blocks in the stream before it repeats
    Gap,          \* timing: slices can be taken at Gap clocks between ACPs
    Jitter,       \* may ARP fall now with, now after the ACP of north?
    MaxMissed,    \* bound: ACPs of one turn that are never seen
    MaxLost,      \* bound: such ACPs before the signals are calibrated
    MaxTurns      \* bound: turns in one run of the simulator

ASSUME FpgaAssumption ==
    /\ N \in Nat /\ N > 2
    /\ Slots \in Nat \ {0} /\ Gap \in Nat
    /\ Jitter \in BOOLEAN /\ {MaxMissed, MaxLost, MaxTurns} \subseteq Nat
    /\ NoSlice \notin 0 .. Slots * N - 1

\* Between two pulses a whole block can be skipped, a slice every other clock;
\* and neither a turn nor the calibration loses too many ACPs.
ASSUME AntennaAssumption ==
    /\ 2 * N <= Gap
    /\ MaxMissed < N - 1 /\ MaxLost < Samples

VARIABLES
    angle,    \* ACPs the antenna has passed since north
    arpDue,   \* north passed, its ARP pulse still to come
    phase,    \* the ARP comes "with" the ACP of north, or "after" it
    gap,      \* clocks with a slice on offer since the last pulse
    missed,   \* ACPs of this turn that were not seen
    next,     \* the slice the stream offers next
    first,    \* history: that slice when the simulator began to play
    turn,     \* history: ARPs since then
    lost      \* history: ACPs not seen since then, or before calibration

antenna == <<angle, arpDue, phase, gap, missed>>
vars == <<statVars, ctrlVars, axisVars, antenna, next, first, turn, lost>>

Phases == {"with", "after"}
StreamLength == Slots * N
Position(slice) == slice % N
Block(slice) == slice \div N

\* The block a run plays first when the stream offers this slice: the stream is
\* never reset, and a run that finds it inside a block throws the rest away.
StartBlock(slice) == Block(slice) + (IF Position(slice) <= 1 THEN 0 ELSE 1)

\* The simulator is switched on in any position of the antenna and (after an
\* earlier run of the server) of the stream.
Init ==
    /\ StatInit /\ CtrlInit /\ AxisInit
    /\ angle \in 0 .. N - 1 /\ arpDue = FALSE /\ phase \in Phases
    /\ gap = 0 /\ missed = 0
    /\ next \in 0 .. StreamLength - 1 /\ first = next
    /\ turn = 0 /\ lost = 0

-----------------------------------------------------------------------------
\* One clock of everything inside the FPGA.
Registers(arp, acp, trig, request, valid) ==
    /\ StatClock(arp, acp, trig)
    /\ CtrlClock(request, arp, acp, CALIBRATED)
    /\ AxisClock(SIM_EN, arp, acp, RADAR_ACP_CNT, valid, next, Position(next))
    /\ next' = IF Taken(valid) THEN (next + 1) % StreamLength ELSE next
    /\ first' = IF SIM_EN THEN first ELSE next'
    /\ turn' = IF ~SIM_EN THEN 0 ELSE IF arp THEN turn + 1 ELSE turn

\* The server may write the register at any clock; the FIFO may be empty.
InsideWith(arp, acp, trig) ==
    \E request \in {sim_en_req, TRUE, FALSE}, valid \in BOOLEAN :
        Registers(arp, acp, trig, request, valid)

\* n ACPs (0 or 1) pass unseen: too short or too weak for the edge detector.
Misses(n, arp) ==
    /\ missed' = n + (IF arp THEN 0 ELSE missed) /\ missed' <= MaxMissed
    /\ lost' = IF CALIBRATED /\ ~SIM_EN THEN 0 ELSE lost + n
    /\ CALIBRATED \/ lost' <= MaxLost

\* No pulse of the antenna: gap counts the clocks the stream could use.
Quiet(trig, request, valid) ==
    /\ Registers(FALSE, FALSE, trig, request, valid)
    /\ gap' = IF valid /\ gap < Gap THEN gap + 1 ELSE gap
    /\ Misses(0, FALSE)
    /\ UNCHANGED <<angle, arpDue, phase>>

QuietClock == \E trig \in BOOLEAN, request \in {sim_en_req, TRUE, FALSE},
                 valid \in BOOLEAN : Quiet(trig, request, valid)

MayTurn == gap = Gap /\ ~arpDue /\ (SIM_EN => turn < MaxTurns)
North == angle = N - 1

\* The antenna moves on by one ACP, seen or not.
Turned ==
    /\ angle' = (angle + 1) % N
    /\ gap' = 0

SeenClock ==
    /\ MayTurn /\ ~North /\ Turned
    /\ InsideWith(FALSE, TRUE, FALSE) /\ Misses(0, FALSE)
    /\ UNCHANGED <<arpDue, phase>>

MissedClock ==
    /\ MayTurn /\ ~North /\ Turned
    /\ InsideWith(FALSE, FALSE, FALSE) /\ Misses(1, FALSE)
    /\ UNCHANGED <<arpDue, phase>>

\* The ACP of north, with or before its ARP.  With Jitter the two edges, which
\* pass through separate synchronizers, may change order from turn to turn.
NorthClock ==
    /\ MayTurn /\ North /\ Turned
    /\ phase' \in IF Jitter THEN Phases ELSE {phase}
    /\ \E acp \in BOOLEAN :
        /\ InsideWith(phase' = "with", acp, FALSE)
        /\ Misses(IF acp THEN 0 ELSE 1, phase' = "with")
    /\ arpDue' = (phase' = "after")

ArpClock ==
    /\ arpDue /\ arpDue' = FALSE /\ gap' = 0
    /\ InsideWith(TRUE, FALSE, FALSE) /\ Misses(0, TRUE)
    /\ UNCHANGED <<angle, phase>>

Next == QuietClock \/ SeenClock \/ MissedClock \/ NorthClock \/ ArpClock

\* The clock runs, the stream offers slices, the radar transmits and its
\* antenna turns.  Nothing obliges the server to write.
StreamFlows == Quiet(TRUE, sim_en_req, TRUE)
AntennaTurns == SeenClock \/ NorthClock \/ ArpClock
Spec ==
    /\ Init /\ [][Next]_vars
    /\ WF_vars(StreamFlows) /\ WF_vars(AntennaTurns)

-----------------------------------------------------------------------------
\* "Number of ACPs between two ARPs": the number given to the server, which keeps
\* it for good, and used as the limit of the position counter is that of a full
\* turn as soon as the signals count as calibrated.
CalibratedCount ==
    RADAR_ACP_CNT \in {0, N} /\ (SIM_EN => RADAR_ACP_CNT = N)

\* In the end the FPGA knows how many ACPs a turn has, whichever way ARP and
\* ACP fall and although some pulses were missed.
MeasuresTheAntenna == <>[](RADAR_ACP_CNT = N)

FirstBlock == StartBlock(first)

\* Whenever the FPGA generates a signal from a slice, that slice is of the
\* block of this turn: one block in each turn, whatever was missed.
PlaysBlockOfTurn ==
    DATA_VALID(SIM_EN) /\ BANK /= NoSlice =>
        Block(BANK) = (FirstBlock + turn) % Slots

\* A run, and the clock after it, in which one more slice may be taken.
Handing == first_arp /\ (sim_en_req \/ S_AXIS_TREADY)

\* What Playback assumes of the FPGA: it consumes one block in each turn, in
\* order, and stopped inside a block goes on in that one or the next; while the
\* simulator is off, the stream passes no block.
Turns == INSTANCE BlockPerTurn
           WITH blocks  <- Slots,
                playing <- Handing,
                block   <- (IF Handing THEN FirstBlock + turn ELSE StartBlock(next)) % Slots
TurnSpec == Turns!Spec

\* Once the stream has had its clocks, the slice of the position is there; at
\* the start of a run nothing is taken before the first ACP.
Settled ==
    SIM_EN /\ gap = Gap => DATA_VALID(SIM_EN)

\* The server believes in rotation ACP_IDX \div N.  It is behind only by the
\* ACPs missed in the run, and ahead only between the last ACP of a turn and
\* the ARP that ends it.
ServerRotation == ACP_IDX \div N
RotationFollows ==
    SIM_EN => /\ turn * N <= ACP_IDX + lost
              /\ ServerRotation <= turn \/ (ServerRotation = turn + 1 /\ arpDue)

\* When the server moves on to the next rotation, and so may overwrite the
\* block, the stream has already handed over the block's last slice.
MovesOnAfterLastSlice ==
    SIM_EN /\ ServerRotation > turn => BANK /= NoSlice /\ Position(BANK) = N - 1

\* A simulator that is enabled and stays so comes to play.
ComesToPlay ==
    sim_en_req ~> (~sim_en_req \/ (DATA_VALID(SIM_EN) /\ BANK /= NoSlice))
=============================================================================
