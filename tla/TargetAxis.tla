----------------------------- MODULE TargetAxis -----------------------------
(***************************************************************************)
(* radar_sim_target_axis.v: the register bank that holds the slice of the  *)
(* map under the antenna.  It takes slices off the stream until the        *)
(* position field of the last one equals the ACPs since the ARP.           *)
(***************************************************************************)
EXTENDS Integers

CONSTANT NoSlice      \* the bank after reset

VARIABLES
    acp_cnt,         \* ACPs since the ARP
    ACP_POS,         \* position field of the slice in the bank
    BANK,            \* the slice
    S_AXIS_TREADY,   \* ready for one more slice
    fast_fwd         \* set by an ARP, cleared by slice 0; nothing reads it

axisVars == <<acp_cnt, ACP_POS, BANK, S_AXIS_TREADY, fast_fwd>>

AxisInit ==
    /\ acp_cnt = 0 /\ ACP_POS = 0 /\ BANK = NoSlice
    /\ S_AXIS_TREADY = FALSE /\ fast_fwd = FALSE

\* Mutant of CountPosition: no limit.
CountPositionFreely(arp, acp, max) ==
    IF arp THEN (IF acp THEN 1 ELSE 0) ELSE IF acp THEN acp_cnt + 1 ELSE acp_cnt

\* Mutant of CountPosition: the limit is one too high.
CountPositionToMax(arp, acp, max) ==
    IF arp THEN (IF acp THEN 1 ELSE 0)
    ELSE IF acp /\ (max = 0 \/ acp_cnt < max) THEN acp_cnt + 1 ELSE acp_cnt

\* ACP_CNT_MAX - 1 is unsigned: before calibration it is no limit at all.
CountPosition(arp, acp, max) ==
    IF arp THEN (IF acp THEN 1 ELSE 0)
    ELSE IF acp /\ (max = 0 \/ acp_cnt < max - 1) THEN acp_cnt + 1 ELSE acp_cnt

Taken(valid) == S_AXIS_TREADY /\ valid

\* Mutant of AxisReset: ready is not reset.
AxisResetReady(en) ==
    /\ ~en
    /\ BANK' = NoSlice /\ ACP_POS' = 0
    /\ S_AXIS_TREADY' = S_AXIS_TREADY /\ fast_fwd' = FALSE

\* Not enabled: reset.  A slice offered at this clock is taken and lost.
AxisReset(en) ==
    /\ ~en
    /\ BANK' = NoSlice /\ ACP_POS' = 0
    /\ S_AXIS_TREADY' = FALSE /\ fast_fwd' = FALSE

\* A slice with position pos is loaded; ready is withdrawn for a clock.
AxisLoad(en, arp, valid, slice, pos) ==
    /\ en /\ Taken(valid)
    /\ BANK' = slice /\ ACP_POS' = pos
    /\ S_AXIS_TREADY' = FALSE
    /\ fast_fwd' = ((fast_fwd \/ arp) /\ ~(fast_fwd /\ pos = 0))

\* Mutant of AxisWait: one slice for each clock with an ACP.
AxisWaitAcp(en, arp, acp, valid) ==
    /\ en /\ ~Taken(valid)
    /\ S_AXIS_TREADY' = (S_AXIS_TREADY \/ acp)
    /\ fast_fwd' = (fast_fwd \/ arp)
    /\ UNCHANGED <<BANK, ACP_POS>>

\* Ready as long as the slice in the bank is not the one under the antenna.
AxisWait(en, arp, acp, valid) ==
    /\ en /\ ~Taken(valid)
    /\ S_AXIS_TREADY' = (acp_cnt /= ACP_POS)
    /\ fast_fwd' = (fast_fwd \/ arp)
    /\ UNCHANGED <<BANK, ACP_POS>>

AxisClock(en, arp, acp, max, valid, slice, pos) ==
    /\ acp_cnt' = CountPosition(arp, acp, max)
    /\ \/ AxisReset(en)
       \/ AxisLoad(en, arp, valid, slice, pos)
       \/ AxisWait(en, arp, acp, valid)

DATA_VALID(en) == en /\ acp_cnt = ACP_POS
=============================================================================
