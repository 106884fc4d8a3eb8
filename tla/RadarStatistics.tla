-------------------------- MODULE RadarStatistics ---------------------------
(***************************************************************************)
(* radar_statistics.v: how many ACPs the antenna gives in a turn, and      *)
(* whether enough of each signal has been seen to trust that number.       *)
(*                                                                         *)
(* Everything is a register of the 100 MHz clock: StatClock is one edge of *)
(* it, with the pulses present at that edge.  Its RST input is RECAL, which *)
(* nothing ever sets.  The periods in microseconds are measured the same   *)
(* way and are only reported; they are left out.                           *)
(***************************************************************************)
EXTENDS Integers

CONSTANT Samples     \* a signal is trusted after more than 7 samples

ASSUME SamplesAssumption == Samples \in Nat

VARIABLES
    arp_samples, acp_samples, trig_samples,   \* *_sample_count
    acp_cnt_tmp,      \* ACPs of the turn under way
    acp_cnt_max,      \* the largest number of ACPs any turn has had
    RADAR_ACP_CNT     \* output register, copied from the maximum

statVars == <<arp_samples, acp_samples, trig_samples,
              acp_cnt_tmp, acp_cnt_max, RADAR_ACP_CNT>>

StatInit ==
    /\ arp_samples = 0 /\ acp_samples = 0 /\ trig_samples = 0
    /\ acp_cnt_tmp = 0 /\ acp_cnt_max = 0 /\ RADAR_ACP_CNT = 0

CALIBRATED ==
    arp_samples > Samples /\ acp_samples > Samples /\ trig_samples > Samples

\* Mutant of Sampled: a counter stops where samples begin to be enough.
SampledTooFew(count, pulse) == IF pulse /\ count < Samples THEN count + 1 ELSE count

\* The 32-bit sample counters, kept at the first value that counts as enough
\* (a counter that wraps around is not modelled).
Sampled(count, pulse) == IF pulse /\ count <= Samples THEN count + 1 ELSE count

\* Mutant of AcpsSinceArp: the "edge case handling" is missing.
AcpsSinceArpZero(count, arp, acp) ==
    IF arp THEN 0 ELSE IF acp THEN count + 1 ELSE count

\* An ARP starts a new count; an ACP of the same clock belongs to it.
AcpsSinceArp(count, arp, acp) ==
    IF arp THEN (IF acp THEN 1 ELSE 0) ELSE IF acp THEN count + 1 ELSE count

StatClock(arp, acp, trig) ==
    /\ acp_cnt_max' = IF acp_cnt_max < acp_cnt_tmp THEN acp_cnt_tmp
                                                   ELSE acp_cnt_max
    /\ RADAR_ACP_CNT' = IF CALIBRATED THEN acp_cnt_max ELSE RADAR_ACP_CNT
    /\ acp_cnt_tmp' = AcpsSinceArp(acp_cnt_tmp, arp, acp)
    /\ arp_samples' = Sampled(arp_samples, arp)
    /\ acp_samples' = Sampled(acp_samples, arp)      \* of turns, not of ACPs
    /\ trig_samples' = Sampled(trig_samples, trig)
=============================================================================
