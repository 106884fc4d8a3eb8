------------------------------ MODULE CtrlAxi -------------------------------
(***************************************************************************)
(* radar_sim_ctrl_axi.v: the enable register the server writes, and the    *)
(* counter of ACPs it divides by calAcpCnt to know which rotation the FPGA *)
(* is playing.  Left out: the AXI handshake (a write takes effect at one   *)
(* clock) and the registers of the two output switches.                    *)
(***************************************************************************)
EXTENDS Integers

VARIABLES
    sim_en_req,   \* register 0: the server's enable
    first_arp,    \* has an ARP been seen since it was enabled?
    ACP_IDX       \* ACPs counted since then (32 bits; not reached)

ctrlVars == <<sim_en_req, first_arp, ACP_IDX>>

CtrlInit == sim_en_req = FALSE /\ first_arp = FALSE /\ ACP_IDX = 0

SIM_EN == sim_en_req /\ first_arp

\* Mutant of FirstArp: it lasts only as long as the ARP.
FirstArpPulse(arp, cal) == sim_en_req /\ cal /\ arp

\* Set by the first ARP after the request, once the signals are calibrated.
FirstArp(arp, cal) == sim_en_req /\ (first_arp \/ (cal /\ arp))

\* Mutant of CountAcp: counting does not wait for the first ARP.
CountAcpAtOnce(acp, cal) ==
    IF ~sim_en_req THEN 0
    ELSE IF cal /\ acp THEN ACP_IDX + 1 ELSE ACP_IDX

\* An ACP at the very clock of the first ARP is not counted.
CountAcp(acp, cal) ==
    IF ~sim_en_req THEN 0
    ELSE IF cal /\ first_arp /\ acp THEN ACP_IDX + 1 ELSE ACP_IDX

\* The server writes register 0 at this clock, or leaves it alone.
CtrlClock(request, arp, acp, cal) ==
    /\ sim_en_req' = request
    /\ first_arp' = FirstArp(arp, cal)
    /\ ACP_IDX' = CountAcp(acp, cal)
=============================================================================
