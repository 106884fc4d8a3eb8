------------------------------- MODULE Video --------------------------------
(***************************************************************************)
(* The way from a trigger of the radar to the simulated video: clk_divider *)
(* (the microsecond clock and the built-in trigger), edge_detect, the      *)
(* trigger switch (mux_2_1), azimuth_signal_generator and the trigger      *)
(* period of radar_statistics, wired as in design_1.tcl.                   *)
(*                                                                         *)
(* Clock is one edge of the 100 MHz clock.  Only the microsecond clock and *)
(* the trigger meet here: neither knows where in its period the other is.  *)
(***************************************************************************)
EXTENDS Integers

CONSTANTS
    UsecDivider,   \* clocks in a microsecond (100)
    TrigDivider,   \* clocks between two built-in triggers (300300)
    RadarPeriods,  \* clocks between two triggers of a radar, in any order
    SIZE           \* samples in a slice, one for each microsecond (3072)

ASSUME VideoAssumption ==
    /\ UsecDivider \in Nat /\ TrigDivider \in Nat /\ SIZE \in Nat \ {0}
    /\ UsecDivider > 2 /\ TrigDivider > 2
    /\ RadarPeriods \subseteq Nat /\ \A p \in RadarPeriods : p > 2

VARIABLES
    TRIG_SEL,      \* switch SW7: the built-in trigger
    usec_counter,  \* counter of the microsecond divider
    trig_counter,  \* counter of the trigger, and the period it counts to
    trig_period,
    usec_resync,   \* the two bits of an edge detector, the older one first
    trig_resync,
    clk_idx,       \* sample being sent
    trig_us_tmp,   \* microseconds since the trigger
    trig_us_max,   \* the longest trigger period measured
    sinceTrig,     \* history: clocks since the trigger, or since power-on
    longest        \* history: the longest such interval

dividers == <<TRIG_SEL, usec_counter, trig_counter, trig_period>>
detectors == <<usec_resync, trig_resync>>
vars == <<dividers, detectors, clk_idx, trig_us_tmp, trig_us_max, sinceTrig, longest>>

-----------------------------------------------------------------------------
Divided(counter, DIVIDER) == IF counter + 1 >= DIVIDER THEN 0 ELSE counter + 1
OUT_SIG(counter, DIVIDER) == counter <= DIVIDER \div 2

Resync(bits, async_sig) == <<bits[2], async_sig>>
rise(bits) == bits = <<FALSE, TRUE>>

USEC_PE == rise(usec_resync)
TRIG == rise(trig_resync)

\* The built-in trigger has a fixed period, that of a radar may be staggered.
Period(builtIn) == IF builtIn THEN {TrigDivider} ELSE RadarPeriods

Init ==
    /\ TRIG_SEL \in BOOLEAN
    /\ usec_counter = 0 /\ usec_resync = <<FALSE, FALSE>>
    /\ trig_period \in Period(TRIG_SEL)
    /\ trig_counter \in IF TRIG_SEL THEN {0} ELSE 0 .. trig_period - 1
    /\ trig_resync = <<FALSE, FALSE>>
    /\ clk_idx = 0 /\ trig_us_tmp = 0 /\ trig_us_max = 0
    /\ sinceTrig = 0 /\ longest = 0

-----------------------------------------------------------------------------
Dividers ==
    /\ usec_counter' = Divided(usec_counter, UsecDivider)
    /\ trig_counter' = Divided(trig_counter, trig_period)
    /\ trig_period' \in IF trig_counter' = 0 THEN Period(TRIG_SEL) ELSE {trig_period}
    /\ UNCHANGED TRIG_SEL

EdgeDetectors ==
    /\ usec_resync' = Resync(usec_resync, OUT_SIG(usec_counter, UsecDivider))
    /\ trig_resync' = Resync(trig_resync, OUT_SIG(trig_counter, trig_period))

\* Mutant of NextSample: the sweep starts again at its end.
NextSampleWraps ==
    IF TRIG THEN 0
    ELSE IF USEC_PE THEN (clk_idx + 1) % SIZE ELSE clk_idx

\* Mutant of NextSample: the microsecond goes on as if there were no trigger.
NextSampleLate ==
    IF USEC_PE /\ clk_idx < SIZE THEN clk_idx + 1 ELSE IF TRIG THEN 0 ELSE clk_idx

\* A trigger restarts the sweep; the microsecond of the same clock is lost.
NextSample ==
    IF TRIG THEN 0
    ELSE IF USEC_PE /\ clk_idx < SIZE THEN clk_idx + 1 ELSE clk_idx

\* Mutant of MicrosecondsSinceTrig: the count is not started again.
MicrosecondsSinceEver == IF USEC_PE THEN trig_us_tmp + 1 ELSE trig_us_tmp

\* Here that microsecond is counted.
MicrosecondsSinceTrig ==
    IF TRIG THEN (IF USEC_PE THEN 1 ELSE 0)
    ELSE IF USEC_PE THEN trig_us_tmp + 1 ELSE trig_us_tmp

LongestPeriod == IF trig_us_max < trig_us_tmp THEN trig_us_tmp ELSE trig_us_max

Clock ==
    /\ Dividers /\ EdgeDetectors
    /\ clk_idx' = NextSample
    /\ trig_us_tmp' = MicrosecondsSinceTrig
    /\ trig_us_max' = LongestPeriod
    /\ sinceTrig' = IF TRIG THEN 0 ELSE sinceTrig + 1
    /\ longest' = IF longest < sinceTrig THEN sinceTrig ELSE longest

Next == Clock
Spec == Init /\ [][Next]_vars

\* The output of the generator while DATA_VALID, the slice being a set of samples.
GEN_SIGNAL(EN, DATA) == EN /\ clk_idx < SIZE /\ clk_idx \in DATA

-----------------------------------------------------------------------------
\* "The signal based on the memory register for the current time": the sample on
\* air is that of the microseconds since the trigger, to less than one, wherever
\* in a microsecond the trigger came.
RangeAccurate ==
    clk_idx < SIZE =>
        /\ clk_idx * UsecDivider < sinceTrig + UsecDivider
        /\ sinceTrig < (clk_idx + 1) * UsecDivider

\* After its last sample a sweep is over; nothing is sent until the next trigger.
SweepEnds ==
    sinceTrig >= SIZE * UsecDivider => ~GEN_SIGNAL(TRUE, 0 .. SIZE)

\* "TRIG signal period": the period reported is that of the longest interval, to
\* less than a microsecond and the clock it takes to store it.
Interval == IF longest < sinceTrig THEN sinceTrig ELSE longest
PeriodAccurate ==
    /\ trig_us_max * UsecDivider <= Interval + UsecDivider
    /\ Interval <= (trig_us_max + 1) * UsecDivider
=============================================================================
