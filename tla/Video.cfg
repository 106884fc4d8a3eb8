SPECIFICATION Spec
CONSTANTS
    UsecDivider = 5
    TrigDivider = 20
    RadarPeriods = {9, 14, 23}
    SIZE = 3
INVARIANTS
    RangeAccurate
    SweepEnds
    PeriodAccurate
