SPECIFICATION Spec
CONSTANTS
    N = 3
    SliceBytes = 4
    ByteBits = 2
    Header = 2
    PositionBytes = 1
    Reserved = 2
    Spread = 1
    Impulse = 2
    MaxSignalTime = 6
    MaxInt = 31
    Answers = {"yes", "no"}
    Durations = {1, 2, 3}
    Times = {3, 5, 6}
    MaxHits = 2
    MaxComputes = 2
CHECK_DEADLOCK FALSE
INVARIANTS HoldsTheScenario FileServes FailsOnlyBeyondInt
