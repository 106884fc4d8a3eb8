SPECIFICATION Spec
CONSTANTS
    Samples = 2
    NoSlice = NoSlice
    N = 4
    Slots = 3
    Gap = 8
    Jitter = FALSE
    MaxMissed = 2
    MaxLost = 1
    MaxTurns = 2
INVARIANTS
    CalibratedCount
    PlaysBlockOfTurn
    Settled
    RotationFollows
    MovesOnAfterLastSlice
PROPERTIES
    MeasuresTheAntenna
    ComesToPlay
    TurnSpec
