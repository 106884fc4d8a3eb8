CONSTANTS
    AllCnt = 3
    Separation = 3
    Buffers = {}
    Unset = Unset
SPECIFICATION RingSpec
INVARIANTS RingTypeOK RingPartition PostCompleted
