CONSTANTS
    AllCnt = 12
    Separation = 12
    clutter = clutter
    target = target
    Channels = {clutter, target}
    Blocks <- MCBlocks
    Buffers <- MCBuffers
    NoBd = NoBd
    Unset = Unset
SPECIFICATION Spec
INVARIANT OldBdsFreed
