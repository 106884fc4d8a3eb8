CONSTANTS
    Wrap = 64
    HeaderBlocks = 4
    FileSizes = {2, 4}
    Positions = {1, 9}
    Blank = Blank
    Torn = Torn
    Unread = Unread
    MaxArp = 4
    clutter = clutter
    target = target
    Maps = {clutter, target}
    BlkCnts <- MCBlkCnts
    MaxLags <- MCMaxLags
SPECIFICATION PlaySpec
INVARIANT StartsWithFirstBlock
