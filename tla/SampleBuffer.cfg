SPECIFICATION Spec
CONSTANTS
    MaxFrames = 7
    ChannelCounts = {1, 2}
    Rates = {2, 3, 5, 8}
INVARIANTS InsideBuffer WholeInputRead LengthKept
CHECK_DEADLOCK FALSE
