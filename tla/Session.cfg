SPECIFICATION FairSpecAll
CONSTANTS
    NumStems = 4
    NumFiles = 5
    Frames = 7
    Burst = 1
    Reserve = 1
    SeekPoints = {3, 14}
    Delay = 2
    Dispatch = 1
INVARIANTS TypeOK LastStemVouches TracksInPlace DeckOK LoopOnTime
PROPERTIES JumpIsDue LoopComesBack
