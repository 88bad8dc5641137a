SPECIFICATION FairSpec
CONSTANTS
    NumTracks = 2
    Channels <- StereoMono
    Frames <- SixEach
    Burst = 2
    Reserve = 3
    Pitches = {0}
    Ignored = {}
    Tempos = {2}
    Unit = 2
    Need <- NeedOf
    Takes <- TakesOf
    Gives <- GivesOf
    Lack = 1
    SeekPoints = {0, 3}
    Presses = TRUE
    Overlap = FALSE
    Meets = 0
PROPERTY PlaysThroughOnce
