SPECIFICATION FairSpec
CONSTANTS
    NumTracks = 2
    Channels <- StereoMono
    Frames <- TenEach
    Burst = 1
    Reserve = 2
    Pitches = {0, 1}
    Ignored = {1}
    Tempos = {2}
    Unit = 2
    Need <- NeedOf
    Takes <- TakesOf
    Gives <- GivesOf
    Lack = 1
    SeekPoints = {7}
    Presses = TRUE
    Overlap = TRUE
    Meets = 1
INVARIANTS SameTime  PitchNotMissed
PROPERTY PitchReachesAll
