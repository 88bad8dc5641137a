SPECIFICATION Spec
CONSTANTS
    NumTracks = 3
    Channels <- StereoStereoMono
    Frames <- ClickLonger
    Burst = 2
    Reserve = 3
    Pitches = {0}
    Ignored = {}
    Tempos = {2, 3}
    Unit = 2
    Need <- NeedOf
    Takes <- TakesOf
    Gives <- GivesOf
    Lack = 0
    SeekPoints = {0, 7, 14, 40}
    Presses = TRUE
    Overlap = TRUE
    Meets = 1
INVARIANTS TypeOK InsideBuffer SameTime
