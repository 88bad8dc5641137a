SPECIFICATION Spec
CONSTANTS
    NumTracks = 2
    Steps = 2
    Unity = 2
    Volumes = {2}
    Threads = {t1, t2}
    Patient = FALSE
INVARIANT RemembersGainsBeforeFading
