SPECIFICATION FairSpec
CONSTANTS
    NumTracks = 2
    Steps = 2
    Unity = 3
    Volumes = {0, 3}
    Threads = {t1}
    Patient = TRUE
INVARIANTS TypeOK Settled PatientInv
PROPERTIES ImplementsDesk PauseEnds PlayRestores
