SPECIFICATION FairSpec
CONSTANTS
    NumStreams = 3
    Rates = {44100, 48000}
INVARIANTS TypeOK NoStreamLost TunedStreamRuns StartsOpened
PROPERTIES DisconnectedIsClosed RestartEnds
CHECK_DEADLOCK FALSE
