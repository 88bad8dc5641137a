SPECIFICATION Spec
CONSTANTS
    NumStreams = 2
    Rates = {44100, 48000}
INVARIANT SourcesAtDeviceRate
CHECK_DEADLOCK FALSE
