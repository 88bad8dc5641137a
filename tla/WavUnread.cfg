SPECIFICATION Spec
CONSTANTS
    Lengths = {36}
    Sizes = {6}
    Bits = {24}
    Channels = {1}
    Block = 2
INVARIANT UnreadIsZero
CHECK_DEADLOCK FALSE
