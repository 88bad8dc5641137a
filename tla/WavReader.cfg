SPECIFICATION Spec
CONSTANTS
    Lengths = {41, 46}
    Sizes <- DeclaredSizes
    Bits = {8, 16, 20, 24, 32}
    Channels = {1, 2}
    Block = 2
INVARIANTS TypeOK InsideBuffer AudioOnly NothingUnset
PROPERTY ParseEnds
CHECK_DEADLOCK FALSE
