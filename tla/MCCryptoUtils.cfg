CONSTANTS
    Pool = 48
    Block = 16
    Lengths <- WordLengths
    SeedSizes = {32, 34}
    Maxes = {0, 1, 2, 3, 4, 5, 10, 16}
    Width = 5
    MaxBlocks = 13
SPECIFICATION Spec
INVARIANTS
    TypeOK
    BufferFilled
    StreamInOrder
    RangeUniform
CHECK_DEADLOCK FALSE
