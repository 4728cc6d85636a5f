SPECIFICATION FairSpec
CONSTANTS
    Unset = Unset
    NoNumber = NoNumber
    Settings <- MCSettings
    Lengths = {0, 1, 2, 3, 4, 5, 6, 7, 8}
    Chunk = 3
    Default = 7
CHECK_DEADLOCK FALSE
INVARIANTS
    TypeOK
    OutputIsBounded
    OutcomeIsExact
PROPERTIES
    LoopEnds
