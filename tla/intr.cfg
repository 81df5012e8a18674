SPECIFICATION FairSpec
CONSTANTS
    Fitted <- OneEach
    PIH <- LevelHigh
    PIL <- LevelLow
    AprLevel = 3
    MaxEvents = 5
    BusTicks = 3
INVARIANT TypeOK NoneLost RequestStands Nested
PROPERTY VectorOfRequest Settles
