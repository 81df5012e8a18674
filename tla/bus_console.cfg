CONSTANTS
    UBAS = {1, 2}
    NxdCount = 3
    CslTimeout = 7
    MemTimeout = 3
    BusyLoop = 1
    IdleLoop = 3
    CpuCycles <- CpuSmall
    CslCycles <- CslIO
    DmaUnits = {2}
    PiUnits = {}
    DmaGap = 2
    StrobeTicks = 1
    OtherWrites = {FALSE}
SPECIFICATION FairSpec
PROPERTIES CslCompletes CslReports CpuEnds CslEnds
