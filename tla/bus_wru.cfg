CONSTANTS
    UBAS = {1, 2}
    NxdCount = 5
    CslTimeout = 7
    MemTimeout = 3
    BusyLoop = 1
    IdleLoop = 7
    CpuCycles <- CpuWru
    CslCycles <- RamCycles
    DmaUnits = {}
    PiUnits = {1, 2}
    DmaGap = 2
    StrobeTicks = 2
    OtherWrites <- AnyClock
SPECIFICATION Spec
PROPERTIES WruReads PopOnce
