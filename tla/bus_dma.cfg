CONSTANTS
    UBAS = {1, 2}
    NxdCount = 5
    CslTimeout = 7
    MemTimeout = 3
    BusyLoop = 1
    IdleLoop = 7
    CpuCycles <- CpuIO
    CslCycles <- CslWrites
    DmaUnits = {1}
    PiUnits = {}
    DmaGap = 6
    StrobeTicks = 1
    OtherWrites = {FALSE}
SPECIFICATION Spec
INVARIANTS NoNXM TrapOnlyAbsent AckedByTarget
PROPERTIES AbsentTraps CpuReads CpuWrites
