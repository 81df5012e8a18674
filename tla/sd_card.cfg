CONSTANTS
    hc = hc
    sc = sc
    v1 = v1
    Cards = {hc, sc, v1}
    Kind <- OneOfEach
    Sectors = {1, 2}
    FatCopy <- OneCopy
    BootPart = 4
    FsInfo = 5
    KillAt <- Killable
SPECIFICATION Spec
INVARIANTS ReadyWhenInitialized
PROPERTIES WritesBelong CardComesUp
CHECK_DEADLOCK FALSE
