CONSTANTS
    SIZE = 3
    BUFSZ = 2
    Data = {"a", "b"}
    Marked = {"b"}
    Commands = {"RESET", "TRIG", "MATCH", "DUMP", "BR OFF", "BR MATCH", "BR FULL", "CO"}
    Waits = {TRUE, FALSE}
    StrobeTicks = 3
SPECIFICATION FairSpec
INVARIANTS DepthOK ReadsOldest OneRecord CommandsTake
PROPERTIES Records CommandsEnd
