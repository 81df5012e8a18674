CONSTANTS
    Commands = {"EM", "HA", "CO", "RD"}
    Keys = {}
    Typed = TRUE
    Program = {"TAKE", "HALT"}
SPECIFICATION FairSpec
INVARIANTS TypeOK TmpRestored InNotified
PROPERTIES HaltCause HaEnds HandlersEnd
CHECK_DEADLOCK FALSE
