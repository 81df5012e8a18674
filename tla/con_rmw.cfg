CONSTANTS
    Commands = {"HA", "CO"}
    Keys = {}
    Typed = FALSE
    Program = {"HALT", "SEND"}
SPECIFICATION Spec
PROPERTY HaltHolds
CHECK_DEADLOCK FALSE
