CONSTANTS
    Commands = {"SI", "CO", "ST", "EX"}
    Keys = {"^C", "^S"}
    Typed = FALSE
    Program = {"SEND"}
SPECIFICATION Spec
INVARIANT OutNotified
PROPERTY OutFetched
CHECK_DEADLOCK FALSE
