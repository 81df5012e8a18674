CONSTANTS
    NLines = 2
    Data = {a}
    FIFO_SIZE = 5
    ALARM = 2
    NoChar = NoChar
SPECIFICATION Spec
INVARIANTS AlarmStands
PROPERTIES ReadsInOrder
