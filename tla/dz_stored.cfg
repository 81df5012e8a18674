CONSTANTS
    NLines = 2
    Data = {a}
    FIFO_SIZE = 9
    ALARM = 2
    NoChar = NoChar
SPECIFICATION Spec
PROPERTY Stored
