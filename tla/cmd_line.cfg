SPECIFICATION Spec
CONSTANTS
  LineSize = 4
  BufSize = 5
  BootLine <- MCBootLine
  Typed = {65}
  TransposeAnywhere = FALSE
INVARIANTS TypeOK ShownIsRun
PROPERTIES Edits
CHECK_DEADLOCK FALSE
