SPECIFICATION Spec
CONSTANTS
    BufSize = 2
    MaxLen = 4
INVARIANTS WholeOrComplained CreatedMeansRequested
PROPERTIES Ends
CHECK_DEADLOCK FALSE
