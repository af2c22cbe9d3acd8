SPECIFICATION FramingSpec
CONSTANTS
    Lengths = {0, 2, 3, 5}
    MaxLines = 3
    MaxBytes = 21
    MAXDATARECV <- MCRecv
    MAXDATASIZE <- MCSize
    MaxWrong = 1
INVARIANTS FramingInv BytesInOrder CleanLinesArrive JoinsNeedACut
CHECK_DEADLOCK FALSE
