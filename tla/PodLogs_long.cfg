SPECIFICATION Spec
CONSTANTS
    p1 = p1
    Objects = {p1}
    Absent = "none"
    Writes <- PhaseWrites
    MaxWrites = 1
    MaxBreaks = 0
    Second = 2
    InitialSince = 2
    InitialBackoff = 1
    MaxBackoff = 4
    LongEnough = 2
    LongLines = {TRUE, FALSE}
    MaxTime = 5
    MaxLines = 3
PROPERTIES
    EachLineShipped
CHECK_DEADLOCK FALSE
