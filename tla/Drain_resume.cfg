SPECIFICATION Spec
CONSTANTS
    a = a
    b = b
    seven = seven
    x = x
    y = y
    Wild = Wild
    Cut = Cut
    Lines <- MoreLines
    Numeric <- Numbers
    Param = Wild
    Truncated = Cut
    Depth = 4
    MaxChildren = 2
    MaxClusters = 0
    MaxTokens = 2
    SimNum = 2
    SimDen = 5
    Parametrize = TRUE
    MaxID = 3
PROPERTIES
    ResumesSeamlessly
