SPECIFICATION Spec
CONSTANTS
    a = a
    b = b
    seven = seven
    x = x
    y = y
    Wild = Wild
    Cut = Cut
    Lines <- SomeLines
    Numeric <- Numbers
    Param = Wild
    Truncated = Cut
    Depth = 4
    MaxChildren = 2
    MaxClusters = 2
    MaxTokens = 2
    SimNum = 2
    SimDen = 5
    Parametrize = TRUE
    MaxID = 4
INVARIANTS
    TypeOK
    TemplatesKeepTheirShape
    LinesFindTheirTemplate
