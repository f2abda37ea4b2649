SPECIFICATION Spec
CONSTANTS
    i1 = i1
    i2 = i2
    k1 = k1
    k2 = k2
    w1 = w1
    w2 = w2
    Ingesters = {i1}
    Attentive = {i1}
    Keys = {k1, k2}
    Workers = {w1, w2}
    Route <- TwoWorkers
    NSinks = 2
    ObsCap = 1
    EvtCap = 1
    MaxObs <- TwoAndOne
    MaxEvents = 2
INVARIANTS
    TypeOK
    NoSendOnClosed
    Accounts
PROPERTIES
    ImplementsStreams
