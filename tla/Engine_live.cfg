SPECIFICATION FairSpec
CONSTANTS
    i1 = i1
    i2 = i2
    k1 = k1
    k2 = k2
    w1 = w1
    w2 = w2
    Ingesters = {i1, i2}
    Attentive = {i1, i2}
    Keys = {k1}
    Workers = {w1}
    Route <- OneWorker
    NSinks = 1
    ObsCap = 1
    EvtCap = 1
    MaxObs <- JustTwo
    MaxEvents = 2
PROPERTIES
    RunReturns
    EventsPublished
