SPECIFICATION Spec
CONSTANTS
    a = a
    b = b
    Sources = {a, b}
    Signals <- AllSignals
    Window = 1
    ContextBefore = 2
    ContextAfter = 1
    ChangeHorizon = 1
    EchoWindow = 1
    MaxTrackedChanges = 2
    Clocks = {"wall", "event"}
    MaxTime = 2
    MaxLag = 0
    MaxObs <- FewObs
    MaxSignals = 1
INVARIANTS
    SignalsAreTold
    ContextSurrounds
    EventsKeepTheirWindow
CHECK_DEADLOCK FALSE
