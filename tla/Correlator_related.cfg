SPECIFICATION Spec
CONSTANTS
    a = a
    b = b
    Sources = {a, b}
    Signals <- AllSignals
    Window = 1
    ContextBefore = 1
    ContextAfter = 1
    ChangeHorizon = 2
    EchoWindow = 1
    MaxTrackedChanges = 2
    Clocks = {"event"}
    MaxTime = 4
    MaxLag = 0
    MaxObs <- FewObs
    MaxSignals = 1
INVARIANTS
    RelatedChangesComplete
CHECK_DEADLOCK FALSE
