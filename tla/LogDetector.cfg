SPECIFICATION Spec
CONSTANTS
    h = h
    o = o
    z = z
    Templates <- All
    Informative <- Informing
    Globs <- ByTheGlob
    Seeds <- Configured
    GlobSeeds <- Routine
    ScopeAll = FALSE
    LearningPeriod = 3
    RareThreshold = 1
    RareMinObservations = 2
    RareMaxInterval = 2
    SpikeBucket = 3
    SpikeMinCount = 2
    DisappearanceFactor = 1
    DisappearanceMinCount = 2
    DisappearanceScanInterval = 2
    DisappearanceMinSilence = 2
    MinIntervalSamples = 0
    MaxTemplates = 2
    Runtime <- ClearOrQuiet
    MaxTime = 7
    MaxLag = 1
    MaxGap = 3
    MaxLines = 5
    MaxOrders = 1
INVARIANTS
    SilencesAreTold
    OperatorObeyed
CHECK_DEADLOCK FALSE
