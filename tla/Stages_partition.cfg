SPECIFICATION Spec
CONSTANTS
    Inputs <- Observations
    Workers = {1, 2}
    Route <- Partitions
    MaxLogLength = 2
INVARIANTS
    OneWorkerPerSource
CHECK_DEADLOCK FALSE
