SPECIFICATION Spec
CONSTANTS
    Templates = {t1, t2, t3}
    MaxLines = 4
    MaxLives = 3
INVARIANTS
    KnownStaysKnown
CHECK_DEADLOCK FALSE
