SPECIFICATION Spec
CONSTANTS
    MaxRow = 3
    PauseCap = 1
    MaxClashes = 1
    MaxFaults = 1
INVARIANTS
    OneCarrier
    SeriesSurvives
    StopsHold
    BrokenSeriesPauses
CHECK_DEADLOCK FALSE
