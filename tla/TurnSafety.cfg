SPECIFICATION FairSpec
CONSTANTS
    Agents = {r1, r2, g1, d1}
    Researchers = {r1, r2}
    Meters = {g1}
    Keys = {k1, k2}
    MaxSteps = 2
    MaxBatch = 2
    None = None
INVARIANTS
    BudgetsHold
    SatisfiedIsNotRedone
PROPERTIES
    TurnEnds
CHECK_DEADLOCK FALSE
