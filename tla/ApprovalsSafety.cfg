SPECIFICATION FairSpec
CONSTANTS
    Actions = {a1, a2}
    Credentials = {c1}
    Admins = {u1, u2}
    Nothing = Nothing
    MaxClicks = 3
    MaxCrashes = 1
INVARIANTS
    OneOutcome
    AnswersNeverMissing
PROPERTIES
    DecisionsAreFinal
    HoldsSettle
CHECK_DEADLOCK FALSE
