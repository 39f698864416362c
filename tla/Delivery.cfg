SPECIFICATION FairSpec
CONSTANTS
    Count = 3
    Rows <- MCRows
    Kinds = {"chat", "card", "barred", "unaddressed"}
    Sessions = {s1, s2}
    TaskSessions = {s1}
    Openings = {{s1}, {s2}}
    NoSession = NoSession
    MaxAttempts = 2
    MaxUpsets = 1
INVARIANTS
    NoUnforcedDuplicate
    FailedMeansUnseen
    CardsAreAnswerable
PROPERTIES
    ShownInOrder
    ImplementsOutbox
    RowsSettle
