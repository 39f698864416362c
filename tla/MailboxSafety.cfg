SPECIFICATION Spec
CONSTANTS
    Rows = 2
    Messages <- MCMessages
    Kinds = {"chat", "context", "task", "clear", "slash", "wake", "system"}
    MaxPrompt = 2
    MaxTries = 1
    Faults = {"crash", "host-restart", "spawn", "restart"}
    MaxUpsets = 1
INVARIANTS
    NoDuplicateContainer
    WorkStaysClaimed
    OnePairOfHands
    FailedOnlyExhausted
    RedeliveryIsCharged
PROPERTIES
    LiveClaimsKept
    ImplementsQueue
