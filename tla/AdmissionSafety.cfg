SPECIFICATION Spec
CONSTANTS
    Agents = {"a1", "a2"}
    Messages <- MCMessages
    From <- MCFrom
    Mentions <- MCMentions
    Connectable = {"a1"}
    CardMode = "sticky"
    Setups <- MCSetups
    Choices <- MCChoices
    None = None
    Known <- MCKnown
    MaxUpsets = 1
INVARIANTS
    ApprovedIsHeard
    TurnedAwayStaysOut
    OnlyOverdueAsk
CHECK_DEADLOCK FALSE
