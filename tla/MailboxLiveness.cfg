SPECIFICATION FairSpec
CONSTANTS
    Rows = 3
    Messages <- MCMessages
    Kinds = {"chat", "task", "slash", "context"}
    MaxPrompt = 2
    MaxTries = 0
    Faults = {}
    MaxUpsets = 1
PROPERTIES
    WorkSettles
