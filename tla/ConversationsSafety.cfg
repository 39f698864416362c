SPECIFICATION FairSpec
CONSTANTS
    Messages = {m1, m2}
    Transports = {"channel", "sync"}
    MaxSessions = 3
    MaxCommands = 2
    MaxUpsets = 1
    None = None
INVARIANTS
    OneConversation
PROPERTIES
    ArchivedIsClosed
    MessagesSettle
    ForgottenStaysOut
CHECK_DEADLOCK FALSE
