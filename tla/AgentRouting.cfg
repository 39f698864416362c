SPECIFICATION Spec
CONSTANTS
    asker = asker
    helper = helper
    other = other
    Groups = {asker, helper, other}
    Chat = Chat
    Chatters = {asker}
    Start <- MCStart
    Links <- MCLinks
    Edges <- MCEdges
    Gated <- MCGated
    MaxAttempts = 2
    MaxSessions = 4
    MaxChats = 1
    MaxRows = 4
    MaxSends = 3
    MaxEvents = 1
INVARIANTS
    OneCopy
    NothingVanishes
PROPERTIES
    LandsWhereAddressed
    RouteIsAuthorised
    AnswersReturn
CHECK_DEADLOCK FALSE
