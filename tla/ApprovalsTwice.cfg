SPECIFICATION Spec
CONSTANTS
    Actions = {a1, a2}
    Credentials = {c1}
    Admins = {u1, u2}
    Nothing = Nothing
    MaxClicks = 3
    MaxCrashes = 1
INVARIANTS
    ReplaysExecuteOnce
CHECK_DEADLOCK FALSE
