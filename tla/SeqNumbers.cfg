SPECIFICATION NumbersSpec
CONSTANTS
    Writers = {loop, tool}
    MaxSeq = 6
INVARIANTS
    OnlyRepliesCollide
    RefusedOnlyWhenOvertaken
PROPERTIES
    SortsAfter
