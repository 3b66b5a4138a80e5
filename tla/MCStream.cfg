SPECIFICATION FairSpec
CONSTANTS
    Stride = 2
    Rows = 2
    Sessions <- MCSessions
    Types = {2, 4, 5}
    Pictures <- MCPictures
    Interval = 4
    Others = {0}
    None = None
    MaxWork = 5
INVARIANTS ShownIsSent PoisonHolds LetGo PhotoKept
PROPERTY StreamEnds
CHECK_DEADLOCK FALSE
