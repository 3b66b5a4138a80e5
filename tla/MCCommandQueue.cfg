SPECIFICATION FairSpec
CONSTANTS
    Slot = {s1, s2}
    None = None
    Commands = {"REBOOT", "DFU:START", "DFU:DONE", "VSTREAM:start", "VSTREAM:stop", "UPDATE"}
    MaxLinks = 2
INVARIANTS TypeOK SlotsConserved OldCommandsDropped
PROPERTY NothingLeftBehind
CHECK_DEADLOCK FALSE
