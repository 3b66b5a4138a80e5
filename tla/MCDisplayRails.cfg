SPECIFICATION Spec
CONSTANTS
    HasRed = TRUE
    Commands = {"LTEST", "PICTURE", "SAVER"}
    Flooded = {}
    Interval = 2
    MaxPartials = 2
    None = None
    MaxCommands = 4
INVARIANT RailsNeverStayOn
CHECK_DEADLOCK FALSE
