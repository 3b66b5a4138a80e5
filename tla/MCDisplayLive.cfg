SPECIFICATION FairSpec
CONSTANTS
    HasRed = FALSE
    Commands = {"NUKE", "TEST", "UPDATE"}
    Flooded = {"UPDATE"}
    Interval = 2
    MaxPartials = 1
    None = None
    MaxCommands = 2
PROPERTIES RequestServed BatteryKills
CHECK_DEADLOCK FALSE
