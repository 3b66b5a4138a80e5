SPECIFICATION Spec
CONSTANTS
    HasRed = FALSE
    Commands = {"NUKE", "PICTURE", "UPDATE", "FAST", "LUTSET", "MODE", "ROT", "RULER", "TIME_EQ", "PALTEST", "TONETEST", "TIME", "DSAVER", "LTEST", "LTEST0", "ANIM", "TEST", "FAPPLY_RED", "FAPPLY", "PROBE", "DFU", "VSTREAM"}
    Flooded = {"UPDATE", "PICTURE", "FAST", "DSAVER"}
    Interval = 2
    MaxPartials = 2
    None = None
    MaxCommands = 2
INVARIANTS WavesSound OneStray RailsDown
PROPERTIES RequestDrawn
CHECK_DEADLOCK FALSE
