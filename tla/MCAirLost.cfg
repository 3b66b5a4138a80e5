SPECIFICATION FairSpec
CONSTANTS
    None = None
    RingSlots = 1
    BeaconTicks = 2
    MaxPuts = 3
    Pdus = {1, 2, 3}
    Intervals = {1, 2}
    LateResume = FALSE
    MaxConns = 1
    MaxRefusals = 0
    MaxProfiles = 0
PROPERTY EveryEntryPulled
CHECK_DEADLOCK FALSE
