SPECIFICATION FairSpec
CONSTANTS
    None = None
    RingSlots = 2
    BeaconTicks = 2
    MaxPuts = 3
    Pdus = {1, 2, 3}
    Intervals = {1, 2}
    LateResume = FALSE
    MaxConns = 2
    MaxRefusals = 1
    MaxProfiles = 1
INVARIANTS InOrder BeaconOwnsAir NoUnknownAdvertiser BorrowedIsReturned
PROPERTIES HandedBack NeverDark
CHECK_DEADLOCK FALSE
