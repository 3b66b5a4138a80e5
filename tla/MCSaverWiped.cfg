SPECIFICATION Spec
CONSTANTS
    Hour = 8
    Hours = 2
    Profiles <- MCProfiles
    MaxSleep = 3
    Cadence = 2
    Nap = 3
    Levels = {3000, 3300, 3400, 3600}
    Low = 3300
    Critical = 3100
    Recover = 3400
    WasHigh = 3500
    Margin = 50
    WasHighCount = 2
    HistoryLen = 2
    MaxChanges = 4
INVARIANT PictureStays
CHECK_DEADLOCK FALSE
