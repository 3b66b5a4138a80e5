SPECIFICATION FairSpec
CONSTANTS
    Builds = {1, 2, 3}
    Bad = {2}
    First = 1
    Keys = {k1}
    FactoryKey = factory
    DefaultKey = base
    ConfirmAfter = 2
    None = None
    MaxTime = 3
    MaxWork = 3
    MaxFaults = 2
INVARIANTS NeverOvercounts SnapshotCarried SpentAfterUpdate ClockSane SettingsDurable
PROPERTY BadImageLeaves
