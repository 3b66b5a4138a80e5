SPECIFICATION Spec
CONSTANTS
    Src = {a, b}
    Self = me
    Free = Free
    None = None
    SeqMod = 6
    SeqFirst = 4
    Span = 3
    Window = 2
    Slots = 1
    Expire = 2
    Depth = 1
    RingSlots = 1
    SaveMin = 1
    Forged = {1}
    Faulty = {"mesh/rpl"}
    MaxUptime = 2
    MaxBoots = 1
    MaxSent = 2
    MaxFails = 1
SYMMETRY Peers
INVARIANTS TypeOK NoReplay RebootSafe OnlyAuthentic FreshSeq DirtyIsCovered
PROPERTY AcceptsAtMostOnce
CHECK_DEADLOCK FALSE
