SPECIFICATION FairSpec
CONSTANTS
    k1 = k1
    k2 = k2
    e1 = e1
    e2 = e2
    e3 = e3
    None = None
    Key <- MCKey
    Entry <- MCEntry
    Timeout = 1
INVARIANTS
    IInv
    PreviousHasFuture
PROPERTIES
    EntriesExpire
    ImplementsCache
