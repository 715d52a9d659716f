SPECIFICATION FairSpec
CONSTANTS
    c1 = c1
    c2 = c2
    c3 = c3
    None = None
    Conn <- MCTwo
    Workers = 2
INVARIANTS
    IInv
    OpenTracksAreRegistered
PROPERTIES
    CancelledHandlersEnd
    ImplementsRegistry
