SPECIFICATION BoundedSpec
CONSTANTS
    p1 = p1
    p2 = p2
    post1 = post1
    None = None
    Packetizer <- MCPacketizer
    Post <- MCPost
INVARIANTS
    IInv
    ForgottenThreadsAreInterrupted
    SessionCoversPacketizers
    PlayAnnouncesFirstSeq
    NothingLeftBehind
PROPERTIES
    SilentAfterStop
    CloseEndsEverything
    ImplementsSession
