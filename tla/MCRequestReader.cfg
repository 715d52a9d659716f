SPECIFICATION FairSpec
CONSTANTS
    Streams <- MCStreams
    SocketReadBuffer = 300
INVARIANTS
    IInv
    NeverPastItem
    LostPlaceHasCause
PROPERTIES
    PlainStreamIsServed
    HandlerEndsAfterClose
