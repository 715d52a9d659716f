SPECIFICATION SlowReaderSpec
CONSTANTS
    p1 = p1
    p2 = p2
    post1 = post1
    None = None
    Packetizer <- MCPacketizer
    Post <- MCPost
INVARIANTS
    PlayingStreamIsFlagged
