SPECIFICATION Spec
CONSTANTS
    Slice <- MCSlice
    Pushes = 3
    Streams = 2
    Capacity = 2
    PacketSize = 17
    SizeModulus = 2
    SeqModulus = 4
    FirstSeq = 3
    None = None
INVARIANTS
    IInv
    PacketsWellFormed
    AtMostOneStaleSlice
PROPERTIES
    PacketsReassemble
    ImplementsSliceStream
CHECK_DEADLOCK FALSE
