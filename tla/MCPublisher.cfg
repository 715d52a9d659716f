SPECIFICATION FairSpec
CONSTANTS
    MaxFormats <- MCFormats
    MaxBlocks = 1
INVARIANTS
    IInv
    OutputThreadsAreSafe
    NoBlockOutlivesAudio
    ParameterSetsMatch
    SlicesMatchDescription
PROPERTIES
    ReleaseEnds
    RecorderEnds
    EarlyServerIsDescribable
