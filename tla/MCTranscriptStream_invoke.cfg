CONSTANTS
    Lines <- Printed
    Kind <- KindOf
    Script <- TwoStreams
    RingCap = 4
    PipeCap = 2
SPECIFICATION FairSpec
INVARIANTS
    FinalIsLast
    LiveLinesAreKept
PROPERTIES
    FlushesExtend
    InvocationEnds
