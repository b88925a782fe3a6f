CONSTANTS
    g1 = g1  g2 = g2  k1 = k1
    Callers <- GradeAndClassify
    Kind <- KindOf
    MaxAttempts = 2
    Threshold = 2
    MayClose = TRUE
SPECIFICATION FairSpec
INVARIANTS
    ProbeIsAlone
    NeverWedged
PROPERTIES
    CallsReturn
    Recovers
