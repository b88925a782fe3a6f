CONSTANTS
    Versions = 2
    MaxLogs = 1
    BCap = 1
    CCap = 1
    MaxLosses = 1
SPECIFICATION FairSpec
CHECK_DEADLOCK FALSE
INVARIANTS
    NoUseAfterClose
PROPERTIES
    NoticeIsShown
    ReopenReconciles
    ConnectionsEnd
