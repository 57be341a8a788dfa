\* Two processes over every kind of identifier, one of which may die anywhere.
SPECIFICATION FairSpec
CONSTANTS
    Proc = {p1, p2}
    NoOne = NoOne
    Tid <- AllTids
    Requests <- AllRequests
    Dashed = {}
    Slashed = {}
    LockAcquireTimeout = 1
    KeepaliveInterval = 1
    MaxSilence = 1
    MaxCrashes = 1
INVARIANTS
    TypeOK
    NoConflictingOperations
    RunningKeepsFiles
PROPERTIES
    ImplementsIsolation
    CommandsEnd
    AbandonedFilesGo
