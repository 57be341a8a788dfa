\* Two processes, one of which may die anywhere; nobody who lives is silent for
\* longer than the timeout.
SPECIFICATION FairSpec
CONSTANTS
    Proc = {p1, p2}
    NoOne = NoOne
    LockAcquireTimeout = 3
    KeepaliveInterval = 1
    MaxSilence = 2
    MaxSkew = 1
    MaxCrashes = 1
INVARIANTS
    TypeOK
    MutualExclusion
    HolderOwnsDir
PROPERTIES
    OnlyOwnDirRemoved
    ImplementsExclusiveLock
    AttemptsEnd
    OrphanCleared
