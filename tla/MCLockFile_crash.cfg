\* A process dies inside the lock and two others find the orphan together.
SPECIFICATION Spec
CONSTANTS
    Proc = {p1, p2, p3}
    NoOne = NoOne
    LockAcquireTimeout = 1
    KeepaliveInterval = 1
    MaxSilence = 1
    MaxSkew = 0
    MaxCrashes = 1
SYMMETRY Symmetry
INVARIANTS
    MutualExclusion
