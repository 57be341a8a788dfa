\* An add below a and a snapshot of the unrelated asset b.
SPECIFICATION Spec
CONSTANTS
    Proc = {p1, p2}
    NoOne = NoOne
    Tid <- AddTids
    Requests <- AddElsewhere
    Dashed = {}
    Slashed = {}
    LockAcquireTimeout = 1
    KeepaliveInterval = 1
    MaxSilence = 1
    MaxCrashes = 0
PROPERTIES
    RejectedOnlyByConflict
