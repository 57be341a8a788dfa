\* Every command on two assets, by two processes of which one may die.
SPECIFICATION Spec
CONSTANTS
    Proc = {p1, p2}
    Asset = {a, b}
    Name = {n}
    Commands <- Every
    MaxVersion = 2
    MaxCommands = 4
    MaxFaults = 1
    MaxDepth = 3
SYMMETRY Symmetry
INVARIANTS
    TypeOK
    NoOwnSource
    CommitsCachedRight
    FollowersRecorded
    ReverseCachedRight
    PresentedWhole
    BranchShowsPins
CHECK_DEADLOCK FALSE
