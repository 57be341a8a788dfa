\* Every command on an asset of two files and two branches; one process may die.
SPECIFICATION Spec
CONSTANTS
    Proc = {p1, p2}
    NoOne = NoOne
    Branch = {main, other}
    Main = main
    Other = other
    CommitId = {c0, c1, c2}
    First = c0
    NoCommit = NoCommit
    Family = {fam}
    Fam = fam
    File = {f, g}
    Ops <- EveryKind
    MaxClock = 4
    MaxCrashes = 1
SYMMETRY Symmetry
INVARIANTS
    TypeOK
    CleanMeansSaved
    CommitBuiltOnParent
PROPERTIES
    ImplementsHistory
CHECK_DEADLOCK FALSE
