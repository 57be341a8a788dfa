\* A branch and the commit it heads are tagged together.
SPECIFICATION Spec
CONSTANTS
    Proc = {p1, p2}
    NoOne = NoOne
    Branch = {main}
    Main = main
    Other = other
    CommitId = {c0, c1, c2}
    First = c0
    NoCommit = NoCommit
    Family = {fam}
    Fam = fam
    File = {f}
    Ops <- Tagging
    MaxClock = 4
    MaxCrashes = 0
SYMMETRY Symmetry
INVARIANTS
    OneVersionPerCommit
CHECK_DEADLOCK FALSE
