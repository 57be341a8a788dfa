\* Two snapshots at a time on two branches that start with the same commit; one
\* of them may be interrupted.
SPECIFICATION Spec
CONSTANTS
    Proc = {p1, p2}
    Branch = {b1, b2}
    NoOne = NoOne
    Dir = {d1, d2}
    File = {f}
    MaxCopies = 2
    MaxFailures = 1
SYMMETRY Symmetry
INVARIANTS
    TypeOK
    CommittedIsKept

    
