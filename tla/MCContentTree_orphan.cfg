\* A snapshot is interrupted while it writes its content nodes, and made again.
SPECIFICATION Spec
CONSTANTS
    Proc = {p1, p2}
    Branch = {b1, b2}
    NoOne = NoOne
    Dir = {d1, d2}
    File = {f}
    MaxCopies = 2
    MaxFailures = 1
SYMMETRY Symmetry
INVARIANTS
    OrphanSafe
