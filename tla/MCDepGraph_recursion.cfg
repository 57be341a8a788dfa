\* Two branches come to follow each other, and one of them is pushed.
SPECIFICATION Spec
CONSTANTS
    Proc = {p1}
    Asset = {a, b}
    Name = {n}
    Commands <- Every
    MaxVersion = 1
    MaxCommands = 3
    MaxFaults = 0
    MaxDepth = 3
INVARIANTS
    RecursionEnds
CHECK_DEADLOCK FALSE
