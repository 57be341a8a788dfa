\* Two adds, of an asset and of one inside it.
SPECIFICATION Spec
CONSTANTS
    Proc = {p1, p2}
    NoOne = NoOne
    Entry <- AddNumbers
    Garbage = Garbage
    MaxEntriesPerSegment = 1
    MaxFaults = 0
    Requests <- Nested
    MaxAdds = 2
    MaxCrashes = 0
SYMMETRY Symmetry
INVARIANTS
    NoNesting
