\* Adds in one directory and commands that read, one of which may die.
SPECIFICATION Spec
CONSTANTS
    Proc = {p1, p2}
    NoOne = NoOne
    Entry <- AddNumbers
    Garbage = Garbage
    MaxEntriesPerSegment = 1
    MaxFaults = 1
    Requests <- Beside
    MaxAdds = 2
    MaxCrashes = 1
SYMMETRY Symmetry
INVARIANTS
    TypeOK
    NodesLead
    CacheAgrees
    SegmentsBounded
    
    ReadersSeeRecorded
    LoggedIsAdded
PROPERTIES
    IndexGrows
    ImplementsLog
