\* The same disk and table.
CONSTANTS
    Bases = {x, y}
    LongBases = {y}
    Contexts = {root, guest}
    NoPolicy = NoPolicy
    Policies = {{root}}
    LastLba = 4
    MaxBlocks = 2
    MaxSaves = 3
    MftBytes = 22
    Base = 2
SPECIFICATION Spec
INVARIANTS SavedIsListed
