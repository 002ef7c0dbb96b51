\* Four names, two of which differ only in case, four data blocks, files of no,
\* one or two blocks, and a table that two or three entries fill.
CONSTANTS
    Bases = {x, y}
    LongBases = {y}
    Contexts = {root, guest}
    NoPolicy = NoPolicy
    Policies = {{root}}
    LastLba = 4
    MaxBlocks = 2
    MaxSaves = 3
    MftBytes = 22
    Base = 2
SPECIFICATION Spec
INVARIANTS TypeOK ExtentsDisjoint CommittedIntact UniqueNames ReadIsGated
PROPERTIES EntryLeavesByRight
