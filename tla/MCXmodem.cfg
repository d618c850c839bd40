\* Files of up to five blocks, block numbers that go round after four, two faults of the line, one late answer.
CONSTANTS
    MaxBlocks = 5
    NumMod = 4
    MaxErrors = 2
    MaxFaults = 2
    MaxPolls = 1
    MaxLate = 1
SPECIFICATION FairSpec
INVARIANTS
    TypeOK
    AckedIsKept
PROPERTIES
    IsTransfer
    BothEnd
