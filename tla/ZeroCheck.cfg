SPECIFICATION ZeroSpec
CONSTANTS
    MaxBlock = 2
    FileSize = 5
    Files <- AllFiles
INVARIANTS
    VerdictIsRight
