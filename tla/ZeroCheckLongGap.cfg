SPECIFICATION ZeroSpec
CONSTANTS
    MaxBlock = 2
    FileSize = 5
    Files <- AllFiles
INVARIANT ZeroVerdictIsRight
