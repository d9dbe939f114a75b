SPECIFICATION Spec
CONSTANTS
    Name = {"a", "b", "h", "t", "usr"}
    Slash = "/"
    DotDebug = ".debug"
    IdDir = "11"
    IdFile = "22.debug"
    Cwd <- MCCwd
    Pathnames <- MCPathnames
    PrefixLists <- MCPrefixLists
    Tables <- MCTables
    BuildidSize = 12
    PtrSize = 8
INVARIANTS
    PathsAreTheCandidates
    OwnsItsMemory
    AnswersAreInTheirSections
    AreaHoldsThePaths
CHECK_DEADLOCK FALSE
