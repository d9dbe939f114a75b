SPECIFICATION Spec
CONSTANTS
    Arguments <- MCArguments
    Replacements <- MCReplacements
    Misread <- MCMisread
    OutpathLen = 60
INVARIANTS
    OutpathIsTheOneRead
    AcceptedIsLoadable
    DisplayIsTheTable
    OwnsWhatItFrees
CHECK_DEADLOCK FALSE
