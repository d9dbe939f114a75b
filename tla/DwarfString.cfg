SPECIFICATION Spec
CONSTANTS
    a = a
    b = b
    Char = {a, b}
    Nul = nul
    Garbage = garbage
    Strings <- SmallStrings
    SpaceSizes = {1, 2, 4}
    FixedSizes = {0, 1, 3}
    Block = {b1, b2}
    minimumnewlen = 4
    MaxLen = 6
INVARIANTS
    NulTerminated
    OwnsItsBlock
    MemorySafe
PROPERTIES
    ImplementsStringBuffer
