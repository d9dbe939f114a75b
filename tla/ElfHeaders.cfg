SPECIFICATION Spec
CONSTANTS
    Objects <- MCObjects
    EhdrSize <- MCEhdrSize
    ShdrSize <- MCShdrSize
    PhdrSize <- MCPhdrSize
    MaxEntSize = 4
    Xindex = 7
    Modulus = 61
INVARIANTS
    HeadersAreInTheTable
    NumbersAreElfs
    BothNumbersAgree
CHECK_DEADLOCK FALSE
