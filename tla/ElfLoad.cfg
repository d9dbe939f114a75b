SPECIFICATION Spec
CONSTANTS
    LastSection = 2
    Types <- AllTypes
    Sizes = {0, 2, 3}
    RecordSize = 2
CHECK_DEADLOCK FALSE
INVARIANTS
    DestructFreesAllButRela32
    OnlyOutOfMemoryFreesTwice
    SizeIsReadable
    RecordsMatchContent
    PrintedIsLoaded

    
