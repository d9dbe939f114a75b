SPECIFICATION Spec
CONSTANTS
    Files <- MCFiles
    Requests = {0, 1}
    Counts = {0, 1, 2}
    CommandSizes = {0, 60, 200, 450}
    SectionCounts = {0, 1, 2}
    SegmentNames = {"__DWARF", "__PAGEZERO"}
INVARIANT ChosenIsTheOneAskedFor
CHECK_DEADLOCK FALSE
