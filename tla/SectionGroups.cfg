SPECIFICATION Spec
CONSTANTS
    LastSection = 3
    MaxMembers = 3
CHECK_DEADLOCK FALSE
INVARIANTS
    GroupsAreDisjoint
    OneNumberPerGroup
    NumberedAreMembers
    VisitedDwarfIsNumbered
