SPECIFICATION MotSpec
CONSTANTS
    PeopleIn <- MCPeopleIn
    LastFrame = 4
    Keep = 2
    MaxChildren = 2
INVARIANTS
    FramesAreComplete
CHECK_DEADLOCK FALSE
