SPECIFICATION Spec
CONSTANTS
    NumSlots = 2
    MaxHint = 2
    None = None
    Headers <- Menu
VIEW WithoutOutput
INVARIANTS
    TypeOK
    TablesAgree
PROPERTIES
    FollowsTheStandard
CHECK_DEADLOCK FALSE
