SPECIFICATION MCSpec
CONSTANTS
    b1 = b1
    b2 = b2
    Plans <- MCPlans
    Values <- MCValues
    Parts <- MCParts
    Mtus = {23, 24, 40}
    ServerMtu = 24
INVARIANTS
    GattAgrees
    ViewFollows
    
    
    AnswersItsRequest
PROPERTIES
    CallsAreWhole
CHECK_DEADLOCK FALSE
