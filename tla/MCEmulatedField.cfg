SPECIFICATION Spec
CONSTANTS
    Native = 8209
    Capacity = 13
    BitsPerLimb = 2
    NumLimbs = 3
    E = 5
    C = 3
    x = x
    y = y
    Reg = {x, y}
    Factors = {7}
    Inputs <- MCInputs
    MaxSteps = 3
INVARIANTS
    ValueKept
    LimbsCounted
    EqualityDecides
    MembershipIsExact
    RelationIsDecided
CHECK_DEADLOCK FALSE
