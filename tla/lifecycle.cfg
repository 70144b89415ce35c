SPECIFICATION Spec
CONSTANTS
    v1 = v1
    p1 = p1
    p2 = p2
    Variants = {v1}
    People = {p1, p2}
    Racing = {"decide"}
    PlainMoves <- AllMoves
    Exemptions = FALSE
    Reschedules = TRUE
    MaxTime = 2
    MaxGates = 3
    MaxContent = 2
SYMMETRY PeopleSymmetry
INVARIANTS
    TypeOK
    ClientSawIt
    RoundsAdvance
PROPERTIES
    ImplementsMachine
    DecisionsStand
CHECK_DEADLOCK FALSE
