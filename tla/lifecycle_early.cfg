SPECIFICATION Spec
CONSTANTS
    v1 = v1
    p1 = p1
    p2 = p2
    Variants = {v1}
    People = {p1}
    Racing = {}
    PlainMoves = {"INTERNAL_REVIEW", "APPROVED"}
    Exemptions = FALSE
    Reschedules = TRUE
    MaxTime = 3
    MaxGates = 1
    MaxContent = 1
PROPERTIES
    NothingGoesEarly
CHECK_DEADLOCK FALSE
