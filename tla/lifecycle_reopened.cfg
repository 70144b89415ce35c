SPECIFICATION Spec
CONSTANTS
    v1 = v1
    p1 = p1
    p2 = p2
    Variants = {v1}
    People = {p1}
    Racing = {}
    PlainMoves = {"INTERNAL_REVIEW", "CLIENT_REVIEW", "APPROVED"}
    Exemptions = FALSE
    Reschedules = FALSE
    MaxTime = 2
    MaxGates = 1
    MaxContent = 2
PROPERTIES
    OnlyApprovedContent
CHECK_DEADLOCK FALSE
