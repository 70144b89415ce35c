SPECIFICATION Spec
CONSTANTS
    v1 = v1
    v2 = v2
    a1 = a1
    w1 = w1
    w2 = w2
    Variants = {v1, v2}
    Accounts = {a1}
    Workers = {w1, w2}
    AccountOf <- OneAccount
    Reconcilable <- AllAccounts
    Faults = {}
    CrashPoints <- SafeCrashPoints
    Resolutions = {}
    MaxClaims = 4
    MaxSlots = 1
    CLAIM_TTL = 15
    RECONCILE_WINDOW = 10
SYMMETRY WorkerSymmetry
INVARIANTS
    AtMostOnce
    StatusTellsTheTruth
    OneCallPerAccount
PROPERTIES
    PostSettlesOnce
CHECK_DEADLOCK FALSE
