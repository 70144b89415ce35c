SPECIFICATION Spec
CONSTANTS
    v1 = v1
    a1 = a1
    w1 = w1
    w2 = w2
    Variants = {v1}
    Accounts = {a1}
    Workers = {w1, w2}
    AccountOf <- OneAccount
    Reconcilable <- AllAccounts
    Faults = {}
    CrashPoints = {}
    Resolutions = {}
    MaxClaims = 2
    MaxSlots = 1
    CLAIM_TTL = 15
    RECONCILE_WINDOW = 10
SYMMETRY WorkerSymmetry
INVARIANTS
    ScheduledGoesOut
CHECK_DEADLOCK FALSE
