SPECIFICATION Spec
CONSTANTS
    v1 = v1
    a1 = a1
    w1 = w1
    w2 = w2
    Variants = {v1}
    Accounts = {a1}
    Workers = {w1, w2}
    AccountOf <- OneAccount
    Reconcilable <- AllAccounts
    Faults = {"db", "slow"}
    CrashPoints <- Running
    Resolutions = {"PUBLISHED", "ABANDON"}
    MaxClaims = 2
    MaxSlots = 2
    CLAIM_TTL = 15
    RECONCILE_WINDOW = 10
SYMMETRY WorkerSymmetry
PROPERTIES
    ClaimEndedByHolder
    OutcomesStand
CHECK_DEADLOCK FALSE
