SPECIFICATION FairSpec
CONSTANTS
    v1 = v1
    v2 = v2
    a1 = a1
    a2 = a2
    w1 = w1
    w2 = w2
    Variants = {v1, v2}
    Accounts = {a1, a2}
    Workers = {w1, w2}
    AccountOf <- OwnAccount
    Reconcilable <- AllAccounts
    Faults = {"race"}
    CrashPoints = {}
    Resolutions = {"PUBLISHED"}
    MaxClaims = 3
    MaxSlots = 1
    CLAIM_TTL = 15
    RECONCILE_WINDOW = 10
PROPERTIES
    ClaimsEnd
    PostSettles
CHECK_DEADLOCK FALSE
