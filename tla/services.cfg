SPECIFICATION ServicesSpec
CONSTANTS
    tEasy = tEasy
    tOnce = tOnce
    tOdd = tOdd
    QueueTasks = {tEasy, tOnce, tOdd}
    UnreadableTasks = {tOdd}
    TriesOf <- MCTries
    QueueProcesses = {w1, w2}
    QueueAdmins = {a1}
    MaxJobs = 4
    MaxChains = 2
    MaxJobFailures = 1
    MaxJobDeaths = 1
    MaxReaders = 2
    Colleagues = {p1}
    MaxThread = 4
    MaxInboxFailures = 1
    Runs = {r1, r2}
    MaxReplies = 2
    MaxAssistantJobs = 2
    AccountHands = {h1, h2}
    MaxGrants = 2
    MaxRenewals = 1
    MaxLostLocks = 1
    MaxBreaks = 1
    owner = owner
    admin = admin
    guest = guest
    People = {owner, admin, guest}
    Founder = owner
    Team <- MCTeam
    OrgRoles = {"OWNER", "ADMIN", "CLIENT"}
    Requests = {q1, q2}
    Invitations = {1, 2}
    MaxRequests = 4
    MaxRows = 6
    Drains = {d1, d2}
    MaxEmails = 3
    EmailBatch = 2
    RefusedEmails = {1}
    MaxDrainTrouble = 1
    Wares <- MCWares
    MaxVersions = 2
    MaxTries = 2
    MaxAdapterTrouble = 2
    Callers = {x1, x2}
    Clicks = {y1, y2}
    Codes = {k1}
    Actions = {n1}
    MaxTokens = 3
    MaxLapses = 1
    Capacity = 2
    RefillWindow = 3
    BucketTtl = 6
    MaxSkew = 1
    MaxClock = 12
    Completions = {u1, u2}
    LibraryPosts = {b1, b2}
    MaxMediaTrouble = 1
INVARIANTS
    ServicesTypeOK
    OneRunPerChain
    ProcessedMeansStored
    WaitingIsShown
    EchoIsNotAPerson
    TokenUsedOnce
    NeverSilentlyBroken
    OwnerRemains
    SeatsFitRoles
    EmailedOnce
    OncePerHandle
    OnlyWhatWasWanted
    TrueUnlessMisled
    RotationNeverForks
    ActionRunsOnce
    BudgetKept
    AttachedStands
PROPERTIES
    SpeaksInTurn
    NewestConsentKept
    AdmitsOnce
    ChainsEnd
    EventsEnd
    StaleVerdictHeals
    MailSettles
CHECK_DEADLOCK FALSE
