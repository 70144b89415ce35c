SPECIFICATION JobSpec
CONSTANTS
    QueueTasks = {t1}
    UnreadableTasks = {}
    TriesOf <- TwoTries
    QueueProcesses = {w1}
    QueueAdmins = {}
    MaxJobs = 4
    MaxChains = 1
    MaxJobFailures = 3
    MaxJobDeaths = 0
INVARIANTS
    AttemptsAreBounded
CHECK_DEADLOCK FALSE
