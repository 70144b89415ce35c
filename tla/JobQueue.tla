------------------------------ MODULE JobQueue ------------------------------
(***************************************************************************)
(* packages/queue: producers add jobs, worker processes run one attempt    *)
(* after another, a failed attempt is added again or dead-lettered, and an *)
(* administrator retries or discards what was dead-lettered.               *)
(*                                                                         *)
(* A chain is one request to run a task and every job that request leads   *)
(* to; it exists in the properties only, and in no payload.                *)
(***************************************************************************)
EXTENDS Naturals, FiniteSets

CONSTANTS
    QueueTasks,       \* payloads
    UnreadableTasks,  \* those whose schema has moved on since they were added
    TriesOf,          \* maxAttempts of the queue a task belongs to
    QueueProcesses,   \* worker processes, each running one job at a time
    QueueAdmins,
    MaxJobs,          \* bound: jobs held at a time
    MaxChains,        \* bound: requests
    MaxJobFailures,   \* bound: attempts of a chain that fail
    MaxJobDeaths      \* bound: processes that die holding a job

ASSUME QueueAssumption ==
    /\ UnreadableTasks \subseteq QueueTasks
    /\ TriesOf \in [QueueTasks -> Nat \ {0}]
    /\ MaxJobs \in Nat /\ MaxChains \in Nat
    /\ MaxJobFailures \in Nat /\ MaxJobDeaths \in Nat

VARIABLES
    jobs,       \* what BullMQ holds
    letters,    \* the dead-letter set
    hands,      \* what each process is doing, and with which job
    desk,       \* the dead letter each administrator is retrying
    chains,     \* each request: its task, how it ended, its failures, those that
                \* consume an attempt, and whether one left the outcome open
    jobDeaths

jobVars == <<jobs, letters, hands, desk, chains, jobDeaths>>

JobIds == 1 .. MaxJobs
ChainIds == 1 .. MaxChains
Refusals == {"NOT_RETRYABLE", "ATTEMPTS_EXHAUSTED", "NEEDS_RECONCILIATION"}
\* What a processor may throw, as far as decideRetry tells errors apart.
JobErrors == {"retryable", "PROVIDER_RATE_LIMIT", "final", "PUBLISHING_TIMEOUT"}

NoJob == [state |-> "none"]
JobPhases == {"run", "letter", "again", "ack", "nack"}
IdleHand == [phase |-> "idle"]
NoLetter == [chain |-> 0]
NoChain == [state |-> "none"]

JobInit ==
    /\ jobs = [j \in JobIds |-> NoJob]
    /\ letters = {}
    /\ hands = [w \in QueueProcesses |-> IdleHand]
    /\ desk = [a \in QueueAdmins |-> NoLetter]
    /\ chains = [c \in ChainIds |-> NoChain]
    /\ jobDeaths = 0

FreeJob(j) == jobs[j] = NoJob
JobsIn(states) == {j \in JobIds : jobs[j].state \in states}
HeldStates == {"waiting", "active", "completed", "failed"}

----------------------------------------------------------------------------
(* Producing.                                                              *)

\* parsePayload: the schemas declare no attempt, and zod drops what is not
\* declared.  0 stands for the absent key.
ParsePayload(payload) == [payload EXCEPT !.attempt = 0]

\* enqueue: BullMQ drops an add whose job id it still holds.
Duplicate(name) == \E j \in JobsIn(HeldStates) : jobs[j].name = name

EnqueueJob(name, payload) ==
    \E j \in JobIds :
        /\ FreeJob(j) /\ \A i \in 1 .. j - 1 : ~FreeJob(i)
        /\ jobs' = [jobs EXCEPT ![j] =
               [state |-> "waiting", name |-> name, stalls |-> 0,
                payload |-> ParsePayload(payload)]]

\* enqueue without a job id of its own: BullMQ makes one up.
Unnamed == "generated"

FreshChains == {c \in ChainIds : /\ chains[c] = NoChain
                                 /\ \A d \in 1 .. c - 1 : chains[d] # NoChain}

BeginChain(c, task) ==
    chains' = [chains EXCEPT ![c] =
        [state |-> "owed", task |-> task, fails |-> 0, spent |-> 0, settled |-> FALSE]]

\* A producer asks for a task under an id that names it.
Produce(task) ==
    /\ ~Duplicate(task)
    /\ \E c \in FreshChains :
          /\ BeginChain(c, task)
          /\ EnqueueJob(task, [chain |-> c, attempt |-> 0])
    /\ UNCHANGED <<letters, hands, desk, jobDeaths>>

\* removeOnComplete and removeOnFail: the record is dropped, its id is free.
TrimRecord(j) ==
    /\ jobs[j].state \in {"completed", "failed"}
    /\ jobs' = [jobs EXCEPT ![j] = NoJob]
    /\ UNCHANGED <<letters, hands, desk, chains, jobDeaths>>

----------------------------------------------------------------------------
(* runAttempt: one attempt of one job, in the steps that write to Redis.   *)

ChainOf(j) == jobs[j].payload.chain
TaskOf(j) == chains[ChainOf(j)].task
AttemptOf(payload) == IF payload.attempt >= 1 THEN payload.attempt ELSE 1

\* Mutant: an ambiguous outcome is retried as any failure is.
DecideRetryBlindly(error, attempt, tries) ==
    CASE error = "PROVIDER_RATE_LIMIT" -> "RESCHEDULE"
      [] error = "final"               -> "NOT_RETRYABLE"
      [] attempt >= tries              -> "ATTEMPTS_EXHAUSTED"
      [] OTHER                         -> "RETRY"

\* decideRetry: an action, or the reason of a FAIL.
DecideRetry(error, attempt, tries) ==
    CASE error = "PUBLISHING_TIMEOUT"  -> "NEEDS_RECONCILIATION"
      [] error = "PROVIDER_RATE_LIMIT" -> "RESCHEDULE"
      [] error = "final"               -> "NOT_RETRYABLE"
      [] attempt >= tries              -> "ATTEMPTS_EXHAUSTED"
      [] OTHER                         -> "RETRY"

HandIs(w, phase) == hands[w].phase = phase
HandGoesOn(w, phase) == hands' = [hands EXCEPT ![w].phase = phase]

\* BullMQ hands a waiting job to an idle process.
TakeJob(w, j) ==
    /\ HandIs(w, "idle") /\ jobs[j].state = "waiting"
    /\ jobs' = [jobs EXCEPT ![j].state = "active"]
    /\ hands' = [hands EXCEPT ![w] = [phase |-> "run", job |-> j]]
    /\ UNCHANGED <<letters, desk, chains, jobDeaths>>

\* About to record a dead letter; its id holds the time, here the how-maniest
\* failure of the chain it is.
LetterFor(j, reason, readable, nth) ==
    [phase |-> "letter", job |-> j,
     letter |-> [chain |-> ChainOf(j), nth |-> nth, reason |-> reason,
                 readable |-> readable]]

\* The payload does not parse: dead-lettered without it.
RefusePayload(w) ==
    /\ HandIs(w, "run") /\ TaskOf(hands[w].job) \in UnreadableTasks
    /\ hands' = [hands EXCEPT ![w] =
           LetterFor(hands[w].job, "NOT_RETRYABLE", FALSE, jobs[hands[w].job].stalls)]
    /\ UNCHANGED <<jobs, letters, desk, chains, jobDeaths>>

SucceedAttempt(w) ==
    /\ HandIs(w, "run") /\ TaskOf(hands[w].job) \notin UnreadableTasks
    /\ HandGoesOn(w, "ack")
    /\ chains' = [chains EXCEPT ![ChainOf(hands[w].job)].state = "done"]
    /\ UNCHANGED <<jobs, letters, desk, jobDeaths>>

FailAttempt(w, error) ==
    LET j == hands[w].job
        c == ChainOf(j)
        n == AttemptOf(jobs[j].payload)
        decision == DecideRetry(error, n, TriesOf[TaskOf(j)])
    IN  /\ HandIs(w, "run") /\ TaskOf(j) \notin UnreadableTasks
        /\ chains[c].fails < MaxJobFailures
        /\ hands' = [hands EXCEPT ![w] =
               IF decision \in Refusals
               THEN LetterFor(j, decision, TRUE, chains[c].fails + 1)
               ELSE [phase |-> "again", job |-> j,
                     next |-> IF decision = "RETRY" THEN n + 1 ELSE n]]
        /\ chains' = [chains EXCEPT ![c].fails = @ + 1,
               ![c].spent = IF error = "PROVIDER_RATE_LIMIT" THEN @ ELSE @ + 1,
               ![c].settled = @ \/ error = "PUBLISHING_TIMEOUT"]
        /\ UNCHANGED <<jobs, letters, desk, jobDeaths>>

\* recordDeadLetter
RecordDeadLetter(w) ==
    /\ HandIs(w, "letter")
    /\ letters' = letters \cup {hands[w].letter}
    /\ HandGoesOn(w, "nack")
    /\ UNCHANGED <<jobs, desk, chains, jobDeaths>>

\* The next attempt is a job of its own, without the id of the first.
Reenqueue(w) ==
    /\ HandIs(w, "again")
    /\ EnqueueJob(Unnamed, [jobs[hands[w].job].payload EXCEPT !.attempt = hands[w].next])
    /\ HandGoesOn(w, "ack")
    /\ UNCHANGED <<letters, desk, chains, jobDeaths>>

\* A job that has ended.  Nobody asks for an id that was made up, so what
\* becomes of the record of such a job does not matter.
EndedJob(j, state) ==
    IF jobs[j].name = Unnamed THEN NoJob ELSE [jobs[j] EXCEPT !.state = state]

\* The processor returned, or threw UnrecoverableError.
Acknowledge(w) ==
    /\ hands[w].phase \in {"ack", "nack"}
    /\ jobs' = [jobs EXCEPT ![hands[w].job] =
           EndedJob(hands[w].job, IF HandIs(w, "ack") THEN "completed" ELSE "failed")]
    /\ hands' = [hands EXCEPT ![w] = IdleHand]
    /\ UNCHANGED <<letters, desk, chains, jobDeaths>>

----------------------------------------------------------------------------
(* Death.                                                                  *)

\* A process dies with its job in flight: a crash, a shutdown whose grace
\* period runs out before the job ends, or a second signal.  A shutdown that
\* drains first leaves no job behind.
JobDies(w) ==
    /\ jobDeaths < MaxJobDeaths
    /\ hands[w].phase \in JobPhases
    /\ hands' = [hands EXCEPT ![w] = IdleHand]
    /\ jobDeaths' = jobDeaths + 1
    /\ UNCHANGED <<jobs, letters, desk, chains>>

\* Mutant: a stalled job is not given out again.
StalledFails(j) == EndedJob(j, "failed")

\* maxStalledCount is 1: the second time, BullMQ fails the job by itself.
Stalled(j) ==
    IF jobs[j].stalls < 1
    THEN [jobs[j] EXCEPT !.state = "waiting", !.stalls = @ + 1]
    ELSE EndedJob(j, "failed")

\* Mutant: a job counts as stalled while its process still runs it.
OrphanedHasty(j) == jobs[j].state = "active"

InHand == {hands[w].job : w \in {x \in QueueProcesses : hands[x].phase \in JobPhases}}
Orphaned(j) == jobs[j].state = "active" /\ j \notin InHand

ReclaimStalled(j) ==
    /\ Orphaned(j)
    /\ jobs' = [jobs EXCEPT ![j] = Stalled(j)]
    /\ UNCHANGED <<letters, hands, desk, chains, jobDeaths>>

----------------------------------------------------------------------------
(* The administrator (features/admin).  No publish is retried from here;   *)
(* QueueTasks are those of the other queues.                               *)

\* retryJob reads the letter and enqueues its payload again ...
RetryJob(a, l) ==
    /\ desk[a] = NoLetter /\ l \in letters /\ l.readable
    /\ \E c \in FreshChains :
          /\ BeginChain(c, chains[l.chain].task)
          /\ EnqueueJob(Unnamed, [chain |-> c, attempt |-> 0])
    /\ desk' = [desk EXCEPT ![a] = l]
    /\ UNCHANGED <<letters, hands, jobDeaths>>

Dismissed(l) ==
    [chains EXCEPT ![l.chain].state = IF @ = "owed" THEN "answered" ELSE @]

\* ... then discards the letter, unless the web process died between.
DiscardRetried(a) ==
    /\ desk[a] # NoLetter
    /\ letters' = letters \ {desk[a]}
    /\ chains' = Dismissed(desk[a])
    /\ desk' = [desk EXCEPT ![a] = NoLetter]
    /\ UNCHANGED <<jobs, hands, jobDeaths>>

RetryInterrupted(a) ==
    /\ desk[a] # NoLetter
    /\ desk' = [desk EXCEPT ![a] = NoLetter]
    /\ UNCHANGED <<jobs, letters, hands, chains, jobDeaths>>

DiscardJob(l) ==
    /\ l \in letters
    /\ letters' = letters \ {l}
    /\ chains' = Dismissed(l)
    /\ UNCHANGED <<jobs, hands, desk, jobDeaths>>

----------------------------------------------------------------------------
\* What the processes and BullMQ do without being asked.
JobWorkerStep(w) ==
    \/ \E j \in JobIds : TakeJob(w, j)
    \/ RefusePayload(w) \/ SucceedAttempt(w) \/ \E e \in JobErrors : FailAttempt(w, e)
    \/ RecordDeadLetter(w) \/ Reenqueue(w) \/ Acknowledge(w)

JobProgress ==
    \/ \E w \in QueueProcesses : JobWorkerStep(w)
    \/ \E j \in JobIds : ReclaimStalled(j)

JobNext ==
    \/ JobProgress
    \/ \E t \in QueueTasks : Produce(t)
    \/ \E j \in JobIds : TrimRecord(j)
    \/ \E w \in QueueProcesses : JobDies(w)
    \/ \E a \in QueueAdmins : \/ \E l \in letters : RetryJob(a, l)
                              \/ DiscardRetried(a) \/ RetryInterrupted(a)
    \/ \E l \in letters : DiscardJob(l)

JobSpec == JobInit /\ [][JobNext]_jobVars

\* The processes run and BullMQ looks for stalled jobs every 30 seconds.
JobFairSpec == JobSpec /\ WF_jobVars(JobProgress)

----------------------------------------------------------------------------
(* Properties.                                                             *)

\* Every variable has its type, and a process with a job has one that exists.
JobTypeOK ==
    /\ \A j \in JobIds : jobs[j] = NoJob \/
          /\ jobs[j].state \in HeldStates
          /\ jobs[j].name \in QueueTasks \cup {Unnamed}
          /\ jobs[j].stalls \in Nat
          /\ jobs[j].payload \in [chain : ChainIds, attempt : Nat]
          /\ chains[ChainOf(j)] # NoChain
    /\ \A w \in QueueProcesses :
          /\ hands[w].phase \in {"idle"} \cup JobPhases
          /\ hands[w].phase \in JobPhases =>
                hands[w].job \in JobIds /\ jobs[hands[w].job].state = "active"
    /\ \A l \in letters : l.chain \in ChainIds /\ l.reason \in Refusals
    /\ jobDeaths \in 0 .. MaxJobDeaths

LettersOf(c) == {l \in letters : l.chain = c}

RunsOfChain(c) ==
    {w \in QueueProcesses : HandIs(w, "run") /\ ChainOf(hands[w].job) = c}

\* The attempts of a chain follow one another: deaths are the only way it runs
\* twice at the same time, and once an attempt has timed out, so that its
\* outcome is unknown, no process starts another, unless a process died before
\* BullMQ knew (runAttempt, Reenqueue, decideRetry: NEEDS_RECONCILIATION).
OneRunPerChain ==
    \A c \in ChainIds :
        /\ Cardinality(RunsOfChain(c)) <= 1 + jobDeaths
        /\ chains[c] # NoChain /\ chains[c].settled /\ jobDeaths = 0 => RunsOfChain(c) = {}

\* The retry policy's bound: a chain that fails is given up after as many
\* attempts as its queue allows, unless it was rate limited (retry.ts, worker.ts).
AttemptsAreBounded ==
    \A c \in ChainIds :
        chains[c].state # "none" => chains[c].spent <= TriesOf[chains[c].task]

\* Once errors stop, every request ends: it succeeds, or its letter lies there
\* or has been answered, and again and again none is under way (worker.ts,
\* stalled jobs reclaimed).
ChainsEnd ==
    []<>(\A c \in ChainIds : chains[c].state = "owed" => LettersOf(c) # {})
=============================================================================
