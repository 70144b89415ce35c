-------------------------- MODULE BackgroundProofs --------------------------
(***************************************************************************)
(* What holds of the job queue, the email outbox and the rate limiter, each*)
(* for every value of its constants.                                       *)
(***************************************************************************)
EXTENDS Outbox, RateLimit, JobQueue, FiniteSetTheorems, WellFoundedInduction, TLAPS

----------------------------------------------------------------------------
(***************************************************************************)
(* JobQueue, for every number of tasks, processes, requests and            *)
(* administrators, and wherever processes die.                             *)
(***************************************************************************)

----------------------------------------------------------------------------
(* The inductive invariant.                                                *)

JobRecords ==
    [state : HeldStates, name : QueueTasks \cup {Unnamed}, stalls : Nat,
     payload : [chain : ChainIds, attempt : Nat]]

DeadLetters == [chain : ChainIds, nth : Nat, reason : Refusals, readable : BOOLEAN]

HandStates ==
    {IdleHand} \cup [phase : {"run", "ack"}, job : JobIds]
      \cup [phase : {"letter", "nack"}, job : JobIds, letter : DeadLetters]
      \cup [phase : {"again", "ack"}, job : JobIds, next : Nat]

ChainRecords ==
    [state : {"owed", "done", "answered"}, task : QueueTasks, fails : Nat, spent : Nat,
     settled : BOOLEAN]

Begun(c) == chains[c] \in ChainRecords

QueueTypes ==
    /\ jobs \in [JobIds -> JobRecords \cup {NoJob}]
    /\ letters \subseteq DeadLetters
    /\ hands \in [QueueProcesses -> HandStates]
    /\ desk \in [QueueAdmins -> DeadLetters \cup {NoLetter}]
    /\ chains \in [ChainIds -> ChainRecords \cup {NoChain}]
    /\ jobDeaths \in 0 .. MaxJobDeaths

Busy(w) == hands[w].phase \in JobPhases

\* Whatever names a request names one that was made.
ChainsExist ==
    /\ \A j \in JobIds : jobs[j] # NoJob => Begun(ChainOf(j))
    /\ \A l \in letters : Begun(l.chain)
    /\ \A w \in QueueProcesses :
           hands[w].phase \in {"letter", "nack"} => Begun(hands[w].letter.chain)
    /\ \A a \in QueueAdmins : desk[a] # NoLetter => Begun(desk[a].chain)

\* BullMQ gives a job to one process; only a death leaves it with none.
HandsAreApart ==
    /\ \A w \in QueueProcesses : Busy(w) => jobs[hands[w].job].state = "active"
    /\ \A v, w \in QueueProcesses : Busy(v) /\ Busy(w) /\ hands[v].job = hands[w].job => v = w
    /\ jobDeaths = 0 => \A j \in JobIds : jobs[j].state = "active" =>
           \E w \in QueueProcesses : Busy(w) /\ hands[w].job = j

\* The jobs of a request that still owe it something: those that wait or run,
\* but not one whose process has only to acknowledge it.
Finishing(w) == hands[w].phase \in {"ack", "nack"}

LiveJobs(c) ==
    {j \in JobIds : /\ jobs[j].state \in {"waiting", "active"} /\ ChainOf(j) = c
                    /\ \A w \in QueueProcesses : Finishing(w) => hands[w].job # j}

OneLiveJob == \A c \in ChainIds : Cardinality(LiveJobs(c)) <= 1 + jobDeaths

\* An outcome that is open has been or is being dead-lettered.
OpenIsLettered ==
    jobDeaths = 0 => \A c \in ChainIds : Begun(c) /\ chains[c].settled =>
        \A j \in LiveJobs(c) :
            \E w \in QueueProcesses : hands[w].phase = "letter" /\ hands[w].job = j

JobInv ==
    /\ QueueTypes /\ ChainsExist /\ HandsAreApart /\ OneLiveJob /\ OpenIsLettered

----------------------------------------------------------------------------
(* Facts about the model's operators.                                      *)

LEMMA HandFacts ==
    ASSUME QueueTypes, NEW w \in QueueProcesses
    PROVE  /\ hands[w] \in HandStates
           /\ hands[w].phase \in {"idle"} \cup JobPhases
           /\ Busy(w) => hands[w].job \in JobIds
           /\ hands[w].phase \in {"letter", "nack"} => hands[w].letter \in DeadLetters
           /\ hands[w].phase = "again" => hands[w].next \in Nat
           /\ Finishing(w) => Busy(w)
  <1>1. hands[w] \in HandStates
    BY DEF QueueTypes
  <1>. QED BY <1>1 DEF HandStates, IdleHand, JobPhases, Busy, Finishing

\* A job that exists has its fields, and the name of a request that was made.
LEMMA JobFacts ==
    ASSUME QueueTypes, ChainsExist, NEW j \in JobIds, jobs[j] # NoJob
    PROVE  /\ jobs[j] \in JobRecords /\ ChainOf(j) \in ChainIds /\ Begun(ChainOf(j))
           /\ chains[ChainOf(j)] # NoChain
  <1>1. jobs[j] \in JobRecords /\ Begun(ChainOf(j))
    BY DEF QueueTypes, ChainsExist
  <1>. QED BY <1>1 DEF JobRecords, ChainOf, Begun, ChainRecords, NoChain

LEMMA BusyFacts ==
    ASSUME JobInv, NEW w \in QueueProcesses, Busy(w), NEW i, i = hands[w].job
    PROVE  /\ i \in JobIds /\ jobs[i].state = "active" /\ jobs[i] # NoJob
           /\ jobs[i] \in JobRecords /\ ChainOf(i) \in ChainIds /\ Begun(ChainOf(i))
           /\ chains[ChainOf(i)] # NoChain
           /\ \A v \in QueueProcesses \ {w} : Busy(v) => hands[v].job # i
  <1>1. i \in JobIds /\ jobs[i].state = "active"
    BY HandFacts DEF JobInv, HandsAreApart
  <1>2. jobs[i] # NoJob
    BY <1>1 DEF NoJob
  <1>3. \A v \in QueueProcesses \ {w} : Busy(v) => hands[v].job # i
    BY DEF JobInv, HandsAreApart
  <1>. QED BY <1>1, <1>2, <1>3, JobFacts DEF JobInv

LEMMA LiveIsFinite ==
    ASSUME NEW c
    PROVE  IsFiniteSet(LiveJobs(c)) /\ IsFiniteSet(LiveJobs(c)')
  <1>1. IsFiniteSet(JobIds)
    BY FS_Interval, QueueAssumption DEF JobIds
  <1>2. LiveJobs(c) \in SUBSET JobIds /\ LiveJobs(c)' \in SUBSET JobIds
    BY DEF LiveJobs
  <1>. QED BY <1>1, <1>2, FS_Subset

LEMMA Smaller ==
    ASSUME NEW S, IsFiniteSet(S), NEW T \in SUBSET S
    PROVE  Cardinality(T) <= Cardinality(S) /\ Cardinality(T) \in Nat /\ Cardinality(S) \in Nat
BY FS_Subset, FS_CardinalityType

LEMMA OneMore ==
    ASSUME NEW S, IsFiniteSet(S), NEW x, NEW T \in SUBSET (S \cup {x})
    PROVE  Cardinality(T) <= Cardinality(S) + 1 /\ Cardinality(S) \in Nat /\ Cardinality(T) \in Nat
  <1>1. IsFiniteSet(S \cup {x}) /\ Cardinality(S \cup {x}) <= Cardinality(S) + 1
        /\ Cardinality(S) \in Nat
    BY FS_AddElement, FS_CardinalityType
  <1>2. Cardinality(T) <= Cardinality(S \cup {x}) /\ Cardinality(T) \in Nat
        /\ Cardinality(S \cup {x}) \in Nat
    BY <1>1, Smaller
  <1>. QED BY <1>1, <1>2

LEMMA Exchanged ==
    ASSUME NEW S, IsFiniteSet(S), NEW i \in S, NEW x, NEW T \in SUBSET ((S \ {i}) \cup {x})
    PROVE  Cardinality(T) <= Cardinality(S) /\ Cardinality(S) \in Nat /\ Cardinality(T) \in Nat
  <1>1. IsFiniteSet(S \ {i}) /\ Cardinality(S \ {i}) = Cardinality(S) - 1
        /\ Cardinality(S) \in Nat
    BY FS_RemoveElement, FS_CardinalityType
  <1>2. Cardinality(T) <= Cardinality(S \ {i}) + 1 /\ Cardinality(T) \in Nat
    BY <1>1, OneMore
  <1>. QED BY <1>1, <1>2

LEMMA OnlyOne ==
    ASSUME NEW S, IsFiniteSet(S), Cardinality(S) <= 1, NEW x \in S, NEW y \in S
    PROVE  x = y
  <1>1. Cardinality(S) \in Nat /\ Cardinality(S) # 0
    BY FS_CardinalityType, FS_EmptySet
  <1>2. PICK z : S = {z}
    BY <1>1, FS_Singleton
  <1>. QED BY <1>2

----------------------------------------------------------------------------
(* Steps keep the invariant.                                               *)

LEMMA QueueStarts == JobInit => JobInv
  <1> SUFFICES ASSUME JobInit PROVE JobInv
    OBVIOUS
  <1> USE QueueAssumption DEF JobInit
  <1>1. QueueTypes
    BY DEF QueueTypes, HandStates
  <1>2. ChainsExist /\ HandsAreApart
    BY DEF ChainsExist, HandsAreApart, Busy, IdleHand, JobPhases, NoJob
  <1>3. \A c : LiveJobs(c) = {}
    BY DEF LiveJobs, NoJob
  <1>4. OneLiveJob
    BY <1>3, FS_EmptySet DEF OneLiveJob
  <1>5. OpenIsLettered
    BY <1>3 DEF OpenIsLettered
  <1>. QED BY <1>1, <1>2, <1>4, <1>5 DEF JobInv

\* A process goes on with its job.
LEMMA HandKeeps ==
    ASSUME JobInv, NEW w \in QueueProcesses, Busy(w), NEW h \in HandStates,
           hands' = [hands EXCEPT ![w] = h],
           h.phase \in JobPhases, h.job = hands[w].job,
           h.phase \in {"letter", "nack"} => Begun(h.letter.chain),
           Finishing(w) => h.phase \in {"ack", "nack"},
           hands[w].phase = "letter" => h.phase \in {"ack", "nack"},
           UNCHANGED <<jobs, desk, jobDeaths>>,
           letters' \subseteq DeadLetters,
           \A l \in letters' : l \in letters \/ Begun(l.chain),
           chains' \in [ChainIds -> ChainRecords \cup {NoChain}],
           \A c \in ChainIds : Begun(c) => Begun(c)',
           \A c \in ChainIds : Begun(c)' /\ chains'[c].settled =>
               \/ Begun(c) /\ chains[c].settled
               \/ c = ChainOf(hands[w].job) /\ h.phase = "letter"
    PROVE  JobInv'
  <1> DEFINE i == hands[w].job
  <1>1. QueueTypes /\ ChainsExist /\ HandsAreApart /\ OneLiveJob /\ OpenIsLettered
    BY DEF JobInv
  <1>2. /\ i \in JobIds /\ jobs[i].state = "active" /\ Begun(ChainOf(i)) /\ ChainOf(i) \in ChainIds
        /\ \A v \in QueueProcesses \ {w} : Busy(v) => hands[v].job # i
    BY BusyFacts
  <1>3. hands'[w] = h /\ \A v \in QueueProcesses \ {w} : hands'[v] = hands[v]
    BY <1>1 DEF QueueTypes
  <1>4. QueueTypes'
    BY <1>1 DEF QueueTypes
  <1>5. \A c : Begun(c) /\ c \in ChainIds => Begun(c)'
    OBVIOUS
  <1>6. ChainsExist'
    <2>1. \A j \in JobIds : jobs'[j] # NoJob => Begun(ChainOf(j))'
      BY <1>1, <1>5, JobFacts DEF ChainOf, Begun
    <2>2. \A l \in letters' : Begun(l.chain)'
      BY <1>1, <1>5 DEF ChainsExist, DeadLetters
    <2>3. \A v \in QueueProcesses :
              hands'[v].phase \in {"letter", "nack"} => Begun(hands[v].letter.chain)'
      <3> SUFFICES ASSUME NEW v \in QueueProcesses, hands'[v].phase \in {"letter", "nack"}
                   PROVE  Begun(hands[v].letter.chain)'
        OBVIOUS
      <3>1. PICK x \in HandStates : x = hands'[v]
        BY <1>4 DEF QueueTypes
      <3>2. x.letter.chain \in ChainIds
        BY <3>1 DEF HandStates, IdleHand, DeadLetters
      <3>3. Begun(x.letter.chain)
        BY <1>1, <1>3, <3>1 DEF ChainsExist
      <3>. QED BY <1>5, <3>1, <3>2, <3>3 DEF Begun
    <2>4. \A a \in QueueAdmins : desk'[a] # NoLetter => Begun(desk[a].chain)'
      BY <1>1, <1>5 DEF ChainsExist, QueueTypes, DeadLetters, NoLetter, Begun
    <2>. QED BY <2>1, <2>2, <2>3, <2>4 DEF ChainsExist
  <1>7. \A v \in QueueProcesses : Busy(v)' <=> Busy(v)
    BY <1>3 DEF Busy
  <1>8. \A v \in QueueProcesses : hands'[v].job = hands[v].job
    BY <1>3
  <1>9. HandsAreApart'
    BY <1>1, <1>7, <1>8 DEF HandsAreApart
  <1>10. \A c : LiveJobs(c)' \subseteq LiveJobs(c)
    <2>1. \A v \in QueueProcesses : Finishing(v) => Finishing(v)'
      BY <1>3 DEF Finishing
    <2>. QED BY <1>8, <2>1 DEF LiveJobs, ChainOf
  <1>11. OneLiveJob'
    BY <1>1, <1>10, LiveIsFinite, Smaller, QueueAssumption DEF OneLiveJob, QueueTypes
  <1>12. OpenIsLettered'
    <2> SUFFICES ASSUME jobDeaths = 0, NEW c \in ChainIds, Begun(c)', chains'[c].settled,
                        NEW j \in LiveJobs(c)'
                 PROVE  \E v \in QueueProcesses : hands'[v].phase = "letter" /\ hands'[v].job = j
      BY DEF OpenIsLettered
    <2>1. j \in LiveJobs(c)
      BY <1>10
    <2>2. CASE Begun(c) /\ chains[c].settled
      <3>1. PICK v \in QueueProcesses : hands[v].phase = "letter" /\ hands[v].job = j
        BY <1>1, <2>1, <2>2 DEF OpenIsLettered
      <3>2. CASE v # w
        BY <1>3, <3>1, <3>2
      <3>3. CASE v = w
        <4>1. Finishing(w)' /\ hands'[w].job = j
          BY <1>3, <3>1, <3>3 DEF Finishing
        <4>. QED BY <4>1 DEF LiveJobs
      <3>. QED BY <3>2, <3>3
    <2>3. CASE c = ChainOf(i) /\ h.phase = "letter"
      <3>1. i \in LiveJobs(c)
        <4>1. \A v \in QueueProcesses : Finishing(v) => hands[v].job # i
          BY <1>2, <1>1, <2>3, HandFacts DEF Finishing
        <4>. QED BY <1>2, <2>3, <4>1 DEF LiveJobs
      <3>2. i = j
        BY <1>1, <2>1, <3>1, LiveIsFinite, OnlyOne DEF OneLiveJob
      <3>. QED BY <1>3, <2>3, <3>2
    <2>. QED BY <2>2, <2>3
  <1>. QED BY <1>4, <1>6, <1>9, <1>11, <1>12 DEF JobInv

\* Work at the desk, and nothing else: letters go, chains are answered.
LEMMA DeskKeeps ==
    ASSUME JobInv, UNCHANGED <<jobs, hands, jobDeaths>>,
           letters' \subseteq letters,
           desk' \in [QueueAdmins -> DeadLetters \cup {NoLetter}],
           \A a \in QueueAdmins : desk'[a] \in {desk[a], NoLetter},
           chains' \in [ChainIds -> ChainRecords \cup {NoChain}],
           \A c \in ChainIds : Begun(c) <=> Begun(c)',
           \A c \in ChainIds : Begun(c) => chains'[c].settled = chains[c].settled
    PROVE  JobInv'
  <1>1. QueueTypes /\ ChainsExist /\ HandsAreApart /\ OneLiveJob /\ OpenIsLettered
    BY DEF JobInv
  <1>2. QueueTypes'
    BY <1>1 DEF QueueTypes
  <1>3. ChainsExist'
    <2>1. \A j \in JobIds : jobs'[j] # NoJob => Begun(ChainOf(j))'
      BY <1>1, JobFacts DEF ChainOf, Begun
    <2>2. \A l \in letters' : Begun(l.chain)'
      BY <1>1 DEF ChainsExist, DeadLetters, QueueTypes
    <2>3. \A v \in QueueProcesses :
              hands'[v].phase \in {"letter", "nack"} => Begun(hands[v].letter.chain)'
      BY <1>1, HandFacts DEF ChainsExist, DeadLetters, Begun
    <2>4. \A a \in QueueAdmins : desk'[a] # NoLetter => Begun(desk[a].chain)'
      BY <1>1 DEF ChainsExist, QueueTypes, DeadLetters, NoLetter, Begun
    <2>. QED BY <2>1, <2>2, <2>3, <2>4 DEF ChainsExist
  <1>4. HandsAreApart'
    BY <1>1 DEF HandsAreApart, Busy
  <1>5. \A c : LiveJobs(c)' = LiveJobs(c)
    BY DEF LiveJobs, ChainOf, Finishing
  <1>6. OneLiveJob' /\ OpenIsLettered'
    BY <1>1, <1>5 DEF OneLiveJob, OpenIsLettered
  <1>. QED BY <1>2, <1>3, <1>4, <1>6 DEF JobInv

\* A job ends, is given out again, or is dropped: what its request is owed does
\* not grow.
LEMMA JobsKeep ==
    ASSUME JobInv, UNCHANGED <<letters, desk, chains, jobDeaths>>,
           NEW j \in JobIds, jobs[j] # NoJob, NEW r,
           jobs' = [jobs EXCEPT ![j] = r],
           r = NoJob \/ (r \in JobRecords /\ r.payload = jobs[j].payload),
           r.state \in {"waiting", "active"} => j \in LiveJobs(ChainOf(j)),
           hands' \in [QueueProcesses -> HandStates],
           \A w \in QueueProcesses :
               \/ hands'[w] = hands[w] /\ ~(Busy(w) /\ hands[w].job = j)
               \/ hands'[w] = IdleHand /\ Busy(w) /\ hands[w].job = j
                  /\ r.state \notin {"waiting", "active"}
               \/ hands'[w] = [phase |-> "run", job |-> j] /\ ~Busy(w)
                  /\ jobs[j].state = "waiting" /\ r.state = "active",
           \A v, w \in QueueProcesses :
               Busy(v)' /\ Busy(w)' /\ hands'[v].job = j /\ hands'[w].job = j => v = w,
           r.state = "active" => \E w \in QueueProcesses : hands'[w] = [phase |-> "run", job |-> j]
    PROVE  JobInv'
  <1>1. QueueTypes /\ ChainsExist /\ HandsAreApart /\ OneLiveJob /\ OpenIsLettered
    BY DEF JobInv
  <1>2. jobs'[j] = r /\ \A k \in JobIds \ {j} : jobs'[k] = jobs[k]
    BY <1>1 DEF QueueTypes
  <1>3. QueueTypes'
    BY <1>1 DEF QueueTypes
  <1>4. \A w \in QueueProcesses : Busy(w)' => hands'[w].job = j \/ hands'[w] = hands[w]
    BY DEF Busy, IdleHand, JobPhases
  <1>5. ChainsExist'
    <2>1. \A k \in JobIds : jobs'[k] # NoJob => Begun(ChainOf(k))'
      BY <1>1, <1>2 DEF ChainsExist, ChainOf, Begun
    <2>2. \A v \in QueueProcesses :
              hands'[v].phase \in {"letter", "nack"} => Begun(hands[v].letter.chain)'
      BY <1>1 DEF ChainsExist, Begun, IdleHand
    <2>. QED BY <1>1, <2>1, <2>2 DEF ChainsExist, Begun
  <1>6. HandsAreApart'
    <2>1. \A w \in QueueProcesses : Busy(w)' => jobs'[hands'[w].job].state = "active"
      <3> SUFFICES ASSUME NEW w \in QueueProcesses, Busy(w)'
                   PROVE  jobs'[hands'[w].job].state = "active"
        OBVIOUS
      <3>1. CASE hands'[w] = hands[w] /\ ~(Busy(w) /\ hands[w].job = j)
        <4>1. Busy(w) /\ hands[w].job # j /\ hands[w].job \in JobIds
          BY <1>1, <3>1, HandFacts DEF Busy
        <4>. QED BY <1>1, <1>2, <3>1, <4>1 DEF HandsAreApart
      <3>2. CASE hands'[w] = [phase |-> "run", job |-> j] /\ r.state = "active"
        BY <1>2, <3>2
      <3>3. hands'[w] # IdleHand
        BY DEF Busy, IdleHand, JobPhases
      <3>. QED BY <3>1, <3>2, <3>3
    <2>2. \A v, w \in QueueProcesses :
             Busy(v)' /\ Busy(w)' /\ hands'[v].job = hands'[w].job => v = w
      <3> SUFFICES ASSUME NEW v \in QueueProcesses, NEW w \in QueueProcesses,
                          Busy(v)', Busy(w)', hands'[v].job = hands'[w].job
                   PROVE  v = w
        OBVIOUS
      <3>1. CASE hands'[v].job = j
        BY <3>1
      <3>2. CASE hands'[v].job # j
        <4>1. hands'[v] = hands[v] /\ hands'[w] = hands[w] /\ Busy(v) /\ Busy(w)
          BY <1>4, <3>2 DEF Busy
        <4>. QED BY <1>1, <4>1 DEF HandsAreApart
      <3>. QED BY <3>1, <3>2
    <2>3. ASSUME jobDeaths' = 0, NEW k \in JobIds, jobs'[k].state = "active"
          PROVE  \E w \in QueueProcesses : Busy(w)' /\ hands'[w].job = k
      <3>1. CASE k = j
        <4>1. PICK w \in QueueProcesses : hands'[w] = [phase |-> "run", job |-> j]
          BY <1>2, <2>3, <3>1
        <4>. QED BY <3>1, <4>1 DEF Busy, JobPhases
      <3>2. CASE k # j
        <4>1. PICK w \in QueueProcesses : Busy(w) /\ hands[w].job = k
          BY <1>1, <1>2, <2>3, <3>2 DEF HandsAreApart
        <4>2. hands'[w] = hands[w]
          BY <3>2, <4>1
        <4>. QED BY <4>1, <4>2 DEF Busy
      <3>. QED BY <3>1, <3>2
    <2>. QED BY <2>1, <2>2, <2>3 DEF HandsAreApart
  <1>7. \A c : LiveJobs(c)' \subseteq LiveJobs(c)
    <2> SUFFICES ASSUME NEW c, NEW k \in LiveJobs(c)' PROVE k \in LiveJobs(c)
      OBVIOUS
    <2>1. k \in JobIds /\ jobs'[k].state \in {"waiting", "active"} /\ jobs'[k].payload.chain = c
      BY DEF LiveJobs, ChainOf
    <2>2. CASE k = j
      <3>1. r.state \in {"waiting", "active"} /\ r # NoJob
        BY <1>2, <2>1, <2>2 DEF NoJob
      <3>2. ChainOf(j) = c
        BY <1>2, <2>1, <2>2, <3>1 DEF ChainOf
      <3>. QED BY <2>2, <3>1, <3>2
    <2>3. CASE k # j
      <3>1. jobs'[k] = jobs[k]
        BY <1>2, <2>1, <2>3
      <3>2. ASSUME NEW w \in QueueProcesses, Finishing(w) PROVE hands[w].job # k
        <4>1. CASE hands'[w] = hands[w]
          BY <3>2, <4>1 DEF Finishing, LiveJobs
        <4>2. Busy(w)
          BY <1>1, <3>2, HandFacts
        <4>. QED BY <2>3, <4>1, <4>2
      <3>. QED BY <2>1, <3>1, <3>2 DEF LiveJobs, ChainOf
    <2>. QED BY <2>2, <2>3
  <1>8. OneLiveJob'
    BY <1>1, <1>7, LiveIsFinite, Smaller, QueueAssumption DEF OneLiveJob, QueueTypes
  <1>9. OpenIsLettered'
    <2> SUFFICES ASSUME jobDeaths = 0, NEW c \in ChainIds, Begun(c), chains[c].settled,
                        NEW k \in LiveJobs(c)'
                 PROVE  \E v \in QueueProcesses : hands'[v].phase = "letter" /\ hands'[v].job = k
      BY DEF OpenIsLettered, Begun
    <2>1. PICK v \in QueueProcesses : hands[v].phase = "letter" /\ hands[v].job = k
      BY <1>1, <1>7 DEF OpenIsLettered
    <2>2. Busy(v)
      BY <2>1 DEF Busy, JobPhases
    <2>3. hands'[v] = hands[v]
      <3>1. CASE hands'[v] = IdleHand /\ hands[v].job = j /\ r.state \notin {"waiting", "active"}
        <4>1. jobs'[k].state \in {"waiting", "active"}
          BY DEF LiveJobs
        <4>. QED BY <1>2, <2>1, <3>1, <4>1
      <3>. QED BY <2>2, <3>1
    <2>. QED BY <2>1, <2>3
  <1>. QED BY <1>3, <1>5, <1>6, <1>8, <1>9 DEF JobInv

\* A request is made: its chain has one job, which waits.
LEMMA RequestKeeps ==
    ASSUME JobInv, NEW c \in FreshChains, NEW task \in QueueTasks,
           NEW name \in QueueTasks \cup {Unnamed},
           BeginChain(c, task), EnqueueJob(name, [chain |-> c, attempt |-> 0]),
           UNCHANGED <<letters, hands, jobDeaths>>,
           desk' \in [QueueAdmins -> DeadLetters \cup {NoLetter}],
           \A a \in QueueAdmins : desk'[a] = desk[a] \/ desk'[a] \in letters
    PROVE  JobInv'
  <1>1. QueueTypes /\ ChainsExist /\ HandsAreApart /\ OneLiveJob /\ OpenIsLettered
    BY DEF JobInv
  <1>2. c \in ChainIds /\ chains[c] = NoChain /\ ~Begun(c)
    BY DEF FreshChains, Begun, NoChain, ChainRecords
  <1>3. PICK j \in JobIds :
          /\ jobs[j] = NoJob
          /\ jobs' = [jobs EXCEPT ![j] =
               [state |-> "waiting", name |-> name, stalls |-> 0,
                payload |-> ParsePayload([chain |-> c, attempt |-> 0])]]
    BY DEF EnqueueJob, FreeJob
  <1>4. PICK x : x = [state |-> "waiting", name |-> name, stalls |-> 0,
                payload |-> ParsePayload([chain |-> c, attempt |-> 0])]
    OBVIOUS
  <1>5. x \in JobRecords /\ x.state = "waiting" /\ x.payload.chain = c
    BY <1>2, <1>4 DEF JobRecords, HeldStates, ParsePayload
  <1>6. jobs'[j] = x /\ \A k \in JobIds \ {j} : jobs'[k] = jobs[k]
    BY <1>1, <1>3, <1>4 DEF QueueTypes
  <1>7. PICK y : y = [state |-> "owed", task |-> task, fails |-> 0, spent |-> 0, settled |-> FALSE]
    OBVIOUS
  <1>8. chains' = [chains EXCEPT ![c] = y] /\ y \in ChainRecords /\ ~y.settled
    BY <1>7 DEF BeginChain, ChainRecords
  <1>9. /\ Begun(c)' /\ ~chains'[c].settled
        /\ \A d \in ChainIds \ {c} : chains'[d] = chains[d]
        /\ \A d \in ChainIds : Begun(d) => Begun(d)'
    BY <1>1, <1>2, <1>8 DEF QueueTypes, Begun
  <1>10. QueueTypes'
    BY <1>1, <1>3, <1>4, <1>5, <1>8 DEF QueueTypes
  <1>11. ChainsExist'
    <2>1. \A k \in JobIds : jobs'[k] # NoJob => Begun(ChainOf(k))'
      BY <1>1, <1>5, <1>6, <1>9, JobFacts DEF ChainOf, Begun
    <2>2. \A l \in letters' : Begun(l.chain)'
      BY <1>1, <1>9 DEF ChainsExist, DeadLetters, QueueTypes
    <2>3. \A v \in QueueProcesses :
              hands'[v].phase \in {"letter", "nack"} => Begun(hands[v].letter.chain)'
      BY <1>1, <1>9, HandFacts DEF ChainsExist, DeadLetters, Begun
    <2>4. \A a \in QueueAdmins : desk'[a] # NoLetter => Begun(desk[a].chain)'
      BY <1>1, <1>9 DEF ChainsExist, QueueTypes, DeadLetters, NoLetter, Begun
    <2>. QED BY <2>1, <2>2, <2>3, <2>4 DEF ChainsExist
  <1>12. HandsAreApart'
    <2>1. \A w \in QueueProcesses : Busy(w) => hands[w].job \in JobIds \ {j}
      BY <1>1, <1>3, HandFacts DEF HandsAreApart, NoJob
    <2>. QED BY <1>1, <1>5, <1>6, <2>1 DEF HandsAreApart, Busy
  <1>13. LiveJobs(c) = {}
    BY <1>1, <1>2 DEF LiveJobs, ChainsExist, NoJob
  <1>14. LiveJobs(c)' \subseteq {} \cup {j} /\ \A d : d # c => LiveJobs(d)' \subseteq LiveJobs(d)
    BY <1>5, <1>6, <1>13 DEF LiveJobs, ChainOf, Finishing
  <1>15. OneLiveJob'
    <2>1. Cardinality(LiveJobs(c)') <= 0 + 1
      BY <1>14, FS_EmptySet, OneMore
    <2>. QED
      BY <1>1, <1>14, <2>1, LiveIsFinite, Smaller, QueueAssumption DEF OneLiveJob, QueueTypes
  <1>16. OpenIsLettered'
    BY <1>1, <1>9, <1>14 DEF OpenIsLettered, Begun
  <1>. QED BY <1>10, <1>11, <1>12, <1>15, <1>16 DEF JobInv

\* The next attempt takes the place of the one that failed.
LEMMA ReenqueueKeeps ==
    ASSUME JobInv, NEW w \in QueueProcesses, Reenqueue(w)
    PROVE  JobInv'
  <1>a. PICK i : i = hands[w].job
    OBVIOUS
  <1>b. PICK c : c = ChainOf(i)
    OBVIOUS
  <1>1. QueueTypes /\ ChainsExist /\ HandsAreApart /\ OneLiveJob /\ OpenIsLettered
    BY DEF JobInv
  <1>2. hands[w].phase = "again" /\ Busy(w) /\ UNCHANGED <<letters, desk, chains, jobDeaths>>
    BY DEF Reenqueue, HandIs, Busy, JobPhases
  <1>3. /\ i \in JobIds /\ jobs[i].state = "active" /\ jobs[i] # NoJob
        /\ jobs[i] \in JobRecords /\ c \in ChainIds /\ Begun(c)
        /\ \A v \in QueueProcesses \ {w} : Busy(v) => hands[v].job # i
    BY <1>2, <1>a, <1>b, BusyFacts
  <1>4. hands[w].next \in Nat /\ hands[w] \in [phase : {"again", "ack"}, job : JobIds, next : Nat]
    BY <1>1, <1>2, HandFacts DEF HandStates, IdleHand
  <1>5. PICK h : h = [hands[w] EXCEPT !.phase = "ack"] /\ hands' = [hands EXCEPT ![w] = h]
    BY DEF Reenqueue, HandGoesOn
  <1>6. h \in HandStates /\ h.phase = "ack" /\ h.job = i
    BY <1>4, <1>5, <1>a DEF HandStates
  <1>7. PICK j \in JobIds :
          /\ jobs[j] = NoJob
          /\ jobs' = [jobs EXCEPT ![j] =
               [state |-> "waiting", name |-> Unnamed, stalls |-> 0,
                payload |-> ParsePayload([jobs[i].payload EXCEPT !.attempt = hands[w].next])]]
    BY <1>a DEF Reenqueue, EnqueueJob, FreeJob
  <1>8. PICK x : x = [state |-> "waiting", name |-> Unnamed, stalls |-> 0,
                payload |-> ParsePayload([jobs[i].payload EXCEPT !.attempt = hands[w].next])]
    OBVIOUS
  <1>9. x \in JobRecords /\ x.state = "waiting" /\ x.payload.chain = c
    BY <1>3, <1>4, <1>8, <1>b DEF JobRecords, HeldStates, ParsePayload, ChainOf
  <1>10. jobs'[j] = x /\ i # j /\ \A k \in JobIds \ {j} : jobs'[k] = jobs[k]
    BY <1>1, <1>3, <1>7, <1>8 DEF QueueTypes
  <1>11. hands'[w] = h /\ \A v \in QueueProcesses \ {w} : hands'[v] = hands[v]
    BY <1>1, <1>5 DEF QueueTypes
  <1>12. QueueTypes'
    BY <1>1, <1>2, <1>5, <1>6, <1>7, <1>8, <1>9 DEF QueueTypes
  <1>13. ChainsExist'
    <2>1. \A k \in JobIds : jobs'[k] # NoJob => Begun(ChainOf(k))'
      BY <1>1, <1>2, <1>3, <1>9, <1>10, <1>b, JobFacts DEF ChainOf, Begun
    <2>2. \A v \in QueueProcesses :
              hands'[v].phase \in {"letter", "nack"} => Begun(hands[v].letter.chain)'
      BY <1>1, <1>2, <1>6, <1>11 DEF ChainsExist, Begun
    <2>. QED BY <1>1, <1>2, <2>1, <2>2 DEF ChainsExist, Begun
  <1>14. \A v \in QueueProcesses : (Busy(v)' <=> Busy(v)) /\ hands'[v].job = hands[v].job
    BY <1>2, <1>6, <1>11, <1>a DEF Busy, JobPhases
  <1>15. HandsAreApart'
    <2>1. \A v \in QueueProcesses : Busy(v) => hands[v].job \in JobIds \ {j}
      BY <1>1, <1>7, HandFacts DEF HandsAreApart, NoJob
    <2>. QED BY <1>1, <1>2, <1>9, <1>10, <1>14, <2>1 DEF HandsAreApart
  <1>16. i \in LiveJobs(c)
    <2>1. \A v \in QueueProcesses : Finishing(v) => hands[v].job # i
      BY <1>1, <1>2, <1>3, <1>a, HandFacts DEF Finishing
    <2>. QED BY <1>3, <1>b, <2>1 DEF LiveJobs
  <1>17. \A v \in QueueProcesses : Finishing(v)' <=> Finishing(v) \/ v = w
    BY <1>6, <1>11 DEF Finishing
  <1>18. LiveJobs(c)' \subseteq (LiveJobs(c) \ {i}) \cup {j}
    <2> SUFFICES ASSUME NEW k \in LiveJobs(c)', k # j
                 PROVE  k \in LiveJobs(c) /\ k # i
      OBVIOUS
    <2>1. k \in JobIds /\ jobs'[k] = jobs[k] /\ jobs'[k].payload.chain = c
      BY <1>10 DEF LiveJobs, ChainOf
    <2>2. \A v \in QueueProcesses : Finishing(v) \/ v = w => hands[v].job # k
      BY <1>14, <1>17 DEF LiveJobs
    <2>3. jobs'[k].state \in {"waiting", "active"}
      BY DEF LiveJobs
    <2>. QED BY <1>a, <2>1, <2>2, <2>3 DEF LiveJobs, ChainOf
  <1>19. \A d : d # c => LiveJobs(d)' \subseteq LiveJobs(d)
    BY <1>9, <1>10, <1>14, <1>17 DEF LiveJobs, ChainOf
  <1>20. OneLiveJob'
    <2>1. Cardinality(LiveJobs(c)') <= Cardinality(LiveJobs(c))
          /\ Cardinality(LiveJobs(c)') \in Nat /\ Cardinality(LiveJobs(c)) \in Nat
      BY <1>16, <1>18, LiveIsFinite, Exchanged
    <2>2. jobDeaths' = jobDeaths /\ jobDeaths \in Nat
      BY <1>1, <1>2, QueueAssumption DEF QueueTypes
    <2> SUFFICES ASSUME NEW d \in ChainIds
                 PROVE  Cardinality(LiveJobs(d)') <= 1 + jobDeaths'
      BY DEF OneLiveJob
    <2>3. CASE d = c
      BY <1>1, <2>1, <2>2, <2>3 DEF OneLiveJob
    <2>4. CASE d # c
      <3>1. Cardinality(LiveJobs(d)') <= Cardinality(LiveJobs(d))
            /\ Cardinality(LiveJobs(d)') \in Nat /\ Cardinality(LiveJobs(d)) \in Nat
        BY <1>19, <2>4, LiveIsFinite, Smaller
      <3>. QED BY <1>1, <2>2, <3>1 DEF OneLiveJob
    <2>. QED BY <2>3, <2>4
  <1>21. OpenIsLettered'
    <2> SUFFICES ASSUME jobDeaths = 0, NEW d \in ChainIds, Begun(d), chains[d].settled,
                        NEW k \in LiveJobs(d)'
                 PROVE  \E v \in QueueProcesses : hands'[v].phase = "letter" /\ hands'[v].job = k
      BY <1>2 DEF OpenIsLettered, Begun
    <2>1. d # c
      <3> SUFFICES ASSUME d = c PROVE FALSE
        OBVIOUS
      <3>1. PICK v \in QueueProcesses : hands[v].phase = "letter" /\ hands[v].job = i
        BY <1>1, <1>16 DEF OpenIsLettered
      <3>. QED BY <1>2, <1>3, <1>a, <3>1 DEF Busy, JobPhases
    <2>2. PICK v \in QueueProcesses : hands[v].phase = "letter" /\ hands[v].job = k
      BY <1>1, <1>19, <2>1 DEF OpenIsLettered
    <2>. QED BY <1>2, <1>11, <2>2
  <1>. QED BY <1>12, <1>13, <1>15, <1>20, <1>21 DEF JobInv

\* A process dies: the job it held may run once more.
LEMMA DeathKeeps ==
    ASSUME JobInv, NEW w \in QueueProcesses, JobDies(w)
    PROVE  JobInv'
  <1> DEFINE i == hands[w].job
  <1>1. QueueTypes /\ ChainsExist /\ HandsAreApart /\ OneLiveJob /\ OpenIsLettered
    BY DEF JobInv
  <1>2. /\ Busy(w) /\ hands' = [hands EXCEPT ![w] = IdleHand]
        /\ UNCHANGED <<jobs, letters, desk, chains>>
        /\ jobDeaths' = jobDeaths + 1 /\ jobDeaths' \in 0 .. MaxJobDeaths /\ jobDeaths \in Nat
        /\ jobDeaths' # 0
    BY <1>1, QueueAssumption DEF JobDies, Busy, QueueTypes
  <1>3. hands'[w] = IdleHand /\ \A v \in QueueProcesses \ {w} : hands'[v] = hands[v]
    BY <1>1, <1>2 DEF QueueTypes
  <1>4. QueueTypes'
    BY <1>1, <1>2 DEF QueueTypes, HandStates
  <1>5. ChainsExist'
    BY <1>1, <1>2, <1>3 DEF ChainsExist, Begun, ChainOf, IdleHand
  <1>6. HandsAreApart'
    BY <1>1, <1>2, <1>3 DEF HandsAreApart, Busy, IdleHand, JobPhases
  <1>7. \A c : LiveJobs(c)' \subseteq LiveJobs(c) \cup {i}
    BY <1>2, <1>3 DEF LiveJobs, ChainOf, Finishing
  <1>8. OneLiveJob'
    <2> SUFFICES ASSUME NEW c \in ChainIds
                 PROVE  Cardinality(LiveJobs(c)') <= 1 + jobDeaths'
      BY DEF OneLiveJob
    <2>1. Cardinality(LiveJobs(c)') <= Cardinality(LiveJobs(c)) + 1
          /\ Cardinality(LiveJobs(c)') \in Nat /\ Cardinality(LiveJobs(c)) \in Nat
      BY <1>7, LiveIsFinite, OneMore
    <2>. QED BY <1>1, <1>2, <2>1 DEF OneLiveJob
  <1>9. OpenIsLettered'
    BY <1>2 DEF OpenIsLettered
  <1>. QED BY <1>4, <1>5, <1>6, <1>8, <1>9 DEF JobInv

LEMMA StillBegun ==
    ASSUME QueueTypes, NEW c \in ChainIds, Begun(c), NEW y \in ChainRecords,
           chains' = [chains EXCEPT ![c] = y]
    PROVE  /\ chains' \in [ChainIds -> ChainRecords \cup {NoChain}]
           /\ chains'[c] = y
           /\ \A d \in ChainIds \ {c} : chains'[d] = chains[d]
           /\ \A d \in ChainIds : Begun(d) <=> Begun(d)'
BY DEF QueueTypes, Begun

LEMMA LetterIs ==
    ASSUME NEW j \in JobIds, NEW reason \in Refusals, NEW readable \in BOOLEAN, NEW nth \in Nat,
           ChainOf(j) \in ChainIds
    PROVE  /\ LetterFor(j, reason, readable, nth) \in HandStates
           /\ LetterFor(j, reason, readable, nth).phase = "letter"
           /\ LetterFor(j, reason, readable, nth).job = j
           /\ LetterFor(j, reason, readable, nth).letter.chain = ChainOf(j)
BY DEF LetterFor, HandStates, DeadLetters

LEMMA RefuseKeeps ==
    ASSUME JobInv, NEW w \in QueueProcesses, RefusePayload(w)
    PROVE  JobInv'
  <1>1. /\ Busy(w) /\ hands[w].phase = "run" /\ UNCHANGED <<jobs, letters, desk, chains, jobDeaths>>
    BY DEF RefusePayload, HandIs, Busy, JobPhases
  <1>2. PICK i : i = hands[w].job
    OBVIOUS
  <1>3. i \in JobIds /\ jobs[i] \in JobRecords /\ ChainOf(i) \in ChainIds /\ Begun(ChainOf(i))
    BY <1>1, <1>2, BusyFacts
  <1>4. jobs[i].stalls \in Nat
    BY <1>3 DEF JobRecords
  <1>5. PICK h : h = LetterFor(i, "NOT_RETRYABLE", FALSE, jobs[i].stalls)
    OBVIOUS
  <1>6. h \in HandStates /\ h.phase = "letter" /\ h.job = i /\ h.letter.chain = ChainOf(i)
    BY <1>3, <1>4, <1>5, LetterIs DEF Refusals
  <1>7. hands' = [hands EXCEPT ![w] = h]
    BY <1>2, <1>5 DEF RefusePayload
  <1>8. chains \in [ChainIds -> ChainRecords \cup {NoChain}] /\ letters \subseteq DeadLetters
    BY DEF JobInv, QueueTypes
  <1>9. ~Finishing(w) /\ hands[w].phase # "letter" /\ h.phase \in JobPhases
    BY <1>1, <1>6 DEF Finishing, JobPhases
  <1>. QED
    BY <1>1, <1>2, <1>3, <1>6, <1>7, <1>8, <1>9, HandKeeps DEF Begun

LEMMA SucceedKeeps ==
    ASSUME JobInv, NEW w \in QueueProcesses, SucceedAttempt(w)
    PROVE  JobInv'
  <1>1. /\ Busy(w) /\ hands[w].phase = "run" /\ UNCHANGED <<jobs, letters, desk, jobDeaths>>
    BY DEF SucceedAttempt, HandIs, Busy, JobPhases
  <1>2. PICK i : i = hands[w].job
    OBVIOUS
  <1>3. i \in JobIds /\ ChainOf(i) \in ChainIds /\ Begun(ChainOf(i))
    BY <1>1, <1>2, BusyFacts
  <1>4. hands[w] \in [phase : {"run", "ack"}, job : JobIds]
    BY <1>1, HandFacts DEF JobInv, HandStates, IdleHand
  <1>5. PICK h : h = [hands[w] EXCEPT !.phase = "ack"] /\ hands' = [hands EXCEPT ![w] = h]
    BY DEF SucceedAttempt, HandGoesOn
  <1>6. h \in HandStates /\ h.phase = "ack" /\ h.job = i
    BY <1>2, <1>4, <1>5 DEF HandStates
  <1>7. PICK y : y = [chains[ChainOf(i)] EXCEPT !.state = "done"]
    OBVIOUS
  <1>8. y \in ChainRecords /\ y.settled = chains[ChainOf(i)].settled
    BY <1>3, <1>7 DEF Begun, ChainRecords
  <1>9. chains' = [chains EXCEPT ![ChainOf(i)] = y]
    BY <1>2, <1>7 DEF SucceedAttempt
  <1>10. QueueTypes /\ letters \subseteq DeadLetters
    BY DEF JobInv, QueueTypes
  <1>11. /\ chains' \in [ChainIds -> ChainRecords \cup {NoChain}]
         /\ chains'[ChainOf(i)] = y
         /\ \A d \in ChainIds \ {ChainOf(i)} : chains'[d] = chains[d]
         /\ \A d \in ChainIds : Begun(d) <=> Begun(d)'
    BY <1>3, <1>8, <1>9, <1>10, StillBegun
  <1>12. \A c \in ChainIds : Begun(c)' /\ chains'[c].settled => Begun(c) /\ chains[c].settled
    BY <1>8, <1>11
  <1>13. ~Finishing(w) /\ hands[w].phase # "letter" /\ h.phase \in JobPhases
    BY <1>1, <1>6 DEF Finishing, JobPhases
  <1>. QED
    BY <1>1, <1>2, <1>5, <1>6, <1>10, <1>11, <1>12, <1>13, HandKeeps

LEMMA FailKeeps ==
    ASSUME JobInv, NEW w \in QueueProcesses, NEW error \in JobErrors, FailAttempt(w, error)
    PROVE  JobInv'
  <1>1. /\ Busy(w) /\ hands[w].phase = "run" /\ UNCHANGED <<jobs, letters, desk, jobDeaths>>
    BY DEF FailAttempt, HandIs, Busy, JobPhases
  <1>2. PICK i : i = hands[w].job
    OBVIOUS
  <1>3. PICK c : c = ChainOf(i)
    OBVIOUS
  <1>4. i \in JobIds /\ jobs[i] \in JobRecords /\ c \in ChainIds /\ Begun(c)
    BY <1>1, <1>2, <1>3, BusyFacts
  <1>5. PICK n \in Nat : n = AttemptOf(jobs[i].payload)
    BY <1>4 DEF AttemptOf, JobRecords
  <1>6. PICK decision : decision = DecideRetry(error, n, TriesOf[TaskOf(i)])
    OBVIOUS
  <1>7. chains[c].fails + 1 \in Nat /\ chains[c] \in ChainRecords
    BY <1>4 DEF Begun, ChainRecords
  <1>8. PICK h : /\ hands' = [hands EXCEPT ![w] = h]
                 /\ h = IF decision \in Refusals
                        THEN LetterFor(i, decision, TRUE, chains[c].fails + 1)
                        ELSE [phase |-> "again", job |-> i,
                              next |-> IF decision = "RETRY" THEN n + 1 ELSE n]
    BY <1>2, <1>3, <1>5, <1>6 DEF FailAttempt
  <1>9. /\ h \in HandStates /\ h.phase \in {"letter", "again"} /\ h.job = i
        /\ h.phase = "letter" => h.letter.chain = c
        /\ decision \in Refusals => h.phase = "letter"
    <2>1. CASE decision \in Refusals
      <3>1. h = LetterFor(i, decision, TRUE, chains[c].fails + 1)
        BY <1>8, <2>1
      <3>2. ChainOf(i) \in ChainIds /\ TRUE \in BOOLEAN
        BY <1>3, <1>4
      <3>3. PICK n1 \in Nat : n1 = chains[c].fails + 1
        BY <1>7
      <3>4. h = LetterFor(i, decision, TRUE, n1)
        BY <3>1, <3>3
      <3>. QED BY <1>3, <1>4, <2>1, <3>2, <3>4, LetterIs
    <2>2. CASE decision \notin Refusals
      <3>1. PICK m \in Nat : h = [phase |-> "again", job |-> i, next |-> m]
        BY <1>5, <1>8, <2>2
      <3>. QED BY <1>4, <2>2, <3>1 DEF HandStates
    <2>. QED BY <2>1, <2>2
  <1>10. error = "PUBLISHING_TIMEOUT" => h.phase = "letter"
    BY <1>6, <1>9 DEF DecideRetry, Refusals
  <1>11. PICK y : /\ chains' = [chains EXCEPT ![c] = y]
                  /\ y \in ChainRecords
                  /\ y.settled => chains[c].settled \/ error = "PUBLISHING_TIMEOUT"
    <2>1. PICK s \in Nat : s = IF error = "PROVIDER_RATE_LIMIT" THEN chains[c].spent
                                ELSE chains[c].spent + 1
      BY <1>7 DEF ChainRecords
    <2>2. PICK b \in BOOLEAN : b = (chains[c].settled \/ error = "PUBLISHING_TIMEOUT")
      BY <1>7 DEF ChainRecords
    <2>3. PICK f \in Nat : f = chains[c].fails + 1
      BY <1>7
    <2>4. chains' = [chains EXCEPT ![c] = [chains[c] EXCEPT !.fails = f, !.spent = s, !.settled = b]]
      <3>1. chains \in [ChainIds -> ChainRecords \cup {NoChain}]
        BY DEF JobInv, QueueTypes
      <3>. QED BY <1>2, <1>3, <1>4, <1>7, <2>1, <2>2, <2>3, <3>1 DEF FailAttempt, ChainRecords
    <2>5. [chains[c] EXCEPT !.fails = f, !.spent = s, !.settled = b] \in ChainRecords
      BY <1>7 DEF ChainRecords
    <2>6. [chains[c] EXCEPT !.fails = f, !.spent = s, !.settled = b].settled = b
      BY <1>7 DEF ChainRecords
    <2>. QED BY <2>2, <2>4, <2>5, <2>6
  <1>12. QueueTypes /\ letters \subseteq DeadLetters
    BY DEF JobInv, QueueTypes
  <1>13. /\ chains' \in [ChainIds -> ChainRecords \cup {NoChain}]
         /\ chains'[c] = y
         /\ \A d \in ChainIds \ {c} : chains'[d] = chains[d]
         /\ \A d \in ChainIds : Begun(d) <=> Begun(d)'
    BY <1>4, <1>11, <1>12, StillBegun
  <1>14. \A d \in ChainIds : Begun(d)' /\ chains'[d].settled =>
             \/ Begun(d) /\ chains[d].settled
             \/ d = c /\ h.phase = "letter"
    BY <1>4, <1>10, <1>11, <1>13
  <1>15. ~Finishing(w) /\ hands[w].phase # "letter" /\ h.phase \in JobPhases
    BY <1>1, <1>9 DEF Finishing, JobPhases
  <1>16. h.phase \in {"letter", "nack"} => Begun(h.letter.chain)
    BY <1>4, <1>9
  <1>. QED
    BY <1>1, <1>2, <1>3, <1>8, <1>9, <1>12, <1>13, <1>14, <1>15, <1>16, HandKeeps

LEMMA LetterKeeps ==
    ASSUME JobInv, NEW w \in QueueProcesses, RecordDeadLetter(w)
    PROVE  JobInv'
  <1>1. /\ Busy(w) /\ hands[w].phase = "letter" /\ UNCHANGED <<jobs, desk, chains, jobDeaths>>
        /\ letters' = letters \cup {hands[w].letter}
    BY DEF RecordDeadLetter, HandIs, Busy, JobPhases
  <1>2. hands[w] \in [phase : {"letter", "nack"}, job : JobIds, letter : DeadLetters]
    BY <1>1, HandFacts DEF JobInv, HandStates, IdleHand
  <1>3. PICK h : h = [hands[w] EXCEPT !.phase = "nack"] /\ hands' = [hands EXCEPT ![w] = h]
    BY DEF RecordDeadLetter, HandGoesOn
  <1>4. /\ h \in HandStates /\ h.phase = "nack" /\ h.job = hands[w].job
        /\ h.letter = hands[w].letter /\ h.letter \in DeadLetters
    BY <1>2, <1>3 DEF HandStates
  <1>5. Begun(hands[w].letter.chain)
    BY <1>1 DEF JobInv, ChainsExist
  <1>6. chains \in [ChainIds -> ChainRecords \cup {NoChain}] /\ letters \subseteq DeadLetters
    BY DEF JobInv, QueueTypes
  <1>7. h.phase \in JobPhases
    BY <1>4 DEF JobPhases
  <1>. QED
    BY <1>1, <1>3, <1>4, <1>5, <1>6, <1>7, HandKeeps DEF Begun

LEMMA TakeKeeps ==
    ASSUME JobInv, NEW w \in QueueProcesses, NEW j \in JobIds, TakeJob(w, j)
    PROVE  JobInv'
  <1>1. QueueTypes /\ ChainsExist /\ HandsAreApart
    BY DEF JobInv
  <1>2. jobs[j].state = "waiting" /\ jobs[j] # NoJob /\ jobs[j] \in JobRecords /\ ~Busy(w)
    BY <1>1, JobFacts DEF TakeJob, NoJob, HandIs, Busy, JobPhases
  <1>3. PICK r : r = [jobs[j] EXCEPT !.state = "active"] /\ jobs' = [jobs EXCEPT ![j] = r]
    BY DEF TakeJob
  <1>4. r \in JobRecords /\ r.payload = jobs[j].payload /\ r.state = "active"
    BY <1>2, <1>3 DEF JobRecords, HeldStates
  <1>5. PICK h : h = [phase |-> "run", job |-> j] /\ hands' = [hands EXCEPT ![w] = h]
    BY DEF TakeJob
  <1>6. h \in HandStates /\ hands'[w] = h /\ \A v \in QueueProcesses \ {w} : hands'[v] = hands[v]
    BY <1>1, <1>5 DEF HandStates, QueueTypes
  <1>7. \A v \in QueueProcesses : Busy(v) => hands[v].job # j
    BY <1>1, <1>2 DEF HandsAreApart
  <1>8. j \in LiveJobs(ChainOf(j))
    BY <1>1, <1>2, <1>7, HandFacts DEF LiveJobs
  <1>9. hands' \in [QueueProcesses -> HandStates]
    BY <1>1, <1>5, <1>6 DEF QueueTypes
  <1>10. \A v, u \in QueueProcesses :
            Busy(v)' /\ Busy(u)' /\ hands'[v].job = j /\ hands'[u].job = j => v = u
    BY <1>6, <1>7 DEF Busy
  <1>11. \A v \in QueueProcesses :
               \/ hands'[v] = hands[v] /\ ~(Busy(v) /\ hands[v].job = j)
               \/ hands'[v] = [phase |-> "run", job |-> j] /\ ~Busy(v)
                  /\ jobs[j].state = "waiting" /\ r.state = "active"
    BY <1>2, <1>4, <1>5, <1>6, <1>7
  <1>12. UNCHANGED <<letters, desk, chains, jobDeaths>>
    BY DEF TakeJob
  <1>13. \A v \in QueueProcesses :
               \/ hands'[v] = hands[v] /\ ~(Busy(v) /\ hands[v].job = j)
               \/ hands'[v] = IdleHand /\ Busy(v) /\ hands[v].job = j
                  /\ r.state \notin {"waiting", "active"}
               \/ hands'[v] = [phase |-> "run", job |-> j] /\ ~Busy(v)
                  /\ jobs[j].state = "waiting" /\ r.state = "active"
    BY <1>11
  <1>14. \E v \in QueueProcesses : hands'[v] = [phase |-> "run", job |-> j]
    BY <1>5, <1>6
  <1>15. jobs' = [jobs EXCEPT ![j] = r]
    BY <1>3
  <1>16. r = NoJob \/ (r \in JobRecords /\ r.payload = jobs[j].payload)
    BY <1>4
  <1>17. r.state \in {"waiting", "active"} => j \in LiveJobs(ChainOf(j))
    BY <1>8
  <1>18. r.state = "active" =>
           \E v \in QueueProcesses : hands'[v] = [phase |-> "run", job |-> j]
    BY <1>14
  <1>19. jobs[j] # NoJob
    BY <1>2
  <1>. QED
    BY <1>9, <1>10, <1>12, <1>13, <1>15, <1>16, <1>17, <1>18, <1>19, JobsKeep, ZenonT(90)

LEMMA EndedIs ==
    ASSUME NEW j, jobs[j] \in JobRecords, NEW s \in {"completed", "failed"}
    PROVE  /\ EndedJob(j, s) = NoJob \/ (EndedJob(j, s) \in JobRecords
                                         /\ EndedJob(j, s).payload = jobs[j].payload)
           /\ EndedJob(j, s).state \notin {"waiting", "active"}
BY DEF EndedJob, JobRecords, NoJob, HeldStates

LEMMA AcknowledgeKeeps ==
    ASSUME JobInv, NEW w \in QueueProcesses, Acknowledge(w)
    PROVE  JobInv'
  <1>1. QueueTypes /\ Busy(w)
    BY DEF JobInv, Acknowledge, Busy, JobPhases
  <1>2. PICK j : j = hands[w].job
    OBVIOUS
  <1>3. /\ j \in JobIds /\ jobs[j] # NoJob /\ jobs[j] \in JobRecords
        /\ \A v \in QueueProcesses \ {w} : Busy(v) => hands[v].job # j
    BY <1>1, <1>2, BusyFacts
  <1>4. PICK s \in {"completed", "failed"} : jobs' = [jobs EXCEPT ![j] = EndedJob(j, s)]
    BY <1>2 DEF Acknowledge
  <1>5. PICK r : r = EndedJob(j, s)
    OBVIOUS
  <1>6. r.state \notin {"waiting", "active"} /\ (r = NoJob \/ (r \in JobRecords
            /\ r.payload = jobs[j].payload))
    BY <1>3, <1>5, EndedIs
  <1>7. /\ hands'[w] = IdleHand /\ \A v \in QueueProcesses \ {w} : hands'[v] = hands[v]
        /\ hands' \in [QueueProcesses -> HandStates]
    BY <1>1 DEF Acknowledge, QueueTypes, HandStates
  <1>8. \A v \in QueueProcesses :
               \/ hands'[v] = hands[v] /\ ~(Busy(v) /\ hands[v].job = j)
               \/ hands'[v] = IdleHand /\ Busy(v) /\ hands[v].job = j
                  /\ r.state \notin {"waiting", "active"}
    BY <1>1, <1>2, <1>3, <1>6, <1>7
  <1>9. \A v, u \in QueueProcesses :
            Busy(v)' /\ Busy(u)' /\ hands'[v].job = j /\ hands'[u].job = j => v = u
    BY <1>3, <1>7 DEF Busy, IdleHand, JobPhases
  <1>. QED
    BY <1>3, <1>4, <1>5, <1>6, <1>7, <1>8, <1>9, JobsKeep DEF Acknowledge

LEMMA ReclaimKeeps ==
    ASSUME JobInv, NEW j \in JobIds, ReclaimStalled(j)
    PROVE  JobInv'
  <1>1. QueueTypes /\ ChainsExist
    BY DEF JobInv
  <1>2. jobs[j].state = "active" /\ jobs[j] # NoJob /\ jobs[j] \in JobRecords
    BY <1>1, JobFacts DEF ReclaimStalled, Orphaned, NoJob
  <1>3. \A v \in QueueProcesses : Busy(v) => hands[v].job # j
    BY DEF ReclaimStalled, Orphaned, InHand, Busy
  <1>4. PICK r : r = Stalled(j)
    OBVIOUS
  <1>5. /\ r = NoJob \/ (r \in JobRecords /\ r.payload = jobs[j].payload)
        /\ r.state # "active"
    <2>1. CASE jobs[j].stalls < 1
      <3>1. PICK n \in Nat : n = jobs[j].stalls + 1
        BY <1>2 DEF JobRecords
      <3>2. r = [jobs[j] EXCEPT !.state = "waiting", !.stalls = n]
        BY <1>4, <2>1, <3>1 DEF Stalled
      <3>. QED BY <1>2, <3>2 DEF JobRecords, HeldStates
    <2>2. CASE ~(jobs[j].stalls < 1)
      BY <1>2, <1>4, <2>2, EndedIs DEF Stalled
    <2>. QED BY <2>1, <2>2
  <1>6. j \in LiveJobs(ChainOf(j))
    BY <1>1, <1>2, <1>3, HandFacts DEF LiveJobs
  <1>7. hands' \in [QueueProcesses -> HandStates] /\ hands' = hands
        /\ UNCHANGED <<letters, desk, chains, jobDeaths>> /\ jobs' = [jobs EXCEPT ![j] = r]
    BY <1>1, <1>4 DEF ReclaimStalled, QueueTypes
  <1>8. \A v, u \in QueueProcesses :
            Busy(v)' /\ Busy(u)' /\ hands'[v].job = j /\ hands'[u].job = j => v = u
    BY <1>3, <1>7 DEF Busy
  <1>. QED
    BY <1>2, <1>3, <1>5, <1>6, <1>7, <1>8, JobsKeep

LEMMA TrimKeeps ==
    ASSUME JobInv, NEW j \in JobIds, TrimRecord(j)
    PROVE  JobInv'
  <1>1. QueueTypes /\ HandsAreApart
    BY DEF JobInv
  <1>2. jobs[j].state \in {"completed", "failed"} /\ jobs[j] # NoJob
    BY DEF TrimRecord, NoJob
  <1>3. \A v \in QueueProcesses : Busy(v) => hands[v].job # j
    BY <1>1, <1>2 DEF HandsAreApart
  <1>4. /\ hands' \in [QueueProcesses -> HandStates] /\ hands' = hands
        /\ UNCHANGED <<letters, desk, chains, jobDeaths>> /\ jobs' = [jobs EXCEPT ![j] = NoJob]
    BY <1>1 DEF TrimRecord, QueueTypes
  <1>5. NoJob.state \notin {"waiting", "active"}
    BY DEF NoJob
  <1>6. \A v, u \in QueueProcesses :
            Busy(v)' /\ Busy(u)' /\ hands'[v].job = j /\ hands'[u].job = j => v = u
    BY <1>3, <1>4 DEF Busy
  <1>. QED BY <1>2, <1>3, <1>4, <1>5, <1>6, JobsKeep

\* A letter is discarded, and its request answered.
LEMMA DismissedIs ==
    ASSUME JobInv, NEW l \in DeadLetters, Begun(l.chain), chains' = Dismissed(l)
    PROVE  /\ chains' \in [ChainIds -> ChainRecords \cup {NoChain}]
           /\ \A c \in ChainIds : Begun(c) <=> Begun(c)'
           /\ \A c \in ChainIds : Begun(c) => chains'[c].settled = chains[c].settled
  <1>1. QueueTypes /\ l.chain \in ChainIds
    BY DEF JobInv, DeadLetters
  <1>2. PICK s \in {"owed", "done", "answered"} :
          s = IF chains[l.chain].state = "owed" THEN "answered" ELSE chains[l.chain].state
    BY DEF Begun, ChainRecords
  <1>3. PICK y : y = [chains[l.chain] EXCEPT !.state = s]
    OBVIOUS
  <1>4. y \in ChainRecords /\ y.settled = chains[l.chain].settled
    BY <1>2, <1>3 DEF Begun, ChainRecords
  <1>5. chains' = [chains EXCEPT ![l.chain] = y]
    BY <1>1, <1>2, <1>3 DEF Dismissed, QueueTypes
  <1>. QED BY <1>1, <1>4, <1>5, StillBegun

LEMMA JobStep == JobInv /\ [JobNext]_jobVars => JobInv'
  <1> SUFFICES ASSUME JobInv, [JobNext]_jobVars PROVE JobInv'
    OBVIOUS
  <1> USE DEF JobWorkerStep
  <1>0. /\ QueueTypes /\ ChainsExist /\ letters \subseteq DeadLetters
        /\ desk \in [QueueAdmins -> DeadLetters \cup {NoLetter}]
        /\ chains \in [ChainIds -> ChainRecords \cup {NoChain}]
    BY DEF JobInv, QueueTypes
  <1>1. ASSUME NEW w \in QueueProcesses, JobWorkerStep(w) PROVE JobInv'
    BY <1>1, TakeKeeps, RefuseKeeps, SucceedKeeps, FailKeeps, LetterKeeps, ReenqueueKeeps,
       AcknowledgeKeeps
  <1>2. ASSUME NEW j \in JobIds, ReclaimStalled(j) \/ TrimRecord(j) PROVE JobInv'
    BY <1>2, ReclaimKeeps, TrimKeeps
  <1>3. ASSUME NEW t \in QueueTasks, Produce(t) PROVE JobInv'
    BY <1>0, <1>3, RequestKeeps DEF Produce
  <1>4. ASSUME NEW w \in QueueProcesses, JobDies(w) PROVE JobInv'
    BY <1>4, DeathKeeps
  <1>5. ASSUME NEW a \in QueueAdmins, NEW l \in letters, RetryJob(a, l) PROVE JobInv'
    <2>1. chains[l.chain].task \in QueueTasks /\ l \in DeadLetters
      BY <1>0 DEF ChainsExist, Begun, ChainRecords
    <2>2. PICK c \in FreshChains :
            /\ BeginChain(c, chains[l.chain].task)
            /\ EnqueueJob(Unnamed, [chain |-> c, attempt |-> 0])
      BY <1>5 DEF RetryJob
    <2>3. /\ desk' \in [QueueAdmins -> DeadLetters \cup {NoLetter}]
          /\ \A b \in QueueAdmins : desk'[b] = desk[b] \/ desk'[b] \in letters
          /\ UNCHANGED <<letters, hands, jobDeaths>>
      BY <1>0, <1>5, <2>1 DEF RetryJob
    <2>. QED BY <2>1, <2>2, <2>3, RequestKeeps
  <1>6. ASSUME NEW a \in QueueAdmins, DiscardRetried(a) \/ RetryInterrupted(a) PROVE JobInv'
    <2>1. /\ desk' = [desk EXCEPT ![a] = NoLetter] /\ desk[a] # NoLetter
          /\ letters' \subseteq letters /\ UNCHANGED <<jobs, hands, jobDeaths>>
          /\ desk[a] \in DeadLetters /\ Begun(desk[a].chain)
      BY <1>0, <1>6 DEF DiscardRetried, RetryInterrupted, ChainsExist
    <2>2. /\ desk' \in [QueueAdmins -> DeadLetters \cup {NoLetter}]
          /\ \A b \in QueueAdmins : desk'[b] \in {desk[b], NoLetter}
      BY <1>0, <2>1
    <2>3. /\ chains' \in [ChainIds -> ChainRecords \cup {NoChain}]
          /\ \A c \in ChainIds : Begun(c) <=> Begun(c)'
          /\ \A c \in ChainIds : Begun(c) => chains'[c].settled = chains[c].settled
      <3>1. CASE DiscardRetried(a)
        BY <2>1, <3>1, DismissedIs DEF DiscardRetried
      <3>2. CASE RetryInterrupted(a)
        BY <1>0, <3>2 DEF RetryInterrupted, Begun
      <3>. QED BY <1>6, <3>1, <3>2
    <2>. QED BY <2>1, <2>2, <2>3, DeskKeeps
  <1>7. ASSUME NEW l \in letters, DiscardJob(l) PROVE JobInv'
    <2>1. /\ chains' \in [ChainIds -> ChainRecords \cup {NoChain}]
          /\ \A c \in ChainIds : Begun(c) <=> Begun(c)'
          /\ \A c \in ChainIds : Begun(c) => chains'[c].settled = chains[c].settled
      BY <1>0, <1>7, DismissedIs DEF DiscardJob, ChainsExist
    <2>2. letters' \subseteq letters /\ UNCHANGED <<jobs, hands, desk, jobDeaths>>
      BY <1>7 DEF DiscardJob
    <2>. QED BY <1>0, <2>1, <2>2, DeskKeeps
  <1>8. CASE UNCHANGED jobVars
    BY <1>0, <1>8, DeskKeeps DEF jobVars, Begun
  <1>. QED
    BY <1>1, <1>2, <1>3, <1>4, <1>5, <1>6, <1>7, <1>8 DEF JobNext, JobProgress

----------------------------------------------------------------------------
(* Theorems.                                                               *)

\* For every number of tasks, processes, requests and jobs, and wherever
\* processes die: the invariant of the queue.
THEOREM JobInvariant == JobSpec => []JobInv
  BY QueueStarts, JobStep, PTL DEF JobSpec

\* Each variable keeps its type, and a process with a job has one that is
\* active (packages/queue).
THEOREM JobTypeCorrect == JobSpec => []JobTypeOK
  <1>1. JobInv => JobTypeOK
    <2> SUFFICES ASSUME JobInv PROVE JobTypeOK
      OBVIOUS
    <2>1. QueueTypes /\ ChainsExist /\ HandsAreApart
      BY DEF JobInv
    <2>2. \A j \in JobIds : jobs[j] = NoJob \/
          /\ jobs[j].state \in HeldStates
          /\ jobs[j].name \in QueueTasks \cup {Unnamed}
          /\ jobs[j].stalls \in Nat
          /\ jobs[j].payload \in [chain : ChainIds, attempt : Nat]
          /\ chains[ChainOf(j)] # NoChain
      BY <2>1, JobFacts DEF JobRecords
    <2>3. \A w \in QueueProcesses :
          /\ hands[w].phase \in {"idle"} \cup JobPhases
          /\ hands[w].phase \in JobPhases =>
                hands[w].job \in JobIds /\ jobs[hands[w].job].state = "active"
      BY <2>1, HandFacts DEF HandsAreApart, Busy
    <2>4. \A l \in letters : l.chain \in ChainIds /\ l.reason \in Refusals
      BY <2>1 DEF QueueTypes, DeadLetters
    <2>. QED BY <2>1, <2>2, <2>3, <2>4 DEF JobTypeOK, QueueTypes
  <1>. QED BY <1>1, JobInvariant, PTL

\* The runs of a request are no more than the jobs it still has, which are no
\* more than one and one for each death: however jobs are retried, stall and are
\* handed out again, only a death makes a request run twice at a time, and an
\* attempt whose outcome is unknown is the last (runAttempt, decideRetry).
THEOREM OneRunAtATime == JobSpec => []OneRunPerChain
  <1>1. JobInv => OneRunPerChain
    <2> SUFFICES ASSUME JobInv, NEW c \in ChainIds
                 PROVE  /\ Cardinality(RunsOfChain(c)) <= 1 + jobDeaths
                        /\ chains[c] # NoChain /\ chains[c].settled /\ jobDeaths = 0 =>
                               RunsOfChain(c) = {}
      BY DEF OneRunPerChain
    <2>1. QueueTypes /\ HandsAreApart /\ OneLiveJob /\ OpenIsLettered /\ jobDeaths \in Nat
      BY QueueAssumption DEF JobInv, QueueTypes
    <2>2. \A w \in RunsOfChain(c) :
              w \in QueueProcesses /\ Busy(w) /\ hands[w].phase = "run" /\ hands[w].job \in LiveJobs(c)
      <3> SUFFICES ASSUME NEW w \in RunsOfChain(c)
                   PROVE  w \in QueueProcesses /\ Busy(w) /\ hands[w].phase = "run"
                          /\ hands[w].job \in LiveJobs(c)
        OBVIOUS
      <3>1. w \in QueueProcesses /\ Busy(w) /\ hands[w].phase = "run" /\ ChainOf(hands[w].job) = c
        BY DEF RunsOfChain, HandIs, Busy, JobPhases
      <3>2. /\ hands[w].job \in JobIds /\ jobs[hands[w].job].state = "active"
            /\ \A v \in QueueProcesses \ {w} : Busy(v) => hands[v].job # hands[w].job
        BY <3>1, BusyFacts
      <3>3. \A v \in QueueProcesses : Finishing(v) => hands[v].job # hands[w].job
        BY <2>1, <3>1, <3>2, HandFacts DEF Finishing
      <3>. QED BY <3>1, <3>2, <3>3 DEF LiveJobs
    <2>3. Cardinality(RunsOfChain(c)) <= 1 + jobDeaths
      <3> DEFINE f == [w \in RunsOfChain(c) |-> hands[w].job]
      <3>1. f \in [RunsOfChain(c) -> LiveJobs(c)]
        BY <2>2
      <3>2. \A v, w \in RunsOfChain(c) : f[v] = f[w] => v = w
        BY <2>1, <2>2 DEF HandsAreApart
      <3>3. f \in Injection(RunsOfChain(c), LiveJobs(c))
        BY <3>1, <3>2 DEF Injection, IsInjective
      <3> HIDE DEF f
      <3>4. /\ IsFiniteSet(RunsOfChain(c))
            /\ Cardinality(RunsOfChain(c)) <= Cardinality(LiveJobs(c))
        BY <3>3, LiveIsFinite, FS_Injection
      <3>5. Cardinality(RunsOfChain(c)) \in Nat /\ Cardinality(LiveJobs(c)) \in Nat
        BY <3>4, LiveIsFinite, FS_CardinalityType
      <3>6. Cardinality(LiveJobs(c)) <= 1 + jobDeaths
        BY <2>1 DEF OneLiveJob
      <3>. QED BY <2>1, <3>4, <3>5, <3>6
    <2>4. ASSUME chains[c] # NoChain, chains[c].settled, jobDeaths = 0, NEW w \in RunsOfChain(c)
          PROVE  FALSE
      <3>1. Begun(c)
        BY <2>1, <2>4 DEF QueueTypes, Begun
      <3>2. PICK v \in QueueProcesses : hands[v].phase = "letter" /\ hands[v].job = hands[w].job
        BY <2>1, <2>2, <2>4, <3>1 DEF OpenIsLettered
      <3>3. Busy(v)
        BY <3>2 DEF Busy, JobPhases
      <3>. QED BY <2>1, <2>2, <2>4, <3>2, <3>3 DEF HandsAreApart
    <2>. QED BY <2>3, <2>4
  <1>. QED BY <1>1, JobInvariant, PTL

----------------------------------------------------------------------------
(***************************************************************************)
(* RateLimit, for every bucket, every skew and however long.               *)
(***************************************************************************)

\* The lapse in which an idle bucket is dropped refills it, so that a bucket
\* that was dropped has missed nothing.
DroppedIsFull ==
    \/ bucket.updatedAt + RefillWindow <= bucket.dropped
    \/ bucket.updatedAt = 0 /\ taken = 0

\* What was allowed and what is left, against what came in by the bucket's own
\* account of the time.  This is what BudgetKept rests on.
Accounted ==
    taken * RefillWindow + bucket.tokens
      <= FullBucket + Capacity * (bucket.updatedAt + rewound)

\* What was promised holds by the bucket's account as well.
PromiseStands ==
    promised >= 0 => Refills(bucket.tokens, promised - bucket.updatedAt) >= RefillWindow

BucketRecord == [tokens : 0 .. FullBucket, updatedAt : Nat, dropped : Nat]

RateInv ==
    /\ RateTypeOK /\ bucket \in BucketRecord /\ promised \in Int
    /\ DroppedIsFull /\ Accounted /\ PromiseStands

----------------------------------------------------------------------------
LEMMA ProductNat == ASSUME NEW a \in Nat, NEW b \in Nat PROVE a * b \in Nat
OBVIOUS

LEMMA Grows ==
    ASSUME NEW c \in Nat, NEW a \in Int, NEW b \in Int, a <= b
    PROVE  c * a <= c * b
OBVIOUS

LEMMA Distributes ==
    ASSUME NEW c \in Int, NEW a \in Int, NEW b \in Int
    PROVE  c * (a + b) = c * a + c * b
OBVIOUS

\* A call fits into a bucket, and a bucket is a natural number of parts.
LEMMA Full == FullBucket \in Nat /\ RefillWindow <= FullBucket /\ FullBucket = Capacity * RefillWindow
<1>1. Capacity \in Nat /\ RefillWindow \in Nat /\ 1 <= Capacity  BY RateAssumption
<1>2. FullBucket \in Nat  BY <1>1, ProductNat DEF FullBucket
<1>3. RefillWindow * 1 <= RefillWindow * Capacity  BY <1>1, Grows
<1> QED  BY <1>1, <1>2, <1>3 DEF FullBucket

\* The wait, in milliseconds, refills what was missing.
LEMMA WaitRefills ==
    ASSUME NEW d \in Nat
    PROVE  WaitMs(d) \in Nat /\ d <= WaitMs(d) * Capacity
<1>1. Capacity \in Nat /\ 1 <= Capacity  BY RateAssumption
<1> DEFINE q == (d + Capacity - 1) \div Capacity
<1>2. q \in Int /\ q * Capacity <= d + Capacity - 1 /\ d + Capacity - 1 < q * Capacity + Capacity
  BY <1>1
<1>3. q >= 0  BY <1>1
<1> QED  BY <1>1, <1>2, <1>3 DEF WaitMs

LEMMA RefillsType ==
    ASSUME NEW t \in 0 .. FullBucket, NEW e \in Int
    PROVE  /\ Refills(t, e) \in 0 .. FullBucket
           /\ Refills(t, e) <= t + Positive(e) * Capacity
           /\ t <= Refills(t, e)
<1>1. Positive(e) \in Nat /\ Capacity \in Nat  BY RateAssumption DEF Positive
<1>2. Positive(e) * Capacity \in Nat  BY <1>1, ProductNat
<1> QED  BY <1>2, Full DEF Refills, Lesser

LEMMA RateInitial == RateInit => RateInv
<1> SUFFICES ASSUME RateInit PROVE RateInv  OBVIOUS
<1>1. FullBucket \in 0 .. FullBucket  BY Full
<1>2. RateTypeOK /\ bucket \in BucketRecord /\ promised \in Int
  BY <1>1, RateAssumption DEF RateInit, RateTypeOK, BucketRecord
<1>3. DroppedIsFull /\ PromiseStands  BY DEF RateInit, DroppedIsFull, PromiseStands
<1>4. Accounted  BY Full, RateAssumption DEF RateInit, Accounted
<1> QED  BY <1>2, <1>3, <1>4 DEF RateInv

----------------------------------------------------------------------------
(* A call, allowed or refused.                                             *)

Rewound(now) == IF Held THEN rewound + Positive(bucket.updatedAt - now) ELSE rewound

\* Whether the bucket is held or was dropped, what it is refilled to is still
\* accounted for at the caller's now.
LEMMA RefilledAccounted ==
    ASSUME RateInv, NEW now \in Nat, redisTime <= now
    PROVE  /\ Refilled(now) \in 0 .. FullBucket /\ Rewound(now) \in Nat
           /\ taken * RefillWindow + Refilled(now) <= FullBucket + Capacity * (now + Rewound(now))
<1> DEFINE t == bucket.tokens
           u == bucket.updatedAt
<1>1. /\ t \in 0 .. FullBucket /\ u \in Nat /\ rewound \in Nat /\ taken \in Nat
      /\ redisTime \in Nat /\ bucket.dropped \in Nat
  BY DEF RateInv, RateTypeOK, BucketRecord
<1>2. Capacity \in Nat /\ RefillWindow \in Nat /\ taken * RefillWindow \in Nat
  BY <1>1, RateAssumption, ProductNat
<1>3. taken * RefillWindow + t <= FullBucket + Capacity * (u + rewound)
  BY DEF RateInv, Accounted
<1>4. CASE Held
  <2>1. Refilled(now) = Refills(t, now - u)  BY <1>4 DEF Refilled
  <2>2. Refilled(now) \in 0 .. FullBucket /\ Refilled(now) <= t + Positive(now - u) * Capacity
    BY <1>1, <2>1, RefillsType
  <2>3. now + Rewound(now) = (u + rewound) + Positive(now - u)
    BY <1>1, <1>4 DEF Rewound, Positive
  <2>4. Positive(now - u) \in Nat /\ Rewound(now) \in Nat
    BY <1>1, <1>4 DEF Positive, Rewound
  <2>5. Capacity * (now + Rewound(now))
          = Capacity * (u + rewound) + Capacity * Positive(now - u)
    BY <1>1, <1>2, <2>3, <2>4, Distributes
  <2>6. /\ Capacity * (u + rewound) \in Nat /\ Capacity * Positive(now - u) \in Nat
        /\ Positive(now - u) * Capacity = Capacity * Positive(now - u)
    BY <1>1, <1>2, <2>4, ProductNat
  <2> HIDE DEF t, u
  <2> QED  BY <1>1, <1>2, <1>3, <2>2, <2>4, <2>5, <2>6, Full
<1>5. CASE ~Held
  <2>1. Refilled(now) = FullBucket /\ Rewound(now) = rewound /\ bucket.dropped <= now
    BY <1>1, <1>5 DEF Refilled, Rewound, Held
  <2>2. taken * RefillWindow <= Capacity * (now + rewound)
    <3>1. CASE u = 0 /\ taken = 0
      <4>1. Capacity * (now + rewound) \in Nat  BY <1>1, <1>2, ProductNat
      <4> QED  BY <1>2, <3>1, <4>1
    <3>2. CASE u + RefillWindow <= now
      <4>1. Capacity * (u + rewound + RefillWindow) <= Capacity * (now + rewound)
        BY <1>1, <1>2, <3>2, Grows
      <4>2. Capacity * (u + rewound + RefillWindow) = Capacity * (u + rewound) + FullBucket
        BY <1>1, <1>2, Distributes, Full
      <4>3. Capacity * (u + rewound) \in Nat /\ Capacity * (now + rewound) \in Nat
        BY <1>1, <1>2, ProductNat
      <4> HIDE DEF t, u
      <4> QED  BY <1>1, <1>2, <1>3, <4>1, <4>2, <4>3, Full
    <3> QED  BY <1>1, <1>2, <2>1, <3>1, <3>2 DEF RateInv, DroppedIsFull
  <2>3. Capacity * (now + rewound) \in Nat  BY <1>1, <1>2, ProductNat
  <2> QED  BY <1>1, <1>2, <2>1, <2>2, <2>3, Full
<1> QED  BY <1>4, <1>5

\* What a call stores is a bucket again, and one that is dropped in time.
LEMMA StoredBucket ==
    ASSUME RateInv, NEW ahead \in 0 .. MaxSkew, NEW left \in 0 .. FullBucket, NEW took \in BOOLEAN,
           Stores(left, redisTime + ahead, took), taken' \in Nat
    PROVE  /\ RateTypeOK' /\ bucket' \in BucketRecord /\ DroppedIsFull'
           /\ bucket'.tokens = left /\ bucket'.updatedAt = redisTime + ahead
           /\ rewound' = Rewound(redisTime + ahead)
<1>1. redisTime \in Nat /\ redisTime' = redisTime /\ MaxSkew \in Nat /\ ahead <= MaxSkew
  BY RateAssumption DEF RateInv, RateTypeOK, Stores
<1>2. bucket' = [tokens |-> left, updatedAt |-> redisTime + ahead, dropped |-> redisTime + BucketTtl]
  BY DEF Stores, Stamps
<1>3. rewound' = Rewound(redisTime + ahead)  BY DEF Stores, Rewound
<1>4. rewound' \in Nat  BY <1>1, <1>3, RefilledAccounted
<1>5. RateTypeOK' /\ bucket' \in BucketRecord
  BY <1>1, <1>2, <1>4, RateAssumption DEF RateTypeOK, BucketRecord
<1>6. DroppedIsFull'  BY <1>1, <1>2, RateAssumption DEF DroppedIsFull
<1> QED  BY <1>2, <1>3, <1>5, <1>6

LEMMA AllowKeeps ==
    ASSUME RateInv, NEW ahead \in 0 .. MaxSkew, Allow(redisTime + ahead)
    PROVE  RateInv'
<1> DEFINE now == redisTime + ahead
           left == Refilled(now) - RefillWindow
<1>1. redisTime \in Nat /\ taken \in Nat /\ MaxSkew \in Nat /\ RefillWindow \in Nat /\ Capacity \in Nat
  BY RateAssumption DEF RateInv, RateTypeOK
<1>2. now \in Nat /\ redisTime <= now  BY <1>1
<1>3. Refilled(now) \in 0 .. FullBucket /\ RefillWindow <= Refilled(now)
  BY <1>2, RefilledAccounted DEF Allow
<1>4. left \in 0 .. FullBucket /\ taken' = taken + 1 /\ promised' = 0 - 1
  BY <1>1, <1>3, Full DEF Allow
<1>5. Stores(left, now, TRUE)  BY DEF Allow
<1> HIDE DEF left
<1>6. /\ RateTypeOK' /\ bucket' \in BucketRecord /\ DroppedIsFull'
      /\ bucket'.tokens = left /\ bucket'.updatedAt = now /\ rewound' = Rewound(now)
  <2>1. taken' \in Nat  BY <1>1, <1>4
  <2> QED  BY <1>4, <1>5, <2>1, StoredBucket
<1>7. taken' * RefillWindow = taken * RefillWindow + RefillWindow /\ taken * RefillWindow \in Nat
  BY <1>1, <1>4, ProductNat, Distributes
<1>8. left + RefillWindow = Refilled(now)  BY <1>1, <1>3 DEF left
<1>9. Accounted'
  <2>1. taken * RefillWindow + Refilled(now) <= FullBucket + Capacity * (now + Rewound(now))
    BY <1>2, RefilledAccounted
  <2>2. taken' * RefillWindow + left = taken * RefillWindow + Refilled(now)
    BY <1>1, <1>4, <1>7, <1>8, Full
  <2>3. FullBucket' = FullBucket  BY DEF FullBucket
  <2> QED  BY <1>6, <2>1, <2>2, <2>3 DEF Accounted
<1>10. PromiseStands'  BY <1>4 DEF PromiseStands
<1> QED  BY <1>4, <1>6, <1>9, <1>10 DEF RateInv

LEMMA RefusalKeeps ==
    ASSUME RateInv, NEW ahead \in 0 .. MaxSkew, Refuse(redisTime + ahead)
    PROVE  RateInv'
<1> DEFINE now == redisTime + ahead
           left == Refilled(now)
           wait == WaitMs(RefillWindow - left)
<1>1. redisTime \in Nat /\ taken \in Nat /\ MaxSkew \in Nat /\ RefillWindow \in Nat /\ Capacity \in Nat
  BY RateAssumption DEF RateInv, RateTypeOK
<1>2. now \in Nat /\ redisTime <= now  BY <1>1
<1>3. left \in 0 .. FullBucket /\ left < RefillWindow
  BY <1>2, RefilledAccounted DEF Refuse
<1>4. taken' = taken /\ promised' = now + wait /\ Stores(left, now, FALSE)  BY DEF Refuse
<1>5. /\ RateTypeOK' /\ bucket' \in BucketRecord /\ DroppedIsFull'
      /\ bucket'.tokens = left /\ bucket'.updatedAt = now /\ rewound' = Rewound(now)
  BY <1>1, <1>3, <1>4, StoredBucket
<1>6. Accounted'
  <2>1. taken * RefillWindow + left <= FullBucket + Capacity * (now + Rewound(now))
    BY <1>2, RefilledAccounted
  <2>2. FullBucket' = FullBucket  BY DEF FullBucket
  <2> QED  BY <1>4, <1>5, <2>1, <2>2 DEF Accounted
<1>7. wait \in Nat /\ RefillWindow - left <= wait * Capacity
  BY <1>1, <1>3, Full, WaitRefills
<1>8. PromiseStands'
  <2> HIDE DEF wait, left, now
  <2>1. Refills(left, promised' - now) >= RefillWindow
    <3>1. promised' - now = wait /\ Positive(wait) = wait  BY <1>2, <1>4, <1>7 DEF Positive
    <3>2. wait * Capacity \in Nat  BY <1>1, <1>7, ProductNat
    <3> QED  BY <1>1, <1>3, <1>7, <3>1, <3>2, Full DEF Refills, Lesser
  <2> QED  BY <1>5, <2>1 DEF PromiseStands, Refills, FullBucket, Lesser, Positive
<1>9. promised' \in Int  BY <1>2, <1>4, <1>7
<1> QED  BY <1>5, <1>6, <1>8, <1>9 DEF RateInv

LEMMA RateStep == RateInv /\ [RateNext]_rateVars => RateInv'
<1> SUFFICES ASSUME RateInv, [RateNext]_rateVars PROVE RateInv'  OBVIOUS
<1>1. CASE TakeToken
  BY <1>1, AllowKeeps, RefusalKeeps DEF TakeToken
<1>2. CASE Tick
  <2>1. redisTime' = redisTime + 1 /\ redisTime \in Nat
    BY <1>2 DEF Tick, RateInv, RateTypeOK
  <2>2. bucket' = bucket /\ taken' = taken /\ rewound' = rewound /\ promised' = promised
    BY <1>2 DEF Tick
  <2>3. RateTypeOK'
    BY <2>1, <2>2, RateAssumption DEF RateInv, RateTypeOK, FullBucket
  <2>4. bucket' \in BucketRecord  BY <2>2 DEF RateInv, BucketRecord, FullBucket
  <2>5. DroppedIsFull' /\ Accounted' /\ PromiseStands'
    BY <2>2 DEF RateInv, DroppedIsFull, Accounted, PromiseStands, FullBucket, Refills, Lesser, Positive
  <2> QED  BY <2>2, <2>3, <2>4, <2>5 DEF RateInv
<1>3. CASE UNCHANGED rateVars
  BY <1>3 DEF rateVars, RateInv, RateTypeOK, BucketRecord, DroppedIsFull, Accounted,
              PromiseStands, FullBucket, Refills, Lesser, Positive
<1> QED  BY <1>1, <1>2, <1>3 DEF RateNext

----------------------------------------------------------------------------
(* The theorems.                                                           *)

\* The bucket and its account of the time hold together after every call (takeToken).
THEOREM RateInvariant == RateSpec => []RateInv
BY RateInitial, RateStep, PTL DEF RateSpec

\* The bucket is never overdrawn and never holds more than its burst.
THEOREM BucketCorrect == RateSpec => []RateTypeOK
<1>1. RateInv => RateTypeOK  BY DEF RateInv
<1> QED  BY RateInvariant, <1>1, PTL

\* Tokens are accounted for (Accounted), so what was allowed fits the budget.
LEMMA AccountedIsBudget ==
    RateInv => taken * RefillWindow <= FullBucket + Capacity * (redisTime + MaxSkew + rewound)
<1> SUFFICES ASSUME RateInv
             PROVE  taken * RefillWindow <= FullBucket + Capacity * (redisTime + MaxSkew + rewound)
  OBVIOUS
<1> DEFINE u == bucket.updatedAt
<1>1. /\ u \in Nat /\ rewound \in Nat /\ redisTime \in Nat /\ taken \in Nat
      /\ bucket.tokens \in Nat /\ u <= redisTime + MaxSkew
  BY RateAssumption, Full DEF RateInv, RateTypeOK, BucketRecord
<1>2. Capacity \in Nat /\ RefillWindow \in Nat /\ MaxSkew \in Nat  BY RateAssumption
<1>3. Capacity * (u + rewound) <= Capacity * (redisTime + MaxSkew + rewound)
  BY <1>1, <1>2, Grows
<1>4. taken * RefillWindow + bucket.tokens <= FullBucket + Capacity * (u + rewound)
  BY DEF RateInv, Accounted
<1>5. /\ taken * RefillWindow \in Nat /\ Capacity * (u + rewound) \in Nat
      /\ Capacity * (redisTime + MaxSkew + rewound) \in Nat
  BY <1>1, <1>2, ProductNat
<1> HIDE DEF u
<1> QED  BY <1>1, <1>3, <1>4, <1>5, Full

\* takeToken lets no more calls through, over any stretch from the start, than
\* a burst, what the window refilled since, and what was refilled twice because
\* clocks disagreed; and who waits as long as a refusal said is let through,
\* unless somebody else was before: for every capacity, window and lapse.
THEOREM BudgetIsKept == RateSpec => []BudgetKept
<1>1. RateInv => (promised >= 0 => Refilled(promised) >= RefillWindow)
  BY Full DEF RateInv, PromiseStands, Refilled
<1>2. RateInv => BudgetKept  BY <1>1, AccountedIsBudget DEF BudgetKept
<1> QED  BY RateInvariant, <1>2, PTL

----------------------------------------------------------------------------
(***************************************************************************)
(* Outbox, for every number of drains and emails, wherever a drain dies and*)
(* whichever drains overlap.                                               *)
(***************************************************************************)

LOCAL INSTANCE FiniteSetsExt

DrainRecord ==
    [step : {"rest", "abandon", "send", "stamp"}, todo : SUBSET Emails, stale : SUBSET Emails]

OutboxShape ==
    /\ written \in 0 .. MaxEmails
    /\ emailed \subseteq 1 .. written /\ old \subseteq 1 .. written
    /\ sends \in [Emails -> Nat]
    /\ drain \in [Drains -> DrainRecord]
    /\ \A d \in Drains :
           /\ drain[d].todo \subseteq 1 .. written /\ drain[d].stale \subseteq old
           /\ drain[d].step \in {"send", "stamp"} => drain[d].todo # {}
           /\ drain[d].step = "rest" => drain[d].todo = {}

\* The provider has accepted the email that is first in the drain's batch, and
\* its stamp is still to be written.
JustSent(d, e) == At(d, "stamp") /\ e = Min(drain[d].todo)

StampsAreTrue ==
    /\ \A e \in emailed : sends[e] > 0 \/ e \in old
    /\ \A d \in Drains, e \in Emails : JustSent(d, e) => sends[e] > 0

\* A row that no drain lost or shared is in one batch at most; in a batch it is
\* unsent but for the moment before its stamp; and once it was sent it is
\* stamped, or about to be.
HeldOnce(e) ==
    /\ sends[e] <= 1
    /\ \A c, d \in Drains : e \in drain[c].todo /\ e \in drain[d].todo => c = d
    /\ \A d \in Drains : e \in drain[d].todo /\ ~JustSent(d, e) => sends[e] = 0
    /\ sends[e] > 0 => e \in emailed \/ \E d \in Drains : JustSent(d, e)

OutboxInv == OutboxShape /\ StampsAreTrue /\ \A e \in Emails : e \notin retold => HeldOnce(e)

----------------------------------------------------------------------------
\* A set of numbers that is not empty has a least one.
LEMMA MinIsLeast ==
    ASSUME NEW S \in SUBSET Nat, S # {}
    PROVE  Min(S) \in S
<1> DEFINE Less == {pair \in Nat \X Nat : pair[1] < pair[2]}
<1>1. IsWellFoundedOn(Less, Nat)
  <2>1. OpToRel(<, Nat) = Less  BY DEF OpToRel
  <2> QED  BY <2>1, NatLessThanWellFounded
<1>2. PICK x \in S : \A y \in S : <<y, x>> \notin Less
  <2> HIDE DEF Less
  <2> QED  BY <1>1, WFMin
<1>3. ASSUME NEW y \in S PROVE x <= y
  <2>1. x \in Nat /\ y \in Nat /\ <<y, x>> \in Nat \X Nat  BY <1>2
  <2>2. ~(<<y, x>>[1] < <<y, x>>[2])  BY <1>2, <2>1
  <2> QED  BY <2>1, <2>2
<1> QED  BY <1>3 DEF Min

LEMMA OutboxInitial == OutboxInit => OutboxInv
<1> SUFFICES ASSUME OutboxInit PROVE OutboxInv  OBVIOUS
<1>1. OutboxShape
  BY OutboxAssumption DEF OutboxInit, OutboxShape, DrainRecord, Resting, Emails
<1>2. \A d \in Drains, e \in Emails : ~JustSent(d, e)
  BY DEF OutboxInit, JustSent, At, Resting
<1>3. StampsAreTrue  BY <1>2 DEF OutboxInit, StampsAreTrue
<1>4. \A e \in Emails : HeldOnce(e)
  BY DEF OutboxInit, HeldOnce, Resting
<1> QED  BY <1>1, <1>3, <1>4 DEF OutboxInv

\* The email a drain works on is of its batch.
LEMMA InBatch ==
    ASSUME OutboxShape, NEW d \in Drains, drain[d].step \in {"send", "stamp"}
    PROVE  /\ Min(drain[d].todo) \in drain[d].todo
           /\ Min(drain[d].todo) \in Emails /\ Min(drain[d].todo) \in 1 .. written
<1>1. drain[d].todo \subseteq 1 .. written /\ drain[d].todo # {} /\ written \in 0 .. MaxEmails
  BY DEF OutboxShape
<1>2. drain[d].todo \in SUBSET Nat  BY <1>1
<1>3. Min(drain[d].todo) \in drain[d].todo  BY <1>1, <1>2, MinIsLeast
<1> QED  BY <1>1, <1>3, OutboxAssumption DEF Emails

\* One drain moves.
LEMMA DrainMoves ==
    ASSUME OutboxShape, NEW d \in Drains, NEW row \in DrainRecord,
           drain' = [drain EXCEPT ![d] = row]
    PROVE  /\ drain' \in [Drains -> DrainRecord] /\ drain'[d] = row
           /\ \A c \in Drains : c # d => drain'[c] = drain[c]
           /\ \A c \in Drains : c # d => \A e : JustSent(c, e)' <=> JustSent(c, e)
BY DEF OutboxShape, JustSent, At

\* One drain lets go of its batch, or of part of it, and is between emails.
LEMMA GoesOnMoves ==
    ASSUME OutboxShape, NEW d \in Drains, NEW todo \in SUBSET drain[d].todo,
           GoesOn(d, "send", todo)
    PROVE  /\ drain' \in [Drains -> DrainRecord]
           /\ drain'[d].todo = todo /\ drain'[d].stale = {}
           /\ drain'[d].step = (IF todo = {} THEN "rest" ELSE "send")
           /\ \A c \in Drains : c # d => drain'[c] = drain[c]
           /\ \A c \in Drains : c # d => \A e : JustSent(c, e)' <=> JustSent(c, e)
           /\ \A e : ~JustSent(d, e)'
<1>1. PICK row \in DrainRecord :
          row = [step |-> IF todo = {} THEN "rest" ELSE "send", todo |-> todo, stale |-> {}]
  BY DEF OutboxShape, DrainRecord
<1>2. drain' = [drain EXCEPT ![d] = row]  BY <1>1 DEF GoesOn
<1>3. /\ drain' \in [Drains -> DrainRecord] /\ drain'[d] = row
      /\ \A c \in Drains : c # d => drain'[c] = drain[c]
      /\ \A c \in Drains : c # d => \A e : JustSent(c, e)' <=> JustSent(c, e)
  BY <1>2, DrainMoves
<1>4. \A e : ~JustSent(d, e)'  BY <1>1, <1>3 DEF JustSent, At
<1> QED  BY <1>1, <1>3, <1>4

----------------------------------------------------------------------------
LEMMA NotifyKeeps ==
    ASSUME OutboxInv, Notify
    PROVE  OutboxInv'
<1>1. written' = written + 1 /\ written < MaxEmails
      /\ UNCHANGED <<emailed, old, drain, sends, retold>>
  BY DEF Notify
<1>2. OutboxShape'
  BY <1>1, OutboxAssumption DEF OutboxInv, OutboxShape
<1>3. StampsAreTrue' /\ \A e \in Emails : e \notin retold' => HeldOnce(e)'
  BY <1>1 DEF OutboxInv, StampsAreTrue, HeldOnce, JustSent, At
<1> QED  BY <1>2, <1>3 DEF OutboxInv

LEMMA EmailAgesKeeps ==
    ASSUME OutboxInv, EmailAges
    PROVE  OutboxInv'
<1>1. /\ old \subseteq old' /\ old' \subseteq 1 .. written
      /\ UNCHANGED <<written, emailed, drain, sends, retold>>
  BY DEF EmailAges, OutboxInv, OutboxShape
<1>2. OutboxShape'  BY <1>1 DEF OutboxInv, OutboxShape
<1>3. StampsAreTrue' /\ \A e \in Emails : e \notin retold' => HeldOnce(e)'
  BY <1>1 DEF OutboxInv, StampsAreTrue, HeldOnce, JustSent, At
<1> QED  BY <1>2, <1>3 DEF OutboxInv

LEMMA ReadOutboxKeeps ==
    ASSUME OutboxInv, NEW d \in Drains, ReadOutbox(d)
    PROVE  OutboxInv'
<1> DEFINE batch == PendingEmails
<1>1. /\ batch \subseteq 1 .. written /\ batch \cap emailed = {}
      /\ old \subseteq Emails /\ 1 .. written \subseteq Emails
  BY OutboxAssumption DEF PendingEmails, FirstOf, Owed, OutboxInv, OutboxShape, Emails
<1> HIDE DEF batch
<1>2. PICK row \in DrainRecord : row = [step |-> "abandon", todo |-> batch, stale |-> old]
  BY <1>1 DEF DrainRecord
<1>3. /\ drain' \in [Drains -> DrainRecord] /\ drain'[d] = row
      /\ \A c \in Drains : c # d => drain'[c] = drain[c]
      /\ \A c \in Drains : c # d => \A e : JustSent(c, e)' <=> JustSent(c, e)
  BY <1>2, DrainMoves DEF ReadOutbox, OutboxInv, batch
<1>4. /\ drain'[d].todo = batch /\ drain'[d].stale = old /\ drain'[d].step = "abandon"
      /\ \A e : ~JustSent(d, e)' /\ ~JustSent(d, e)
  BY <1>2, <1>3 DEF ReadOutbox, JustSent, At
<1>5. /\ UNCHANGED <<written, emailed, old, sends>>
      /\ retold \subseteq retold'
      /\ \A c \in Drains : c # d => batch \cap drain[c].todo \subseteq retold'
  BY DEF ReadOutbox, HeldElsewhere, batch
<1>6. OutboxShape'
  BY <1>1, <1>3, <1>4, <1>5 DEF OutboxInv, OutboxShape
<1>7. StampsAreTrue'
  BY <1>3, <1>4, <1>5 DEF OutboxInv, StampsAreTrue
<1>8. ASSUME NEW e \in Emails, e \notin retold' PROVE HeldOnce(e)'
  <2>1. HeldOnce(e)  BY <1>5, <1>8 DEF OutboxInv
  <2>2. \A c \in Drains : JustSent(c, e)' <=> JustSent(c, e)  BY <1>3, <1>4
  <2>3. CASE e \notin batch
    BY <1>3, <1>4, <1>5, <2>1, <2>2, <2>3 DEF HeldOnce
  <2>4. CASE e \in batch
    <3>1. \A c \in Drains : c # d => e \notin drain'[c].todo
      BY <1>3, <1>5, <1>8, <2>4
    <3>2. \A c \in Drains : JustSent(c, e) => e \in drain[c].todo
      BY InBatch DEF OutboxInv, JustSent, At
    <3>3. \A c \in Drains : ~JustSent(c, e)
      BY <1>3, <1>4, <3>1, <3>2
    <3>4. sends[e] = 0
      <4>1. sends[e] \in Nat  BY DEF OutboxInv, OutboxShape
      <4>2. ~(sends[e] > 0)  BY <1>1, <2>1, <2>4, <3>3 DEF HeldOnce
      <4> QED  BY <4>1, <4>2
    <3> QED  BY <1>5, <2>1, <2>2, <3>1, <3>4 DEF HeldOnce
  <2> QED  BY <2>3, <2>4
<1> QED  BY <1>6, <1>7, <1>8 DEF OutboxInv

LEMMA AbandonKeeps ==
    ASSUME OutboxInv, NEW d \in Drains, AbandonStale(d)
    PROVE  OutboxInv'
<1>1. /\ drain' \in [Drains -> DrainRecord]
      /\ drain'[d].todo = drain[d].todo /\ drain'[d].stale = {}
      /\ drain'[d].step = (IF drain[d].todo = {} THEN "rest" ELSE "send")
      /\ \A c \in Drains : c # d => drain'[c] = drain[c]
      /\ \A c \in Drains : c # d => \A e : JustSent(c, e)' <=> JustSent(c, e)
      /\ \A e : ~JustSent(d, e)'
  BY GoesOnMoves DEF AbandonStale, OutboxInv
<1>2. \A c \in Drains, e \in Emails : JustSent(c, e)' <=> JustSent(c, e)
  BY <1>1 DEF AbandonStale, JustSent, At
<1>3. /\ emailed \subseteq emailed' /\ emailed' \subseteq 1 .. written
      /\ emailed' \subseteq emailed \cup old
      /\ UNCHANGED <<written, old, sends, retold>>
  BY DEF AbandonStale, Owed, OutboxInv, OutboxShape
<1>4. OutboxShape'  BY <1>1, <1>3 DEF OutboxInv, OutboxShape
<1>5. StampsAreTrue'  BY <1>2, <1>3 DEF OutboxInv, StampsAreTrue
<1>6. \A c \in Drains : drain'[c].todo = drain[c].todo  BY <1>1
<1>7. \A e \in Emails : e \notin retold' => HeldOnce(e)'
  BY <1>2, <1>3, <1>6 DEF OutboxInv, HeldOnce
<1> QED  BY <1>4, <1>5, <1>7 DEF OutboxInv

LEMMA SendKeeps ==
    ASSUME OutboxInv, NEW d \in Drains, SendEmail(d)
    PROVE  OutboxInv'
<1> DEFINE s == Min(drain[d].todo)
<1>1. /\ s \in drain[d].todo /\ s \in Emails /\ At(d, "send")
      /\ sends' = [sends EXCEPT ![s] = @ + 1]
      /\ UNCHANGED <<written, emailed, old, retold>>
  BY InBatch DEF SendEmail, At, OutboxInv
<1>2. PICK row \in DrainRecord : row = [drain[d] EXCEPT !.step = "stamp"]
  BY DEF OutboxInv, OutboxShape, DrainRecord
<1>3. /\ row.step = "stamp" /\ row.todo = drain[d].todo /\ row.stale = drain[d].stale
  BY <1>2 DEF OutboxInv, OutboxShape, DrainRecord
<1>4. /\ drain' \in [Drains -> DrainRecord] /\ drain'[d] = row
      /\ \A c \in Drains : c # d => drain'[c] = drain[c]
      /\ \A c \in Drains : c # d => \A e : JustSent(c, e)' <=> JustSent(c, e)
  BY <1>2, DrainMoves DEF SendEmail, OutboxInv
<1>5. \A e : (JustSent(d, e)' <=> e = s) /\ ~JustSent(d, e)
  BY <1>1, <1>3, <1>4 DEF JustSent, At
<1> HIDE DEF s
<1>6. /\ sends' \in [Emails -> Nat] /\ sends'[s] = sends[s] + 1
      /\ \A e \in Emails : e # s => sends'[e] = sends[e]
      /\ \A e \in Emails : sends[e] \in Nat
  BY <1>1 DEF OutboxInv, OutboxShape
<1>7. \A c \in Drains : drain'[c].todo = drain[c].todo  BY <1>3, <1>4
<1>8. OutboxShape'
  BY <1>1, <1>3, <1>4, <1>6 DEF OutboxInv, OutboxShape, At
<1>9. StampsAreTrue'
  <2>1. \A e \in emailed : sends'[e] > 0 \/ e \in old
    <3>1. emailed \subseteq Emails
      BY OutboxAssumption DEF OutboxInv, OutboxShape, Emails
    <3> QED  BY <1>6, <3>1 DEF OutboxInv, StampsAreTrue
  <2>2. \A c \in Drains, e \in Emails : JustSent(c, e)' => sends'[e] > 0
    BY <1>4, <1>5, <1>6 DEF OutboxInv, StampsAreTrue
  <2> QED  BY <1>1, <2>1, <2>2 DEF StampsAreTrue
<1>10. ASSUME NEW e \in Emails, e \notin retold' PROVE HeldOnce(e)'
  <2>1. HeldOnce(e)  BY <1>1, <1>10 DEF OutboxInv
  <2>2. CASE e # s
    <3>1. \A c \in Drains : JustSent(c, e)' <=> JustSent(c, e)  BY <1>4, <1>5, <2>2
    <3>2. sends'[e] = sends[e]  BY <1>6, <2>2
    <3> QED  BY <1>1, <1>7, <2>1, <3>1, <3>2 DEF HeldOnce
  <2>3. CASE e = s
    <3>1. sends[e] = 0  BY <1>1, <1>5, <2>1, <2>3 DEF HeldOnce
    <3>2. sends'[e] = 1 /\ JustSent(d, e)'  BY <1>5, <1>6, <2>3, <3>1
    <3>3. \A c \in Drains : e \in drain[c].todo => c = d
      BY <1>1, <2>1, <2>3 DEF HeldOnce
    <3> QED  BY <1>7, <3>2, <3>3 DEF HeldOnce
  <2> QED  BY <2>2, <2>3
<1> QED  BY <1>8, <1>9, <1>10 DEF OutboxInv

\* A drain is done with an email: it stamped it, or lost its stamp, or left it
\* unsent.
LEMMA DoneKeeps ==
    ASSUME OutboxInv, NEW d \in Drains, drain[d].step \in {"send", "stamp"},
           GoesOn(d, "send", drain[d].todo \ {Min(drain[d].todo)}),
           UNCHANGED <<written, old, sends>>,
           \/ ~At(d, "stamp") /\ UNCHANGED <<emailed, retold>>
           \/ /\ At(d, "stamp") /\ emailed' = emailed \cup {Min(drain[d].todo)}
              /\ UNCHANGED retold
           \/ /\ At(d, "stamp") /\ retold' = retold \cup {Min(drain[d].todo)}
              /\ UNCHANGED emailed
    PROVE  OutboxInv'
<1> DEFINE s == Min(drain[d].todo)
           rest == drain[d].todo \ {s}
<1>1. s \in drain[d].todo /\ s \in Emails /\ s \in 1 .. written
  BY InBatch DEF OutboxInv
<1>2. /\ drain' \in [Drains -> DrainRecord]
      /\ drain'[d].todo = rest /\ drain'[d].stale = {}
      /\ drain'[d].step = (IF rest = {} THEN "rest" ELSE "send")
      /\ \A c \in Drains : c # d => drain'[c] = drain[c]
      /\ \A c \in Drains : c # d => \A e : JustSent(c, e)' <=> JustSent(c, e)
      /\ \A e : ~JustSent(d, e)'
  BY GoesOnMoves DEF OutboxInv
<1>3. \A e : JustSent(d, e) <=> At(d, "stamp") /\ e = s  BY DEF JustSent
<1>4. /\ emailed \subseteq emailed' /\ retold \subseteq retold'
      /\ emailed' \subseteq emailed \cup {s}
      /\ s \in emailed' => s \in emailed \/ At(d, "stamp")
      /\ At(d, "stamp") => s \in emailed' \/ s \in retold'
  OBVIOUS
<1> HIDE DEF s
<1>5. OutboxShape'  BY <1>1, <1>2, <1>4 DEF OutboxInv, OutboxShape
<1>6. StampsAreTrue'
  <2>1. \A e \in emailed' : sends'[e] > 0 \/ e \in old'
    BY <1>1, <1>3, <1>4 DEF OutboxInv, StampsAreTrue
  <2>2. \A c \in Drains, e \in Emails : JustSent(c, e)' => sends'[e] > 0
    BY <1>2 DEF OutboxInv, StampsAreTrue
  <2> QED  BY <2>1, <2>2 DEF StampsAreTrue
<1>7. ASSUME NEW e \in Emails, e \notin retold' PROVE HeldOnce(e)'
  <2>1. HeldOnce(e)  BY <1>4, <1>7 DEF OutboxInv
  <2>2. \A c \in Drains : e \in drain'[c].todo =>
            e \in drain[c].todo /\ (c = d => e # s)
    BY <1>2
  <2>3. \A c \in Drains : JustSent(c, e) => JustSent(c, e)' \/ (c = d /\ e = s /\ At(d, "stamp"))
    BY <1>2, <1>3
  <2>4. \A c \in Drains : e \in drain'[c].todo /\ ~JustSent(c, e)' => ~JustSent(c, e)
    BY <2>2, <2>3
  <2>5. sends[e] > 0 => e \in emailed' \/ \E c \in Drains : JustSent(c, e)'
    BY <1>4, <1>7, <2>1, <2>3 DEF HeldOnce
  <2> QED  BY <2>1, <2>2, <2>4, <2>5 DEF HeldOnce
<1> QED  BY <1>5, <1>6, <1>7 DEF OutboxInv

LEMMA DrainDiesKeeps ==
    ASSUME OutboxInv, NEW d \in Drains, DrainDies(d)
    PROVE  OutboxInv'
<1>1. PICK row \in DrainRecord : row = Resting
  BY DEF Resting, DrainRecord
<1>2. /\ drain' \in [Drains -> DrainRecord] /\ drain'[d] = row
      /\ \A c \in Drains : c # d => drain'[c] = drain[c]
      /\ \A c \in Drains : c # d => \A e : JustSent(c, e)' <=> JustSent(c, e)
  BY <1>1, DrainMoves DEF DrainDies, OutboxInv
<1>3. drain'[d].todo = {} /\ drain'[d].stale = {} /\ drain'[d].step = "rest"
  BY <1>1, <1>2 DEF Resting
<1>4. \A e : ~JustSent(d, e)'  BY <1>3 DEF JustSent, At
<1>5. /\ retold \subseteq retold' /\ UNCHANGED <<written, emailed, old, sends>>
      /\ \A e : JustSent(d, e) => e \in retold'
  BY DEF DrainDies, JustSent
<1>6. OutboxShape'  BY <1>2, <1>3, <1>5 DEF OutboxInv, OutboxShape
<1>7. StampsAreTrue'  BY <1>2, <1>4, <1>5 DEF OutboxInv, StampsAreTrue
<1>8. ASSUME NEW e \in Emails, e \notin retold' PROVE HeldOnce(e)'
  <2>1. HeldOnce(e) /\ ~JustSent(d, e)  BY <1>5, <1>8 DEF OutboxInv
  <2>2. \A c \in Drains : e \in drain'[c].todo => e \in drain[c].todo
    BY <1>2, <1>3
  <2>3. \A c \in Drains : JustSent(c, e)' <=> JustSent(c, e)  BY <1>2, <1>4, <2>1
  <2> QED  BY <1>5, <2>1, <2>2, <2>3 DEF HeldOnce
<1> QED  BY <1>6, <1>7, <1>8 DEF OutboxInv

LEMMA OutboxStep ==
    ASSUME OutboxInv, [OutboxNext]_outboxVars
    PROVE  OutboxInv'
<1>1. CASE UNCHANGED <<written, emailed, old, drain, sends, retold>>
  BY <1>1 DEF OutboxInv, OutboxShape, StampsAreTrue, HeldOnce, JustSent, At
<1>2. ASSUME NEW d \in Drains, RefuseEmail(d) \/ StampEmail(d) \/ StampFails(d)
      PROVE OutboxInv'
  BY <1>2, DoneKeeps DEF RefuseEmail, LeftForLater, StampEmail, StampFails, At
<1>3. ASSUME NEW d \in Drains,
             ReadOutbox(d) \/ AbandonStale(d) \/ SendEmail(d) \/ DrainDies(d)
      PROVE OutboxInv'
  BY <1>3, ReadOutboxKeeps, AbandonKeeps, SendKeeps, DrainDiesKeeps
<1>4. CASE EnqueueNotification  BY <1>1, <1>4 DEF EnqueueNotification
<1> QED
  BY <1>1, <1>2, <1>3, <1>4, NotifyKeeps, EmailAgesKeeps DEF OutboxNext, DrainSteps, outboxVars

----------------------------------------------------------------------------
\* Batches, stamps and what the provider accepted, whichever drains overlap.
THEOREM OutboxInvariant == OutboxSpec => []OutboxInv
BY OutboxInitial, OutboxStep, PTL DEF OutboxSpec

\* Each email once (notifications/outbox.ts, drainEmailOutbox): nobody is emailed
\* twice about a row, unless its stamp was lost or two drains held it at once,
\* and a stamp says that the email was accepted, or was past the window.
THEOREM EachEmailOnce == OutboxSpec => []EmailedOnce
<1>1. OutboxInv => EmailedOnce
  <2> SUFFICES ASSUME OutboxInv, NEW e \in Emails
               PROVE  /\ sends[e] > 1 => e \in retold
                      /\ e \in emailed => sends[e] > 0 \/ e \in old
    BY DEF EmailedOnce
  <2>1. sends[e] \in Nat  BY DEF OutboxInv, OutboxShape
  <2>2. sends[e] > 1 => e \in retold  BY <2>1 DEF OutboxInv, HeldOnce
  <2>3. e \in emailed => sends[e] > 0 \/ e \in old  BY DEF OutboxInv, StampsAreTrue
  <2> QED  BY <2>2, <2>3
<1> QED  BY <1>1, OutboxInvariant, PTL
----------------------------------------------------------------------------
\* A finite set of numbers that is not empty has a greatest one.
LEMMA GreatestOfSome ==
    ASSUME NEW n \in Nat, NEW S \in SUBSET (1 .. n), S # {}
    PROVE  \E m \in S : \A x \in S : x <= m
<1> DEFINE Above == {k \in 0 .. n : \A x \in S : x <= k}
<1>1. n \in Above /\ Above \in SUBSET Nat  OBVIOUS
<1>2. PICK m \in Above : \A k \in Above : m <= k
  <2> DEFINE Less == {pair \in Nat \X Nat : pair[1] < pair[2]}
  <2>1. IsWellFoundedOn(Less, Nat)
    <3>1. OpToRel(<, Nat) = Less  BY DEF OpToRel
    <3> QED  BY <3>1, NatLessThanWellFounded
  <2>2. PICK m \in Above : \A k \in Above : <<k, m>> \notin Less
    <3> HIDE DEF Less, Above
    <3> QED  BY <1>1, <2>1, WFMin
  <2>3. ASSUME NEW k \in Above PROVE m <= k
    <3>1. m \in Nat /\ k \in Nat /\ <<k, m>> \in Nat \X Nat  BY <1>1
    <3>2. ~(<<k, m>>[1] < <<k, m>>[2])  BY <2>2, <3>1
    <3> QED  BY <3>1, <3>2
  <2> QED  BY <2>3
<1>3. m \in S
  <2> SUFFICES ASSUME m \notin S PROVE FALSE  OBVIOUS
  <2>1. m \in 0 .. n /\ \A x \in S : x <= m /\ x # m /\ x \in 1 .. n  BY <1>1
  <2>2. m # 0 /\ \A x \in S : x <= m - 1
    <3>1. PICK y \in S : TRUE  OBVIOUS
    <3>2. m # 0  BY <2>1, <3>1
    <3>3. ASSUME NEW x \in S PROVE x <= m - 1
      <4>1. x \in Nat /\ m \in Nat /\ x <= m /\ x # m  BY <2>1
      <4> QED  BY <4>1
    <3> QED  BY <3>2, <3>3
  <2>3. m - 1 \in Above  BY <2>1, <2>2
  <2> QED  BY <1>2, <2>3
<1> QED  BY <1>3

\* The first n of a set of numbers are no more than n.
LEMMA FirstAreFew ==
    ASSUME NEW k \in Nat, NEW set \in SUBSET (1 .. k), NEW n \in Nat
    PROVE  Cardinality(FirstOf(set, n)) <= n
<1>1. IsFiniteSet(set)
  <2>1. IsFiniteSet(1 .. k)  BY FS_Interval
  <2> QED  BY <2>1, FS_Subset
<1>2. CASE FirstOf(set, n) = {}  BY <1>2, FS_EmptySet
<1>3. CASE FirstOf(set, n) # {}
  <2>1. FirstOf(set, n) \in SUBSET set /\ FirstOf(set, n) \in SUBSET (1 .. k)
    BY DEF FirstOf
  <2>2. PICK m \in FirstOf(set, n) : \A x \in FirstOf(set, n) : x <= m
    BY <1>3, <2>1, GreatestOfSome
  <2> DEFINE before == {f \in set : f < m}
             others == FirstOf(set, n) \ {m}
  <2>3. Cardinality(before) < n  BY <2>2 DEF FirstOf
  <2>4. others \in SUBSET before  BY <2>1, <2>2
  <2>5. IsFiniteSet(before) /\ IsFiniteSet(FirstOf(set, n))  BY <1>1, <2>1, FS_Subset
  <2>6. Cardinality(others) <= Cardinality(before)  BY <2>4, <2>5, FS_Subset
  <2>7. Cardinality(others) = Cardinality(FirstOf(set, n)) - 1
    BY <2>2, <2>5, FS_RemoveElement
  <2>8. Cardinality(before) \in Nat /\ Cardinality(FirstOf(set, n)) \in Nat
    BY <2>5, FS_CardinalityType
  <2> QED  BY <2>3, <2>6, <2>7, <2>8
<1> QED  BY <1>2, <1>3

\* No drain holds more than it may read, and what is to be told is counted.
BatchesFit == \A d \in Drains : Cardinality(drain[d].todo) <= EmailBatch
ForgetsAtRest == \A d \in Drains : At(d, "rest") => drain[d].stale = {}
OutboxSized == OutboxInv /\ BatchesFit /\ ForgetsAtRest /\ toTell \in Nat

LEMMA SizesStart == OutboxInit => OutboxSized
<1> SUFFICES ASSUME OutboxInit PROVE BatchesFit /\ ForgetsAtRest /\ toTell \in Nat
  BY OutboxInitial DEF OutboxSized
<1>1. \A d \in Drains : drain[d].todo = {} /\ drain[d].stale = {}
  BY DEF OutboxInit, Resting
<1>2. Cardinality({}) <= EmailBatch  BY FS_EmptySet, OutboxAssumption
<1> QED  BY <1>1, <1>2 DEF OutboxInit, BatchesFit, ForgetsAtRest

\* A drain reads no more than a batch, and from then on only lets go of it.
LEMMA BatchesShrink ==
    ASSUME OutboxInv, [OutboxNext]_outboxVars, NEW d \in Drains
    PROVE  drain'[d].todo = PendingEmails \/ drain'[d].todo \subseteq drain[d].todo
<1>1. drain \in [Drains -> DrainRecord]  BY DEF OutboxInv, OutboxShape
<1>2. CASE UNCHANGED drain  BY <1>2
<1>3. ASSUME NEW c \in Drains, ReadOutbox(c)
      PROVE  drain'[d].todo = PendingEmails \/ drain'[d].todo \subseteq drain[d].todo
  BY <1>1, <1>3 DEF ReadOutbox
<1>4. ASSUME NEW c \in Drains, NEW step, NEW todo \in SUBSET drain[c].todo, GoesOn(c, step, todo)
      PROVE  drain'[d].todo \subseteq drain[d].todo
  BY <1>1, <1>4 DEF GoesOn
<1>5. ASSUME NEW c \in Drains,
             \/ AbandonStale(c) \/ RefuseEmail(c) \/ StampEmail(c) \/ StampFails(c)
      PROVE  drain'[d].todo \subseteq drain[d].todo
  <2>1. \A e : drain[c].todo \ {e} \in SUBSET drain[c].todo  OBVIOUS
  <2>2. drain[c].todo \in SUBSET drain[c].todo  OBVIOUS
  <2> QED
    BY <1>4, <1>5, <2>1, <2>2 DEF AbandonStale, RefuseEmail, StampEmail, StampFails, LeftForLater
<1>6. ASSUME NEW c \in Drains, SendEmail(c) PROVE drain'[d].todo \subseteq drain[d].todo
  BY <1>1, <1>6 DEF SendEmail, DrainRecord
<1>7. ASSUME NEW c \in Drains, DrainDies(c) PROVE drain'[d].todo \subseteq drain[d].todo
  BY <1>1, <1>7 DEF DrainDies, Resting
<1> QED
  BY <1>2, <1>3, <1>5, <1>6, <1>7
  DEF OutboxNext, DrainSteps, outboxVars, EnqueueNotification, Notify, EmailAges

\* A drain that comes to rest remembers nothing of its batch.
LEMMA RestForgets ==
    ASSUME OutboxInv, ForgetsAtRest, [OutboxNext]_outboxVars
    PROVE  ForgetsAtRest'
<1> SUFFICES ASSUME NEW d \in Drains, At(d, "rest")' PROVE drain'[d].stale = {}
  BY DEF ForgetsAtRest
<1>1. drain \in [Drains -> DrainRecord]  BY DEF OutboxInv, OutboxShape
<1>2. CASE drain'[d] = drain[d]  BY <1>2 DEF ForgetsAtRest, At
<1>3. ASSUME NEW c \in Drains, NEW step, NEW todo, GoesOn(c, step, todo)
      PROVE  drain'[d] = drain[d] \/ drain'[d].stale = {}
  BY <1>1, <1>3 DEF GoesOn
<1>4. ASSUME NEW c \in Drains,
             \/ AbandonStale(c) \/ RefuseEmail(c) \/ StampEmail(c) \/ StampFails(c)
      PROVE  drain'[d] = drain[d] \/ drain'[d].stale = {}
  BY <1>3, <1>4 DEF AbandonStale, RefuseEmail, StampEmail, StampFails, LeftForLater
<1>5. ASSUME NEW c \in Drains, ReadOutbox(c) \/ SendEmail(c) \/ DrainDies(c)
      PROVE  drain'[d] = drain[d] \/ drain'[d].stale = {}
  <2>1. CASE c # d  BY <1>1, <1>5, <2>1 DEF ReadOutbox, SendEmail, DrainDies
  <2>2. CASE DrainDies(d)  BY <1>1, <2>2 DEF DrainDies, Resting
  <2>3. CASE ReadOutbox(d) \/ SendEmail(d)
    <3>1. drain'[d].step \in {"abandon", "stamp"}
      BY <1>1, <2>3 DEF ReadOutbox, SendEmail, DrainRecord
    <3> QED  BY <3>1 DEF At
  <2> QED  BY <1>5, <2>1, <2>2, <2>3
<1> QED
  BY <1>2, <1>4, <1>5
  DEF OutboxNext, DrainSteps, outboxVars, EnqueueNotification, Notify, EmailAges

LEMMA SizesStay == OutboxSized /\ [OutboxNext]_outboxVars => OutboxSized'
<1> SUFFICES ASSUME OutboxSized, [OutboxNext]_outboxVars PROVE OutboxSized'  OBVIOUS
<1>1. OutboxInv /\ OutboxInv'  BY OutboxStep DEF OutboxSized
<1>2. BatchesFit'
  <2> SUFFICES ASSUME NEW d \in Drains PROVE Cardinality(drain'[d].todo) <= EmailBatch
    BY DEF BatchesFit
  <2>1. written \in Nat /\ drain[d].todo \in SUBSET (1 .. written)
    BY <1>1, OutboxAssumption DEF OutboxInv, OutboxShape
  <2>2. CASE drain'[d].todo = PendingEmails
    <3>1. Owed \ old \in SUBSET (1 .. written)  BY DEF Owed
    <3> QED  BY <2>1, <2>2, <3>1, FirstAreFew, OutboxAssumption DEF PendingEmails
  <2>3. CASE drain'[d].todo \subseteq drain[d].todo
    <3>1. IsFiniteSet(drain[d].todo)
      <4>1. IsFiniteSet(1 .. written)  BY <2>1, FS_Interval
      <4> QED  BY <2>1, <4>1, FS_Subset
    <3>2. Cardinality(drain[d].todo) <= EmailBatch  BY DEF OutboxSized, BatchesFit
    <3>3. IsFiniteSet(drain'[d].todo)
          /\ Cardinality(drain'[d].todo) <= Cardinality(drain[d].todo)
      BY <2>3, <3>1, FS_Subset
    <3>4. Cardinality(drain[d].todo) \in Nat /\ Cardinality(drain'[d].todo) \in Nat
      BY <3>1, <3>3, FS_CardinalityType
    <3> QED  BY <3>2, <3>3, <3>4, OutboxAssumption
  <2> QED  BY <1>1, <2>2, <2>3, BatchesShrink
<1>3. toTell' \in Nat
  <2>1. toTell \in Nat  BY DEF OutboxSized
  <2>2. CASE UNCHANGED toTell  BY <2>1, <2>2
  <2>3. CASE Notify  BY <2>1, <2>3 DEF Notify
  <2>4. CASE EnqueueNotification  BY <2>1, <2>4 DEF EnqueueNotification
  <2>5. CASE EmailAges \/ \E d \in Drains : DrainSteps(d) \/ StampFails(d) \/ DrainDies(d)
    BY <2>2, <2>5 DEF EmailAges, DrainSteps, ReadOutbox, AbandonStale, SendEmail, RefuseEmail,
                      StampEmail, StampFails, DrainDies
  <2> QED  BY <2>2, <2>3, <2>4, <2>5 DEF OutboxNext, outboxVars
<1>4. ForgetsAtRest'  BY <1>1, RestForgets DEF OutboxSized
<1> QED  BY <1>1, <1>2, <1>3, <1>4 DEF OutboxSized

LEMMA SizesGiveTypes == OutboxSized => OutboxTypeOK
<1> SUFFICES ASSUME OutboxSized PROVE OutboxTypeOK  OBVIOUS
<1>1. OutboxShape /\ BatchesFit /\ ForgetsAtRest /\ toTell \in Nat
  BY DEF OutboxSized, OutboxInv
<1>2. ASSUME NEW d \in Drains, At(d, "rest") PROVE drain[d] = Resting
  <2>1. drain[d] \in DrainRecord /\ drain[d].step = "rest" /\ drain[d].todo = {}
    BY <1>1, <1>2 DEF OutboxShape, At
  <2>2. drain[d].stale = {}  BY <1>1, <1>2 DEF ForgetsAtRest
  <2> QED  BY <2>1, <2>2 DEF DrainRecord, Resting
<1> QED  BY <1>1, <1>2 DEF OutboxShape, BatchesFit, OutboxTypeOK

\* Each variable keeps its type, a batch holds rows that were written and no more
\* than BATCH of them, and a drain that rests holds none (drainEmailOutbox).
THEOREM OutboxTypeCorrect == OutboxSpec => []OutboxTypeOK
BY SizesStart, SizesStay, SizesGiveTypes, PTL DEF OutboxSpec
=============================================================================
