--------------------------- MODULE PublishEngine ---------------------------
(***************************************************************************)
(* The publishing engine of apps/worker/src/publishing: several workers    *)
(* publish the variants of one post to platforms that offer no idempotency *)
(* key.  Between two steps of a worker anything may happen: another worker *)
(* runs, a process dies, an answer is lost, a claim or a lock expires.     *)
(*                                                                         *)
(* A publishing job row is <<v, s>>: variant v at its s-th scheduled       *)
(* instant, which is what publishIdempotencyKey hashes.  A claim token is  *)
(* the number of the claim.  `attempts' is the PublishingAttempt ledger,   *)
(* oldest first; its field `call' is the platform's side of the story and  *)
(* is read only where the code asks the platform (reconcile).              *)
(***************************************************************************)
EXTENDS PostStatus, Sequences

CONSTANTS
    Variants, Accounts, Workers,
    AccountOf,          \* the social account each variant goes out on
    Reconcilable,       \* accounts whose platform can be asked for a post
    Faults,             \* which of "db", "late", "slow", "race" may happen
    CrashPoints,        \* the pc values at which a worker process may die
    Resolutions,        \* the answers a person may give on a parked variant
    MaxClaims,          \* bound: claims taken in a behaviour
    MaxSlots,           \* bound: instants a variant is scheduled for
    CLAIM_TTL, RECONCILE_WINDOW     \* minutes

Running == {"claimed", "reconcile", "ready", "locked", "calling", "unsure",
            "close", "apply", "pend", "settled", "roll", "write",
            "requeue", "reject", "throw"}

ASSUME EngineAssumption ==
    /\ AccountOf \in [Variants -> Accounts]
    /\ Reconcilable \subseteq Accounts
    /\ Faults \subseteq {"db", "late", "slow", "race"}
    /\ CrashPoints \subseteq Running
    /\ Resolutions \subseteq {"PUBLISHED", "NOT_PUBLISHED", "ABANDON"}
    /\ MaxClaims \in Nat /\ MaxSlots \in Nat \ {0}
    /\ CLAIM_TTL \in Nat /\ RECONCILE_WINDOW \in Nat

VARIABLES
    variant,    \* PostVariant: status, claimToken, scheduledFor; the claim's age
    post,       \* Post.status
    row,        \* PublishingJob.state of each <<v, s>>; "NONE": no such row
    queue,      \* each row's BullMQ job, when no worker has it: "absent",
                \* "waiting" (or delayed), or "redelivered" after a stall
    attempts,   \* the PublishingAttempt ledger
    claims,     \* claims taken so far: the source of fresh tokens
    lock,       \* token of the run holding each account's Redis lock, or 0
    pc,         \* where each worker is in publishVariant
    run,        \* its ClaimedRun and what it remembers
    order       \* what a person's handler has checked and not yet written

vars == <<variant, post, row, queue, attempts, claims, lock, pc, run, order>>

Slots == 1 .. MaxSlots
Rows == Variants \X Slots
Tokens == 1 .. MaxClaims

RowStates == {"NONE", "QUEUED", "RUNNING", "PENDING", "SUCCEEDED", "FAILED",
              "DEAD_LETTER"}
AttemptStates == {"IN_FLIGHT", "SUCCEEDED", "FAILED", "RECONCILED",
                  "INCONCLUSIVE"}
Outcomes == {"PUBLISHED", "RETRYABLE", "FAILED", "INCONCLUSIVE"}

Attempt(r, st, c) == [row |-> r, state |-> st, call |-> c]

\* What a worker remembers before it has claimed anything.
NoRun == [row |-> <<>>, redelivered |-> FALSE, token |-> 0,
          takeover |-> FALSE, attempt |-> 0,
          outcome |-> "none", reconciled |-> FALSE, seen |-> NoStatus,
          target |-> NoStatus]

\* On which variants, to which status, the post to which, and is it enqueued?
Order(on, to, status, send) == [on |-> on, to |-> to, post |-> status, send |-> send]
NoOrder == Order({}, "SCHEDULED", NoStatus, FALSE)

Init ==
    /\ variant = [v \in Variants |->
                    [status |-> "SCHEDULED", token |-> 0, stale |-> FALSE,
                     slot |-> 1]]
    /\ post = "SCHEDULED"
    /\ row = [r \in Rows |-> "NONE"]
    /\ queue = [r \in Rows |-> "absent"]
    /\ attempts = <<>>
    /\ claims = 0
    /\ lock = [a \in Accounts |-> 0]
    /\ pc = [w \in Workers |-> "idle"]
    /\ run = [w \in Workers |-> NoRun]
    /\ order = NoOrder

----------------------------------------------------------------------------
(* Shorthands for a worker's run.                                          *)

VariantOf(w) == run[w].row[1]
AccountFor(w) == AccountOf[VariantOf(w)]
\* Mutant: the token is not compared.
HoldsAnyClaim(w) == TRUE

HoldsClaim(w) == variant[VariantOf(w)].token = run[w].token

Goto(w, to) == pc' = [pc EXCEPT ![w] = to]
Note(w, upd) == run' = [run EXCEPT ![w] = upd]

\* The job function returned: BullMQ drops the job.
Finish(w) == Goto(w, "idle") /\ Note(w, NoRun)

\* Mutant: whoever holds the lock of this account loses it.
UnlockedBlindly(w) == [a \in Accounts |-> IF a = AccountFor(w) THEN 0 ELSE lock[a]]

\* withLock's finally: compare-and-delete.
Unlocked(w) ==
    [a \in Accounts |-> IF lock[a] = run[w].token THEN 0 ELSE lock[a]]

\* Mutant: nobody looks for an attempt left open.
InFlightForgotten(r) == 0

\* findInFlightAttempt: the newest IN_FLIGHT attempt of this row, or 0.
InFlight(r) ==
    LET open == {i \in DOMAIN attempts :
                    attempts[i].row = r /\ attempts[i].state = "IN_FLIGHT"}
    IN  IF open = {} THEN 0 ELSE CHOOSE i \in open : \A j \in open : j <= i

Landed(v) ==
    {i \in DOMAIN attempts : attempts[i].row[1] = v /\ attempts[i].call = "landed"}

\* attemptStateFor
AttemptStateFor(outcome, reconciled) ==
    CASE outcome = "PUBLISHED" /\ reconciled  -> "RECONCILED"
      [] outcome = "PUBLISHED" /\ ~reconciled -> "SUCCEEDED"
      [] outcome = "INCONCLUSIVE"             -> "INCONCLUSIVE"
      [] OTHER                                -> "FAILED"

\* Mutant: no answer is taken for "it never landed".
ReconcileGuesses(v, i) == {"RETRYABLE"}

\* reconcile, asked about attempt i; about "now" when i is 0.  The search
\* covers RECONCILE_WINDOW either side of that instant.  A claim is taken
\* over more than CLAIM_TTL after it was made, so what its holder posted is
\* inside a window around "now" only if the window is the longer of the two,
\* or the holder is not dead but slow.
ReconcileAnswers(v, i) ==
    IF AccountOf[v] \notin Reconcilable THEN {"INCONCLUSIVE"}
    ELSE {"INCONCLUSIVE"}
         \cup {o \in {"PUBLISHED"} :
                 /\ Landed(v) # {}
                 /\ i # 0 \/ RECONCILE_WINDOW > CLAIM_TTL \/ "slow" \in Faults}
         \cup {o \in {"RETRYABLE"} : i \notin Landed(v)}

----------------------------------------------------------------------------
(* The producers.                                                          *)

\* The rows still to be created for variants that are SCHEDULED.
DueRows(vs) ==
    {r \in Rows : /\ vs[r[1]].status = "SCHEDULED" /\ vs[r[1]].slot = r[2]
                  /\ row[r] = "NONE"}

\* Create the rows and add one BullMQ job for each.
Enqueue(rows) ==
    /\ row' = [r \in Rows |-> IF r \in rows THEN "QUEUED" ELSE row[r]]
    /\ queue' = [r \in Rows |-> IF r \in rows THEN "waiting" ELSE queue[r]]

\* sweepDueVariants: the due variants of a SCHEDULED post, but for those whose
\* account waits to be reconnected.
Sweep ==
    /\ post = "SCHEDULED"
    /\ \E rows \in SUBSET DueRows(variant) : rows # {} /\ Enqueue(rows)
    /\ UNCHANGED <<variant, post, attempts, claims, lock, pc, run, order>>

----------------------------------------------------------------------------
(* What people order: each handler reads, checks, and then writes by id.   *)

\* Back to SCHEDULED is always at a new instant.
Moved(o) ==
    [v \in Variants |->
        IF v \notin o.on THEN variant[v]
        ELSE IF o.to = "SCHEDULED"
        THEN [variant[v] EXCEPT !.status = o.to, !.slot = @ + 1]
        ELSE [variant[v] EXCEPT !.status = o.to]]

InBounds(o) == o.to = "SCHEDULED" => \A v \in o.on : variant[v].slot < MaxSlots

\* The writes of an order, and enqueueDuePublishes where the handler ends in it.
CarryOut(o) ==
    /\ InBounds(o)
    /\ variant' = Moved(o)
    /\ post' = IF o.post = NoStatus THEN post ELSE o.post
    /\ IF o.send THEN Enqueue(DueRows(Moved(o))) ELSE UNCHANGED <<row, queue>>
    /\ UNCHANGED <<attempts, claims, lock, pc, run>>

\* withTenant is one READ COMMITTED transaction: with the fault "race", what
\* the checks saw may have changed by the time the order is carried out.
Issue(o) ==
    /\ o.on # {} /\ InBounds(o) /\ order = NoOrder
    /\ \/ "race" \notin Faults /\ CarryOut(o) /\ UNCHANGED order
       \/ /\ "race" \in Faults /\ order' = o
          /\ UNCHANGED <<variant, post, row, queue, attempts, claims, lock, pc, run>>

CommitOrder == order # NoOrder /\ CarryOut(order) /\ order' = NoOrder

\* retryPublishingJob
RetryJob(v) ==
    /\ \E s \in Slots : row[<<v, s>>] # "NONE"
    /\ variant[v].status \notin {"NEEDS_REVIEW", "PUBLISHED", "PUBLISHING"}
    /\ Issue(Order({v}, "SCHEDULED", NoStatus, TRUE))

WithStatus(statuses) == {v \in Variants : variant[v].status \in statuses}
Settled(status) == status \in {"FAILED", "PARTIALLY_PUBLISHED"}

\* retryFailedVariants is one conditional update; the post keeps its status.
RetryFailed ==
    LET again == WithStatus(RetryableVariantStatuses) IN
    /\ Settled(post) /\ again # {}
    /\ CarryOut(Order(again, "SCHEDULED", NoStatus, TRUE))
    /\ UNCHANGED order

\* publishNow, of a post that has settled: back to SCHEDULED first.
PublishNow ==
    /\ Settled(post)
    /\ Issue(Order(WithStatus(PublishableVariantStatuses), "SCHEDULED", "SCHEDULED", TRUE))

\* resolveParkedVariant.  A person who says what happened has looked.
ResolvedAs ==
    [PUBLISHED |-> "PUBLISHED", NOT_PUBLISHED |-> "SCHEDULED", ABANDON |-> "FAILED"]

Resolve(v, answer) ==
    /\ variant[v].status = "NEEDS_REVIEW"
    /\ answer = "PUBLISHED" => Landed(v) # {}
    /\ answer = "NOT_PUBLISHED" => Landed(v) = {}
    /\ Issue(Order({v}, ResolvedAs[answer], NoStatus, FALSE))

----------------------------------------------------------------------------
(* A worker takes a BullMQ job and tries to claim its variant.             *)

Begin(w, r, takeover) ==
    /\ claims < MaxClaims
    /\ claims' = claims + 1
    /\ variant' = [variant EXCEPT ![r[1]].status = "PUBLISHING",
                                  ![r[1]].token = claims + 1,
                                  ![r[1]].stale = FALSE]
    /\ Goto(w, "claimed")
    /\ Note(w, [NoRun EXCEPT !.row = r, !.token = claims + 1, !.takeover = takeover,
                              !.redelivered = (queue[r] = "redelivered")])

Dequeue(w, r) ==
    /\ pc[w] = "idle" /\ queue[r] # "absent"
    /\ queue' = [queue EXCEPT ![r] = "absent"]
    /\ UNCHANGED <<post, row, attempts, lock, order>>

\* claimVariant: the conditional UPDATE hit.
ClaimVariant(w, r) ==
    /\ Dequeue(w, r)
    /\ variant[r[1]].status = "SCHEDULED"
    /\ Begin(w, r, FALSE)

\* claimVariant: the claim found is older than CLAIM_TTL and is stolen.
TakeOverClaim(w, r) ==
    /\ Dequeue(w, r)
    /\ variant[r[1]].status = "PUBLISHING" /\ variant[r[1]].stale
    /\ Begin(w, r, TRUE)

\* claimVariant: NOT_AVAILABLE, and processPublish returns.
NotClaimable(w, r) ==
    /\ Dequeue(w, r)
    /\ variant[r[1]].status # "SCHEDULED"
    /\ ~(variant[r[1]].status = "PUBLISHING" /\ variant[r[1]].stale)
    /\ UNCHANGED <<variant, claims, pc, run>>

----------------------------------------------------------------------------
(* runClaimedPublish.                                                      *)

At(w, at) == pc[w] = at

\* loadPublishSubject and markPostPublishing; then, is there an outcome to
\* establish before anything may be published?
Load(w) ==
    /\ At(w, "claimed")
    /\ post' = IF post = "SCHEDULED" THEN "PUBLISHING" ELSE post
    /\ Goto(w, IF run[w].takeover \/ InFlight(run[w].row) # 0
               THEN "reconcile" ELSE "ready")
    /\ UNCHANGED <<variant, row, queue, attempts, claims, lock, run, order>>

\* loadPublishSubject threw: the account is not ACTIVE, media is not READY.
LoadRefused(w) ==
    /\ At(w, "claimed")
    /\ Goto(w, "reject")
    /\ UNCHANGED <<variant, post, row, queue, attempts, claims, lock, run, order>>

\* reconcileUnknownOutcome: ask, close the orphan, publish only if told the
\* earlier call never landed.
ReconcileUnknown(w, answer) ==
    LET orphan == InFlight(run[w].row) IN
    /\ At(w, "reconcile")
    /\ answer \in ReconcileAnswers(VariantOf(w), orphan)
    /\ attempts' = IF orphan = 0 THEN attempts
                   ELSE [attempts EXCEPT ![orphan].state = AttemptStateFor(answer, TRUE)]
    /\ Goto(w, IF answer = "RETRYABLE" THEN "ready" ELSE "apply")
    /\ Note(w, [run[w] EXCEPT !.outcome = answer])
    /\ UNCHANGED <<variant, post, row, queue, claims, lock, order>>

\* Give the claim back: the variant is SCHEDULED again, if it is still ours.
ReleaseClaim(w) ==
    variant' = IF HoldsClaim(w)
               THEN [variant EXCEPT ![VariantOf(w)].status = "SCHEDULED",
                                    ![VariantOf(w)].token = 0,
                                    ![VariantOf(w)].stale = FALSE]
               ELSE variant

\* withLock and takeToken: the account is free and within its budget.
AcquireLock(w) ==
    /\ At(w, "ready") /\ lock[AccountFor(w)] = 0
    /\ lock' = [lock EXCEPT ![AccountFor(w)] = run[w].token]
    /\ Goto(w, "locked")
    /\ UNCHANGED <<variant, post, row, queue, attempts, claims, run, order>>

\* LOCK_UNAVAILABLE, or the bucket is empty: DEFERRED.
Defer(w) ==
    /\ At(w, "ready")
    /\ ReleaseClaim(w)
    /\ Goto(w, "requeue")
    /\ UNCHANGED <<post, row, queue, attempts, claims, lock, run, order>>

----------------------------------------------------------------------------
(* attemptPublish and classifyAndMaybeReconcile, under the account lock.   *)

\* The attempt row is written before the call.
OpenAttempt(w) ==
    /\ At(w, "locked")
    /\ row' = [row EXCEPT ![run[w].row] = "RUNNING"]
    /\ attempts' = Append(attempts, Attempt(run[w].row, "IN_FLIGHT", "open"))
    /\ Goto(w, "calling")
    /\ Note(w, [run[w] EXCEPT !.attempt = Len(attempts) + 1])
    /\ UNCHANGED <<variant, post, queue, claims, lock, order>>

\* The platform makes the post.
Land(i) ==
    /\ attempts[i].call = "open"
    /\ attempts' = [attempts EXCEPT ![i].call = "landed"]
    /\ UNCHANGED <<variant, post, row, queue, claims, lock, pc, run, order>>

Call(w) == attempts[run[w].attempt].call
Conclude(w, outcome) == Note(w, [run[w] EXCEPT !.outcome = outcome])

Accepted(w) ==
    /\ At(w, "calling") /\ Call(w) = "landed"
    /\ Goto(w, "close") /\ Conclude(w, "PUBLISHED")
    /\ UNCHANGED <<variant, post, row, queue, attempts, claims, lock, order>>

\* An error the adapter classified: final, or worth another attempt.
Refused(w, outcome) ==
    /\ At(w, "calling") /\ Call(w) = "open"
    /\ outcome \in {"FAILED", "RETRYABLE"}
    /\ attempts' = [attempts EXCEPT ![run[w].attempt].call = "refused"]
    /\ Goto(w, "close") /\ Conclude(w, outcome)
    /\ UNCHANGED <<variant, post, row, queue, claims, lock, order>>

\* What a call nobody waits for any more becomes.
Abandoned(w) ==
    IF At(w, "calling") /\ Call(w) = "open" /\ "late" \notin Faults
    THEN [attempts EXCEPT ![run[w].attempt].call = "refused"]
    ELSE attempts

\* PUBLISH_TIMEOUT_MS passed, or the connection broke.
TimedOut(w) ==
    /\ At(w, "calling")
    /\ attempts' = Abandoned(w)
    /\ Goto(w, "unsure")
    /\ UNCHANGED <<variant, post, row, queue, claims, lock, run, order>>

ReconcileTimeout(w, answer) ==
    /\ At(w, "unsure")
    /\ answer \in ReconcileAnswers(VariantOf(w), run[w].attempt)
    /\ Goto(w, "close")
    /\ Note(w, [run[w] EXCEPT !.outcome = answer, !.reconciled = TRUE])
    /\ UNCHANGED <<variant, post, row, queue, attempts, claims, lock, order>>

\* closeAttempt; the callback of withLock returns and the lock is released.
CloseAttempt(w) ==
    /\ At(w, "close")
    /\ attempts' = [attempts EXCEPT ![run[w].attempt].state =
                        AttemptStateFor(run[w].outcome, run[w].reconciled)]
    /\ lock' = Unlocked(w)
    /\ Goto(w, "apply")
    /\ UNCHANGED <<variant, post, row, queue, claims, run, order>>

----------------------------------------------------------------------------
(* applyOutcome.                                                           *)

\* Mutants: an outcome nobody knows is a failure; it is stored as it comes.
SettledAsFailed(outcome) == IF outcome = "INCONCLUSIVE" THEN "FAILED" ELSE outcome
SettledVerbatim(outcome) == outcome

SettledAs(outcome) == IF outcome = "INCONCLUSIVE" THEN "NEEDS_REVIEW" ELSE outcome

\* settleClaim, guarded by the token; what it returns is ignored.
Settle(w) ==
    /\ At(w, "apply") /\ run[w].outcome # "RETRYABLE"
    /\ variant' = IF HoldsClaim(w)
                  THEN [variant EXCEPT ![VariantOf(w)].status = SettledAs(run[w].outcome),
                                       ![VariantOf(w)].token = 0,
                                       ![VariantOf(w)].stale = FALSE]
                  ELSE variant
    /\ Goto(w, "settled")
    /\ UNCHANGED <<post, row, queue, attempts, claims, lock, run, order>>

\* updateJobState after settling.
SettleRow(w) ==
    /\ At(w, "settled")
    /\ row' = [row EXCEPT ![run[w].row] =
                 CASE run[w].outcome = "PUBLISHED" -> "SUCCEEDED"
                   [] run[w].outcome = "FAILED"    -> "FAILED"
                   [] OTHER                        -> "DEAD_LETTER"]
    /\ Goto(w, "roll")
    /\ UNCHANGED <<variant, post, queue, attempts, claims, lock, run, order>>

StatusOf == [v \in Variants |-> variant[v].status]

\* rollUpPost reads the post and its variants ...
RollUpRead(w) ==
    LET target == PostStatusFor(StatusOf)
        moves  == /\ target \notin {NoStatus, post}
                  /\ AssertTransition(post, target, "SYSTEM")
    IN
    /\ At(w, "roll")
    /\ \/ /\ moves
          /\ Goto(w, "write")
          /\ Note(w, [run[w] EXCEPT !.seen = post, !.target = target])
       \/ ~moves /\ Finish(w)
    /\ UNCHANGED <<variant, post, row, queue, attempts, claims, lock, order>>

\* ... and writes the status if the post is still in the one it read.
RollUpWrite(w) ==
    /\ At(w, "write")
    /\ post' = IF post = run[w].seen THEN run[w].target ELSE post
    /\ Finish(w)
    /\ UNCHANGED <<variant, row, queue, attempts, claims, lock, order>>

\* RETRYABLE: the claim goes back, the row waits, the job is deferred.
Retryable(w) ==
    /\ At(w, "apply") /\ run[w].outcome = "RETRYABLE"
    /\ ReleaseClaim(w)
    /\ Goto(w, "pend")
    /\ UNCHANGED <<post, row, queue, attempts, claims, lock, run, order>>

PendRow(w) ==
    /\ At(w, "pend")
    /\ row' = [row EXCEPT ![run[w].row] = "PENDING"]
    /\ Goto(w, "requeue")
    /\ UNCHANGED <<variant, post, queue, attempts, claims, lock, run, order>>

\* runAttempt re-enqueues what was deferred or failed for a passing reason.
Requeue(w) ==
    /\ At(w, "requeue")
    /\ queue' = [queue EXCEPT ![run[w].row] = "waiting"]
    /\ Finish(w)
    /\ UNCHANGED <<variant, post, row, attempts, claims, lock, order>>

\* Mutant: the claim is kept.
RejectHolding(w) ==
    /\ At(w, "reject")
    /\ Finish(w)
    /\ UNCHANGED <<variant, post, row, queue, attempts, claims, lock, order>>

\* publishVariant's catch, for an error the queue will not retry.
Reject(w) ==
    /\ At(w, "reject")
    /\ ReleaseClaim(w)
    /\ Finish(w)
    /\ UNCHANGED <<post, row, queue, attempts, claims, lock, order>>

----------------------------------------------------------------------------
(* What goes wrong.                                                        *)

\* A write fails.  Inside attemptPublish's try the error is taken for the
\* provider's; anywhere else it is thrown.
StoreFails(w) ==
    /\ "db" \in Faults
    /\ pc[w] \in {"claimed", "reconcile", "ready", "locked", "close", "apply",
                  "pend", "settled", "roll", "write"}
    /\ IF At(w, "close") /\ run[w].outcome = "PUBLISHED" /\ ~run[w].reconciled
       THEN Conclude(w, "RETRYABLE") /\ UNCHANGED <<pc, lock>>
       ELSE Goto(w, "throw") /\ lock' = Unlocked(w) /\ UNCHANGED run
    /\ UNCHANGED <<variant, post, row, queue, attempts, claims, order>>

\* publishVariant's catch; its own releaseClaim may fail as well.
Throw(w) ==
    /\ At(w, "throw")
    /\ ReleaseClaim(w) \/ UNCHANGED variant
    /\ Goto(w, "requeue")
    /\ UNCHANGED <<post, row, queue, attempts, claims, lock, run, order>>

\* The process dies.  BullMQ hands a stalled job out again (maxStalledCount).
Crash(w) ==
    /\ pc[w] \in CrashPoints
    /\ attempts' = Abandoned(w)
    /\ queue' = IF run[w].redelivered THEN queue
                ELSE [queue EXCEPT ![run[w].row] = "redelivered"]
    /\ Finish(w)
    /\ UNCHANGED <<variant, post, row, claims, lock, order>>

Alive(token) == \E w \in Workers : pc[w] # "idle" /\ run[w].token = token

\* More than CLAIM_TTL_MS since the claim was taken: no run lasts that long.
ClaimExpires(v) ==
    /\ variant[v].status = "PUBLISHING" /\ ~variant[v].stale
    /\ "slow" \in Faults \/ ~Alive(variant[v].token)
    /\ variant' = [variant EXCEPT ![v].stale = TRUE]
    /\ UNCHANGED <<post, row, queue, attempts, claims, lock, pc, run, order>>

\* LOCK_TTL_MS passed: longer than a call, not than the reconciliation after.
LockExpires(a) ==
    /\ lock[a] # 0
    /\ \/ "slow" \in Faults
       \/ \A w \in Workers : run[w].token = lock[a] => pc[w] \notin {"locked", "calling"}
    /\ lock' = [lock EXCEPT ![a] = 0]
    /\ UNCHANGED <<variant, post, row, queue, attempts, claims, pc, run, order>>

----------------------------------------------------------------------------
Take(w) == \E r \in Rows : ClaimVariant(w, r) \/ TakeOverClaim(w, r) \/ NotClaimable(w, r)

Step(w) ==
    \/ Load(w) \/ LoadRefused(w) \/ AcquireLock(w) \/ Defer(w)
    \/ \E answer \in Outcomes :
          ReconcileUnknown(w, answer) \/ ReconcileTimeout(w, answer) \/ Refused(w, answer)
    \/ OpenAttempt(w) \/ Accepted(w) \/ TimedOut(w) \/ CloseAttempt(w)
    \/ Settle(w) \/ SettleRow(w) \/ RollUpRead(w) \/ RollUpWrite(w)
    \/ Retryable(w) \/ PendRow(w) \/ Requeue(w) \/ Reject(w) \/ Throw(w)

Human ==
    \/ PublishNow \/ RetryFailed \/ CommitOrder
    \/ \E v \in Variants : RetryJob(v) \/ \E answer \in Resolutions : Resolve(v, answer)

Next ==
    \/ Sweep \/ Human
    \/ \E w \in Workers : Take(w) \/ Step(w) \/ StoreFails(w) \/ Crash(w)
    \/ \E i \in DOMAIN attempts : Land(i)
    \/ \E v \in Variants : ClaimExpires(v)
    \/ \E a \in Accounts : LockExpires(a)

Spec == Init /\ [][Next]_vars

\* The processes keep running and the clock keeps advancing; nobody is
\* obliged to press a button and nothing is obliged to fail.
Fairness ==
    /\ WF_vars(Sweep)
    /\ \A w \in Workers : WF_vars(Take(w)) /\ WF_vars(Step(w))
    /\ \A v \in Variants : WF_vars(ClaimExpires(v))
    /\ \A a \in Accounts : WF_vars(LockExpires(a))

FairSpec == Spec /\ Fairness

----------------------------------------------------------------------------
(* Properties.                                                             *)

VariantRecord ==
    [status : VariantStatuses, token : 0 .. MaxClaims, stale : BOOLEAN, slot : Slots]

AttemptRecord ==
    [row : Rows, state : AttemptStates, call : {"open", "landed", "refused"}]

RunOf ==
    [row : {<<>>} \cup Rows, redelivered : BOOLEAN, token : 0 .. MaxClaims,
     takeover : BOOLEAN, attempt : Nat, outcome : Outcomes \cup {"none"},
     reconciled : BOOLEAN, seen : PostStatuses \cup {NoStatus},
     target : PostStatuses \cup {NoStatus}]

OrderOf ==
    [on : SUBSET Variants, to : VariantStatuses, post : PostStatuses \cup {NoStatus},
     send : BOOLEAN]

\* Every variable stays within its type, and a busy worker has a job and a
\* token (the shape of publishVariant's state).
TypeOK ==
    /\ variant \in [Variants -> VariantRecord]
    /\ post \in PostStatuses
    /\ row \in [Rows -> RowStates]
    /\ queue \in [Rows -> {"absent", "waiting", "redelivered"}]
    /\ attempts \in Seq(AttemptRecord)
    /\ claims \in 0 .. MaxClaims
    /\ lock \in [Accounts -> 0 .. MaxClaims]
    /\ pc \in [Workers -> Running \cup {"idle"}]
    /\ run \in [Workers -> RunOf]
    /\ order \in OrderOf
    /\ \A w \in Workers :
          /\ pc[w] # "idle" => run[w].row \in Rows /\ run[w].token \in Tokens
          /\ pc[w] \in {"close", "apply", "settled"} => run[w].outcome \in Outcomes
          /\ pc[w] = "write" => run[w].target \in PostStatuses

\* Exactly-once, the half that can be checked in a state: the platform never
\* holds two posts of one variant (engine.ts, the four layers).
AtMostOnce ==
    \A i, j \in DOMAIN attempts :
        (/\ attempts[i].call = "landed" /\ attempts[j].call = "landed"
         /\ attempts[i].row[1] = attempts[j].row[1]) => i = j

\* What the row says is what happened: PUBLISHED was posted, FAILED was not,
\* and a variant that may be published again was not posted, unless the
\* ledger still says that nobody knows (claim.ts, attempts.ts, applyOutcome).
StatusTellsTheTruth ==
    \A v \in Variants :
        /\ variant[v].status = "PUBLISHED" => Landed(v) # {}
        /\ variant[v].status = "FAILED" => Landed(v) = {}
        /\ variant[v].status = "SCHEDULED" =>
              \A i \in Landed(v) : attempts[i].state = "IN_FLIGHT"

\* Layer 3: at most one provider call per account is in progress (lock.ts).
OneCallPerAccount ==
    \A w, x \in Workers :
        (/\ pc[w] = "calling" /\ pc[x] = "calling"
         /\ AccountFor(w) = AccountFor(x)) => w = x

\* Layer 2: a claim is ended by the run that holds it, or taken from it after
\* it has expired; a run whose claim was taken over cannot disturb the new
\* one (the token guards of releaseClaim and settleClaim).
ClaimEndedByHolder ==
    [][\A v \in Variants :
          (variant[v].token # 0 /\ variant'[v].token # variant[v].token) =>
              \/ variant[v].stale
              \/ \E w \in Workers : /\ pc[w] # "idle" /\ pc'[w] # pc[w]
                                    /\ run[w].token = variant[v].token]_vars

\* Nothing leaves PUBLISHED, and no worker moves a variant out of
\* NEEDS_REVIEW: only a person does (engine.ts, resolve.ts).
OutcomesStand ==
    [][\A v \in Variants :
          /\ variant[v].status = "PUBLISHED" => variant'[v].status = "PUBLISHED"
          /\ (variant[v].status = "NEEDS_REVIEW"
                /\ variant'[v].status # "NEEDS_REVIEW") => UNCHANGED <<pc, post>>]_vars

AllSettled == \A v \in Variants : ~Pending(variant[v].status)

\* The post settles once every variant has an outcome, into the status those
\* outcomes imply, and a settled post is not put back to PUBLISHING by a
\* worker (rollup.ts).
PostSettlesOnce ==
    [][post # post' =>
          \/ post = "SCHEDULED" /\ post' = "PUBLISHING"
          \/ post' = "SCHEDULED" /\ UNCHANGED pc
          \/ /\ post = "PUBLISHING" /\ AllSettled
             /\ post' = PostStatusFor(StatusOf)]_vars

\* How many posts of each variant the platform has.
PostsOf == [v \in Variants |-> Cardinality(Landed(v))]

\* Claims, ledger, lock and reconciliation together keep the promise at the
\* head of engine.ts: each variant is posted once, and its status is true.
Once == INSTANCE PublishOnce WITH status <- StatusOf, posts <- PostsOf

ImplementsPublishOnce == Once!Spec

HasWork(v) ==
    \/ \E s \in Slots : queue[<<v, s>>] # "absent"
    \/ \E w \in Workers : pc[w] # "idle" /\ VariantOf(w) = v

\* The next sweep creates its row.
Sweepable(v) == post = "SCHEDULED" /\ row[<<v, variant[v].slot>>] = "NONE"

\* A SCHEDULED variant is never stranded: a job or a worker has it, or the
\* next sweep will find it (scheduler.ts, the account filter of the sweep).
ScheduledGoesOut ==
    \A v \in Variants :
        variant[v].status = "SCHEDULED" => HasWork(v) \/ Sweepable(v)

\* A claim is always ended, whatever the platform answers.
ClaimsEnd ==
    \A v \in Variants : variant[v].status = "PUBLISHING" ~> variant[v].status # "PUBLISHING"

\* When every variant has an outcome, the post gets one too.
PostSettles == (post = "PUBLISHING" /\ AllSettled) ~> post # "PUBLISHING"
=============================================================================
