---------------------------- MODULE PostLifecycle ----------------------------
(***************************************************************************)
(* One post from draft to published: transitionPost and the services built *)
(* on it (apps/web/src/features/{posts,approvals,scheduling,publishing}),  *)
(* the sweep, and the worker as far as a post can see it.                  *)
(*                                                                         *)
(* transitionPost checks in one transaction and writes, by id, in another. *)
(* A kind of request in Racing is taken in those two steps, and whatever   *)
(* else happens may happen between them.                                   *)
(***************************************************************************)
EXTENDS PostStatus, Sequences

CONSTANTS
    Variants, People,
    Racing,         \* the kinds of request whose two transactions are apart
    PlainMoves,     \* statuses the bare transition endpoint is asked for
    Reschedules,    \* BOOLEAN: posts are dragged about on the calendar
    Exemptions,     \* BOOLEAN: whether the client must approve may be changed
    MaxTime,        \* bound: instants
    MaxGates,       \* bound: approval records
    MaxContent      \* bound: versions of the content

Kinds == {"move", "decide", "schedule", "unschedule", "publish"}

ASSUME LifecycleAssumption ==
    /\ Racing \subseteq Kinds /\ PlainMoves \subseteq PostStatuses
    /\ Reschedules \in BOOLEAN /\ Exemptions \in BOOLEAN
    /\ MaxTime \in Nat \ {0} /\ MaxGates \in Nat /\ MaxContent \in Nat \ {0}

VARIABLES
    post,       \* status; at: scheduledFor, 0 for null; required: whether the
                \* client must approve; content: its version; approved: the
                \* version that was last approved, 0 for none
    variant,    \* PostVariant.status, scheduledFor and contentHash; the job
                \* that last claimed it
    approvals,  \* Approval records, in the order they were requested
    pending,    \* what each person has asked for and not yet committed
    rows,       \* PublishingJob rows, by idempotency key
    queue,      \* the rows whose BullMQ job waits
    now

vars == <<post, variant, approvals, pending, rows, queue, now>>

Stages == {"INTERNAL", "CLIENT"}
Decisions == {"APPROVED", "CHANGES_REQUESTED"}
ApprovalStates == Decisions \cup {"PENDING", "CANCELED"}
Instants == 1 .. MaxTime
\* publishIdempotencyKey: the variant, the instant and the content's hash.
JobKeys == Variants \X Instants \X (1 .. MaxContent)

Asked(kind, to, gate, decision, at) ==
    [kind |-> kind, from |-> post.status, to |-> to, gate |-> gate,
     decision |-> decision, at |-> at]

NoRequest == [kind |-> "none"]

Init ==
    /\ \E required \in BOOLEAN :
          post = [status |-> "DRAFT", at |-> 0, required |-> required,
                  content |-> 1, approved |-> 0]
    /\ variant = [v \in Variants |-> [status |-> "DRAFT", at |-> 0, hash |-> 0,
                                      job |-> <<v, 1, 1>>]]
    /\ approvals = <<>>
    /\ pending = [p \in People |-> NoRequest]
    /\ rows = {} /\ queue = {} /\ now = 0

WithStatus(statuses) == {v \in Variants : variant[v].status \in statuses}

----------------------------------------------------------------------------
(* Approval records (records.ts).                                          *)

OpenGates(as) == {i \in DOMAIN as : as[i].state = "PENDING"}

\* Mutant: the round of a new internal review does not advance.
RoundStays(stage) ==
    LET seen == {approvals[i].round : i \in DOMAIN approvals} \cup {1}
    IN  CHOOSE n \in seen : \A m \in seen : m <= n

\* currentRound, and the round of a gate opened now.
Round(stage) ==
    LET seen == {approvals[i].round : i \in DOMAIN approvals} \cup {0}
        last == CHOOSE n \in seen : \A m \in seen : m <= n
    IN  IF stage = "INTERNAL" THEN last + 1 ELSE IF last = 0 THEN 1 ELSE last

\* openGateFor
OpenGateFor(as, to) ==
    LET stage == StageForStatus(to) IN
    IF stage = "none" THEN as
    ELSE Append(as, [stage |-> stage, state |-> "PENDING", round |-> Round(stage)])

\* voidOpenGates
VoidOpenGates(as) ==
    [i \in DOMAIN as |->
        IF as[i].state = "PENDING" THEN [as[i] EXCEPT !.state = "CANCELED"] ELSE as[i]]

\* Mutant: only a reopen closes a gate.
ClosesGatesOnReopen(from, to) == VoidsApprovals(from, to) \/ to = "CANCELED"

\* A move closes the gates when it leaves the review they belong to, reopens
\* approved content, or cancels the post.
ClosesGates(from, to) ==
    \/ StageForStatus(from) # "none" /\ from # to
    \/ VoidsApprovals(from, to)
    \/ to = "CANCELED"

\* Mutant: the gate's state is not compared.
StampsAnything(r) == TRUE

\* recordDecision is a compare-and-set on PENDING.
Stamps(r) == approvals[r.gate].state = "PENDING"

Stamped(as, r) ==
    IF r.kind = "decide" THEN [as EXCEPT ![r.gate].state = r.decision] ELSE as

----------------------------------------------------------------------------
(* transitionPost.                                                         *)

\* Mutant: an internal reviewer may end the review of a client's post.
AllowsAll(r) == r.from = post.status /\ AssertTransition(r.from, r.to, "HUMAN")

\* Its first transaction: the table, and the client's gate.
Allows(r) ==
    /\ r.from = post.status
    /\ AssertTransition(r.from, r.to, "HUMAN")
    /\ ~(r.from = "INTERNAL_REVIEW" /\ r.to = "APPROVED" /\ post.required)

\* Its second transaction is not rolled back by the caller's callback, or by
\* the rule that a scheduled post has a date.
Lands(r) ==
    /\ r.kind = "decide" => Stamps(r)
    /\ r.kind \in {"schedule", "publish"} => WithStatus(PublishableVariantStatuses) # {}
    /\ (r.kind = "move" /\ r.to = "SCHEDULED") => post.at # 0

ScheduledAt(r) ==
    CASE r.kind \in {"schedule", "publish"} -> r.at
      [] r.kind = "unschedule"              -> 0
      [] OTHER                              -> post.at

\* applySchedule: the variants in these statuses are SCHEDULED at an instant.
ApplySchedule(statuses, at) ==
    [v \in Variants |->
        IF variant[v].status \in statuses
        THEN [variant[v] EXCEPT !.status = "SCHEDULED", !.at = at, !.hash = post.content]
        ELSE variant[v]]

VariantsAfter(r) ==
    CASE r.kind \in {"schedule", "publish"} ->
            ApplySchedule(PublishableVariantStatuses, r.at)
      [] r.kind = "unschedule" ->
            [v \in Variants |->
                IF variant[v].status = "SCHEDULED"
                THEN [variant[v] EXCEPT !.status = "DRAFT", !.at = 0] ELSE variant[v]]
      [] r.to = "CANCELED" ->
            [v \in Variants |->
                IF variant[v].status \in {"DRAFT", "SCHEDULED"}
                THEN [variant[v] EXCEPT !.status = "CANCELED"] ELSE variant[v]]
      [] OTHER -> variant

\* The keys of the jobs that variants which are SCHEDULED call for.
Keys(vs) == {<<v, vs[v].at, vs[v].hash>> : v \in {x \in Variants : vs[x].status = "SCHEDULED"}}

\* Mutant: the job is added without its row.
EnqueueUnrecorded(keys) == UNCHANGED rows /\ queue' = queue \cup (keys \ rows)

\* claimPublishingJob and enqueue: a key whose row exists is a duplicate.
Enqueue(keys) == rows' = rows \cup keys /\ queue' = queue \cup (keys \ rows)

InBounds(r) == StageForStatus(r.to) # "none" => Len(approvals) < MaxGates

\* The second transaction: the status is written whatever it is by now.
Commit(r) ==
    /\ InBounds(r)
    /\ post' = [post EXCEPT !.status = r.to, !.at = ScheduledAt(r),
                            !.approved = IF r.to = "APPROVED" THEN post.content ELSE @]
    /\ variant' = VariantsAfter(r)
    /\ LET stamped == Stamped(approvals, r)
           closed  == IF ClosesGates(r.from, r.to) THEN VoidOpenGates(stamped) ELSE stamped
       IN  approvals' = OpenGateFor(closed, r.to)
    /\ IF r.kind = "publish" THEN Enqueue(Keys(VariantsAfter(r)))
       ELSE UNCHANGED <<rows, queue>>

TransitionPost(p, r) ==
    /\ pending[p] = NoRequest /\ Allows(r)
    /\ now' = IF r.kind = "publish" THEN r.at ELSE now
    /\ IF r.kind \in Racing
       THEN /\ InBounds(r)
            /\ pending' = [pending EXCEPT ![p] = r]
            /\ UNCHANGED <<post, variant, approvals, rows, queue>>
       ELSE Lands(r) /\ Commit(r) /\ UNCHANGED pending

CommitRequest(p) ==
    /\ pending[p] # NoRequest
    /\ pending' = [pending EXCEPT ![p] = NoRequest]
    /\ IF Lands(pending[p]) THEN Commit(pending[p])
       ELSE UNCHANGED <<post, variant, approvals, rows, queue>>
    /\ UNCHANGED now

----------------------------------------------------------------------------
(* The services on top of it.                                              *)

\* The bare transition endpoint.
Transition(p) ==
    \E to \in PlainMoves : TransitionPost(p, Asked("move", to, 0, "none", 0))

\* decideApproval: the record must answer the gate the post is at.
DecideApproval(p) ==
    \E i \in OpenGates(approvals), decision \in Decisions :
        /\ approvals[i].stage = StageForStatus(post.status)
        /\ TransitionPost(p, Asked("decide",
               StatusAfterDecision(approvals[i].stage, decision, post.required),
               i, decision, 0))

\* schedulePost, at least a minute ahead.
SchedulePost(p) ==
    \E at \in Instants : at > now /\ TransitionPost(p, Asked("schedule", "SCHEDULED", 0, "none", at))

\* publishNow.  The instant it takes for now is new.
PublishNow(p) ==
    now < MaxTime /\ TransitionPost(p, Asked("publish", "SCHEDULED", 0, "none", now + 1))

UnschedulePost(p) == TransitionPost(p, Asked("unschedule", "DRAFT", 0, "none", 0))

\* updatePost, autosavePost, updateVariant.  An approver may also change
\* whether the client must approve.
UpdatePost ==
    /\ ~EditLocked(post.status) /\ post.content < MaxContent
    /\ \E required \in IF Exemptions THEN BOOLEAN ELSE {post.required} :
          post' = [post EXCEPT !.content = @ + 1, !.required = required]
    /\ UNCHANGED <<variant, approvals, pending, rows, queue, now>>

\* reschedulePost, one transaction.
ReschedulePost ==
    /\ Reschedules /\ post.status = "SCHEDULED"
    /\ WithStatus({"PUBLISHING", "PUBLISHED"}) = {}
    /\ \E at \in Instants :
          /\ at > now
          /\ post' = [post EXCEPT !.at = at]
          /\ variant' = ApplySchedule({"DRAFT", "SCHEDULED"}, at)
    /\ UNCHANGED <<approvals, pending, rows, queue, now>>

\* These variants go out again, at an instant that is new, and every job the
\* post then calls for is enqueued.
Retried(vs) ==
    /\ now < MaxTime /\ vs # {} /\ now' = now + 1
    /\ variant' = [v \in Variants |->
            IF v \in vs THEN [variant[v] EXCEPT !.status = "SCHEDULED", !.at = now + 1]
            ELSE variant[v]]
    /\ Enqueue(Keys(variant'))
    /\ UNCHANGED <<post, approvals, pending>>

\* retryFailedVariants
RetryFailedVariants ==
    post.status \in {"FAILED", "PARTIALLY_PUBLISHED"} /\ Retried(WithStatus({"FAILED"}))

\* retryPublishingJob: any job of a variant, whatever its post's status.
RetryPublishingJob(v) ==
    /\ \E k \in rows : k[1] = v
    /\ variant[v].status \notin {"NEEDS_REVIEW", "PUBLISHED", "PUBLISHING"}
    /\ Retried({v})

----------------------------------------------------------------------------
(* The worker.                                                             *)

Tick == now < MaxTime /\ now' = now + 1
        /\ UNCHANGED <<post, variant, approvals, pending, rows, queue>>

\* sweepDueVariants
Sweep ==
    LET due == {k \in Keys(variant) : k[2] <= now} \ rows IN
    /\ post.status = "SCHEDULED" /\ due # {}
    /\ Enqueue(due)
    /\ UNCHANGED <<post, variant, approvals, pending, now>>

\* claimVariant looks at the variant's own status; markPostPublishing.
Claim(k) ==
    LET v == k[1] IN
    /\ k \in queue /\ queue' = queue \ {k}
    /\ IF variant[v].status = "SCHEDULED"
       THEN /\ variant' = [variant EXCEPT ![v].status = "PUBLISHING", ![v].job = k]
            /\ post' = [post EXCEPT !.status = IF @ = "SCHEDULED" THEN "PUBLISHING" ELSE @]
       ELSE UNCHANGED <<variant, post>>
    /\ UNCHANGED <<approvals, pending, rows, now>>

\* rollUpPost, once a variant has an outcome.
RolledUp(vs) ==
    LET target == PostStatusFor([v \in Variants |-> vs[v].status]) IN
    IF target # NoStatus /\ AssertTransition(post.status, target, "SYSTEM")
    THEN target ELSE post.status

Settle(v) ==
    /\ variant[v].status = "PUBLISHING"
    /\ \E outcome \in {"PUBLISHED", "FAILED", "NEEDS_REVIEW"} :
          variant' = [variant EXCEPT ![v].status = outcome]
    /\ post' = [post EXCEPT !.status = RolledUp(variant')]
    /\ UNCHANGED <<approvals, pending, rows, queue, now>>

\* The claim goes back: deferred, or a failure that passes, and the job is
\* enqueued again; or refused by loadPublishSubject, and the job ends.
Defer(v) ==
    /\ variant[v].status = "PUBLISHING"
    /\ variant' = [variant EXCEPT ![v].status = "SCHEDULED"]
    /\ queue' \in {queue, queue \cup {variant[v].job}}
    /\ UNCHANGED <<post, approvals, pending, rows, now>>

----------------------------------------------------------------------------
Next ==
    \/ \E p \in People :
          \/ Transition(p) \/ DecideApproval(p) \/ SchedulePost(p) \/ PublishNow(p)
          \/ UnschedulePost(p) \/ CommitRequest(p)
    \/ UpdatePost \/ ReschedulePost \/ RetryFailedVariants
    \/ \E v \in Variants : RetryPublishingJob(v) \/ Settle(v) \/ Defer(v)
    \/ \E k \in JobKeys : Claim(k)
    \/ Tick \/ Sweep

Spec == Init /\ [][Next]_vars

----------------------------------------------------------------------------
(* Properties.                                                             *)

Request ==
    {NoRequest} \cup
    [kind : Kinds, from : PostStatuses, to : PostStatuses, gate : 0 .. MaxGates,
     decision : Decisions \cup {"none"}, at : 0 .. MaxTime]

\* Every variable stays within its type.
TypeOK ==
    /\ post \in [status : PostStatuses, at : 0 .. MaxTime, required : BOOLEAN,
                 content : 1 .. MaxContent, approved : 0 .. MaxContent]
    /\ variant \in [Variants -> [status : VariantStatuses, at : 0 .. MaxTime,
                                 hash : 0 .. MaxContent, job : JobKeys]]
    /\ approvals \in Seq([stage : Stages, state : ApprovalStates, round : Nat \ {0}])
    /\ Len(approvals) <= MaxGates
    /\ pending \in [People -> Request]
    /\ rows \subseteq JobKeys /\ queue \subseteq rows
    /\ now \in 0 .. MaxTime

\* The gate a post waits at, as the approval queue shows it: none, one, or
\* more than anyone can answer.
OpenGate ==
    LET open == OpenGates(approvals) IN
    IF open = {} THEN "none"
    ELSE IF Cardinality(open) > 1 THEN "many"
    ELSE approvals[CHOOSE i \in open : TRUE].stage

\* A post moves along the transition table only, and has an open gate exactly
\* while it is in that gate's review: a decision that comes late moves nothing
\* (transitionPost, decideApproval, the gate bookkeeping).
Machine == INSTANCE PostMachine WITH status <- post.status, gate <- OpenGate

ImplementsMachine == Machine!Spec

\* An answer to a review is never taken back, overwritten or given twice, and
\* a record once closed stays closed (recordDecision's compare-and-set).
DecisionsStand ==
    [][\A i \in DOMAIN approvals :
          approvals[i].state # "PENDING" => approvals'[i] = approvals[i]]_vars

\* What a client must approve has been put before the client since the last
\* internal review began (the client's gate in transitionPost).
ClientSawIt ==
    (post.required /\ post.status \in {"APPROVED", "SCHEDULED", "PUBLISHING", "PUBLISHED",
                                       "PARTIALLY_PUBLISHED", "FAILED"}) =>
        \E i \in DOMAIN approvals :
            /\ approvals[i].stage = "CLIENT"
            /\ \A j \in DOMAIN approvals : approvals[j].stage = "INTERNAL" => j < i

\* Each internal review is a round of its own, and the client's review belongs
\* to the round of the internal one before it (currentRound, openGateFor).
RoundsAdvance ==
    \A i, j \in DOMAIN approvals :
        i < j => /\ approvals[j].stage = "INTERNAL" => approvals[i].round < approvals[j].round
                 /\ (approvals[j].stage = "CLIENT" /\ j = i + 1) =>
                        approvals[i].round = approvals[j].round

Claimed(v) == variant[v].status # "PUBLISHING" /\ variant'[v].status = "PUBLISHING"

\* What goes out is the version that was approved (post-status.ts, the edit
\* lock).
OnlyApprovedContent ==
    [][\A v \in Variants : Claimed(v) => post.content = post.approved]_vars

\* Nothing goes out before the instant it is scheduled for (reschedulePost).
NothingGoesEarly ==
    [][\A v \in Variants : Claimed(v) => variant[v].at <= now]_vars
=============================================================================
