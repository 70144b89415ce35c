# AHN Orbit: a TLA+ verification

AHN Orbit is a multi-tenant agency tool: people write posts, review them, schedule them,
and a worker process publishes each post to several social accounts.  The platforms
offer no idempotency key, workers die, answers get lost and two people press the same
button.  This directory models the parts of the system where such things meet, checks
them with TLC on small instances, and proves what it can for every size with TLAPS.

Paths below are relative to the repository (`apps/`, `packages/`, `docs/`).

## 1. Inventory

Two processes share one PostgreSQL database and one Redis: the Next.js application
(`apps/web`), whose handlers run inside `withTenant`, one READ COMMITTED transaction
each, and the worker (`apps/worker`), any number of copies of which take jobs from
BullMQ queues (`packages/queue`).

| Component | State it keeps | Operations | How it meets the others | What must hold |
|---|---|---|---|---|
| Publishing engine, `worker/src/publishing` | `PostVariant.status/claimToken/claimedAt`, `PublishingJob.state`, `PublishingAttempt` ledger | claim, take over, load, reconcile, call, close, settle, roll up, defer, reject | takes jobs from the queue, holds the account lock, asks the platform | one post per variant; every claim ends; a status says what happened; the post settles once |
| Publish processor and sweep, `worker/src/processors` | none of its own | `processPublish`, `sweepDueVariants` | creates job rows, adds jobs | what is due goes out, once |
| Status rules, `packages/core` | none (pure) | `assertTransition`, `summariseVariants`, `postStatusFor`, `variantStatusFor` | used by every writer | the same table for people and worker |
| Publishing commands, `features/publishing` | none of its own | `publishNow`, `retryPublishingJob`, `retryFailedVariants`, `resolveParkedVariant` | write variants and posts, add jobs | a retry never posts twice; an answer is acted on |
| Queue layer, `packages/queue` | BullMQ jobs, attempt count in the payload | `enqueue`, `cancelJob`, `runAttempt`, `decideRetry` | runs every processor | a passing failure is retried, a lasting one is dead-lettered |
| Account lock, `queue/src/lock.ts` | a Redis key per account | acquire, release, expiry | guards the provider call | one call per account |
| Rate limiter, `queue/src/rate-limit.ts` | a token bucket per account | take, narrow | its refusal defers a publish | never more tokens than the capacity |
| Dead letters, `queue/src/dead-letter.ts` | a capped Redis list | record, discard | filled by `runAttempt` | nothing final is lost below the cap |
| Post lifecycle, `features/posts` | `Post.status`, variants, schedule | `transitionPost`, edits | opens and voids approval gates, cancels variants | no move the table does not have; no publication without approval |
| Approvals, `features/approvals` | `Approval` rows per gate and round | open, decide, void | called by, and calls, `transitionPost` | a gate is answered once, by a decision about the current round |
| Scheduling, `features/scheduling` | `scheduledFor` of post and variants | schedule, reschedule, unschedule | decides what the sweep finds | a moved post goes out at its new instant only |
| Notifications and outbox | `Notification` rows, `emailedAt` | write, drain | written by every service | each email is sent, ideally once, and never too late |
| Webhook inbox, `worker/src/messaging` | `WebhookEvent.processedAt/attempts`, conversations and their messages | record, process, recover, abandon, fetch, reply | platform to conversations | every event is processed or given up; who waits for an answer is shown as waiting |
| Assistant, `worker/src/assistant` | a lock and a delayed job per conversation | schedule, gate, draft, send | answers a conversation the inbox fills | one reply to the last message, none after a person answered |
| Credential renewal, `worker/src/credentials.ts` | `SocialCredential` | renew under row lock | used before every provider call | a rotated token is never lost, or presented twice |
| Social connection, `features/social` | `SocialAccount`, `SocialCredential` | stage, discard, connect, disconnect, check | what the engine publishes to | an account has a credential as long as it stands; no older consent replaces a newer one |
| Account health, `worker/src/health` | `SocialAccount.status` | probe, record | stops the engine when not ACTIVE | an old verdict does not overwrite a reconnect |
| Invitations and members, `features/tenancy` | `Invitation`, `OrganizationMembership`, `WorkspaceMembership` | create, revoke, accept, change role, remove, transfer | admits people | there is an owner; seats fit roles; an invitation admits one person |
| Provider adapters, `packages/providers` | `providerRef` on the attempt | publish, resume, poll, reconcile | called by the engine in the lock | a lost answer never posts twice what the platform could have told |
| Media library, `features/media` | `MediaAsset`, `PostMedia`, the bucket | presign, complete, attach, copy, delete, serve | posts and the publisher read it | what is attached is there and fit |
| Agent and OAuth server, `features/agent` | codes, grants, tokens, `AgentAction` | consent, exchange, rotate, revoke, prepare, confirm, run | AI apps act through it | rotation does not fork; an action runs once, after it was confirmed |
| Maintenance | none of its own | deletes by age, logs stuck jobs | the engine relies on it for nothing | |

The other parts (tenancy and brands, engagement and analytics ingest, reports, inbox and
community, ideas and tasks, portal, AI, tenant scope, sessions, permissions, pages,
configuration) are listed in `PROJECT.json` with the reason each is left out: they are
rendering, conversions, wire formats, or single transactions whose order with others
does not matter.

Hard behaviours, each a row under `hazards` in `PROJECT.json`: a process that dies
between two writes of one run; a claim or a lock that expires under a holder who is
merely slow; an answer that is lost after the platform accepted the post; a check and a
write by id with another writer between them; two variants that finish at once; a job
redelivered too early; a job row that outlives its job.

## 2. Plan

| Order | Module | Models | Composes | Status |
|---|---|---|---|---|
| 1 | `PostStatus` | transition table and roll-up of `packages/core` | | done |
| 2 | `PublishEngine` | engine, claims, ledger, account lock, sweep, retries, resolution, redelivery, crashes | `PostStatus` | done |
| 3 | `PublishEngineProofs` | theorems about 2 | `PublishEngine` | every safety property of the engine's passing runs, the refinement of 4 included |
| 4 | `PublishOnce` | abstract specification: a variant is claimed, posted once at most, settled as what became of it | `PostStatus` | done, 2 refines it |
| 5 | `PostMachine`, `PostLifecycle` | abstract life of a post; `transitionPost`, approval gates, scheduling, publish-now, retries and cancellation against the sweep and the worker | `PostStatus` | done, the second refines the first |
| | `PostLifecycleProofs` | theorems about 5 | `PostLifecycle` | every property of the run `lifecycle`, refinement included |
| 6 | `JobQueue` | producers, workers, retries, stalls, dead letters and what administrators do with them | | done |
| 7 | `Inbox`, `Assistant` | webhook events, the poll, conversations and replies; the assistant that answers in them | the second extends the first | done |
| | `MessagingProofs` | theorems about 7 | `Assistant` | safety proved |
| 8 | `Outbox` | the notification job and overlapping drains | | done |
| 9 | `Accounts` | connecting, renewing, probing, disconnecting | | done |
| 10 | `Members` | invitations, memberships, seats | | done |
| 11 | `Adapters`, `AdaptersProofs` | `publish` and `reconcile` of nine platforms | | done and proved |
| 12 | `AgentAccess`, `AgentAccessProofs` | OAuth codes and tokens, confirmed actions | | done and proved |
| 13 | `RateLimit` | the token bucket under clocks that differ | | done |
| | `BackgroundProofs` | theorems about 6, 8 and 13 | those three | safety proved |
| 14 | `MediaLibrary` | one asset under requests that meet | | done |
| | `WorkspaceProofs` | theorems about 9, 10 and 14 | those three | safety proved |
| 15 | `MCServices` | a small instance of each of 6 to 14 | all of them | done |
| | `ServicesProofs` | that the services stand apart, and their types together | 15 and the proofs of 6 to 14 | done |

Every safety invariant, action property and refinement of a passing run is proved; what
is left to TLC is at the end of section 6.  A proof module stands for the components of
one part of the system, which share no variable: what it says of one needs nothing of
the others.

## 3. Modules and code

### PostStatus

Statuses are the Prisma enums.  `HumanTransitions` and `SystemTransitions` are
`TRANSITIONS` of `post-status.ts`, cancellation included; `PostStatusFor` is
`summariseVariants` followed by `postStatusFor`.  The code counts variants, but compares
the counts only with zero and with the total, so the operator speaks of which statuses
occur.

### PublishEngine

One post, its variants, and any number of workers.

| Variable | Code |
|---|---|
| `variant[v]` | `PostVariant`: `status`, `claimToken` (`token`, 0 for null), whether `claimedAt` is more than `CLAIM_TTL_MS` ago (`stale`), and which of its scheduled instants it has (`slot`) |
| `post` | `Post.status` |
| `row[<<v, s>>]` | `PublishingJob.state` of the row whose idempotency key hashes variant and instant; `NONE` when there is none |
| `queue[<<v, s>>]` | the row's BullMQ job as the queue has it |
| `attempts` | `PublishingAttempt`, with what the platform did about each |
| `claims` | the source of fresh claim tokens (`newId`) |
| `lock[a]` | Redis key `lock:account:<id>` |
| `pc[w]`, `run[w]` | where worker `w` is in `publishVariant`, and its local variables |
| `order` | what a person's handler has read and not yet written |

A worker's actions follow `engine.ts` from top to bottom:

| pc | Actions | Code |
|---|---|---|
| `idle` | `ClaimVariant`, `TakeOverClaim`, `NotClaimable` | `claimVariant` |
| `claimed` | `Load`, `LoadRefused` | `loadPublishSubject`, `markPostPublishing` |
| `reconcile` | `ReconcileUnknown` | `reconcileUnknownOutcome` |
| `ready` | `AcquireLock`, `Defer` | `withLock`, `takeToken`, deferral |
| `locked` | `OpenAttempt` | `openAttempt`, written before the call |
| `calling` | `Accepted`, `Refused`, `TimedOut` (and the platform's `Land`) | `provider.publish` |
| `unsure` | `ReconcileTimeout` | `classifyAndMaybeReconcile` |
| `close` | `CloseAttempt` | `closeAttempt`, then the lock's release |
| `apply` | `Settle`, `Retryable` | `applyOutcome` |
| `settled` | `SettleRow` | `updateJobState` |
| `roll`, `write` | `RollUpRead`, `RollUpWrite` | `rollUpPost` |
| `pend`, `requeue` | `PendRow`, `Requeue` | the deferred job is enqueued again |
| `reject`, `throw` | `Reject`, `Throw` | `publishVariant`'s catch |

The steps follow the engine's database statements, so that anything may happen between
two of them, but some take several together, and in the model nothing comes or dies in
between: `claimVariant` (an update, and on failure a read and the update that takes
over); `Load` (the reads of `loadPublishSubject`, `markPostPublishing`,
`findInFlightAttempt`); `AcquireLock` (the lock and the token of the rate limiter);
`OpenAttempt` (the row's move to RUNNING and the new attempt); `CloseAttempt` (the
attempt and the lock's release); `ReconcileUnknown` (the question and the closing of the
orphan it is about).  Statements inside one `withTenant` of the web application are one
step, unless the fault `race` is on.

The environment is switched on by constants, so that each run says under which faults
its properties hold:

* `CrashPoints`: the pc values at which a process may die.  BullMQ hands the stalled job
  out once more (`maxStalledCount: 1`).
* `"db"`: a write fails.  `"late"`: a platform makes a post after its caller has given
  up and asked.  `"slow"`: a run outlasts its claim or its lock. `"race"`: what a
  person's handler has checked may change before it writes.

### PublishOnce

What the engine promises to those who see neither claims nor workers.  Its state is the
status of each variant (`StatusOf` in the engine) and how many posts of it the platform
has (`PostsOf`, the attempts whose call landed).

| Action | In the engine |
|---|---|
| `Claim` | `ClaimVariant`, of a SCHEDULED variant; `TakeOverClaim` leaves the variant PUBLISHING, a stutter |
| `Post` | `Land`: only of a variant that is PUBLISHING, and only if there is no post of it |
| `GiveBack` | `ReleaseClaim`, in `Defer`, `Retryable`, `Reject` and `Throw` |
| `Settle` | `Settle`: PUBLISHED only if there is a post, FAILED only if there is none, NEEDS_REVIEW in either case |
| `Again` | `CommitOrder`, `RetryFailed`, `RetryJob`: never a variant that is PUBLISHING, PUBLISHED or parked |
| `Answer` | `Resolve`, by somebody who has looked |

`GiveBack` may leave a variant SCHEDULED that has a post: its worker died after the
platform had accepted it, and the run that took over gave it back before it could ask.
That no `Post` follows the next `Claim` is what the ledger and the reconciliation are
for.

### PostMachine and PostLifecycle

`PostMachine` is what the other parts may rely on: a post's status moves along the
transition table only, and an approval gate is open exactly while the post is in the
review that gate belongs to.  `PostLifecycle` is how the services keep that promise, or
do not.

| Variable | Code |
|---|---|
| `post` | `Post`: `status`, `scheduledFor` (`at`, 0 for null), whether both flags of `clientApprovalRequired` are set (`required`), the version of the content, and which version was last approved (in no row; properties read it) |
| `variant[v]` | `PostVariant`: `status`, `scheduledFor`, `contentHash` (as the content's version), and the job that last claimed it |
| `approvals` | `Approval` rows in the order they were created: stage, state, round |
| `pending[p]` | the request of person `p` between the two transactions of `transitionPost` |
| `rows`, `queue` | `PublishingJob` rows and waiting BullMQ jobs, by idempotency key: variant, instant, hash |
| `now` | the clock |

| Actions | Code |
|---|---|
| `Transition`, `DecideApproval`, `SchedulePost`, `PublishNow`, `UnschedulePost` | the endpoint and the four services that call `transitionPost`; each is a request record given to `TransitionPost` |
| `TransitionPost` (`Allows`), `CommitRequest` (`Lands`, `Commit`) | its two transactions: what the first checks, what rolls the second back, and all the second writes, with the caller's callback and the bookkeeping of gates |
| `UpdatePost`, `ReschedulePost`, `RetryFailedVariants`, `RetryPublishingJob` | the handlers that do not go through `transitionPost` |
| `Sweep`, `Claim`, `Settle`, `Defer` | the worker as far as a post can see it; its inside is `PublishEngine` |

A kind of request named in `Racing` is taken in two steps, any other in one.
`PlainMoves` are the statuses the bare endpoint is asked for, `Reschedules` and
`Exemptions` say whether posts are dragged about and whether an approver may change
`approvalRequired`.

### JobQueue

| Variable | Code |
|---|---|
| `jobs` | BullMQ's jobs: name, payload, state, how often stalled |
| `letters` | the dead-letter list of `dead-letter.ts` |
| `hands` | what each worker process is doing in `runAttempt` |
| `desk` | the letter an administrator is driving again |
| `chains` | in no code: one request and every job it leads to, for the properties |

`Produce` is `enqueue`, which adds nothing while a job of that name is held and passes
the payload through the task's schema.  A worker step is a step of `runAttempt`: it
takes a job, parses it, runs the processor, and on an error does what `decideRetry`
says: re-enqueue with a delay, or record a dead letter and give up.  `JobDies` is a
process that dies with a job in hand, `ReclaimStalled` BullMQ's check, which hands a job
out once more and fails it the second time.  `RetryJob` and `DiscardRetried` are the two
statements of an administrator's retry.

### Inbox and Assistant

| Variable | Code |
|---|---|
| `thread` | the conversation as the platform has it: who sent each message |
| `hooks`, `hookJobs` | `WebhookEvent` rows and the jobs that wait for them |
| `messageRows`, `conversation` | `SocialMessage` rows and the `SocialConversation` row |
| `readings` | transactions of `recordMessage` that have read and not yet written |
| `replying` | a colleague's reply between the send and the record |
| `assistantJobs`, `runs`, `runLock` | delayed jobs, `runAssistant`, its Redis lock |

A message is recorded in two steps, because `recordMessage` reads the conversation,
without a lock, and then writes what it worked out; jobs of the webhook queue, the poll
(`Backfill`) and a colleague's reply (`SendReply`, `RecordReply`) may come between.
`Requeue` and `Abandon` are the sweep's.  A job may also find nothing to record, without
anything failing: the payload cannot be read back, no connected account has the id, or
the ingest answers SKIPPED (`webhooks.ts:68-94`, `ingest.ts:274-275`).  `Process` then
goes to the mark directly (`ToMark(m, FALSE)`).  `MarkProcessed` scrubs the payload in
either case, and notes the event in `unplaced` when nothing was stored.  `Assistant`
brings a message in in one step, and adds the run: the lock, the first gate, the model,
the second look at conversation and gate, the send and `recordSent`.  The lock expires
under a slow model (`LockExpires`), and customers, echoes and colleagues move at any
time.

### Accounts

One `SocialAccount` row, its `SocialCredential` as a consent and the number of times it
was renewed, and the platform's side of both (`issued`).  `hand[h]` is a request or job
on its way: a renewal (`LockRow`, which is `SELECT ... FOR UPDATE` and reads again;
`AskPlatform`; `StoreRenewed`, or the transaction is lost after the platform has
answered), a staging, discard, connection or disconnection, or a probe with its verdict.
The worker compares a verdict with the status it reads again in the transaction that
writes, without a lock (`record.ts:49-65`), the web app with the one it read before the
probe; both are here.

### Members

People, memberships, seats and invitations as rows with ids.  A request reads its
principal (`Authenticate`), then what its guards need (`Asks`), then writes (`Commit`),
in three steps with others in between, since the code's `withTenant` transactions are
READ COMMITTED and the guards are counts.  `Commit` writes the command's rows by id, as
the code does, cascades included.

### Outbox

Rows are numbered in the order of `createdAt`.  `Notify` is the notification job, which
writes its rows in a transaction and may be run again after it; a drain reads a batch
(`ReadOutbox`), stamps what is too old, sends one email at a time and stamps it.
`RefuseEmail` leaves the row for a later drain.  Drains overlap and die; a stamp fails.

### Adapters

One variant whose content may change between attempts, on one of the kinds of post in
`Calls`. `work.todo` holds the calls `publish()` has still to make, in order: `create`,
`record`, `await`, `publish` and so on; `Calls[Kind]` is that order for each platform
and kind, read off its `provider.ts`.  `ref` is the `providerRef` that
`recordProviderRef` has made durable, `handles` what the platform made for us, `posts`
what is public.  An attempt resumes the recorded handle where the adapter does
(`Resumes`: made for the same `contentHash`, and for X not expired), and what comes after
a lost answer is the adapter's own classification: repeat, fail, or ask (`WhenLost`).

`Reconcilings` gives the verdicts each adapter may come to: by the handle, by the text
of recent posts, or by one and then the other.  A post is found by its text alone:
Facebook, Instagram, LinkedIn and Threads compare the body, YouTube and Pinterest the
title or first line (`youtube/provider.ts:631`, `pinterest/provider.ts:765`), X the text
recorded last (`x/provider.ts:604-612`).  None compares the content hash, so
`OnTimeline` finds this attempt's post where it is there and reads like what is sought
(`Expected`), and otherwise any readable post of the account's recent ones, that of an
older content included, or none.  `Unread` is what is said when the handle could not be
asked about: Instagram and Threads go on to the timeline (`instagram/provider.ts:1171`,
`threads/provider.ts:659`), a TikTok job that TikTok does not know counts as never
having landed (`tiktok/provider.ts:921`), and the others leave it to a person.  Each
verdict carries what the adapter could not see when it came to it (`blind`).

Three things are simpler than the platforms are: posts of other variants, or made by
hand, that read alike; a post that lands after its caller has given up and asked, which
only jobs do here (in `PublishEngine` it is the fault `"late"`); and the lag of the
timeline, which is per post.

### AgentAccess

Every database statement of `oauth.ts` and `actions.ts` is a step, since they run
outside a transaction: read the code, claim it (compare and set on `usedAt`), create the
grant, issue the pair of tokens; read a refresh token, claim it, issue the next; or find
it used and revoke the grant.  A click claims the action (PENDING to EXECUTING), checks
the grant, makes the call (`RunCall`), writes the outcome.  The route may refuse the
call; or do what was asked, while its answer is lost or an error.  EXECUTED is written
inside the `try` (`actions.ts:277-302`), so that a failure of that write
(`ExecutedIsLost`) leads to the catch as well, which writes FAILED.  Requests die
between any two statements.

### RateLimit

`TakeToken` is the Lua script with the caller's clock as its input: any instant within
`MaxSkew` ahead of `redisTime`.  Tokens are counted in parts of 1/`RefillWindow`, which
makes the refill exact.  The key expires as `PEXPIRE` says.

### MediaLibrary

One asset: `PresignMediaUpload`, `UploadFile` (the browser's PUT, with a file that
passes the checks or one that does not, as often as it likes and whatever the row says,
until `UrlExpires`: the URL is good for 900 s and bound to the key alone), two requests
that complete it, each in the steps of `completeMediaUpload` (read, verify, write; on
refusal write and erase), posts that find it READY and then attach it, copies of posts,
a deletion that counts and then writes, and `ServeMedia`, the URL which the publisher
hands to a platform: it looks at READY (`subject.ts:160`) and gives whatever is in the
bucket (`handed`).  The reads `verifyUploadedObject` makes of the object are one.

### MCServices

The services share no variable but those of `Assistant` and `Inbox`, so a product of all
of them would only multiply their states.  `focus` chooses one at the start; the others
stand still.  The bounds there are on requests, on how often something fails and on what
the environment does; none keeps what a fairness condition is about from going on
(`AccountBound` lets every step through that neither begins a consent nor loses a
transaction nor ends a consent).

## 4. Runs

| Run | Instance | Shows |
|---|---|---|
| `engine_retries` | 1 variant, 2 workers, 3 instants, 4 claims | with atomic handlers and no crash, every sequence of retries, publish-now, answers on parked variants and platform errors is a behaviour of `PublishOnce`, and every status is true |
| `engine_shared` | 2 variants on one account, 2 workers, 4 claims, crashes | the same under crashes anywhere but between closing the attempt and settling; one call per account at a time; the post settles once, into the status its variants imply |
| `engine_fencing` | 1 variant, 2 instants, 2 workers, 2 claims, `db` and `slow`, crashes anywhere | a worker whose claim was taken over neither ends nor settles its successor's, and outcomes stand |
| `engine_progress` | 2 variants on 2 accounts, 3 claims, `race`, fair | every claim ends and a settled set of variants settles its post |
| `engine_store_failure` | `db` | finding 1 |
| `engine_dead_worker` | fair, a crash in the call | finding 2 |
| `engine_reconnected` | 1 variant | finding 3 |
| `lifecycle` | 1 variant, 2 people, 2 instants, 3 gates, 2 versions, every move, decisions in two steps | the post follows `PostMachine`; no answer is overwritten; rounds advance; what the client must approve has been before the client |
| `lifecycle_reopened` | 1 person, no race | finding 4 |
| `lifecycle_early` | 1 person, no race | finding 5 |
| `services` | each of the modules 6 to 14 in turn | 24 properties, below |
| `queue_attempts` | 1 process, 1 request of a queue with two attempts | finding 6 |

Bounds of the lifecycle.  Two people, because a late decision needs one other person who
moved the post.  Three gates: an internal review, its client's review, and the internal
review of the next round.  Two instants, so that a job can outlive the instant it was
made for; two versions, the approved one and another.  One variant: what one variant
does to another of the same post is in `PublishEngine`.  Only decisions are taken in two
steps here: with two moves racing, the refinement fails (below).

Bounds of the engine.  `MaxClaims` bounds the claims of a behaviour; a double
publication needs two, a takeover of a takeover three, and the fourth lets a retry
follow. `MaxSlots` bounds the instants a variant is scheduled for; three allow two
retries, so that a retry can follow a retry.  Two workers suffice because a claim has
one successor at a time: a third worker can only take over from the second what the
second took from the first, which the claim bound, not the number of workers, would have
to allow.  Deadlock is not an error: when every variant has settled and the bounds are
used up, the system rests.

Fairness (`FairSpec`, only in `engine_progress` and `engine_dead_worker`): the sweep is
a repeatable job that BullMQ fires every minute; a worker that is running takes jobs and
goes on with the one it has (`WF` on `Take` and `Step`, per worker); time passes, so a
claim and a lock nobody ends do expire.  Nobody is obliged to press a button, and
nothing is obliged to fail.  Which of two answers a platform gives is left open.

### Findings

1. **A failed write after an accepted post** (`engine_store_failure`). `closeAttempt`
   for a successful publish is inside the `try` whose `catch` classifies provider errors
   (`engine.ts:312`); a database error there counts as retryable, the attempt is closed
   as FAILED and the variant is published again.
2. **A dead worker's variant** (`engine_dead_worker`).  The job of a dead worker is
   redelivered after `lockDuration`, two minutes; `claimVariant` takes a claim over
   after fifteen.  The redelivered job finds the claim fresh, returns, and is gone; no
   sweep selects a PUBLISHING variant, and `reconcileStuckJobs` only logs.
3. **A job that ran while the account was not ACTIVE** (`engine_reconnected`).  The
   error is final, the variant is SCHEDULED again, and its job row remains; every later
   sweep takes the row for another sweep's and enqueues nothing, though the comment says
   the next sweep will pick it up.

4. **A retried job of a post that was pulled back** (`lifecycle_reopened`).
   `retryPublishingJob` looks at the variant and not at its post
   (`features/publishing/service.ts:283-308`): after publish-now, `unschedulePost` and
   an edit, retrying the old job publishes content nobody approved.
5. **A queued job of a post that was moved** (`lifecycle_early`).  `reschedulePost`
   relies on the claim to find that the variant moved; `claimVariant` compares neither
   instant nor key, so the job publishes at once.

6. **Attempts that are never counted** (`queue_attempts`).  `runAttempt` puts the count
   of attempts into the payload it enqueues again; `enqueue` parses that payload with
   the task's schema, which does not declare the key and drops it.  Every retry is
   attempt 1: its delay never grows and `MAX_ATTEMPTS` is never reached.

Switching other constants of `PublishEngine` on shows further ways to lose one of the
properties. Each is a hazard in `PROJECT.json`: with `apply` in `CrashPoints`, a
takeover asks the platform about its own claim's instant, outside the window in which
the post was made, and `AtMostOnce` fails; with `"late"`, `NOT_FOUND` right after a
timeout is not final; with `"race"`, a retry overwrites the variant a worker has just
published, so that neither `OutcomesStand` nor `ClaimEndedByHolder` holds; with `"slow"`
and three instants, a retry's job takes over the claim of a run that is only slow and
does not find the attempt which that run has open on another row; with `ABANDON` in
`Resolutions`, a parked variant that did go out becomes FAILED, which a retry takes for
a refusal, so `StatusTellsTheTruth` and `AtMostOnce` fail; with `MaxSlots = 2` and
crashes in the call, a retry has a new job row and the attempt left IN_FLIGHT on the old
one is not looked for; with `settled` in `CrashPoints`, `PostSettles` fails; and with
`NOT_PUBLISHED` in `Resolutions`, `ScheduledGoesOut` fails even without a rejected job,
because the answer makes the variant SCHEDULED on a post that is not.

The same holds of `PostLifecycle`.  With `"move"` in `Racing`, `ImplementsMachine`
fails: a submission that was checked before a cancellation commits after it, and two
submissions open two gates.  With `"SCHEDULED"` and `"DRAFT"` in `PlainMoves`,
`OnlyApprovedContent` has further counterexamples: a FAILED post may be edited and
scheduled again, and a bare pull-back leaves the variant SCHEDULED with its job in the
queue.  With `Exemptions`, an approver may require the client's approval between the
check and the write of APPROVED, and `ClientSawIt` fails.  `retryPublishingJob` also
accepts the FAILED or CANCELED variant of a cancelled post, and enqueues whatever else
is SCHEDULED on the post ahead of its instant.

### The run `services`

| Service | Instance | Properties |
|---|---|---|
| queue | 2 processes, 1 administrator, 2 requests out of 3 tasks (one of one attempt, one unreadable), 1 death, 1 failure each | `OneRunPerChain`, `ChainsEnd` |
| inbox | 2 messages, 2 jobs at a time, 1 colleague, 1 failure | `ProcessedMeansStored`, `WaitingIsShown`, `EventsEnd` |
| assistant | 2 runs, up to 4 messages and interventions in all | `SpeaksInTurn`, `EchoIsNotAPerson` |
| accounts | 2 requests at a time, 2 consents, 1 renewal each; 3 of consents, lost transactions and ended consents | `TokenUsedOnce`, `NeverSilentlyBroken`, `NewestConsentKept`, `StaleVerdictHeals` |
| members | 3 people, 2 requests at a time, 4 in all, 2 invitations | `OwnerRemains`, `SeatsFitRoles`, `AdmitsOnce` |
| outbox | 2 drains, 3 emails, batches of 2, 1 address that is always refused, 1 fault | `EmailedOnce`, `MailSettles` |
| adapters | every kind of post, short texts on two platforms, 2 attempts, 2 contents, 2 faults | `OncePerHandle`, `OnlyWhatWasWanted`, `TrueUnlessMisled` |
| agent | 1 code, 3 pairs of tokens, 2 token requests, 1 action, 2 clicks, 1 lapse | `RotationNeverForks`, `ActionRunsOnce` |
| rate | 2 tokens in a window of 3 ms, 12 ms, clocks 1 ms apart | `BudgetKept` |
| media | 2 completions, 2 posts, 1 fault | `AttachedStands` |

`ServicesTypeOK` is the conjunction of their type invariants.

Bounds.  Every race here is between two: two runs of a stalled job, two completions, two
drains, two requests that both counted the owners, a renewal and a reconnection.  Two of
each kind of actor suffice for it, and one fault, since each of the properties speaks of
what one fault may excuse.  Three emails and a batch of two make a batch that does not
hold all; three pairs of tokens allow a rotation of a rotation.  In the inbox, two
messages are an old and a new one.  `MembersBound` looks no further once two requests
have crossed, where the properties promise nothing.

Some properties are excused where the code itself promises nothing.  The excuses are
variables that the actions set (`excused`, `raced`, `usurped`, `undercut`, `overlapped`,
`retold`, `unclear`, `rewound`, `crossed`, `putAgain`, `unanswered`, `unplaced`), and
each names a race, a fault or a case that really undoes the property:

* **Queue** (`jobDeaths`).  A job that stalls twice goes to BullMQ's failed set with no
  dead letter, and nobody hears of it: with two deaths `ChainsEnd` fails, so the
  instance has one.
* **Inbox** (`unplaced`).  An event for which a job found nothing to record is marked
  processed, and its payload scrubbed, with no message stored (`webhooks.ts:95-103`; the
  comment at `:121-126` names the SKIPPED case).  This may happen to an account that is
  connected again a minute later.  `ProcessedMeansStored` says that no failure or death
  does the same.
* **Inbox** (`excused`).  Two transactions that read the conversation before either
  wrote: the later write may put HANDLED over a message it has not seen
  (`ingest.ts:114-250`).  The deletion of a message that arrives before the message
  leaves the text stored (`:177-187`).  `syncConversations`' `since` is one for the
  account, so a conversation may be skipped.
* **Assistant** (`unheard`).  `recordSent` marks the conversation HANDLED whatever came
  in since the last look (`run.ts:404-416`), and puts back an older `lastHumanReplyAt`.
  A run that dies after its send is repeated, and answers again.
* **Accounts** (`undercut`, `overlapped`).  `connectAccounts` looks neither at
  `deletedAt` nor at REVOKED, so an account disconnected meanwhile becomes ACTIVE
  without a credential, and staging over it leaves a credential nobody deletes;
  `discardStagedAccounts` reads DISABLED and deletes by id; the web app's check compares
  its verdict with the status read before the probe, so that two checks may tell people
  nothing.
* **Members** (`raced`, `usurped`).  Two owners who demote each other at once leave no
  owner (`members.ts:23,122`): each counts the other.  A former owner whose principal
  was read before can still transfer the ownership (`:186-252`).  Two invitations of one
  person made at once are both pending.  `raced` is set by any two requests of which one
  writes between the other's read and write, and stays set: `OwnerRemains` and
  `SeatsFitRoles` say what sequences of commands do, stale principals included, and
  nothing of commands that overlap.
* **Outbox** (`retold`).  Two drains that read the same row, or a stamp that was lost,
  email twice.  With as many refused addresses as a batch holds, nothing newer is sent
  until they are old (`outbox.ts:82`): `OutboxAssumption` has fewer.
* **Adapters** (`unclear`).  On TikTok a 5xx while polling is retryable and starts a
  second job, though the comment above says that retrying there "would publish the same
  video twice" (`tiktok/provider.ts:836-858`); TikTok and Bluesky reconcile ask about
  the last recorded handle, which may be an older attempt's; an error after the effect
  is taken for a refusal (`torn`, `stale`); a short body with hashtags does not read
  like the post, and recent posts lag, so that it seems to be missing
  (`content-hash.ts:48`; `hidden`) and is posted again.  After an edit, the post of the
  older content may read alike, or answer to the text X recorded, and is then recorded
  as this content's (`alike`).  TikTok's validation error counts as NOT_FOUND although
  the job may run (`unread`).  A person may be wrong (`person`).  On Pinterest the media
  id is recorded before the upload, and a failed upload is never sent again.
* **RateLimit** (`rewound`).  `updatedAt` is the caller's clock, and may go back; what
  was refilled in between is refilled again.
* **MediaLibrary** (`putAgain`).  Until the presigned URL expires it puts other bytes
  under a key that was verified, and nothing verifies them again: a file that fails the
  checks can then be attached and published.
* **MediaLibrary** (`crossed`).  Of two completions of one upload one may make it READY,
  while the other fails and erases the bytes, though the comment says "Completing twice
  is not an error" (`service.ts:271`); a deletion counts attachments and deletes without
  a lock.
* **AgentAccess** (`unanswered`).  An action that ran ends FAILED when the answer of its
  call, or the write of EXECUTED, was lost (`actions.ts:290-295`); its person may have
  it prepared and run again.  `RotationNeverForks` needs no excuse, but its price is
  paid by the client: a request that dies between claiming a refresh token and issuing
  the next makes the client's retry a reuse, which ends the grant; and an action whose
  request dies stays EXECUTING, for good.

Fairness of `services`: a worker that is running goes on with its job, and BullMQ's
check for stalled jobs is made again and again (`JobProgress`); the jobs and sweeps of
the inbox are made again and again (`InboxProgress`); a request on an account ends
(`TaskEnds`, per request), because it holds no lock another waits for longer than its
transaction's time-out; the notification job runs and each drain goes on.  The hourly
probe gets strong fairness (`SweepProbes`): people may keep connecting and disconnecting
in between, but the sweep comes again each time the account can be probed.  Deadlock is
not an error in either run: with the bounds used up, the system rests.

## 5. Assumptions about what is outside

* A platform that answers with an error the adapter classifies has not made the post,
  and one that has answered success has.
* `reconcile` tells the truth about the window it is asked about, unless `"late"`: a
  post may appear later.  Accounts outside `Reconcilable` cannot be asked.
* A person who answers a parked variant PUBLISHED or NOT_PUBLISHED has looked.
* BullMQ runs a job once, except for a stalled one, which it hands out again; it keeps
  one job per name, whatever became of it, until the record is trimmed.
* A message has one external id, the same in the webhook, in the poll and in the answer
  to a send.
* An OAuth server that rotates refresh tokens accepts each once, and ends the consent of
  whoever presents one again.
* A platform that takes a container, a media id or a record key publishes each at most
  once.
* The object store keeps what it accepted until it is told to delete it, or the same
  presigned URL puts another file in its place.
* Redis runs a script at once; the callers' clocks agree within one refill window
  (`RateAssumption`).

## 6. Proofs

### PublishEngineProofs

* `TypeCorrect`: `Spec => []TypeOK`.  `TypeOK` is inductive; its last conjunct (a busy
  worker has a job and a token, and an outcome or a target where it is about to write
  one) is what makes it so, since the actions write those fields into typed variables.
* `LockExcludes`: if `"slow"` is not among the faults, `Spec => []OneCallPerAccount`.
  The property is not inductive: it does not say that a worker in the call still holds
  the lock.  `LockInv` adds that (`CallerHoldsLock`) and that two busy workers never
  have the same claim token (`TokensDistinct`), without which the compare-and-delete of
  one would free the lock of another.

* `ClaimsAreFenced`, `OutcomesDoStand`: if `"race"` is not among the faults, `Spec`
  implies `ClaimEndedByHolder` and `OutcomesStand`, with slow workers, failing writes,
  late posts and crashes anywhere.  `TokenInv` adds to the types that only a PUBLISHING
  variant has a token and that no person's order is half done; `ClaimSteps` shows that a
  step leaves a variant's claim alone, takes it, ends it as its holder, or is a person's
  move of a variant nobody has claimed.

* `PostDoesSettleOnce`: `PostSettlesOnce`, if nobody gives an order while the post goes
  out (`LeftAlone`: one instant, and no answer on a parked variant), whatever is among
  the other faults and wherever processes die.  `SettleInv` adds to `TokenInv` that who
  is about to write the post's status read it in PUBLISHING, when every variant had an
  outcome, and that what they made of the outcomes still holds (`RollUpKnows`).  A
  status with an outcome does not change (`OutcomesAreFinal`, from `ClaimSteps`), and
  the table has no way for a worker into PUBLISHED, PARTIALLY_PUBLISHED or FAILED but
  from PUBLISHING (`RollUpMoves`).  The condition is needed: with two instants TLC finds
  a `RetryJob` of a failed variant between the read and the write of the roll-up, which
  makes a post FAILED whose variant is SCHEDULED again.  The compare on the post's
  status does not see that, because `retryPublishingJob` leaves it as it is.

Besides `EngineAssumption` these need only the assumption named, for every number of
workers, variants, accounts, claims and, but for the last, instants.

`PostedAtMostOnce` and `StatusIsTrue`: if `Withstood`, then `Spec => []AtMostOnce` and
`Spec => []StatusTellsTheTruth`.  `Withstood` says that the only fault is a process that
dies; that it dies neither between closing its attempt and settling nor, if a variant
may have a second instant, in the call; and that nobody abandons a parked variant.
Section 4 says what TLC finds without each of these.

Neither property is inductive.  `OnceInv` is `LockInv` and four facts:

* `HoldsFresh`: a run between claiming and settling holds its variant's token, and the
  claim is not stale.  So a variant has one such run (`HolderAlone`).
* `OpensOne`, `Knows`: that run's row has one IN_FLIGHT attempt while it is in the call
  and none where it has established what became of the last; what it takes for the
  outcome is what happened.
* `AttemptOK`: an open call has somebody who waits for it.  An IN_FLIGHT attempt belongs
  to a run in the call, or every run of the variant has the same row, so that a takeover
  finds it.  A landed attempt that is no longer IN_FLIGHT (`Remembered`) has its variant
  PUBLISHED or parked, or a run about to make it so.
* `VariantOK`: the statuses are true, at most one attempt of a variant landed, and a row
  has at most one IN_FLIGHT attempt.

A step concerns one variant and at most one worker.  `ElsewhereNothing` says that it
keeps `OnceInv` if it keeps what `OnceInv` says of these two, and each action has a
lemma that shows this; actions with the same effect share one (`NothingWritten`,
`CallEnds`, `StatusMoves`).

`EngineImplementsOnce`: if `Withstood`, then `Spec` implements `PublishOnce`.  Beyond
`OnceInv` it takes two facts about what the mapping counts: a variant's landed attempts
are one or none (`PostsCounted`), and a call that landed stays so, whatever its attempt
is closed as (`LandedStays`).  A worker's step then moves one status (`OneStatusMoves`)
or adds one post (`LandPosts`), or neither, and each action is matched with the step of
the table in section 3: `RunEnds` for what ends a claim, `OrderSendsAgain` for what a
person's order sends out, `TakeImplements`, `StepImplements` and `PersonImplements` for
the disjuncts of `Next`.

### PostLifecycleProofs

The proofs see a step in two ways only (`StepShape`): it leaves the approval records
alone, moves the post at most where the worker may, and starts requests that are allowed
now; or it commits one request, whether that was checked just before (`Fresh`) or long
ago (`pending`).  `Bookkeeping` and `CommitRecords` say what a commit does to the
records: the answered one is stamped, open ones are closed when a review is left, one is
appended when a review is entered.

* `TypeCorrect`: `Spec => []TypeOK`.  `TypeInv` adds what a commit relies on without
  checking it: a request under way names a record that exists and a move the table has
  (`RequestsFit`), a variant that is SCHEDULED has the instant and the hash that make a
  key (`JobsFit`), and rounds are in order (`RoundsOrdered`, from which `RoundsAdvance`
  follows).
* `AnswersStand`, `RoundsDoAdvance`: `DecisionsStand` and `RoundsAdvance` whatever is in
  `Racing`.  The compare-and-set on PENDING, and records that are only appended, are
  enough.
* `LifecycleImplementsMachine`: `Spec` implements `PostMachine` if `Racing` has nothing
  but `"decide"`.  `GateInv` adds to the refinement that one gate is open exactly in a
  review (`OneGate`), and that a decision under way answers a gate of the review it was
  checked in (`DecisionsAim`).  By these, a decision that still finds its gate PENDING
  finds the post where it was checked (`OnTime`), so its unconditional write of the
  status is a move of the table; any other is rolled back.
* `ClientAlwaysSawIt`: `ClientSawIt`, if in addition `Exemptions` is FALSE.  `ClientInv`
  adds that no request under way goes from the internal review straight to APPROVED on a
  post the client must approve, and names the statuses a post can have before its client
  has seen it.

Both assumptions are needed: section 4 says what TLC finds without them.

### BackgroundProofs

Of the queue, `OneRunAtATime` and `JobTypeCorrect`.  `OneRunPerChain` counts what runs,
which a step that hands out a waiting job increases.  `JobInv` counts instead what the
request still has (`LiveJobs`: the jobs that wait or run, but not one whose process has
only to acknowledge it) and bounds that by one and one for each death (`OneLiveJob`). It
needs that a job is in one process's hands, and, if nobody died, in somebody's
(`HandsAreApart`), and that after an outcome that is open every job the request has left
is being dead-lettered (`OpenIsLettered`), so that no later attempt comes of it.

Of the rate limiter, `BudgetIsKept` and `BucketCorrect`.  `RateInv` adds to the types
the budget in full (`Accounted`: calls taken and tokens left together fit the burst, the
time up to `updatedAt` and what was rewound), that a key which Redis dropped would have
been full (`DroppedIsFull`, by `BucketTtl >= 2 * RefillWindow` and
`MaxSkew <= RefillWindow`, the code's `max(2 * window, 60 s)`), and that the last
promise of a refusal stands (`PromiseStands`).  The budget alone is not inductive: it
does not say how many tokens are left.

Of the outbox, `EachEmailOnce` and `OutboxTypeCorrect`.  A stamp is true
(`StampsAreTrue`); a row that no two drains held and whose stamp was not lost is held by
at most one drain, was sent at most once, and if it was sent and not stamped then a
drain is just about to (`HeldOnce`, `JustSent`).  A drain reads the first rows of a set,
no more than a batch of them (`FirstAreFew`), and from then on only lets go of what it
holds (`BatchesShrink`).

### MessagingProofs

* `ProcessedIsStored`, `WhoWaitsIsShown`.  `WritersKnow` is what `InboxInv` adds: who
  has read the conversation and not yet written it, and who has sent a reply and not yet
  recorded it, knows of every message that nobody is excused for (`Outstanding`).  So
  the write by id, which comes later than its read, does not hide one.  `MarkedIsStored`
  adds that a job about to mark an event has stored its message, or has looked and found
  no place for it; from a failure there is no way to the mark.
* `TurnsAreKept`, `EchoIsCorrected`, `AssistantTypeCorrect`; and
  `InboxHoldsWithAssistant`: the two properties of the inbox hold with the assistant in
  it, whose actions are more than the inbox's own.  `AssistantInv` is `InboxInv` and
  what a run knows between its look and its send.  `GateTellsQuiet` ties the column the
  gate reads to what people did; `RunsKnow` carries that to the second look.  As long as
  nothing failed (`Undisturbed`) one run has the lock, the customer has spoken since the
  assistant last did (`InTurn`), and a message of the assistant's is recorded or its run
  is about to record it (`RecordedOrBy`), without which its echo would count as a
  person's.

### WorkspaceProofs

* `AnOwnerRemains`, `SeatsDoFit`, `InvitationsAdmitOnce`, `MembersTypeCorrect`.  The
  guards of a request were right when they were read.  `AloneIsGrounded` says that they
  are still right when it writes, if nothing was committed in between: then the last
  owner has another beside them, and a seat is of the kind of the role.  `RequestOK` is
  what each request carries from its read to its write.
* `TokensUsedOnce`, `NothingSilentlyBroken`, `NewestIsKept`, `AccountTypeCorrect`. Who
  asks the platform holds the row and what they read is there (`HolderHasTheRow`); a
  consent on its way into the database is nobody else's (`ConsentsApart`); and unless a
  transaction was lost the platform has issued what the row has, or one more that its
  renewal is about to store (`IssuedIsStored`).
* `AttachmentsStand`, `MediaTypeCorrect`.  `UsesHeld` says that who has found the asset
  READY, and has not written, is right unless something crossed; `Alone` that a
  completion under way is the only one then; `UnfitHeld`, whatever crossed, that until a
  file is put after a completion had begun, what is in the bucket of a READY asset has
  passed its checks.

### AgentAccessProofs

`OneRefreshToken`, `RunsOnce`, `AgentTypeCorrect`.  `TokenInv` says who holds what
between two statements of a request: a caller who claimed a code or token is the only
one (`ClaimsHold`), and all tokens and requests of a grant are one line (`OneLine`): one
unused token, or one request about to issue it.  `ActionInv` says the same of an action
and the click that claimed it (`OneHand`): the call was made once if the click is past
it, and an action that ran is FAILED only if it is among the `unanswered`;
`WithdrawnHeld` that a click on an action
whose grant had ended has not got past the check.

### AdaptersProofs

`PostsWhatWasWanted` for all platforms and `PostsOnce` for those that publish a handle
once.  `AdapterInv` says what a handle, the reference and the attempt have to do with
each other: a handle was made for the content the attempt then had (`MadeFor`), no
handle is posted unless it is recorded, and none is made for a content that has one
recorded (`PostedOnce`), which needs to know how far the attempt is between `create` and
`record` (`HowFar`).

`NothingLeadsAstray` is `TrueUnlessMisled`, for all platforms and both texts, and
`AdapterTypeCorrect` the type invariant.  `TruthInv` rests on `AdapterInv` and adds:

* `OnPlan`: what an attempt has still to do is what is left of its platform's order of
  calls.  Of two orders only that much matters: a TikTok job is created first and waited
  for last, and every other ends in the one call that publishes.
* `PostsCome`: a public post is a handle's and has its content, and a handle that was
  posted has one.
* `Unmisled`, as long as nothing misled an attempt: a variant that rests to be posted
  has left no trace of its content, neither a post nor a job that may still make one
  (`Nothing`); nor has an attempt before the call that posts; what an attempt asks about
  is its own; and of jobs one is out at most, the attempt's, while nothing is public
  (`OneJobOut`).
* `ClaimIsTrue`, with no such condition: the post recorded is of the content that was to
  be posted, or some verdict rested on a post of another content that reads alike, or
  on a handle of an earlier attempt.
* `Signed`: as long as X has a post of the variant's content, the text recorded last is
  that content's, since it is recorded just before the call.  So X seeks by an older
  text only what is not there.

A call has the same effect whether it is answered, cut off or torn (`CallEffect`), so
each kind of call is argued once and each kind of answer once.  What `reconcile` may say
is one lemma for the nine adapters, handles that cannot be read included
(`ReconcileRests`, from `TimelineRests`): a verdict rests on a post or a handle, and is
right about this content unless it names what it could not see.

### ServicesProofs

`ServicesStandApart`: a behaviour of `ServicesSpec`, seen through one service's
variables, is one of that service's own specification, since a step of the services is a
step of the one in focus and leaves the variables of the others alone (`QueueSteps` and
its like).  The bounds of `MCServices` are in the guards of `ServicesNext`, so they only
take steps away.  The theorems about `JobQueue`, `Accounts`, `Members`, `Outbox`,
`Adapters`, `AgentAccess`, `RateLimit` and `MediaLibrary` therefore speak of what the
run `services` explores; of the outbox this is said of its steps, as the run gives its
fairness only to what is in focus.  `Inbox` and `Assistant` do share variables:
`Talking` is the invariant of the one in focus, with an assistant that never began while
the inbox is looked at alone.  `ServicesTypeCorrect` is `ServicesTypeOK` from these.

### What the proofs corrected

An invariant that TLC had accepted on the small instance, and that the proof would not
take, was wrong about a larger one:

* `NewestConsentKept` used to say that no older consent ever replaces a newer one.  That
  is so with two consents (`MaxGrants = 2`).  With three, two callbacks that overlap may
  store theirs in either order, as `connectAccounts` does not compare them; it now says
  that no renewal puts an older consent back, and that only a discard deletes a
  credential in use.
* The twelve hours after which `autoReplyGate` takes a person to be gone
  (`HumanGoesQuiet`) pass in the model only while no colleague's request is under way.
  A request that takes longer would write its older `lastHumanReplyAt` after the gate
  was asked (`replyToConversation`, `features/messaging/service.ts:312`, writes it
  unconditionally), and `SpeaksInTurn` would not hold.
* `Members` needs finitely many people, `Accounts` and `Assistant` that their free lock
  is no request's name, `Adapters` that a piece is of a kind in `Calls`: assumptions of
  the modules, which the instances had all along.

### Only model-checked

Liveness everywhere (`ClaimsEnd`, `PostSettles`, `ChainsEnd`, `EventsEnd`,
`StaleVerdictHeals`, `MailSettles`): TLAPS cannot prove it under fairness.  Every safety
property of a passing run is a theorem, some under an assumption which the theorem
names.  A property that a run refutes has a counterexample and no proof.

## 7. Not modelled

Of the engine itself: what is posted and in which words, the retry instants and their
backoff, audit rows and notifications.  The sweep creates the job row and the BullMQ job
in one step: after a failure between the two the row stays and every later sweep counts
a duplicate, which is the stranded row of finding 3 by another way.  A due instant and
one long past are the same.

Of the post's life: validation, blocking tasks and permissions, which only refuse a
request (the model lets every request through that the state machine lets through); the
variants that a change of accounts adds or removes; duplicating, assigning and deleting
a post; notifications, which are sent after the commit and change nothing here.  The
sweep's minute of tolerance and the minute's lead of a schedule are the order of the
model's instants.

Of the services: the cap of the dead-letter list and the draining at shutdown;
`cancelJob`, `applyProviderUsage` and `cleanupMedia`, which nothing in the repository
calls (the comment at `rate-limit.ts:75-90` says adapters narrow both buckets);
deletions of messages, comments, `assignConversation`; drafting and the knowledge it
reads; limits that are counted without a lock (seats, accounts, storage, AI credits), a
race each of the same shape as that of the owners; the state of the OAuth redirect;
folders, previews and file types; sign-in, discovery, analytics and wire formats of the
adapters; the tools of the agent; numbers as Redis rounds them.

Left out altogether, with the reason in `PROJECT.json`: tenancy and brands, engagement
and analytics ingest (upserts by external id), reports, the team's inbox and community
screens, ideas and tasks, the client portal, AI and copilot, retention, row-level
security, sessions, permissions, pages and configuration.  They are record keeping in
single transactions, rendering, or pure functions of their input.
