------------------------------ MODULE Accounts ------------------------------
(***************************************************************************)
(* One social account: the row, its credential, and what the platform      *)
(* thinks of it.  The web app connects, checks and disconnects it          *)
(* (features/social); both processes renew its credential before they use  *)
(* it (credentials.ts, social/service.ts); the worker probes it every hour *)
(* (health).                                                               *)
(*                                                                         *)
(* A credential is the consent it came from and how often it was renewed:  *)
(* the refresh token is spent when the platform has issued the next one.   *)
(***************************************************************************)
EXTENDS Naturals, FiniteSets

CONSTANTS
    AccountHands,   \* requests and jobs that work on the account at a time
    MaxGrants,      \* bound: consents people give
    MaxRenewals,    \* bound: renewals of one consent
    MaxLostLocks,   \* bound: transactions that end before what they wait for
    MaxBreaks       \* bound: times the platform ends consents, or does not answer

Nobody == "nobody"

ASSUME AccountsAssumption ==
    /\ Nobody \notin AccountHands
    /\ MaxGrants \in Nat /\ MaxRenewals \in Nat
    /\ MaxLostLocks \in Nat /\ MaxBreaks \in Nat

VARIABLES
    account,     \* the SocialAccount row
    credential,  \* the SocialCredential row
    rowLock,     \* who holds the credential's row FOR UPDATE
    hand,        \* what each request or job is doing, and what it has read
    issued,      \* the platform: renewals of each consent; -1 stands for ended
    grants,      \* consents given so far
    told,        \* what people were last told of the account's health
    spent,       \* for the properties: a spent refresh token was presented
    undercut,    \* ... a connection was completed on a row disconnected meanwhile
    overlapped,  \* ... a verdict was compared with a status no longer the row's
    lostLocks, breaks

accountVars == <<account, credential, rowLock, hand, issued, grants, told,
                 spent, undercut, overlapped, lostLocks, breaks>>
ghosts == <<spent, undercut, overlapped>>
bounds == <<lostLocks, breaks>>

Grants == 1 .. MaxGrants
Statuses == {"DISABLED", "ACTIVE", "NEEDS_RECONNECT", "REVOKED"}
NoAccount == [row |-> FALSE, status |-> "DISABLED", deleted |-> FALSE, checked |-> FALSE]
NoCredential == [grant |-> 0, use |-> 0, fresh |-> FALSE]
IdleTask == [do |-> "idle"]

AccountInit ==
    /\ account = NoAccount /\ credential = NoCredential /\ rowLock = Nobody
    /\ hand = [h \in AccountHands |-> IdleTask]
    /\ issued = [g \in Grants |-> 0] /\ grants = 0
    /\ told = "fine"
    /\ spent = FALSE /\ undercut = FALSE /\ overlapped = FALSE
    /\ lostLocks = 0 /\ breaks = 0

Does(h, do) == hand[h].do = do
Now(h, task) == hand' = [hand EXCEPT ![h] = task]
Finish(h) == Now(h, IdleTask)

\* Nobody's transaction holds the credential's row.
RowFree == rowLock = Nobody
Standing(row) == row.row /\ ~row.deleted
Connected == Standing(account) /\ account.status # "DISABLED"

----------------------------------------------------------------------------
(* Renewing before use: freshenCredential, loadCredential, renewUnderLock. *)

\* refreshIsDue, on the credential as the caller opened it.
OpenCredential(h) ==
    /\ Does(h, "idle") /\ credential # NoCredential /\ ~credential.fresh /\ Connected
    /\ Now(h, [do |-> "renew", current |-> credential])
    /\ UNCHANGED <<account, credential, rowLock, issued, grants, told, ghosts, bounds>>

\* Mutant: the credential that was opened is the one presented.
AsOpened(h) == hand[h].current

\* Under the lock the row is read again.
ReadAgain(h) == credential

LockRow(h) ==
    /\ Does(h, "renew") /\ RowFree
    /\ IF credential = NoCredential
       THEN Finish(h) /\ UNCHANGED rowLock
       ELSE /\ Now(h, [do |-> "ask", current |-> ReadAgain(h)])
            /\ rowLock' = h
    /\ UNCHANGED <<account, credential, issued, grants, told, ghosts, bounds>>

Presented(current) ==
    /\ spent' = (spent \/ issued[current.grant] > current.use)
    /\ issued' = [issued EXCEPT ![current.grant] =
           IF @ = current.use THEN @ + 1 ELSE @]

\* attemptRefresh: nothing to renew, or the platform refuses, or cannot be
\* reached, and the credential is used as it is ...
KeepCredential(h) ==
    /\ Does(h, "ask")
    /\ Finish(h) /\ rowLock' = Nobody
    /\ UNCHANGED <<account, credential, issued, grants, told, ghosts, bounds>>

\* ... or it issues the next one, and the one presented is spent.
Refresh(h) ==
    LET current == hand[h].current IN
    /\ Does(h, "ask") /\ ~current.fresh /\ issued[current.grant] >= 0
    /\ Presented(current)
    /\ IF issued'[current.grant] = issued[current.grant]
       THEN Finish(h) /\ rowLock' = Nobody
       ELSE /\ Now(h, [do |-> "store", current |-> current])
            /\ UNCHANGED rowLock
    /\ UNCHANGED <<account, credential, grants, told, undercut, overlapped, bounds>>

StoreRenewed(h) ==
    /\ Does(h, "store")
    /\ credential' = [hand[h].current EXCEPT !.use = @ + 1, !.fresh = TRUE]
    /\ Finish(h) /\ rowLock' = Nobody
    /\ UNCHANGED <<account, issued, grants, told, ghosts, bounds>>

\* 45 seconds pass, or the database fails, or the process dies: the lock is
\* gone, and the platform may still be working on what it was asked.
LoseLock(h) ==
    /\ rowLock = h /\ lostLocks < MaxLostLocks
    /\ lostLocks' = lostLocks + 1
    /\ rowLock' = Nobody
    /\ IF Does(h, "ask") THEN Now(h, [do |-> "late", current |-> hand[h].current])
       ELSE Finish(h)
    /\ UNCHANGED <<account, credential, issued, grants, told, ghosts, breaks>>

AnswerTooLate(h) ==
    /\ Does(h, "late")
    /\ Presented(hand[h].current) \/ UNCHANGED <<spent, issued>>
    /\ Finish(h)
    /\ UNCHANGED <<account, credential, rowLock, grants, told, undercut,
                   overlapped, bounds>>

\* The credential comes within seven days of its end.
CredentialAges ==
    /\ credential.fresh /\ credential.use < MaxRenewals
    /\ credential' = [credential EXCEPT !.fresh = FALSE]
    /\ UNCHANGED <<account, rowLock, hand, issued, grants, told, ghosts, bounds>>

----------------------------------------------------------------------------
(* Connecting: the OAuth callback stages what it discovered, the person    *)
(* chooses, and what was not chosen is discarded.                          *)

\* stageDiscoveredAccounts looks for the row ...
StageReads(h) ==
    /\ Does(h, "idle") /\ grants < MaxGrants
    /\ grants' = grants + 1
    /\ Now(h, [do |-> "stage", grant |-> grants + 1, was |-> account])
    /\ UNCHANGED <<account, credential, rowLock, issued, told, ghosts, bounds>>

AlreadyConnected(was) == Standing(was) /\ was.status # "DISABLED"

Staged(was) ==
    [account EXCEPT !.row = TRUE,
        !.status = CASE was.status = "NEEDS_RECONNECT" -> "ACTIVE"
                     [] was.status # "NEEDS_RECONNECT" /\ ~AlreadyConnected(was) -> "DISABLED"
                     [] OTHER -> @,
        !.deleted = IF AlreadyConnected(was) THEN @ ELSE FALSE]

\* ... and stores what follows from it, with the new credential.  A row created
\* or deleted meanwhile fails the transaction.
StageCommits(h) ==
    LET was == hand[h].was IN
    /\ Does(h, "stage") /\ RowFree
    /\ IF account.row # was.row
       THEN UNCHANGED <<account, credential, told, undercut>>
       ELSE /\ account' = Staged(was)
            /\ credential' = [grant |-> hand[h].grant, use |-> 0, fresh |-> TRUE]
            /\ told' = IF account'.status = "NEEDS_RECONNECT" THEN told ELSE "fine"
            /\ undercut' = (undercut \/ Standing(was) # Standing(account))
    /\ Finish(h)
    /\ UNCHANGED <<rowLock, issued, grants, spent, overlapped, bounds>>

\* connectAccounts: one of the ids it was given.
Connect ==
    /\ account.row /\ grants > 0
    /\ account' = [account EXCEPT !.status = "ACTIVE", !.deleted = FALSE, !.checked = TRUE]
    /\ told' = "fine"
    /\ undercut' = (undercut \/ ~Standing(account))
    /\ UNCHANGED <<credential, rowLock, hand, issued, grants, spent, overlapped, bounds>>

\* discardStagedAccounts, after another choice that left this account out: it
\* reads which rows are staged, then deletes them with their credentials.
DiscardReads(h) ==
    /\ Does(h, "idle") /\ account.row /\ account.status = "DISABLED"
    /\ Now(h, [do |-> "discard"])
    /\ UNCHANGED <<account, credential, rowLock, issued, grants, told, ghosts, bounds>>

DiscardDeletes(h) ==
    /\ Does(h, "discard") /\ RowFree
    /\ account' = NoAccount /\ credential' = NoCredential
    /\ Finish(h)
    /\ UNCHANGED <<rowLock, issued, grants, told, ghosts, bounds>>

\* cleanupStagedAccounts, in one statement.
AbandonedStaging(row) == row.row /\ row.status = "DISABLED"

CleanupStaged ==
    /\ AbandonedStaging(account) /\ RowFree
    /\ account' = NoAccount /\ credential' = NoCredential
    /\ UNCHANGED <<rowLock, hand, issued, grants, told, ghosts, bounds>>

----------------------------------------------------------------------------
(* Disconnecting.                                                          *)

DisconnectBegins(h) ==
    /\ Does(h, "idle") /\ Standing(account)
    /\ Now(h, [do |-> "disconnect"])
    /\ UNCHANGED <<account, credential, rowLock, issued, grants, told, ghosts, bounds>>

CredentialGone == NoCredential

\* The platform has been asked to revoke; then the rows go, unless a post is
\* still scheduled or the row is gone.
DisconnectCommits(h) ==
    /\ Does(h, "disconnect") /\ RowFree
    /\ \/ UNCHANGED <<account, credential>>
       \/ /\ account.row
          /\ account' = [account EXCEPT !.status = "REVOKED", !.deleted = TRUE]
          /\ credential' = CredentialGone
    /\ Finish(h)
    /\ UNCHANGED <<rowLock, issued, grants, told, ghosts, bounds>>

----------------------------------------------------------------------------
(* Health: probeAccount in the worker, checkAccountHealth in the web app.  *)

\* Mutant: the sweep asks only about accounts believed to be well.
ProbedIfActive == {"ACTIVE"}

ProbedStatuses == {"ACTIVE", "NEEDS_RECONNECT"}

\* The sweep, and the job it enqueues, skip what was checked within the hour.
ProbeBegins(h) ==
    /\ Does(h, "idle") /\ Standing(account) /\ ~account.checked
    /\ account.status \in ProbedStatuses
    /\ Now(h, [do |-> "probe", by |-> "worker", was |-> account.status])
    /\ UNCHANGED <<account, credential, rowLock, issued, grants, told, ghosts, bounds>>

\* A person who asks gets a check.
CheckBegins(h) ==
    /\ Does(h, "idle") /\ Standing(account)
    /\ Now(h, [do |-> "probe", by |-> "web", was |-> account.status])
    /\ UNCHANGED <<account, credential, rowLock, issued, grants, told, ghosts, bounds>>

\* What the platform says of a credential.
VerdictOn(c) == IF issued[c.grant] >= 0 THEN "ACTIVE" ELSE "NEEDS_RECONNECT"

\* The credential is opened and the platform asked.
AskPlatform(h) ==
    /\ Does(h, "probe")
    /\ IF credential = NoCredential THEN Finish(h)
       ELSE Now(h, [do |-> IF hand[h].by = "worker" THEN "verdict" ELSE "record",
                    was |-> hand[h].was, verdict |-> VerdictOn(credential)])
    /\ UNCHANGED <<account, credential, rowLock, issued, grants, told, ghosts, bounds>>

\* A timeout or an outage says nothing of the account.
ProbeFails(h) ==
    /\ Does(h, "probe") /\ breaks < MaxBreaks
    /\ breaks' = breaks + 1
    /\ Finish(h)
    /\ UNCHANGED <<account, credential, rowLock, issued, grants, told, ghosts, lostLocks>>

\* recordHealthVerdict reads the status again before it compares.
RecordReads(h) ==
    /\ Does(h, "verdict")
    /\ IF Standing(account)
       THEN Now(h, [hand[h] EXCEPT !.do = "record", !.was = account.status])
       ELSE Finish(h)
    /\ UNCHANGED <<account, credential, rowLock, issued, grants, told, ghosts, bounds>>

\* Mutant: people are told of a recovery only.
ToldOfRecovery(was, verdict) ==
    IF was = "NEEDS_RECONNECT" /\ verdict = "ACTIVE" THEN "fine" ELSE told

\* classifyHealthChange: only a transition is news.
ToldAfter(was, verdict) ==
    CASE was # verdict /\ verdict = "NEEDS_RECONNECT" -> "broken"
      [] was = "NEEDS_RECONNECT" /\ verdict = "ACTIVE" -> "fine"
      [] OTHER -> told

\* The status, the audit row and the notifications in one transaction.
RecordVerdict(h) ==
    LET r == hand[h] IN
    /\ Does(h, "record")
    /\ IF ~account.row THEN UNCHANGED <<account, told, overlapped>>
       ELSE /\ account' = [account EXCEPT !.status = r.verdict, !.checked = TRUE]
            /\ told' = ToldAfter(r.was, r.verdict)
            /\ overlapped' = (overlapped \/ r.was # account.status)
    /\ Finish(h)
    /\ UNCHANGED <<credential, rowLock, issued, grants, spent, undercut, bounds>>

\* An hour passes.
CheckGrowsOld ==
    /\ account.checked
    /\ account' = [account EXCEPT !.checked = FALSE]
    /\ UNCHANGED <<credential, rowLock, hand, issued, grants, told, ghosts, bounds>>

\* The platform ends every consent given so far: a password changed.
PlatformEnds ==
    /\ breaks < MaxBreaks
    /\ breaks' = breaks + 1
    /\ issued' = [g \in Grants |-> IF g <= grants THEN 0 - 1 ELSE issued[g]]
    /\ UNCHANGED <<account, credential, rowLock, hand, grants, told, ghosts, lostLocks>>

----------------------------------------------------------------------------
Renewing(h) ==
    \/ OpenCredential(h) \/ LockRow(h) \/ KeepCredential(h) \/ Refresh(h)
    \/ StoreRenewed(h) \/ LoseLock(h) \/ AnswerTooLate(h)

Connecting(h) ==
    \/ StageReads(h) \/ StageCommits(h) \/ DiscardReads(h) \/ DiscardDeletes(h)
    \/ DisconnectBegins(h) \/ DisconnectCommits(h)

Probing(h) ==
    \/ ProbeBegins(h) \/ CheckBegins(h) \/ AskPlatform(h) \/ ProbeFails(h)
    \/ RecordReads(h) \/ RecordVerdict(h)

AccountNext ==
    \/ \E h \in AccountHands : Renewing(h) \/ Connecting(h) \/ Probing(h)
    \/ CredentialAges \/ Connect \/ CleanupStaged \/ CheckGrowsOld \/ PlatformEnds

AccountSpec == AccountInit /\ [][AccountNext]_accountVars

\* What is under way ends.
TaskEnds(h) ==
    \/ LockRow(h) \/ KeepCredential(h) \/ StoreRenewed(h) \/ AnswerTooLate(h)
    \/ StageCommits(h) \/ DiscardDeletes(h) \/ DisconnectCommits(h)
    \/ AskPlatform(h) \/ RecordReads(h) \/ RecordVerdict(h)

SweepProbes == \E h \in AccountHands : ProbeBegins(h)

\* The sweep comes every hour, in a process of its own: requests, which have a
\* hand in common with it here, do not keep it out.
AccountFairness ==
    /\ \A h \in AccountHands : WF_accountVars(TaskEnds(h))
    /\ WF_accountVars(CheckGrowsOld) /\ SF_accountVars(SweepProbes)

----------------------------------------------------------------------------
(* Properties.                                                             *)

\* Every variable has its type, and only who renews holds the row.
AccountsTypeOK ==
    /\ account.status \in Statuses
    /\ credential.grant \in 0 .. grants /\ credential.use \in 0 .. MaxRenewals
    /\ rowLock \in AccountHands \cup {Nobody}
    /\ \A h \in AccountHands : hand[h].do \in {"ask", "store"} => rowLock = h
    /\ grants \in 0 .. MaxGrants

\* A refresh token is presented once: X ends the connection of who presents it
\* again.  Only a renewal whose transaction was lost while the platform worked
\* can make the next one do so (renewUnderLock, in both processes).
TokenUsedOnce == spent => lostLocks > 0

\* A verdict on a credential that has since been replaced does not last: an
\* account whose credential works is ACTIVE again after a later probe, if it is
\* still connected and the platform answers (sweepAccountHealth takes NEEDS_RECONNECT too).
Well == Connected /\ credential # NoCredential /\ VerdictOn(credential) = "ACTIVE"
StaleVerdictHeals ==
    Well ~> (account.status = "ACTIVE" \/ ~Well)

\* An account is never silently broken: it has a credential for as long as it
\* stands and no longer, unless somebody disconnected it while it was being
\* connected; and when it has to be reconnected people have been told, unless
\* two checks overlapped (disconnectAccount, connectAccounts, recordHealthVerdict).
NeverSilentlyBroken ==
    /\ undercut \/ (credential # NoCredential <=> Standing(account))
    /\ Standing(account) /\ account.status = "NEEDS_RECONNECT" => told = "broken" \/ overlapped

\* What a person has just connected is not undone by who looked before: no
\* renewal puts an older consent back, only a callback that overlapped with
\* another brings its own after a later one's; and an account in use is deleted
\* only by a discard that had found it staged (renewUnderLock,
\* stageDiscoveredAccounts, discardStagedAccounts).
NewestConsentKept ==
    [][/\ credential'.grant # 0 /\ credential'.grant < credential.grant =>
              \E h \in AccountHands :
                  Does(h, "stage") /\ hand[h].grant = credential'.grant
       /\ Connected /\ ~account'.row => \E h \in AccountHands : Does(h, "discard")]_accountVars
=============================================================================
