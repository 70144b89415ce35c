---------------------------- MODULE MCServices ----------------------------
(***************************************************************************)
(* Small instances, for TLC, of the services around the publishing engine. *)
(* They share no variable (Assistant has Inbox's), so an instance looks at *)
(* one service at a time: `focus` says at which, and the rest stands still.*)
(* The bounds are on what the environment does and on how often something  *)
(* fails; none keeps what a fairness condition is about from going on.     *)
(***************************************************************************)
EXTENDS JobQueue, Assistant, Accounts, Members, Outbox, Adapters, AgentAccess,
        RateLimit, MediaLibrary, TLC

VARIABLE focus

Services == {"queue", "inbox", "assistant", "accounts", "members", "outbox",
             "adapters", "agent", "rate", "media"}

CONSTANTS tEasy, tOnce, tOdd, owner, admin, guest

\* A queue of two attempts and one of one (publish, analytics ...).
MCTries == [t \in QueueTasks |-> IF t = tOnce THEN 1 ELSE 2]

\* Two owners, and a person who is not a member yet.
MCTeam == (owner :> "OWNER") @@ (admin :> "OWNER") @@ (guest :> "NONE")

\* Every kind of variant; a short text with hashtags on two platforms.
MCWares == [kind : DOMAIN Calls, brief : {FALSE}]
             \cup [kind : {"igReel", "fbPost"}, brief : {TRUE}]

ServicesInit ==
    /\ focus \in Services
    /\ JobInit /\ InboxInit /\ AssistantInit /\ AccountInit /\ MembersInit
    /\ OutboxInit /\ AdaptersInit /\ AgentInit /\ RateInit /\ MediaInit

Others(f) ==
    /\ UNCHANGED focus
    /\ IF f = "queue" THEN TRUE ELSE UNCHANGED jobVars
    /\ IF f \in {"inbox", "assistant"} THEN TRUE ELSE UNCHANGED inboxVars
    /\ IF f = "assistant" THEN TRUE ELSE UNCHANGED assistantVars
    /\ IF f = "accounts" THEN TRUE ELSE UNCHANGED accountVars
    /\ IF f = "members" THEN TRUE ELSE UNCHANGED memberVars
    /\ IF f = "outbox" THEN TRUE ELSE UNCHANGED outboxVars
    /\ IF f = "adapters" THEN TRUE ELSE UNCHANGED adapterVars
    /\ IF f = "agent" THEN TRUE ELSE UNCHANGED agentVars
    /\ IF f = "rate" THEN TRUE ELSE UNCHANGED rateVars
    /\ IF f = "media" THEN TRUE ELSE UNCHANGED mediaVars

----------------------------------------------------------------------------
Count(b) == IF b THEN 1 ELSE 0

\* Requests, those that failed once, and deaths: three of them together.
QueueBound ==
    Cardinality({c \in ChainIds : chains'[c] # NoChain}) + jobDeaths'
      + Cardinality({c \in ChainIds : chains'[c] # NoChain /\ chains'[c].fails > 0}) <= 3

\* Two messages, when the inbox is looked at without the assistant.
InboxBound == Len(thread') <= 2

\* Messages and what else happens to a conversation: four together.
TalkBound ==
    Len(thread') + inboxFailures' + Count(conversation'.paused) + Count(quietUpTo' > 0)
      + Count(excused' # {}) + Count(conversation'.needsHuman)
      + Count(\E p \in Colleagues : replying'[p] # 0) <= 4

\* Consents, lost transactions, ended consents, and the excuses before them:
\* three together.  What is under way ends all the same.
AccountBound ==
    \/ UNCHANGED <<grants, lostLocks, breaks>>
    \/ grants' + lostLocks' + breaks' + Count(undercut \/ overlapped) + Count(spent) <= 3

\* Four requests, one of which accepts an invitation; no behaviour goes on
\* once two owners have crossed or a stale principal has acted.
MembersBound ==
    /\ ~raced /\ ~usurped
    /\ requests' = MaxRequests => \E i \in Invitations : invitations'[i].accepted

\* One row grows old.
OutboxBound == Cardinality(old') <= 1

\* Six calls allowed, three milliseconds lost by slower clocks.
RateBound == taken' <= 6 /\ rewound' <= 3

ServicesNext ==
    \/ focus = "queue" /\ JobNext /\ Others("queue") /\ QueueBound
    \/ focus = "inbox" /\ InboxNext /\ Others("inbox") /\ InboxBound
    \/ focus = "assistant" /\ AssistantNext /\ Others("assistant") /\ TalkBound
    \/ focus = "accounts" /\ AccountNext /\ Others("accounts") /\ AccountBound
    \/ focus = "members" /\ MembersNext /\ Others("members") /\ MembersBound
    \/ focus = "outbox" /\ OutboxNext /\ Others("outbox") /\ OutboxBound
    \/ focus = "adapters" /\ AdaptersNext /\ Others("adapters")
    \/ focus = "agent" /\ AgentNext /\ Others("agent")
    \/ focus = "rate" /\ RateNext /\ Others("rate") /\ RateBound
    \/ focus = "media" /\ MediaNext /\ Others("media")

servicesVars == <<focus, jobVars, inboxVars, assistantVars, accountVars, memberVars,
                  outboxVars, adapterVars, agentVars, rateVars, mediaVars>>

\* Each service with the fairness of its own module, while it is looked at.
ServicesFairness ==
    /\ WF_jobVars(focus = "queue" /\ JobProgress)
    /\ WF_inboxVars(focus = "inbox" /\ InboxProgress)
    /\ \A h \in AccountHands : WF_accountVars(focus = "accounts" /\ TaskEnds(h))
    /\ WF_accountVars(focus = "accounts" /\ CheckGrowsOld)
    /\ SF_accountVars(focus = "accounts" /\ SweepProbes)
    /\ WF_outboxVars(focus = "outbox" /\ Notify)
    /\ \A d \in Drains : WF_outboxVars(focus = "outbox" /\ DrainSteps(d))

ServicesSpec == ServicesInit /\ [][ServicesNext]_servicesVars /\ ServicesFairness

\* Every variable has its type, and who works on a row has what it works on, in
\* each of the services.
ServicesTypeOK ==
    /\ JobTypeOK /\ InboxTypeOK /\ AssistantTypeOK /\ AccountsTypeOK /\ MembersTypeOK
    /\ OutboxTypeOK /\ AdaptersTypeOK /\ AgentTypeOK /\ RateTypeOK /\ MediaTypeOK
=============================================================================
