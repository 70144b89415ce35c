----------------------------- MODULE AgentAccess -----------------------------
(***************************************************************************)
(* AI apps that act for a person (features/agent).  oauth.ts: a person     *)
(* consents and a code is issued, exchanged once for a grant with a pair   *)
(* of tokens, of which the refresh token is good once.  actions.ts: what   *)
(* the app prepares waits until the person confirms it, and then runs once.*)
(* Each database statement of a request is a step of its own.              *)
(***************************************************************************)
EXTENDS Naturals, FiniteSets, Sequences

CONSTANTS
    Callers,        \* requests to the token endpoint at one time
    Clicks,         \* requests of the person at one time
    Codes, Actions,
    MaxTokens,      \* bound: token pairs issued
    MaxLapses       \* bound: what expires, requests that die, answers and writes lost

ASSUME AgentAssumption == MaxTokens \in Nat /\ MaxLapses \in Nat

VARIABLES
    codes,      \* AgentAuthorizationCode: issued, used or expired
    agentGrants, \* AgentGrant: the code it came from; is it revoked?
    tokens,     \* AgentToken, a pair at a time: is the refresh token used?
    actions,    \* AgentAction: its status and the grant it was prepared under
    caller,     \* what each token request does
    click,      \* what each confirmation does
    ran,        \* how often the call behind an action was made
    lapses,
    withdrawn,  \* for the properties: actions whose grant ended before the click,
    unanswered  \* and those that ran, whose answer or EXECUTED was lost

agentVars == <<codes, agentGrants, tokens, actions, caller, click, ran, lapses,
               withdrawn, unanswered>>

Free == [at |-> "free", on |-> 0]
Unclicked == [at |-> "free", action |-> 0]
Unprepared == [status |-> "none", grant |-> 0]

AgentInit ==
    /\ codes = [c \in Codes |-> [issued |-> FALSE, used |-> FALSE, over |-> FALSE]]
    /\ agentGrants = <<>> /\ tokens = <<>>
    /\ actions = [a \in Actions |-> Unprepared]
    /\ caller = [x \in Callers |-> Free]
    /\ click = [y \in Clicks |-> Unclicked]
    /\ ran = [a \in Actions |-> 0] /\ lapses = 0 /\ withdrawn = {} /\ unanswered = {}

----------------------------------------------------------------------------

Is(x, step) == caller[x].at = step
Subject(x) == caller[x].on
Moves(x, step, on) == caller' = [caller EXCEPT ![x] = [at |-> step, on |-> on]]
Returns(x) == caller' = [caller EXCEPT ![x] = Free]
Lapse == lapses < MaxLapses /\ lapses' = lapses + 1

GrantLive(g) == g \in DOMAIN agentGrants /\ ~agentGrants[g].revoked
WaitingUnder(g) == {a \in Actions : actions[a] = [status |-> "PENDING", grant |-> g]}
Revoked(g) ==
    /\ agentGrants' = [agentGrants EXCEPT ![g].revoked = TRUE]
    /\ withdrawn' = withdrawn \cup WaitingUnder(g)

\* issueAuthorizationCode.
IssueCode(c) ==
    /\ ~codes[c].issued
    /\ codes' = [codes EXCEPT ![c].issued = TRUE]
    /\ UNCHANGED <<agentGrants, tokens, actions, caller, click, ran, lapses,
                   withdrawn, unanswered>>

CodeExpires(c) ==
    /\ codes[c].issued /\ ~codes[c].over /\ Lapse
    /\ codes' = [codes EXCEPT ![c].over = TRUE]
    /\ UNCHANGED <<agentGrants, tokens, actions, caller, click, ran, withdrawn,
                   unanswered>>

----------------------------------------------------------------------------
(* exchangeAuthorizationCode: the row is read, claimed, and only then      *)
(* checked; grant and tokens are written one after the other.              *)

ReadCode(x, c) ==
    /\ Is(x, "free") /\ codes[c].issued /\ ~codes[c].used
    /\ Moves(x, "claim", c)
    /\ UNCHANGED <<codes, agentGrants, tokens, actions, click, ran, lapses,
                   withdrawn, unanswered>>

\* Mutant: what was read is trusted.
TokenAsRead(t) == TRUE

\* The conditional updates: WHERE usedAt IS NULL.
CodeUnused(c) == ~codes[c].used
TokenUnused(t) == ~tokens[t].used

\* The client, the redirect URI and the verifier may also be wrong: the code
\* is spent all the same.
ClaimCode(x) ==
    /\ Is(x, "claim")
    /\ LET c == Subject(x) IN
           IF ~CodeUnused(c) THEN Returns(x) /\ UNCHANGED codes
           ELSE /\ codes' = [codes EXCEPT ![c].used = TRUE]
                /\ \/ Returns(x)
                   \/ ~codes[c].over /\ Moves(x, "grant", c)
    /\ UNCHANGED <<agentGrants, tokens, actions, click, ran, lapses, withdrawn,
                   unanswered>>

CreateGrant(x) ==
    /\ Is(x, "grant")
    /\ agentGrants' = Append(agentGrants, [code |-> Subject(x), revoked |-> FALSE])
    /\ Moves(x, "issue", Len(agentGrants'))
    /\ UNCHANGED <<codes, tokens, actions, click, ran, lapses, withdrawn,
                   unanswered>>

IssueTokens(x) ==
    /\ Is(x, "issue") /\ Len(tokens) < MaxTokens
    /\ tokens' = Append(tokens, [grant |-> Subject(x), used |-> FALSE,
                                 access |-> TRUE, refresh |-> TRUE])
    /\ Returns(x)
    /\ UNCHANGED <<codes, agentGrants, actions, click, ran, lapses, withdrawn,
                   unanswered>>

\* The access token, or both, expire.
TokenLapses(t) ==
    /\ tokens[t].refresh /\ Lapse
    /\ \/ tokens[t].access /\ tokens' = [tokens EXCEPT ![t].access = FALSE]
       \/ tokens' = [tokens EXCEPT ![t].access = FALSE, ![t].refresh = FALSE]
    /\ UNCHANGED <<codes, agentGrants, actions, caller, click, ran, withdrawn,
                   unanswered>>

----------------------------------------------------------------------------
(* refreshTokens: good once; a second use ends the grant.                  *)

ReadToken(x, t) ==
    /\ Is(x, "free")
    /\ \/ tokens[t].used /\ Moves(x, "revoke", tokens[t].grant)
       \/ /\ ~tokens[t].used /\ GrantLive(tokens[t].grant) /\ tokens[t].refresh
          /\ Moves(x, "rotate", t)
    /\ UNCHANGED <<codes, agentGrants, tokens, actions, click, ran, lapses,
                   withdrawn, unanswered>>

RotateToken(x) ==
    /\ Is(x, "rotate")
    /\ LET t == Subject(x) IN
           IF TokenUnused(t)
           THEN /\ tokens' = [tokens EXCEPT ![t].used = TRUE]
                /\ Moves(x, "issue", tokens[t].grant)
           ELSE UNCHANGED tokens /\ Moves(x, "revoke", tokens[t].grant)
    /\ UNCHANGED <<codes, agentGrants, actions, click, ran, lapses, withdrawn,
                   unanswered>>

\* revokeGrantUnchecked.
RevokeReused(x) ==
    /\ Is(x, "revoke") /\ Revoked(Subject(x)) /\ Returns(x)
    /\ UNCHANGED <<codes, tokens, actions, click, ran, lapses, unanswered>>

CallerDies(x) ==
    /\ ~Is(x, "free") /\ Lapse /\ Returns(x)
    /\ UNCHANGED <<codes, agentGrants, tokens, actions, click, ran, withdrawn,
                   unanswered>>

\* revokeGrant, by a person; revokeByToken, by the app.
RevokeGrant(g) ==
    /\ GrantLive(g) /\ Revoked(g)
    /\ UNCHANGED <<codes, tokens, actions, caller, click, ran, lapses,
                   unanswered>>

----------------------------------------------------------------------------
(* actions.ts.                                                             *)

\* prepareAction, behind verifyAccessToken.  The copilot of the web app, which
\* has no grant (0), prepares actions as well.
PrepareAction(a, g) ==
    /\ actions[a] = Unprepared
    /\ g # 0 => GrantLive(g) /\ \E t \in DOMAIN tokens : tokens[t].grant = g /\ tokens[t].access
    /\ actions' = [actions EXCEPT ![a] = [status |-> "PENDING", grant |-> g]]
    /\ UNCHANGED <<codes, agentGrants, tokens, caller, click, ran, lapses,
                   withdrawn, unanswered>>

Decided(a, status) == actions' = [actions EXCEPT ![a].status = status]

\* The conditional update: status PENDING (and not expired).
Undecided(a) == actions[a].status = "PENDING"

RejectAction(a) ==
    /\ Undecided(a) /\ Decided(a, "REJECTED")
    /\ UNCHANGED <<codes, agentGrants, tokens, caller, click, ran, lapses,
                   withdrawn, unanswered>>

ActionExpires(a) ==
    /\ actions[a].status = "PENDING" /\ Lapse /\ Decided(a, "EXPIRED")
    /\ UNCHANGED <<codes, agentGrants, tokens, caller, click, ran, withdrawn,
                   unanswered>>

ClickAt(y, step) == click' = [click EXCEPT ![y].at = step]

\* confirmAction claims the action ...
ConfirmAction(y, a) ==
    /\ click[y].at = "free" /\ Undecided(a)
    /\ Decided(a, "EXECUTING")
    /\ click' = [click EXCEPT ![y] = [at |-> "check", action |-> a]]
    /\ UNCHANGED <<codes, agentGrants, tokens, caller, ran, lapses, withdrawn,
                   unanswered>>

\* ... reads its grant again ...
StillGranted(g) == g = 0 \/ GrantLive(g)

CheckGrant(y) ==
    /\ click[y].at = "check"
    /\ LET a == click[y].action IN
           IF StillGranted(actions[a].grant) THEN ClickAt(y, "run") /\ UNCHANGED actions
           ELSE Decided(a, "FAILED") /\ click' = [click EXCEPT ![y] = Unclicked]
    /\ UNCHANGED <<codes, agentGrants, tokens, caller, ran, lapses, withdrawn,
                   unanswered>>

\* ... makes the call, and writes how it went.  The route may refuse it; or do
\* what was asked, and the answer is lost or an error.
RunCall(y) ==
    LET a == click[y].action
        Made == ran' = [ran EXCEPT ![a] = @ + 1]
    IN  /\ click[y].at = "run"
        /\ \/ ClickAt(y, "ran") /\ Made /\ UNCHANGED <<lapses, unanswered>>
           \/ ClickAt(y, "caught") /\ UNCHANGED <<ran, lapses, unanswered>>
           \/ ClickAt(y, "caught") /\ Made /\ Lapse /\ unanswered' = unanswered \cup {a}
        /\ UNCHANGED <<codes, agentGrants, tokens, actions, caller, withdrawn>>

\* Mutant: a call that was refused counts as made.
FinishedAnyhow(y) == "EXECUTED"
Outcome(y) == IF click[y].at = "ran" THEN "EXECUTED" ELSE "FAILED"

FinishAction(y) ==
    /\ click[y].at \in {"ran", "caught"}
    /\ Decided(click[y].action, Outcome(y))
    /\ click' = [click EXCEPT ![y] = Unclicked]
    /\ UNCHANGED <<codes, agentGrants, tokens, caller, ran, lapses, withdrawn,
                   unanswered>>

\* EXECUTED is written inside the try: when that write fails, the catch takes it
\* for a failure of the call.
ExecutedIsLost(y) ==
    /\ click[y].at = "ran" /\ Lapse
    /\ ClickAt(y, "caught") /\ unanswered' = unanswered \cup {click[y].action}
    /\ UNCHANGED <<codes, agentGrants, tokens, actions, caller, ran, withdrawn>>

\* The process dies, or the write of FAILED fails: nothing looks for an action
\* that was left EXECUTING.
ClickDies(y) ==
    /\ click[y].at # "free" /\ Lapse
    /\ click' = [click EXCEPT ![y] = Unclicked]
    /\ UNCHANGED <<codes, agentGrants, tokens, actions, caller, ran, withdrawn,
                   unanswered>>

----------------------------------------------------------------------------

CallerSteps(x) == ClaimCode(x) \/ CreateGrant(x) \/ IssueTokens(x)
                  \/ RotateToken(x) \/ RevokeReused(x)
ClickSteps(y) == CheckGrant(y) \/ RunCall(y) \/ FinishAction(y) \/ ExecutedIsLost(y)

AgentNext ==
    \/ \E c \in Codes : IssueCode(c) \/ CodeExpires(c) \/ \E x \in Callers : ReadCode(x, c)
    \/ \E t \in DOMAIN tokens : TokenLapses(t) \/ \E x \in Callers : ReadToken(x, t)
    \/ \E x \in Callers : CallerSteps(x) \/ CallerDies(x)
    \/ \E g \in DOMAIN agentGrants : RevokeGrant(g)
    \/ \E a \in Actions :
           \/ RejectAction(a) \/ ActionExpires(a)
           \/ \E g \in {0} \cup DOMAIN agentGrants : PrepareAction(a, g)
           \/ \E y \in Clicks : ConfirmAction(y, a)
    \/ \E y \in Clicks : ClickSteps(y) \/ ClickDies(y)

AgentSpec == AgentInit /\ [][AgentNext]_agentVars

----------------------------------------------------------------------------
(* Properties.                                                             *)

ActionStatuses == {"none", "PENDING", "REJECTED", "EXPIRED", "EXECUTING", "EXECUTED", "FAILED"}

\* Tokens belong to grants, grants to codes that were spent, and whoever
\* confirms an action holds one that is EXECUTING.
AgentTypeOK ==
    /\ \A t \in DOMAIN tokens : tokens[t].grant \in DOMAIN agentGrants
    /\ \A g \in DOMAIN agentGrants : codes[agentGrants[g].code].used
    /\ \A a \in Actions : actions[a].status \in ActionStatuses
    /\ \A y \in Clicks :
           click[y].at # "free" => actions[click[y].action].status = "EXECUTING"

\* Rotation never forks: a code gives one grant, however many requests present
\* it at once, and a grant that stands has one refresh token to use, or one
\* request that is about to issue it, and never two of them.
RotationNeverForks ==
    /\ \A g, h \in DOMAIN agentGrants : agentGrants[g].code = agentGrants[h].code => g = h
    /\ \A g \in DOMAIN agentGrants : GrantLive(g) =>
           Cardinality({t \in DOMAIN tokens : tokens[t].grant = g /\ ~tokens[t].used})
             + Cardinality({x \in Callers : Is(x, "issue") /\ Subject(x) = g}) <= 1

\* What the person confirmed runs once at most, whoever clicks when; what was
\* rejected, or expired, or lost its grant before the click, never does.  EXECUTED
\* means it ran; FAILED that it did not, unless the answer of the call, or the
\* write of EXECUTED, was lost.
ActionRunsOnce ==
    /\ \A a \in Actions :
           /\ ran[a] <= 1
           /\ actions[a].status = "EXECUTED" => ran[a] = 1
           /\ ran[a] > 0 =>
                  actions[a].status \in {"EXECUTING", "EXECUTED"}
                                        \cup {f \in {"FAILED"} : a \in unanswered}
    /\ \A a \in withdrawn : ran[a] = 0
=============================================================================
