------------------------- MODULE AgentAccessProofs -------------------------
(* What holds of AgentAccess for every number of requests, codes, tokens    *)
(* and actions, however their statements interleave and whichever die.      *)
EXTENDS AgentAccess, SequenceTheorems, FiniteSetTheorems, TLAPS

CodeRecord   == [issued : BOOLEAN, used : BOOLEAN, over : BOOLEAN]
GrantRecord  == [code : Codes, revoked : BOOLEAN]
TokenRecord  == [grant : Nat, used : BOOLEAN, access : BOOLEAN, refresh : BOOLEAN]
ActionRecord == [status : ActionStatuses, grant : Nat]

GrantIds == 1 .. Len(agentGrants)
TokenIds == 1 .. Len(tokens)

\* What a token request works on, by the step it is at.
Works(x) ==
    \/ Is(x, "free")
    \/ caller[x].at \in {"claim", "grant"} /\ Subject(x) \in Codes
    \/ caller[x].at \in {"issue", "revoke"} /\ Subject(x) \in GrantIds
    \/ Is(x, "rotate") /\ Subject(x) \in TokenIds

TokenShape ==
    /\ codes \in [Codes -> CodeRecord]
    /\ agentGrants \in Seq(GrantRecord) /\ tokens \in Seq(TokenRecord)
    /\ \A t \in TokenIds : tokens[t].grant \in GrantIds
    /\ DOMAIN caller = Callers
    /\ \A x \in Callers : caller[x] = [at |-> caller[x].at, on |-> caller[x].on]
    /\ \A x \in Callers : Works(x)

\* A request between the claim of a code and its grant is the only one to have
\* claimed that code, and no grant has come of it yet.
ClaimsHold ==
    /\ \A g \in GrantIds : codes[agentGrants[g].code].used
    /\ \A x \in Callers : Is(x, "grant") =>
           /\ codes[Subject(x)].used
           /\ \A g \in GrantIds : agentGrants[g].code # Subject(x)
           /\ \A y \in Callers : Is(y, "grant") /\ Subject(y) = Subject(x) => y = x
    /\ \A g, h \in GrantIds : agentGrants[g].code = agentGrants[h].code => g = h

\* One line of tokens: of a grant that stands, at most one refresh token is
\* unused or about to be issued.
OneLine ==
    \A g \in GrantIds : ~agentGrants[g].revoked =>
        /\ \A t, u \in TokenIds :
               tokens[t].grant = g /\ ~tokens[t].used /\ tokens[u].grant = g /\ ~tokens[u].used
                   => t = u
        /\ \A x \in Callers : Is(x, "issue") /\ Subject(x) = g =>
               /\ \A t \in TokenIds : tokens[t].grant = g => tokens[t].used
               /\ \A y \in Callers : Is(y, "issue") /\ Subject(y) = g => y = x

TokenInv == TokenShape /\ ClaimsHold /\ OneLine

ClickSides == {"free", "check", "run", "ran", "caught"}

ActionShape ==
    /\ actions \in [Actions -> ActionRecord]
    /\ click \in [Clicks -> [at : ClickSides, action : Actions \cup {0}]]
    /\ ran \in [Actions -> Nat] /\ unanswered \subseteq Actions
    /\ \A y \in Clicks : click[y].at # "free" => click[y].action \in Actions

\* The request has made its call: it knows, or it has lost the answer.
HasRun(y) ==
    \/ click[y].at = "ran"
    \/ click[y].at = "caught" /\ click[y].action \in unanswered

\* An action that runs is in one request's hands, and what has run is known
\* from its status, from the step of that request, and from what was lost.
OneHand ==
    /\ \A y \in Clicks : click[y].at # "free" =>
           /\ actions[click[y].action].status = "EXECUTING"
           /\ ran[click[y].action] = (IF HasRun(y) THEN 1 ELSE 0)
           /\ (click[y].at = "ran" => click[y].action \notin unanswered)
           /\ \A z \in Clicks :
                  click[z].at # "free" /\ click[z].action = click[y].action => z = y
    /\ \A a \in Actions :
           /\ actions[a].status \notin {"EXECUTING", "EXECUTED"} =>
                  ran[a] = 0 \/ (actions[a].status = "FAILED" /\ a \in unanswered)
           /\ actions[a].status = "EXECUTED" => ran[a] = 1
           /\ ran[a] <= 1
           /\ a \in unanswered => ran[a] = 1

ActionInv == ActionShape /\ OneHand

\* An action that was withdrawn is under a grant that has ended, and a request
\* that holds it has not got past the check.
WithdrawnHeld ==
    /\ withdrawn \subseteq Actions
    /\ \A a \in withdrawn :
           /\ actions[a].status # "none"
           /\ actions[a].grant \in GrantIds /\ agentGrants[actions[a].grant].revoked
           /\ ran[a] = 0
           /\ \A y \in Clicks : click[y].action = a => click[y].at \notin {"run", "ran"}

AgentInv == TokenInv /\ ActionInv /\ WithdrawnHeld

----------------------------------------------------------------------------
LEMMA AgentInitial == AgentInit => AgentInv
<1> SUFFICES ASSUME AgentInit PROVE AgentInv  OBVIOUS
<1>1. agentGrants \in Seq(GrantRecord) /\ tokens \in Seq(TokenRecord)
      /\ Len(agentGrants) = 0 /\ Len(tokens) = 0
  BY DEF AgentInit
<1>2. TokenShape
  BY <1>1 DEF AgentInit, TokenShape, CodeRecord, Free, Works, Is, GrantIds, TokenIds
<1>3. ClaimsHold /\ OneLine
  BY <1>1 DEF AgentInit, ClaimsHold, OneLine, Free, Is, GrantIds
<1>4. ActionInv
  BY DEF AgentInit, ActionInv, ActionShape, OneHand, Unprepared, Unclicked, ActionRecord,
         ActionStatuses, ClickSides
<1>5. WithdrawnHeld  BY DEF AgentInit, WithdrawnHeld
<1> QED  BY <1>2, <1>3, <1>4, <1>5 DEF AgentInv, TokenInv

----------------------------------------------------------------------------
(* Codes, grants and tokens.                                               *)

\* Moving one caller leaves the others where they are.
LEMMA CallerMoves ==
    ASSUME DOMAIN caller = Callers,
           \A x \in Callers : caller[x] = [at |-> caller[x].at, on |-> caller[x].on],
           NEW x \in Callers, NEW step, NEW on,
           caller' = [caller EXCEPT ![x] = [at |-> step, on |-> on]]
    PROVE  /\ DOMAIN caller' = Callers
           /\ caller'[x].at = step /\ caller'[x].on = on
           /\ \A y \in Callers : y # x => caller'[y] = caller[y]
           /\ \A y \in Callers : caller'[y] = [at |-> caller'[y].at, on |-> caller'[y].on]
OBVIOUS

LEMMA GrantElements ==
    ASSUME TokenShape
    PROVE  /\ \A g \in GrantIds : agentGrants[g] \in GrantRecord
           /\ \A g \in GrantIds : agentGrants[g].code \in Codes
<1>1. ASSUME NEW g \in GrantIds PROVE agentGrants[g] \in GrantRecord
  BY ElementOfSeq DEF TokenShape, GrantIds
<1> QED  BY <1>1 DEF GrantRecord

LEMMA TokenElements ==
    ASSUME TokenShape
    PROVE  \A t \in TokenIds : tokens[t] \in TokenRecord
<1>1. ASSUME NEW t \in TokenIds PROVE tokens[t] \in TokenRecord
  BY ElementOfSeq DEF TokenShape, TokenIds
<1> QED  BY <1>1

\* Steps that change a code's row and nothing else.
LEMMA CodeRowKeeps ==
    ASSUME TokenInv, NEW c \in Codes, UNCHANGED <<agentGrants, tokens, caller>>,
           \/ codes' = [codes EXCEPT ![c].issued = TRUE]
           \/ codes' = [codes EXCEPT ![c].over = TRUE]
    PROVE  TokenInv'
<1>1. codes' \in [Codes -> CodeRecord] /\ \A d \in Codes : codes'[d].used = codes[d].used
  <2>1. CASE codes' = [codes EXCEPT ![c].issued = TRUE]
    BY <2>1 DEF TokenInv, TokenShape, CodeRecord
  <2>2. CASE codes' = [codes EXCEPT ![c].over = TRUE]
    BY <2>2 DEF TokenInv, TokenShape, CodeRecord
  <2> QED  BY <2>1, <2>2
<1>2. TokenShape'
  BY <1>1 DEF TokenInv, TokenShape, Works, Is, Subject, GrantIds, TokenIds
<1>3. \A g \in GrantIds : agentGrants[g].code \in Codes
  BY GrantElements DEF TokenInv
<1>4. ClaimsHold'
  BY <1>1, <1>3 DEF TokenInv, TokenShape, ClaimsHold, Works, Is, Subject, GrantIds
<1>5. OneLine'  BY DEF TokenInv, OneLine, Is, Subject, GrantIds, TokenIds
<1> QED  BY <1>2, <1>4, <1>5 DEF TokenInv

\* A caller that moves to a step where it claims nothing and issues nothing.
LEMMA IdleMoveKeeps ==
    ASSUME TokenInv, UNCHANGED <<codes, agentGrants, tokens>>,
           NEW x \in Callers, NEW step \in {"free", "claim", "rotate", "revoke"}, NEW on,
           caller' = [caller EXCEPT ![x] = [at |-> step, on |-> on]],
           step = "claim" => on \in Codes,
           step = "rotate" => on \in TokenIds,
           step = "revoke" => on \in GrantIds
    PROVE  TokenInv'
<1>1. /\ DOMAIN caller' = Callers
      /\ caller'[x].at = step /\ caller'[x].on = on
      /\ \A y \in Callers : y # x => caller'[y] = caller[y]
      /\ \A y \in Callers : caller'[y] = [at |-> caller'[y].at, on |-> caller'[y].on]
  BY CallerMoves DEF TokenInv, TokenShape
<1>2. TokenShape'
  BY <1>1 DEF TokenInv, TokenShape, Works, Is, Subject, GrantIds, TokenIds
<1>3. ClaimsHold'  BY <1>1 DEF TokenInv, ClaimsHold, Is, Subject, GrantIds
<1>4. OneLine'  BY <1>1 DEF TokenInv, OneLine, Is, Subject, GrantIds, TokenIds
<1> QED  BY <1>2, <1>3, <1>4 DEF TokenInv

LEMMA ClaimCodeKeeps ==
    ASSUME TokenInv, NEW x \in Callers, ClaimCode(x)
    PROVE  TokenInv'
<1> DEFINE c == Subject(x)
<1>1. Is(x, "claim") /\ c \in Codes /\ UNCHANGED <<agentGrants, tokens>>
  BY DEF ClaimCode, TokenInv, TokenShape, Works, Is
<1>2. CASE codes[c].used
  BY <1>1, <1>2, IdleMoveKeeps DEF ClaimCode, CodeUnused, Returns, Free
<1>3. CASE ~codes[c].used
  <2>1. codes' = [codes EXCEPT ![c].used = TRUE]
    BY <1>3 DEF ClaimCode, CodeUnused
  <2>2. /\ codes' \in [Codes -> CodeRecord] /\ codes'[c].used
        /\ \A d \in Codes : codes[d].used => codes'[d].used
    BY <2>1, <1>1 DEF TokenInv, TokenShape, CodeRecord
  <2>3. \/ caller' = [caller EXCEPT ![x] = [at |-> "free", on |-> 0]]
        \/ caller' = [caller EXCEPT ![x] = [at |-> "grant", on |-> c]]
    BY <1>3 DEF ClaimCode, CodeUnused, Returns, Moves, Free
  <2>4. /\ DOMAIN caller' = Callers
        /\ \/ caller'[x].at = "free"
           \/ caller'[x].at = "grant" /\ caller'[x].on = c
        /\ \A y \in Callers : y # x => caller'[y] = caller[y]
        /\ \A y \in Callers : caller'[y] = [at |-> caller'[y].at, on |-> caller'[y].on]
    BY <2>3, CallerMoves DEF TokenInv, TokenShape
  <2>5. \A g \in GrantIds : agentGrants[g].code \in Codes
    BY GrantElements DEF TokenInv
  <2>6. TokenShape'
    BY <1>1, <2>2, <2>4 DEF TokenInv, TokenShape, Works, Is, Subject, GrantIds, TokenIds
  <2>7. ClaimsHold'
    <3>1. \A g \in GrantIds : agentGrants[g].code # c
      BY <1>3 DEF TokenInv, ClaimsHold
    <3>2. \A y \in Callers : Is(y, "grant") => Subject(y) # c
      BY <1>3 DEF TokenInv, ClaimsHold
    <3>3. \A y \in Callers : Is(y, "grant") => Subject(y) \in Codes
      BY DEF TokenInv, TokenShape, Works, Is
    <3> HIDE DEF c
    <3> QED
      BY <1>1, <2>2, <2>4, <2>5, <3>1, <3>2, <3>3
      DEF TokenInv, ClaimsHold, Is, Subject, GrantIds
  <2>8. OneLine'
    BY <1>1, <2>4 DEF TokenInv, OneLine, Is, Subject, GrantIds, TokenIds
  <2> QED  BY <2>6, <2>7, <2>8 DEF TokenInv
<1> QED  BY <1>2, <1>3

LEMMA CreateGrantKeeps ==
    ASSUME TokenInv, NEW x \in Callers, CreateGrant(x)
    PROVE  TokenInv'
<1> DEFINE c == Subject(x)
           n == Len(agentGrants) + 1
<1>1. Is(x, "grant") /\ c \in Codes /\ UNCHANGED <<codes, tokens>>
  BY DEF CreateGrant, TokenInv, TokenShape, Works, Is
<1>2. /\ agentGrants \in Seq(GrantRecord) /\ Len(agentGrants) \in Nat
      /\ [code |-> c, revoked |-> FALSE] \in GrantRecord
      /\ agentGrants' = Append(agentGrants, [code |-> c, revoked |-> FALSE])
  BY <1>1 DEF CreateGrant, TokenInv, TokenShape, GrantRecord
<1>3. /\ agentGrants' \in Seq(GrantRecord) /\ Len(agentGrants') = n
      /\ agentGrants'[n] = [code |-> c, revoked |-> FALSE]
      /\ \A g \in GrantIds : agentGrants'[g] = agentGrants[g]
  BY <1>2, AppendProperties DEF GrantIds
<1>4. GrantIds' = GrantIds \cup {n} /\ n \notin GrantIds /\ TokenIds' = TokenIds
  BY <1>1, <1>2, <1>3 DEF GrantIds, TokenIds
<1>5. caller' = [caller EXCEPT ![x] = [at |-> "issue", on |-> n]]
  BY <1>3 DEF CreateGrant, Moves
<1>6. /\ DOMAIN caller' = Callers
      /\ caller'[x].at = "issue" /\ caller'[x].on = n
      /\ \A y \in Callers : y # x => caller'[y] = caller[y]
      /\ \A y \in Callers : caller'[y] = [at |-> caller'[y].at, on |-> caller'[y].on]
  BY <1>5, CallerMoves DEF TokenInv, TokenShape
<1>7. TokenShape'
  BY <1>1, <1>3, <1>4, <1>6 DEF TokenInv, TokenShape, Works, Is, Subject
<1>8. /\ codes[c].used
      /\ \A g \in GrantIds : agentGrants[g].code # c
      /\ \A y \in Callers : Is(y, "grant") /\ Subject(y) = c => y = x
  BY <1>1 DEF TokenInv, ClaimsHold
<1>9. ClaimsHold'
  <2>1. \A g \in GrantIds' : codes'[agentGrants'[g].code].used
    BY <1>1, <1>3, <1>4, <1>8 DEF TokenInv, ClaimsHold
  <2>2. \A y \in Callers : Is(y, "grant")' =>
            y # x /\ Is(y, "grant") /\ Subject(y)' = Subject(y) /\ Subject(y) # c
    BY <1>6, <1>8 DEF Is, Subject
  <2>3. \A y \in Callers : Is(y, "grant")' =>
           /\ codes'[Subject(y)'].used
           /\ \A g \in GrantIds' : agentGrants'[g].code # Subject(y)'
           /\ \A z \in Callers : Is(z, "grant")' /\ Subject(z)' = Subject(y)' => z = y
    BY <1>1, <1>3, <1>4, <2>2 DEF TokenInv, ClaimsHold
  <2>4. \A g, h \in GrantIds' : agentGrants'[g].code = agentGrants'[h].code => g = h
    <3>1. \A g, h \in GrantIds : agentGrants'[g].code = agentGrants'[h].code => g = h
      BY <1>3 DEF TokenInv, ClaimsHold
    <3>2. \A g \in GrantIds : agentGrants'[g].code # agentGrants'[n].code
      BY <1>3, <1>8
    <3> QED  BY <1>4, <3>1, <3>2
  <2> QED  BY <2>1, <2>3, <2>4 DEF ClaimsHold
<1>10. OneLine'
  <2>1. \A t \in TokenIds : tokens[t].grant \in GrantIds
    BY DEF TokenInv, TokenShape
  <2>2. \A y \in Callers : Is(y, "issue") => Subject(y) \in GrantIds
    BY DEF TokenInv, TokenShape, Works, Is
  <2>3. \A y \in Callers : Is(y, "issue")' =>
            \/ y = x /\ Subject(y)' = n
            \/ y # x /\ Is(y, "issue") /\ Subject(y)' = Subject(y) /\ Subject(y) \in GrantIds
    BY <1>6, <2>2 DEF Is, Subject
  <2> HIDE DEF n
  <2> SUFFICES ASSUME NEW g \in GrantIds', ~agentGrants'[g].revoked
               PROVE  /\ \A t, u \in TokenIds :
                             tokens[t].grant = g /\ ~tokens[t].used
                               /\ tokens[u].grant = g /\ ~tokens[u].used => t = u
                      /\ \A y \in Callers : Is(y, "issue")' /\ Subject(y)' = g =>
                             /\ \A t \in TokenIds : tokens[t].grant = g => tokens[t].used
                             /\ \A z \in Callers : Is(z, "issue")' /\ Subject(z)' = g => z = y
    BY <1>1, <1>4 DEF OneLine
  <2>4. CASE g = n
    <3>1. \A t \in TokenIds : tokens[t].grant # g  BY <1>4, <2>1, <2>4
    <3>2. \A y \in Callers : Is(y, "issue")' /\ Subject(y)' = g => y = x
      BY <1>4, <2>3, <2>4
    <3> QED  BY <3>1, <3>2
  <2>5. CASE g # n
    <3>1. g \in GrantIds /\ ~agentGrants[g].revoked  BY <1>3, <1>4, <2>5
    <3> QED  BY <2>3, <2>5, <3>1 DEF TokenInv, OneLine
  <2> QED  BY <2>4, <2>5
<1> QED  BY <1>7, <1>9, <1>10 DEF TokenInv

LEMMA IssueTokensKeeps ==
    ASSUME TokenInv, NEW x \in Callers, IssueTokens(x)
    PROVE  TokenInv'
<1> DEFINE g == Subject(x)
           n == Len(tokens) + 1
           new == [grant |-> g, used |-> FALSE, access |-> TRUE, refresh |-> TRUE]
<1>1. Is(x, "issue") /\ g \in GrantIds /\ g \in Nat /\ UNCHANGED <<codes, agentGrants>>
  BY LenProperties DEF IssueTokens, TokenInv, TokenShape, Works, Is, GrantIds
<1>2. /\ tokens \in Seq(TokenRecord) /\ Len(tokens) \in Nat
      /\ new \in TokenRecord /\ tokens' = Append(tokens, new)
  BY <1>1 DEF IssueTokens, TokenInv, TokenShape, TokenRecord
<1>3. /\ tokens' \in Seq(TokenRecord) /\ Len(tokens') = n /\ tokens'[n] = new
      /\ \A t \in TokenIds : tokens'[t] = tokens[t]
  BY <1>2, AppendProperties DEF TokenIds
<1>4. TokenIds' = TokenIds \cup {n} /\ n \notin TokenIds /\ GrantIds' = GrantIds
  BY <1>1, <1>2, <1>3 DEF GrantIds, TokenIds
<1>5. /\ DOMAIN caller' = Callers
      /\ caller'[x].at = "free" /\ caller'[x].on = 0
      /\ \A y \in Callers : y # x => caller'[y] = caller[y]
      /\ \A y \in Callers : caller'[y] = [at |-> caller'[y].at, on |-> caller'[y].on]
  BY CallerMoves DEF IssueTokens, Returns, Free, TokenInv, TokenShape
<1>6. TokenShape'
  BY <1>1, <1>3, <1>4, <1>5 DEF TokenInv, TokenShape, Works, Is, Subject
<1>7. ClaimsHold'
  BY <1>1, <1>4, <1>5 DEF TokenInv, ClaimsHold, Is, Subject
<1>8. OneLine'
  <2>1. \A y \in Callers : Is(y, "issue")' =>
            y # x /\ Is(y, "issue") /\ Subject(y)' = Subject(y)
    BY <1>5 DEF Is, Subject
  <2> SUFFICES ASSUME NEW h \in GrantIds, ~agentGrants[h].revoked
               PROVE  /\ \A t, u \in TokenIds' :
                             tokens'[t].grant = h /\ ~tokens'[t].used
                               /\ tokens'[u].grant = h /\ ~tokens'[u].used => t = u
                      /\ \A y \in Callers : Is(y, "issue")' /\ Subject(y)' = h =>
                             /\ \A t \in TokenIds' : tokens'[t].grant = h => tokens'[t].used
                             /\ \A z \in Callers : Is(z, "issue")' /\ Subject(z)' = h => z = y
    BY <1>1, <1>4 DEF OneLine
  <2>2. CASE h = g
    <3>1. \A t \in TokenIds : tokens[t].grant = h => tokens[t].used
      BY <1>1, <2>2 DEF TokenInv, OneLine
    <3>2. \A y \in Callers : ~(Is(y, "issue")' /\ Subject(y)' = h)
      BY <1>1, <2>1, <2>2 DEF TokenInv, OneLine
    <3>3. \A t \in TokenIds' : tokens'[t].grant = h /\ ~tokens'[t].used => t = n
      BY <1>3, <1>4, <3>1
    <3> QED  BY <3>2, <3>3
  <2>3. CASE h # g
    <3>1. \A t \in TokenIds' : tokens'[t].grant = h => t \in TokenIds /\ tokens'[t] = tokens[t]
      BY <1>3, <1>4, <2>3
    <3> QED  BY <2>1, <2>3, <3>1 DEF TokenInv, OneLine
  <2> QED  BY <2>2, <2>3
<1> QED  BY <1>6, <1>7, <1>8 DEF TokenInv

\* Steps that change one token's row: nothing becomes unused.
LEMMA TokenRow ==
    ASSUME TokenShape, NEW t \in TokenIds, NEW row \in TokenRecord,
           row.grant = tokens[t].grant, tokens' = [tokens EXCEPT ![t] = row]
    PROVE  /\ tokens' \in Seq(TokenRecord) /\ TokenIds' = TokenIds
           /\ tokens'[t] = row
           /\ \A u \in TokenIds : u # t => tokens'[u] = tokens[u]
           /\ \A u \in TokenIds : tokens'[u].grant = tokens[u].grant
BY ExceptSeq DEF TokenShape, TokenIds

LEMMA ExceptTwice ==
    ASSUME TokenShape, NEW t \in TokenIds,
           tokens' = [tokens EXCEPT ![t].access = FALSE, ![t].refresh = FALSE]
    PROVE  tokens' = [tokens EXCEPT ![t] = [tokens[t] EXCEPT !.access = FALSE, !.refresh = FALSE]]
<1>1. tokens \in [TokenIds -> TokenRecord] /\ tokens[t] \in TokenRecord
  BY TokenElements, LenProperties DEF TokenShape, TokenIds
<1> QED  BY <1>1 DEF TokenRecord

LEMMA TokenLapsesKeeps ==
    ASSUME TokenInv, NEW t \in TokenIds, TokenLapses(t)
    PROVE  TokenInv'
<1>1. tokens[t] \in TokenRecord /\ UNCHANGED <<codes, agentGrants, caller>>
  BY TokenElements DEF TokenInv, TokenLapses
<1>2. \E row \in TokenRecord :
          /\ row.grant = tokens[t].grant /\ row.used = tokens[t].used
          /\ tokens' = [tokens EXCEPT ![t] = row]
  <2>1. CASE tokens' = [tokens EXCEPT ![t].access = FALSE]
    <3>1. PICK row \in TokenRecord : row = [tokens[t] EXCEPT !.access = FALSE]
      BY <1>1 DEF TokenRecord
    <3>2. row.grant = tokens[t].grant /\ row.used = tokens[t].used
      BY <1>1, <3>1 DEF TokenRecord
    <3>3. tokens' = [tokens EXCEPT ![t] = row]  BY <2>1, <3>1
    <3> QED  BY <3>2, <3>3
  <2>2. CASE tokens' = [tokens EXCEPT ![t].access = FALSE, ![t].refresh = FALSE]
    <3>1. PICK row \in TokenRecord :
              row = [tokens[t] EXCEPT !.access = FALSE, !.refresh = FALSE]
      BY <1>1 DEF TokenRecord
    <3>2. row.grant = tokens[t].grant /\ row.used = tokens[t].used
      BY <1>1, <3>1 DEF TokenRecord
    <3>3. tokens' = [tokens EXCEPT ![t] = row]
      BY <2>2, <3>1, ExceptTwice DEF TokenInv, TokenShape, TokenIds
    <3> QED  BY <3>2, <3>3
  <2> QED  BY <2>1, <2>2 DEF TokenLapses
<1>3. PICK row \in TokenRecord :
          /\ row.grant = tokens[t].grant /\ row.used = tokens[t].used
          /\ tokens' = [tokens EXCEPT ![t] = row]
  BY <1>2
<1>4. /\ tokens' \in Seq(TokenRecord) /\ TokenIds' = TokenIds /\ GrantIds' = GrantIds
      /\ \A u \in TokenIds : tokens'[u].grant = tokens[u].grant /\ tokens'[u].used = tokens[u].used
  <2>1. /\ tokens' \in Seq(TokenRecord) /\ TokenIds' = TokenIds /\ tokens'[t] = row
        /\ \A u \in TokenIds : u # t => tokens'[u] = tokens[u]
        /\ \A u \in TokenIds : tokens'[u].grant = tokens[u].grant
    BY <1>3, TokenRow DEF TokenInv
  <2>2. ASSUME NEW u \in TokenIds PROVE tokens'[u].used = tokens[u].used
    BY <1>3, <2>1
  <2> QED  BY <1>1, <2>1, <2>2 DEF GrantIds
<1>5. TokenShape'  BY <1>1, <1>4 DEF TokenInv, TokenShape, Works, Is, Subject
<1>6. ClaimsHold'  BY <1>1, <1>4 DEF TokenInv, ClaimsHold, Is, Subject
<1>7. OneLine'  BY <1>1, <1>4 DEF TokenInv, OneLine, Is, Subject
<1> QED  BY <1>5, <1>6, <1>7 DEF TokenInv

LEMMA RotateTokenKeeps ==
    ASSUME TokenInv, NEW x \in Callers, RotateToken(x)
    PROVE  TokenInv'
<1> DEFINE t == Subject(x)
           g == tokens[t].grant
<1>1. /\ Is(x, "rotate") /\ t \in TokenIds /\ g \in GrantIds
      /\ tokens[t] \in TokenRecord /\ UNCHANGED <<codes, agentGrants>>
  BY TokenElements DEF RotateToken, TokenInv, TokenShape, Works, Is
<1>2. CASE tokens[t].used
  BY <1>1, <1>2, IdleMoveKeeps DEF RotateToken, TokenUnused, Moves
<1>3. CASE ~tokens[t].used
  <2>1. PICK row \in TokenRecord : row = [tokens[t] EXCEPT !.used = TRUE]
    BY <1>1 DEF TokenRecord
  <2>2. /\ tokens' = [tokens EXCEPT ![t] = row] /\ row.grant = g /\ row.used
        /\ caller' = [caller EXCEPT ![x] = [at |-> "issue", on |-> g]]
    BY <1>1, <1>3, <2>1 DEF RotateToken, TokenUnused, Moves, TokenRecord
  <2>3. /\ tokens' \in Seq(TokenRecord) /\ TokenIds' = TokenIds /\ GrantIds' = GrantIds
        /\ tokens'[t].used
        /\ \A u \in TokenIds : u # t => tokens'[u] = tokens[u]
        /\ \A u \in TokenIds : tokens'[u].grant = tokens[u].grant
    BY <1>1, <2>2, TokenRow DEF TokenInv, GrantIds
  <2>4. /\ DOMAIN caller' = Callers
        /\ caller'[x].at = "issue" /\ caller'[x].on = g
        /\ \A y \in Callers : y # x => caller'[y] = caller[y]
        /\ \A y \in Callers : caller'[y] = [at |-> caller'[y].at, on |-> caller'[y].on]
    BY <2>2, CallerMoves DEF TokenInv, TokenShape
  <2>5. TokenShape'
    <3>1. \A u \in TokenIds : tokens'[u].grant \in GrantIds
      BY <2>3 DEF TokenInv, TokenShape
    <3>2. \A y \in Callers : y # x => Works(y)'
      BY <2>3, <2>4 DEF TokenInv, TokenShape, Works, Is, Subject
    <3>3. Works(x)'
      BY <1>1, <2>3, <2>4 DEF Works, Is, Subject
    <3> HIDE DEF t, g
    <3> QED  BY <1>1, <2>3, <2>4, <3>1, <3>2, <3>3 DEF TokenInv, TokenShape
  <2>6. ClaimsHold'
    BY <1>1, <2>3, <2>4 DEF TokenInv, ClaimsHold, Is, Subject
  <2>7. OneLine'
    <3>1. \A y \in Callers : Is(y, "issue")' =>
              \/ y = x /\ Subject(y)' = g
              \/ y # x /\ Is(y, "issue") /\ Subject(y)' = Subject(y)
      BY <2>4 DEF Is, Subject
    <3> HIDE DEF g, t
    <3> SUFFICES ASSUME NEW h \in GrantIds, ~agentGrants[h].revoked
                 PROVE  /\ \A u, w \in TokenIds :
                               tokens'[u].grant = h /\ ~tokens'[u].used
                                 /\ tokens'[w].grant = h /\ ~tokens'[w].used => u = w
                        /\ \A y \in Callers : Is(y, "issue")' /\ Subject(y)' = h =>
                               /\ \A u \in TokenIds : tokens'[u].grant = h => tokens'[u].used
                               /\ \A z \in Callers : Is(z, "issue")' /\ Subject(z)' = h => z = y
      BY <1>1, <2>3 DEF OneLine
    <3>2. \A u \in TokenIds : tokens'[u].grant = h /\ ~tokens'[u].used
                                => tokens[u].grant = h /\ ~tokens[u].used /\ u # t
      BY <2>3
    <3>3. CASE h = g
      <4>1. tokens[t].grant = h /\ ~tokens[t].used  BY <1>3, <3>3 DEF g
      <4>2. \A u \in TokenIds : tokens'[u].grant = h => tokens'[u].used
        BY <1>1, <3>2, <4>1 DEF TokenInv, OneLine
      <4>3. \A y \in Callers : ~(Is(y, "issue") /\ Subject(y) = h)
        BY <1>1, <4>1 DEF TokenInv, OneLine
      <4>4. \A y \in Callers : Is(y, "issue")' /\ Subject(y)' = h => y = x
        BY <3>1, <4>3
      <4> QED  BY <4>2, <4>4
    <3>4. CASE h # g
      <4>1. \A u \in TokenIds : tokens[u].grant = h => tokens'[u] = tokens[u]
        BY <2>3, <3>4 DEF g
      <4>2. \A y \in Callers : Is(y, "issue")' /\ Subject(y)' = h
                                  => Is(y, "issue") /\ Subject(y) = h
        BY <3>1, <3>4
      <4>3. \A u, w \in TokenIds :
                tokens'[u].grant = h /\ ~tokens'[u].used
                  /\ tokens'[w].grant = h /\ ~tokens'[w].used => u = w
        BY <3>2 DEF TokenInv, OneLine
      <4>4. \A y \in Callers : Is(y, "issue")' /\ Subject(y)' = h =>
                /\ \A u \in TokenIds : tokens'[u].grant = h => tokens'[u].used
                /\ \A z \in Callers : Is(z, "issue")' /\ Subject(z)' = h => z = y
        BY <2>3, <3>2, <4>2 DEF TokenInv, OneLine
      <4> QED  BY <4>3, <4>4
    <3> QED  BY <3>3, <3>4
  <2> QED  BY <2>5, <2>6, <2>7 DEF TokenInv
<1> QED  BY <1>2, <1>3

\* Steps that change one grant's row.
LEMMA GrantRow ==
    ASSUME TokenShape, NEW g \in GrantIds, NEW row \in GrantRecord,
           agentGrants' = [agentGrants EXCEPT ![g] = row]
    PROVE  /\ agentGrants' \in Seq(GrantRecord) /\ GrantIds' = GrantIds
           /\ agentGrants'[g] = row
           /\ \A h \in GrantIds : h # g => agentGrants'[h] = agentGrants[h]
BY ExceptSeq DEF TokenShape, GrantIds

\* The row of a grant that is ended.
LEMMA RevokedRow ==
    ASSUME TokenInv, NEW g \in GrantIds,
           agentGrants' = [agentGrants EXCEPT ![g].revoked = TRUE]
    PROVE  /\ agentGrants' \in Seq(GrantRecord) /\ GrantIds' = GrantIds
           /\ agentGrants'[g].revoked
           /\ \A h \in GrantIds : /\ agentGrants'[h].code = agentGrants[h].code
                                  /\ agentGrants[h].revoked => agentGrants'[h].revoked
<1>1. agentGrants[g] \in GrantRecord  BY GrantElements DEF TokenInv
<1>2. PICK row \in GrantRecord : row = [agentGrants[g] EXCEPT !.revoked = TRUE]
  BY <1>1 DEF GrantRecord
<1>3. row \in GrantRecord /\ row.code = agentGrants[g].code /\ row.revoked
  BY <1>1, <1>2 DEF GrantRecord
<1>4. agentGrants' = [agentGrants EXCEPT ![g] = row]  BY <1>2
<1>5. /\ agentGrants' \in Seq(GrantRecord) /\ GrantIds' = GrantIds /\ agentGrants'[g] = row
      /\ \A h \in GrantIds : h # g => agentGrants'[h] = agentGrants[h]
  BY <1>3, <1>4, GrantRow DEF TokenInv
<1>6. ASSUME NEW h \in GrantIds
      PROVE  /\ agentGrants'[h].code = agentGrants[h].code
             /\ agentGrants[h].revoked => agentGrants'[h].revoked
  BY <1>3, <1>5, <1>6
<1> QED  BY <1>3, <1>5, <1>6

LEMMA GrantEndsKeeps ==
    ASSUME TokenInv, UNCHANGED <<codes, tokens, caller>>,
           NEW g \in GrantIds, agentGrants' = [agentGrants EXCEPT ![g].revoked = TRUE]
    PROVE  TokenInv'
<1>1. /\ agentGrants' \in Seq(GrantRecord) /\ GrantIds' = GrantIds /\ TokenIds' = TokenIds
      /\ \A h \in GrantIds : agentGrants'[h].code = agentGrants[h].code
      /\ \A h \in GrantIds : agentGrants[h].revoked => agentGrants'[h].revoked
  BY RevokedRow DEF TokenIds
<1>2. TokenShape'  BY <1>1 DEF TokenInv, TokenShape, Works, Is, Subject
<1>3. ClaimsHold'  BY <1>1 DEF TokenInv, ClaimsHold, Is, Subject
<1>4. OneLine'  BY <1>1 DEF TokenInv, OneLine, Is, Subject
<1> QED  BY <1>2, <1>3, <1>4 DEF TokenInv

LEMMA RevokeReusedKeeps ==
    ASSUME TokenInv, NEW x \in Callers, RevokeReused(x)
    PROVE  TokenInv'
<1> DEFINE g == Subject(x)
<1>1. g \in GrantIds /\ UNCHANGED <<codes, tokens>>
      /\ agentGrants' = [agentGrants EXCEPT ![g].revoked = TRUE]
  BY DEF RevokeReused, Revoked, TokenInv, TokenShape, Works, Is
<1>2. /\ agentGrants' \in Seq(GrantRecord) /\ GrantIds' = GrantIds /\ TokenIds' = TokenIds
      /\ \A h \in GrantIds : agentGrants'[h].code = agentGrants[h].code
      /\ \A h \in GrantIds : agentGrants[h].revoked => agentGrants'[h].revoked
  BY <1>1, RevokedRow DEF TokenIds
<1>3. /\ DOMAIN caller' = Callers
      /\ caller'[x].at = "free" /\ caller'[x].on = 0
      /\ \A y \in Callers : y # x => caller'[y] = caller[y]
      /\ \A y \in Callers : caller'[y] = [at |-> caller'[y].at, on |-> caller'[y].on]
  BY CallerMoves DEF RevokeReused, Returns, Free, TokenInv, TokenShape
<1>4. TokenShape'  BY <1>1, <1>2, <1>3 DEF TokenInv, TokenShape, Works, Is, Subject
<1>5. ClaimsHold'  BY <1>1, <1>2, <1>3 DEF TokenInv, ClaimsHold, Is, Subject
<1>6. OneLine'
  <2>1. \A y \in Callers : Is(y, "issue")' =>
            Is(y, "issue") /\ Subject(y)' = Subject(y)
    BY <1>3 DEF Is, Subject
  <2> HIDE DEF g
  <2> QED  BY <1>1, <1>2, <2>1 DEF TokenInv, OneLine
<1> QED  BY <1>4, <1>5, <1>6 DEF TokenInv

LEMMA ReadTokenKeeps ==
    ASSUME TokenInv, NEW x \in Callers, NEW t \in TokenIds, ReadToken(x, t)
    PROVE  TokenInv'
<1>1. tokens[t].grant \in GrantIds /\ UNCHANGED <<codes, agentGrants, tokens>>
  BY DEF TokenInv, TokenShape, ReadToken
<1>2. CASE caller' = [caller EXCEPT ![x] = [at |-> "revoke", on |-> tokens[t].grant]]
  BY <1>1, <1>2, IdleMoveKeeps
<1>3. CASE caller' = [caller EXCEPT ![x] = [at |-> "rotate", on |-> t]]
  BY <1>1, <1>3, IdleMoveKeeps
<1> QED  BY <1>2, <1>3 DEF ReadToken, Moves

LEMMA SequenceDomains ==
    ASSUME TokenInv
    PROVE  DOMAIN tokens = TokenIds /\ DOMAIN agentGrants = GrantIds
BY LenProperties DEF TokenInv, TokenShape, TokenIds, GrantIds

LEMMA TokenStep ==
    ASSUME TokenInv, [AgentNext]_agentVars
    PROVE  TokenInv'
<1>1. CASE UNCHANGED <<codes, agentGrants, tokens, caller>>
  BY <1>1 DEF TokenInv, TokenShape, ClaimsHold, OneLine, Works, Is, Subject, GrantIds, TokenIds
<1>2. ASSUME NEW c \in Codes, IssueCode(c) \/ CodeExpires(c) PROVE TokenInv'
  BY <1>2, CodeRowKeeps DEF IssueCode, CodeExpires
<1>3. ASSUME NEW c \in Codes, NEW x \in Callers, ReadCode(x, c) PROVE TokenInv'
  BY <1>3, IdleMoveKeeps DEF ReadCode, Moves
<1>4. ASSUME NEW t \in DOMAIN tokens,
             TokenLapses(t) \/ \E x \in Callers : ReadToken(x, t)
      PROVE TokenInv'
  BY <1>4, SequenceDomains, TokenLapsesKeeps, ReadTokenKeeps
<1>5. ASSUME NEW x \in Callers, CallerSteps(x) PROVE TokenInv'
  BY <1>5, ClaimCodeKeeps, CreateGrantKeeps, IssueTokensKeeps, RotateTokenKeeps,
     RevokeReusedKeeps DEF CallerSteps
<1>6. ASSUME NEW x \in Callers, CallerDies(x) PROVE TokenInv'
  BY <1>6, IdleMoveKeeps DEF CallerDies, Returns, Free
<1>7. ASSUME NEW g \in DOMAIN agentGrants, RevokeGrant(g) PROVE TokenInv'
  BY <1>7, SequenceDomains, GrantEndsKeeps DEF RevokeGrant, Revoked
<1>8. ASSUME NEW a \in Actions,
             \/ RejectAction(a) \/ ActionExpires(a)
             \/ \E g \in {0} \cup DOMAIN agentGrants : PrepareAction(a, g)
             \/ \E y \in Clicks : ConfirmAction(y, a)
      PROVE TokenInv'
  BY <1>1, <1>8 DEF RejectAction, ActionExpires, PrepareAction, ConfirmAction
<1>9. ASSUME NEW y \in Clicks, ClickSteps(y) \/ ClickDies(y) PROVE TokenInv'
  BY <1>1, <1>9 DEF ClickSteps, CheckGrant, RunCall, FinishAction, ExecutedIsLost, ClickDies
<1> QED
  BY <1>1, <1>2, <1>3, <1>4, <1>5, <1>6, <1>7, <1>8, <1>9 DEF AgentNext, agentVars

----------------------------------------------------------------------------
(* Actions.                                                                *)

ClickRecord == [at : ClickSides, action : Actions \cup {0}]

LEMMA StatusMoves ==
    ASSUME ActionShape, NEW a \in Actions, NEW status \in ActionStatuses,
           Decided(a, status)
    PROVE  /\ actions' \in [Actions -> ActionRecord] /\ actions'[a].status = status
           /\ \A b \in Actions : /\ actions'[b].grant = actions[b].grant
                                 /\ b # a => actions'[b] = actions[b]
BY DEF ActionShape, ActionRecord, Decided

LEMMA ClickMoves ==
    ASSUME ActionShape, NEW y \in Clicks, NEW row \in ClickRecord,
           click' = [click EXCEPT ![y] = row]
    PROVE  /\ click' \in [Clicks -> ClickRecord] /\ click'[y] = row
           /\ \A z \in Clicks : z # y => click'[z] = click[z]
BY DEF ActionShape, ClickRecord

LEMMA ClickGoesOn ==
    ASSUME ActionShape, NEW y \in Clicks, NEW step \in ClickSides, ClickAt(y, step)
    PROVE  /\ click' \in [Clicks -> ClickRecord]
           /\ click'[y].at = step /\ click'[y].action = click[y].action
           /\ \A z \in Clicks : z # y => click'[z] = click[z]
BY DEF ActionShape, ClickRecord, ClickAt

\* A decision about an action that nobody holds.
LEMMA DecisionKeeps ==
    ASSUME ActionInv, NEW a \in Actions, NEW status \in {"REJECTED", "EXPIRED"},
           actions[a].status = "PENDING", Decided(a, status), UNCHANGED <<click, ran, unanswered>>
    PROVE  ActionInv'
<1>1. /\ actions' \in [Actions -> ActionRecord] /\ actions'[a].status = status
      /\ \A b \in Actions : b # a => actions'[b] = actions[b]
  BY StatusMoves DEF ActionInv, ActionStatuses
<1>2. ActionShape'  BY <1>1 DEF ActionInv, ActionShape
<1>3. OneHand'  BY <1>1 DEF ActionInv, ActionShape, OneHand, HasRun
<1> QED  BY <1>2, <1>3 DEF ActionInv

LEMMA PrepareKeeps ==
    ASSUME TokenInv, ActionInv, NEW a \in Actions, NEW g \in {0} \cup GrantIds,
           PrepareAction(a, g)
    PROVE  ActionInv'
<1>1. g \in Nat  BY LenProperties DEF TokenInv, TokenShape, GrantIds
<1>2. /\ actions' \in [Actions -> ActionRecord] /\ actions'[a].status = "PENDING"
      /\ \A b \in Actions : b # a => actions'[b] = actions[b]
      /\ actions[a].status = "none" /\ UNCHANGED <<click, ran, unanswered>>
  BY <1>1 DEF PrepareAction, Unprepared, ActionInv, ActionShape, ActionRecord, ActionStatuses
<1>3. ActionShape'  BY <1>2 DEF ActionInv, ActionShape
<1>4. OneHand'  BY <1>2 DEF ActionInv, ActionShape, OneHand, HasRun
<1> QED  BY <1>3, <1>4 DEF ActionInv

LEMMA ConfirmKeeps ==
    ASSUME ActionInv, NEW y \in Clicks, NEW a \in Actions, ConfirmAction(y, a)
    PROVE  ActionInv'
<1>1. /\ actions' \in [Actions -> ActionRecord] /\ actions'[a].status = "EXECUTING"
      /\ \A b \in Actions : b # a => actions'[b] = actions[b]
  BY StatusMoves DEF ConfirmAction, ActionInv, ActionStatuses
<1>2. PICK row \in ClickRecord : row = [at |-> "check", action |-> a]
  BY DEF ClickRecord, ClickSides
<1>3. /\ click' \in [Clicks -> ClickRecord]
      /\ click'[y].at = "check" /\ click'[y].action = a
      /\ \A z \in Clicks : z # y => click'[z] = click[z]
  BY <1>2, ClickMoves DEF ConfirmAction, ActionInv
<1>4. /\ actions[a].status = "PENDING" /\ ran[a] = 0 /\ UNCHANGED <<ran, unanswered>>
      /\ \A z \in Clicks : click[z].at # "free" => click[z].action # a
  BY DEF ConfirmAction, Undecided, ActionInv, OneHand
<1>5. ActionShape'  BY <1>1, <1>3, <1>4 DEF ActionInv, ActionShape, ClickRecord
<1>6. OneHand'  BY <1>1, <1>3, <1>4 DEF ActionInv, ActionShape, OneHand, HasRun
<1> QED  BY <1>5, <1>6 DEF ActionInv

\* A request that lets go of its action, having decided it or not.
LEMMA LettingGoKeeps ==
    ASSUME ActionInv, NEW y \in Clicks, click[y].at # "free",
           click' = [click EXCEPT ![y] = Unclicked], UNCHANGED <<ran, unanswered>>,
           \/ UNCHANGED actions
           \/ /\ click[y].at # "ran" /\ Decided(click[y].action, "FAILED")
           \/ /\ click[y].at = "ran" /\ Decided(click[y].action, "EXECUTED")
    PROVE  ActionInv'
<1> DEFINE a == click[y].action
<1>1. PICK row \in ClickRecord : row = Unclicked
  BY DEF ClickRecord, ClickSides, Unclicked
<1>2. /\ click' \in [Clicks -> ClickRecord] /\ click'[y].at = "free"
      /\ \A z \in Clicks : z # y => click'[z] = click[z]
  BY <1>1, ClickMoves DEF ActionInv, Unclicked
<1>3. /\ a \in Actions
      /\ ran[a] = (IF click[y].at = "ran" \/ (click[y].at = "caught" /\ a \in unanswered)
                   THEN 1 ELSE 0)
      /\ \A z \in Clicks : click[z].at # "free" /\ z # y => click[z].action # a
  BY DEF ActionInv, ActionShape, OneHand, HasRun
<1>4. /\ actions' \in [Actions -> ActionRecord]
      /\ \A b \in Actions : b # a => actions'[b] = actions[b]
      /\ \/ actions'[a] = actions[a]
         \/ click[y].at # "ran" /\ actions'[a].status = "FAILED"
         \/ click[y].at = "ran" /\ actions'[a].status = "EXECUTED"
  <2>1. CASE UNCHANGED actions  BY <2>1 DEF ActionInv, ActionShape
  <2>2. CASE click[y].at # "ran" /\ Decided(a, "FAILED")
    BY <1>3, <2>2, StatusMoves DEF ActionInv, ActionStatuses
  <2>3. CASE click[y].at = "ran" /\ Decided(a, "EXECUTED")
    BY <1>3, <2>3, StatusMoves DEF ActionInv, ActionStatuses
  <2> QED  BY <2>1, <2>2, <2>3
<1> HIDE DEF a
<1>5. ActionShape'  BY <1>2, <1>4 DEF ActionInv, ActionShape, ClickRecord
<1>6. \A z \in Clicks : click'[z].at # "free" =>
          z # y /\ click'[z] = click[z] /\ click[z].action # a /\ click[z].action \in Actions
  BY <1>2, <1>3 DEF ActionInv, ActionShape
<1>7. OneHand'
  <2>1. \A z \in Clicks : click'[z].at # "free" =>
           /\ actions'[click'[z].action].status = "EXECUTING"
           /\ ran'[click'[z].action] = (IF HasRun(z)' THEN 1 ELSE 0)
           /\ click'[z].at = "ran" => click'[z].action \notin unanswered'
           /\ \A w \in Clicks :
                  click'[w].at # "free" /\ click'[w].action = click'[z].action => w = z
    BY <1>4, <1>6 DEF ActionInv, OneHand, HasRun
  <2>2. \A b \in Actions :
           /\ actions'[b].status \notin {"EXECUTING", "EXECUTED"} =>
                  ran'[b] = 0 \/ (actions'[b].status = "FAILED" /\ b \in unanswered')
           /\ actions'[b].status = "EXECUTED" => ran'[b] = 1
           /\ ran'[b] <= 1
           /\ b \in unanswered' => ran'[b] = 1
    BY <1>3, <1>4 DEF ActionInv, OneHand
  <2> QED  BY <2>1, <2>2 DEF OneHand
<1> QED  BY <1>5, <1>7 DEF ActionInv

\* A request that goes on, to its call or past it: whether the call was made is
\* known from the step it is at, and from what was lost.
LEMMA GoingOnKeeps ==
    ASSUME ActionInv, NEW y \in Clicks, click[y].at # "free",
           NEW step \in ClickSides \ {"free"}, ClickAt(y, step), UNCHANGED actions,
           NEW a, a = click[y].action,
           ran' \in [Actions -> Nat], unanswered' \subseteq Actions,
           \A b \in Actions : b # a =>
               ran'[b] = ran[b] /\ (b \in unanswered' <=> b \in unanswered),
           ran'[a] = (IF step = "ran" \/ (step = "caught" /\ a \in unanswered')
                      THEN 1 ELSE 0),
           a \in unanswered' => step = "caught"
    PROVE  ActionInv'
<1>1. /\ click' \in [Clicks -> ClickRecord]
      /\ click'[y].at = step /\ click'[y].action = a
      /\ \A z \in Clicks : z # y => click'[z] = click[z]
  BY ClickGoesOn DEF ActionInv
<1>2. /\ a \in Actions /\ actions[a].status = "EXECUTING"
      /\ \A z \in Clicks : click[z].at # "free" /\ z # y => click[z].action # a
  BY DEF ActionInv, ActionShape, OneHand
<1>3. ActionShape'  BY <1>1, <1>2 DEF ActionInv, ActionShape, ClickRecord
<1>4. \A z \in Clicks : click'[z].at # "free" =>
          \/ z = y
          \/ z # y /\ click'[z] = click[z] /\ click[z].action # a /\ click[z].action \in Actions
  BY <1>1, <1>2 DEF ActionInv, ActionShape
<1>5. \A z \in Clicks : click'[z].at # "free" =>
         /\ actions'[click'[z].action].status = "EXECUTING"
         /\ ran'[click'[z].action] = (IF HasRun(z)' THEN 1 ELSE 0)
         /\ click'[z].at = "ran" => click'[z].action \notin unanswered'
         /\ \A w \in Clicks :
                click'[w].at # "free" /\ click'[w].action = click'[z].action => w = z
  <2>1. ASSUME NEW z \in Clicks, click'[z].at # "free", z # y
        PROVE  /\ actions'[click'[z].action].status = "EXECUTING"
               /\ ran'[click'[z].action] = (IF HasRun(z)' THEN 1 ELSE 0)
               /\ click'[z].at = "ran" => click'[z].action \notin unanswered'
    BY <1>4, <2>1 DEF ActionInv, OneHand, HasRun
  <2>2. /\ actions'[click'[y].action].status = "EXECUTING"
        /\ ran'[click'[y].action] = (IF HasRun(y)' THEN 1 ELSE 0)
        /\ click'[y].at = "ran" => click'[y].action \notin unanswered'
    BY <1>1, <1>2 DEF HasRun
  <2>3. \A z \in Clicks : click'[z].at # "free" => \A w \in Clicks :
                click'[w].at # "free" /\ click'[w].action = click'[z].action => w = z
    BY <1>1, <1>4 DEF ActionInv, OneHand
  <2> QED  BY <2>1, <2>2, <2>3
<1>6. \A b \in Actions :
         /\ actions'[b].status \notin {"EXECUTING", "EXECUTED"} =>
                ran'[b] = 0 \/ (actions'[b].status = "FAILED" /\ b \in unanswered')
         /\ actions'[b].status = "EXECUTED" => ran'[b] = 1
         /\ ran'[b] <= 1
         /\ b \in unanswered' => ran'[b] = 1
  BY <1>2 DEF ActionInv, OneHand
<1> QED  BY <1>3, <1>5, <1>6 DEF ActionInv, OneHand

\* What a request that holds an action knows of it before it goes on.
LEMMA HolderKnows ==
    ASSUME ActionInv, NEW y \in Clicks, click[y].at # "free"
    PROVE  /\ click[y].action \in Actions
           /\ click[y].at \in {"check", "run"} =>
                  ran[click[y].action] = 0 /\ click[y].action \notin unanswered
           /\ click[y].at = "ran" => ran[click[y].action] = 1
           /\ ran \in [Actions -> Nat] /\ unanswered \subseteq Actions
BY DEF ActionInv, ActionShape, OneHand, HasRun

LEMMA CheckedKeeps ==
    ASSUME ActionInv, NEW y \in Clicks, click[y].at = "check", ClickAt(y, "run"),
           UNCHANGED <<actions, ran, unanswered>>
    PROVE  ActionInv'
BY HolderKnows, GoingOnKeeps DEF ClickSides

LEMMA RunCallKeeps ==
    ASSUME ActionInv, NEW y \in Clicks, RunCall(y)
    PROVE  ActionInv'
<1> DEFINE a == click[y].action
<1>1. /\ click[y].at = "run" /\ a \in Actions /\ ran[a] = 0 /\ a \notin unanswered
      /\ ran \in [Actions -> Nat] /\ unanswered \subseteq Actions /\ UNCHANGED actions
  BY HolderKnows DEF RunCall
<1>2. CASE ClickAt(y, "caught") /\ UNCHANGED <<ran, unanswered>>
  BY <1>1, <1>2, GoingOnKeeps DEF ClickSides
<1>3. ASSUME ran' = [ran EXCEPT ![a] = @ + 1]
      PROVE  /\ ran' \in [Actions -> Nat] /\ ran'[a] = 1
             /\ \A b \in Actions : b # a => ran'[b] = ran[b]
  BY <1>1, <1>3
<1>4. CASE ClickAt(y, "ran") /\ ran' = [ran EXCEPT ![a] = @ + 1] /\ UNCHANGED unanswered
  <2>1. /\ ran' \in [Actions -> Nat] /\ ran'[a] = 1
        /\ \A b \in Actions : b # a => ran'[b] = ran[b]
    BY <1>3, <1>4
  <2> HIDE DEF a
  <2> QED  BY <1>1, <1>4, <2>1, GoingOnKeeps DEF ClickSides, a
<1>5. CASE /\ ClickAt(y, "caught") /\ ran' = [ran EXCEPT ![a] = @ + 1]
           /\ unanswered' = unanswered \cup {a}
  <2>1. /\ ran' \in [Actions -> Nat] /\ ran'[a] = 1
        /\ \A b \in Actions : b # a => ran'[b] = ran[b]
    BY <1>3, <1>5
  <2> QED  BY <1>1, <1>5, <2>1, GoingOnKeeps DEF ClickSides
<1> QED  BY <1>2, <1>4, <1>5 DEF RunCall

LEMMA ExecutedIsLostKeeps ==
    ASSUME ActionInv, NEW y \in Clicks, ExecutedIsLost(y)
    PROVE  ActionInv'
<1>1. /\ click[y].at = "ran" /\ ClickAt(y, "caught") /\ UNCHANGED <<actions, ran>>
      /\ unanswered' = unanswered \cup {click[y].action}
  BY DEF ExecutedIsLost
<1>2. /\ click[y].action \in Actions /\ ran[click[y].action] = 1
      /\ ran \in [Actions -> Nat] /\ unanswered \subseteq Actions
  BY <1>1, HolderKnows
<1> QED  BY <1>1, <1>2, GoingOnKeeps DEF ClickSides

LEMMA ActionStep ==
    ASSUME TokenInv, ActionInv, [AgentNext]_agentVars
    PROVE  ActionInv'
<1>1. CASE UNCHANGED <<actions, click, ran, unanswered>>
  BY <1>1 DEF ActionInv, ActionShape, OneHand, HasRun
<1>2. ASSUME NEW a \in Actions, RejectAction(a) \/ ActionExpires(a) PROVE ActionInv'
  BY <1>2, DecisionKeeps DEF RejectAction, ActionExpires, Undecided
<1>3. ASSUME NEW a \in Actions, NEW g \in {0} \cup DOMAIN agentGrants, PrepareAction(a, g)
      PROVE ActionInv'
  BY <1>3, SequenceDomains, PrepareKeeps
<1>4. ASSUME NEW a \in Actions, NEW y \in Clicks, ConfirmAction(y, a) PROVE ActionInv'
  BY <1>4, ConfirmKeeps
<1>5. ASSUME NEW y \in Clicks, CheckGrant(y) PROVE ActionInv'
  BY <1>5, LettingGoKeeps, CheckedKeeps DEF CheckGrant
<1>6. ASSUME NEW y \in Clicks, RunCall(y) PROVE ActionInv'
  BY <1>6, RunCallKeeps
<1>7. ASSUME NEW y \in Clicks, FinishAction(y) PROVE ActionInv'
  BY <1>7, LettingGoKeeps DEF FinishAction, Outcome
<1>8. ASSUME NEW y \in Clicks, ClickDies(y) PROVE ActionInv'
  BY <1>8, LettingGoKeeps DEF ClickDies
<1>9. ASSUME NEW y \in Clicks, ExecutedIsLost(y) PROVE ActionInv'
  BY <1>9, ExecutedIsLostKeeps
<1>10. CASE \/ \E c \in Codes : IssueCode(c) \/ CodeExpires(c)
                                \/ \E x \in Callers : ReadCode(x, c)
            \/ \E t \in DOMAIN tokens : TokenLapses(t) \/ \E x \in Callers : ReadToken(x, t)
            \/ \E x \in Callers : CallerSteps(x) \/ CallerDies(x)
            \/ \E g \in DOMAIN agentGrants : RevokeGrant(g)
  BY <1>1, <1>10 DEF IssueCode, CodeExpires, ReadCode, TokenLapses, ReadToken, CallerSteps,
     ClaimCode, CreateGrant, IssueTokens, RotateToken, RevokeReused, CallerDies, RevokeGrant
<1> QED
  BY <1>1, <1>2, <1>3, <1>4, <1>5, <1>6, <1>7, <1>8, <1>9, <1>10
  DEF AgentNext, ClickSteps, agentVars

----------------------------------------------------------------------------
(* Actions whose grant ended.                                              *)

\* Steps after which every grant that had ended still has.
LEMMA HeldThroughOthers ==
    ASSUME WithdrawnHeld, UNCHANGED <<actions, click, ran, withdrawn>>,
           \A g \in GrantIds :
               g \in GrantIds' /\ (agentGrants[g].revoked => agentGrants'[g].revoked)
    PROVE  WithdrawnHeld'
BY DEF WithdrawnHeld

LEMMA HeldThroughRevocation ==
    ASSUME TokenInv, ActionInv, WithdrawnHeld, NEW g \in GrantIds, Revoked(g),
           UNCHANGED <<actions, click, ran, unanswered>>
    PROVE  WithdrawnHeld'
<1>1. /\ GrantIds' = GrantIds /\ agentGrants'[g].revoked
      /\ \A h \in GrantIds : agentGrants[h].revoked => agentGrants'[h].revoked
  BY RevokedRow DEF Revoked
<1>2. \A a \in WaitingUnder(g) :
          a \in Actions /\ actions[a].status = "PENDING" /\ actions[a].grant = g
  BY DEF WaitingUnder
<1>3. \A a \in WaitingUnder(g) :
          ran[a] = 0 /\ \A y \in Clicks : click[y].action = a => click[y].at \notin {"run", "ran"}
  BY <1>2 DEF ActionInv, OneHand
<1> QED  BY <1>1, <1>2, <1>3 DEF WithdrawnHeld, Revoked

\* Steps of the person and of the app on one action.
LEMMA HeldThroughDecision ==
    ASSUME ActionInv, WithdrawnHeld, NEW a \in Actions, NEW status \in ActionStatuses \ {"none"},
           Decided(a, status), UNCHANGED <<agentGrants, ran, withdrawn>>,
           \A y \in Clicks : click'[y].at \in {"run", "ran"} => click'[y] = click[y]
    PROVE  WithdrawnHeld'
<1>1. /\ actions'[a].status = status
      /\ \A b \in Actions : /\ actions'[b].grant = actions[b].grant
                            /\ b # a => actions'[b] = actions[b]
  BY StatusMoves DEF ActionInv
<1> QED  BY <1>1 DEF WithdrawnHeld, GrantIds

LEMMA WithdrawnStep ==
    ASSUME TokenInv, ActionInv, WithdrawnHeld, [AgentNext]_agentVars
    PROVE  WithdrawnHeld'
<1>1. CASE UNCHANGED <<agentGrants, actions, click, ran, withdrawn>>
  BY <1>1, HeldThroughOthers DEF GrantIds
<1>2. ASSUME NEW x \in Callers, CreateGrant(x) PROVE WithdrawnHeld'
  <2>1. Is(x, "grant") /\ Subject(x) \in Codes /\ UNCHANGED <<actions, click, ran, withdrawn>>
    BY <1>2 DEF CreateGrant, TokenInv, TokenShape, Works, Is
  <2>2. /\ agentGrants \in Seq(GrantRecord) /\ Len(agentGrants) \in Nat
        /\ [code |-> Subject(x), revoked |-> FALSE] \in GrantRecord
        /\ agentGrants' = Append(agentGrants, [code |-> Subject(x), revoked |-> FALSE])
    BY <1>2, <2>1 DEF CreateGrant, TokenInv, TokenShape, GrantRecord
  <2>3. /\ Len(agentGrants') = Len(agentGrants) + 1
        /\ \A g \in GrantIds : agentGrants'[g] = agentGrants[g]
    BY <2>2, AppendProperties DEF GrantIds
  <2> QED  BY <2>1, <2>2, <2>3, HeldThroughOthers DEF GrantIds
<1>3. ASSUME NEW x \in Callers, RevokeReused(x) PROVE WithdrawnHeld'
  BY <1>3, HeldThroughRevocation DEF RevokeReused, TokenInv, TokenShape, Works, Is
<1>4. ASSUME NEW g \in DOMAIN agentGrants, RevokeGrant(g) PROVE WithdrawnHeld'
  BY <1>4, SequenceDomains, HeldThroughRevocation DEF RevokeGrant
<1>5. ASSUME NEW a \in Actions, RejectAction(a) \/ ActionExpires(a) PROVE WithdrawnHeld'
  BY <1>5, HeldThroughDecision DEF RejectAction, ActionExpires, ActionStatuses
<1>6. ASSUME NEW a \in Actions, NEW g \in {0} \cup DOMAIN agentGrants, PrepareAction(a, g)
      PROVE WithdrawnHeld'
  <2>1. /\ a \notin withdrawn /\ UNCHANGED <<agentGrants, click, ran, withdrawn>>
        /\ \A b \in Actions : b # a => actions'[b] = actions[b]
    BY <1>6 DEF PrepareAction, Unprepared, WithdrawnHeld, ActionInv, ActionShape
  <2> QED  BY <2>1 DEF WithdrawnHeld, GrantIds
<1>7. ASSUME NEW a \in Actions, NEW y \in Clicks, ConfirmAction(y, a) PROVE WithdrawnHeld'
  <2>1. PICK row \in ClickRecord : row = [at |-> "check", action |-> a]
    BY DEF ClickRecord, ClickSides
  <2>2. /\ click'[y].at = "check"
        /\ \A z \in Clicks : z # y => click'[z] = click[z]
    BY <1>7, <2>1, ClickMoves DEF ConfirmAction, ActionInv
  <2> QED  BY <1>7, <2>2, HeldThroughDecision DEF ConfirmAction, ActionStatuses
<1>8. ASSUME NEW y \in Clicks, CheckGrant(y) PROVE WithdrawnHeld'
  <2> DEFINE a == click[y].action
  <2>1. a \in Actions /\ click[y].at = "check" /\ UNCHANGED <<agentGrants, ran, withdrawn>>
    BY <1>8 DEF CheckGrant, ActionInv, ActionShape
  <2>2. CASE StillGranted(actions[a].grant)
    <3>1. a \notin withdrawn
      BY <2>2, SequenceDomains DEF StillGranted, GrantLive, WithdrawnHeld, GrantIds
    <3>2. /\ UNCHANGED actions /\ click'[y].action = a
          /\ \A z \in Clicks : z # y => click'[z] = click[z]
      BY <1>8, <2>2, ClickGoesOn DEF CheckGrant, ActionInv, ClickSides
    <3> HIDE DEF a
    <3> QED  BY <2>1, <3>1, <3>2 DEF WithdrawnHeld, GrantIds
  <2>3. CASE ~StillGranted(actions[a].grant)
    <3>1. PICK row \in ClickRecord : row = Unclicked
      BY DEF ClickRecord, ClickSides, Unclicked
    <3>2. click'[y].at = "free" /\ \A z \in Clicks : z # y => click'[z] = click[z]
      BY <1>8, <2>3, <3>1, ClickMoves DEF CheckGrant, ActionInv, Unclicked
    <3> QED  BY <1>8, <2>1, <2>3, <3>2, HeldThroughDecision DEF CheckGrant, ActionStatuses
  <2> QED  BY <2>2, <2>3
<1>9. ASSUME NEW y \in Clicks, RunCall(y) PROVE WithdrawnHeld'
  <2> DEFINE a == click[y].action
  <2>1. /\ a \in Actions /\ a \notin withdrawn
        /\ UNCHANGED <<agentGrants, actions, withdrawn>>
    BY <1>9 DEF RunCall, ActionInv, ActionShape, WithdrawnHeld
  <2>2. /\ ClickAt(y, "ran") \/ ClickAt(y, "caught")
        /\ ran' = [ran EXCEPT ![a] = @ + 1] \/ UNCHANGED ran
    BY <1>9 DEF RunCall
  <2>3. click'[y].action = a /\ \A z \in Clicks : z # y => click'[z] = click[z]
    BY <2>2, ClickGoesOn DEF ActionInv, ClickSides
  <2>4. \A b \in Actions : b # a => ran'[b] = ran[b]
    BY <2>2 DEF ActionInv, ActionShape
  <2> HIDE DEF a
  <2> QED  BY <2>1, <2>3, <2>4 DEF WithdrawnHeld, GrantIds
<1>10. ASSUME NEW y \in Clicks, FinishAction(y) \/ ClickDies(y) PROVE WithdrawnHeld'
  <2>1. click[y].action \in Actions
    BY <1>10 DEF FinishAction, ClickDies, ActionInv, ActionShape
  <2>2. PICK row \in ClickRecord : row = Unclicked
    BY DEF ClickRecord, ClickSides, Unclicked
  <2>3. click'[y].at = "free" /\ \A z \in Clicks : z # y => click'[z] = click[z]
    BY <1>10, <2>2, ClickMoves DEF FinishAction, ClickDies, ActionInv, Unclicked
  <2>4. CASE FinishAction(y)
    <3>1. Outcome(y) \in ActionStatuses \ {"none"}  BY DEF Outcome, ActionStatuses
    <3> QED  BY <2>1, <2>3, <2>4, <3>1, HeldThroughDecision DEF FinishAction
  <2>5. CASE ClickDies(y)
    BY <2>3, <2>5 DEF ClickDies, WithdrawnHeld, GrantIds
  <2> QED  BY <1>10, <2>4, <2>5
<1>11. ASSUME NEW y \in Clicks, ExecutedIsLost(y) PROVE WithdrawnHeld'
  <2>1. /\ click[y].at = "ran" /\ ClickAt(y, "caught")
        /\ UNCHANGED <<agentGrants, actions, ran, withdrawn>>
    BY <1>11 DEF ExecutedIsLost
  <2>2. /\ click'[y].at = "caught"
        /\ \A z \in Clicks : z # y => click'[z] = click[z]
    BY <2>1, ClickGoesOn DEF ActionInv, ClickSides
  <2> QED  BY <2>1, <2>2 DEF WithdrawnHeld, GrantIds
<1>12. CASE \/ \E c \in Codes : IssueCode(c) \/ CodeExpires(c)
                                \/ \E x \in Callers : ReadCode(x, c)
            \/ \E t \in DOMAIN tokens : TokenLapses(t) \/ \E x \in Callers : ReadToken(x, t)
            \/ \E x \in Callers : ClaimCode(x) \/ IssueTokens(x) \/ RotateToken(x)
                                  \/ CallerDies(x)
  BY <1>1, <1>12 DEF IssueCode, CodeExpires, ReadCode, TokenLapses, ReadToken,
     ClaimCode, IssueTokens, RotateToken, CallerDies
<1> QED
  BY <1>1, <1>2, <1>3, <1>4, <1>5, <1>6, <1>7, <1>8, <1>9, <1>10, <1>11, <1>12
  DEF AgentNext, CallerSteps, ClickSteps, agentVars

----------------------------------------------------------------------------
\* Codes, tokens and actions stay as the statements of the requests leave them,
\* whatever the order in which those of several requests are executed.
THEOREM AgentInvariant == AgentSpec => []AgentInv
<1>1. AgentInv /\ [AgentNext]_agentVars => AgentInv'
  BY TokenStep, ActionStep, WithdrawnStep DEF AgentInv
<1> QED  BY AgentInitial, <1>1, PTL DEF AgentSpec

\* Tokens belong to grants, grants to codes that were spent, and whoever
\* confirms an action holds one that is EXECUTING.
THEOREM AgentTypeCorrect == AgentSpec => []AgentTypeOK
<1>1. AgentInv => AgentTypeOK
  <2> SUFFICES ASSUME AgentInv PROVE AgentTypeOK  OBVIOUS
  <2>1. DOMAIN tokens = TokenIds /\ DOMAIN agentGrants = GrantIds
    BY SequenceDomains DEF AgentInv
  <2>2. \A a \in Actions : actions[a].status \in ActionStatuses
    BY DEF AgentInv, ActionInv, ActionShape, ActionRecord
  <2> QED
    BY <2>1, <2>2 DEF AgentInv, AgentTypeOK, TokenInv, TokenShape, ClaimsHold, ActionInv, OneHand
<1> QED  BY <1>1, AgentInvariant, PTL

\* An authorization code gives one grant (oauth.ts, exchangeAuthorizationCode).
LEMMA OneGrantPerCode ==
    AgentInv => \A g, h \in DOMAIN agentGrants :
                    agentGrants[g].code = agentGrants[h].code => g = h
BY SequenceDomains DEF AgentInv, TokenInv, ClaimsHold

\* A set whose elements are all the same one has at most that one.
LEMMA AtMostOne ==
    ASSUME NEW S, \A a, b \in S : a = b
    PROVE  Cardinality(S) \in {0, 1} /\ (S # {} => Cardinality(S) = 1)
<1>1. CASE S = {}  BY <1>1, FS_EmptySet
<1>2. CASE S # {}
  <2>1. PICK a \in S : TRUE  BY <1>2
  <2>2. S = {a}  BY <2>1
  <2> QED  BY <1>2, <2>2, FS_Singleton
<1> QED  BY <1>1, <1>2

\* A code gives one grant, and a grant that stands never has two refresh tokens
\* to use (oauth.ts, refreshTokens): the claim of the old one and the issue of
\* the next are two statements, and the requests between them are counted.
THEOREM OneRefreshToken == AgentSpec => []RotationNeverForks
<1>1. AgentInv => RotationNeverForks
  <2> SUFFICES ASSUME AgentInv, NEW g \in DOMAIN agentGrants, GrantLive(g)
               PROVE  Cardinality({t \in DOMAIN tokens : tokens[t].grant = g /\ ~tokens[t].used})
                        + Cardinality({x \in Callers : Is(x, "issue") /\ Subject(x) = g}) <= 1
    BY OneGrantPerCode DEF RotationNeverForks
  <2> DEFINE unused == {t \in DOMAIN tokens : tokens[t].grant = g /\ ~tokens[t].used}
             issuing == {x \in Callers : Is(x, "issue") /\ Subject(x) = g}
  <2>1. DOMAIN tokens = TokenIds /\ g \in GrantIds /\ ~agentGrants[g].revoked
    BY SequenceDomains DEF AgentInv, GrantLive
  <2>2. \A t, u \in unused : t = u
    BY <2>1 DEF AgentInv, TokenInv, OneLine
  <2>3. \A x, y \in issuing : x = y
    BY <2>1 DEF AgentInv, TokenInv, OneLine
  <2>4. issuing # {} => unused = {}
    BY <2>1 DEF AgentInv, TokenInv, OneLine
  <2> HIDE DEF unused, issuing
  <2>5. Cardinality(unused) \in {0, 1} /\ Cardinality(issuing) \in {0, 1}
    BY <2>2, <2>3, AtMostOne
  <2>6. unused = {} => Cardinality(unused) = 0  BY FS_EmptySet
  <2>7. issuing = {} => Cardinality(issuing) = 0  BY FS_EmptySet
  <2>8. Cardinality(unused) + Cardinality(issuing) <= 1  BY <2>4, <2>5, <2>6, <2>7
  <2> QED  BY <2>8 DEF unused, issuing
<1> QED  BY <1>1, AgentInvariant, PTL

\* What a person confirms runs at most once, and what was rejected, or lost its
\* grant before the click, never does.  What ran and is called FAILED is what
\* lost its answer, or the write that would have said so (actions.ts,
\* confirmAction, rejectAction).
THEOREM RunsOnce == AgentSpec => []ActionRunsOnce
<1>1. AgentInv => ActionRunsOnce
  <2> SUFFICES ASSUME AgentInv  PROVE ActionRunsOnce  OBVIOUS
  <2>1. ASSUME NEW a \in Actions
        PROVE  /\ ran[a] <= 1
               /\ actions[a].status = "EXECUTED" => ran[a] = 1
               /\ ran[a] > 0 =>
                      actions[a].status \in {"EXECUTING", "EXECUTED"}
                                            \cup {f \in {"FAILED"} : a \in unanswered}
    BY DEF AgentInv, ActionInv, OneHand
  <2>2. \A a \in withdrawn : ran[a] = 0  BY DEF AgentInv, WithdrawnHeld
  <2> QED  BY <2>1, <2>2 DEF ActionRunsOnce
<1> QED  BY <1>1, AgentInvariant, PTL
=============================================================================
