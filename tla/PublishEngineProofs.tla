------------------------ MODULE PublishEngineProofs ------------------------
(* What holds of PublishEngine for every value of its constants.           *)
EXTENDS PublishEngine, SequenceTheorems, FiniteSetTheorems, TLAPS

\* Changing one attempt of the ledger, whatever is written there, keeps it a
\* sequence of attempts of the same length.
LEMMA LedgerUpdate ==
    ASSUME NEW s \in Seq(AttemptRecord), NEW i, NEW st \in AttemptStates,
           NEW c \in {"open", "landed", "refused"}
    PROVE  /\ [s EXCEPT ![i].state = st] \in Seq(AttemptRecord)
           /\ [s EXCEPT ![i].call = c] \in Seq(AttemptRecord)
<1>1. CASE i \in 1 .. Len(s)
  <2>1. s[i] \in AttemptRecord  BY <1>1, ElementOfSeq
  <2>2. /\ [s[i] EXCEPT !.state = st] \in AttemptRecord
        /\ [s[i] EXCEPT !.call = c] \in AttemptRecord
    BY <2>1 DEF AttemptRecord
  <2> QED  BY <1>1, <2>2, ExceptSeq
<1>2. CASE i \notin 1 .. Len(s)
  <2>1. DOMAIN s = 1 .. Len(s)  BY LenProperties
  <2>2. /\ [s EXCEPT ![i].state = st] = s
        /\ [s EXCEPT ![i].call = c] = s
    BY <1>2, <2>1, LenProperties
  <2> QED  BY <2>2
<1> QED  BY <1>1, <1>2

LEMMA LedgerAppend ==
    ASSUME NEW s \in Seq(AttemptRecord), NEW r \in Rows
    PROVE  Append(s, Attempt(r, "IN_FLIGHT", "open")) \in Seq(AttemptRecord)
<1>1. Attempt(r, "IN_FLIGHT", "open") \in AttemptRecord
  BY DEF Attempt, AttemptRecord, AttemptStates
<1> QED  BY <1>1, AppendProperties

LEMMA MovedType ==
    ASSUME NEW o \in OrderOf, variant \in [Variants -> VariantRecord], InBounds(o)
    PROVE  Moved(o) \in [Variants -> VariantRecord]
<1>1. ASSUME NEW v \in o.on, o.to = "SCHEDULED"
      PROVE  [variant[v] EXCEPT !.status = o.to, !.slot = @ + 1] \in VariantRecord
  <2>1. variant[v] \in VariantRecord /\ variant[v].slot < MaxSlots
    BY <1>1 DEF InBounds, OrderOf
  <2>2. variant[v].slot + 1 \in Slots
    BY <2>1, EngineAssumption DEF VariantRecord, Slots
  <2> QED  BY <1>1, <2>1, <2>2 DEF VariantRecord, OrderOf
<1>2. ASSUME NEW v \in Variants
      PROVE  [variant[v] EXCEPT !.status = o.to] \in VariantRecord
  BY DEF VariantRecord, OrderOf
<1> QED  BY <1>1, <1>2 DEF Moved

LEMMA EnqueueType ==
    ASSUME NEW rows, Enqueue(rows),
           row \in [Rows -> RowStates], queue \in [Rows -> {"absent", "waiting", "redelivered"}]
    PROVE  /\ row' \in [Rows -> RowStates]
           /\ queue' \in [Rows -> {"absent", "waiting", "redelivered"}]
BY DEF Enqueue, RowStates

\* Taking a claim and ending it, whichever way, leaves a variant a variant.
LEMMA ClaimType ==
    ASSUME variant \in [Variants -> VariantRecord], NEW v \in Variants,
           NEW st \in VariantStatuses, NEW t \in 0 .. MaxClaims
    PROVE  [variant EXCEPT ![v].status = st, ![v].token = t, ![v].stale = FALSE]
               \in [Variants -> VariantRecord]
BY DEF VariantRecord

LEMMA NoClaim == 0 \in 0 .. MaxClaims
BY EngineAssumption

\* What a worker writes into its run keeps it a run.
LEMMA RunUpdate ==
    ASSUME NEW r \in RunOf
    PROVE  /\ \A o \in Outcomes : /\ [r EXCEPT !.outcome = o] \in RunOf
                                   /\ [r EXCEPT !.outcome = o, !.reconciled = TRUE] \in RunOf
           /\ \A k \in Nat : [r EXCEPT !.attempt = k] \in RunOf
           /\ \A s, t \in PostStatuses \cup {NoStatus} :
                 [r EXCEPT !.seen = s, !.target = t] \in RunOf
BY DEF RunOf

LEMMA NoRunType == NoRun \in RunOf
BY EngineAssumption DEF NoRun, RunOf

\* The run a claim starts.
LEMMA FirstRunType ==
    ASSUME NEW r \in Rows, NEW t \in 0 .. MaxClaims,
           NEW takeover \in BOOLEAN, NEW again \in BOOLEAN
    PROVE  [NoRun EXCEPT !.row = r, !.token = t, !.takeover = takeover,
                         !.redelivered = again] \in RunOf
BY NoRunType DEF RunOf

\* The roll-up only ever answers a post status, or nothing.
LEMMA PostStatusForType ==
    ASSUME NEW f  PROVE  PostStatusFor(f) \in PostStatuses \cup {NoStatus}
BY DEF PostStatusFor, PostStatuses, NoStatus

LEMMA AttemptStateForType ==
    ASSUME NEW o, NEW b \in BOOLEAN  PROVE  AttemptStateFor(o, b) \in AttemptStates
BY DEF AttemptStateFor, AttemptStates

----------------------------------------------------------------------------
(* Type correctness, an action at a time.                                  *)

LEMMA InitTypeOK == Init => TypeOK
<1> SUFFICES ASSUME Init PROVE TypeOK  OBVIOUS
<1> USE DEF Init
<1>1. attempts \in Seq(AttemptRecord)  BY EmptySeq
<1>5. order \in OrderOf
  BY DEF NoOrder, Order, OrderOf, VariantStatuses
<1>2. run \in [Workers -> RunOf]  BY NoRunType
<1>3. 0 \in 0 .. MaxClaims /\ 1 \in Slots  BY EngineAssumption DEF Slots
<1>4. variant \in [Variants -> VariantRecord]
  BY <1>3 DEF VariantRecord, VariantStatuses
<1> QED
  BY <1>1, <1>2, <1>3, <1>4, <1>5 DEF TypeOK, PostStatuses, RowStates

LEMMA NextTypeOK == TypeOK /\ [Next]_vars => TypeOK'
<1> SUFFICES ASSUME TypeOK, [Next]_vars PROVE TypeOK'  OBVIOUS
<1> USE EngineAssumption
<1>a. attempts \in Seq(AttemptRecord)  BY DEF TypeOK
<1>1. ASSUME UNCHANGED vars PROVE TypeOK'
  BY <1>1 DEF TypeOK, vars
<1>2. ASSUME Sweep PROVE TypeOK'
  BY <1>2 DEF TypeOK, Sweep, Enqueue, RowStates
<1>3. ASSUME Human PROVE TypeOK'
  <2>1. ASSUME NEW o \in OrderOf, CarryOut(o), order' \in OrderOf PROVE TypeOK'
    <3>1. variant' \in [Variants -> VariantRecord]
      BY <2>1, MovedType DEF CarryOut, TypeOK
    <3>2. post' \in PostStatuses
      BY <2>1 DEF CarryOut, TypeOK, OrderOf
    <3> QED
      BY <2>1, <3>1, <3>2, EnqueueType DEF CarryOut, TypeOK
  <2>2. ASSUME NEW o \in OrderOf, Issue(o) PROVE TypeOK'
    BY <2>1, <2>2 DEF Issue, TypeOK
  <2>3. ASSUME NEW S \in SUBSET Variants, NEW to \in {"PUBLISHED", "SCHEDULED", "FAILED"},
               NEW status \in {NoStatus, "SCHEDULED"}, NEW send \in BOOLEAN
        PROVE  Order(S, to, status, send) \in OrderOf
    BY DEF Order, OrderOf, VariantStatuses, PostStatuses
  <2>4. NoOrder \in OrderOf  BY <2>3 DEF NoOrder
  <2>5. \A S : WithStatus(S) \in SUBSET Variants  BY DEF WithStatus
  <2>6. ASSUME NEW v \in Variants, RetryJob(v) PROVE TypeOK'
    BY <2>2, <2>3, <2>6 DEF RetryJob
  <2>7. ASSUME NEW v \in Variants, NEW answer \in Resolutions, Resolve(v, answer)
        PROVE  TypeOK'
    <3>1. ResolvedAs[answer] \in {"PUBLISHED", "SCHEDULED", "FAILED"}
      BY EngineAssumption DEF ResolvedAs
    <3> QED  BY <2>2, <2>3, <2>7, <3>1 DEF Resolve
  <2>8. CASE PublishNow
    BY <2>2, <2>3, <2>5, <2>8 DEF PublishNow
  <2>9. CASE RetryFailed
    <3>1. /\ CarryOut(Order(WithStatus(RetryableVariantStatuses), "SCHEDULED", NoStatus, TRUE))
          /\ order' = order
      BY <2>9 DEF RetryFailed
    <3> QED  BY <2>1, <2>3, <2>5, <3>1 DEF TypeOK
  <2>10. CASE CommitOrder
    BY <2>1, <2>4, <2>10 DEF CommitOrder, TypeOK
  <2> QED  BY <1>3, <2>6, <2>7, <2>8, <2>9, <2>10 DEF Human
<1>4. ASSUME NEW w \in Workers, Take(w) PROVE TypeOK'
  <2>1. ASSUME NEW r \in Rows, NEW takeover \in BOOLEAN, Dequeue(w, r), Begin(w, r, takeover)
        PROVE  TypeOK'
    <3>1. claims + 1 \in Tokens /\ claims + 1 \in 0 .. MaxClaims /\ r[1] \in Variants
      BY <2>1 DEF TypeOK, Begin, Rows, Tokens
    <3>2. variant' \in [Variants -> VariantRecord]
      BY <2>1, <3>1, ClaimType DEF TypeOK, Begin, VariantStatuses
    <3>3. /\ run' \in [Workers -> RunOf]
          /\ run'[w].row \in Rows /\ run'[w].token \in Tokens
      BY <2>1, <3>1, FirstRunType DEF TypeOK, Begin, Note, NoRun
    <3>4. pc' \in [Workers -> Running \cup {"idle"}] /\ pc'[w] = "claimed"
      BY <2>1 DEF TypeOK, Begin, Goto, Running
    <3>5. \A x \in Workers \ {w} : pc'[x] = pc[x] /\ run'[x] = run[x]
      BY <2>1 DEF TypeOK, Begin, Goto, Note
    <3> QED
      BY <2>1, <3>1, <3>2, <3>3, <3>4, <3>5 DEF TypeOK, Begin, Dequeue
  <2>2. ASSUME NEW r \in Rows, NotClaimable(w, r) PROVE TypeOK'
    BY <2>2 DEF TypeOK, NotClaimable, Dequeue
  <2> QED  BY <1>4, <2>1, <2>2 DEF Take, ClaimVariant, TakeOverClaim
<1>5. ASSUME NEW w \in Workers, Step(w) PROVE TypeOK'
  <2>0. pc[w] # "idle" => /\ run[w] \in RunOf /\ run[w].row \in Rows
                          /\ VariantOf(w) \in Variants /\ AccountFor(w) \in Accounts
    BY DEF TypeOK, VariantOf, AccountFor, Rows
  <2>1. CASE Load(w)
    BY <2>1 DEF TypeOK, Load, Goto, At, Running, PostStatuses
  <2>2. CASE LoadRefused(w)
    BY <2>2 DEF TypeOK, LoadRefused, Goto, At, Running
  <2>3. ASSUME NEW answer \in Outcomes, ReconcileUnknown(w, answer) PROVE TypeOK'
    <3>1. [run[w] EXCEPT !.outcome = answer] \in RunOf
      BY <2>0, <2>3, RunUpdate DEF ReconcileUnknown, At
    <3>2. attempts' \in Seq(AttemptRecord)
      BY <1>a, <2>3, AttemptStateForType, LedgerUpdate DEF ReconcileUnknown
    <3> QED
      BY <2>3, <3>1, <3>2
      DEF TypeOK, ReconcileUnknown, Goto, Note, At, Running
  <2>4. ASSUME NEW answer \in Outcomes, ReconcileTimeout(w, answer) PROVE TypeOK'
    <3>1. [run[w] EXCEPT !.outcome = answer, !.reconciled = TRUE] \in RunOf
      BY <2>0, <2>4, RunUpdate DEF ReconcileTimeout, At
    <3> QED  BY <2>4, <3>1 DEF TypeOK, ReconcileTimeout, Goto, Note, At, Running
  <2>5. ASSUME NEW answer \in Outcomes, Refused(w, answer) PROVE TypeOK'
    <3>1. [run[w] EXCEPT !.outcome = answer] \in RunOf
      BY <2>0, <2>5, RunUpdate DEF Refused, At
    <3>2. attempts' \in Seq(AttemptRecord)
      BY <1>a, <2>5, LedgerUpdate DEF Refused, AttemptStates
    <3> QED
      BY <2>5, <3>1, <3>2 DEF TypeOK, Refused, Conclude, Goto, Note, At, Running
  <2>6. CASE AcquireLock(w)
    BY <2>0, <2>6 DEF TypeOK, AcquireLock, Goto, At, Running, Tokens
  <2>7. ASSUME pc[w] # "idle", ReleaseClaim(w)
        PROVE  variant' \in [Variants -> VariantRecord]
    BY <2>0, <2>7, NoClaim, ClaimType DEF TypeOK, ReleaseClaim, VariantStatuses
  <2>8. CASE Defer(w)
    BY <2>7, <2>8 DEF TypeOK, Defer, Goto, At, Running
  <2>9. CASE OpenAttempt(w)
    <3>1. [run[w] EXCEPT !.attempt = Len(attempts) + 1] \in RunOf
      <4>1. Len(attempts) + 1 \in Nat  BY <1>a, LenProperties
      <4> QED  BY <2>0, <2>9, <4>1, RunUpdate DEF OpenAttempt, At
    <3>2. attempts' \in Seq(AttemptRecord)
      BY <1>a, <2>0, <2>9, LedgerAppend DEF OpenAttempt, At
    <3> QED
      BY <2>9, <3>1, <3>2 DEF TypeOK, OpenAttempt, Goto, Note, At, Running, RowStates
  <2>10. CASE Accepted(w)
    <3>1. [run[w] EXCEPT !.outcome = "PUBLISHED"] \in RunOf
      BY <2>0, <2>10, RunUpdate DEF Accepted, At, Outcomes
    <3> QED
      BY <2>10, <3>1
      DEF TypeOK, Accepted, Conclude, Goto, Note, At, Running, Outcomes, RunOf
  <2>11. Abandoned(w) \in Seq(AttemptRecord)
    BY <1>a, LedgerUpdate DEF Abandoned, AttemptStates
  <2>12. CASE TimedOut(w)
    BY <2>11, <2>12 DEF TypeOK, TimedOut, Goto, At, Running
  <2>13. CASE CloseAttempt(w)
    <3>1. attempts' \in Seq(AttemptRecord)
      BY <1>a, <2>0, <2>13, AttemptStateForType, LedgerUpdate DEF CloseAttempt, At, RunOf
    <3>2. Unlocked(w) \in [Accounts -> 0 .. MaxClaims]
      BY DEF TypeOK, Unlocked
    <3> QED
      BY <2>13, <3>1, <3>2 DEF TypeOK, CloseAttempt, Goto, At, Running
  <2>14. CASE Settle(w)
    <3>1. SettledAs(run[w].outcome) \in VariantStatuses
      BY <2>14 DEF TypeOK, Settle, At, Outcomes, SettledAs, VariantStatuses
    <3>2. variant' \in [Variants -> VariantRecord]
      BY <2>0, <2>14, <3>1, NoClaim, ClaimType DEF TypeOK, Settle, At
    <3> QED  BY <2>14, <3>2 DEF TypeOK, Settle, Goto, At, Running
  <2>15. CASE SettleRow(w)
    BY <2>0, <2>15 DEF TypeOK, SettleRow, Goto, At, Running, RowStates
  <2>16. ASSUME Finish(w), UNCHANGED <<row, queue, attempts, claims, order>>,
                post' \in PostStatuses, variant' \in [Variants -> VariantRecord],
                lock' \in [Accounts -> 0 .. MaxClaims]
         PROVE  TypeOK'
    BY <2>16, NoRunType DEF TypeOK, Finish, Goto, Note
  <2>17. CASE RollUpRead(w)
    <3> DEFINE target == PostStatusFor(StatusOf)
    <3>1. CASE Finish(w)
      BY <2>16, <2>17, <3>1 DEF TypeOK, RollUpRead
    <3>2. CASE /\ Goto(w, "write")
               /\ Note(w, [run[w] EXCEPT !.seen = post, !.target = target])
      <4>1. /\ [run[w] EXCEPT !.seen = post, !.target = target] \in RunOf
            /\ target \in PostStatuses
        <5>1. target # NoStatus
          BY <2>0, <2>17, <3>2 DEF RollUpRead, Finish, Goto, At, TypeOK
        <5> QED
          BY <2>0, <2>17, <5>1, RunUpdate, PostStatusForType DEF TypeOK, RollUpRead, At
      <4> HIDE DEF target
      <4> QED
        BY <2>0, <2>17, <3>2, <4>1 DEF TypeOK, RollUpRead, At, Goto, Note, Running, RunOf
    <3> QED  BY <2>17, <3>1, <3>2 DEF RollUpRead
  <2>18. CASE RollUpWrite(w)
    <3>1. post' \in PostStatuses
      BY <2>18 DEF TypeOK, RollUpWrite, At
    <3> QED  BY <2>16, <2>18, <3>1 DEF TypeOK, RollUpWrite
  <2>19. CASE Retryable(w)
    BY <2>0, <2>7, <2>19 DEF TypeOK, Retryable, Goto, At, Running
  <2>20. CASE PendRow(w)
    BY <2>0, <2>20 DEF TypeOK, PendRow, Goto, At, Running, RowStates
  <2>21. CASE Requeue(w)
    BY <2>0, <2>21, NoRunType DEF TypeOK, Requeue, Finish, Goto, Note, At
  <2>22. CASE Reject(w)
    BY <2>7, <2>16, <2>22 DEF TypeOK, Reject, At
  <2>23. CASE Throw(w)
    BY <2>7, <2>23 DEF TypeOK, Throw, Goto, At, Running
  <2> QED
    BY <1>5, <2>1, <2>2, <2>3, <2>4, <2>5, <2>6, <2>8, <2>9, <2>10, <2>12, <2>13, <2>14,
       <2>15, <2>17, <2>18, <2>19, <2>20, <2>21, <2>22, <2>23
    DEF Step
<1>6. ASSUME NEW w \in Workers, StoreFails(w) PROVE TypeOK'
  <2>1. pc[w] # "idle" /\ run[w] \in RunOf  BY <1>6 DEF TypeOK, StoreFails
  <2>2. [run[w] EXCEPT !.outcome = "RETRYABLE"] \in RunOf
    BY <2>1, RunUpdate DEF Outcomes
  <2>3. Unlocked(w) \in [Accounts -> 0 .. MaxClaims]
    BY NoClaim DEF TypeOK, Unlocked
  <2>4. CASE Conclude(w, "RETRYABLE") /\ UNCHANGED <<pc, lock>>
    BY <1>6, <2>1, <2>2, <2>4 DEF TypeOK, StoreFails, Conclude, Note, Outcomes, RunOf
  <2>5. CASE Goto(w, "throw") /\ lock' = Unlocked(w) /\ UNCHANGED run
    BY <1>6, <2>1, <2>3, <2>5 DEF TypeOK, StoreFails, Goto, Running
  <2> QED  BY <1>6, <2>4, <2>5 DEF StoreFails
<1>7. ASSUME NEW w \in Workers, Crash(w) PROVE TypeOK'
  <2>1. Abandoned(w) \in Seq(AttemptRecord)
    BY <1>a, LedgerUpdate DEF Abandoned, AttemptStates
  <2> QED
    BY <1>7, <2>1, NoRunType DEF TypeOK, Crash, Finish, Goto, Note
<1>8. ASSUME NEW i \in DOMAIN attempts, Land(i) PROVE TypeOK'
  <2>1. attempts' \in Seq(AttemptRecord)
    BY <1>a, <1>8, LedgerUpdate DEF Land, AttemptStates
  <2> QED  BY <1>8, <2>1 DEF TypeOK, Land
<1>9. ASSUME NEW v \in Variants, ClaimExpires(v) PROVE TypeOK'
  BY <1>9 DEF TypeOK, ClaimExpires, VariantRecord
<1>10. ASSUME NEW a \in Accounts, LockExpires(a) PROVE TypeOK'
  BY <1>10, NoClaim DEF TypeOK, LockExpires
<1> QED
  BY <1>1, <1>2, <1>3, <1>4, <1>5, <1>6, <1>7, <1>8, <1>9, <1>10 DEF Next

\* Every behaviour is well typed, for any number of variants, accounts and
\* workers and any faults: in particular a worker that reaches applyOutcome
\* always has an outcome, and a busy one a job row and a token.
THEOREM TypeCorrect == Spec => []TypeOK
<1> QED  BY InitTypeOK, NextTypeOK, PTL DEF Spec

----------------------------------------------------------------------------
(* One call per account.                                                   *)

\* Two runs never share a token: a token is the number of a claim, and no run
\* has a number that is still to be given out.
TokensDistinct ==
    /\ \A w \in Workers : pc[w] # "idle" => run[w].token <= claims
    /\ \A w, x \in Workers :
          (pc[w] # "idle" /\ pc[x] # "idle" /\ run[w].token = run[x].token) => w = x

\* A run inside withLock's callback, up to the call's answer, has the lock.
CallerHoldsLock ==
    \A w \in Workers :
        pc[w] \in {"locked", "calling"} => lock[AccountFor(w)] = run[w].token

\* Every step of a worker but taking a job keeps its job and its token.
LEMMA RunsKeepIdentity ==
    ASSUME TypeOK, NEW w \in Workers,
           Step(w) \/ StoreFails(w) \/ Crash(w)
    PROVE  /\ pc[w] # "idle"
           /\ claims' = claims
           /\ \A x \in Workers \ {w} : pc'[x] = pc[x] /\ run'[x] = run[x]
           /\ pc'[w] = "idle" \/ (run'[w].token = run[w].token /\ run'[w].row = run[w].row)
<1>0. run[w] \in RunOf /\ pc \in [Workers -> Running \cup {"idle"}]
  BY DEF TypeOK
<1> USE <1>0 DEF TypeOK, Goto, Note, At, Conclude, Finish, RunOf
<1>1. CASE Load(w) \/ LoadRefused(w) \/ AcquireLock(w) \/ Defer(w) \/ OpenAttempt(w)
  BY <1>1 DEF Load, LoadRefused, AcquireLock, Defer, OpenAttempt
<1>2. CASE \E answer \in Outcomes :
              ReconcileUnknown(w, answer) \/ ReconcileTimeout(w, answer) \/ Refused(w, answer)
  <2>1. PICK answer \in Outcomes :
          ReconcileUnknown(w, answer) \/ ReconcileTimeout(w, answer) \/ Refused(w, answer)
    BY <1>2
  <2>2. CASE ReconcileUnknown(w, answer)  BY <2>2 DEF ReconcileUnknown
  <2>3. CASE ReconcileTimeout(w, answer)  BY <2>3 DEF ReconcileTimeout
  <2>4. CASE Refused(w, answer)           BY <2>4 DEF Refused
  <2> QED  BY <2>1, <2>2, <2>3, <2>4
<1>3. CASE Accepted(w) \/ TimedOut(w) \/ CloseAttempt(w) \/ Settle(w) \/ SettleRow(w)
  BY <1>3 DEF Accepted, TimedOut, CloseAttempt, Settle, SettleRow
<1>4. CASE RollUpWrite(w) \/ Retryable(w) \/ PendRow(w)
  BY <1>4 DEF RollUpWrite, Retryable, PendRow
<1>8. CASE RollUpRead(w)
  <2>1. pc[w] # "idle" /\ claims' = claims  BY <1>8 DEF RollUpRead
  <2>2. CASE Finish(w)  BY <2>1, <2>2
  <2>3. ASSUME NEW t, Goto(w, "write"), Note(w, [run[w] EXCEPT !.seen = post, !.target = t])
        PROVE  /\ \A x \in Workers \ {w} : pc'[x] = pc[x] /\ run'[x] = run[x]
               /\ run'[w].token = run[w].token /\ run'[w].row = run[w].row
    BY <2>1, <2>3
  <2> QED  BY <1>8, <2>1, <2>2, <2>3 DEF RollUpRead
<1>5. CASE Requeue(w) \/ Reject(w) \/ Throw(w)
  <2>1. CASE Requeue(w)  BY <2>1 DEF Requeue
  <2>2. CASE Reject(w)   BY <2>2 DEF Reject
  <2>3. CASE Throw(w)    BY <2>3 DEF Throw
  <2> QED  BY <1>5, <2>1, <2>2, <2>3
<1>6. CASE StoreFails(w)
  BY <1>6 DEF StoreFails
<1>7. CASE Crash(w)
  <2>1. pc[w] # "idle"
    <3>1. pc[w] \in Running  BY <1>7, EngineAssumption DEF Crash
    <3> QED  BY <3>1 DEF Running
  <2>2. claims' = claims /\ Finish(w)  BY <1>7 DEF Crash
  <2> QED  BY <2>1, <2>2
<1> QED  BY <1>1, <1>2, <1>3, <1>4, <1>5, <1>6, <1>7, <1>8 DEF Step

\* What happens to the lock of an account a worker holds it for.
LEMMA OthersKeepTheLock ==
    ASSUME TypeOK, TokensDistinct, NEW w \in Workers, NEW x \in Workers, w # x,
           pc[x] # "idle", lock[AccountFor(x)] = run[x].token,
           Step(w) \/ StoreFails(w) \/ Crash(w)
    PROVE  lock'[AccountFor(x)] = run[x].token
<1>1. /\ pc[w] # "idle" /\ run[w].token # run[x].token
      /\ AccountFor(x) \in Accounts /\ run[x].token # 0
  <2>1. pc[w] # "idle"  BY RunsKeepIdentity
  <2> QED
    BY <2>1, EngineAssumption DEF TokensDistinct, TypeOK, AccountFor, VariantOf, Rows, Tokens
<1>2. Unlocked(w)[AccountFor(x)] = run[x].token
  BY <1>1 DEF Unlocked
<1>3. CASE CloseAttempt(w)  BY <1>2, <1>3 DEF CloseAttempt
<1>4. CASE AcquireLock(w)
  BY <1>1, <1>4 DEF AcquireLock, TypeOK
<1>5. CASE StoreFails(w)  BY <1>2, <1>5 DEF StoreFails
<1>6. CASE Crash(w)  BY <1>6 DEF Crash
<1>7. CASE Step(w) /\ ~CloseAttempt(w) /\ ~AcquireLock(w)
  BY <1>7
  DEF Step, Load, LoadRefused, Defer, ReconcileUnknown, ReconcileTimeout, Refused,
      OpenAttempt, Accepted, TimedOut, Settle, SettleRow, RollUpRead, RollUpWrite,
      Retryable, PendRow, Requeue, Reject, Throw
<1> QED  BY <1>3, <1>4, <1>5, <1>6, <1>7

LockInv == TypeOK /\ TokensDistinct /\ CallerHoldsLock

LEMMA InitLockInv == Init => LockInv
BY InitTypeOK DEF LockInv, TokensDistinct, CallerHoldsLock, Init

LEMMA NextLockInv ==
    ASSUME "slow" \notin Faults  PROVE  LockInv /\ [Next]_vars => LockInv'
<1> SUFFICES ASSUME LockInv, [Next]_vars PROVE LockInv'  OBVIOUS
<1>0. TypeOK /\ TokensDistinct /\ CallerHoldsLock /\ TypeOK'
  BY NextTypeOK DEF LockInv
<1>1. ASSUME UNCHANGED <<claims, lock, pc, run>> PROVE LockInv'
  BY <1>0, <1>1 DEF LockInv, TokensDistinct, CallerHoldsLock, AccountFor, VariantOf
<1>2. ASSUME NEW w \in Workers, Take(w) PROVE LockInv'
  <2>1. PICK r \in Rows : ClaimVariant(w, r) \/ TakeOverClaim(w, r) \/ NotClaimable(w, r)
    BY <1>2 DEF Take
  <2>2. CASE NotClaimable(w, r)
    BY <1>1, <2>2 DEF NotClaimable, Dequeue
  <2>3. CASE Dequeue(w, r) /\ \E t \in BOOLEAN : Begin(w, r, t)
    <3>1. /\ claims \in Nat /\ claims' = claims + 1 /\ lock' = lock
          /\ pc'[w] = "claimed" /\ run'[w].token = claims + 1
          /\ \A x \in Workers \ {w} : pc'[x] = pc[x] /\ run'[x] = run[x]
          /\ \A x \in Workers : pc[x] # "idle" => run[x].token \in Nat
      BY <1>0, <2>3 DEF TypeOK, Dequeue, Begin, Goto, Note, NoRun, Tokens
    <3>2. TokensDistinct'  BY <1>0, <3>1 DEF TokensDistinct
    <3>3. CallerHoldsLock'
      BY <1>0, <3>1 DEF CallerHoldsLock, AccountFor, VariantOf
    <3> QED  BY <1>0, <3>2, <3>3 DEF LockInv
  <2> QED  BY <2>1, <2>2, <2>3 DEF ClaimVariant, TakeOverClaim
<1>3. ASSUME NEW w \in Workers, Step(w) \/ StoreFails(w) \/ Crash(w) PROVE LockInv'
  <2>1. /\ pc[w] # "idle" /\ claims' = claims
        /\ \A x \in Workers \ {w} : pc'[x] = pc[x] /\ run'[x] = run[x]
        /\ pc'[w] = "idle" \/ (run'[w].token = run[w].token /\ run'[w].row = run[w].row)
    BY <1>0, <1>3, RunsKeepIdentity
  <2>2. TokensDistinct'  BY <1>0, <2>1 DEF TokensDistinct
  <2>3. ASSUME NEW x \in Workers \ {w}, pc'[x] \in {"locked", "calling"}
        PROVE  lock'[AccountFor(x)'] = run'[x].token
    BY <1>0, <1>3, <2>1, <2>3, OthersKeepTheLock
    DEF CallerHoldsLock, AccountFor, VariantOf
  <2>4. ASSUME pc'[w] \in {"locked", "calling"}
        PROVE  lock'[AccountFor(w)'] = run'[w].token
    <3>1. /\ AccountFor(w) \in Accounts /\ AccountFor(w)' = AccountFor(w)
          /\ run'[w].token = run[w].token
      BY <1>0, <2>1, <2>4, EngineAssumption DEF TypeOK, AccountFor, VariantOf, Rows
    <3>2. CASE AcquireLock(w)
      BY <1>0, <3>1, <3>2 DEF AcquireLock, TypeOK
    <3>3. CASE OpenAttempt(w)
      BY <1>0, <3>1, <3>3 DEF OpenAttempt, At, CallerHoldsLock
    <3>4. ~StoreFails(w)
      BY <1>0, <2>4 DEF StoreFails, At, Goto, TypeOK
    <3>5. ~Crash(w)
      BY <1>0, <2>4 DEF Crash, Finish, Goto, TypeOK
    <3>6. ASSUME NEW answer \in Outcomes
          PROVE  ~ReconcileUnknown(w, answer) /\ ~ReconcileTimeout(w, answer)
                 /\ ~Refused(w, answer)
      BY <1>0, <2>4 DEF ReconcileUnknown, ReconcileTimeout, Refused, Goto, TypeOK
    <3>7. ~RollUpRead(w)
      BY <1>0, <2>4 DEF RollUpRead, Finish, Goto, TypeOK
    <3>8. \/ Load(w) \/ LoadRefused(w) \/ Defer(w) \/ Accepted(w) \/ TimedOut(w)
          \/ CloseAttempt(w) \/ Settle(w) \/ SettleRow(w) \/ RollUpWrite(w)
          \/ Retryable(w) \/ PendRow(w) \/ Requeue(w) \/ Reject(w) \/ Throw(w)
          \/ AcquireLock(w) \/ OpenAttempt(w)
      BY <1>3, <3>4, <3>5, <3>6, <3>7 DEF Step
    <3> QED
      BY <1>0, <2>4, <3>2, <3>3, <3>8
      DEF Load, LoadRefused, Defer, Accepted, TimedOut, CloseAttempt, Settle, SettleRow,
          RollUpWrite, Retryable, PendRow, Requeue, Reject, Throw, Finish, Goto, TypeOK
  <2>5. CallerHoldsLock'  BY <2>3, <2>4 DEF CallerHoldsLock
  <2> QED  BY <1>0, <2>2, <2>5 DEF LockInv
<1>4. ASSUME NEW a \in Accounts, LockExpires(a) PROVE LockInv'
  <2>1. \A w \in Workers : run[w].token = lock[a] => pc[w] \notin {"locked", "calling"}
    BY <1>4 DEF LockExpires
  <2>2. TokensDistinct'  BY <1>0, <1>4 DEF LockExpires, TokensDistinct
  <2>3. CallerHoldsLock'
    BY <1>0, <1>4, <2>1 DEF LockExpires, CallerHoldsLock, AccountFor, VariantOf, TypeOK
  <2> QED  BY <1>0, <2>2, <2>3 DEF LockInv
<1>5. CASE UNCHANGED vars  BY <1>1, <1>5 DEF vars
<1>6. CASE Sweep           BY <1>1, <1>6 DEF Sweep
<1>7. CASE Human
  BY <1>1, <1>7
  DEF Human, PublishNow, RetryFailed, RetryJob, Resolve, CommitOrder, Issue, CarryOut
<1>8. CASE \E i \in DOMAIN attempts : Land(i)     BY <1>1, <1>8 DEF Land
<1>9. CASE \E v \in Variants : ClaimExpires(v)    BY <1>1, <1>9 DEF ClaimExpires
<1> QED  BY <1>2, <1>3, <1>4, <1>5, <1>6, <1>7, <1>8, <1>9 DEF Next

\* However many workers, variants and accounts there are, whatever fails and
\* whoever dies, two calls to one account never overlap, as long as no call
\* outlasts the lock: acquireLock's SET NX and releaseLock's compare-and-delete
\* are enough, and an expired lock is never deleted by its former holder.
THEOREM LockExcludes ==
    ASSUME "slow" \notin Faults  PROVE  Spec => []OneCallPerAccount
<1>1. LockInv => OneCallPerAccount
  BY DEF LockInv, TokensDistinct, CallerHoldsLock, OneCallPerAccount
<1> QED  BY <1>1, InitLockInv, NextLockInv, PTL DEF Spec
----------------------------------------------------------------------------
(* Claims and outcomes.                                                    *)

\* Inductive, as long as no handler writes to what has changed since it
\* looked: only a variant that is being published has a claim token.
TokenInv ==
    /\ TypeOK
    /\ order = NoOrder
    /\ \A v \in Variants : variant[v].status # "PUBLISHING" => variant[v].token = 0

\* What may happen to the claim of a variant in a step.
ClaimStays(v) ==
    variant'[v].status = variant[v].status /\ variant'[v].token = variant[v].token
ClaimTaken(v) ==
    /\ variant'[v].status = "PUBLISHING"
    /\ \/ variant[v].status = "SCHEDULED"
       \/ variant[v].status = "PUBLISHING" /\ variant[v].stale
ClaimEnded(v) ==
    /\ variant[v].status = "PUBLISHING" /\ variant'[v].token = 0
    /\ \E w \in Workers : /\ pc[w] # "idle" /\ pc'[w] # pc[w]
                          /\ run[w].token = variant[v].token
MovedByPerson(v) ==
    /\ UNCHANGED pc /\ variant'[v].token = variant[v].token
    /\ variant[v].status \notin {"PUBLISHING", "PUBLISHED"}
    /\ variant[v].status = "NEEDS_REVIEW" => UNCHANGED post
    /\ variant'[v].status # "PUBLISHING"

LEMMA ReleaseEnds ==
    ASSUME TokenInv, NEW w \in Workers, pc[w] # "idle", pc'[w] # pc[w],
           NEW st, NEW v \in Variants,
           variant' = IF HoldsClaim(w)
                      THEN [variant EXCEPT ![VariantOf(w)].status = st,
                                           ![VariantOf(w)].token = 0,
                                           ![VariantOf(w)].stale = FALSE]
                      ELSE variant
    PROVE  ClaimStays(v) \/ ClaimEnded(v)
<1>1. /\ TypeOK /\ VariantOf(w) \in Variants /\ run[w].token # 0
  BY EngineAssumption DEF TokenInv, TypeOK, VariantOf, Rows, Tokens
<1>2. CASE ~HoldsClaim(w) \/ v # VariantOf(w)
  <2>1. variant'[v] = variant[v]  BY <1>1, <1>2 DEF TypeOK
  <2> QED  BY <2>1 DEF ClaimStays
<1>3. CASE HoldsClaim(w) /\ v = VariantOf(w)
  <2>1. variant[v].token = run[w].token /\ variant[v].status = "PUBLISHING"
    BY <1>1, <1>3 DEF HoldsClaim, TokenInv
  <2>2. variant'[v].token = 0  BY <1>1, <1>3 DEF TypeOK, VariantRecord
  <2> QED  BY <2>1, <2>2 DEF ClaimEnded
<1> QED  BY <1>2, <1>3

LEMMA OrderMoves ==
    ASSUME TokenInv, NEW o, CarryOut(o), NEW v \in Variants, o.to # "PUBLISHING",
           v \in o.on => /\ variant[v].status \notin {"PUBLISHING", "PUBLISHED"}
                         /\ variant[v].status = "NEEDS_REVIEW" => o.post = NoStatus
    PROVE  ClaimStays(v) \/ MovedByPerson(v)
<1>1. variant' = Moved(o) /\ UNCHANGED pc /\ variant[v] \in VariantRecord
  BY DEF CarryOut, TokenInv, TypeOK
<1>2. CASE v \notin o.on
  BY <1>1, <1>2 DEF Moved, ClaimStays
<1>3. CASE v \in o.on
  <2>1. variant'[v].status = o.to /\ variant'[v].token = variant[v].token
    BY <1>1, <1>3 DEF Moved, VariantRecord
  <2>2. o.post = NoStatus => post' = post  BY DEF CarryOut
  <2> QED  BY <1>1, <1>3, <2>1, <2>2 DEF MovedByPerson
<1> QED  BY <1>2, <1>3

LEMMA NobodyOrders ==
    ASSUME order = NoOrder, "race" \notin Faults, [Next]_vars  PROVE  order' = NoOrder
<1>1. CASE Human
  BY <1>1 DEF Human, PublishNow, RetryFailed, RetryJob, Resolve, CommitOrder, Issue
<1>2. ASSUME NEW w \in Workers, Take(w)  PROVE  order' = NoOrder
  BY <1>2 DEF Take, ClaimVariant, TakeOverClaim, NotClaimable, Dequeue
<1>3. ASSUME NEW w \in Workers, Step(w)  PROVE  order' = NoOrder
  BY <1>3
  DEF Step, Load, LoadRefused, AcquireLock, Defer, ReconcileUnknown, ReconcileTimeout,
      Refused, OpenAttempt, Accepted, TimedOut, CloseAttempt, Settle, SettleRow, RollUpRead,
      RollUpWrite, Retryable, PendRow, Requeue, Reject, Throw
<1>4. ASSUME NEW w \in Workers, StoreFails(w) \/ Crash(w)  PROVE  order' = NoOrder
  BY <1>4 DEF StoreFails, Crash
<1>5. CASE UNCHANGED vars \/ Sweep  BY <1>5 DEF vars, Sweep
<1>6. CASE \E i \in DOMAIN attempts : Land(i)  BY <1>6 DEF Land
<1>7. CASE \E v \in Variants : ClaimExpires(v)  BY <1>7 DEF ClaimExpires
<1>8. CASE \E a \in Accounts : LockExpires(a)  BY <1>8 DEF LockExpires
<1> QED  BY <1>1, <1>2, <1>3, <1>4, <1>5, <1>6, <1>7, <1>8 DEF Next

LEMMA ClaimSteps ==
    ASSUME TokenInv, "race" \notin Faults, [Next]_vars
    PROVE  \A v \in Variants :
               \/ ClaimStays(v) \/ ClaimTaken(v) \/ ClaimEnded(v)
               \/ Human /\ MovedByPerson(v)
<1> SUFFICES ASSUME NEW v \in Variants
             PROVE  \/ ClaimStays(v) \/ ClaimTaken(v) \/ ClaimEnded(v)
                    \/ Human /\ MovedByPerson(v)
  OBVIOUS
<1>0. TypeOK /\ order = NoOrder  BY DEF TokenInv
<1>1. ASSUME UNCHANGED variant
      PROVE  ClaimStays(v)
  BY <1>0, <1>1 DEF ClaimStays
<1>2. ASSUME Human
      PROVE  ClaimStays(v) \/ MovedByPerson(v)
  <2>1. ASSUME NEW o, Issue(o)  PROVE  CarryOut(o) /\ UNCHANGED order
    BY <2>1 DEF Issue
  <2>2. ASSUME NEW x \in Variants, RetryJob(x)
        PROVE  ClaimStays(v) \/ MovedByPerson(v)
    <3>1. PICK o : o = Order({x}, "SCHEDULED", NoStatus, TRUE)  OBVIOUS
    <3>2. CarryOut(o) /\ UNCHANGED order /\ o.on = {x} /\ o.to = "SCHEDULED"
          /\ o.post = NoStatus /\ variant[x].status \notin {"PUBLISHING", "PUBLISHED"}
      BY <2>1, <2>2, <3>1 DEF RetryJob, Order
    <3> QED  BY <1>0, <3>2, OrderMoves
  <2>3. CASE RetryFailed
    <3>1. PICK o : o = Order(WithStatus(RetryableVariantStatuses), "SCHEDULED", NoStatus, TRUE)
      OBVIOUS
    <3>2. CarryOut(o) /\ UNCHANGED order /\ o.to = "SCHEDULED" /\ o.post = NoStatus
          /\ (v \in o.on => variant[v].status = "FAILED")
      BY <2>3, <3>1 DEF RetryFailed, Order, WithStatus, RetryableVariantStatuses
    <3> QED  BY <1>0, <3>2, OrderMoves
  <2>4. CASE PublishNow
    <3>1. PICK o : o = Order(WithStatus(PublishableVariantStatuses), "SCHEDULED",
                             "SCHEDULED", TRUE)
      OBVIOUS
    <3>2. CarryOut(o) /\ UNCHANGED order /\ o.to = "SCHEDULED"
          /\ (v \in o.on => variant[v].status \in {"DRAFT", "SCHEDULED", "FAILED"})
      BY <2>1, <2>4, <3>1
      DEF PublishNow, Order, WithStatus, PublishableVariantStatuses, RetryableVariantStatuses
    <3> QED  BY <1>0, <3>2, OrderMoves
  <2>5. ASSUME NEW x \in Variants, NEW answer \in Resolutions, Resolve(x, answer)
        PROVE  ClaimStays(v) \/ MovedByPerson(v)
    <3>1. PICK o : o = Order({x}, ResolvedAs[answer], NoStatus, FALSE)  OBVIOUS
    <3>2. ResolvedAs[answer] # "PUBLISHING"  BY EngineAssumption DEF ResolvedAs
    <3>3. CarryOut(o) /\ UNCHANGED order /\ o.on = {x} /\ o.to # "PUBLISHING"
          /\ o.post = NoStatus /\ variant[x].status = "NEEDS_REVIEW"
      BY <2>1, <2>5, <3>1, <3>2 DEF Resolve, Order
    <3> QED  BY <1>0, <3>3, OrderMoves
  <2>6. ~CommitOrder  BY <1>0 DEF CommitOrder
  <2> QED  BY <1>2, <2>2, <2>3, <2>4, <2>5, <2>6 DEF Human
<1>3. ASSUME NEW w \in Workers, Take(w)
      PROVE  ClaimStays(v) \/ ClaimTaken(v)
  <2>1. PICK r \in Rows : ClaimVariant(w, r) \/ TakeOverClaim(w, r) \/ NotClaimable(w, r)
    BY <1>3 DEF Take
  <2>3. CASE NotClaimable(w, r)  BY <1>1, <2>3 DEF NotClaimable
  <2>4. CASE ClaimVariant(w, r) \/ TakeOverClaim(w, r)
    <3>1. variant' = [variant EXCEPT ![r[1]].status = "PUBLISHING",
                                     ![r[1]].token = claims + 1, ![r[1]].stale = FALSE]
      BY <2>4 DEF ClaimVariant, TakeOverClaim, Begin
    <3>2. \/ variant[r[1]].status = "SCHEDULED"
          \/ variant[r[1]].status = "PUBLISHING" /\ variant[r[1]].stale
      BY <2>4 DEF ClaimVariant, TakeOverClaim
    <3>3. CASE v = r[1]
      <4>1. variant'[v].status = "PUBLISHING"
        BY <1>0, <3>1, <3>3 DEF TypeOK, VariantRecord
      <4> QED  BY <3>2, <3>3, <4>1 DEF ClaimTaken
    <3>4. CASE v # r[1]  BY <1>0, <3>1, <3>4 DEF TypeOK, ClaimStays
    <3> QED  BY <3>3, <3>4
  <2> QED  BY <2>1, <2>3, <2>4
<1>4. ASSUME NEW w \in Workers, Step(w)
      PROVE  ClaimStays(v) \/ ClaimEnded(v)
  <2>1. ASSUME pc[w] # "idle", pc'[w] # pc[w], ReleaseClaim(w)
        PROVE  ClaimStays(v) \/ ClaimEnded(v)
    <3>1. PICK st : st = "SCHEDULED"  OBVIOUS
    <3>2. variant' = IF HoldsClaim(w)
                     THEN [variant EXCEPT ![VariantOf(w)].status = st,
                                          ![VariantOf(w)].token = 0,
                                          ![VariantOf(w)].stale = FALSE]
                     ELSE variant
      BY <2>1, <3>1 DEF ReleaseClaim
    <3> QED  BY <1>0, <2>1, <3>2, ReleaseEnds
  <2>2. CASE Defer(w) \/ Retryable(w) \/ Reject(w)
    <3>1. pc[w] # "idle" /\ pc'[w] # pc[w]
      BY <1>0, <2>2 DEF TypeOK, Defer, Retryable, Reject, At, Goto, Finish
    <3> QED  BY <2>1, <2>2, <3>1 DEF Defer, Retryable, Reject
  <2>3. CASE Throw(w)
    <3>1. pc[w] # "idle" /\ pc'[w] # pc[w]  BY <1>0, <2>3 DEF TypeOK, Throw, At, Goto
    <3> QED  BY <1>1, <2>1, <2>3, <3>1 DEF Throw
  <2>4. CASE Settle(w)
    <3>1. pc[w] # "idle" /\ pc'[w] # pc[w]  BY <1>0, <2>4 DEF TypeOK, Settle, At, Goto
    <3> QED  BY <1>0, <2>4, <3>1, ReleaseEnds DEF Settle
  <2>5. CASE Step(w) /\ ~(Defer(w) \/ Retryable(w) \/ Reject(w) \/ Throw(w) \/ Settle(w))
    <3>1. UNCHANGED variant
      BY <2>5
      DEF Step, Load, LoadRefused, AcquireLock, ReconcileUnknown, ReconcileTimeout, Refused,
          OpenAttempt, Accepted, TimedOut, CloseAttempt, SettleRow, RollUpRead, RollUpWrite,
          PendRow, Requeue
    <3> QED  BY <1>1, <3>1
  <2> QED  BY <1>4, <2>2, <2>3, <2>4, <2>5
<1>5. ASSUME NEW x \in Variants, ClaimExpires(x)  PROVE  ClaimStays(v)
  BY <1>0, <1>5 DEF TypeOK, ClaimExpires, VariantRecord, ClaimStays
<1>6. CASE UNCHANGED vars \/ Sweep  BY <1>1, <1>6 DEF vars, Sweep
<1>7. ASSUME NEW w \in Workers, StoreFails(w) \/ Crash(w)
      PROVE  ClaimStays(v)
  BY <1>1, <1>7 DEF StoreFails, Crash
<1>8. ASSUME NEW i, Land(i)  PROVE  ClaimStays(v)
  BY <1>1, <1>8 DEF Land
<1>9. ASSUME NEW a, LockExpires(a)  PROVE  ClaimStays(v)
  BY <1>1, <1>9 DEF LockExpires
<1> QED  BY <1>2, <1>3, <1>4, <1>5, <1>6, <1>7, <1>8, <1>9 DEF Next

LEMMA InitTokenInv == Init => TokenInv
<1> SUFFICES ASSUME Init PROVE TokenInv  OBVIOUS
<1>1. TypeOK  BY InitTypeOK
<1> QED  BY <1>1 DEF Init, TokenInv

LEMMA NextTokenInv ==
    ASSUME "race" \notin Faults  PROVE  TokenInv /\ [Next]_vars => TokenInv'
<1> SUFFICES ASSUME TokenInv, [Next]_vars PROVE TokenInv'  OBVIOUS
<1>1. TypeOK'  BY NextTypeOK DEF TokenInv
<1>2. order' = NoOrder  BY NobodyOrders DEF TokenInv
<1>3. ASSUME NEW v \in Variants, variant'[v].status # "PUBLISHING"
      PROVE  variant'[v].token = 0
  <2>1. \/ ClaimStays(v) \/ ClaimTaken(v) \/ ClaimEnded(v)
        \/ Human /\ MovedByPerson(v)
    BY ClaimSteps
  <2> QED
    BY <1>3, <2>1 DEF TokenInv, ClaimStays, ClaimTaken, ClaimEnded, MovedByPerson
<1> QED  BY <1>1, <1>2, <1>3 DEF TokenInv

\* Whatever fails, however late an answer is and however slow a worker, a
\* claim is ended by the run that holds it or taken once it has expired: the
\* token in the WHERE of releaseClaim and settleClaim is enough.
THEOREM ClaimsAreFenced ==
    ASSUME "race" \notin Faults  PROVE  Spec => ClaimEndedByHolder
<1>1. ASSUME TokenInv, [Next]_vars
      PROVE  \A v \in Variants :
                 (variant[v].token # 0 /\ variant'[v].token # variant[v].token) =>
                     \/ variant[v].stale
                     \/ \E w \in Workers : /\ pc[w] # "idle" /\ pc'[w] # pc[w]
                                           /\ run[w].token = variant[v].token
  BY <1>1, ClaimSteps DEF TokenInv, ClaimStays, ClaimTaken, ClaimEnded, MovedByPerson
<1>2. TokenInv /\ [Next]_vars =>
          [\A v \in Variants :
              (variant[v].token # 0 /\ variant'[v].token # variant[v].token) =>
                  \/ variant[v].stale
                  \/ \E w \in Workers : /\ pc[w] # "idle" /\ pc'[w] # pc[w]
                                        /\ run[w].token = variant[v].token]_vars
  BY <1>1
<1> QED  BY <1>2, InitTokenInv, NextTokenInv, PTL DEF Spec, ClaimEndedByHolder

\* Under the same assumption nothing leaves PUBLISHED, and only a person takes
\* a variant out of NEEDS_REVIEW.
THEOREM OutcomesDoStand ==
    ASSUME "race" \notin Faults  PROVE  Spec => OutcomesStand
<1>1. ASSUME TokenInv, [Next]_vars
      PROVE  \A v \in Variants :
                 /\ variant[v].status = "PUBLISHED" => variant'[v].status = "PUBLISHED"
                 /\ (variant[v].status = "NEEDS_REVIEW"
                       /\ variant'[v].status # "NEEDS_REVIEW") => UNCHANGED <<pc, post>>
  BY <1>1, ClaimSteps DEF ClaimStays, ClaimTaken, ClaimEnded, MovedByPerson
<1>2. TokenInv /\ [Next]_vars =>
          [\A v \in Variants :
              /\ variant[v].status = "PUBLISHED" => variant'[v].status = "PUBLISHED"
              /\ (variant[v].status = "NEEDS_REVIEW"
                    /\ variant'[v].status # "NEEDS_REVIEW") => UNCHANGED <<pc, post>>]_vars
  BY <1>1
<1> QED  BY <1>2, InitTokenInv, NextTokenInv, PTL DEF Spec, OutcomesStand

----------------------------------------------------------------------------
(* The post settles once.                                                  *)

\* Nobody orders anything while the post goes out: there is no later instant
\* to schedule a variant for, and no parked variant is answered.
LeftAlone == "race" \notin Faults /\ MaxSlots = 1 /\ Resolutions = {}

\* Whoever is about to write the post's status read it when every variant had
\* an outcome, and what they made of those is still what they amount to.
RollUpKnows ==
    \A w \in Workers :
        pc[w] = "write" => /\ run[w].seen = "PUBLISHING" /\ AllSettled
                           /\ run[w].target = PostStatusFor(StatusOf)

SettleInv ==
    /\ TokenInv /\ RollUpKnows
    /\ \A v \in Variants : variant[v].status # "CANCELED"

\* With one instant there is nothing a person could order.
LEMMA NoOrderFits ==
    ASSUME LeftAlone, TypeOK, order = NoOrder  PROVE  ~Human
<1>1. \A v \in Variants : ~(variant[v].slot < MaxSlots)
  BY DEF LeftAlone, TypeOK, VariantRecord, Slots
<1>2. ASSUME NEW S \in SUBSET Variants, S # {}, NEW status, NEW send
      PROVE  ~InBounds(Order(S, "SCHEDULED", status, send))
  BY <1>1, <1>2 DEF InBounds, Order
<1>3. ASSUME NEW v \in Variants  PROVE  ~RetryJob(v)
  <2>1. ~InBounds(Order({v}, "SCHEDULED", NoStatus, TRUE))  BY <1>2
  <2> QED  BY <2>1 DEF RetryJob, Issue
<1>4. \A S : WithStatus(S) \in SUBSET Variants  BY DEF WithStatus
<1>5. ~RetryFailed
  <2> SUFFICES ASSUME WithStatus(RetryableVariantStatuses) # {},
                      CarryOut(Order(WithStatus(RetryableVariantStatuses), "SCHEDULED",
                                     NoStatus, TRUE))
               PROVE  FALSE
    BY DEF RetryFailed
  <2> QED  BY <1>2, <1>4 DEF CarryOut
<1>6. ~PublishNow
  <2> SUFFICES ASSUME Issue(Order(WithStatus(PublishableVariantStatuses), "SCHEDULED",
                                  "SCHEDULED", TRUE))
               PROVE  FALSE
    BY DEF PublishNow
  <2>1. WithStatus(PublishableVariantStatuses) # {}  BY DEF Issue, Order
  <2> QED  BY <1>2, <1>4, <2>1 DEF Issue
<1>7. ~CommitOrder  BY DEF CommitOrder
<1> QED  BY <1>3, <1>5, <1>6, <1>7 DEF Human, LeftAlone

\* Once every variant has an outcome no step changes one.
LEMMA OutcomesAreFinal ==
    ASSUME LeftAlone, TokenInv, [Next]_vars
    PROVE  /\ \A v \in Variants :
                  \/ variant'[v].status = variant[v].status
                  \/ Pending(variant[v].status)
           /\ AllSettled => AllSettled' /\ StatusOf' = StatusOf
<1>1. ASSUME NEW v \in Variants, ~Pending(variant[v].status)
      PROVE  variant'[v].status = variant[v].status
  <2>1. ~Human  BY NoOrderFits DEF TokenInv
  <2>2. ClaimStays(v) \/ ClaimTaken(v) \/ ClaimEnded(v)  BY <2>1, ClaimSteps DEF LeftAlone
  <2> QED  BY <1>1, <2>2 DEF Pending, ClaimStays, ClaimTaken, ClaimEnded
<1>2. ASSUME AllSettled  PROVE  AllSettled' /\ StatusOf' = StatusOf
  <2>1. \A v \in Variants : variant'[v].status = variant[v].status
    BY <1>1, <1>2 DEF AllSettled
  <2> QED  BY <1>2, <2>1 DEF AllSettled, StatusOf
<1> QED  BY <1>1, <1>2

\* No variant is ever CANCELED: a worker ends a claim otherwise, and nobody
\* else writes a status.
LEMMA NoneIsCanceled ==
    ASSUME LeftAlone, SettleInv, [Next]_vars, NEW v \in Variants
    PROVE  variant'[v].status # "CANCELED"
<1>0. TokenInv /\ TypeOK /\ variant[v].status # "CANCELED"  BY DEF SettleInv, TokenInv
<1>1. CASE ~Pending(variant[v].status)  BY <1>0, <1>1, OutcomesAreFinal
<1>2. CASE UNCHANGED variant  BY <1>0, <1>2
<1>3. ASSUME NEW w \in Workers, Take(w)  PROVE  variant'[v].status # "CANCELED"
  <2>1. PICK r \in Rows : ClaimVariant(w, r) \/ TakeOverClaim(w, r) \/ NotClaimable(w, r)
    BY <1>3 DEF Take
  <2>2. CASE NotClaimable(w, r)  BY <1>2, <2>2 DEF NotClaimable
  <2>3. CASE ClaimVariant(w, r) \/ TakeOverClaim(w, r)
    <3>1. variant' = [variant EXCEPT ![r[1]].status = "PUBLISHING",
                                     ![r[1]].token = claims + 1, ![r[1]].stale = FALSE]
      BY <2>3 DEF ClaimVariant, TakeOverClaim, Begin
    <3> QED  BY <1>0, <3>1 DEF TypeOK, VariantRecord
  <2> QED  BY <2>1, <2>2, <2>3
<1>4. ASSUME NEW w \in Workers, Step(w)  PROVE  variant'[v].status # "CANCELED"
  <2>1. CASE UNCHANGED variant  BY <1>2, <2>1
  <2>2. CASE ReleaseClaim(w)
    BY <1>0, <2>2 DEF ReleaseClaim, TypeOK, VariantRecord
  <2>3. CASE Settle(w)
    <3>1. run[w].outcome \in Outcomes  BY <1>0, <2>3 DEF TypeOK, Settle, At
    <3>2. SettledAs(run[w].outcome) # "CANCELED"  BY <3>1 DEF SettledAs, Outcomes
    <3> QED  BY <1>0, <2>3, <3>2 DEF Settle, TypeOK, VariantRecord
  <2> QED
    BY <1>4, <2>1, <2>2, <2>3
    DEF Step, Load, LoadRefused, AcquireLock, Defer, ReconcileUnknown, ReconcileTimeout,
        Refused, OpenAttempt, Accepted, TimedOut, CloseAttempt, SettleRow, RollUpRead,
        RollUpWrite, Retryable, PendRow, Requeue, Reject, Throw
<1>5. ASSUME NEW x \in Variants, ClaimExpires(x)  PROVE  variant'[v].status # "CANCELED"
  BY <1>0, <1>5 DEF TypeOK, ClaimExpires, VariantRecord
<1>6. ~Human  BY <1>0, NoOrderFits DEF TokenInv
<1> QED
  BY <1>2, <1>3, <1>4, <1>5, <1>6
  DEF Next, vars, Sweep, StoreFails, Crash, Land, LockExpires

\* What the roll-up reads of a post that a variant of went out: it moves the
\* post only out of PUBLISHING, and only once every variant has an outcome.
LEMMA RollUpMoves ==
    ASSUME SettleInv, NEW w \in Workers, At(w, "roll"),
           NEW target, target = PostStatusFor(StatusOf),
           target # NoStatus, AssertTransition(post, target, "SYSTEM")
    PROVE  post = "PUBLISHING" /\ AllSettled
<1>1. TypeOK /\ VariantOf(w) \in Variants
  BY DEF SettleInv, TokenInv, TypeOK, At, VariantOf, Rows
<1>2. PICK counted : counted = Occurring(StatusOf) \ {"CANCELED"}  OBVIOUS
<1>3. \A v \in Variants : variant[v].status \in counted
  BY <1>2 DEF SettleInv, Occurring, StatusOf
<1>4. /\ \A s \in counted : ~Pending(s)
      /\ target \in {"PUBLISHED", "FAILED", "PARTIALLY_PUBLISHED"}
  <2>1. counted # {}  BY <1>1, <1>3
  <2>2. ~\E s \in counted : Pending(s)
    <3> SUFFICES ASSUME \E s \in Occurring(StatusOf) \ {"CANCELED"} : Pending(s)
                 PROVE  PostStatusFor(StatusOf) = NoStatus
      BY <1>2
    <3> QED  BY DEF PostStatusFor, Pending
  <2> QED  BY <1>2, <2>1, <2>2 DEF PostStatusFor
<1>5. AllSettled  BY <1>3, <1>4 DEF AllSettled
<1>6. post = "PUBLISHING"
  BY <1>4 DEF AssertTransition, Transitions, HumanTransitions, SystemTransitions
<1> QED  BY <1>5, <1>6

LEMMA NextSettleInv ==
    ASSUME LeftAlone  PROVE  SettleInv /\ [Next]_vars => SettleInv'
<1> SUFFICES ASSUME SettleInv, [Next]_vars PROVE SettleInv'  OBVIOUS
<1>1. TokenInv /\ TypeOK /\ TokenInv'  BY NextTokenInv DEF SettleInv, LeftAlone, TokenInv
<1>2. ASSUME NEW w \in Workers, pc'[w] = "write"
      PROVE  /\ run'[w].seen = "PUBLISHING" /\ AllSettled'
             /\ run'[w].target = PostStatusFor(StatusOf')
  <2>1. CASE pc[w] = "write" /\ run'[w] = run[w]
    BY <1>1, <2>1, OutcomesAreFinal DEF SettleInv, RollUpKnows
  <2>2. CASE RollUpRead(w)
    <3>1. PICK target : target = PostStatusFor(StatusOf)  OBVIOUS
    <3>2. /\ At(w, "roll") /\ UNCHANGED variant
          /\ target # NoStatus /\ AssertTransition(post, target, "SYSTEM")
          /\ run'[w].seen = post /\ run'[w].target = target
      <4>1. ~Finish(w)  BY <1>1, <1>2 DEF Finish, Goto, TypeOK
      <4>2. /\ At(w, "roll") /\ UNCHANGED variant
            /\ target \notin {NoStatus, post} /\ AssertTransition(post, target, "SYSTEM")
            /\ Note(w, [run[w] EXCEPT !.seen = post, !.target = target])
        BY <2>2, <3>1, <4>1 DEF RollUpRead, StatusOf
      <4> QED  BY <1>1, <4>2 DEF Note, TypeOK, RunOf
    <3>3. post = "PUBLISHING" /\ AllSettled  BY <3>1, <3>2, RollUpMoves
    <3>4. AllSettled' /\ StatusOf' = StatusOf  BY <3>2, <3>3 DEF AllSettled, StatusOf
    <3> QED  BY <3>1, <3>2, <3>3, <3>4
  <2>3. ASSUME NEW x \in Workers, Take(x)  PROVE  pc[w] = "write" /\ run'[w] = run[w]
    BY <1>1, <1>2, <2>3
    DEF Take, ClaimVariant, TakeOverClaim, NotClaimable, Begin, Goto, Note, TypeOK
  <2>4. ASSUME NEW x \in Workers, Step(x), ~RollUpRead(x)
        PROVE  pc[w] = "write" /\ run'[w] = run[w]
    BY <1>1, <1>2, <2>4
    DEF Step, Load, LoadRefused, AcquireLock, Defer, ReconcileUnknown, ReconcileTimeout,
        Refused, OpenAttempt, Accepted, TimedOut, CloseAttempt, Settle, SettleRow,
        RollUpWrite, Retryable, PendRow, Requeue, Reject, Throw, Conclude, Goto, Note,
        Finish, TypeOK
  <2>5. ASSUME NEW x \in Workers, RollUpRead(x), x # w
        PROVE  pc[w] = "write" /\ run'[w] = run[w]
    BY <1>1, <1>2, <2>5 DEF RollUpRead, Goto, Note, Finish, TypeOK
  <2>6. ASSUME NEW x \in Workers, StoreFails(x) \/ Crash(x)
        PROVE  pc[w] = "write" /\ run'[w] = run[w]
    BY <1>1, <1>2, <2>6
    DEF StoreFails, Crash, Conclude, Goto, Note, Finish, At, TypeOK
  <2>7. ~Human  BY <1>1, NoOrderFits DEF TokenInv, LeftAlone
  <2> QED
    BY <1>2, <2>1, <2>2, <2>3, <2>4, <2>5, <2>6, <2>7
    DEF Next, vars, Sweep, Land, ClaimExpires, LockExpires
<1>3. RollUpKnows'  BY <1>2 DEF RollUpKnows
<1>4. \A v \in Variants : variant'[v].status # "CANCELED"  BY NoneIsCanceled
<1> QED  BY <1>1, <1>3, <1>4 DEF SettleInv

\* While nobody orders anything, the post gets a status once: the one its
\* variants' outcomes amount to, when each has one.  The write's WHERE status
\* names what was read, and outcomes do not change; so runs that roll up at
\* once, answers that come late, failing writes and deaths do no harm.
THEOREM PostDoesSettleOnce ==
    ASSUME LeftAlone  PROVE  Spec => PostSettlesOnce
<1>1. ASSUME SettleInv, [Next]_vars, post # post'
      PROVE  \/ post = "SCHEDULED" /\ post' = "PUBLISHING"
             \/ post' = "SCHEDULED" /\ UNCHANGED pc
             \/ /\ post = "PUBLISHING" /\ AllSettled
                /\ post' = PostStatusFor(StatusOf)
  <2>1. ~Human  BY <1>1, NoOrderFits DEF SettleInv, TokenInv
  <2>2. \E w \in Workers : Load(w) \/ RollUpWrite(w)
    BY <1>1, <2>1
    DEF Next, vars, Sweep, Land, ClaimExpires, LockExpires, StoreFails, Crash, Take,
        ClaimVariant, TakeOverClaim, NotClaimable, Dequeue, Step, LoadRefused, AcquireLock,
        Defer, ReconcileUnknown, ReconcileTimeout, Refused, OpenAttempt, Accepted, TimedOut,
        CloseAttempt, Settle, SettleRow, RollUpRead, Retryable, PendRow, Requeue, Reject,
        Throw
  <2>3. ASSUME NEW w \in Workers, RollUpWrite(w)
        PROVE  /\ post = "PUBLISHING" /\ AllSettled
               /\ post' = PostStatusFor(StatusOf)
    BY <1>1, <2>3 DEF RollUpWrite, At, SettleInv, RollUpKnows, StatusOf
  <2> QED  BY <1>1, <2>2, <2>3 DEF Load
<1>2. SettleInv /\ [Next]_vars =>
          [post # post' =>
              \/ post = "SCHEDULED" /\ post' = "PUBLISHING"
              \/ post' = "SCHEDULED" /\ UNCHANGED pc
              \/ /\ post = "PUBLISHING" /\ AllSettled
                 /\ post' = PostStatusFor(StatusOf)]_vars
  BY <1>1
<1>3. Init => SettleInv
  BY InitTokenInv DEF Init, SettleInv, RollUpKnows
<1> QED  BY <1>2, <1>3, NextSettleInv, PTL DEF Spec, PostSettlesOnce

----------------------------------------------------------------------------
(***************************************************************************)
(* The engine posts a variant at most once, and its status says what       *)
(* happened, for every number of workers, variants, accounts, claims and   *)
(* retries, under the faults that it withstands.                           *)
(***************************************************************************)

\* Where a run has the claim it was started with, and where it has an attempt
\* of its own that is not closed.
Holding == {"claimed", "reconcile", "ready", "locked", "calling", "unsure", "close",
            "apply", "reject"}
InCall == {"calling", "unsure", "close"}

\* No fault but a process that dies, and that not between closing an attempt
\* and settling; nor in the call, if a retry may have a row of its own.
Withstood ==
    /\ Faults = {} /\ "ABANDON" \notin Resolutions
    /\ "apply" \notin CrashPoints
    /\ MaxSlots = 1 \/ CrashPoints \cap InCall = {}

OpenOf(w) ==
    {i \in DOMAIN attempts : attempts[i].row = run[w].row /\ attempts[i].state = "IN_FLIGHT"}

\* Layer 2: the claim of a run that works is its own, and fresh.
HoldsFresh(w) ==
    pc[w] \in Holding => /\ variant[VariantOf(w)].status = "PUBLISHING"
                         /\ variant[VariantOf(w)].token = run[w].token
                         /\ ~variant[VariantOf(w)].stale

\* The ledger has an open attempt of this run's row while it is in the call,
\* and none where it has established what became of the last.
OpensOne(w) ==
    /\ pc[w] \in {"ready", "locked", "apply"} => OpenOf(w) = {}
    /\ pc[w] \in InCall => OpenOf(w) = {run[w].attempt}

\* What a run takes for the outcome is what happened.
Knows(w) ==
    /\ pc[w] \in {"ready", "locked"} => Landed(VariantOf(w)) = {}
    /\ pc[w] \in InCall => Landed(VariantOf(w)) \subseteq {run[w].attempt}
    /\ pc[w] \in {"close", "apply"} =>
          /\ run[w].outcome = "PUBLISHED" => Landed(VariantOf(w)) # {}
          /\ run[w].outcome \in {"RETRYABLE", "FAILED"} => Landed(VariantOf(w)) = {}

WorkerOK(w) == pc[w] # "throw" /\ HoldsFresh(w) /\ OpensOne(w) /\ Knows(w)

Owned(i, at) == \E w \in Workers : pc[w] \in at /\ run[w].attempt = i

\* A run is about to settle this variant for good.
Applied(v) ==
    \E w \in Workers : /\ pc[w] = "apply" /\ VariantOf(w) = v
                       /\ run[w].outcome \in {"PUBLISHED", "INCONCLUSIVE"}

\* The ledger does not forget a post whose variant could be published again.
Remembered(i) ==
    (attempts[i].call = "landed" /\ attempts[i].state # "IN_FLIGHT") =>
        \/ variant[attempts[i].row[1]].status \in {"PUBLISHED", "NEEDS_REVIEW"}
        \/ Applied(attempts[i].row[1])

\* A call is open while somebody waits for it; an attempt, while its run is in
\* the call, or for whoever takes the claim over.
AttemptOK(i) ==
    /\ attempts[i].call = "open" => Owned(i, {"calling"})
    /\ attempts[i].state = "IN_FLIGHT" => MaxSlots = 1 \/ Owned(i, InCall)
    /\ Remembered(i)

VariantOK(v) ==
    /\ variant[v].status = "PUBLISHED" => Landed(v) # {}
    /\ variant[v].status = "FAILED" => Landed(v) = {}
    /\ \A i, j \in Landed(v) : i = j
    /\ \A i, j \in DOMAIN attempts :
          (/\ attempts[i].row = attempts[j].row /\ attempts[i].row[1] = v
           /\ attempts[i].state = "IN_FLIGHT" /\ attempts[j].state = "IN_FLIGHT") => i = j

OnceInv ==
    /\ LockInv
    /\ order = NoOrder
    /\ \A w \in Workers : WorkerOK(w)
    /\ \A i \in DOMAIN attempts : AttemptOK(i)
    /\ \A v \in Variants : VariantOK(v)

----------------------------------------------------------------------------
(* What a claim excludes.                                                  *)

\* Nobody but w may hold v.
Free(w, v) ==
    /\ pc[w] \in Holding => VariantOf(w) = v
    /\ \A x \in Workers \ {w} : pc[x] \in Holding => VariantOf(x) # v

LEMMA LedgerShape ==
    ASSUME TypeOK
    PROVE  /\ DOMAIN attempts = 1 .. Len(attempts) /\ Len(attempts) \in Nat
           /\ \A i \in DOMAIN attempts :
                 /\ attempts[i] \in AttemptRecord
                 /\ attempts[i].row \in Rows /\ attempts[i].row[1] \in Variants
<1>1. attempts \in Seq(AttemptRecord)  BY DEF TypeOK
<1>2. /\ DOMAIN attempts = 1 .. Len(attempts) /\ Len(attempts) \in Nat
      /\ attempts \in [1 .. Len(attempts) -> AttemptRecord]
  BY <1>1, LenProperties
<1>3. \A i \in DOMAIN attempts : attempts[i] \in AttemptRecord  BY <1>2
<1> QED  BY <1>2, <1>3 DEF AttemptRecord, Rows

LEMMA RunShape ==
    ASSUME TypeOK, NEW w \in Workers, pc[w] \in Holding
    PROVE  /\ run[w] \in RunOf /\ run[w].row \in Rows
           /\ VariantOf(w) \in Variants /\ run[w].row[1] = VariantOf(w)
BY DEF TypeOK, Holding, VariantOf, Rows

LEMMA HolderAlone ==
    ASSUME OnceInv, NEW w \in Workers, pc[w] \in Holding
    PROVE  Free(w, VariantOf(w))
<1> SUFFICES ASSUME NEW x \in Workers, pc[x] \in Holding, VariantOf(x) = VariantOf(w)
             PROVE  x = w
  BY DEF Free
<1>1. run[x].token = run[w].token  BY DEF OnceInv, WorkerOK, HoldsFresh
<1> QED  BY <1>1 DEF OnceInv, LockInv, TokensDistinct, Holding

LEMMA OneSlot ==
    ASSUME MaxSlots = 1, NEW r \in Rows, NEW q \in Rows, r[1] = q[1]
    PROVE  r = q
BY DEF Rows, Slots

\* A call, and an attempt, of the variant a run holds are the run's own; and
\* before it is about to settle, a post is one that the ledger has as open.
LEMMA HolderKnows ==
    ASSUME OnceInv, NEW w \in Workers, pc[w] \in Holding,
           NEW i \in DOMAIN attempts, attempts[i].row[1] = VariantOf(w)
    PROVE  /\ attempts[i].call = "open" => pc[w] = "calling" /\ run[w].attempt = i
           /\ attempts[i].state = "IN_FLIGHT" =>
                 attempts[i].row = run[w].row /\ i \in OpenOf(w)
           /\ (attempts[i].state = "IN_FLIGHT" /\ MaxSlots # 1) =>
                 pc[w] \in InCall /\ run[w].attempt = i
           /\ (attempts[i].call = "landed" /\ attempts[i].state # "IN_FLIGHT") =>
                 pc[w] = "apply" /\ run[w].outcome \in {"PUBLISHED", "INCONCLUSIVE"}
<1>0. TypeOK /\ Free(w, VariantOf(w)) /\ AttemptOK(i) /\ WorkerOK(w)
  BY HolderAlone DEF OnceInv, LockInv
<1>1. ASSUME NEW x \in Workers, pc[x] \in InCall, run[x].attempt = i
      PROVE  x = w /\ i \in OpenOf(w)
  <2>1. i \in OpenOf(x)  BY <1>1 DEF OnceInv, WorkerOK, OpensOne
  <2>2. pc[x] \in Holding /\ VariantOf(x) = VariantOf(w)
    BY <1>1, <2>1 DEF InCall, Holding, OpenOf, VariantOf
  <2> QED  BY <1>0, <2>1, <2>2 DEF Free
<1>2. ASSUME attempts[i].call = "open"  PROVE  pc[w] = "calling" /\ run[w].attempt = i
  <2>1. PICK x \in Workers : pc[x] \in {"calling"} /\ run[x].attempt = i
    BY <1>0, <1>2 DEF AttemptOK, Owned
  <2> QED  BY <1>1, <2>1 DEF InCall
<1>3. ASSUME attempts[i].state = "IN_FLIGHT"
      PROVE  /\ attempts[i].row = run[w].row /\ i \in OpenOf(w)
             /\ MaxSlots # 1 => pc[w] \in InCall /\ run[w].attempt = i
  <2>1. CASE MaxSlots = 1
    BY <1>0, <1>3, <2>1, OneSlot, LedgerShape, RunShape DEF OpenOf, VariantOf
  <2>2. CASE MaxSlots # 1
    <3>1. PICK x \in Workers : pc[x] \in InCall /\ run[x].attempt = i
      BY <1>0, <1>3, <2>2 DEF AttemptOK, Owned
    <3> QED  BY <1>1, <3>1 DEF OpenOf
  <2> QED  BY <2>1, <2>2
<1>4. ASSUME attempts[i].call = "landed", attempts[i].state # "IN_FLIGHT"
      PROVE  pc[w] = "apply" /\ run[w].outcome \in {"PUBLISHED", "INCONCLUSIVE"}
  <2>1. variant[VariantOf(w)].status = "PUBLISHING"  BY <1>0 DEF WorkerOK, HoldsFresh
  <2>2. PICK x \in Workers : /\ pc[x] = "apply" /\ VariantOf(x) = VariantOf(w)
                             /\ run[x].outcome \in {"PUBLISHED", "INCONCLUSIVE"}
    BY <1>0, <1>4, <2>1 DEF AttemptOK, Remembered, Applied
  <2> QED  BY <1>0, <2>2 DEF Free, Holding
<1> QED  BY <1>2, <1>3, <1>4
----------------------------------------------------------------------------
(* A step that concerns one variant and at most one worker.                *)

Concerns(w, v) ==
    /\ \A x \in Workers \ {w} : pc'[x] = pc[x] /\ run'[x] = run[x]
    /\ pc'[w] \in Holding => run'[w].row[1] = v
    /\ \A u \in Variants \ {v} : variant'[u] = variant[u]
    /\ DOMAIN attempts \subseteq DOMAIN attempts'
    /\ \A i \in DOMAIN attempts :
          /\ attempts'[i].row = attempts[i].row
          /\ attempts[i].row[1] # v => attempts'[i] = attempts[i]
    /\ \A i \in DOMAIN attempts' \ DOMAIN attempts : attempts'[i].row[1] = v
    /\ UNCHANGED order

\* It keeps the invariant if it keeps what the invariant says of those.
LEMMA ElsewhereNothing ==
    ASSUME OnceInv, LockInv', NEW w \in Workers, NEW v \in Variants,
           Free(w, v), Concerns(w, v), WorkerOK(w)', VariantOK(v)',
           \A i \in DOMAIN attempts' : attempts'[i].row[1] = v => AttemptOK(i)'
    PROVE  OnceInv'
<1>0. TypeOK /\ TypeOK'  BY DEF OnceInv, LockInv
<1>1. ASSUME NEW i \in DOMAIN attempts', attempts'[i].row[1] # v
      PROVE  i \in DOMAIN attempts /\ attempts'[i] = attempts[i] /\ attempts[i].row[1] # v
  BY <1>1 DEF Concerns
<1>2. ASSUME NEW u \in Variants \ {v}  PROVE  Landed(u)' = Landed(u)
  BY <1>1, <1>2 DEF Landed, Concerns
<1>3. ASSUME NEW u \in Variants \ {v}  PROVE  VariantOK(u)'
  <2>1. VariantOK(u) /\ variant'[u] = variant[u]  BY DEF OnceInv, Concerns
  <2>2. Landed(u)' = Landed(u)  BY <1>2
  <2>3. ASSUME NEW i \in DOMAIN attempts', NEW j \in DOMAIN attempts',
               attempts'[i].row = attempts'[j].row, attempts'[i].row[1] = u,
               attempts'[i].state = "IN_FLIGHT", attempts'[j].state = "IN_FLIGHT"
        PROVE  i = j
    BY <1>1, <2>1, <2>3 DEF VariantOK
  <2> QED  BY <2>1, <2>2, <2>3 DEF VariantOK
<1>4. ASSUME NEW x \in Workers \ {w}  PROVE  WorkerOK(x)'
  <2>1. pc'[x] = pc[x] /\ run'[x] = run[x] /\ WorkerOK(x)  BY DEF Concerns, OnceInv
  <2>2. CASE pc[x] \notin Holding
    BY <2>1, <2>2 DEF WorkerOK, HoldsFresh, OpensOne, Knows, Holding, InCall
  <2>3. CASE pc[x] \in Holding
    <3>1. VariantOf(x) # v /\ VariantOf(x) \in Variants /\ run[x].row[1] = VariantOf(x)
      BY <1>0, <2>3, RunShape DEF Free
    <3>2. VariantOf(x)' = VariantOf(x)  BY <2>1 DEF VariantOf
    <3>3. variant'[VariantOf(x)] = variant[VariantOf(x)]  BY <3>1 DEF Concerns
    <3>4. HoldsFresh(x)'  BY <2>1, <3>2, <3>3 DEF WorkerOK, HoldsFresh
    <3>5. OpenOf(x)' = OpenOf(x)
      BY <1>1, <2>1, <3>1 DEF OpenOf, Concerns
    <3>6. OpensOne(x)'  BY <2>1, <3>5 DEF WorkerOK, OpensOne
    <3>7. Landed(VariantOf(x))' = Landed(VariantOf(x))
      BY <1>1, <3>1, <3>2 DEF Landed, Concerns
    <3>8. Knows(x)'  BY <2>1, <3>7 DEF WorkerOK, Knows
    <3> QED  BY <2>1, <3>4, <3>6, <3>8 DEF WorkerOK
  <2> QED  BY <2>2, <2>3
<1>5. ASSUME NEW i \in DOMAIN attempts', attempts'[i].row[1] # v  PROVE  AttemptOK(i)'
  <2>1. i \in DOMAIN attempts /\ attempts'[i] = attempts[i] /\ attempts[i].row[1] # v
    BY <1>1, <1>5
  <2>2. AttemptOK(i) /\ attempts[i].row[1] \in Variants
    BY <1>0, <2>1, LedgerShape DEF OnceInv
  <2>3. ASSUME NEW at \in SUBSET InCall, Owned(i, at)  PROVE  Owned(i, at)'
    <3>1. PICK x \in Workers : pc[x] \in at /\ run[x].attempt = i  BY <2>3 DEF Owned
    <3>2. i \in OpenOf(x)  BY <3>1 DEF OnceInv, WorkerOK, OpensOne
    <3>3. pc[x] \in Holding /\ VariantOf(x) # v
      BY <2>1, <3>1, <3>2 DEF InCall, Holding, OpenOf, VariantOf
    <3>4. x # w  BY <3>3 DEF Free
    <3> QED  BY <3>1, <3>4 DEF Owned, Concerns
  <2>4. variant'[attempts[i].row[1]] = variant[attempts[i].row[1]]
    BY <2>1, <2>2 DEF Concerns
  <2>5. Applied(attempts[i].row[1]) => Applied(attempts[i].row[1])'
    <3> SUFFICES ASSUME Applied(attempts[i].row[1])
                 PROVE  \E x \in Workers :
                            /\ pc'[x] = "apply" /\ run'[x].row[1] = attempts[i].row[1]
                            /\ run'[x].outcome \in {"PUBLISHED", "INCONCLUSIVE"}
      BY <2>1 DEF Applied, VariantOf
    <3>1. PICK x \in Workers : /\ pc[x] = "apply" /\ VariantOf(x) = attempts[i].row[1]
                               /\ run[x].outcome \in {"PUBLISHED", "INCONCLUSIVE"}
      BY DEF Applied
    <3>2. x # w  BY <2>1, <3>1 DEF Free, Holding
    <3> QED  BY <3>1, <3>2 DEF Concerns, VariantOf
  <2>6. {"calling"} \in SUBSET InCall /\ InCall \in SUBSET InCall  BY DEF InCall
  <2>7. attempts'[i].call = "open" => Owned(i, {"calling"})'
    BY <2>1, <2>2, <2>3, <2>6 DEF AttemptOK
  <2>8. attempts'[i].state = "IN_FLIGHT" => MaxSlots = 1 \/ Owned(i, InCall)'
    BY <2>1, <2>2, <2>3, <2>6 DEF AttemptOK
  <2>9. Remembered(i)'
    <3> SUFFICES ASSUME attempts'[i].call = "landed", attempts'[i].state # "IN_FLIGHT",
                        variant'[attempts[i].row[1]].status \notin {"PUBLISHED", "NEEDS_REVIEW"}
                 PROVE  Applied(attempts[i].row[1])'
      BY <2>1 DEF Remembered, Applied
    <3> QED  BY <2>1, <2>2, <2>4, <2>5 DEF AttemptOK, Remembered
  <2> QED  BY <2>7, <2>8, <2>9 DEF AttemptOK
<1>6. order' = NoOrder  BY DEF OnceInv, Concerns
<1> QED  BY <1>3, <1>4, <1>5, <1>6 DEF OnceInv
\* The steps that leave the ledger alone.
LEMMA NothingMoved ==
    ASSUME OnceInv, LockInv', UNCHANGED <<variant, attempts, pc, run, order>>
    PROVE  OnceInv'
<1>1. ASSUME NEW w \in Workers  PROVE  WorkerOK(w)'
  BY DEF OnceInv, WorkerOK, HoldsFresh, OpensOne, OpenOf, Knows, Landed, VariantOf
<1>2. ASSUME NEW i \in DOMAIN attempts'  PROVE  AttemptOK(i)'
  <2>1. AttemptOK(i)  BY DEF OnceInv
  <2>2. AttemptOK(i)' = AttemptOK(i)
    BY DEF AttemptOK, Remembered, Owned, Applied, VariantOf
  <2> QED  BY <2>1, <2>2
<1>3. ASSUME NEW v \in Variants  PROVE  VariantOK(v)'
  BY DEF OnceInv, VariantOK, Landed
<1> QED  BY <1>1, <1>2, <1>3 DEF OnceInv

\* A worker that has no claim any more disturbs nobody.
LEMMA NothingHeld ==
    ASSUME OnceInv, LockInv', NEW w \in Workers,
           pc[w] \notin Holding, pc'[w] \notin Holding, pc'[w] # "throw",
           \A x \in Workers \ {w} : pc'[x] = pc[x] /\ run'[x] = run[x],
           UNCHANGED <<variant, attempts, order>>
    PROVE  OnceInv'
<1>1. ASSUME NEW x \in Workers  PROVE  WorkerOK(x)'
  <2>1. CASE x = w
    BY <2>1 DEF WorkerOK, HoldsFresh, OpensOne, Knows, Holding, InCall
  <2>2. CASE x # w
    BY <2>2 DEF OnceInv, WorkerOK, HoldsFresh, OpensOne, OpenOf, Knows, Landed, VariantOf
  <2> QED  BY <2>1, <2>2
<1>2. ASSUME NEW i \in DOMAIN attempts  PROVE  AttemptOK(i)'
  <2>1. AttemptOK(i)  BY DEF OnceInv
  <2>2. ASSUME NEW at \in SUBSET InCall, Owned(i, at)  PROVE  Owned(i, at)'
    BY <2>2 DEF Owned, InCall, Holding
  <2>3. {"calling"} \in SUBSET InCall /\ InCall \in SUBSET InCall  BY DEF InCall
  <2>4. Applied(attempts[i].row[1]) => Applied(attempts[i].row[1])'
    BY DEF Applied, VariantOf, Holding
  <2>5. Remembered(i)'  BY <2>1, <2>4 DEF AttemptOK, Remembered
  <2> QED  BY <2>1, <2>2, <2>3, <2>5 DEF AttemptOK
<1>3. ASSUME NEW v \in Variants  PROVE  VariantOK(v)'
  BY DEF OnceInv, VariantOK, Landed
<1> QED  BY <1>1, <1>2, <1>3 DEF OnceInv

\* A run that goes on, or dies, without a write.
LEMMA NothingWritten ==
    ASSUME OnceInv, LockInv', NEW w \in Workers, pc[w] \in Holding, pc[w] # "apply",
           \A x \in Workers \ {w} : pc'[x] = pc[x] /\ run'[x] = run[x],
           UNCHANGED <<variant, attempts, order>>,
           pc'[w] # "throw",
           pc'[w] \in Holding => run'[w].row = run[w].row /\ run'[w].token = run[w].token,
           OpensOne(w)', Knows(w)',
           pc[w] = "calling" => Call(w) # "open",
           (pc[w] \in InCall /\ MaxSlots # 1) =>
               pc'[w] \in InCall /\ run'[w].attempt = run[w].attempt
    PROVE  OnceInv'
<1>v. PICK v \in Variants : v = VariantOf(w)  BY RunShape DEF OnceInv, LockInv
<1>0. TypeOK /\ Free(w, v) /\ WorkerOK(w) /\ run[w].row[1] = v
  BY <1>v, HolderAlone, RunShape DEF OnceInv, LockInv
<1>1. Concerns(w, v)  BY <1>0 DEF Concerns
<1>2. WorkerOK(w)'  BY <1>0 DEF WorkerOK, HoldsFresh, VariantOf
<1>3. VariantOK(v)'  BY <1>0 DEF OnceInv, VariantOK, Landed
<1>4. ASSUME NEW i \in DOMAIN attempts', attempts'[i].row[1] = v  PROVE  AttemptOK(i)'
  <2>1. /\ attempts[i].call = "open" => pc[w] = "calling" /\ run[w].attempt = i
        /\ (attempts[i].state = "IN_FLIGHT" /\ MaxSlots # 1) =>
              pc[w] \in InCall /\ run[w].attempt = i
        /\ attempts[i].call = "landed" => attempts[i].state = "IN_FLIGHT"
    BY <1>v, <1>4, HolderKnows
  <2>2. attempts'[i].call # "open"  BY <2>1 DEF Call
  <2>3. attempts'[i].state = "IN_FLIGHT" => MaxSlots = 1 \/ Owned(i, InCall)'
    BY <2>1 DEF Owned
  <2>4. Remembered(i)'  BY <2>1 DEF Remembered
  <2> QED  BY <2>2, <2>3, <2>4 DEF AttemptOK
<1> QED  BY <1>0, <1>1, <1>2, <1>3, <1>4, ElsewhereNothing

\* A run that ends its claim, with a status that is true.
LEMMA TrulyEnded ==
    ASSUME OnceInv, LockInv', NEW w \in Workers, pc[w] \in {"ready", "reject", "apply"},
           pc'[w] \notin Holding, pc'[w] # "throw",
           \A x \in Workers \ {w} : pc'[x] = pc[x] /\ run'[x] = run[x],
           UNCHANGED <<attempts, order>>,
           NEW st,
           variant' = [variant EXCEPT ![VariantOf(w)].status = st,
                                      ![VariantOf(w)].token = 0,
                                      ![VariantOf(w)].stale = FALSE],
           st = "PUBLISHED" => Landed(VariantOf(w)) # {},
           st = "FAILED" => Landed(VariantOf(w)) = {},
           pc[w] = "apply" =>
               st \in {"PUBLISHED", "NEEDS_REVIEW"} \/ Landed(VariantOf(w)) = {}
    PROVE  OnceInv'
<1>p. pc[w] \in Holding  BY DEF Holding
<1>v. PICK v \in Variants : v = VariantOf(w)  BY <1>p, RunShape DEF OnceInv, LockInv
<1>0. TypeOK /\ Free(w, v)
  BY <1>p, <1>v, HolderAlone DEF OnceInv, LockInv
<1>1. variant'[v].status = st /\ \A u \in Variants \ {v} : variant'[u] = variant[u]
  BY <1>0, <1>v DEF TypeOK, VariantRecord
<1>2. Concerns(w, v)  BY <1>1 DEF Concerns
<1>3. WorkerOK(w)'  BY DEF WorkerOK, HoldsFresh, OpensOne, Knows, Holding, InCall
<1>4. Landed(v)' = Landed(v)  BY DEF Landed
<1>5. VariantOK(v)'
  <2>1. VariantOK(v)  BY <1>0 DEF OnceInv
  <2> QED  BY <1>v, <1>1, <1>4, <2>1 DEF VariantOK
<1>6. ASSUME NEW i \in DOMAIN attempts', attempts'[i].row[1] = v  PROVE  AttemptOK(i)'
  <2>1. /\ attempts[i].call # "open"
        /\ attempts[i].state = "IN_FLIGHT" => MaxSlots = 1
        /\ (attempts[i].call = "landed" /\ attempts[i].state # "IN_FLIGHT") => pc[w] = "apply"
    BY <1>p, <1>v, <1>6, HolderKnows DEF InCall
  <2>2. attempts[i].call = "landed" => i \in Landed(v)  BY <1>6 DEF Landed
  <2>3. Remembered(i)'  BY <1>v, <1>1, <1>6, <2>1, <2>2 DEF Remembered
  <2> QED  BY <2>1, <2>3 DEF AttemptOK
<1> QED  BY <1>0, <1>2, <1>3, <1>5, <1>6, ElsewhereNothing
----------------------------------------------------------------------------
(* The ledger.                                                             *)

LEMMA StateWritten ==
    ASSUME TypeOK, NEW k \in DOMAIN attempts, NEW st,
           attempts' = [attempts EXCEPT ![k].state = st]
    PROVE  /\ DOMAIN attempts' = DOMAIN attempts
           /\ \A i \in DOMAIN attempts :
                 /\ attempts'[i].row = attempts[i].row /\ attempts'[i].call = attempts[i].call
                 /\ attempts'[i].state = IF i = k THEN st ELSE attempts[i].state
                 /\ i # k => attempts'[i] = attempts[i]
           /\ \A u : Landed(u)' = Landed(u)
<1>1. attempts[k] \in AttemptRecord  BY LedgerShape
<1>2. DOMAIN attempts' = DOMAIN attempts  OBVIOUS
<1>3. \A i \in DOMAIN attempts :
         /\ attempts'[i].row = attempts[i].row /\ attempts'[i].call = attempts[i].call
         /\ attempts'[i].state = IF i = k THEN st ELSE attempts[i].state
         /\ i # k => attempts'[i] = attempts[i]
  BY <1>1 DEF AttemptRecord
<1>4. ASSUME NEW u  PROVE  Landed(u)' = Landed(u)  BY <1>2, <1>3 DEF Landed
<1> QED  BY <1>2, <1>3, <1>4

LEMMA CallWritten ==
    ASSUME TypeOK, NEW k \in DOMAIN attempts, NEW c,
           attempts' = [attempts EXCEPT ![k].call = c]
    PROVE  /\ DOMAIN attempts' = DOMAIN attempts
           /\ \A i \in DOMAIN attempts :
                 /\ attempts'[i].row = attempts[i].row /\ attempts'[i].state = attempts[i].state
                 /\ attempts'[i].call = IF i = k THEN c ELSE attempts[i].call
                 /\ i # k => attempts'[i] = attempts[i]
<1>1. attempts[k] \in AttemptRecord  BY LedgerShape
<1>2. DOMAIN attempts' = DOMAIN attempts  OBVIOUS
<1>3. \A i \in DOMAIN attempts :
         /\ attempts'[i].row = attempts[i].row /\ attempts'[i].state = attempts[i].state
         /\ attempts'[i].call = IF i = k THEN c ELSE attempts[i].call
         /\ i # k => attempts'[i] = attempts[i]
  BY <1>1 DEF AttemptRecord
<1> QED  BY <1>2, <1>3

\* findInFlightAttempt finds the one attempt there may be.
LEMMA InFlightFinds ==
    ASSUME OnceInv, NEW w \in Workers, pc[w] \in Holding
    PROVE  \/ OpenOf(w) = {} /\ InFlight(run[w].row) = 0
           \/ /\ InFlight(run[w].row) \in DOMAIN attempts /\ InFlight(run[w].row) # 0
              /\ OpenOf(w) = {InFlight(run[w].row)}
<1>0. TypeOK  BY DEF OnceInv, LockInv
<1>1. InFlight(run[w].row) =
          IF OpenOf(w) = {} THEN 0
          ELSE CHOOSE i \in OpenOf(w) : \A j \in OpenOf(w) : j <= i
  BY DEF InFlight, OpenOf
<1>2. CASE OpenOf(w) = {}  BY <1>1, <1>2
<1>3. CASE OpenOf(w) # {}
  <2>1. PICK i : i \in OpenOf(w)  BY <1>3
  <2>2. VariantOK(VariantOf(w)) /\ run[w].row[1] = VariantOf(w)
    BY <1>0, RunShape DEF OnceInv
  <2>3. OpenOf(w) = {i}  BY <2>1, <2>2 DEF VariantOK, OpenOf
  <2>4. i \in DOMAIN attempts /\ i \in Nat \ {0}
    BY <1>0, <2>1, LedgerShape DEF OpenOf
  <2>5. (CHOOSE k \in {i} : \A j \in {i} : j <= k) = i  BY <2>4
  <2> QED  BY <1>1, <2>3, <2>4, <2>5
<1> QED  BY <1>2, <1>3

\* A run that has not called, and has found nothing open, would have heard of
\* a post.
LEMMA NothingLanded ==
    ASSUME OnceInv, NEW w \in Workers, pc[w] \in Holding, pc[w] # "apply"
    PROVE  Landed(VariantOf(w)) \subseteq OpenOf(w)
BY HolderKnows DEF Landed

----------------------------------------------------------------------------
(* A worker's steps, from the claim on.                                    *)

LEMMA LoadKeeps ==
    ASSUME OnceInv, LockInv', NEW w \in Workers, Load(w)  PROVE  OnceInv'
<1>1. TypeOK /\ pc[w] = "claimed" /\ pc[w] \in Holding
  BY DEF OnceInv, LockInv, Load, At, Holding
<1>2. /\ UNCHANGED <<variant, attempts, run, order>>
      /\ \A x \in Workers \ {w} : pc'[x] = pc[x]
      /\ pc'[w] = IF run[w].takeover \/ InFlight(run[w].row) # 0
                  THEN "reconcile" ELSE "ready"
  BY <1>1 DEF TypeOK, Load, Goto
<1>3. pc'[w] = "ready" => OpenOf(w) = {}  BY <1>1, <1>2, InFlightFinds
<1>4. OpensOne(w)'  BY <1>2, <1>3 DEF OpensOne, OpenOf, InCall
<1>5. pc'[w] = "ready" => Landed(VariantOf(w)) = {}  BY <1>1, <1>3, NothingLanded
<1>6. Knows(w)'  BY <1>2, <1>5 DEF Knows, Landed, VariantOf, InCall
<1> QED  BY <1>1, <1>2, <1>4, <1>6, NothingWritten DEF InCall

LEMMA QuietKeeps ==
    ASSUME OnceInv, LockInv', NEW w \in Workers, LoadRefused(w) \/ AcquireLock(w)
    PROVE  OnceInv'
<1>1. TypeOK /\ WorkerOK(w) /\ pc[w] \in {"claimed", "ready"} /\ pc[w] \in Holding
  BY DEF OnceInv, LockInv, LoadRefused, AcquireLock, At, Holding
<1>2. /\ UNCHANGED <<variant, attempts, run, order>>
      /\ \A x \in Workers \ {w} : pc'[x] = pc[x]
      /\ pc[w] = "claimed" => pc'[w] = "reject"
      /\ pc[w] = "ready" => pc'[w] = "locked"
  BY <1>1 DEF TypeOK, LoadRefused, AcquireLock, At, Goto
<1>3. OpensOne(w)'  BY <1>1, <1>2 DEF WorkerOK, OpensOne, OpenOf, InCall
<1>4. Knows(w)'  BY <1>1, <1>2 DEF WorkerOK, Knows, Landed, VariantOf, InCall
<1> QED  BY <1>1, <1>2, <1>3, <1>4, NothingWritten DEF InCall

LEMMA AcceptedKeeps ==
    ASSUME OnceInv, LockInv', NEW w \in Workers, Accepted(w)  PROVE  OnceInv'
<1>1. /\ TypeOK /\ WorkerOK(w) /\ pc[w] = "calling" /\ Call(w) = "landed"
      /\ pc[w] \in Holding /\ run[w] \in RunOf
  BY DEF OnceInv, LockInv, Accepted, At, Holding, TypeOK
<1>2. /\ UNCHANGED <<variant, attempts, order>>
      /\ \A x \in Workers \ {w} : pc'[x] = pc[x] /\ run'[x] = run[x]
      /\ pc'[w] = "close" /\ run'[w].outcome = "PUBLISHED"
      /\ run'[w].row = run[w].row /\ run'[w].token = run[w].token
      /\ run'[w].attempt = run[w].attempt
  BY <1>1 DEF TypeOK, Accepted, Goto, Conclude, Note, RunOf
<1>3. OpensOne(w)'  BY <1>1, <1>2 DEF WorkerOK, OpensOne, OpenOf, InCall
<1>4. run[w].attempt \in OpenOf(w)  BY <1>1 DEF WorkerOK, OpensOne, InCall
<1>5. run[w].attempt \in Landed(VariantOf(w))
  BY <1>1, <1>4 DEF OpenOf, Landed, VariantOf, Call
<1>6. Knows(w)'  BY <1>1, <1>2, <1>5 DEF WorkerOK, Knows, Landed, VariantOf, InCall
<1> QED  BY <1>1, <1>2, <1>3, <1>6, NothingWritten DEF InCall

LEMMA ReconcileTimeoutKeeps ==
    ASSUME OnceInv, LockInv', NEW w \in Workers, NEW answer \in Outcomes,
           ReconcileTimeout(w, answer)
    PROVE  OnceInv'
<1>1. /\ TypeOK /\ WorkerOK(w) /\ pc[w] = "unsure" /\ pc[w] \in Holding /\ run[w] \in RunOf
      /\ answer \in ReconcileAnswers(VariantOf(w), run[w].attempt)
  BY DEF OnceInv, LockInv, ReconcileTimeout, At, Holding, TypeOK
<1>2. /\ UNCHANGED <<variant, attempts, order>>
      /\ \A x \in Workers \ {w} : pc'[x] = pc[x] /\ run'[x] = run[x]
      /\ pc'[w] = "close" /\ run'[w].outcome = answer
      /\ run'[w].row = run[w].row /\ run'[w].token = run[w].token
      /\ run'[w].attempt = run[w].attempt
  BY <1>1 DEF TypeOK, ReconcileTimeout, Goto, Note, RunOf
<1>3. OpensOne(w)'  BY <1>1, <1>2 DEF WorkerOK, OpensOne, OpenOf, InCall
<1>4. /\ answer = "PUBLISHED" => Landed(VariantOf(w)) # {}
      /\ answer = "RETRYABLE" => run[w].attempt \notin Landed(VariantOf(w))
      /\ answer # "FAILED"
  BY <1>1 DEF ReconcileAnswers
<1>5. Landed(VariantOf(w)) \subseteq {run[w].attempt}
  BY <1>1 DEF WorkerOK, Knows, InCall
<1>6. Knows(w)'  BY <1>2, <1>4, <1>5 DEF Knows, Landed, VariantOf, InCall
<1> QED  BY <1>1, <1>2, <1>3, <1>6, NothingWritten DEF InCall
LEMMA EndedKeeps ==
    ASSUME OnceInv, LockInv', NEW w \in Workers, Defer(w) \/ Reject(w) \/ Retryable(w)
    PROVE  OnceInv'
<1>1. /\ TypeOK /\ WorkerOK(w) /\ pc[w] \in {"ready", "reject", "apply"}
      /\ pc[w] = "apply" => run[w].outcome = "RETRYABLE"
  BY DEF OnceInv, LockInv, Defer, Reject, Retryable, At
<1>2. /\ UNCHANGED <<attempts, order>> /\ ReleaseClaim(w)
      /\ \A x \in Workers \ {w} : pc'[x] = pc[x] /\ run'[x] = run[x]
      /\ pc'[w] \in {"requeue", "pend", "idle"}
  BY <1>1 DEF TypeOK, Defer, Reject, Retryable, Goto, Finish, Note
<1>3. HoldsClaim(w)  BY <1>1 DEF WorkerOK, HoldsFresh, HoldsClaim, Holding
<1>4. variant' = [variant EXCEPT ![VariantOf(w)].status = "SCHEDULED",
                                 ![VariantOf(w)].token = 0,
                                 ![VariantOf(w)].stale = FALSE]
  BY <1>2, <1>3 DEF ReleaseClaim
<1>5. pc[w] = "apply" => Landed(VariantOf(w)) = {}  BY <1>1 DEF WorkerOK, Knows
<1>6. pc'[w] \notin Holding /\ pc'[w] # "throw"  BY <1>2 DEF Holding
<1>7. PICK st : st = "SCHEDULED"  OBVIOUS
<1>8. variant' = [variant EXCEPT ![VariantOf(w)].status = st, ![VariantOf(w)].token = 0,
                                 ![VariantOf(w)].stale = FALSE]
  BY <1>4, <1>7
<1>9. /\ st = "PUBLISHED" => Landed(VariantOf(w)) # {}
      /\ st = "FAILED" => Landed(VariantOf(w)) = {}
      /\ pc[w] = "apply" =>
             st \in {"PUBLISHED", "NEEDS_REVIEW"} \/ Landed(VariantOf(w)) = {}
  BY <1>5, <1>7
<1>10. pc[w] \in {"ready", "reject", "apply"} /\ UNCHANGED <<attempts, order>>
       /\ \A x \in Workers \ {w} : pc'[x] = pc[x] /\ run'[x] = run[x]
  BY <1>1, <1>2
<1> QED  BY <1>6, <1>8, <1>9, <1>10, TrulyEnded

LEMMA SettleKeeps ==
    ASSUME OnceInv, LockInv', NEW w \in Workers, Settle(w)  PROVE  OnceInv'
<1>1. /\ TypeOK /\ WorkerOK(w) /\ pc[w] = "apply"
      /\ run[w].outcome \in Outcomes \ {"RETRYABLE"}
  BY DEF OnceInv, LockInv, Settle, At, TypeOK
<1>2. /\ UNCHANGED <<attempts, order>>
      /\ \A x \in Workers \ {w} : pc'[x] = pc[x] /\ run'[x] = run[x]
      /\ pc'[w] = "settled"
  BY <1>1 DEF TypeOK, Settle, Goto
<1>3. HoldsClaim(w)  BY <1>1 DEF WorkerOK, HoldsFresh, HoldsClaim, Holding
<1>4. variant' = [variant EXCEPT ![VariantOf(w)].status = SettledAs(run[w].outcome),
                                 ![VariantOf(w)].token = 0,
                                 ![VariantOf(w)].stale = FALSE]
  BY <1>3 DEF Settle
<1>5. /\ SettledAs(run[w].outcome) = "PUBLISHED" => Landed(VariantOf(w)) # {}
      /\ SettledAs(run[w].outcome) = "FAILED" => Landed(VariantOf(w)) = {}
      /\ SettledAs(run[w].outcome) \in {"PUBLISHED", "NEEDS_REVIEW", "FAILED"}
  BY <1>1 DEF WorkerOK, Knows, SettledAs, Outcomes
<1>6. pc'[w] \notin Holding /\ pc'[w] # "throw"  BY <1>2 DEF Holding
<1> QED  BY <1>1, <1>2, <1>4, <1>5, <1>6, TrulyEnded

LEMMA AfterwardsKeeps ==
    ASSUME OnceInv, LockInv', NEW w \in Workers,
           SettleRow(w) \/ RollUpRead(w) \/ RollUpWrite(w) \/ PendRow(w) \/ Requeue(w)
    PROVE  OnceInv'
<1>1. TypeOK /\ pc[w] \in {"settled", "roll", "write", "pend", "requeue"}
  BY DEF OnceInv, LockInv, SettleRow, RollUpRead, RollUpWrite, PendRow, Requeue, At
<1>2. UNCHANGED <<variant, attempts, order>>
  BY DEF SettleRow, RollUpRead, RollUpWrite, PendRow, Requeue
<1>3. /\ \A x \in Workers \ {w} : pc'[x] = pc[x] /\ run'[x] = run[x]
      /\ pc'[w] \in {"roll", "write", "idle", "requeue"}
  <2>1. CASE SettleRow(w) \/ RollUpWrite(w) \/ PendRow(w) \/ Requeue(w)
    BY <1>1, <2>1 DEF TypeOK, SettleRow, RollUpWrite, PendRow, Requeue, Goto, Finish, Note
  <2>2. CASE RollUpRead(w)
    <3>1. Finish(w) \/ \E t : Goto(w, "write") /\ Note(w, t)  BY <2>2 DEF RollUpRead
    <3> QED  BY <1>1, <3>1 DEF TypeOK, Goto, Finish, Note
  <2> QED  BY <2>1, <2>2
<1>4. pc[w] \notin Holding /\ pc'[w] \notin Holding /\ pc'[w] # "throw"
  BY <1>1, <1>3 DEF Holding
<1> QED  BY <1>2, <1>3, <1>4, NothingHeld

LEMMA ReconcileUnknownKeeps ==
    ASSUME OnceInv, LockInv', NEW w \in Workers, NEW answer \in Outcomes,
           ReconcileUnknown(w, answer)
    PROVE  OnceInv'
<1> DEFINE k == InFlight(run[w].row)
<1>1. /\ TypeOK /\ WorkerOK(w) /\ pc[w] = "reconcile" /\ pc[w] \in Holding /\ run[w] \in RunOf
      /\ answer \in ReconcileAnswers(VariantOf(w), k)
  BY DEF OnceInv, LockInv, ReconcileUnknown, At, Holding, TypeOK
<1>v. PICK v \in Variants : v = VariantOf(w)  BY <1>1, RunShape
<1>2. /\ UNCHANGED <<variant, order>>
      /\ \A x \in Workers \ {w} : pc'[x] = pc[x] /\ run'[x] = run[x]
      /\ pc'[w] = IF answer = "RETRYABLE" THEN "ready" ELSE "apply"
      /\ run'[w].outcome = answer
      /\ run'[w].row = run[w].row /\ run'[w].token = run[w].token
  BY <1>1 DEF TypeOK, ReconcileUnknown, Goto, Note, RunOf
<1>3. /\ DOMAIN attempts' = DOMAIN attempts
      /\ \A i \in DOMAIN attempts :
            /\ attempts'[i].row = attempts[i].row /\ attempts'[i].call = attempts[i].call
            /\ i \in OpenOf(w) => attempts'[i].state # "IN_FLIGHT"
            /\ i \notin OpenOf(w) => attempts'[i] = attempts[i]
      /\ \A u : Landed(u)' = Landed(u)
  <2>1. CASE OpenOf(w) = {} /\ k = 0
    <3>1. attempts' = attempts  BY <2>1 DEF ReconcileUnknown
    <3> QED  BY <2>1, <3>1 DEF Landed
  <2>2. CASE k \in DOMAIN attempts /\ k # 0 /\ OpenOf(w) = {k}
    <3>1. attempts' = [attempts EXCEPT ![k].state = AttemptStateFor(answer, TRUE)]
      BY <2>2 DEF ReconcileUnknown
    <3>2. PICK st : st = AttemptStateFor(answer, TRUE)  OBVIOUS
    <3>3. st # "IN_FLIGHT"  BY <3>2 DEF AttemptStateFor
    <3> HIDE DEF k
    <3>4. attempts' = [attempts EXCEPT ![k].state = st]  BY <3>1, <3>2
    <3>5. /\ DOMAIN attempts' = DOMAIN attempts
          /\ \A i \in DOMAIN attempts :
                /\ attempts'[i].row = attempts[i].row /\ attempts'[i].call = attempts[i].call
                /\ attempts'[i].state = IF i = k THEN st ELSE attempts[i].state
                /\ i # k => attempts'[i] = attempts[i]
          /\ \A u : Landed(u)' = Landed(u)
      BY <1>1, <2>2, <3>4, StateWritten
    <3> QED  BY <2>2, <3>3, <3>5
  <2> QED  BY <1>1, <2>1, <2>2, InFlightFinds
<1>4. /\ answer = "PUBLISHED" => Landed(v) # {}
      /\ answer = "RETRYABLE" => k \notin Landed(v)
      /\ answer \in {"PUBLISHED", "RETRYABLE", "INCONCLUSIVE"}
  BY <1>1, <1>v DEF ReconcileAnswers
<1>5. Landed(v) \subseteq OpenOf(w)  BY <1>1, <1>v, NothingLanded
<1>6. answer = "RETRYABLE" => Landed(v) = {}  BY <1>1, <1>4, <1>5, InFlightFinds
<1> HIDE DEF k
<1>7. Free(w, v) /\ run[w].row[1] = v  BY <1>1, <1>v, HolderAlone, RunShape
<1>8. Concerns(w, v)
  <2>1. \A i \in OpenOf(w) : attempts[i].row[1] = v  BY <1>7 DEF OpenOf
  <2> QED  BY <1>2, <1>3, <1>7, <2>1 DEF Concerns
<1>9. WorkerOK(w)'
  <2>1. VariantOf(w)' = v  BY <1>2, <1>7 DEF VariantOf
  <2>2. OpenOf(w)' = {}  BY <1>2, <1>3 DEF OpenOf
  <2>3. HoldsFresh(w)'  BY <1>1, <1>2, <1>v, <2>1 DEF WorkerOK, HoldsFresh
  <2>4. OpensOne(w)'  BY <1>2, <2>2 DEF OpensOne, InCall
  <2>5. Knows(w)'
    <3>1. Landed(VariantOf(w))' = Landed(v)  BY <1>3, <2>1 DEF Landed
    <3> QED  BY <1>2, <1>4, <1>6, <3>1 DEF Knows, InCall
  <2> QED  BY <1>2, <2>3, <2>4, <2>5 DEF WorkerOK
<1>10. VariantOK(v)'
  <2>1. VariantOK(v)  BY DEF OnceInv
  <2>2. \A i \in DOMAIN attempts' :
            attempts'[i].state = "IN_FLIGHT" => attempts[i].state = "IN_FLIGHT"
    BY <1>3 DEF OpenOf
  <2> QED  BY <1>2, <1>3, <2>1, <2>2 DEF VariantOK
<1>11. ASSUME NEW i \in DOMAIN attempts', attempts'[i].row[1] = v  PROVE  AttemptOK(i)'
  <2>1. i \in DOMAIN attempts /\ attempts[i].row[1] = VariantOf(w)  BY <1>v, <1>3, <1>11
  <2>2. /\ attempts[i].call # "open"
        /\ attempts[i].state = "IN_FLIGHT" => i \in OpenOf(w)
    BY <1>1, <2>1, HolderKnows
  <2>3. attempts'[i].call # "open" /\ attempts'[i].state # "IN_FLIGHT"
    BY <1>3, <2>1, <2>2
  <2>4. ASSUME attempts'[i].call = "landed"  PROVE  Applied(v)'
    <3>1. i \in Landed(v)  BY <1>v, <1>3, <2>1, <2>4 DEF Landed
    <3>2. pc'[w] = "apply" /\ run'[w].outcome \in {"PUBLISHED", "INCONCLUSIVE"}
      BY <1>2, <1>4, <1>6, <3>1
    <3> QED  BY <1>2, <1>7, <3>2 DEF Applied, VariantOf
  <2>5. Remembered(i)'
    <3>1. attempts'[i].call = "landed" => Applied(v)'  BY <2>4
    <3> QED  BY <1>11, <3>1 DEF Remembered, Applied
  <2> QED  BY <2>3, <2>5 DEF AttemptOK
<1> QED  BY <1>7, <1>8, <1>9, <1>10, <1>11, ElsewhereNothing
LEMMA OpenAttemptKeeps ==
    ASSUME OnceInv, LockInv', NEW w \in Workers, OpenAttempt(w)  PROVE  OnceInv'
<1>1. /\ TypeOK /\ WorkerOK(w) /\ pc[w] = "locked" /\ pc[w] \in Holding /\ run[w] \in RunOf
      /\ run[w].row \in Rows
  BY RunShape DEF OnceInv, LockInv, OpenAttempt, At, Holding, TypeOK
<1>v. PICK v \in Variants : v = VariantOf(w)  BY <1>1, RunShape
<1>k. PICK k : k = Len(attempts) + 1  OBVIOUS
<1>2. /\ UNCHANGED <<variant, order>>
      /\ \A x \in Workers \ {w} : pc'[x] = pc[x] /\ run'[x] = run[x]
      /\ pc'[w] = "calling" /\ run'[w].attempt = k
      /\ run'[w].row = run[w].row /\ run'[w].token = run[w].token
  BY <1>1, <1>k DEF TypeOK, OpenAttempt, Goto, Note, RunOf
<1>3. /\ DOMAIN attempts' = DOMAIN attempts \cup {k} /\ k \notin DOMAIN attempts
      /\ \A i \in DOMAIN attempts : attempts'[i] = attempts[i]
      /\ attempts'[k] = Attempt(run[w].row, "IN_FLIGHT", "open")
  <2>1. attempts \in Seq(AttemptRecord)  BY <1>1 DEF TypeOK
  <2>2. Attempt(run[w].row, "IN_FLIGHT", "open") \in AttemptRecord
    BY <1>1 DEF Attempt, AttemptRecord, AttemptStates
  <2>3. attempts' = Append(attempts, Attempt(run[w].row, "IN_FLIGHT", "open"))
    BY DEF OpenAttempt
  <2>4. /\ Len(attempts') = k
        /\ \A i \in 1 .. Len(attempts) : attempts'[i] = attempts[i]
        /\ attempts'[k] = Attempt(run[w].row, "IN_FLIGHT", "open")
    BY <1>k, <2>1, <2>2, <2>3, AppendProperties
  <2>5. DOMAIN attempts' = 1 .. Len(attempts')
    BY LedgerShape DEF LockInv
  <2> QED  BY <1>1, <1>k, <2>4, <2>5, LedgerShape
<1>4. Free(w, v) /\ run[w].row[1] = v  BY <1>1, <1>v, HolderAlone, RunShape
<1>5. attempts'[k].row = run[w].row /\ attempts'[k].call = "open"
      /\ attempts'[k].state = "IN_FLIGHT"
  BY <1>3 DEF Attempt
<1>6. Concerns(w, v)  BY <1>2, <1>3, <1>4, <1>5 DEF Concerns
<1>7. OpenOf(w) = {} /\ Landed(v) = {}  BY <1>1, <1>v DEF WorkerOK, OpensOne, Knows
<1>8. Landed(v)' = {}  BY <1>3, <1>5, <1>7 DEF Landed
<1>9. WorkerOK(w)'
  <2>1. VariantOf(w)' = v  BY <1>2, <1>4 DEF VariantOf
  <2>2. OpenOf(w)' = {k}  BY <1>2, <1>3, <1>5, <1>7 DEF OpenOf
  <2>3. HoldsFresh(w)'  BY <1>1, <1>2, <1>v, <2>1 DEF WorkerOK, HoldsFresh
  <2>4. Landed(VariantOf(w))' = {}  BY <1>8, <2>1 DEF Landed
  <2> QED  BY <1>2, <2>2, <2>3, <2>4 DEF WorkerOK, OpensOne, Knows, InCall
<1>10. ASSUME NEW i \in DOMAIN attempts, attempts[i].row[1] = v
       PROVE  /\ attempts[i].call # "open" /\ attempts[i].state # "IN_FLIGHT"
              /\ attempts[i].call # "landed"
  BY <1>1, <1>v, <1>7, <1>10, HolderKnows
<1>11. VariantOK(v)'
  <2>1. variant'[v].status = "PUBLISHING"
    BY <1>1, <1>2, <1>v DEF WorkerOK, HoldsFresh
  <2> QED  BY <1>3, <1>8, <1>10, <2>1 DEF VariantOK
<1>12. ASSUME NEW i \in DOMAIN attempts', attempts'[i].row[1] = v  PROVE  AttemptOK(i)'
  <2>1. CASE i = k
    BY <1>2, <1>5, <2>1 DEF AttemptOK, Remembered, Owned, InCall
  <2>2. CASE i # k
    <3>1. attempts'[i].call \notin {"open", "landed"} /\ attempts'[i].state # "IN_FLIGHT"
      BY <1>3, <1>10, <1>12, <2>2
    <3> QED  BY <3>1 DEF AttemptOK, Remembered
  <2> QED  BY <2>1, <2>2
<1> QED  BY <1>4, <1>6, <1>9, <1>11, <1>12, ElsewhereNothing

\* The platform refuses, or is not going to make the post any more.
LEMMA CallEnds ==
    ASSUME OnceInv, LockInv', NEW w \in Workers, pc[w] = "calling", Call(w) = "open",
           attempts' = [attempts EXCEPT ![run[w].attempt].call = "refused"],
           UNCHANGED <<variant, order>>,
           \A x \in Workers \ {w} : pc'[x] = pc[x] /\ run'[x] = run[x],
           \/ /\ pc'[w] \in {"unsure", "close"}
              /\ pc'[w] = "close" => run'[w].outcome \in {"RETRYABLE", "FAILED"}
              /\ run'[w].row = run[w].row /\ run'[w].token = run[w].token
              /\ run'[w].attempt = run[w].attempt
           \/ pc'[w] = "idle" /\ MaxSlots = 1
    PROVE  OnceInv'
<1>1. TypeOK /\ WorkerOK(w) /\ pc[w] \in Holding /\ run[w] \in RunOf
  BY DEF OnceInv, LockInv, Holding, TypeOK
<1>v. PICK v \in Variants : v = VariantOf(w)  BY <1>1, RunShape
<1>k. PICK k : k = run[w].attempt  OBVIOUS
<1>2. OpenOf(w) = {k} /\ Landed(v) \subseteq {k} /\ k \in DOMAIN attempts
      /\ attempts[k].call = "open"
  BY <1>1, <1>v, <1>k DEF WorkerOK, OpensOne, Knows, InCall, OpenOf, Call
<1>3. /\ DOMAIN attempts' = DOMAIN attempts
      /\ \A i \in DOMAIN attempts :
            /\ attempts'[i].row = attempts[i].row /\ attempts'[i].state = attempts[i].state
            /\ attempts'[i].call = IF i = k THEN "refused" ELSE attempts[i].call
            /\ i # k => attempts'[i] = attempts[i]
  BY <1>1, <1>2, <1>k, CallWritten
<1>4. Free(w, v) /\ run[w].row[1] = v  BY <1>1, <1>v, HolderAlone, RunShape
<1>5. attempts[k].row[1] = v /\ attempts[k].state = "IN_FLIGHT"
  BY <1>2, <1>4 DEF OpenOf
<1>6. Concerns(w, v)  BY <1>3, <1>4, <1>5, EngineAssumption DEF Concerns, Holding
<1>7. Landed(v)' = {}  BY <1>2, <1>3 DEF Landed
<1>8. WorkerOK(w)'
  <2>1. CASE pc'[w] = "idle"
    BY <2>1 DEF WorkerOK, HoldsFresh, OpensOne, Knows, Holding, InCall
  <2>2. CASE pc'[w] # "idle"
    <3>1. VariantOf(w)' = v  BY <1>4, <2>2 DEF VariantOf
    <3>2. OpenOf(w)' = {k}  BY <1>2, <1>3, <2>2 DEF OpenOf
    <3>3. HoldsFresh(w)'  BY <1>1, <1>v, <2>2, <3>1 DEF WorkerOK, HoldsFresh
    <3>4. Landed(VariantOf(w))' = {}  BY <1>7, <3>1 DEF Landed
    <3>5. OpensOne(w)'  BY <1>k, <2>2, <3>2 DEF OpensOne
    <3>6. Knows(w)'  BY <2>2, <3>4 DEF Knows
    <3> QED  BY <2>2, <3>3, <3>5, <3>6 DEF WorkerOK
  <2> QED  BY <2>1, <2>2
<1>9. VariantOK(v)'
  <2>1. variant'[v].status = "PUBLISHING" /\ VariantOK(v)
    BY <1>1, <1>v DEF WorkerOK, HoldsFresh, OnceInv
  <2> QED  BY <1>3, <1>7, <2>1 DEF VariantOK
<1>10. ASSUME NEW i \in DOMAIN attempts', attempts'[i].row[1] = v  PROVE  AttemptOK(i)'
  <2>1. i \in DOMAIN attempts /\ attempts[i].row[1] = VariantOf(w)
    BY <1>v, <1>3, <1>10
  <2>2. /\ attempts[i].call = "open" => i = k
        /\ (attempts[i].state = "IN_FLIGHT" /\ MaxSlots # 1) => i = k
        /\ attempts[i].call = "landed" => attempts[i].state = "IN_FLIGHT"
    BY <1>1, <1>k, <2>1, HolderKnows
  <2>3. attempts'[i].call # "open"  BY <1>3, <2>1, <2>2
  <2>4. attempts'[i].state = "IN_FLIGHT" => MaxSlots = 1 \/ Owned(i, InCall)'
    BY <1>k, <1>3, <2>1, <2>2 DEF Owned, InCall
  <2>5. Remembered(i)'  BY <1>3, <2>1, <2>2 DEF Remembered
  <2> QED  BY <2>3, <2>4, <2>5 DEF AttemptOK
<1> QED  BY <1>4, <1>6, <1>8, <1>9, <1>10, ElsewhereNothing

LEMMA RefusedKeeps ==
    ASSUME OnceInv, LockInv', NEW w \in Workers, NEW outcome \in Outcomes, Refused(w, outcome)
    PROVE  OnceInv'
<1>1. /\ TypeOK /\ pc[w] = "calling" /\ Call(w) = "open" /\ run[w] \in RunOf
      /\ attempts' = [attempts EXCEPT ![run[w].attempt].call = "refused"]
      /\ UNCHANGED <<variant, order>> /\ outcome \in {"RETRYABLE", "FAILED"}
  BY DEF OnceInv, LockInv, Refused, At, TypeOK
<1>2. /\ \A x \in Workers \ {w} : pc'[x] = pc[x] /\ run'[x] = run[x]
      /\ pc'[w] = "close" /\ run'[w].outcome = outcome
      /\ run'[w].row = run[w].row /\ run'[w].token = run[w].token
      /\ run'[w].attempt = run[w].attempt
  BY <1>1 DEF TypeOK, Refused, Goto, Conclude, Note, RunOf
<1> QED  BY <1>1, <1>2, CallEnds

LEMMA TimedOutKeeps ==
    ASSUME OnceInv, LockInv', Withstood, NEW w \in Workers, TimedOut(w)  PROVE  OnceInv'
<1>1. /\ TypeOK /\ pc[w] = "calling" /\ pc[w] \in Holding /\ WorkerOK(w)
      /\ attempts' = Abandoned(w) /\ UNCHANGED <<variant, run, order>>
      /\ "late" \notin Faults
  BY DEF OnceInv, LockInv, TimedOut, At, Withstood, Holding
<1>2. /\ \A x \in Workers \ {w} : pc'[x] = pc[x]
      /\ pc'[w] = "unsure"
  BY <1>1 DEF TypeOK, TimedOut, Goto
<1>3. CASE Call(w) = "open"
  <2>1. attempts' = [attempts EXCEPT ![run[w].attempt].call = "refused"]
    BY <1>1, <1>3 DEF Abandoned, At
  <2>2. run'[w].row = run[w].row /\ run'[w].token = run[w].token
        /\ run'[w].attempt = run[w].attempt
        /\ \A x \in Workers \ {w} : pc'[x] = pc[x] /\ run'[x] = run[x]
    BY <1>1, <1>2
  <2> QED  BY <1>1, <1>2, <1>3, <2>1, <2>2, CallEnds
<1>4. CASE Call(w) # "open"
  <2>1. attempts' = attempts  BY <1>1, <1>4 DEF Abandoned
  <2>2. OpensOne(w)'  BY <1>1, <1>2, <2>1 DEF WorkerOK, OpensOne, OpenOf, InCall
  <2>3. Knows(w)'  BY <1>1, <1>2, <2>1 DEF WorkerOK, Knows, Landed, VariantOf, InCall
  <2> QED  BY <1>1, <1>2, <1>4, <2>1, <2>2, <2>3, NothingWritten DEF InCall
<1> QED  BY <1>3, <1>4
LEMMA CloseAttemptKeeps ==
    ASSUME OnceInv, LockInv', NEW w \in Workers, CloseAttempt(w)  PROVE  OnceInv'
<1>1. /\ TypeOK /\ WorkerOK(w) /\ pc[w] = "close" /\ pc[w] \in Holding /\ run[w] \in RunOf
      /\ run[w].outcome \in Outcomes
  BY DEF OnceInv, LockInv, CloseAttempt, At, Holding, TypeOK
<1>v. PICK v \in Variants : v = VariantOf(w)  BY <1>1, RunShape
<1>k. PICK k : k = run[w].attempt  OBVIOUS
<1>s. PICK st : st = AttemptStateFor(run[w].outcome, run[w].reconciled)  OBVIOUS
<1>2. /\ UNCHANGED <<variant, run, order>>
      /\ \A x \in Workers \ {w} : pc'[x] = pc[x]
      /\ pc'[w] = "apply"
  BY <1>1 DEF TypeOK, CloseAttempt, Goto
<1>3. OpenOf(w) = {k} /\ Landed(v) \subseteq {k} /\ k \in DOMAIN attempts
  BY <1>1, <1>v, <1>k DEF WorkerOK, OpensOne, Knows, InCall, OpenOf
<1>4. st # "IN_FLIGHT"  BY <1>s DEF AttemptStateFor
<1>5. /\ DOMAIN attempts' = DOMAIN attempts
      /\ \A i \in DOMAIN attempts :
            /\ attempts'[i].row = attempts[i].row /\ attempts'[i].call = attempts[i].call
            /\ attempts'[i].state = IF i = k THEN st ELSE attempts[i].state
            /\ i # k => attempts'[i] = attempts[i]
      /\ \A u : Landed(u)' = Landed(u)
  <2>1. attempts' = [attempts EXCEPT ![k].state = st]
    BY <1>k, <1>s DEF CloseAttempt
  <2> QED  BY <1>1, <1>3, <2>1, StateWritten
<1>6. Free(w, v) /\ run[w].row[1] = v  BY <1>1, <1>v, HolderAlone, RunShape
<1>7. Concerns(w, v)
  <2>1. attempts[k].row[1] = v  BY <1>3, <1>6 DEF OpenOf
  <2> QED  BY <1>2, <1>5, <1>6, <2>1 DEF Concerns
<1>8. WorkerOK(w)'
  <2>1. VariantOf(w)' = v  BY <1>2, <1>6 DEF VariantOf
  <2>2. OpenOf(w)' = {}  BY <1>2, <1>3, <1>4, <1>5 DEF OpenOf
  <2>3. HoldsFresh(w)'  BY <1>1, <1>2, <1>v, <2>1 DEF WorkerOK, HoldsFresh
  <2>4. Landed(VariantOf(w))' = Landed(v)  BY <1>5, <2>1 DEF Landed
  <2>5. Knows(w)'  BY <1>1, <1>2, <1>v, <2>4 DEF WorkerOK, Knows, InCall
  <2> QED  BY <1>2, <2>2, <2>3, <2>5 DEF WorkerOK, OpensOne, InCall
<1>9. VariantOK(v)'
  <2>1. variant'[v].status = "PUBLISHING" /\ VariantOK(v)
    BY <1>1, <1>2, <1>v DEF WorkerOK, HoldsFresh, OnceInv
  <2> QED  BY <1>4, <1>5, <2>1 DEF VariantOK
<1>10. ASSUME NEW i \in DOMAIN attempts', attempts'[i].row[1] = v  PROVE  AttemptOK(i)'
  <2>1. i \in DOMAIN attempts /\ attempts[i].row[1] = VariantOf(w)  BY <1>v, <1>5, <1>10
  <2>2. attempts[i].call # "open" /\ (attempts[i].state = "IN_FLIGHT" => i \in OpenOf(w))
    BY <1>1, <2>1, HolderKnows
  <2>3. attempts'[i].call # "open" /\ attempts'[i].state # "IN_FLIGHT"
    BY <1>3, <1>4, <1>5, <2>1, <2>2
  <2>4. attempts'[i].call = "landed" => Applied(v)'
    <3>1. attempts'[i].call = "landed" => i \in Landed(v)
      BY <1>v, <1>5, <2>1 DEF Landed
    <3>2. Landed(v) # {} => run[w].outcome \in {"PUBLISHED", "INCONCLUSIVE"}
      BY <1>1, <1>v DEF WorkerOK, Knows, Outcomes
    <3> QED  BY <1>2, <1>6, <3>1, <3>2 DEF Applied, VariantOf
  <2>5. Remembered(i)'  BY <1>10, <2>4 DEF Remembered, Applied
  <2> QED  BY <2>3, <2>5 DEF AttemptOK
<1> QED  BY <1>6, <1>7, <1>8, <1>9, <1>10, ElsewhereNothing

LEMMA CrashKeeps ==
    ASSUME OnceInv, LockInv', Withstood, NEW w \in Workers, Crash(w)  PROVE  OnceInv'
<1>1. /\ TypeOK /\ WorkerOK(w) /\ pc[w] # "apply" /\ UNCHANGED <<variant, order>>
      /\ pc[w] \in InCall => MaxSlots = 1
      /\ attempts' = Abandoned(w) /\ "late" \notin Faults
  BY DEF OnceInv, LockInv, Crash, Withstood
<1>2. /\ \A x \in Workers \ {w} : pc'[x] = pc[x] /\ run'[x] = run[x]
      /\ pc'[w] = "idle"
  BY <1>1 DEF TypeOK, Crash, Finish, Goto, Note
<1>3. pc'[w] \notin Holding /\ pc'[w] # "throw" /\ OpensOne(w)' /\ Knows(w)'
  BY <1>2 DEF Holding, OpensOne, Knows, InCall
<1>4. CASE pc[w] = "calling" /\ Call(w) = "open"
  <2>1. attempts' = [attempts EXCEPT ![run[w].attempt].call = "refused"]
    BY <1>1, <1>4 DEF Abandoned, At
  <2>2. MaxSlots = 1  BY <1>1, <1>4 DEF InCall
  <2> QED  BY <1>1, <1>2, <1>4, <2>1, <2>2, CallEnds
<1>5. CASE ~(pc[w] = "calling" /\ Call(w) = "open")
  <2>1. attempts' = attempts  BY <1>1, <1>5 DEF Abandoned, At
  <2>2. CASE pc[w] \in Holding
    BY <1>1, <1>2, <1>3, <1>5, <2>1, <2>2, NothingWritten
  <2>3. CASE pc[w] \notin Holding
    BY <1>1, <1>2, <1>3, <2>1, <2>3, NothingHeld
  <2> QED  BY <2>2, <2>3
<1> QED  BY <1>4, <1>5

----------------------------------------------------------------------------
(* A claim is taken.                                                       *)

LEMMA BeginKeeps ==
    ASSUME OnceInv, LockInv', NEW w \in Workers, NEW r \in Rows, NEW takeover \in BOOLEAN,
           Dequeue(w, r), Begin(w, r, takeover),
           \/ variant[r[1]].status = "SCHEDULED"
           \/ variant[r[1]].status = "PUBLISHING" /\ variant[r[1]].stale
    PROVE  OnceInv'
<1>1. /\ TypeOK /\ pc[w] = "idle" /\ UNCHANGED <<attempts, order>>
      /\ claims + 1 \in 0 .. MaxClaims
  BY DEF OnceInv, LockInv, Dequeue, Begin, TypeOK
<1>v. PICK v \in Variants : v = r[1]  BY DEF Rows
<1>2. /\ \A x \in Workers \ {w} : pc'[x] = pc[x] /\ run'[x] = run[x]
      /\ pc'[w] = "claimed" /\ run'[w].row = r /\ run'[w].token = claims + 1
  BY <1>1 DEF TypeOK, Begin, Goto, Note, NoRun
<1>3. /\ \A u \in Variants \ {v} : variant'[u] = variant[u]
      /\ variant'[v].status = "PUBLISHING" /\ variant'[v].token = claims + 1
      /\ ~variant'[v].stale
  BY <1>1, <1>v DEF TypeOK, Begin, VariantRecord
<1>4. Free(w, v)
  <2>1. ASSUME NEW x \in Workers, pc[x] \in Holding, VariantOf(x) = v  PROVE  FALSE
    BY <1>v, <2>1 DEF OnceInv, WorkerOK, HoldsFresh
  <2> QED  BY <1>1, <2>1 DEF Free, Holding
<1>5. Concerns(w, v)  BY <1>v, <1>1, <1>2, <1>3 DEF Concerns
<1>6. WorkerOK(w)'
  BY <1>v, <1>2, <1>3 DEF WorkerOK, HoldsFresh, OpensOne, Knows, InCall, VariantOf
<1>7. VariantOK(v)'
  <2>1. VariantOK(v)  BY DEF OnceInv
  <2> QED  BY <1>1, <1>3, <2>1 DEF VariantOK, Landed
<1>8. ASSUME NEW i \in DOMAIN attempts', attempts'[i].row[1] = v  PROVE  AttemptOK(i)'
  <2>1. i \in DOMAIN attempts /\ attempts'[i] = attempts[i] /\ AttemptOK(i)
    BY <1>1, <1>8 DEF OnceInv
  <2>2. ASSUME NEW at \in SUBSET InCall, Owned(i, at)  PROVE  Owned(i, at)'
    BY <1>1, <1>2, <2>2 DEF Owned, InCall
  <2>3. {"calling"} \in SUBSET InCall /\ InCall \in SUBSET InCall  BY DEF InCall
  <2>4. ~Applied(v)  BY <1>1, <1>4 DEF Applied, Free, Holding
  <2>5. ~(attempts[i].call = "landed" /\ attempts[i].state # "IN_FLIGHT")
    BY <1>v, <1>8, <2>1, <2>4 DEF AttemptOK, Remembered, Applied
  <2>6. Remembered(i)'  BY <2>1, <2>5 DEF Remembered
  <2> QED  BY <2>1, <2>2, <2>3, <2>6 DEF AttemptOK
<1> QED  BY <1>4, <1>5, <1>6, <1>7, <1>8, ElsewhereNothing

LEMMA TakeKeeps ==
    ASSUME OnceInv, LockInv', NEW w \in Workers, Take(w)  PROVE  OnceInv'
<1>1. PICK r \in Rows : ClaimVariant(w, r) \/ TakeOverClaim(w, r) \/ NotClaimable(w, r)
  BY DEF Take
<1>2. CASE ClaimVariant(w, r)  BY <1>2, BeginKeeps DEF ClaimVariant
<1>3. CASE TakeOverClaim(w, r)  BY <1>3, BeginKeeps DEF TakeOverClaim
<1>4. CASE NotClaimable(w, r)
  <2>1. UNCHANGED <<variant, attempts, pc, run, order>>
    BY <1>4 DEF NotClaimable, Dequeue
  <2> QED  BY <2>1, NothingMoved
<1> QED  BY <1>1, <1>2, <1>3, <1>4
----------------------------------------------------------------------------
(* What is not a worker's step.                                            *)

LEMMA LandKeeps ==
    ASSUME OnceInv, LockInv', NEW k \in DOMAIN attempts, Land(k)  PROVE  OnceInv'
<1>1. /\ TypeOK /\ AttemptOK(k) /\ attempts[k].call = "open"
      /\ attempts' = [attempts EXCEPT ![k].call = "landed"]
      /\ UNCHANGED <<variant, pc, run, order>>
  BY DEF OnceInv, LockInv, Land
<1>2. PICK w \in Workers : pc[w] = "calling" /\ run[w].attempt = k
  BY <1>1 DEF AttemptOK, Owned
<1>3. pc[w] \in Holding /\ WorkerOK(w)  BY <1>2 DEF OnceInv, Holding
<1>v. PICK v \in Variants : v = VariantOf(w)  BY <1>1, <1>3, RunShape
<1>4. Free(w, v) /\ run[w].row[1] = v  BY <1>1, <1>3, <1>v, HolderAlone, RunShape
<1>5. /\ DOMAIN attempts' = DOMAIN attempts
      /\ \A i \in DOMAIN attempts :
            /\ attempts'[i].row = attempts[i].row /\ attempts'[i].state = attempts[i].state
            /\ attempts'[i].call = IF i = k THEN "landed" ELSE attempts[i].call
            /\ i # k => attempts'[i] = attempts[i]
  BY <1>1, CallWritten
<1>6. OpenOf(w) = {k} /\ Landed(v) \subseteq {k}
  BY <1>2, <1>3, <1>v DEF WorkerOK, OpensOne, Knows, InCall
<1>7. attempts[k].row[1] = v /\ attempts[k].state = "IN_FLIGHT"
  BY <1>4, <1>6 DEF OpenOf
<1>8. Landed(v)' \subseteq {k}  BY <1>5, <1>6 DEF Landed
<1>9. Concerns(w, v)  BY <1>1, <1>4, <1>5, <1>7 DEF Concerns
<1>10. WorkerOK(w)'
  <2>1. VariantOf(w)' = v  BY <1>1, <1>v DEF VariantOf
  <2>2. OpenOf(w)' = {k}  BY <1>1, <1>5, <1>6 DEF OpenOf
  <2>3. HoldsFresh(w)'  BY <1>1, <1>3, <1>v, <2>1 DEF WorkerOK, HoldsFresh
  <2>4. Landed(VariantOf(w))' \subseteq {k}  BY <1>8, <2>1 DEF Landed
  <2> QED  BY <1>1, <1>2, <2>2, <2>3, <2>4 DEF WorkerOK, OpensOne, Knows
<1>11. VariantOK(v)'
  <2>1. variant'[v].status = "PUBLISHING" /\ VariantOK(v)
    BY <1>1, <1>3, <1>v DEF WorkerOK, HoldsFresh, OnceInv
  <2> QED  BY <1>5, <1>8, <2>1 DEF VariantOK
<1>12. ASSUME NEW i \in DOMAIN attempts', attempts'[i].row[1] = v  PROVE  AttemptOK(i)'
  <2>1. i \in DOMAIN attempts /\ attempts[i].row[1] = VariantOf(w)
    BY <1>v, <1>5, <1>12
  <2>2. /\ attempts[i].call = "open" => i = k
        /\ (attempts[i].state = "IN_FLIGHT" /\ MaxSlots # 1) => i = k
        /\ attempts[i].call = "landed" => attempts[i].state = "IN_FLIGHT"
    BY <1>2, <1>3, <2>1, HolderKnows
  <2>3. attempts'[i].call # "open"  BY <1>5, <2>1, <2>2
  <2>4. attempts'[i].state = "IN_FLIGHT" => MaxSlots = 1 \/ Owned(i, InCall)'
    BY <1>1, <1>2, <1>5, <2>1, <2>2 DEF Owned, InCall
  <2>5. Remembered(i)'  BY <1>5, <1>7, <2>1, <2>2 DEF Remembered
  <2> QED  BY <2>3, <2>4, <2>5 DEF AttemptOK
<1> QED  BY <1>4, <1>9, <1>10, <1>11, <1>12, ElsewhereNothing

\* The variants that a run does not hold change status, truly.
LEMMA StatusMoves ==
    ASSUME OnceInv, LockInv', UNCHANGED <<attempts, pc, run, order>>,
           \A w \in Workers :
               pc[w] \in Holding => variant'[VariantOf(w)] = variant[VariantOf(w)],
           \A v \in Variants :
               \/ variant'[v].status = variant[v].status
               \/ variant'[v].status = "PUBLISHED" /\ Landed(v) # {}
               \/ /\ variant'[v].status = "SCHEDULED"
                  /\ variant[v].status \in {"PUBLISHED", "NEEDS_REVIEW"} => Landed(v) = {}
    PROVE  OnceInv'
<1>1. ASSUME NEW w \in Workers  PROVE  WorkerOK(w)'
  BY DEF OnceInv, WorkerOK, HoldsFresh, OpensOne, OpenOf, Knows, Landed, VariantOf
<1>2. ASSUME NEW i \in DOMAIN attempts'  PROVE  AttemptOK(i)'
  <2>1. AttemptOK(i) /\ attempts[i].row[1] \in Variants
    BY LedgerShape DEF OnceInv, LockInv
  <2>2. \A at : Owned(i, at)' = Owned(i, at)  BY DEF Owned
  <2>3. Applied(attempts[i].row[1]) => Applied(attempts[i].row[1])'
    BY DEF Applied, VariantOf
  <2>4. (attempts[i].call = "landed") => i \in Landed(attempts[i].row[1])  BY DEF Landed
  <2>5. Remembered(i)'
    BY <2>1, <2>3, <2>4 DEF AttemptOK, Remembered
  <2> QED  BY <2>1, <2>2, <2>5 DEF AttemptOK
<1>3. ASSUME NEW v \in Variants  PROVE  VariantOK(v)'
  BY DEF OnceInv, VariantOK, Landed
<1> QED  BY <1>1, <1>2, <1>3 DEF OnceInv

LEMMA ClaimExpiresKeeps ==
    ASSUME OnceInv, LockInv', Withstood, NEW v \in Variants, ClaimExpires(v)
    PROVE  OnceInv'
<1>1. /\ TypeOK /\ ~Alive(variant[v].token) /\ UNCHANGED <<attempts, pc, run, order>>
      /\ variant' = [variant EXCEPT ![v].stale = TRUE]
  BY DEF OnceInv, LockInv, ClaimExpires, Withstood
<1>2. \A u \in Variants : /\ variant'[u].status = variant[u].status
                          /\ u # v => variant'[u] = variant[u]
  BY <1>1 DEF TypeOK, VariantRecord
<1>3. ASSUME NEW w \in Workers, pc[w] \in Holding
      PROVE  variant'[VariantOf(w)] = variant[VariantOf(w)]
  <2>1. variant[VariantOf(w)].token = run[w].token  BY <1>3 DEF OnceInv, WorkerOK, HoldsFresh
  <2>2. VariantOf(w) # v  BY <1>1, <1>3, <2>1 DEF Alive, Holding
  <2> QED  BY <1>1, <1>2, <1>3, <2>2, RunShape
<1> QED  BY <1>1, <1>2, <1>3, StatusMoves

\* An order, given on variants that are not being published.
LEMMA CarryOutKeeps ==
    ASSUME OnceInv, LockInv', NEW o \in OrderOf, CarryOut(o), UNCHANGED order,
           \A v \in o.on :
               /\ variant[v].status # "PUBLISHING"
               /\ \/ o.to = "PUBLISHED" /\ Landed(v) # {}
                  \/ /\ o.to = "SCHEDULED"
                     /\ variant[v].status \in {"PUBLISHED", "NEEDS_REVIEW"} => Landed(v) = {}
    PROVE  OnceInv'
<1>1. TypeOK /\ variant' = Moved(o) /\ UNCHANGED <<attempts, pc, run>> /\ o.on \subseteq Variants
  BY DEF OnceInv, LockInv, CarryOut, OrderOf
<1>2. ASSUME NEW v \in Variants
      PROVE  /\ v \notin o.on => variant'[v] = variant[v]
             /\ v \in o.on => variant'[v].status = o.to
  BY <1>1 DEF Moved, TypeOK, VariantRecord
<1>3. ASSUME NEW w \in Workers, pc[w] \in Holding
      PROVE  variant'[VariantOf(w)] = variant[VariantOf(w)]
  <2>1. variant[VariantOf(w)].status = "PUBLISHING"
    BY <1>3 DEF OnceInv, WorkerOK, HoldsFresh
  <2>2. VariantOf(w) \in Variants  BY <1>1, <1>3, RunShape
  <2> QED  BY <1>2, <2>1, <2>2
<1> QED  BY <1>1, <1>2, <1>3, StatusMoves

LEMMA HumanKeeps ==
    ASSUME OnceInv, LockInv', Withstood, Human  PROVE  OnceInv'
<1>0. /\ "race" \notin Faults /\ order = NoOrder /\ "ABANDON" \notin Resolutions
  BY DEF OnceInv, Withstood
<1>1. ASSUME NEW o, Issue(o)  PROVE  CarryOut(o) /\ UNCHANGED order
  BY <1>0, <1>1 DEF Issue
<1>2. ASSUME NEW S \in SUBSET Variants, NEW to \in {"PUBLISHED", "SCHEDULED"},
             NEW status \in {NoStatus, "SCHEDULED"}, NEW send \in BOOLEAN
      PROVE  /\ Order(S, to, status, send) \in OrderOf
             /\ Order(S, to, status, send).on = S
             /\ Order(S, to, status, send).to = to
  BY DEF Order, OrderOf, VariantStatuses, PostStatuses
<1>3. ASSUME NEW v \in Variants, RetryJob(v)  PROVE  OnceInv'
  <2>1. PICK o : o = Order({v}, "SCHEDULED", NoStatus, TRUE)  OBVIOUS
  <2>2. o \in OrderOf /\ o.on = {v} /\ o.to = "SCHEDULED"  BY <1>2, <2>1
  <2>3. /\ CarryOut(o) /\ UNCHANGED order
        /\ variant[v].status \notin {"NEEDS_REVIEW", "PUBLISHED", "PUBLISHING"}
    BY <1>1, <1>3, <2>1 DEF RetryJob
  <2> QED  BY <2>2, <2>3, CarryOutKeeps
<1>4. CASE RetryFailed
  <2>1. WithStatus(RetryableVariantStatuses) \in SUBSET Variants  BY DEF WithStatus
  <2>2. \A v \in WithStatus(RetryableVariantStatuses) : variant[v].status = "FAILED"
    BY DEF WithStatus, RetryableVariantStatuses
  <2> QED  BY <1>2, <1>4, <2>1, <2>2, CarryOutKeeps DEF RetryFailed
<1>5. CASE PublishNow
  <2>1. WithStatus(PublishableVariantStatuses) \in SUBSET Variants  BY DEF WithStatus
  <2>2. \A v \in WithStatus(PublishableVariantStatuses) :
            variant[v].status \in {"DRAFT", "SCHEDULED", "FAILED"}
    BY DEF WithStatus, PublishableVariantStatuses, RetryableVariantStatuses
  <2> QED  BY <1>1, <1>2, <1>5, <2>1, <2>2, CarryOutKeeps DEF PublishNow
<1>6. ASSUME NEW v \in Variants, NEW answer \in Resolutions, Resolve(v, answer)
      PROVE  OnceInv'
  <2>1. answer \in {"PUBLISHED", "NOT_PUBLISHED"}  BY <1>0, EngineAssumption
  <2>2. PICK o : o = Order({v}, ResolvedAs[answer], NoStatus, FALSE)  OBVIOUS
  <2>3. /\ variant[v].status = "NEEDS_REVIEW" /\ CarryOut(o) /\ UNCHANGED order
        /\ answer = "PUBLISHED" => Landed(v) # {}
        /\ answer = "NOT_PUBLISHED" => Landed(v) = {}
    BY <1>1, <1>6, <2>2 DEF Resolve
  <2>4. /\ answer = "PUBLISHED" => ResolvedAs[answer] = "PUBLISHED"
        /\ answer = "NOT_PUBLISHED" => ResolvedAs[answer] = "SCHEDULED"
    BY DEF ResolvedAs
  <2>5. ASSUME NEW to \in {"PUBLISHED", "SCHEDULED"}, to = ResolvedAs[answer]
        PROVE  o \in OrderOf /\ o.on = {v} /\ o.to = to
    <3>1. o = Order({v}, to, NoStatus, FALSE)  BY <2>2, <2>5
    <3> QED  BY <3>1 DEF Order, OrderOf, VariantStatuses, PostStatuses
  <2>6. o \in OrderOf /\ o.on = {v} /\ o.to = ResolvedAs[answer]
    BY <2>1, <2>4, <2>5
  <2> QED  BY <2>1, <2>3, <2>4, <2>6, CarryOutKeeps
<1>7. ~CommitOrder  BY <1>0 DEF CommitOrder
<1> QED  BY <1>3, <1>4, <1>5, <1>6, <1>7 DEF Human

----------------------------------------------------------------------------
(* The theorems.                                                           *)

LEMMA InitOnceInv == Init => OnceInv
<1> SUFFICES ASSUME Init PROVE OnceInv
  OBVIOUS
<1>1. attempts = <<>> /\ order = NoOrder  BY DEF Init
<1>2. ASSUME NEW w \in Workers  PROVE  WorkerOK(w)
  BY DEF Init, WorkerOK, HoldsFresh, OpensOne, Knows, Holding, InCall
<1>3. ASSUME NEW v \in Variants  PROVE  VariantOK(v)
  BY <1>1 DEF Init, VariantOK, Landed
<1> QED  BY <1>1, <1>2, <1>3, InitLockInv DEF OnceInv

LEMMA NextOnceInv ==
    ASSUME Withstood  PROVE  OnceInv /\ [Next]_vars => OnceInv'
<1> SUFFICES ASSUME OnceInv, [Next]_vars PROVE OnceInv'
  OBVIOUS
<1>1. LockInv'  BY NextLockInv DEF OnceInv, Withstood
<1>2. CASE UNCHANGED vars  BY <1>1, <1>2, NothingMoved DEF vars
<1>3. CASE Sweep  BY <1>1, <1>3, NothingMoved DEF Sweep
<1>4. CASE Human  BY <1>1, <1>4, HumanKeeps
<1>5. ASSUME NEW w \in Workers, Take(w)  PROVE  OnceInv'  BY <1>1, <1>5, TakeKeeps
<1>6. ASSUME NEW w \in Workers, Step(w)  PROVE  OnceInv'
  <2>1. ~Throw(w)  BY DEF OnceInv, WorkerOK, Throw, At
  <2> QED
    BY <1>1, <1>6, <2>1, LoadKeeps, QuietKeeps, AcceptedKeeps, ReconcileTimeoutKeeps,
       EndedKeeps, SettleKeeps, AfterwardsKeeps, ReconcileUnknownKeeps, OpenAttemptKeeps,
       RefusedKeeps, TimedOutKeeps, CloseAttemptKeeps
    DEF Step
<1>7. ASSUME NEW w \in Workers, StoreFails(w)  PROVE  OnceInv'
  BY <1>7 DEF StoreFails, Withstood
<1>8. ASSUME NEW w \in Workers, Crash(w)  PROVE  OnceInv'  BY <1>1, <1>8, CrashKeeps
<1>9. ASSUME NEW k \in DOMAIN attempts, Land(k)  PROVE  OnceInv'  BY <1>1, <1>9, LandKeeps
<1>10. ASSUME NEW v \in Variants, ClaimExpires(v)  PROVE  OnceInv'
  BY <1>1, <1>10, ClaimExpiresKeeps
<1>11. ASSUME NEW a \in Accounts, LockExpires(a)  PROVE  OnceInv'
  BY <1>1, <1>11, NothingMoved DEF LockExpires
<1> QED
  BY <1>2, <1>3, <1>4, <1>5, <1>6, <1>7, <1>8, <1>9, <1>10, <1>11 DEF Next

\* Under these faults the platform never holds two posts of one variant,
\* however many workers there are and however often it is retried: claims,
\* the ledger written before the call and reconciliation are enough.
THEOREM PostedAtMostOnce ==
    ASSUME Withstood  PROVE  Spec => []AtMostOnce
<1>1. OnceInv => AtMostOnce
  <2> SUFFICES ASSUME OnceInv, NEW i \in DOMAIN attempts, NEW j \in DOMAIN attempts,
                      attempts[i].call = "landed", attempts[j].call = "landed",
                      attempts[i].row[1] = attempts[j].row[1]
               PROVE  i = j
    BY DEF AtMostOnce
  <2>1. attempts[i].row[1] \in Variants  BY LedgerShape DEF OnceInv, LockInv
  <2>2. i \in Landed(attempts[i].row[1]) /\ j \in Landed(attempts[i].row[1])
    BY DEF Landed
  <2> QED  BY <2>1, <2>2 DEF OnceInv, VariantOK
<1> QED  BY <1>1, InitOnceInv, NextOnceInv, PTL DEF Spec

\* Under these faults a variant's status says what happened: PUBLISHED was
\* posted, FAILED was not, and one that may be published again was not, or the
\* ledger has its attempt as open.
THEOREM StatusIsTrue ==
    ASSUME Withstood  PROVE  Spec => []StatusTellsTheTruth
<1>1. OnceInv => StatusTellsTheTruth
  <2> SUFFICES ASSUME OnceInv, NEW v \in Variants, variant[v].status = "SCHEDULED",
                      NEW i \in Landed(v), attempts[i].state # "IN_FLIGHT"
               PROVE  FALSE
    BY DEF OnceInv, VariantOK, StatusTellsTheTruth
  <2>1. AttemptOK(i) /\ attempts[i].call = "landed" /\ attempts[i].row[1] = v
    BY DEF Landed, OnceInv
  <2>2. PICK w \in Workers : pc[w] = "apply" /\ VariantOf(w) = v
    BY <2>1 DEF AttemptOK, Remembered, Applied
  <2> QED  BY <2>2 DEF OnceInv, WorkerOK, HoldsFresh, Holding
<1> QED  BY <1>1, InitOnceInv, NextOnceInv, PTL DEF Spec

----------------------------------------------------------------------------
(* The engine implements PublishOnce.                                      *)

LEMMA PostsCounted ==
    ASSUME OnceInv, NEW v \in Variants
    PROVE  /\ Landed(v) = {} => Once!True(v, "FAILED") /\ PostsOf[v] = 0
           /\ Landed(v) # {} => Once!True(v, "PUBLISHED") /\ PostsOf[v] = 1
<1>1. PostsOf[v] = Cardinality(Landed(v))  BY DEF PostsOf
<1>2. CASE Landed(v) = {}
  BY <1>1, <1>2, FS_EmptySet DEF Once!True
<1>3. CASE Landed(v) # {}
  <2>1. PICK i : i \in Landed(v)  BY <1>3
  <2>2. Landed(v) = {i}  BY <2>1 DEF OnceInv, VariantOK
  <2>3. Cardinality(Landed(v)) = 1  BY <2>2, FS_Singleton
  <2> QED  BY <1>1, <1>3, <2>3 DEF Once!True
<1> QED  BY <1>2, <1>3

\* A step that adds no post, and gives one variant another status at most.
LEMMA OneStatusMoves ==
    ASSUME TypeOK, NEW v \in Variants, NEW to, variant'[v].status = to,
           \A u \in Variants \ {v} : variant'[u].status = variant[u].status,
           \A u \in Variants : Landed(u)' = Landed(u)
    PROVE  Once!Becomes(v, to)
<1>1. StatusOf' = [StatusOf EXCEPT ![v] = to]  BY DEF StatusOf
<1>2. PostsOf' = PostsOf  BY DEF PostsOf
<1> QED  BY <1>1, <1>2 DEF Once!Becomes

\* Only Land adds to what the platform has.
LEMMA LandedStays ==
    ASSUME TypeOK, [Next]_vars, ~\E k \in DOMAIN attempts : Land(k), NEW u
    PROVE  Landed(u)' = Landed(u)
<1>1. CASE UNCHANGED attempts  BY <1>1 DEF Landed
<1>2. ASSUME NEW k, NEW st, attempts' = [attempts EXCEPT ![k].state = st]
      PROVE  Landed(u)' = Landed(u)
  <2>1. CASE k \in DOMAIN attempts  BY <1>2, <2>1, StateWritten
  <2>2. CASE k \notin DOMAIN attempts
    <3>1. attempts' = attempts  BY <1>2, <2>2, LedgerShape DEF TypeOK
    <3> QED  BY <1>1, <3>1
  <2> QED  BY <2>1, <2>2
<1>3. ASSUME NEW k, attempts[k].call = "open",
             attempts' = [attempts EXCEPT ![k].call = "refused"]
      PROVE  Landed(u)' = Landed(u)
  <2>1. CASE k \in DOMAIN attempts
    <3>1. /\ DOMAIN attempts' = DOMAIN attempts
          /\ \A i \in DOMAIN attempts :
                /\ attempts'[i].row = attempts[i].row
                /\ attempts'[i].call = IF i = k THEN "refused" ELSE attempts[i].call
      BY <1>3, <2>1, CallWritten
    <3> QED  BY <1>3, <3>1 DEF Landed
  <2>2. CASE k \notin DOMAIN attempts
    <3>1. attempts' = attempts  BY <1>3, <2>2, LedgerShape DEF TypeOK
    <3> QED  BY <1>1, <3>1
  <2> QED  BY <2>1, <2>2
<1>4. ASSUME NEW w \in Workers, attempts' = Abandoned(w)  PROVE  Landed(u)' = Landed(u)
  BY <1>1, <1>3, <1>4 DEF Abandoned, Call
<1>5. ASSUME NEW w \in Workers, Step(w)  PROVE  Landed(u)' = Landed(u)
  <2>1. ASSUME NEW a, ReconcileUnknown(w, a)  PROVE  Landed(u)' = Landed(u)
    BY <1>1, <1>2, <2>1 DEF ReconcileUnknown
  <2>2. ASSUME NEW a, Refused(w, a)  PROVE  Landed(u)' = Landed(u)
    BY <1>3, <2>2 DEF Refused, Call
  <2>3. CASE TimedOut(w)  BY <1>4, <2>3 DEF TimedOut
  <2>4. CASE CloseAttempt(w)  BY <1>2, <2>4 DEF CloseAttempt
  <2>5. CASE OpenAttempt(w)
    <3>e. PICK e : e = Attempt(run[w].row, "IN_FLIGHT", "open")  OBVIOUS
    <3>1. e = Attempt(run[w].row, "IN_FLIGHT", "open") /\ e.call = "open"
      BY <3>e DEF Attempt
    <3>2. /\ DOMAIN attempts' = DOMAIN attempts \cup {Len(attempts) + 1}
          /\ attempts'[Len(attempts) + 1] = e
          /\ \A i \in DOMAIN attempts : attempts'[i] = attempts[i]
      BY <2>5, <3>1, LedgerShape DEF OpenAttempt, TypeOK
    <3>3. \A i \in DOMAIN attempts' : attempts'[i].call = "landed" => i \in DOMAIN attempts
      BY <3>1, <3>2
    <3> QED  BY <3>2, <3>3 DEF Landed
  <2>6. CASE UNCHANGED attempts  BY <1>1, <2>6
  <2> QED
    BY <1>5, <2>1, <2>2, <2>3, <2>4, <2>5, <2>6
    DEF Step, Load, LoadRefused, AcquireLock, Defer, ReconcileTimeout, Accepted, Settle,
        SettleRow, RollUpRead, RollUpWrite, Retryable, PendRow, Requeue, Reject, Throw
<1>6. ASSUME NEW w \in Workers, Take(w) \/ StoreFails(w)  PROVE  Landed(u)' = Landed(u)
  BY <1>1, <1>6
  DEF Take, ClaimVariant, TakeOverClaim, NotClaimable, Dequeue, StoreFails
<1>7. ASSUME NEW w \in Workers, Crash(w)  PROVE  Landed(u)' = Landed(u)
  BY <1>4, <1>7 DEF Crash
<1>8. CASE Human
  BY <1>1, <1>8
  DEF Human, PublishNow, RetryFailed, RetryJob, Resolve, CommitOrder, Issue, CarryOut
<1>9. CASE \/ UNCHANGED vars \/ Sweep \/ \E v \in Variants : ClaimExpires(v)
           \/ \E a \in Accounts : LockExpires(a)
  BY <1>1, <1>9 DEF vars, Sweep, ClaimExpires, LockExpires
<1> QED  BY <1>5, <1>6, <1>7, <1>8, <1>9 DEF Next

\* A call that is answered is the one post.
LEMMA LandPosts ==
    ASSUME OnceInv, OnceInv', NEW k \in DOMAIN attempts, Land(k)
    PROVE  \E v \in Variants : Once!Post(v)
<1>1. /\ TypeOK /\ AttemptOK(k) /\ attempts[k].call = "open" /\ UNCHANGED variant
      /\ attempts' = [attempts EXCEPT ![k].call = "landed"]
  BY DEF OnceInv, LockInv, Land
<1>2. PICK v \in Variants : v = attempts[k].row[1]  BY <1>1, LedgerShape
<1>3. /\ DOMAIN attempts' = DOMAIN attempts
      /\ \A i \in DOMAIN attempts :
            /\ attempts'[i].row = attempts[i].row
            /\ attempts'[i].call = IF i = k THEN "landed" ELSE attempts[i].call
  BY <1>1, CallWritten
<1>4. k \notin Landed(v) /\ k \in Landed(v)'  BY <1>1, <1>2, <1>3 DEF Landed
<1>5. Landed(v) \subseteq Landed(v)'  BY <1>3 DEF Landed
<1>6. Landed(v) = {} /\ Landed(v)' = {k}
  <2>1. \A i \in Landed(v)' : i = k  BY <1>4 DEF OnceInv, VariantOK
  <2> QED  BY <1>4, <1>5, <2>1
<1>7. \A u \in Variants \ {v} : Landed(u)' = Landed(u)  BY <1>2, <1>3 DEF Landed
<1>8. PostsOf' = [PostsOf EXCEPT ![v] = 1]
  <2>1. Cardinality(Landed(v)') = 1  BY <1>6, FS_Singleton
  <2> QED  BY <1>7, <2>1 DEF PostsOf
<1>9. PostsOf[v] = 0  BY <1>6, PostsCounted
<1>10. StatusOf[v] = "PUBLISHING" /\ UNCHANGED StatusOf
  <2>1. PICK w \in Workers : pc[w] = "calling" /\ run[w].attempt = k
    BY <1>1 DEF AttemptOK, Owned
  <2>2. WorkerOK(w) /\ pc[w] \in Holding  BY <2>1 DEF OnceInv, Holding
  <2>3. k \in OpenOf(w)  BY <2>1, <2>2 DEF WorkerOK, OpensOne, InCall
  <2>4. VariantOf(w) = v  BY <1>2, <2>3 DEF OpenOf, VariantOf
  <2> QED  BY <1>1, <2>2, <2>4 DEF WorkerOK, HoldsFresh, StatusOf
<1> QED  BY <1>8, <1>9, <1>10 DEF Once!Post

\* A run that gives its claim back, or ends it with an outcome.
LEMMA RunEnds ==
    ASSUME OnceInv, NEW w \in Workers, pc[w] \in Holding, NEW to,
           variant' = IF HoldsClaim(w)
                      THEN [variant EXCEPT ![VariantOf(w)].status = to,
                                           ![VariantOf(w)].token = 0,
                                           ![VariantOf(w)].stale = FALSE]
                      ELSE variant,
           \A u \in Variants : Landed(u)' = Landed(u)
    PROVE  /\ VariantOf(w) \in Variants /\ StatusOf[VariantOf(w)] = "PUBLISHING"
           /\ Once!Becomes(VariantOf(w), to)
<1>1. TypeOK /\ WorkerOK(w)  BY DEF OnceInv, LockInv
<1>2. VariantOf(w) \in Variants  BY <1>1, RunShape
<1>3. HoldsClaim(w) /\ variant[VariantOf(w)].status = "PUBLISHING"
  BY <1>1 DEF WorkerOK, HoldsFresh, HoldsClaim
<1>4. /\ variant'[VariantOf(w)].status = to
      /\ \A u \in Variants \ {VariantOf(w)} : variant'[u].status = variant[u].status
  BY <1>1, <1>2, <1>3 DEF TypeOK, VariantRecord
<1> QED  BY <1>1, <1>2, <1>3, <1>4, OneStatusMoves DEF StatusOf

\* What a person orders is an Again of those it is given on.
LEMMA OrderSendsAgain ==
    ASSUME OnceInv, NEW o, CarryOut(o), o.to = "SCHEDULED", o.on \in SUBSET Variants,
           \A v \in o.on :
               variant[v].status \notin {"PUBLISHING", "PUBLISHED", "NEEDS_REVIEW"}
    PROVE  Once!Again(o.on)
<1>1. TypeOK /\ variant' = Moved(o) /\ UNCHANGED attempts
  BY DEF OnceInv, LockInv, CarryOut
<1>2. ASSUME NEW v \in Variants
      PROVE  variant'[v].status = IF v \in o.on THEN "SCHEDULED" ELSE variant[v].status
  BY <1>1 DEF Moved, TypeOK, VariantRecord
<1>3. StatusOf' = [v \in Variants |-> IF v \in o.on THEN "SCHEDULED" ELSE StatusOf[v]]
  BY <1>2 DEF StatusOf
<1>4. UNCHANGED PostsOf  BY <1>1 DEF PostsOf, Landed
<1>5. \A v \in o.on : StatusOf[v] = variant[v].status  BY DEF StatusOf
<1> QED  BY <1>3, <1>4, <1>5 DEF Once!Again

LEMMA PersonImplements ==
    ASSUME OnceInv, Withstood, Human  PROVE  Once!Next
<1>0. TypeOK /\ "race" \notin Faults /\ order = NoOrder /\ "ABANDON" \notin Resolutions
  BY DEF OnceInv, LockInv, Withstood
<1>1. ASSUME NEW o, Issue(o)  PROVE  CarryOut(o)  BY <1>0, <1>1 DEF Issue
<1>2. ASSUME NEW S \in SUBSET Variants, NEW status, NEW send,
             CarryOut(Order(S, "SCHEDULED", status, send)),
             \A v \in S :
                 variant[v].status \notin {"PUBLISHING", "PUBLISHED", "NEEDS_REVIEW"}
      PROVE  Once!Next
  <2>1. PICK o : o = Order(S, "SCHEDULED", status, send)  OBVIOUS
  <2>2. o.on = S /\ o.to = "SCHEDULED" /\ CarryOut(o)  BY <1>2, <2>1 DEF Order
  <2>3. Once!Again(o.on)  BY <1>2, <2>2, OrderSendsAgain
  <2> QED  BY <2>2, <2>3 DEF Once!Next
<1>3. ASSUME NEW v \in Variants, RetryJob(v)  PROVE  Once!Next
  BY <1>1, <1>2, <1>3 DEF RetryJob
<1>4. CASE RetryFailed
  <2>1. PICK S : S = WithStatus(RetryableVariantStatuses)  OBVIOUS
  <2>2. S \in SUBSET Variants /\ \A v \in S : variant[v].status = "FAILED"
    BY <2>1 DEF WithStatus, RetryableVariantStatuses
  <2>3. CarryOut(Order(S, "SCHEDULED", NoStatus, TRUE))  BY <1>4, <2>1 DEF RetryFailed
  <2> QED  BY <1>2, <2>2, <2>3
<1>5. CASE PublishNow
  <2>1. PICK S : S = WithStatus(PublishableVariantStatuses)  OBVIOUS
  <2>2. /\ S \in SUBSET Variants
        /\ \A v \in S : variant[v].status \in {"DRAFT", "SCHEDULED", "FAILED"}
    BY <2>1 DEF WithStatus, PublishableVariantStatuses, RetryableVariantStatuses
  <2>3. CarryOut(Order(S, "SCHEDULED", "SCHEDULED", TRUE))
    BY <1>1, <1>5, <2>1 DEF PublishNow
  <2> QED  BY <1>2, <2>2, <2>3
<1>6. ASSUME NEW v \in Variants, NEW answer \in Resolutions, Resolve(v, answer)
      PROVE  Once!Next
  <2>1. answer \in {"PUBLISHED", "NOT_PUBLISHED"}  BY <1>0, EngineAssumption
  <2>2. PICK o : o = Order({v}, ResolvedAs[answer], NoStatus, FALSE)  OBVIOUS
  <2>3. /\ StatusOf[v] = "NEEDS_REVIEW" /\ CarryOut(o)
        /\ o.on = {v} /\ o.to = ResolvedAs[answer]
        /\ answer = "PUBLISHED" => Landed(v) # {}
        /\ answer = "NOT_PUBLISHED" => Landed(v) = {}
    BY <1>1, <1>6, <2>2 DEF Resolve, Order, StatusOf
  <2>4. ResolvedAs[answer] = IF PostsOf[v] = 1 THEN "PUBLISHED" ELSE "SCHEDULED"
    BY <2>1, <2>3, PostsCounted DEF ResolvedAs
  <2>5. UNCHANGED attempts /\ variant' = Moved(o)  BY <2>3 DEF CarryOut
  <2>6. /\ variant'[v].status = ResolvedAs[answer]
        /\ \A u \in Variants \ {v} : variant'[u].status = variant[u].status
    <3>1. ASSUME NEW u \in Variants
          PROVE  variant'[u].status = IF u \in o.on THEN o.to ELSE variant[u].status
      BY <1>0, <2>5 DEF Moved, TypeOK, VariantRecord
    <3> QED  BY <2>3, <3>1
  <2>7. Once!Becomes(v, ResolvedAs[answer])
    BY <1>0, <2>5, <2>6, OneStatusMoves DEF Landed
  <2> QED  BY <2>3, <2>4, <2>7 DEF Once!Answer, Once!Next
<1>7. ~CommitOrder  BY <1>0 DEF CommitOrder
<1> QED  BY <1>3, <1>4, <1>5, <1>6, <1>7 DEF Human

LEMMA StepImplements ==
    ASSUME OnceInv, NEW w \in Workers, Step(w),
           \A u \in Variants : Landed(u)' = Landed(u)
    PROVE  [Once!Next]_<<StatusOf, PostsOf>>
<1>0. TypeOK /\ WorkerOK(w)  BY DEF OnceInv, LockInv
<1>1. ASSUME UNCHANGED variant  PROVE  UNCHANGED <<StatusOf, PostsOf>>
  BY <1>1 DEF StatusOf, PostsOf
<1>2. ASSUME pc[w] \in Holding, ReleaseClaim(w)  PROVE  Once!Next
  <2>1. /\ VariantOf(w) \in Variants /\ StatusOf[VariantOf(w)] = "PUBLISHING"
        /\ Once!Becomes(VariantOf(w), "SCHEDULED")
    BY <1>2, RunEnds DEF ReleaseClaim
  <2> QED  BY <2>1 DEF Once!GiveBack, Once!Next
<1>3. CASE Defer(w) \/ Retryable(w) \/ Reject(w)
  BY <1>2, <1>3 DEF Defer, Retryable, Reject, At, Holding
<1>4. CASE Throw(w)  BY <1>0, <1>4 DEF Throw, At, WorkerOK
<1>5. CASE Settle(w)
  <2>1. PICK to : to = SettledAs(run[w].outcome)  OBVIOUS
  <2>2. pc[w] \in Holding /\ pc[w] = "apply" /\ run[w].outcome \in Outcomes \ {"RETRYABLE"}
    BY <1>0, <1>5 DEF Settle, At, Holding, TypeOK
  <2>3. /\ VariantOf(w) \in Variants /\ StatusOf[VariantOf(w)] = "PUBLISHING"
        /\ Once!Becomes(VariantOf(w), to)
    BY <1>5, <2>1, <2>2, RunEnds DEF Settle
  <2>4. /\ to \in {"PUBLISHED", "FAILED", "NEEDS_REVIEW"}
        /\ to = "PUBLISHED" => Landed(VariantOf(w)) # {}
        /\ to = "FAILED" => Landed(VariantOf(w)) = {}
    BY <1>0, <2>1, <2>2 DEF WorkerOK, Knows, SettledAs, Outcomes
  <2>5. Once!True(VariantOf(w), to)  BY <2>3, <2>4, PostsCounted DEF Once!True
  <2> QED  BY <2>3, <2>4, <2>5 DEF Once!Settle, Once!Next
<1>6. CASE UNCHANGED variant  BY <1>1, <1>6
<1> QED
  BY <1>3, <1>4, <1>5, <1>6
  DEF Step, Load, LoadRefused, AcquireLock, ReconcileUnknown, ReconcileTimeout, Refused,
      OpenAttempt, Accepted, TimedOut, CloseAttempt, SettleRow, RollUpRead, RollUpWrite,
      PendRow, Requeue

\* A claim that is taken over is the same publishing as before.
LEMMA TakeImplements ==
    ASSUME OnceInv, NEW w \in Workers, Take(w)
    PROVE  [Once!Next]_<<StatusOf, PostsOf>>
<1>0. TypeOK  BY DEF OnceInv, LockInv
<1>1. PICK r \in Rows : ClaimVariant(w, r) \/ TakeOverClaim(w, r) \/ NotClaimable(w, r)
  BY DEF Take
<1>2. UNCHANGED attempts /\ r[1] \in Variants
  BY <1>1 DEF ClaimVariant, TakeOverClaim, NotClaimable, Dequeue, Rows
<1>3. \A u : Landed(u)' = Landed(u)  BY <1>2 DEF Landed
<1>4. CASE NotClaimable(w, r)
  BY <1>3, <1>4 DEF NotClaimable, StatusOf, PostsOf
<1>5. CASE ClaimVariant(w, r) \/ TakeOverClaim(w, r)
  <2>1. variant' = [variant EXCEPT ![r[1]].status = "PUBLISHING",
                                   ![r[1]].token = claims + 1, ![r[1]].stale = FALSE]
    BY <1>5 DEF ClaimVariant, TakeOverClaim, Begin
  <2>2. /\ variant'[r[1]].status = "PUBLISHING"
        /\ \A u \in Variants \ {r[1]} : variant'[u].status = variant[u].status
    BY <1>0, <1>2, <2>1 DEF TypeOK, VariantRecord
  <2>3. CASE ClaimVariant(w, r)
    <3>1. Once!Becomes(r[1], "PUBLISHING")  BY <1>0, <1>2, <1>3, <2>2, OneStatusMoves
    <3>2. StatusOf[r[1]] = "SCHEDULED"  BY <1>2, <2>3 DEF ClaimVariant, StatusOf
    <3> QED  BY <1>2, <3>1, <3>2 DEF Once!Claim, Once!Next
  <2>4. CASE TakeOverClaim(w, r)
    <3>1. \A u \in Variants : variant'[u].status = variant[u].status
      BY <2>2, <2>4 DEF TakeOverClaim
    <3> QED  BY <1>3, <3>1 DEF StatusOf, PostsOf
  <2> QED  BY <1>5, <2>3, <2>4
<1> QED  BY <1>1, <1>4, <1>5

\* The promise at the head of engine.ts, under these faults: whoever looks only
\* at the status of a variant and at the platform sees it posted once, given
\* back, settled and answered as PublishOnce has it, and no status that lies.
THEOREM EngineImplementsOnce ==
    ASSUME Withstood  PROVE  Spec => ImplementsPublishOnce
<1>1. Init => Once!Init
  <2> SUFFICES ASSUME Init PROVE Once!Init
    OBVIOUS
  <2>1. ASSUME NEW v \in Variants  PROVE  Cardinality(Landed(v)) = 0
    BY FS_EmptySet DEF Init, Landed
  <2> QED  BY <2>1 DEF Init, Once!Init, StatusOf, PostsOf
<1>2. OnceInv /\ OnceInv' /\ [Next]_vars => [Once!Next]_<<StatusOf, PostsOf>>
  <2> SUFFICES ASSUME OnceInv, OnceInv', [Next]_vars
               PROVE  [Once!Next]_<<StatusOf, PostsOf>>
    OBVIOUS
  <2>0. TypeOK  BY DEF OnceInv, LockInv
  <2>1. CASE \E k \in DOMAIN attempts : Land(k)
    BY <2>1, LandPosts DEF Once!Next
  <2>2. CASE ~\E k \in DOMAIN attempts : Land(k)
    <3>1. \A u \in Variants : Landed(u)' = Landed(u)  BY <2>0, <2>2, LandedStays
    <3>2. ASSUME \A v \in Variants : variant'[v].status = variant[v].status
          PROVE  UNCHANGED <<StatusOf, PostsOf>>
      BY <3>1, <3>2 DEF StatusOf, PostsOf
    <3>3. CASE UNCHANGED variant  BY <3>2, <3>3
    <3>4. CASE Human  BY <3>4, PersonImplements
    <3>5. ASSUME NEW w \in Workers, Take(w)
          PROVE  [Once!Next]_<<StatusOf, PostsOf>>
      BY <3>5, TakeImplements
    <3>6. ASSUME NEW w \in Workers, Step(w)
          PROVE  [Once!Next]_<<StatusOf, PostsOf>>
      BY <3>1, <3>6, StepImplements
    <3>7. ASSUME NEW v \in Variants, ClaimExpires(v)
          PROVE  UNCHANGED <<StatusOf, PostsOf>>
      <4>1. \A u \in Variants : variant'[u].status = variant[u].status
        BY <2>0, <3>7 DEF ClaimExpires, TypeOK, VariantRecord
      <4> QED  BY <3>2, <4>1
    <3> QED
      BY <2>2, <3>3, <3>4, <3>5, <3>6, <3>7
      DEF Next, vars, Sweep, StoreFails, Crash, LockExpires
  <2> QED  BY <2>1, <2>2
<1> QED
  BY <1>1, <1>2, InitOnceInv, NextOnceInv, PTL DEF Spec, ImplementsPublishOnce, Once!Spec
=============================================================================
