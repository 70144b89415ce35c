------------------------ MODULE PostLifecycleProofs ------------------------
(* What holds of PostLifecycle for every value of its constants.           *)
EXTENDS PostLifecycle, SequenceTheorems, FiniteSetTheorems, TLAPS

Records == [stage : Stages, state : ApprovalStates, round : Nat \ {0}]

PostRecord ==
    [status : PostStatuses, at : 0 .. MaxTime, required : BOOLEAN,
     content : 1 .. MaxContent, approved : 0 .. MaxContent]

VariantRecord ==
    [status : VariantStatuses, at : 0 .. MaxTime, hash : 0 .. MaxContent, job : JobKeys]

----------------------------------------------------------------------------
(* What the services ask of transitionPost.                                *)

\* A request as transitionPost gets it and its second transaction finds it.
Fits(r) ==
    /\ r \in [kind : Kinds, from : PostStatuses, to : PostStatuses, gate : 0 .. MaxGates,
              decision : Decisions \cup {"none"}, at : 0 .. MaxTime]
    /\ AssertTransition(r.from, r.to, "HUMAN")
    /\ r.kind = "decide" => r.decision \in Decisions /\ r.gate \in DOMAIN approvals
    /\ r.kind \in {"schedule", "publish"} => r.at \in Instants /\ r.to = "SCHEDULED"
    /\ r.kind = "unschedule" => r.to = "DRAFT"

RequestsFit == \A p \in People : pending[p] = NoRequest \/ Fits(pending[p])

\* A variant that was ever scheduled has a hash, one that is scheduled an
\* instant, and one that is published a job.
VariantFits(v, x, jobs) ==
    /\ x.status \in {"SCHEDULED", "PUBLISHING"} => x.at \in Instants
    /\ x.status \notin {"DRAFT", "CANCELED"} => x.hash # 0
    /\ (\E k \in jobs : k[1] = v) => x.hash # 0
    /\ x.status = "PUBLISHING" => x.job \in jobs

JobsFit == \A v \in Variants : VariantFits(v, variant[v], rows)

\* A later record is of the same round or a later one.
RoundsOrdered ==
    \A i, j \in DOMAIN approvals :
        i < j => /\ approvals[i].round <= approvals[j].round
                 /\ approvals[j].stage = "INTERNAL" => approvals[i].round < approvals[j].round
                 /\ (approvals[j].stage = "CLIENT" /\ j = i + 1) =>
                        approvals[i].round = approvals[j].round

TypeInv == TypeOK /\ RequestsFit /\ JobsFit /\ RoundsOrdered

\* Each service asks for a move that fits, and the table knows.
LEMMA ServicesFit ==
    ASSUME TypeInv, NEW p \in People,
           \/ Transition(p) \/ DecideApproval(p) \/ SchedulePost(p) \/ PublishNow(p)
           \/ UnschedulePost(p)
    PROVE  \E r : /\ Fits(r) /\ Allows(r) /\ TransitionPost(p, r)
                  /\ r.kind = "decide" => /\ approvals[r.gate].state = "PENDING"
                                          /\ approvals[r.gate].stage = StageForStatus(r.from)
<1> USE DEF Asked, Fits, Kinds
<1>0. /\ post.status \in PostStatuses /\ MaxTime \in Nat /\ MaxGates \in Nat
      /\ now \in 0 .. MaxTime
  BY LifecycleAssumption DEF TypeInv, TypeOK
<1>1. CASE Transition(p)
  <2>1. PICK to \in PlainMoves : TransitionPost(p, Asked("move", to, 0, "none", 0))
    BY <1>1 DEF Transition
  <2>2. to \in PostStatuses  BY LifecycleAssumption
  <2>3. Allows(Asked("move", to, 0, "none", 0))  BY <2>1 DEF TransitionPost
  <2> QED  BY <1>0, <2>1, <2>2, <2>3 DEF Allows
<1>2. CASE DecideApproval(p)
  <2>1. PICK i \in OpenGates(approvals), decision \in Decisions :
            /\ approvals[i].stage = StageForStatus(post.status)
            /\ TransitionPost(p, Asked("decide",
                   StatusAfterDecision(approvals[i].stage, decision, post.required),
                   i, decision, 0))
    BY <1>2 DEF DecideApproval
  <2>2. StatusAfterDecision(approvals[i].stage, decision, post.required) \in PostStatuses
    BY DEF StatusAfterDecision, PostStatuses
  <2>3. i \in DOMAIN approvals /\ approvals[i].state = "PENDING"  BY DEF OpenGates
  <2>4. i \in 0 .. MaxGates
    BY <1>0, <2>3, LenProperties DEF TypeInv, TypeOK
  <2>5. Allows(Asked("decide",
                   StatusAfterDecision(approvals[i].stage, decision, post.required),
                   i, decision, 0))
    BY <2>1 DEF TransitionPost
  <2> QED  BY <1>0, <2>1, <2>2, <2>3, <2>4, <2>5 DEF Allows
<1>3. CASE SchedulePost(p)
  <2>1. PICK at \in Instants : TransitionPost(p, Asked("schedule", "SCHEDULED", 0, "none", at))
    BY <1>3 DEF SchedulePost
  <2>2. Allows(Asked("schedule", "SCHEDULED", 0, "none", at))  BY <2>1 DEF TransitionPost
  <2>3. "SCHEDULED" \in PostStatuses /\ at \in 0 .. MaxTime
    BY <1>0 DEF PostStatuses, Instants
  <2> QED  BY <1>0, <2>1, <2>2, <2>3 DEF Allows
<1>4. CASE PublishNow(p)
  <2>1. TransitionPost(p, Asked("publish", "SCHEDULED", 0, "none", now + 1))
    BY <1>4 DEF PublishNow
  <2>2. Allows(Asked("publish", "SCHEDULED", 0, "none", now + 1))  BY <2>1 DEF TransitionPost
  <2>3. "SCHEDULED" \in PostStatuses /\ now + 1 \in Instants /\ now + 1 \in 0 .. MaxTime
    BY <1>0, <1>4 DEF PostStatuses, Instants, PublishNow
  <2> QED  BY <1>0, <2>1, <2>2, <2>3 DEF Allows
<1>5. CASE UnschedulePost(p)
  <2>1. TransitionPost(p, Asked("unschedule", "DRAFT", 0, "none", 0))
    BY <1>5 DEF UnschedulePost
  <2>2. Allows(Asked("unschedule", "DRAFT", 0, "none", 0))  BY <2>1 DEF TransitionPost
  <2>3. "DRAFT" \in PostStatuses  BY DEF PostStatuses
  <2> QED  BY <1>0, <2>1, <2>2, <2>3 DEF Allows
<1> QED  BY <1>1, <1>2, <1>3, <1>4, <1>5

----------------------------------------------------------------------------
(* Approval records.                                                       *)

\* Two sequences with the same indices have the same length.
LEMMA SameLength ==
    ASSUME NEW as \in Seq(Records), NEW bs \in Seq(Records), DOMAIN as = DOMAIN bs
    PROVE  Len(as) = Len(bs)
<1>1. /\ DOMAIN as = 1 .. Len(as) /\ Len(as) \in Nat
      /\ DOMAIN bs = 1 .. Len(bs) /\ Len(bs) \in Nat
  BY LenProperties
<1>2. ASSUME NEW m \in Nat, NEW n \in Nat, 1 .. m = 1 .. n  PROVE  m = n
  <2>1. m # 0 => m \in 1 .. n  BY <1>2
  <2>2. n # 0 => n \in 1 .. m  BY <1>2
  <2> QED  BY <2>1, <2>2
<1> QED  BY <1>1, <1>2

\* An answer touches one record's state.
LEMMA StampedRecords ==
    ASSUME NEW as \in Seq(Records), NEW r, Fits(r)
    PROVE  /\ Stamped(as, r) \in Seq(Records)
           /\ Len(Stamped(as, r)) = Len(as)
           /\ \A i \in 1 .. Len(as) :
                 /\ Stamped(as, r)[i].stage = as[i].stage
                 /\ Stamped(as, r)[i].round = as[i].round
                 /\ ~(r.kind = "decide" /\ r.gate = i) => Stamped(as, r)[i] = as[i]
                 /\ (r.kind = "decide" /\ r.gate = i) => Stamped(as, r)[i].state = r.decision
<1>0. /\ Len(as) \in Nat /\ as \in [1 .. Len(as) -> Records]
      /\ DOMAIN as = 1 .. Len(as)
  BY LenProperties
<1>1. CASE ~(r.kind = "decide" /\ r.gate \in 1 .. Len(as))
  <2>1. Stamped(as, r) = as  BY <1>0, <1>1 DEF Stamped
  <2> QED  BY <1>1, <2>1
<1>2. CASE r.kind = "decide" /\ r.gate \in 1 .. Len(as)
  <2> DEFINE e == [as[r.gate] EXCEPT !.state = r.decision]
  <2>1. as[r.gate] \in Records  BY <1>0, <1>2
  <2>2. /\ e \in Records /\ e.state = r.decision
        /\ e.stage = as[r.gate].stage /\ e.round = as[r.gate].round
    BY <1>2, <2>1 DEF Records, Fits, ApprovalStates
  <2>3. Stamped(as, r) = [as EXCEPT ![r.gate] = e]  BY <1>2 DEF Stamped
  <2> HIDE DEF e
  <2>4. /\ Stamped(as, r) \in Seq(Records)
        /\ Len(Stamped(as, r)) = Len(as)
        /\ \A i \in 1 .. Len(as) : Stamped(as, r)[i] = IF i = r.gate THEN e ELSE as[i]
    <3>1. Stamped(as, r) \in [1 .. Len(as) -> Records]  BY <1>0, <2>2, <2>3
    <3>2. Stamped(as, r) \in Seq(Records)
      BY <1>0, <3>1, SeqDef
    <3>3. DOMAIN Stamped(as, r) = DOMAIN as  BY <2>3
    <3> QED  BY <1>0, <2>3, <3>2, <3>3, SameLength
  <2>5. ASSUME NEW i \in 1 .. Len(as)
        PROVE  /\ Stamped(as, r)[i].stage = as[i].stage
               /\ Stamped(as, r)[i].round = as[i].round
               /\ r.gate # i => Stamped(as, r)[i] = as[i]
               /\ r.gate = i => Stamped(as, r)[i].state = r.decision
    <3>1. CASE i = r.gate  BY <2>2, <2>4, <3>1
    <3>2. CASE i # r.gate  BY <2>4, <3>2
    <3> QED  BY <3>1, <3>2
  <2> QED  BY <1>2, <2>4, <2>5
<1> QED  BY <1>1, <1>2

\* Closing the gates touches the state of those that are open.
LEMMA VoidedRecords ==
    ASSUME NEW as \in Seq(Records)
    PROVE  /\ VoidOpenGates(as) \in Seq(Records)
           /\ Len(VoidOpenGates(as)) = Len(as)
           /\ \A i \in 1 .. Len(as) :
                 /\ VoidOpenGates(as)[i].stage = as[i].stage
                 /\ VoidOpenGates(as)[i].round = as[i].round
                 /\ VoidOpenGates(as)[i].state # "PENDING"
                 /\ as[i].state # "PENDING" => VoidOpenGates(as)[i] = as[i]
<1>0. /\ Len(as) \in Nat /\ as \in [1 .. Len(as) -> Records]
      /\ DOMAIN as = 1 .. Len(as)
  BY LenProperties
<1>1. ASSUME NEW i \in 1 .. Len(as)
      PROVE  /\ [as[i] EXCEPT !.state = "CANCELED"] \in Records
             /\ [as[i] EXCEPT !.state = "CANCELED"].stage = as[i].stage
             /\ [as[i] EXCEPT !.state = "CANCELED"].round = as[i].round
             /\ [as[i] EXCEPT !.state = "CANCELED"].state = "CANCELED"
             /\ as[i] \in Records
  BY <1>0 DEF Records, ApprovalStates
<1>2. VoidOpenGates(as) \in [1 .. Len(as) -> Records]
  BY <1>0, <1>1 DEF VoidOpenGates
<1>3. VoidOpenGates(as) \in Seq(Records)  BY <1>0, <1>2, SeqDef
<1>4. Len(VoidOpenGates(as)) = Len(as)
  <2>1. DOMAIN VoidOpenGates(as) = DOMAIN as  BY DEF VoidOpenGates
  <2> QED  BY <1>3, <2>1, SameLength
<1>5. \A i \in 1 .. Len(as) :
         VoidOpenGates(as)[i] = IF as[i].state = "PENDING"
                                THEN [as[i] EXCEPT !.state = "CANCELED"] ELSE as[i]
  BY <1>0 DEF VoidOpenGates
<1> QED  BY <1>1, <1>3, <1>4, <1>5

\* The latest round is the last record's.
LEMMA RoundOfLast ==
    ASSUME approvals \in Seq(Records), RoundsOrdered
    PROVE  /\ Round("INTERNAL") \in Nat \ {0} /\ Round("CLIENT") \in Nat \ {0}
           /\ \A i \in 1 .. Len(approvals) :
                 /\ approvals[i].round < Round("INTERNAL")
                 /\ approvals[i].round <= Round("CLIENT")
           /\ Len(approvals) # 0 => Round("CLIENT") = approvals[Len(approvals)].round
<1> DEFINE seen == {approvals[i].round : i \in DOMAIN approvals} \cup {0}
           last == CHOOSE n \in seen : \A m \in seen : m <= n
<1>0. /\ Len(approvals) \in Nat /\ DOMAIN approvals = 1 .. Len(approvals)
      /\ \A i \in 1 .. Len(approvals) : approvals[i].round \in Nat \ {0}
  <2>1. /\ Len(approvals) \in Nat /\ DOMAIN approvals = 1 .. Len(approvals)
        /\ approvals \in [1 .. Len(approvals) -> Records]
    BY LenProperties
  <2> QED  BY <2>1 DEF Records
<1>1. seen \subseteq Nat  BY <1>0
<1>2. ASSUME NEW n \in seen, \A m \in seen : m <= n  PROVE  last = n
  <2>1. last \in seen /\ \A m \in seen : m <= last  BY <1>2
  <2>2. last <= n /\ n <= last  BY <1>2, <2>1
  <2> QED  BY <1>1, <1>2, <2>1, <2>2
<1>3. /\ Round("INTERNAL") = last + 1
      /\ Round("CLIENT") = IF last = 0 THEN 1 ELSE last
  BY DEF Round
<1>4. CASE Len(approvals) = 0
  <2>1. 0 \in seen /\ \A m \in seen : m <= 0  BY <1>0, <1>4
  <2>2. last = 0  BY <1>2, <2>1
  <2> QED  BY <1>0, <1>3, <1>4, <2>2
<1>5. CASE Len(approvals) # 0
  <2> DEFINE n == approvals[Len(approvals)].round
  <2>1. n \in Nat \ {0} /\ n \in seen  BY <1>0, <1>5
  <2>2. \A i \in 1 .. Len(approvals) : approvals[i].round <= n
    BY <1>0, <1>5 DEF RoundsOrdered
  <2>3. \A m \in seen : m <= n  BY <1>0, <2>1, <2>2
  <2>4. last = n  BY <1>2, <2>1, <2>3
  <2>5. Round("INTERNAL") = n + 1 /\ Round("CLIENT") = n
    BY <1>3, <2>1, <2>4
  <2>6. ASSUME NEW i \in 1 .. Len(approvals)
        PROVE  approvals[i].round < n + 1 /\ approvals[i].round <= n
    <3> HIDE DEF n
    <3> QED  BY <1>0, <2>1, <2>2
  <2> HIDE DEF seen, last
  <2> QED  BY <2>1, <2>5, <2>6
<1> QED  BY <1>4, <1>5

\* What the second transaction leaves of the records, and what it adds.
LEMMA Bookkeeping ==
    ASSUME TypeInv, NEW r, Fits(r), Commit(r)
    PROVE  /\ approvals' \in Seq(Records)
           /\ Len(approvals') = IF StageForStatus(r.to) = "none" THEN Len(approvals)
                                ELSE Len(approvals) + 1
           /\ \A i \in 1 .. Len(approvals) :
                 /\ approvals'[i].stage = approvals[i].stage
                 /\ approvals'[i].round = approvals[i].round
                 /\ (approvals[i].state # "PENDING" /\ ~(r.kind = "decide" /\ r.gate = i)) =>
                        approvals'[i] = approvals[i]
                 /\ (~ClosesGates(r.from, r.to) /\ ~(r.kind = "decide" /\ r.gate = i)) =>
                        approvals'[i] = approvals[i]
                 /\ (ClosesGates(r.from, r.to) \/ (r.kind = "decide" /\ r.gate = i)) =>
                        approvals'[i].state # "PENDING"
           /\ StageForStatus(r.to) # "none" =>
                 approvals'[Len(approvals) + 1] =
                     [stage |-> StageForStatus(r.to), state |-> "PENDING",
                      round |-> Round(StageForStatus(r.to))]
<1> DEFINE stamped == Stamped(approvals, r)
           closed  == IF ClosesGates(r.from, r.to) THEN VoidOpenGates(stamped) ELSE stamped
           added   == [stage |-> StageForStatus(r.to), state |-> "PENDING",
                       round |-> Round(StageForStatus(r.to))]
<1>1. approvals \in Seq(Records) /\ Len(approvals) \in Nat
  BY LenProperties DEF TypeInv, TypeOK, Records
<1>2. /\ stamped \in Seq(Records) /\ Len(stamped) = Len(approvals)
      /\ \A i \in 1 .. Len(approvals) :
            /\ stamped[i].stage = approvals[i].stage
            /\ stamped[i].round = approvals[i].round
            /\ ~(r.kind = "decide" /\ r.gate = i) => stamped[i] = approvals[i]
            /\ (r.kind = "decide" /\ r.gate = i) => stamped[i].state # "PENDING"
  BY <1>1, StampedRecords DEF Fits, Decisions
<1>3. /\ VoidOpenGates(stamped) \in Seq(Records)
      /\ Len(VoidOpenGates(stamped)) = Len(approvals)
      /\ \A i \in 1 .. Len(approvals) :
            /\ VoidOpenGates(stamped)[i].stage = stamped[i].stage
            /\ VoidOpenGates(stamped)[i].round = stamped[i].round
            /\ VoidOpenGates(stamped)[i].state # "PENDING"
            /\ stamped[i].state # "PENDING" => VoidOpenGates(stamped)[i] = stamped[i]
  BY <1>2, VoidedRecords
<1> HIDE DEF stamped
<1>4. /\ closed \in Seq(Records) /\ Len(closed) = Len(approvals)
      /\ \A i \in 1 .. Len(approvals) :
            /\ closed[i].stage = approvals[i].stage
            /\ closed[i].round = approvals[i].round
            /\ (approvals[i].state # "PENDING" /\ ~(r.kind = "decide" /\ r.gate = i)) =>
                   closed[i] = approvals[i]
            /\ (~ClosesGates(r.from, r.to) /\ ~(r.kind = "decide" /\ r.gate = i)) =>
                   closed[i] = approvals[i]
            /\ (ClosesGates(r.from, r.to) \/ (r.kind = "decide" /\ r.gate = i)) =>
                   closed[i].state # "PENDING"
  <2>1. CASE ClosesGates(r.from, r.to)   BY <1>2, <1>3, <2>1
  <2>2. CASE ~ClosesGates(r.from, r.to)  BY <1>2, <2>2
  <2> QED  BY <2>1, <2>2
<1>5. approvals' = OpenGateFor(closed, r.to)  BY DEF Commit, stamped
<1> HIDE DEF closed
<1>6. CASE StageForStatus(r.to) = "none"
  <2>1. approvals' = closed  BY <1>5, <1>6 DEF OpenGateFor
  <2> QED  BY <1>4, <1>6, <2>1
<1>7. CASE StageForStatus(r.to) # "none"
  <2>1. approvals' = Append(closed, added)  BY <1>5, <1>7 DEF OpenGateFor
  <2>2. added \in Records
    <3>1. StageForStatus(r.to) \in Stages  BY <1>7 DEF StageForStatus, Stages
    <3>2. Round(StageForStatus(r.to)) \in Nat \ {0}
      BY <1>1, <3>1, RoundOfLast DEF TypeInv, Stages
    <3> QED  BY <3>1, <3>2 DEF Records, ApprovalStates
  <2> HIDE DEF added
  <2>3. /\ Append(closed, added) \in Seq(Records)
        /\ Len(Append(closed, added)) = Len(closed) + 1
        /\ \A i \in 1 .. Len(closed) : Append(closed, added)[i] = closed[i]
        /\ Append(closed, added)[Len(closed) + 1] = added
    BY <1>4, <2>2, AppendProperties
  <2>4. \A i \in 1 .. Len(approvals) : approvals'[i] = closed[i]
    BY <1>4, <2>1, <2>3
  <2>5. /\ approvals' \in Seq(Records) /\ Len(approvals') = Len(approvals) + 1
        /\ approvals'[Len(approvals) + 1] = added
    BY <1>4, <2>1, <2>3
  <2> QED  BY <1>4, <1>7, <2>4, <2>5 DEF added
<1> QED  BY <1>6, <1>7

----------------------------------------------------------------------------
(* The type invariant.                                                     *)

LEMMA EnqueueFits ==
    ASSUME NEW vs \in [Variants -> VariantRecord],
           \A v \in Variants : VariantFits(v, vs[v], rows),
           rows \subseteq JobKeys, queue \subseteq rows,
           NEW keys \in SUBSET Keys(vs), Enqueue(keys)
    PROVE  /\ rows' \subseteq JobKeys /\ queue' \subseteq rows'
           /\ \A v \in Variants : VariantFits(v, vs[v], rows')
<1>1. ASSUME NEW k \in Keys(vs)
      PROVE  k \in JobKeys /\ k[1] \in Variants /\ vs[k[1]].hash # 0
  <2>1. PICK v \in Variants : vs[v].status = "SCHEDULED" /\ k = <<v, vs[v].at, vs[v].hash>>
    BY DEF Keys
  <2>2. vs[v].at \in Instants /\ vs[v].hash # 0  BY <2>1 DEF VariantFits
  <2>3. vs[v].hash \in 1 .. MaxContent
    BY <2>2, LifecycleAssumption DEF VariantRecord
  <2> QED  BY <2>1, <2>2, <2>3 DEF JobKeys
<1>2. rows' = rows \cup keys /\ queue' = queue \cup (keys \ rows)
  BY DEF Enqueue
<1> QED  BY <1>1, <1>2 DEF VariantFits

\* Scheduling leaves sound variants.
LEMMA ApplyScheduleFit ==
    ASSUME TypeInv, NEW statuses, NEW at \in Instants
    PROVE  /\ ApplySchedule(statuses, at) \in [Variants -> VariantRecord]
           /\ \A v \in Variants : VariantFits(v, ApplySchedule(statuses, at)[v], rows)
<1>0. /\ variant \in [Variants -> VariantRecord] /\ post \in PostRecord
      /\ at \in 0 .. MaxTime
      /\ \A v \in Variants : VariantFits(v, variant[v], rows)
  BY LifecycleAssumption DEF TypeInv, TypeOK, VariantRecord, PostRecord, JobsFit, Instants
<1>1. post.content \in 0 .. MaxContent /\ post.content # 0
  BY <1>0, LifecycleAssumption DEF PostRecord
<1>2. ASSUME NEW x \in VariantRecord
      PROVE  [x EXCEPT !.status = "SCHEDULED", !.at = at, !.hash = post.content] \in VariantRecord
  BY <1>0, <1>1 DEF VariantRecord, VariantStatuses
<1>3. ApplySchedule(statuses, at) \in [Variants -> VariantRecord]
  BY <1>0, <1>2 DEF ApplySchedule
<1>4. ASSUME NEW v \in Variants  PROVE  VariantFits(v, ApplySchedule(statuses, at)[v], rows)
  <2>1. CASE variant[v].status \in statuses
    <3>1. ApplySchedule(statuses, at)[v] =
              [variant[v] EXCEPT !.status = "SCHEDULED", !.at = at, !.hash = post.content]
      BY <2>1 DEF ApplySchedule
    <3>2. variant[v] \in VariantRecord  BY <1>0
    <3> QED  BY <1>1, <3>1, <3>2 DEF VariantFits, VariantRecord
  <2>2. CASE variant[v].status \notin statuses
    <3>1. ApplySchedule(statuses, at)[v] = variant[v]  BY <2>2 DEF ApplySchedule
    <3> QED  BY <1>0, <3>1
  <2> QED  BY <2>1, <2>2
<1> QED  BY <1>3, <1>4

\* Every request a second transaction carries out leaves sound variants.
LEMMA VariantsAfterFit ==
    ASSUME TypeInv, NEW r, Fits(r)
    PROVE  /\ VariantsAfter(r) \in [Variants -> VariantRecord]
           /\ \A v \in Variants : VariantFits(v, VariantsAfter(r)[v], rows)
<1>0. /\ variant \in [Variants -> VariantRecord] /\ post \in PostRecord
      /\ MaxTime \in Nat /\ MaxContent \in Nat \ {0}
      /\ \A v \in Variants : VariantFits(v, variant[v], rows)
  BY LifecycleAssumption DEF TypeInv, TypeOK, VariantRecord, PostRecord, JobsFit
<1>1. CASE r.kind \in {"schedule", "publish"}
  <2>1. VariantsAfter(r) = ApplySchedule(PublishableVariantStatuses, r.at)
    BY <1>1 DEF VariantsAfter, Fits
  <2>2. r.at \in Instants  BY <1>1 DEF Fits
  <2> QED  BY <2>1, <2>2, ApplyScheduleFit
<1>2. CASE r.kind = "unschedule"
  <2>1. VariantsAfter(r) =
            [v \in Variants |->
                IF variant[v].status = "SCHEDULED"
                THEN [variant[v] EXCEPT !.status = "DRAFT", !.at = 0] ELSE variant[v]]
    BY <1>2 DEF VariantsAfter, Fits
  <2>2. ASSUME NEW x \in VariantRecord
        PROVE  [x EXCEPT !.status = "DRAFT", !.at = 0] \in VariantRecord
    <3>1. 0 \in 0 .. MaxTime  BY <1>0
    <3> QED  BY <3>1 DEF VariantRecord, VariantStatuses
  <2>3. VariantsAfter(r) \in [Variants -> VariantRecord]  BY <1>0, <2>1, <2>2
  <2>4. ASSUME NEW v \in Variants  PROVE  VariantFits(v, VariantsAfter(r)[v], rows)
    <3>1. variant[v] \in VariantRecord /\ VariantFits(v, variant[v], rows)  BY <1>0
    <3>2. CASE variant[v].status = "SCHEDULED"
      <4>1. VariantsAfter(r)[v] = [variant[v] EXCEPT !.status = "DRAFT", !.at = 0]
        BY <2>1, <3>2
      <4> QED  BY <3>1, <4>1, <3>2 DEF VariantFits, VariantRecord
    <3>3. CASE variant[v].status # "SCHEDULED"  BY <2>1, <3>1, <3>3
    <3> QED  BY <3>2, <3>3
  <2> QED  BY <2>3, <2>4
<1>3. CASE r.kind \notin {"schedule", "publish", "unschedule"} /\ r.to = "CANCELED"
  <2>1. VariantsAfter(r) =
            [v \in Variants |->
                IF variant[v].status \in {"DRAFT", "SCHEDULED"}
                THEN [variant[v] EXCEPT !.status = "CANCELED"] ELSE variant[v]]
    BY <1>3 DEF VariantsAfter
  <2> QED  BY <1>0, <2>1 DEF VariantRecord, VariantStatuses, VariantFits
<1>4. CASE r.kind \notin {"schedule", "publish", "unschedule"} /\ r.to # "CANCELED"
  <2>1. VariantsAfter(r) = variant  BY <1>4 DEF VariantsAfter
  <2> QED  BY <1>0, <2>1
<1> QED  BY <1>1, <1>2, <1>3, <1>4

\* A gate that opens continues the order of the rounds.
LEMMA RoundsStayOrdered ==
    ASSUME TypeInv, NEW r, Fits(r), Commit(r)
    PROVE  RoundsOrdered'
<1> DEFINE n == Len(approvals)
<1>0. /\ n \in Nat /\ DOMAIN approvals = 1 .. n
      /\ approvals \in [1 .. n -> Records] /\ approvals \in Seq(Records)
  BY LenProperties DEF TypeInv, TypeOK, Records
<1>1. /\ approvals' \in Seq(Records)
      /\ Len(approvals') = IF StageForStatus(r.to) = "none" THEN n ELSE n + 1
      /\ \A i \in 1 .. n : /\ approvals'[i].stage = approvals[i].stage
                          /\ approvals'[i].round = approvals[i].round
      /\ StageForStatus(r.to) # "none" =>
            approvals'[n + 1] = [stage |-> StageForStatus(r.to), state |-> "PENDING",
                                 round |-> Round(StageForStatus(r.to))]
  BY Bookkeeping
<1>2. DOMAIN approvals' = 1 .. Len(approvals')  BY <1>1, LenProperties
<1>3. \A i \in 1 .. n : approvals[i].round \in Nat \ {0}  BY <1>0 DEF Records
<1>4. ASSUME NEW i \in DOMAIN approvals', NEW j \in DOMAIN approvals', i < j
      PROVE  /\ approvals'[i].round <= approvals'[j].round
             /\ approvals'[j].stage = "INTERNAL" => approvals'[i].round < approvals'[j].round
             /\ (approvals'[j].stage = "CLIENT" /\ j = i + 1) =>
                    approvals'[i].round = approvals'[j].round
  <2>1. CASE j \in 1 .. n
    <3>1. i \in 1 .. n  BY <1>0, <1>1, <1>2, <1>4, <2>1
    <3>2. /\ approvals[i].round <= approvals[j].round
          /\ approvals[j].stage = "INTERNAL" => approvals[i].round < approvals[j].round
          /\ (approvals[j].stage = "CLIENT" /\ j = i + 1) =>
                 approvals[i].round = approvals[j].round
      BY <1>0, <1>4, <2>1, <3>1 DEF TypeInv, RoundsOrdered
    <3> QED  BY <1>1, <2>1, <3>1, <3>2
  <2>2. CASE j \notin 1 .. n
    <3>1. /\ StageForStatus(r.to) # "none" /\ j = n + 1 /\ i \in 1 .. n
      <4>1. StageForStatus(r.to) # "none"  BY <1>0, <1>1, <1>2, <2>2
      <4>2. Len(approvals') = n + 1  BY <1>1, <4>1
      <4> QED  BY <1>0, <1>2, <1>4, <2>2, <4>1, <4>2
    <3>2. StageForStatus(r.to) \in {"INTERNAL", "CLIENT"}  BY <3>1 DEF StageForStatus
    <3>3. /\ approvals'[j].stage = StageForStatus(r.to)
          /\ approvals'[j].round = Round(StageForStatus(r.to))
          /\ approvals'[i].round = approvals[i].round
      BY <1>1, <3>1
    <3>4. /\ approvals[i].round < Round("INTERNAL") /\ approvals[i].round <= Round("CLIENT")
          /\ Round("INTERNAL") \in Nat /\ Round("CLIENT") \in Nat
          /\ n # 0 => Round("CLIENT") = approvals[n].round
      BY <1>0, <3>1, RoundOfLast DEF TypeInv
    <3>5. j = i + 1 => i = n /\ n # 0  BY <1>0, <3>1
    <3> QED  BY <1>3, <3>1, <3>2, <3>3, <3>4, <3>5
  <2> QED  BY <2>1, <2>2
<1> QED  BY <1>4 DEF RoundsOrdered

LEMMA CommitType ==
    ASSUME TypeInv, NEW r, Fits(r), Commit(r)
    PROVE  /\ post' \in PostRecord
           /\ variant' \in [Variants -> VariantRecord]
           /\ approvals' \in Seq(Records) /\ Len(approvals') <= MaxGates
           /\ DOMAIN approvals \subseteq DOMAIN approvals'
           /\ rows' \subseteq JobKeys /\ queue' \subseteq rows'
           /\ JobsFit' /\ RoundsOrdered'
<1>0. /\ post \in PostRecord /\ approvals \in Seq(Records)
      /\ Len(approvals) \in Nat /\ DOMAIN approvals = 1 .. Len(approvals)
      /\ Len(approvals) <= MaxGates
      /\ MaxTime \in Nat /\ MaxGates \in Nat /\ MaxContent \in Nat \ {0}
      /\ rows \subseteq JobKeys /\ queue \subseteq rows
  BY LifecycleAssumption, LenProperties DEF TypeInv, TypeOK, PostRecord, Records
<1>1. post' \in PostRecord
  <2>1. ScheduledAt(r) \in 0 .. MaxTime
    BY <1>0 DEF ScheduledAt, Fits, PostRecord
  <2>2. r.to \in PostStatuses  BY DEF Fits
  <2>3. post.content \in 0 .. MaxContent /\ post.approved \in 0 .. MaxContent
    BY <1>0 DEF PostRecord
  <2>4. (IF r.to = "APPROVED" THEN post.content ELSE post.approved) \in 0 .. MaxContent
    BY <2>3
  <2>5. post' = [post EXCEPT !.status = r.to, !.at = ScheduledAt(r),
                    !.approved = IF r.to = "APPROVED" THEN post.content ELSE @]
    BY DEF Commit
  <2> QED  BY <1>0, <2>1, <2>2, <2>4, <2>5 DEF PostRecord
<1>2. /\ variant' = VariantsAfter(r)
      /\ variant' \in [Variants -> VariantRecord]
      /\ \A v \in Variants : VariantFits(v, variant'[v], rows)
  BY VariantsAfterFit DEF Commit
<1>3. /\ approvals' \in Seq(Records)
      /\ Len(approvals') = IF StageForStatus(r.to) = "none" THEN Len(approvals)
                           ELSE Len(approvals) + 1
  BY Bookkeeping
<1>4. Len(approvals') <= MaxGates  BY <1>0, <1>3 DEF Commit, InBounds
<1>5. DOMAIN approvals \subseteq DOMAIN approvals'
  <2>1. DOMAIN approvals' = 1 .. Len(approvals')  BY <1>3, LenProperties
  <2> QED  BY <1>0, <1>3, <2>1
<1>6. rows' \subseteq JobKeys /\ queue' \subseteq rows' /\ JobsFit'
  <2>1. CASE r.kind = "publish"
    <3>1. Enqueue(Keys(variant'))  BY <1>2, <2>1 DEF Commit
    <3> QED  BY <1>0, <1>2, <3>1, EnqueueFits DEF JobsFit
  <2>2. CASE r.kind # "publish"
    <3>1. rows' = rows /\ queue' = queue  BY <2>2 DEF Commit
    <3> QED  BY <1>0, <1>2, <3>1 DEF JobsFit
  <2> QED  BY <2>1, <2>2
<1> QED  BY <1>1, <1>2, <1>3, <1>4, <1>5, <1>6, RoundsStayOrdered

\* A request stays fit while the records it may point at stay.
LEMMA RequestsStayFit ==
    ASSUME RequestsFit, DOMAIN approvals \subseteq DOMAIN approvals',
           \A p \in People : \/ pending'[p] = pending[p] \/ pending'[p] = NoRequest
                             \/ Fits(pending'[p])
    PROVE  RequestsFit'
<1> SUFFICES ASSUME NEW p \in People
             PROVE  pending'[p] = NoRequest \/ Fits(pending[p])'
  BY DEF RequestsFit
<1>1. pending'[p] = NoRequest \/ Fits(pending'[p])  BY DEF RequestsFit
<1> QED  BY <1>1 DEF Fits

LEMMA InitTypeInv == Init => TypeInv
<1> SUFFICES ASSUME Init PROVE TypeInv
  OBVIOUS
<1>0. MaxTime \in Nat /\ MaxGates \in Nat /\ MaxContent \in Nat \ {0}
  BY LifecycleAssumption
<1>1. post \in PostRecord
  <2>1. PICK required \in BOOLEAN :
            post = [status |-> "DRAFT", at |-> 0, required |-> required,
                    content |-> 1, approved |-> 0]
    BY DEF Init
  <2>2. 0 \in 0 .. MaxTime /\ 1 \in 1 .. MaxContent /\ 0 \in 0 .. MaxContent  BY <1>0
  <2> QED  BY <2>1, <2>2 DEF PostRecord, PostStatuses
<1>2. /\ approvals \in Seq(Records) /\ approvals = <<>>
      /\ Len(approvals) = 0 /\ Len(approvals) <= MaxGates
  BY <1>0, EmptySeq DEF Init
<1>3. pending \in [People -> Request] /\ RequestsFit
  BY DEF Init, Request, RequestsFit
<1>4. JobsFit  BY DEF Init, JobsFit, VariantFits
<1>5. RoundsOrdered  BY <1>2 DEF RoundsOrdered
<1>6. rows \subseteq JobKeys /\ queue \subseteq rows /\ now \in 0 .. MaxTime
  BY <1>0 DEF Init
<1>7. variant \in [Variants -> VariantRecord]
  <2>1. ASSUME NEW v \in Variants
        PROVE  [status |-> "DRAFT", at |-> 0, hash |-> 0, job |-> <<v, 1, 1>>] \in VariantRecord
    <3>1. 1 \in Instants /\ 1 \in 1 .. MaxContent /\ 0 \in 0 .. MaxTime /\ 0 \in 0 .. MaxContent
      BY LifecycleAssumption DEF Instants
    <3> QED  BY <3>1 DEF VariantRecord, VariantStatuses, JobKeys
  <2> QED  BY <2>1 DEF Init
<1> QED
  BY <1>1, <1>2, <1>3, <1>4, <1>5, <1>6, <1>7
  DEF TypeInv, TypeOK, PostRecord, VariantRecord, Records

LEMMA NextTypeInv == TypeInv /\ [Next]_vars => TypeInv'
<1> SUFFICES ASSUME TypeInv, [Next]_vars PROVE TypeInv'
  OBVIOUS
<1>0. /\ post \in PostRecord /\ variant \in [Variants -> VariantRecord]
      /\ approvals \in Seq(Records) /\ Len(approvals) <= MaxGates
      /\ pending \in [People -> Request]
      /\ rows \subseteq JobKeys /\ queue \subseteq rows /\ now \in 0 .. MaxTime
      /\ RequestsFit /\ JobsFit /\ RoundsOrdered
      /\ MaxTime \in Nat /\ MaxGates \in Nat /\ MaxContent \in Nat \ {0}
  BY LifecycleAssumption
  DEF TypeInv, TypeOK, PostRecord, VariantRecord, Records
\* It is enough that the new state has these parts.
<1>1. ASSUME post' \in PostRecord, variant' \in [Variants -> VariantRecord],
             approvals' \in Seq(Records), Len(approvals') <= MaxGates,
             pending' \in [People -> Request],
             rows' \subseteq JobKeys, queue' \subseteq rows', now' \in 0 .. MaxTime,
             RequestsFit', JobsFit', RoundsOrdered'
      PROVE  TypeInv'
  BY <1>1 DEF TypeInv, TypeOK, PostRecord, VariantRecord, Records
\* A step that leaves the records and the requests alone.
<1>2. ASSUME UNCHANGED <<approvals, pending>>
      PROVE  /\ approvals' \in Seq(Records) /\ Len(approvals') <= MaxGates
             /\ pending' \in [People -> Request] /\ RequestsFit' /\ RoundsOrdered'
  BY <1>0, <1>2 DEF RequestsFit, RoundsOrdered, Fits
<1>3. CASE UNCHANGED vars
  <2>1. UNCHANGED <<post, variant, approvals, pending, rows, queue, now>>  BY <1>3 DEF vars
  <2>2. JobsFit'  BY <1>0, <2>1 DEF JobsFit
  <2> QED  BY <1>0, <1>1, <1>2, <2>1, <2>2
<1>4. ASSUME NEW p \in People, NEW r, Fits(r), TransitionPost(p, r)
      PROVE  TypeInv'
  <2>1. now' \in 0 .. MaxTime
    BY <1>0, <1>4 DEF TransitionPost, Fits
  <2>2. r \in Request  BY <1>4 DEF Fits, Request
  <2>3. CASE r.kind \in Racing
    <3>1. /\ pending' = [pending EXCEPT ![p] = r]
          /\ UNCHANGED <<post, variant, approvals, rows, queue>>
      BY <1>4, <2>3 DEF TransitionPost
    <3>2. pending' \in [People -> Request]  BY <1>0, <2>2, <3>1
    <3>3. RequestsFit'
      <4>1. \A q \in People : pending'[q] = pending[q] \/ Fits(pending'[q])
        BY <1>0, <1>4, <3>1
      <4> QED  BY <1>0, <3>1, <4>1, RequestsStayFit
    <3>4. JobsFit' /\ RoundsOrdered'  BY <1>0, <3>1 DEF JobsFit, RoundsOrdered
    <3> QED  BY <1>0, <1>1, <2>1, <3>1, <3>2, <3>3, <3>4
  <2>4. CASE r.kind \notin Racing
    <3>1. Commit(r) /\ pending' = pending  BY <1>4, <2>4 DEF TransitionPost
    <3>2. RequestsFit'  BY <1>0, <1>4, <3>1, CommitType, RequestsStayFit
    <3> QED  BY <1>0, <1>1, <1>4, <2>1, <3>1, <3>2, CommitType
  <2> QED  BY <2>3, <2>4
<1>5. ASSUME NEW p \in People, CommitRequest(p)
      PROVE  TypeInv'
  <2>1. /\ Fits(pending[p]) /\ pending' = [pending EXCEPT ![p] = NoRequest]
        /\ now' = now
    BY <1>0, <1>5 DEF CommitRequest, RequestsFit
  <2>2. /\ pending' \in [People -> Request]
        /\ \A q \in People : pending'[q] = pending[q] \/ pending'[q] = NoRequest
    BY <1>0, <2>1 DEF Request
  <2>3. CASE Lands(pending[p])
    <3>1. Commit(pending[p])  BY <1>5, <2>3 DEF CommitRequest
    <3>2. RequestsFit'  BY <1>0, <2>1, <2>2, <3>1, CommitType, RequestsStayFit
    <3> QED  BY <1>0, <1>1, <2>1, <2>2, <3>1, <3>2, CommitType
  <2>4. CASE ~Lands(pending[p])
    <3>1. UNCHANGED <<post, variant, approvals, rows, queue>>
      BY <1>5, <2>4 DEF CommitRequest
    <3>2. RequestsFit'  BY <1>0, <2>2, <3>1, RequestsStayFit
    <3>3. JobsFit' /\ RoundsOrdered'  BY <1>0, <3>1 DEF JobsFit, RoundsOrdered
    <3> QED  BY <1>0, <1>1, <2>1, <2>2, <3>1, <3>2, <3>3
  <2> QED  BY <2>3, <2>4
<1>6. ASSUME NEW p \in People,
             \/ Transition(p) \/ DecideApproval(p) \/ SchedulePost(p) \/ PublishNow(p)
             \/ UnschedulePost(p)
      PROVE  TypeInv'
  BY <1>4, <1>6, ServicesFit
<1>7. CASE UpdatePost
  <2>1. post' \in PostRecord
    <3>1. PICK required \in BOOLEAN :
              post' = [post EXCEPT !.content = @ + 1, !.required = required]
      BY <1>0, <1>7 DEF UpdatePost, PostRecord
    <3>2. post.content + 1 \in 1 .. MaxContent
      BY <1>0, <1>7 DEF UpdatePost, PostRecord
    <3> QED  BY <1>0, <3>1, <3>2 DEF PostRecord
  <2>2. UNCHANGED <<variant, approvals, pending, rows, queue, now>>  BY <1>7 DEF UpdatePost
  <2>3. JobsFit'  BY <1>0, <2>2 DEF JobsFit
  <2> QED  BY <1>0, <1>1, <1>2, <2>1, <2>2, <2>3
<1>8. CASE ReschedulePost
  <2>1. PICK at \in Instants :
            /\ post' = [post EXCEPT !.at = at]
            /\ variant' = ApplySchedule({"DRAFT", "SCHEDULED"}, at)
    BY <1>8 DEF ReschedulePost
  <2>2. UNCHANGED <<approvals, pending, rows, queue, now>>  BY <1>8 DEF ReschedulePost
  <2>3. at \in 0 .. MaxTime  BY <1>0 DEF Instants
  <2>4. post' \in PostRecord  BY <1>0, <2>1, <2>3 DEF PostRecord
  <2>5. variant' \in [Variants -> VariantRecord] /\ JobsFit'
    BY <1>0, <2>1, <2>2, ApplyScheduleFit DEF JobsFit
  <2> QED  BY <1>0, <1>1, <1>2, <2>2, <2>4, <2>5
<1>9. ASSUME NEW vs, Retried(vs), vs \subseteq Variants, \A v \in vs : variant[v].hash # 0
      PROVE  TypeInv'
  <2>1. /\ now < MaxTime /\ now' = now + 1
        /\ variant' = [v \in Variants |->
              IF v \in vs THEN [variant[v] EXCEPT !.status = "SCHEDULED", !.at = now + 1]
              ELSE variant[v]]
        /\ Enqueue(Keys(variant')) /\ UNCHANGED <<post, approvals, pending>>
    BY <1>9 DEF Retried
  <2>2. now + 1 \in Instants /\ now + 1 \in 0 .. MaxTime
    <3>1. now \in 0 .. MaxTime /\ MaxTime \in Nat  BY <1>0
    <3>2. now < MaxTime  BY <1>9 DEF Retried
    <3> QED  BY <3>1, <3>2 DEF Instants
  <2>3. ASSUME NEW v \in Variants
        PROVE  variant'[v] \in VariantRecord /\ VariantFits(v, variant'[v], rows)
    <3>1. variant[v] \in VariantRecord /\ VariantFits(v, variant[v], rows)
      BY <1>0 DEF JobsFit
    <3>2. CASE v \in vs
      <4>1. variant'[v] = [variant[v] EXCEPT !.status = "SCHEDULED", !.at = now + 1]
        BY <2>1, <3>2
      <4>2. variant'[v] \in VariantRecord
        BY <2>2, <3>1, <4>1 DEF VariantRecord, VariantStatuses
      <4> QED  BY <1>9, <2>2, <3>1, <3>2, <4>1, <4>2 DEF VariantRecord, VariantFits
    <3>3. CASE v \notin vs  BY <2>1, <3>1, <3>3
    <3> QED  BY <3>2, <3>3
  <2>4. variant' \in [Variants -> VariantRecord]  BY <2>1, <2>3
  <2>5. rows' \subseteq JobKeys /\ queue' \subseteq rows' /\ JobsFit'
    BY <1>0, <2>1, <2>3, <2>4, EnqueueFits DEF JobsFit
  <2> QED  BY <1>0, <1>1, <1>2, <2>1, <2>2, <2>4, <2>5
<1>10. CASE RetryFailedVariants
  <2>1. \A v \in WithStatus({"FAILED"}) : v \in Variants /\ variant[v].hash # 0
    BY <1>0 DEF WithStatus, JobsFit, VariantFits
  <2> QED  BY <1>9, <1>10, <2>1 DEF RetryFailedVariants, WithStatus
<1>11. ASSUME NEW v \in Variants, RetryPublishingJob(v)
       PROVE  TypeInv'
  <2>1. variant[v].hash # 0
    BY <1>0, <1>11 DEF RetryPublishingJob, JobsFit, VariantFits
  <2> QED  BY <1>9, <1>11, <2>1 DEF RetryPublishingJob
<1>12. CASE Tick
  <2>1. UNCHANGED <<post, variant, approvals, pending, rows, queue>> /\ now' \in 0 .. MaxTime
    BY <1>0, <1>12 DEF Tick
  <2>2. JobsFit'  BY <1>0, <2>1 DEF JobsFit
  <2> QED  BY <1>0, <1>1, <1>2, <2>1, <2>2
<1>13. CASE Sweep
  <2>1. PICK due \in SUBSET Keys(variant) : Enqueue(due)  BY <1>13 DEF Sweep
  <2>2. UNCHANGED <<post, variant, approvals, pending, now>>  BY <1>13 DEF Sweep
  <2>3. rows' \subseteq JobKeys /\ queue' \subseteq rows' /\ JobsFit'
    BY <1>0, <2>1, <2>2, EnqueueFits DEF JobsFit
  <2> QED  BY <1>0, <1>1, <1>2, <2>2, <2>3
<1>14. ASSUME NEW k \in JobKeys, Claim(k)
       PROVE  TypeInv'
  <2> DEFINE v == k[1]
  <2>1. /\ k \in queue /\ queue' = queue \ {k} /\ v \in Variants
        /\ UNCHANGED <<approvals, pending, rows, now>>
    BY <1>14 DEF Claim, JobKeys
  <2>2. CASE variant[v].status = "SCHEDULED"
    <3>1. /\ variant' = [variant EXCEPT ![v].status = "PUBLISHING", ![v].job = k]
          /\ post' = [post EXCEPT !.status = IF @ = "SCHEDULED" THEN "PUBLISHING" ELSE @]
      BY <1>14, <2>2 DEF Claim
    <3>2. post' \in PostRecord  BY <1>0, <3>1 DEF PostRecord, PostStatuses
    <3>3. variant' \in [Variants -> VariantRecord]
      BY <1>0, <2>1, <3>1 DEF VariantRecord, VariantStatuses
    <3>4. JobsFit'
      BY <1>0, <2>1, <2>2, <3>1, <3>3 DEF JobsFit, VariantFits, VariantRecord
    <3> QED  BY <1>0, <1>1, <1>2, <2>1, <3>2, <3>3, <3>4
  <2>3. CASE variant[v].status # "SCHEDULED"
    <3>1. UNCHANGED <<variant, post>>  BY <1>14, <2>3 DEF Claim
    <3>2. JobsFit'  BY <1>0, <2>1, <3>1 DEF JobsFit
    <3> QED  BY <1>0, <1>1, <1>2, <2>1, <3>1, <3>2
  <2> QED  BY <2>2, <2>3
<1>15. ASSUME NEW v \in Variants, Settle(v)
       PROVE  TypeInv'
  <2>1. PICK outcome \in {"PUBLISHED", "FAILED", "NEEDS_REVIEW"} :
            variant' = [variant EXCEPT ![v].status = outcome]
    BY <1>15 DEF Settle
  <2>2. /\ variant[v].status = "PUBLISHING"
        /\ post' = [post EXCEPT !.status = RolledUp(variant')]
        /\ UNCHANGED <<approvals, pending, rows, queue, now>>
    BY <1>15 DEF Settle
  <2>3. RolledUp(variant') \in PostStatuses
    BY <1>0 DEF RolledUp, PostRecord, PostStatusFor, PostStatuses, NoStatus
  <2>4. post' \in PostRecord  BY <1>0, <2>2, <2>3 DEF PostRecord
  <2>5. variant' \in [Variants -> VariantRecord]
    BY <1>0, <2>1 DEF VariantRecord, VariantStatuses
  <2>6. JobsFit'
    BY <1>0, <2>1, <2>2, <2>5 DEF JobsFit, VariantFits, VariantRecord
  <2> QED  BY <1>0, <1>1, <1>2, <2>2, <2>4, <2>5, <2>6
<1>16. ASSUME NEW v \in Variants, Defer(v)
       PROVE  TypeInv'
  <2>1. /\ variant[v].status = "PUBLISHING"
        /\ variant' = [variant EXCEPT ![v].status = "SCHEDULED"]
        /\ queue' \in {queue, queue \cup {variant[v].job}}
        /\ UNCHANGED <<post, approvals, pending, rows, now>>
    BY <1>16 DEF Defer
  <2>2. variant[v].job \in rows  BY <1>0, <2>1 DEF JobsFit, VariantFits
  <2>3. variant' \in [Variants -> VariantRecord]
    BY <1>0, <2>1 DEF VariantRecord, VariantStatuses
  <2>4. JobsFit'
    BY <1>0, <2>1, <2>3 DEF JobsFit, VariantFits, VariantRecord
  <2> QED  BY <1>0, <1>1, <1>2, <2>1, <2>2, <2>3, <2>4
<1> QED
  BY <1>3, <1>5, <1>6, <1>7, <1>8, <1>10, <1>11, <1>12, <1>13, <1>14, <1>15, <1>16 DEF Next

\* Every variable keeps its type, for any number of people and variants,
\* whatever races.
THEOREM TypeCorrect == Spec => []TypeOK
<1>1. TypeInv => TypeOK  BY DEF TypeInv
<1> QED  BY <1>1, InitTypeInv, NextTypeInv, PTL DEF Spec

----------------------------------------------------------------------------
(* The two shapes of a step.                                               *)

\* A request as its first transaction lets it through.
Fresh(r) ==
    /\ Fits(r) /\ Allows(r)
    /\ r.kind = "decide" => /\ approvals[r.gate].state = "PENDING"
                            /\ approvals[r.gate].stage = StageForStatus(r.from)

\* No second transaction: the records stay, and only the worker moves the post.
LeavesRecords ==
    /\ UNCHANGED approvals
    /\ \/ post'.status = post.status
       \/ /\ AssertTransition(post.status, post'.status, "SYSTEM")
          /\ post.status \in {"SCHEDULED", "PUBLISHING"}
          /\ post'.status \in {"PUBLISHING", "PUBLISHED", "PARTIALLY_PUBLISHED", "FAILED"}
    /\ ~Exemptions => post'.required = post.required
    /\ \A p \in People : \/ pending'[p] = pending[p]
                         \/ pending'[p] = NoRequest
                         \/ Fresh(pending'[p]) /\ pending'[p].kind \in Racing

\* The second transaction of a request.
Commits(r) ==
    /\ Fits(r) /\ Lands(r) /\ Commit(r)
    /\ Fresh(r) \/ \E p \in People : pending[p] = r
    /\ \A p \in People : pending'[p] = pending[p] \/ pending'[p] = NoRequest

\* The worker's roll-up moves a post that is being published, and no other.
LEMMA RollUpMoves ==
    ASSUME TypeInv, NEW v \in Variants, Settle(v)
    PROVE  \/ post'.status = post.status
           \/ /\ post.status = "PUBLISHING"
              /\ AssertTransition(post.status, post'.status, "SYSTEM")
              /\ post'.status \in {"PUBLISHED", "PARTIALLY_PUBLISHED", "FAILED"}
<1> DEFINE statusOf == [x \in Variants |-> variant'[x].status]
           target == PostStatusFor(statusOf)
<1>0. post \in PostRecord /\ variant \in [Variants -> VariantRecord]
  BY DEF TypeInv, TypeOK, PostRecord, VariantRecord
<1>1. PICK outcome \in {"PUBLISHED", "FAILED", "NEEDS_REVIEW"} :
          variant' = [variant EXCEPT ![v].status = outcome]
  BY DEF Settle
<1>2. variant'[v].status = outcome  BY <1>0, <1>1 DEF VariantRecord
<1>3. outcome \in Occurring(statusOf) \ {"CANCELED"}  BY <1>2 DEF Occurring
<1>4. target \in {NoStatus, "PUBLISHED", "PARTIALLY_PUBLISHED", "FAILED"}
  BY <1>3 DEF PostStatusFor
<1>5. post'.status = IF target # NoStatus /\ AssertTransition(post.status, target, "SYSTEM")
                     THEN target ELSE post.status
  BY <1>0 DEF Settle, RolledUp, PostRecord
<1>6. AssertTransition(post.status, target, "SYSTEM") /\ target # NoStatus =>
          post.status = "PUBLISHING"
  BY <1>4 DEF AssertTransition, Transitions, HumanTransitions, SystemTransitions
<1> QED  BY <1>4, <1>5, <1>6

LEMMA StepShape ==
    ASSUME TypeInv, [Next]_vars
    PROVE  LeavesRecords \/ \E r : Commits(r)
<1>0. /\ post \in PostRecord /\ pending \in [People -> Request] /\ RequestsFit
  BY DEF TypeInv, TypeOK, PostRecord
\* The post and the requests stay.
<1>1. ASSUME UNCHANGED <<approvals, pending>>, post'.status = post.status,
             ~Exemptions => post'.required = post.required
      PROVE  LeavesRecords
  BY <1>1 DEF LeavesRecords
<1>2. CASE UNCHANGED vars  BY <1>1, <1>2 DEF vars
<1>3. ASSUME NEW p \in People,
             \/ Transition(p) \/ DecideApproval(p) \/ SchedulePost(p) \/ PublishNow(p)
             \/ UnschedulePost(p)
      PROVE  LeavesRecords \/ \E r : Commits(r)
  <2>1. PICK r : Fresh(r) /\ TransitionPost(p, r)  BY <1>3, ServicesFit DEF Fresh
  <2>2. CASE r.kind \in Racing
    <3>1. /\ pending' = [pending EXCEPT ![p] = r] /\ UNCHANGED <<post, approvals>>
      BY <2>1, <2>2 DEF TransitionPost
    <3>2. \A q \in People : pending'[q] = pending[q] \/ pending'[q] = r
      BY <1>0, <3>1
    <3> QED  BY <2>1, <2>2, <3>1, <3>2 DEF LeavesRecords
  <2>3. CASE r.kind \notin Racing
    <3>1. Lands(r) /\ Commit(r) /\ pending' = pending  BY <2>1, <2>3 DEF TransitionPost
    <3> QED  BY <2>1, <3>1 DEF Commits, Fresh
  <2> QED  BY <2>2, <2>3
<1>4. ASSUME NEW p \in People, CommitRequest(p)
      PROVE  LeavesRecords \/ \E r : Commits(r)
  <2>1. /\ Fits(pending[p])
        /\ \A q \in People : pending'[q] = pending[q] \/ pending'[q] = NoRequest
    BY <1>0, <1>4 DEF CommitRequest, RequestsFit
  <2>2. CASE Lands(pending[p])
    <3>1. Commit(pending[p])  BY <1>4, <2>2 DEF CommitRequest
    <3> QED  BY <2>1, <2>2, <3>1 DEF Commits
  <2>3. CASE ~Lands(pending[p])
    <3>1. UNCHANGED <<post, approvals>>  BY <1>4, <2>3 DEF CommitRequest
    <3> QED  BY <2>1, <3>1 DEF LeavesRecords
  <2> QED  BY <2>2, <2>3
<1>5. CASE UpdatePost
  <2>1. PICK required \in IF Exemptions THEN BOOLEAN ELSE {post.required} :
            post' = [post EXCEPT !.content = @ + 1, !.required = required]
    BY <1>5 DEF UpdatePost
  <2>2. post'.status = post.status /\ (~Exemptions => post'.required = post.required)
    BY <1>0, <2>1 DEF PostRecord
  <2> QED  BY <1>1, <1>5, <2>2 DEF UpdatePost
<1>6. CASE ReschedulePost
  <2>1. PICK at \in Instants : post' = [post EXCEPT !.at = at]  BY <1>6 DEF ReschedulePost
  <2>2. post'.status = post.status /\ post'.required = post.required
    BY <1>0, <2>1 DEF PostRecord
  <2> QED  BY <1>1, <1>6, <2>2 DEF ReschedulePost
<1>7. CASE RetryFailedVariants \/ \E v \in Variants : RetryPublishingJob(v)
  BY <1>1, <1>7 DEF RetryFailedVariants, RetryPublishingJob, Retried
<1>8. CASE Tick \/ Sweep  BY <1>1, <1>8 DEF Tick, Sweep
<1>9. ASSUME NEW k \in JobKeys, Claim(k)  PROVE  LeavesRecords
  <2>1. UNCHANGED <<approvals, pending>>  BY <1>9 DEF Claim
  <2>2. \/ post' = post
        \/ post' = [post EXCEPT !.status = IF @ = "SCHEDULED" THEN "PUBLISHING" ELSE @]
    BY <1>9 DEF Claim
  <2>3. /\ post'.required = post.required
        /\ \/ post'.status = post.status
           \/ post.status = "SCHEDULED" /\ post'.status = "PUBLISHING"
    BY <1>0, <2>2 DEF PostRecord
  <2>4. AssertTransition("SCHEDULED", "PUBLISHING", "SYSTEM")
    BY DEF AssertTransition, Transitions, SystemTransitions
  <2> QED  BY <2>1, <2>3, <2>4 DEF LeavesRecords
<1>10. ASSUME NEW v \in Variants, Settle(v)  PROVE  LeavesRecords
  <2>1. UNCHANGED <<approvals, pending>> /\ post' = [post EXCEPT !.status = RolledUp(variant')]
    BY <1>10 DEF Settle
  <2>2. post'.required = post.required  BY <1>0, <2>1 DEF PostRecord
  <2> QED  BY <1>10, <2>1, <2>2, RollUpMoves DEF LeavesRecords
<1>11. ASSUME NEW v \in Variants, Defer(v)  PROVE  LeavesRecords
  BY <1>1, <1>11 DEF Defer
<1> QED
  BY <1>2, <1>3, <1>4, <1>5, <1>6, <1>7, <1>8, <1>9, <1>10, <1>11 DEF Next

----------------------------------------------------------------------------
(* What holds however the requests race.                                   *)

\* An answer, once given, and a gate, once closed, stay as they are, even if
\* every request's two transactions are apart: the compare-and-set on PENDING
\* is enough.
THEOREM AnswersStand == Spec => DecisionsStand
<1>1. ASSUME TypeInv, [Next]_vars
      PROVE  \A i \in DOMAIN approvals :
                 approvals[i].state # "PENDING" => approvals'[i] = approvals[i]
  <2>0. DOMAIN approvals = 1 .. Len(approvals)
    BY <1>1, LenProperties DEF TypeInv, TypeOK
  <2>1. CASE LeavesRecords  BY <2>1 DEF LeavesRecords
  <2>2. ASSUME NEW r, Commits(r), NEW i \in DOMAIN approvals, approvals[i].state # "PENDING"
        PROVE  approvals'[i] = approvals[i]
    <3>1. ~(r.kind = "decide" /\ r.gate = i)  BY <2>2 DEF Commits, Lands, Stamps
    <3> QED  BY <1>1, <2>0, <2>2, <3>1, Bookkeeping DEF Commits
  <2> QED  BY <1>1, <2>1, <2>2, StepShape
<1>2. TypeInv /\ [Next]_vars =>
          [\A i \in DOMAIN approvals :
              approvals[i].state # "PENDING" => approvals'[i] = approvals[i]]_vars
  BY <1>1
<1> QED  BY <1>2, InitTypeInv, NextTypeInv, PTL DEF Spec, DecisionsStand

\* Each internal review is a round of its own and the client's review belongs
\* to the round before it, whatever races.
THEOREM RoundsDoAdvance == Spec => []RoundsAdvance
<1>1. TypeInv => RoundsAdvance  BY DEF TypeInv, RoundsOrdered, RoundsAdvance
<1> QED  BY <1>1, InitTypeInv, NextTypeInv, PTL DEF Spec

----------------------------------------------------------------------------
(* What holds as long as only review decisions race.                       *)

\* One gate is open while the post is in a review, that review's, and none
\* otherwise.
OneGate ==
    /\ \A i \in OpenGates(approvals) : approvals[i].stage = StageForStatus(post.status)
    /\ \A i, j \in OpenGates(approvals) : i = j
    /\ StageForStatus(post.status) # "none" => OpenGates(approvals) # {}

\* A request that is under way answers a gate of the review it was checked in.
DecisionsAim ==
    \A p \in People :
        pending[p] # NoRequest =>
            /\ pending[p].kind = "decide"
            /\ approvals[pending[p].gate].stage = StageForStatus(pending[p].from)

GateInv == TypeInv /\ OneGate /\ DecisionsAim

LEMMA RecordStages ==
    ASSUME TypeInv
    PROVE  /\ approvals \in Seq(Records) /\ Len(approvals) \in Nat
           /\ DOMAIN approvals = 1 .. Len(approvals)
           /\ \A i \in DOMAIN approvals : approvals[i].stage \in Stages
<1>1. approvals \in Seq(Records)  BY DEF TypeInv, TypeOK, Records
<1>2. /\ Len(approvals) \in Nat /\ DOMAIN approvals = 1 .. Len(approvals)
      /\ approvals \in [1 .. Len(approvals) -> Records]
  BY <1>1, LenProperties
<1> QED  BY <1>1, <1>2 DEF Records

\* A late decision finds its gate closed; one that finds it open is not late.
LEMMA OnTime ==
    ASSUME GateInv, NEW r, Commits(r)
    PROVE  /\ r.from = post.status /\ r.from # r.to
           /\ <<post.status, r.to>> \in HumanTransitions
<1>1. r.from = post.status
  <2>1. CASE Fresh(r)  BY <2>1 DEF Fresh, Allows
  <2>2. ASSUME NEW p \in People, pending[p] = r  PROVE  r.from = post.status
    <3>1. r # NoRequest  BY DEF Commits, Fits, NoRequest, Kinds
    <3>2. /\ r.kind = "decide" /\ approvals[r.gate].stage = StageForStatus(r.from)
      BY <2>2, <3>1 DEF GateInv, DecisionsAim
    <3>3. r.gate \in DOMAIN approvals /\ approvals[r.gate].state = "PENDING"
      BY <3>2 DEF Commits, Fits, Lands, Stamps
    <3>4. approvals[r.gate].stage = StageForStatus(post.status)
      BY <3>3 DEF GateInv, OneGate, OpenGates
    <3>5. approvals[r.gate].stage \in Stages  BY <3>3, RecordStages DEF GateInv
    <3> QED  BY <3>2, <3>4, <3>5 DEF StageForStatus, Stages
  <2> QED  BY <2>1, <2>2 DEF Commits
<1>2. <<r.from, r.to>> \in HumanTransitions
  BY DEF Commits, Fits, AssertTransition, Transitions
<1>3. r.from # r.to  BY <1>2 DEF HumanTransitions
<1> QED  BY <1>1, <1>2, <1>3

\* What a request that lands does to the stages and the states of the records.
LEMMA CommitRecords ==
    ASSUME TypeInv, NEW r, Commits(r)
    PROVE  /\ Len(approvals) \in Nat /\ Len(approvals') \in Nat
           /\ DOMAIN approvals = 1 .. Len(approvals)
           /\ DOMAIN approvals' = 1 .. Len(approvals')
           /\ Len(approvals') = IF StageForStatus(r.to) = "none" THEN Len(approvals)
                                ELSE Len(approvals) + 1
           /\ \A i \in 1 .. Len(approvals) : approvals'[i].stage = approvals[i].stage
           /\ \A i \in 1 .. Len(approvals) :
                 (~ClosesGates(r.from, r.to) /\ ~(r.kind = "decide" /\ r.gate = i)) =>
                     approvals'[i] = approvals[i]
           /\ \A i \in 1 .. Len(approvals) :
                 (ClosesGates(r.from, r.to) \/ (r.kind = "decide" /\ r.gate = i)) =>
                     approvals'[i].state # "PENDING"
           /\ StageForStatus(r.to) # "none" =>
                 /\ approvals'[Len(approvals) + 1].stage = StageForStatus(r.to)
                 /\ approvals'[Len(approvals) + 1].state = "PENDING"
<1>1. Fits(r) /\ Commit(r)  BY DEF Commits
<1>2. approvals' \in Seq(Records)  BY <1>1, Bookkeeping
<1>3. Len(approvals') \in Nat /\ DOMAIN approvals' = 1 .. Len(approvals')
  BY <1>2, LenProperties
<1>4. Len(approvals') = IF StageForStatus(r.to) = "none" THEN Len(approvals)
                        ELSE Len(approvals) + 1
  BY <1>1, Bookkeeping
<1>5. ASSUME NEW i \in 1 .. Len(approvals)
      PROVE  /\ approvals'[i].stage = approvals[i].stage
             /\ (~ClosesGates(r.from, r.to) /\ ~(r.kind = "decide" /\ r.gate = i)) =>
                    approvals'[i] = approvals[i]
             /\ (ClosesGates(r.from, r.to) \/ (r.kind = "decide" /\ r.gate = i)) =>
                    approvals'[i].state # "PENDING"
  BY <1>1, Bookkeeping
<1>6. ASSUME StageForStatus(r.to) # "none"
      PROVE  /\ approvals'[Len(approvals) + 1].stage = StageForStatus(r.to)
             /\ approvals'[Len(approvals) + 1].state = "PENDING"
  <2>1. approvals'[Len(approvals) + 1] =
            [stage |-> StageForStatus(r.to), state |-> "PENDING",
             round |-> Round(StageForStatus(r.to))]
    BY <1>1, <1>6, Bookkeeping
  <2> QED  BY <2>1
<1> QED  BY <1>3, <1>4, <1>5, <1>6, RecordStages

\* So the gates that were open are closed, and the one of the review the post
\* enters is opened.
LEMMA GatesAfterCommit ==
    ASSUME GateInv, NEW r, Commits(r)
    PROVE  OneGate'
<1> DEFINE n == Len(approvals)
<1>0. /\ n \in Nat /\ DOMAIN approvals = 1 .. n
      /\ \A i \in 1 .. n : approvals[i].stage \in Stages
  BY RecordStages DEF GateInv
<1>1. /\ DOMAIN approvals' = 1 .. Len(approvals')
      /\ Len(approvals') = IF StageForStatus(r.to) = "none" THEN n ELSE n + 1
      /\ \A i \in 1 .. n :
            (~ClosesGates(r.from, r.to) /\ ~(r.kind = "decide" /\ r.gate = i)) =>
                approvals'[i] = approvals[i]
      /\ \A i \in 1 .. n :
            (ClosesGates(r.from, r.to) \/ (r.kind = "decide" /\ r.gate = i)) =>
                approvals'[i].state # "PENDING"
      /\ StageForStatus(r.to) # "none" =>
            /\ approvals'[n + 1].stage = StageForStatus(r.to)
            /\ approvals'[n + 1].state = "PENDING"
  BY CommitRecords DEF GateInv
<1>2. r.from = post.status /\ r.from # r.to  BY OnTime
<1>3. \A i \in 1 .. n : approvals'[i].state # "PENDING"
  <2>1. CASE ClosesGates(r.from, r.to)  BY <1>1, <2>1
  <2>2. CASE ~ClosesGates(r.from, r.to)
    <3>1. StageForStatus(post.status) = "none"  BY <1>2, <2>2 DEF ClosesGates
    <3>2. \A i \in 1 .. n : approvals[i].state # "PENDING"
      BY <1>0, <3>1 DEF GateInv, OneGate, OpenGates, Stages
    <3> QED  BY <1>1, <2>2, <3>2
  <2> QED  BY <2>1, <2>2
<1>4. DOMAIN approvals' = 1 .. Len(approvals')  BY <1>1
<1>5. post'.status = r.to
  BY DEF Commits, Commit, GateInv, TypeInv, TypeOK
<1>6. OpenGates(approvals') = {i \in DOMAIN approvals' : approvals'[i].state = "PENDING"}
  BY DEF OpenGates
<1>7. CASE StageForStatus(r.to) = "none"
  <2>1. OpenGates(approvals') = {}  BY <1>1, <1>3, <1>4, <1>6, <1>7
  <2> QED  BY <1>5, <1>7, <2>1 DEF OneGate
<1>8. CASE StageForStatus(r.to) # "none"
  <2>1. OpenGates(approvals') = {n + 1}  BY <1>0, <1>1, <1>3, <1>4, <1>6, <1>8
  <2> QED  BY <1>1, <1>5, <1>8, <2>1 DEF OneGate
<1> QED  BY <1>7, <1>8

LEMMA InitGateInv == Init => GateInv
<1> SUFFICES ASSUME Init PROVE GateInv
  OBVIOUS
<1>1. TypeInv  BY InitTypeInv
<1>2. OpenGates(approvals) = {}  BY DEF Init, OpenGates
<1>3. post.status = "DRAFT" /\ \A p \in People : pending[p] = NoRequest  BY DEF Init
<1> QED  BY <1>1, <1>2, <1>3 DEF GateInv, OneGate, DecisionsAim, StageForStatus

LEMMA NextGateInv ==
    ASSUME Racing \subseteq {"decide"}  PROVE  GateInv /\ [Next]_vars => GateInv'
<1> SUFFICES ASSUME GateInv, [Next]_vars PROVE GateInv'
  OBVIOUS
<1>0. TypeInv /\ TypeInv'  BY NextTypeInv DEF GateInv
<1>1. CASE LeavesRecords
  <2>1. UNCHANGED approvals  BY <1>1 DEF LeavesRecords
  <2>2. StageForStatus(post'.status) = StageForStatus(post.status)
    BY <1>1 DEF LeavesRecords, StageForStatus
  <2>3. OneGate'  BY <2>1, <2>2 DEF GateInv, OneGate, OpenGates
  <2>4. DecisionsAim'
    <3> SUFFICES ASSUME NEW p \in People, pending'[p] # NoRequest
                 PROVE  /\ pending'[p].kind = "decide"
                        /\ approvals[pending'[p].gate].stage = StageForStatus(pending'[p].from)
      BY <2>1 DEF DecisionsAim
    <3>1. CASE pending'[p] = pending[p]  BY <3>1 DEF GateInv, DecisionsAim
    <3>2. CASE Fresh(pending'[p]) /\ pending'[p].kind \in Racing
      BY <3>2 DEF Fresh
    <3> QED  BY <1>1, <3>1, <3>2 DEF LeavesRecords
  <2> QED  BY <1>0, <2>3, <2>4 DEF GateInv
<1>2. ASSUME NEW r, Commits(r)  PROVE  GateInv'
  <2>1. \A i \in DOMAIN approvals : approvals'[i].stage = approvals[i].stage
    BY <1>0, <1>2, Bookkeeping, RecordStages DEF Commits
  <2>2. DecisionsAim'
    <3> SUFFICES ASSUME NEW p \in People, pending'[p] # NoRequest
                 PROVE  /\ pending'[p].kind = "decide"
                        /\ approvals'[pending'[p].gate].stage = StageForStatus(pending'[p].from)
      BY DEF DecisionsAim
    <3>1. pending'[p] = pending[p]  BY <1>2 DEF Commits
    <3>2. /\ pending[p].kind = "decide"
          /\ approvals[pending[p].gate].stage = StageForStatus(pending[p].from)
      BY <3>1 DEF GateInv, DecisionsAim
    <3>3. pending[p].gate \in DOMAIN approvals
      BY <1>0, <3>1, <3>2 DEF TypeInv, RequestsFit, Fits
    <3> QED  BY <2>1, <3>1, <3>2, <3>3
  <2> QED  BY <1>0, <1>2, <2>2, GatesAfterCommit DEF GateInv
<1> QED  BY <1>0, <1>1, <1>2, StepShape

\* What the approval queue shows is the review the post is in.
LEMMA GateShown == OneGate => OpenGate = StageForStatus(post.status)
<1> SUFFICES ASSUME OneGate  PROVE  OpenGate = StageForStatus(post.status)
  OBVIOUS
<1>1. CASE OpenGates(approvals) = {}  BY <1>1 DEF OneGate, OpenGate
<1>2. CASE OpenGates(approvals) # {}
  <2>1. PICK i : OpenGates(approvals) = {i}  BY <1>2 DEF OneGate
  <2>2. ~(Cardinality(OpenGates(approvals)) > 1)
    <3>1. Cardinality({i}) = 1  BY FS_Singleton
    <3>2. Cardinality(OpenGates(approvals)) = 1  BY <2>1, <3>1
    <3> QED  BY <3>2
  <2>3. (CHOOSE j \in OpenGates(approvals) : TRUE) = i  BY <2>1
  <2>4. OpenGate = IF OpenGates(approvals) = {} THEN "none"
                   ELSE IF Cardinality(OpenGates(approvals)) > 1 THEN "many"
                   ELSE approvals[CHOOSE j \in OpenGates(approvals) : TRUE].stage
    BY DEF OpenGate
  <2>5. OpenGate = approvals[i].stage  BY <1>2, <2>2, <2>3, <2>4
  <2> QED  BY <2>1, <2>5 DEF OneGate
<1> QED  BY <1>1, <1>2

LEMMA SameTable ==
    /\ Machine!PostStatuses = PostStatuses
    /\ \A from, to, actor :
          Machine!AssertTransition(from, to, actor) <=> AssertTransition(from, to, actor)
    /\ \A s : Machine!StageForStatus(s) = StageForStatus(s)
BY DEF Machine!PostStatuses, PostStatuses, Machine!AssertTransition, AssertTransition,
       Machine!Transitions, Transitions, Machine!HumanTransitions, HumanTransitions,
       Machine!SystemTransitions, SystemTransitions,
       Machine!StageForStatus, StageForStatus

\* As long as only review decisions race, the post moves along the transition
\* table and its gate is that of the review it is in: a decision whose review
\* has ended meanwhile is rolled back with the move it asked for.
THEOREM LifecycleImplementsMachine ==
    ASSUME Racing \subseteq {"decide"}  PROVE  Spec => ImplementsMachine
<1>1. Init => Machine!Init
  <2> SUFFICES ASSUME Init PROVE Machine!Init
    OBVIOUS
  <2>1. post.status = "DRAFT"  BY DEF Init
  <2>2. OpenGate = StageForStatus("DRAFT")  BY <2>1, InitGateInv, GateShown DEF GateInv
  <2> QED  BY <2>1, <2>2 DEF Machine!Init, StageForStatus
<1>2. GateInv /\ GateInv' /\ [Next]_vars => [Machine!Move]_<<post.status, OpenGate>>
  <2> SUFFICES ASSUME GateInv, GateInv', [Next]_vars
               PROVE  [Machine!Move]_<<post.status, OpenGate>>
    OBVIOUS
  <2>1. OpenGate = StageForStatus(post.status)  BY GateShown DEF GateInv
  <2>2. OpenGate' = StageForStatus(post'.status)
    <3>1. OneGate'  BY DEF GateInv
    <3>2. OneGate' => (OpenGate = StageForStatus(post.status))'  BY GateShown, PTL
    <3> QED  BY <3>1, <3>2
  <2>3. post'.status \in PostStatuses  BY DEF GateInv, TypeInv, TypeOK
  <2>4. CASE post'.status = post.status  BY <2>1, <2>2, <2>4
  <2>5. CASE AssertTransition(post.status, post'.status, "SYSTEM")
    <3>1. /\ AssertTransition(post.status, post'.status, "HUMAN")
             \/ AssertTransition(post.status, post'.status, "SYSTEM")
          /\ post'.status = post'.status
      BY <2>5
    <3> QED  BY <2>2, <2>3, <3>1, SameTable, Zenon DEF Machine!Move
  <2>6. ASSUME NEW r, Commits(r)
        PROVE  AssertTransition(post.status, post'.status, "SYSTEM")
    <3>1. post'.status = r.to  BY <2>6 DEF Commits, Commit, GateInv, TypeInv, TypeOK
    <3>2. <<post.status, r.to>> \in HumanTransitions  BY <2>6, OnTime
    <3> QED  BY <3>1, <3>2 DEF AssertTransition, Transitions
  <2> QED  BY <2>4, <2>5, <2>6, StepShape DEF GateInv, LeavesRecords
<1> QED  BY <1>1, <1>2, InitGateInv, NextGateInv, PTL DEF Spec, ImplementsMachine, Machine!Spec

----------------------------------------------------------------------------
(* The client's gate.                                                      *)

ClientLast ==
    \E i \in DOMAIN approvals :
        /\ approvals[i].stage = "CLIENT"
        /\ \A j \in DOMAIN approvals : approvals[j].stage = "INTERNAL" => j < i

BeforeClient ==
    {"IDEA", "DRAFT", "INTERNAL_REVIEW", "CHANGES_REQUESTED", "CANCELED"}

\* Inductive: past the client's review, the client's gate is the later one; and
\* no request under way goes round it.
ClientInv ==
    /\ GateInv
    /\ (post.required /\ post.status \notin BeforeClient) => ClientLast
    /\ \A p \in People :
          (pending[p] # NoRequest /\ post.required) =>
              ~(pending[p].from = "INTERNAL_REVIEW" /\ pending[p].to = "APPROVED")

LEMMA ClientLastStays ==
    ASSUME TypeInv, NEW r, Commits(r), ClientLast, r.to # "INTERNAL_REVIEW"
    PROVE  ClientLast'
<1> DEFINE n == Len(approvals)
<1>0. n \in Nat /\ DOMAIN approvals = 1 .. n  BY RecordStages
<1>1. /\ DOMAIN approvals' = 1 .. Len(approvals')
      /\ Len(approvals') = IF StageForStatus(r.to) = "none" THEN n ELSE n + 1
      /\ \A i \in 1 .. n : approvals'[i].stage = approvals[i].stage
      /\ StageForStatus(r.to) # "none" => approvals'[n + 1].stage = StageForStatus(r.to)
  BY CommitRecords
<1>2. DOMAIN approvals' = 1 .. Len(approvals')  BY <1>1
<1>3. PICK i \in 1 .. n : /\ approvals[i].stage = "CLIENT"
                          /\ \A j \in 1 .. n : approvals[j].stage = "INTERNAL" => j < i
  BY <1>0 DEF ClientLast
<1>4. StageForStatus(r.to) # "INTERNAL"  BY DEF StageForStatus
<1>5. i \in DOMAIN approvals' /\ approvals'[i].stage = "CLIENT"
  BY <1>0, <1>1, <1>2, <1>3
<1>6. ASSUME NEW j \in DOMAIN approvals', approvals'[j].stage = "INTERNAL"  PROVE  j < i
  <2>1. j \in 1 .. n  BY <1>0, <1>1, <1>2, <1>4, <1>6
  <2> QED  BY <1>1, <1>3, <1>6, <2>1
<1> QED  BY <1>5, <1>6 DEF ClientLast

LEMMA ClientLastEntered ==
    ASSUME TypeInv, NEW r, Commits(r), r.to = "CLIENT_REVIEW"
    PROVE  ClientLast'
<1> DEFINE n == Len(approvals)
<1>0. n \in Nat /\ DOMAIN approvals = 1 .. n  BY RecordStages
<1>1. StageForStatus(r.to) = "CLIENT"  BY DEF StageForStatus
<1>2. Len(approvals') = n + 1 /\ approvals'[n + 1].stage = "CLIENT"
  BY <1>1, CommitRecords
<1>3. DOMAIN approvals' = 1 .. n + 1  BY <1>2, CommitRecords
<1>4. ASSUME NEW j \in DOMAIN approvals', approvals'[j].stage = "INTERNAL"  PROVE  j < n + 1
  BY <1>0, <1>2, <1>3, <1>4
<1> QED  BY <1>0, <1>2, <1>3, <1>4 DEF ClientLast

LEMMA NextClientInv ==
    ASSUME Racing \subseteq {"decide"}, Exemptions = FALSE
    PROVE  ClientInv /\ [Next]_vars => ClientInv'
<1> SUFFICES ASSUME ClientInv, [Next]_vars PROVE ClientInv'
  OBVIOUS
<1>0. GateInv /\ GateInv' /\ TypeInv  BY NextGateInv DEF ClientInv, GateInv
<1>1. CASE LeavesRecords
  <2>1. UNCHANGED approvals /\ post'.required = post.required
    BY <1>1 DEF LeavesRecords
  <2>2. post'.status \notin BeforeClient => post.status \notin BeforeClient
    BY <1>1 DEF LeavesRecords, BeforeClient
  <2>3. (post'.required /\ post'.status \notin BeforeClient) => ClientLast'
    BY <2>1, <2>2 DEF ClientInv, ClientLast
  <2>4. ASSUME NEW p \in People, pending'[p] # NoRequest, post'.required
        PROVE  ~(pending'[p].from = "INTERNAL_REVIEW" /\ pending'[p].to = "APPROVED")
    <3>1. CASE pending'[p] = pending[p]  BY <2>1, <2>4, <3>1 DEF ClientInv
    <3>2. CASE Fresh(pending'[p])  BY <2>1, <2>4, <3>2 DEF Fresh, Allows
    <3> QED  BY <1>1, <2>4, <3>1, <3>2 DEF LeavesRecords
  <2> QED  BY <1>0, <2>3, <2>4 DEF ClientInv
<1>2. ASSUME NEW r, Commits(r)  PROVE  ClientInv'
  <2>1. post'.required = post.required /\ post'.status = r.to
    BY <1>0, <1>2 DEF Commits, Commit, TypeInv, TypeOK
  <2>2. <<post.status, r.to>> \in HumanTransitions /\ r.from = post.status
    BY <1>0, <1>2, OnTime
  <2>3. r.from = "INTERNAL_REVIEW" /\ r.to = "APPROVED" => ~post.required
    <3>1. CASE Fresh(r)  BY <3>1 DEF Fresh, Allows
    <3>2. ASSUME NEW p \in People, pending[p] = r
          PROVE  r.from = "INTERNAL_REVIEW" /\ r.to = "APPROVED" => ~post.required
      <4>1. r # NoRequest  BY <1>2 DEF Commits, Fits, NoRequest, Kinds
      <4> QED  BY <3>2, <4>1 DEF ClientInv
    <3> QED  BY <1>2, <3>1, <3>2 DEF Commits
  <2>4. ASSUME post'.required, post'.status \notin BeforeClient  PROVE  ClientLast'
    <3>1. CASE r.to = "CLIENT_REVIEW"  BY <1>0, <1>2, <3>1, ClientLastEntered
    <3>2. CASE r.to # "CLIENT_REVIEW"
      <4>1. post.status \notin BeforeClient /\ r.to # "INTERNAL_REVIEW"
        BY <2>1, <2>2, <2>3, <2>4, <3>2 DEF HumanTransitions, BeforeClient
      <4>2. ClientLast  BY <2>1, <2>4, <4>1 DEF ClientInv
      <4> QED  BY <1>0, <1>2, <4>1, <4>2, ClientLastStays
    <3> QED  BY <3>1, <3>2
  <2>5. ASSUME NEW p \in People, pending'[p] # NoRequest, post'.required
        PROVE  ~(pending'[p].from = "INTERNAL_REVIEW" /\ pending'[p].to = "APPROVED")
    <3>1. pending'[p] = pending[p]  BY <1>2, <2>5 DEF Commits
    <3> QED  BY <2>1, <2>5, <3>1 DEF ClientInv
  <2> QED  BY <1>0, <2>4, <2>5 DEF ClientInv
<1> QED  BY <1>0, <1>1, <1>2, StepShape

\* What a client must approve has been put before the client since the last
\* internal review began, as long as only decisions race and nobody changes
\* meanwhile whether the client must approve.
THEOREM ClientAlwaysSawIt ==
    ASSUME Racing \subseteq {"decide"}, Exemptions = FALSE
    PROVE  Spec => []ClientSawIt
<1>1. Init => ClientInv
  <2> SUFFICES ASSUME Init PROVE ClientInv
    OBVIOUS
  <2>1. post.status = "DRAFT" /\ \A p \in People : pending[p] = NoRequest  BY DEF Init
  <2> QED  BY <2>1, InitGateInv DEF ClientInv, BeforeClient
<1>2. ClientInv => ClientSawIt
  BY DEF ClientInv, ClientLast, ClientSawIt, BeforeClient
<1> QED  BY <1>1, <1>2, NextClientInv, PTL DEF Spec
=============================================================================
