----------------------------- MODULE PostStatus -----------------------------
(***************************************************************************)
(* The pure rules of packages/core that every writer of a status shares:   *)
(* the transition table of a post (post-status.ts), the review gates       *)
(* (approvals.ts), and the roll-up of its variants' outcomes into the      *)
(* post's own status (publishing.ts).                                      *)
(***************************************************************************)
EXTENDS Naturals, FiniteSets

PostStatuses ==
    {"IDEA", "DRAFT", "INTERNAL_REVIEW", "CLIENT_REVIEW", "CHANGES_REQUESTED",
     "APPROVED", "SCHEDULED", "PUBLISHING", "PUBLISHED",
     "PARTIALLY_PUBLISHED", "FAILED", "CANCELED"}

VariantStatuses ==
    {"DRAFT", "SCHEDULED", "PUBLISHING", "PUBLISHED", "FAILED",
     "NEEDS_REVIEW", "CANCELED"}

\* The moves a person may ask for, cancellation included.
HumanTransitions ==
    {<<"IDEA", "DRAFT">>,
     <<"DRAFT", "INTERNAL_REVIEW">>,
     <<"INTERNAL_REVIEW", "CHANGES_REQUESTED">>,
     <<"INTERNAL_REVIEW", "CLIENT_REVIEW">>,
     <<"INTERNAL_REVIEW", "APPROVED">>,
     <<"CLIENT_REVIEW", "CHANGES_REQUESTED">>,
     <<"CLIENT_REVIEW", "APPROVED">>,
     <<"CHANGES_REQUESTED", "DRAFT">>,
     <<"APPROVED", "SCHEDULED">>,
     <<"APPROVED", "DRAFT">>,
     <<"SCHEDULED", "DRAFT">>,
     <<"FAILED", "SCHEDULED">>,
     <<"PARTIALLY_PUBLISHED", "SCHEDULED">>}
    \cup {<<from, "CANCELED">> :
            from \in PostStatuses \ {"PUBLISHING", "PUBLISHED", "CANCELED"}}

\* The moves only the publish worker makes.
SystemTransitions ==
    {<<"SCHEDULED", "PUBLISHING">>,
     <<"PUBLISHING", "PUBLISHED">>,
     <<"PUBLISHING", "PARTIALLY_PUBLISHED">>,
     <<"PUBLISHING", "FAILED">>}

Transitions == HumanTransitions \cup SystemTransitions

\* Moving along one of these voids the approvals already granted.
VoidsApprovals(from, to) ==
    <<from, to>> \in {<<"APPROVED", "DRAFT">>, <<"SCHEDULED", "DRAFT">>}

\* assertTransition: does it return a rule for this actor, or throw?
AssertTransition(from, to, actor) ==
    /\ <<from, to>> \in Transitions
    /\ <<from, to>> \in SystemTransitions => actor = "SYSTEM"

\* The review a status belongs to.
StageForStatus(status) ==
    CASE status = "INTERNAL_REVIEW" -> "INTERNAL"
      [] status = "CLIENT_REVIEW"   -> "CLIENT"
      [] OTHER                      -> "none"

\* Where a reviewer's decision sends the post.
StatusAfterDecision(stage, decision, clientApprovalRequired) ==
    CASE decision = "CHANGES_REQUESTED"                   -> "CHANGES_REQUESTED"
      [] stage = "INTERNAL" /\ clientApprovalRequired     -> "CLIENT_REVIEW"
      [] OTHER                                            -> "APPROVED"

\* Content is frozen in these.
EditLocked(status) ==
    status \in {"APPROVED", "SCHEDULED", "PUBLISHING", "PUBLISHED",
                "PARTIALLY_PUBLISHED", "CANCELED"}

\* A retry touches these; scheduling or publishing touches these and DRAFT.
RetryableVariantStatuses == {"FAILED"}
PublishableVariantStatuses == {"DRAFT", "SCHEDULED"} \cup RetryableVariantStatuses

(***************************************************************************)
(* summariseVariants counts, but postStatusFor only compares the counts    *)
(* with zero and with the total, so the roll-up is a statement about which *)
(* statuses occur.  A cancelled variant is left out of the total.          *)
(***************************************************************************)
Occurring(statusOf) == {statusOf[v] : v \in DOMAIN statusOf}

Pending(status) == status \in {"DRAFT", "SCHEDULED", "PUBLISHING"}

NoStatus == "null"

\* Mutants: a variant still on its way does not hold the post back; one that
\* waits for a person does.
PostStatusForHasty(statusOf) ==
    LET counted == Occurring(statusOf) \ {"CANCELED"}
    IN  CASE counted = {}            -> "CANCELED"
          [] counted = {"PUBLISHED"} -> "PUBLISHED"
          [] counted = {"FAILED"}    -> "FAILED"
          [] OTHER                   -> "PARTIALLY_PUBLISHED"

PostStatusForParked(statusOf) ==
    IF \E s \in Occurring(statusOf) : Pending(s) \/ s = "NEEDS_REVIEW"
    THEN NoStatus
    ELSE PostStatusForHasty(statusOf)

\* summariseVariants followed by postStatusFor, over [variant |-> status].
PostStatusFor(statusOf) ==
    LET counted == Occurring(statusOf) \ {"CANCELED"}
    IN  CASE \E s \in counted : Pending(s)               -> NoStatus
          [] counted = {}                                -> "CANCELED"
          [] counted = {"PUBLISHED"}                     -> "PUBLISHED"
          [] counted = {"FAILED"}                        -> "FAILED"
          [] OTHER                                       -> "PARTIALLY_PUBLISHED"
=============================================================================
