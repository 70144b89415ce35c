----------------------------- MODULE PostMachine -----------------------------
(***************************************************************************)
(* What the rest of the system is promised about a post: it moves along    *)
(* the transition table only, and a review gate is open exactly while the  *)
(* post is in the review that gate belongs to.                             *)
(***************************************************************************)
EXTENDS PostStatus

VARIABLES
    status,     \* Post.status
    gate        \* the stage of the approval that waits for an answer

Init == status = "DRAFT" /\ gate = "none"

Move ==
    /\ \E to \in PostStatuses :
          (AssertTransition(status, to, "HUMAN") \/ AssertTransition(status, to, "SYSTEM"))
             /\ status' = to
    /\ gate' = StageForStatus(status')

Spec == Init /\ [][Move]_<<status, gate>>
=============================================================================
