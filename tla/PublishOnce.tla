----------------------------- MODULE PublishOnce -----------------------------
(***************************************************************************)
(* What the publishing engine promises of a variant, to those who never    *)
(* see its claims, its ledger, its locks and its workers: that the         *)
(* platform gets one post of it, and that its status says so.              *)
(***************************************************************************)
EXTENDS PostStatus

CONSTANT Variants

VARIABLES
    status,     \* PostVariant.status
    posts       \* how many posts of each variant the platform has

Init ==
    /\ status = [v \in Variants |-> "SCHEDULED"]
    /\ posts = [v \in Variants |-> 0]

Becomes(v, to) == status' = [status EXCEPT ![v] = to] /\ UNCHANGED posts

\* A status may claim that there is a post, that there is none, or neither.
True(v, to) ==
    /\ to = "PUBLISHED" => posts[v] = 1
    /\ to = "FAILED" => posts[v] = 0

Claim(v) == status[v] = "SCHEDULED" /\ Becomes(v, "PUBLISHING")

Post(v) ==
    /\ status[v] = "PUBLISHING" /\ posts[v] = 0
    /\ posts' = [posts EXCEPT ![v] = 1]
    /\ UNCHANGED status

GiveBack(v) == status[v] = "PUBLISHING" /\ Becomes(v, "SCHEDULED")

Settle(v) ==
    /\ status[v] = "PUBLISHING"
    /\ \E to \in {"PUBLISHED", "FAILED", "NEEDS_REVIEW"} : True(v, to) /\ Becomes(v, to)

\* A person sends some of the variants out again.
Again(vs) ==
    /\ \A v \in vs : status[v] \notin {"PUBLISHING", "PUBLISHED", "NEEDS_REVIEW"}
    /\ status' = [v \in Variants |-> IF v \in vs THEN "SCHEDULED" ELSE status[v]]
    /\ UNCHANGED posts

\* A person who has looked says what became of a parked variant.
Answer(v) ==
    /\ status[v] = "NEEDS_REVIEW"
    /\ Becomes(v, IF posts[v] = 1 THEN "PUBLISHED" ELSE "SCHEDULED")

Next ==
    \/ \E v \in Variants : Claim(v) \/ Post(v) \/ GiveBack(v) \/ Settle(v) \/ Answer(v)
    \/ \E vs \in SUBSET Variants : Again(vs)

Spec == Init /\ [][Next]_<<status, posts>>
=============================================================================
