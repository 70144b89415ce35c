----------------------------- MODULE RateLimit -----------------------------
(***************************************************************************)
(* The token bucket of packages/queue: the script Redis runs for           *)
(* takeToken. Refill and take are one step; what varies is the clock, for  *)
(* `now` is the caller's own, and callers run in several processes.        *)
(* Tokens are counted in parts of 1/RefillWindow, so that a millisecond    *)
(* refills Capacity of them and a call costs RefillWindow.                 *)
(***************************************************************************)
EXTENDS Integers

CONSTANTS
    Capacity,       \* calls a full bucket holds
    RefillWindow,   \* ms an empty bucket takes to refill
    BucketTtl,      \* ms after which Redis drops an idle bucket
    MaxSkew,        \* ms the callers' clocks run ahead of Redis' at most
    MaxClock        \* bound: ms that pass

\* ttlMs is at least two windows; clocks agree within one.
ASSUME RateAssumption ==
    /\ Capacity \in Nat \ {0} /\ RefillWindow \in Nat \ {0}
    /\ BucketTtl \in Nat /\ BucketTtl >= 2 * RefillWindow
    /\ MaxSkew \in Nat /\ MaxSkew <= RefillWindow
    /\ MaxClock \in Nat

VARIABLES
    redisTime,
    bucket,     \* the hash: its tokens, updatedAt, and when Redis drops it
    taken,      \* for the properties: calls allowed so far
    rewound,    \* ... ms that updatedAt was put back by a slower clock
    promised    \* ... when the last refusal said a call would succeed, or -1

rateVars == <<redisTime, bucket, taken, rewound, promised>>

FullBucket == Capacity * RefillWindow
Lesser(x, y) == IF x <= y THEN x ELSE y
Positive(x) == IF x > 0 THEN x ELSE 0

RateInit ==
    /\ redisTime = 0
    /\ bucket = [tokens |-> FullBucket, updatedAt |-> 0, dropped |-> 0]
    /\ taken = 0 /\ rewound = 0 /\ promised = 0 - 1

----------------------------------------------------------------------------
\* A key that has expired reads as nil, and counts as full.
Held == redisTime < bucket.dropped

Refills(tokens, elapsed) ==
    Lesser(FullBucket, tokens + Positive(elapsed) * Capacity)

Refilled(now) ==
    IF Held THEN Refills(bucket.tokens, now - bucket.updatedAt) ELSE FullBucket

WaitMs(deficit) == (deficit + Capacity - 1) \div Capacity

\* Mutant: a refusal stores what was refilled, and not when.
StampsIfTaken(now, took) ==
    IF took \/ ~Held THEN now ELSE bucket.updatedAt
Stamps(now, took) == now

Stores(tokens, now, took) ==
    /\ bucket' = [tokens |-> tokens, updatedAt |-> Stamps(now, took),
                  dropped |-> redisTime + BucketTtl]
    /\ rewound' = IF Held THEN rewound + Positive(bucket.updatedAt - now) ELSE rewound
    /\ UNCHANGED redisTime

Allow(now) ==
    /\ Refilled(now) >= RefillWindow
    /\ Stores(Refilled(now) - RefillWindow, now, TRUE)
    /\ taken' = taken + 1 /\ promised' = 0 - 1

Refuse(now) ==
    /\ Refilled(now) < RefillWindow
    /\ Stores(Refilled(now), now, FALSE)
    /\ promised' = now + WaitMs(RefillWindow - Refilled(now))
    /\ UNCHANGED taken

TakeToken == \E ahead \in 0 .. MaxSkew : Allow(redisTime + ahead) \/ Refuse(redisTime + ahead)

Tick ==
    /\ redisTime < MaxClock /\ redisTime' = redisTime + 1
    /\ UNCHANGED <<bucket, taken, rewound, promised>>

RateNext == TakeToken \/ Tick
RateSpec == RateInit /\ [][RateNext]_rateVars

----------------------------------------------------------------------------
(* Properties.                                                             *)

\* A bucket is never overdrawn, and never holds more than its burst.
RateTypeOK ==
    /\ redisTime \in Nat /\ taken \in Nat /\ rewound \in Nat
    /\ bucket.tokens \in 0 .. FullBucket
    /\ bucket.updatedAt \in 0 .. redisTime + MaxSkew
    /\ bucket.dropped \in 0 .. redisTime + BucketTtl

\* The bucket keeps its word both ways.  Whoever calls, and however it expires:
\* what was allowed since the start is a burst and what the window refilled
\* since, and nothing beyond but what clocks that disagree gave back.  And "how
\* long until the request would succeed": unless a call was allowed since,
\* whoever calls when a refusal said, by whatever clock, is let through.
BudgetKept ==
    /\ taken * RefillWindow <= FullBucket + Capacity * (redisTime + MaxSkew + rewound)
    /\ promised >= 0 => Refilled(promised) >= RefillWindow
=============================================================================
