-------------------------- MODULE MCPublishEngine --------------------------
(* Small instances of PublishEngine for TLC.                               *)
EXTENDS PublishEngine, TLC

\* Every variant goes out on one account, whose platform can be asked.
OneAccount == [v \in Variants |-> CHOOSE a \in Accounts : TRUE]

\* Each variant has an account of its own.
OwnAccount ==
    CHOOSE f \in [Variants -> Accounts] : \A v, x \in Variants : f[v] = f[x] => v = x

AllAccounts == Accounts
NoAccount == {}

\* A process may die anywhere but between closing an attempt and settling.
SafeCrashPoints == Running \ {"apply"}

WorkerSymmetry == Permutations(Workers)
=============================================================================
