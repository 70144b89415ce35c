-------------------------- MODULE MCPostLifecycle --------------------------
(* Small instances of PostLifecycle for TLC.                               *)
EXTENDS PostLifecycle, TLC

\* Everything a person may ask the transition endpoint for.
AllMoves == {m[2] : m \in HumanTransitions}

PeopleSymmetry == Permutations(People)
=============================================================================
