---------------------------- MODULE MCJobQueue ----------------------------
(* One process and one request, of a queue that allows two attempts.       *)
EXTENDS JobQueue

TwoTries == [t \in QueueTasks |-> 2]
=============================================================================
