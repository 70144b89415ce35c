-------------------------------- MODULE Outbox --------------------------------
(***************************************************************************)
(* Notification emails.  The notifications processor writes one row for    *)
(* each person to be told (packages/notifications write.ts); the row is    *)
(* the outbox.  Every two minutes a worker drains it (notifications/       *)
(* outbox.ts): reads what is owed, stamps what is too old, sends the rest  *)
(* one by one and stamps each after it was accepted.                       *)
(*                                                                         *)
(* Emails are numbered in the order of createdAt.                          *)
(***************************************************************************)
EXTENDS Naturals, FiniteSets

LOCAL INSTANCE FiniteSetsExt

CONSTANTS
    Drains,         \* worker processes that run the maintenance queue
    MaxEmails,      \* bound: rows written
    EmailBatch,     \* BATCH
    RefusedEmails,        \* emails the provider will never accept
    MaxDrainTrouble \* bound: drains that die, sends and stamps that fail

ASSUME OutboxAssumption ==
    /\ MaxEmails \in Nat /\ EmailBatch \in Nat \ {0} /\ MaxDrainTrouble \in Nat
    /\ RefusedEmails \subseteq 1 .. MaxEmails /\ Cardinality(RefusedEmails) < EmailBatch

VARIABLES
    toTell,       \* notification jobs queued
    written,      \* rows written so far
    emailed,      \* rows whose emailedAt is set
    old,          \* rows past MAX_AGE_MS
    drain,        \* what each drain is doing
    sends,        \* the provider: times each email was accepted
    drainTrouble,
    retold        \* for the properties: rows a drain read while another held
                  \* them, or sent and did not stamp

outboxVars == <<toTell, written, emailed, old, drain, sends, drainTrouble, retold>>

Emails == 1 .. MaxEmails
Resting == [step |-> "rest", todo |-> {}, stale |-> {}]

OutboxInit ==
    /\ toTell = 0 /\ written = 0 /\ emailed = {} /\ old = {}
    /\ drain = [d \in Drains |-> Resting]
    /\ sends = [e \in Emails |-> 0]
    /\ drainTrouble = 0 /\ retold = {}

Owed == (1 .. written) \ emailed

FirstOf(set, n) == {e \in set : Cardinality({f \in set : f < e}) < n}
At(d, step) == drain[d].step = step
GoesOn(d, step, todo) ==
    drain' = [drain EXCEPT ![d] = [step |-> IF todo = {} THEN "rest" ELSE step,
                                   todo |-> todo, stale |-> {}]]
Trouble == drainTrouble < MaxDrainTrouble /\ drainTrouble' = drainTrouble + 1

----------------------------------------------------------------------------
(* Somebody is to be told: processNotification, notify.                    *)

EnqueueNotification ==
    /\ toTell + written < MaxEmails
    /\ toTell' = toTell + 1
    /\ UNCHANGED <<written, emailed, old, drain, sends, drainTrouble, retold>>

\* One transaction writes the row; a job that dies after it runs again and
\* writes another, as nothing says the first was written.
Notify ==
    /\ toTell > 0 /\ written < MaxEmails
    /\ written' = written + 1
    /\ \/ toTell' = toTell - 1 /\ UNCHANGED drainTrouble
       \/ Trouble /\ UNCHANGED toTell
    /\ UNCHANGED <<emailed, old, drain, sends, retold>>

\* A day passes for the oldest row that is not old.
EmailAges ==
    /\ \E e \in (1 .. written) \ old :
           /\ \A f \in 1 .. e - 1 : f \in old
           /\ old' = old \cup {e}
    /\ UNCHANGED <<toTell, written, emailed, drain, sends, drainTrouble, retold>>

----------------------------------------------------------------------------
(* drainEmailOutbox.                                                       *)

\* Mutant: what was emailed is read again.
PendingIgnoresStamp == FirstOf((1 .. written) \ old, EmailBatch)

\* The first rows in the window that nothing was sent for.
PendingEmails == FirstOf(Owed \ old, EmailBatch)

HeldElsewhere(d) == UNION {drain[other].todo : other \in Drains \ {d}}

ReadOutbox(d) ==
    /\ At(d, "rest") /\ Owed # {}
    /\ drain' = [drain EXCEPT ![d] =
           [step |-> "abandon", todo |-> PendingEmails, stale |-> old]]
    /\ retold' = retold \cup (PendingEmails \cap HeldElsewhere(d))
    /\ UNCHANGED <<toTell, written, emailed, old, sends, drainTrouble>>

\* Rows past the cutoff are stamped, not sent.
AbandonStale(d) ==
    /\ At(d, "abandon")
    /\ emailed' = emailed \cup (Owed \cap drain[d].stale)
    /\ GoesOn(d, "send", drain[d].todo)
    /\ UNCHANGED <<toTell, written, old, sends, drainTrouble, retold>>

SendEmail(d) ==
    /\ At(d, "send")
    /\ LET e == Min(drain[d].todo) IN
           /\ e \notin RefusedEmails
           /\ sends' = [sends EXCEPT ![e] = @ + 1]
    /\ drain' = [drain EXCEPT ![d].step = "stamp"]
    /\ UNCHANGED <<toTell, written, emailed, old, drainTrouble, retold>>

\* Mutant: one bad address stops the batch.
StopsThere(d, e) == GoesOn(d, "send", {}) /\ UNCHANGED emailed

\* The row stays unstamped; the batch goes on.
LeftForLater(d, e) == GoesOn(d, "send", drain[d].todo \ {e}) /\ UNCHANGED emailed

RefuseEmail(d) ==
    /\ At(d, "send")
    /\ LET e == Min(drain[d].todo) IN
           /\ \/ e \in RefusedEmails /\ UNCHANGED drainTrouble
              \/ Trouble
           /\ LeftForLater(d, e)
    /\ UNCHANGED <<toTell, written, old, sends, retold>>

StampEmail(d) ==
    /\ At(d, "stamp")
    /\ LET e == Min(drain[d].todo) IN
           /\ emailed' = emailed \cup {e}
           /\ GoesOn(d, "send", drain[d].todo \ {e})
    /\ UNCHANGED <<toTell, written, old, sends, drainTrouble, retold>>

\* The stamp fails, and is caught like a send that failed; or the drain dies,
\* its mailer cannot be resolved, its job is over.
StampFails(d) ==
    /\ At(d, "stamp") /\ Trouble
    /\ LET e == Min(drain[d].todo) IN
           /\ retold' = retold \cup {e}
           /\ GoesOn(d, "send", drain[d].todo \ {e})
    /\ UNCHANGED <<toTell, written, emailed, old, sends>>

DrainDies(d) ==
    /\ ~At(d, "rest") /\ Trouble
    /\ retold' = IF At(d, "stamp") THEN retold \cup {Min(drain[d].todo)} ELSE retold
    /\ drain' = [drain EXCEPT ![d] = Resting]
    /\ UNCHANGED <<toTell, written, emailed, old, sends>>

DrainSteps(d) == \/ ReadOutbox(d) \/ AbandonStale(d) \/ SendEmail(d)
                 \/ RefuseEmail(d) \/ StampEmail(d)

OutboxNext ==
    \/ EnqueueNotification \/ Notify \/ EmailAges
    \/ \E d \in Drains : DrainSteps(d) \/ StampFails(d) \/ DrainDies(d)

\* The maintenance queue comes back every two minutes.
OutboxFairness == WF_outboxVars(Notify) /\ \A d \in Drains : WF_outboxVars(DrainSteps(d))

OutboxSpec == OutboxInit /\ [][OutboxNext]_outboxVars /\ OutboxFairness

----------------------------------------------------------------------------

\* A batch holds rows that were written, no more than BATCH of them, and a
\* drain that rests holds none.
OutboxTypeOK ==
    /\ toTell \in Nat /\ written \in 0 .. MaxEmails
    /\ emailed \subseteq 1 .. written /\ old \subseteq 1 .. written
    /\ \A d \in Drains :
           /\ drain[d].todo \subseteq 1 .. written /\ Cardinality(drain[d].todo) <= EmailBatch
           /\ drain[d].step \in {"send", "stamp"} => drain[d].todo # {}
           /\ At(d, "rest") => drain[d] = Resting

\* An email that the provider would accept is sent or abandoned in the end,
\* whatever addresses in front of it are refused every time.
MailSettles == []<>(Owed \subseteq RefusedEmails)

\* Each email goes out once.  Nobody is emailed twice about one row, but when a
\* stamp was lost or two drains held the row at once; and none is lost: what is
\* stamped was accepted by the provider, or was past the window (drainEmailOutbox).
EmailedOnce ==
    \A e \in Emails : /\ sends[e] > 1 => e \in retold
                      /\ e \in emailed => sends[e] > 0 \/ e \in old
=============================================================================
