------------------------------- MODULE Inbox -------------------------------
(***************************************************************************)
(* One private conversation: the platform's webhooks and the backfill      *)
(* bring its messages in (apps/web/app/api/v1/webhooks, apps/worker/src/   *)
(* messaging), the team answers them (features/messaging).                 *)
(*                                                                         *)
(* Messages are numbered in the order the platform has them, so a number   *)
(* is both a message's external id and the instant it was sent.            *)
(***************************************************************************)
EXTENDS Naturals, Sequences, FiniteSets

CONSTANTS
    MaxReaders,       \* jobs of the webhooks and messaging queues at a time
    Colleagues,       \* people of the team who answer in the app
    MaxThread,        \* bound: messages
    MaxInboxFailures  \* bound: failed transactions and lost enqueues

ASSUME InboxAssumption ==
    MaxReaders \in Nat /\ MaxThread \in Nat /\ MaxInboxFailures \in Nat

VARIABLES
    thread,         \* who sent each message, as the platform has it
    hooks,          \* WebhookEvent rows, by the message they are about
    hookJobs,       \* the events a webhooks job waits for
    messageRows,    \* SocialMessage rows: whose the row says the message is
    conversation,   \* the SocialConversation row
    readings,       \* the jobs that work on an event, and what they have read
    replying,       \* the message each colleague has sent and not yet recorded
    excused,        \* for the properties: messages a colleague marked handled, or
                    \* that somebody who wrote the conversation had not seen
    unplaced,       \* for the properties: events marked by a job that found no place
    inboxFailures

inboxVars == <<thread, hooks, hookJobs, messageRows, conversation, readings,
               replying, excused, unplaced, inboxFailures>>

MessageIds == 1 .. MaxThread
Sent == 1 .. Len(thread)
NoReply == 0

InboxInit ==
    /\ thread = <<>>
    /\ hooks = [m \in MessageIds |-> "none"]
    /\ hookJobs = {}
    /\ messageRows = [m \in MessageIds |-> "absent"]
    /\ conversation = [exists |-> FALSE, state |-> "HANDLED", lastInboundAt |-> 0, lastHumanReplyAt |-> 0,
                       needsHuman |-> FALSE, paused |-> FALSE, replies |-> 0]
    /\ readings = {}
    /\ replying = [p \in Colleagues |-> NoReply]
    /\ excused = {} /\ unplaced = {} /\ inboxFailures = 0

Stored == {m \in MessageIds : messageRows[m] # "absent"}
Inbound(m) == thread[m] = "customer"
Later(a, b) == IF a > b THEN a ELSE b

----------------------------------------------------------------------------
(* The platform, and its webhook deliveries.                               *)

\* A message reaches the platform.
OnPlatform(sender) == Len(thread) < MaxThread /\ thread' = Append(thread, sender)

\* The customer writes, or the brand answers in the platform's own app.
Writes(sender) ==
    /\ sender \in {"customer", "app"} /\ OnPlatform(sender)
    /\ UNCHANGED <<hooks, hookJobs, messageRows, conversation, readings, replying,
                   excused, unplaced, inboxFailures>>

\* POST: each event is stored once under the platform's id, then enqueued,
\* which may fail.  A second delivery of it finds the row and enqueues nothing;
\* a delivery may also come late, or never.
Deliver(m) ==
    /\ m \in Sent /\ hooks[m] = "none"
    /\ hooks' = [hooks EXCEPT ![m] = "stored"]
    /\ \/ hookJobs' = hookJobs \cup {m}
       \/ UNCHANGED hookJobs
    /\ UNCHANGED <<thread, messageRows, conversation, readings, replying, excused,
                   unplaced, inboxFailures>>

\* Mutant: the sweep trusts that every stored event was enqueued.
SweptNever(m) == FALSE

\* sweepWebhookEvents: what is stored and not processed is enqueued again under
\* an id of its own, and given up after 48 hours.
Swept(m) == hooks[m] = "stored"

Requeue(m) ==
    /\ Swept(m) /\ m \notin hookJobs
    /\ hookJobs' = hookJobs \cup {m}
    /\ UNCHANGED <<thread, hooks, messageRows, conversation, readings, replying,
                   excused, unplaced, inboxFailures>>

Abandon(m) ==
    /\ hooks[m] = "stored" /\ inboxFailures = MaxInboxFailures
    /\ hooks' = [hooks EXCEPT ![m] = "abandoned"]
    /\ UNCHANGED <<thread, hookJobs, messageRows, conversation, readings, replying,
                   excused, unplaced, inboxFailures>>

----------------------------------------------------------------------------
(* recordMessage, one READ COMMITTED transaction: it reads the row of the  *)
(* conversation, then writes what follows from what it read.               *)

\* The transaction of a message that is there already changes nothing, and two
\* jobs that read the same for the same event count as one.
ToMark(m, placed) == [step |-> "mark", message |-> m, placed |-> placed]

Read(m) ==
    IF m \in Stored THEN ToMark(m, TRUE)
    ELSE [step |-> "write", message |-> m, seen |-> conversation]

\* processWebhookEvent: an event that is processed already is left alone.  A job
\* may find nothing to record, and nothing fails: the payload cannot be read
\* back, no connected account has the id, or the ingest answers SKIPPED (the
\* account was disconnected since, or messaging is off on this worker).  They
\* come and go with the connections: any look may find it so.
Process(m) ==
    /\ m \in hookJobs /\ Cardinality(readings) < MaxReaders
    /\ hookJobs' = hookJobs \ {m}
    /\ IF hooks[m] # "stored" THEN UNCHANGED readings
       ELSE \E r \in {Read(m), ToMark(m, FALSE)} : readings' = readings \cup {r}
    /\ UNCHANGED <<thread, hooks, messageRows, conversation, replying, excused,
                   unplaced, inboxFailures>>

\* Mutant: an inbound message leaves the state as it is.
RecordedQuietly(seen, m) ==
    IF Inbound(m) THEN [conversation EXCEPT
        !.lastInboundAt = IF m > seen.lastInboundAt THEN m ELSE @]
    ELSE [conversation EXCEPT
        !.lastHumanReplyAt = IF m > seen.lastHumanReplyAt THEN m ELSE @]

NewConversation(m) ==
    [conversation EXCEPT !.exists = TRUE,
        !.state = IF Inbound(m) THEN "NEW" ELSE "HANDLED",
        !.lastInboundAt = IF Inbound(m) THEN m ELSE @,
        !.lastHumanReplyAt = IF Inbound(m) THEN @ ELSE m]

\* What the transaction writes: only the columns it has a reason to.
Recorded(seen, m) ==
    CASE ~seen.exists -> NewConversation(m)
      [] seen.exists /\ Inbound(m) ->
            [conversation EXCEPT
                !.lastInboundAt = IF m > seen.lastInboundAt THEN m ELSE @,
                !.state = IF seen.state = "HANDLED" THEN "NEW" ELSE @]
      [] OTHER ->
            [conversation EXCEPT
                !.lastHumanReplyAt = IF m > seen.lastHumanReplyAt THEN m ELSE @,
                !.state = IF m >= seen.lastInboundAt /\ seen.state = "NEW"
                          THEN "HANDLED" ELSE @]

\* A unique key stops the second creation of the conversation.
Collides(seen) == ~seen.exists /\ conversation.exists

\* Customer messages in the inbox.
Asked == {m \in Stored : Inbound(m)}

\* Somebody is between reading the conversation and writing it.
Writing(except) ==
    \/ \E r \in readings \ except : r.step = "write"
    \/ \E p \in Colleagues : replying[p] # NoReply

\* The transaction commits; a message that is there already changes nothing.
CommitRead(r) ==
    LET m == r.message IN
    /\ r \in readings /\ r.step = "write" /\ ~Collides(r.seen)
    /\ IF m \in Stored THEN UNCHANGED <<conversation, messageRows, excused>>
       ELSE /\ conversation' = Recorded(r.seen, m)
            /\ messageRows' = [messageRows EXCEPT ![m] =
                   IF Inbound(m) THEN "customer" ELSE "app"]
            /\ excused' = excused \cup
                   {k \in {m} : Writing({r}) \/ conversation # r.seen}
    /\ readings' = (readings \ {r}) \cup {ToMark(m, TRUE)}
    /\ UNCHANGED <<thread, hooks, hookJobs, replying, unplaced, inboxFailures>>

\* The event is processed, and its copy of the message scrubbed, whether or not
\* there was a place for the message.
MarkProcessed(r) ==
    /\ r \in readings /\ r.step = "mark"
    /\ hooks' = [hooks EXCEPT ![r.message] = "processed"]
    /\ readings' = readings \ {r}
    /\ unplaced' = unplaced \cup {m \in {r.message} : ~r.placed}
    /\ UNCHANGED <<thread, hookJobs, messageRows, conversation, replying, excused,
                   inboxFailures>>

\* Mutant: the failure is logged, and the event marked all the same.
FailureSwallowed(m) == [hooks EXCEPT ![m] = "processed"]

\* The error leaves the processor before the event is marked.
FailureThrown(m) == hooks

\* The job fails, or its process dies: it is retried from the start.
ReadFails(r) ==
    /\ r \in readings
    /\ \/ r.step = "write" /\ Collides(r.seen) /\ UNCHANGED inboxFailures
       \/ inboxFailures < MaxInboxFailures /\ inboxFailures' = inboxFailures + 1
    /\ readings' = readings \ {r}
    /\ hookJobs' = hookJobs \cup {r.message}
    /\ hooks' = FailureThrown(r.message)
    /\ UNCHANGED <<thread, messageRows, conversation, replying, excused, unplaced>>

\* syncConversations reads a conversation's messages oldest first, and records
\* each in a transaction of its own (taken as one step here: the races are
\* those of two readers).
Backfill(m) ==
    /\ m \in Sent \ Stored /\ 1 .. m - 1 \subseteq Stored
    /\ conversation' = Recorded(conversation, m)
    /\ messageRows' = [messageRows EXCEPT ![m] = IF Inbound(m) THEN "customer" ELSE "app"]
    /\ excused' = excused \cup {k \in {m} : Writing({})}
    /\ UNCHANGED <<thread, hooks, hookJobs, readings, replying, unplaced,
                   inboxFailures>>

----------------------------------------------------------------------------
(* The team (features/messaging, features/assistant).                      *)

\* replyToConversation sends first ...
SendReply(p) ==
    /\ conversation.exists /\ replying[p] = NoReply
    /\ OnPlatform("person")
    /\ replying' = [replying EXCEPT ![p] = Len(thread) + 1]
    /\ UNCHANGED <<hooks, hookJobs, messageRows, conversation, readings, excused,
                   unplaced, inboxFailures>>

\* Mutant: a reply leaves the conversation with whoever it was handed to.
AnsweredInPassing(m) ==
    [conversation EXCEPT !.state = "HANDLED", !.needsHuman = FALSE]

\* ... and then writes: answering is handling.
Answered(m) ==
    [conversation EXCEPT !.state = "HANDLED",
        !.lastHumanReplyAt = m, !.needsHuman = FALSE]

\* When the echo was faster, the message's unique key fails the transaction.
RecordReply(p) ==
    LET m == replying[p] IN
    /\ replying[p] # NoReply
    /\ replying' = [replying EXCEPT ![p] = NoReply]
    /\ IF m \in Stored THEN UNCHANGED <<conversation, messageRows, excused>>
       ELSE /\ conversation' = Answered(m)
            /\ messageRows' = [messageRows EXCEPT ![m] = "person"]
            /\ UNCHANGED excused
    /\ UNCHANGED <<thread, hooks, hookJobs, readings, unplaced, inboxFailures>>

\* The process dies, or the transaction fails, after the message was sent.
ReplyUnrecorded(p) ==
    /\ replying[p] # NoReply /\ inboxFailures < MaxInboxFailures
    /\ inboxFailures' = inboxFailures + 1
    /\ replying' = [replying EXCEPT ![p] = NoReply]
    /\ UNCHANGED <<thread, hooks, hookJobs, messageRows, conversation, readings,
                   excused, unplaced>>

\* setConversationHandled
SetHandled(handled) ==
    /\ conversation.exists
    /\ conversation' = IF handled
           THEN [conversation EXCEPT !.state = "HANDLED", !.needsHuman = FALSE]
           ELSE [conversation EXCEPT !.state = "NEW"]
    /\ excused' = IF handled THEN excused \cup Asked ELSE excused
    /\ UNCHANGED <<thread, hooks, hookJobs, messageRows, readings, replying,
                   unplaced, inboxFailures>>

----------------------------------------------------------------------------
UnderWay(m) == \E r \in readings : r.message = m

\* What the workers do for every event that is stored.  A second job for an
\* event that is being processed is not owed a turn.
InboxProgress ==
    \/ \E m \in MessageIds : ~UnderWay(m) /\ (Requeue(m) \/ Process(m))
    \/ \E r \in readings : CommitRead(r) \/ MarkProcessed(r) \/ ReadFails(r)

InboxNext ==
    \/ InboxProgress
    \/ \E s \in {"customer", "app"} : Writes(s)
    \/ \E m \in MessageIds : \/ Requeue(m) \/ Process(m)
                              \/ Deliver(m) \/ Abandon(m) \/ Backfill(m)
    \/ \E p \in Colleagues : SendReply(p) \/ RecordReply(p) \/ ReplyUnrecorded(p)
    \/ \E b \in BOOLEAN : SetHandled(b)

\* The inbox on its own, without the fairness of its workers.
InboxSpec == InboxInit /\ [][InboxNext]_inboxVars

----------------------------------------------------------------------------
(* Properties.                                                             *)

\* Every variable has its type.
InboxTypeOK ==
    /\ thread \in Seq({"customer", "app", "person", "assistant"})
    /\ hooks \in [MessageIds -> {"none", "stored", "processed", "abandoned"}]
    /\ hookJobs \subseteq Sent /\ Stored \subseteq Sent /\ excused \subseteq Stored
    /\ unplaced \subseteq Sent
    /\ conversation.lastInboundAt \in {0} \cup {m \in Stored : Inbound(m)}
    /\ conversation.lastHumanReplyAt \in {0} \cup {m \in Stored : ~Inbound(m)}
    /\ Cardinality(readings) <= MaxReaders
    /\ \A r \in readings : r.step \in {"write", "mark"} /\ r.message \in Sent
    /\ \A p \in Colleagues : replying[p] \in Sent \cup {0}

\* An event is marked processed, and the platform-wide copy of its message
\* erased, only when the message is in the inbox, or by a job that looked, that
\* nothing failed for, and that found no inbox to put it in: no failure and no
\* death loses a message that had a place (processWebhookEvent).
ProcessedMeansStored ==
    \A m \in MessageIds : hooks[m] = "processed" => m \in Stored \cup unplaced

\* A customer who waits for an answer is shown as waiting: if the conversation
\* is HANDLED, each of their messages was followed by one of the brand's, or
\* marked handled by a person, or stored behind the back of someone who was
\* writing the conversation (recordMessage, replyToConversation).
WaitingIsShown ==
    conversation.state = "HANDLED" =>
        \A m \in Asked \ excused : \E k \in Stored : k > m /\ ~Inbound(k)

\* A stored event is processed or, after 48 hours of failures, given up, even
\* if it was never enqueued: again and again none is left waiting
\* (sweepWebhookEvents).
EventsEnd == []<>(\A m \in MessageIds : hooks[m] # "stored")
=============================================================================
