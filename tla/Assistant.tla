----------------------------- MODULE Assistant -----------------------------
(***************************************************************************)
(* The assistant that answers private messages on its own (apps/worker/src/*)
(* assistant/run.ts, packages/core/src/auto-reply.ts), composed with the   *)
(* inbox: customers, echoes and colleagues move while the model thinks.    *)
(* Here a message is brought into the inbox in one step; Inbox has the     *)
(* races of the transactions that do it.                                   *)
(*                                                                         *)
(* The reply window, the brand's mode, AI credits and staffed hours only   *)
(* keep the assistant out, now or until later: wherever it may act it may  *)
(* also stay out.                                                          *)
(***************************************************************************)
EXTENDS Inbox

CONSTANTS
    Runs,              \* assistant jobs that run at the same time
    MaxReplies,        \* maxRepliesPerConversation
    MaxAssistantJobs   \* bound: jobs that wait

Unlocked == "free"
\* Held in Redis by a process that no longer exists.
Abandoned == "abandoned"

ASSUME AssistantAssumption ==
    /\ MaxReplies \in Nat /\ MaxAssistantJobs \in Nat
    /\ Unlocked \notin Runs /\ Abandoned \notin Runs

VARIABLES
    assistantJobs,  \* jobs that wait for this conversation
    runs,           \* where each run is, and what it has read
    runLock,        \* the run that holds lock:assistant:<conversation>, if any
    quietUpTo,      \* the messages sent 12 hours ago or more
    unheard         \* for the properties: a person's messages that were recorded
                    \* after a run had looked for the last time

assistantVars == <<assistantJobs, runs, runLock, quietUpTo, unheard>>
talkVars == <<inboxVars, assistantVars>>

NoRun == [phase |-> "idle"]

AssistantInit ==
    /\ assistantJobs = 0
    /\ runs = [r \in Runs |-> NoRun]
    /\ runLock = Unlocked /\ quietUpTo = 0 /\ unheard = {}

----------------------------------------------------------------------------
(* autoReplyGate                                                           *)

\* Mutant: a person who answered does not keep the assistant out.
HumanNeverActive(c) == FALSE

HumanActive(c) == c.lastHumanReplyAt > quietUpTo

GateOpen(c) ==
    /\ ~c.paused /\ ~c.needsHuman /\ c.replies < MaxReplies
    /\ ~HumanActive(c)

\* Twelve hours pass: no request of a colleague's takes as long.
HumanGoesQuiet ==
    /\ quietUpTo < Len(thread)
    /\ \A p \in Colleagues : replying[p] = NoReply
    /\ quietUpTo' = Len(thread)
    /\ UNCHANGED <<inboxVars, assistantJobs, runs, runLock, unheard>>

----------------------------------------------------------------------------
(* Around the assistant: the inbox.                                        *)

Looked == {"send", "record", "hold", "close"}
LastLooks == \E r \in Runs : runs[r].phase \in Looked

\* A person's message is recorded: a run that has looked does not see it.
Hear(m) == unheard' = unheard \cup {k \in {m} : LastLooks}

\* ingestMessageEvent; scheduleAssistant is best effort, and the gate is asked.
Ingest(m) ==
    /\ m \in Sent \ Stored
    /\ conversation' = Recorded(conversation, m)
    /\ messageRows' = [messageRows EXCEPT ![m] = IF Inbound(m) THEN "customer" ELSE "app"]
    /\ excused' = excused \cup {k \in {m} : Writing({}) \/ LastLooks}
    /\ \/ UNCHANGED assistantJobs
       \/ /\ Inbound(m) /\ GateOpen(conversation') /\ assistantJobs < MaxAssistantJobs
          /\ assistantJobs' = assistantJobs + 1
    /\ IF thread[m] \in {"app", "person"} THEN Hear(m) ELSE UNCHANGED unheard
    /\ UNCHANGED <<thread, hooks, hookJobs, readings, replying, unplaced,
                   inboxFailures, runs, runLock, quietUpTo>>

\* setConversationAssistantPaused
SetPaused(paused) ==
    /\ conversation.exists
    /\ conversation' = [conversation EXCEPT !.paused = paused]
    /\ UNCHANGED <<thread, hooks, hookJobs, messageRows, readings, replying,
                   excused, unplaced, inboxFailures, assistantVars>>

Agency ==
    \/ /\ \/ \E s \in {"customer", "app"} : Writes(s)
          \/ \E p \in Colleagues : SendReply(p) \/ ReplyUnrecorded(p)
          \/ \E b \in BOOLEAN : SetHandled(b)
       /\ UNCHANGED assistantVars
    \/ \E p \in Colleagues :
          /\ RecordReply(p) /\ Hear(replying[p])
          /\ UNCHANGED <<assistantJobs, runs, runLock, quietUpTo>>
    \/ \E b \in BOOLEAN : SetPaused(b)

----------------------------------------------------------------------------
(* runAssistant                                                            *)

Phase(r, phase) == runs[r].phase = phase
ToPhase(r, run) == runs' = [runs EXCEPT ![r] = run]
\* A run that ends gives back the lock if it is still its own.
Release(r) ==
    /\ ToPhase(r, NoRun)
    /\ runLock' = IF runLock = r THEN Unlocked ELSE runLock

\* withLock: a job that finds it taken is put back for 15 seconds.
LockFree == runLock = Unlocked

LastIsInbound ==
    \E m \in Asked : \A k \in Stored : k <= m

BeginRun(r) ==
    /\ Phase(r, "idle") /\ assistantJobs > 0 /\ LockFree
    /\ GateOpen(conversation) /\ LastIsInbound
    /\ assistantJobs' = assistantJobs - 1
    /\ runLock' = r /\ ToPhase(r, [phase |-> "think"])
    /\ UNCHANGED <<inboxVars, quietUpTo, unheard>>

\* SKIPPED: the gate is shut, or the brand has spoken.
SkipJob(r) ==
    /\ Phase(r, "idle") /\ assistantJobs > 0 /\ LockFree
    /\ assistantJobs' = assistantJobs - 1
    /\ UNCHANGED <<inboxVars, runs, runLock, quietUpTo, unheard>>

\* Mutant: what the model answered is sent without asking the gate again.
GateAsOfBefore(c) == TRUE

\* The gate is asked once more when the model has answered.
StillOpen(c) == GateOpen(c)

Decide(r) ==
    /\ Phase(r, "think")
    /\ IF StillOpen(conversation)
       THEN /\ ToPhase(r, [phase |-> "send", human |-> conversation.lastHumanReplyAt])
            /\ UNCHANGED runLock
       ELSE Release(r)
    /\ UNCHANGED <<inboxVars, assistantJobs, quietUpTo, unheard>>

\* escalate, before anything is sent: is the conversation still the assistant's?
HandOver(r, hold, pause) ==
    LET ours == GateOpen(conversation) IN
    ToPhase(r, [phase |-> IF ours /\ hold THEN "hold" ELSE "close",
                human |-> conversation.lastHumanReplyAt,
                ours |-> ours, pause |-> pause, message |-> 0])

\* The customer asked it to stop, or the model or the credits gave up.
Escalate(r) ==
    /\ Phase(r, "think")
    /\ HandOver(r, TRUE, FALSE) \/ HandOver(r, FALSE, TRUE)
    /\ UNCHANGED <<inboxVars, assistantJobs, runLock, quietUpTo, unheard>>

AssistantSends ==
    /\ OnPlatform("assistant")
    /\ UNCHANGED <<hooks, hookJobs, messageRows, conversation, readings, replying,
                   excused, unplaced>>

SendAnswer(r) ==
    /\ Phase(r, "send") /\ AssistantSends
    /\ ToPhase(r, [phase |-> "record", human |-> runs[r].human,
                   message |-> Len(thread) + 1])
    /\ UNCHANGED <<inboxFailures, assistantJobs, runLock, quietUpTo, unheard>>

\* The platform refused the answer; or took it and did not confirm it.
AnswerRefused(r) ==
    /\ Phase(r, "send")
    /\ \/ UNCHANGED inboxVars
       \/ /\ inboxFailures < MaxInboxFailures /\ AssistantSends
          /\ inboxFailures' = inboxFailures + 1
    /\ HandOver(r, FALSE, FALSE)
    /\ UNCHANGED <<assistantJobs, runLock, quietUpTo, unheard>>

\* Mutant: the echo of the answer stays a colleague's message.
EchoKept(c, human) == c

\* recordSent puts right what the echo made of the assistant's own message.
EchoCorrected(c, human) == [c EXCEPT !.lastHumanReplyAt = human]

RecordAnswer(r) ==
    /\ Phase(r, "record")
    /\ messageRows' = [messageRows EXCEPT ![runs[r].message] = "assistant"]
    /\ conversation' = [EchoCorrected(conversation, runs[r].human) EXCEPT
                            !.replies = @ + 1, !.state = "HANDLED"]
    /\ Release(r)
    /\ UNCHANGED <<thread, hooks, hookJobs, readings, replying, excused, unplaced,
                   inboxFailures, assistantJobs, quietUpTo, unheard>>

\* The holding message; not sending it does not stop the rest.
SendHold(r) ==
    /\ Phase(r, "hold")
    /\ \/ AssistantSends /\ ToPhase(r, [runs[r] EXCEPT !.phase = "close",
                                                       !.message = Len(thread) + 1])
       \/ UNCHANGED inboxVars /\ ToPhase(r, [runs[r] EXCEPT !.phase = "close"])
    /\ UNCHANGED <<inboxFailures, assistantJobs, runLock, quietUpTo, unheard>>

CloseEscalation(r) ==
    LET m == runs[r].message
        c == IF m = 0 THEN conversation ELSE EchoCorrected(conversation, runs[r].human)
    IN  /\ Phase(r, "close")
        /\ messageRows' = [k \in MessageIds |-> IF k = m THEN "assistant" ELSE messageRows[k]]
        /\ conversation' = [c EXCEPT
               !.paused = @ \/ runs[r].pause,
               !.needsHuman = @ \/ runs[r].ours,
               !.state = IF runs[r].ours THEN "NEW" ELSE @]
        /\ Release(r)
        /\ UNCHANGED <<thread, hooks, hookJobs, readings, replying, excused,
                       unplaced, inboxFailures, assistantJobs, quietUpTo, unheard>>

\* The transaction after the send fails: one attempt is all the job has.
RunFails(r) ==
    /\ runs[r].phase \in {"record", "close"} /\ inboxFailures < MaxInboxFailures
    /\ inboxFailures' = inboxFailures + 1
    /\ Release(r)
    /\ UNCHANGED <<thread, hooks, hookJobs, messageRows, conversation, readings,
                   replying, excused, unplaced, assistantJobs, quietUpTo, unheard>>

\* The process dies: the lock stays until it expires, the stalled job runs again.
RunDies(r) ==
    /\ runs[r] # NoRun /\ inboxFailures < MaxInboxFailures
    /\ inboxFailures' = inboxFailures + 1
    /\ ToPhase(r, NoRun)
    /\ runLock' = IF runLock = r THEN Abandoned ELSE runLock
    /\ assistantJobs' = assistantJobs + 1
    /\ UNCHANGED <<thread, hooks, hookJobs, messageRows, conversation, readings,
                   replying, excused, unplaced, quietUpTo, unheard>>

\* CONVERSATION_LOCK_MS pass: since the process died, or under a run whose
\* model takes longer.
LockExpires ==
    /\ runLock # Unlocked
    /\ IF runLock = Abandoned THEN UNCHANGED inboxFailures
       ELSE inboxFailures < MaxInboxFailures /\ inboxFailures' = inboxFailures + 1
    /\ runLock' = Unlocked
    /\ UNCHANGED <<thread, hooks, hookJobs, messageRows, conversation, readings,
                   replying, excused, unplaced, assistantJobs, runs, quietUpTo,
                   unheard>>

----------------------------------------------------------------------------
RunStep(r) ==
    \/ BeginRun(r) \/ SkipJob(r) \/ Decide(r) \/ Escalate(r) \/ SendAnswer(r)
    \/ AnswerRefused(r) \/ RecordAnswer(r) \/ SendHold(r) \/ CloseEscalation(r)
    \/ RunFails(r) \/ RunDies(r)

AssistantNext ==
    \/ Agency
    \/ \E m \in MessageIds : Ingest(m)
    \/ \E r \in Runs : RunStep(r)
    \/ LockExpires \/ HumanGoesQuiet

\* The assistant and the inbox together; neither is owed a step.
AssistantSpec == InboxInit /\ AssistantInit /\ [][AssistantNext]_talkVars

----------------------------------------------------------------------------
(* Properties.                                                             *)

\* Every variable has its type, and a run that has not lost it holds the lock.
AssistantTypeOK ==
    /\ assistantJobs \in Nat /\ quietUpTo \in 0 .. Len(thread)
    /\ unheard \subseteq Stored
    /\ runLock \in Runs \cup {Unlocked, Abandoned}
    /\ \A r \in Runs : runs[r].phase \in {"idle", "think"} \cup Looked
    /\ inboxFailures = 0 => \A r \in Runs : runs[r] # NoRun => runLock = r

Speaks == Len(thread') > Len(thread) /\ thread'[Len(thread')] = "assistant"

\* The assistant's own messages never count as a colleague's: unless something
\* failed, once no run is under way, the last human reply is a person's.
EchoIsNotAPerson ==
    inboxFailures = 0 /\ runLock = Unlocked /\ conversation.lastHumanReplyAt # 0 =>
        thread[conversation.lastHumanReplyAt] # "assistant"

\* The assistant speaks in its turn.  Colleagues come first: not within 12 hours
\* of a person's message that was in the inbox when it last looked, nor later
\* if it was.  And a customer is not answered twice: unless something failed
\* after a message was sent, or the lock expired, only when the customer has
\* spoken since (autoReplyGate, the second gate, the conversation lock).
SpeaksInTurn ==
    [][Speaks =>
           /\ \A m \in Stored \ unheard :
                  thread[m] \in {"app", "person"} => m <= quietUpTo
           /\ inboxFailures' = 0 => \A k \in Sent : thread[k] = "assistant" =>
                                        \E m \in Sent : m > k /\ Inbound(m)]_talkVars
=============================================================================
