-------------------------- MODULE MessagingProofs --------------------------
(***************************************************************************)
(* Theorems about a private conversation: what is processed is in the      *)
(* inbox, a customer who waits is shown as waiting (Inbox), and the        *)
(* assistant speaks in its turn and is never taken for a colleague         *)
(* (Assistant).                                                            *)
(***************************************************************************)
EXTENDS Assistant, FiniteSetTheorems, TLAPS

----------------------------------------------------------------------------
(* The inductive invariant of the inbox.                                   *)

Senders == {"customer", "app", "person", "assistant"}

Conversations ==
    [exists : BOOLEAN, state : {"HANDLED", "NEW"}, lastInboundAt : Nat,
     lastHumanReplyAt : Nat, needsHuman : BOOLEAN, paused : BOOLEAN, replies : Nat]

Reads == [step : {"mark"}, message : MessageIds, placed : BOOLEAN]
           \cup [step : {"write"}, message : MessageIds, seen : Conversations]

InboxTypes ==
    /\ thread \in Seq(Senders) /\ Len(thread) <= MaxThread
    /\ hooks \in [MessageIds -> {"none", "stored", "processed", "abandoned"}]
    /\ messageRows \in [MessageIds -> Senders \cup {"absent"}]
    /\ conversation \in Conversations
    /\ readings \subseteq Reads
    /\ IsFiniteSet(readings) /\ Cardinality(readings) <= MaxReaders
    /\ replying \in [Colleagues -> Nat]
    /\ inboxFailures \in Nat

\* What is read, written and excused are messages of the platform's.
RowsAreSent ==
    /\ hookJobs \subseteq Sent /\ Stored \subseteq Sent /\ excused \subseteq Stored
    /\ unplaced \subseteq Sent
    /\ \A m \in MessageIds : hooks[m] # "none" => m \in Sent
    /\ \A r \in readings : r.message \in Sent
    /\ \A p \in Colleagues : replying[p] # NoReply =>
           replying[p] \in Sent /\ thread[replying[p]] = "person"
    /\ ~conversation.exists => Stored = {} /\ \A p \in Colleagues : replying[p] = NoReply

\* The two columns name messages of their side.
ColumnsName ==
    /\ conversation.lastInboundAt # 0 =>
           conversation.lastInboundAt \in Stored /\ Inbound(conversation.lastInboundAt)
    /\ conversation.lastHumanReplyAt # 0 =>
           conversation.lastHumanReplyAt \in Stored /\ ~Inbound(conversation.lastHumanReplyAt)

\* What is processed, or about to be, is in the inbox, unless the job found no
\* place for it.
MarkedIsStored ==
    /\ ProcessedMeansStored
    /\ \A r \in readings : r.step = "mark" /\ r.placed => r.message \in Stored

\* What nobody is excused for: whoever writes the conversation, from what they
\* read or with a reply of theirs, does it knowing of these messages.
Outstanding == Asked \ excused

WritersKnow ==
    /\ \A k \in Outstanding : k <= conversation.lastInboundAt
    /\ \A r \in readings : r.step = "write" /\ r.seen.exists =>
           conversation.exists /\ \A k \in Outstanding : k <= r.seen.lastInboundAt
    /\ \A p \in Colleagues : replying[p] # NoReply => \A k \in Outstanding : k < replying[p]

InboxInv ==
    /\ InboxTypes /\ RowsAreSent /\ ColumnsName /\ MarkedIsStored
    /\ WritersKnow /\ WaitingIsShown

----------------------------------------------------------------------------
(* The inductive invariant of the assistant.                               *)

RunStates ==
    {NoRun} \cup [phase : {"think"}] \cup [phase : {"send"}, human : Nat]
      \cup [phase : {"record"}, human : Nat, message : Nat]
      \cup [phase : {"hold", "close"}, human : Nat, ours : BOOLEAN, pause : BOOLEAN,
            message : Nat]

AssistantTypes ==
    /\ assistantJobs \in Nat /\ quietUpTo \in 0 .. Len(thread)
    /\ runs \in [Runs -> RunStates]
    /\ runLock \in Runs \cup {Unlocked, Abandoned}
    /\ unheard \subseteq Stored

\* The messages of people that a run which looked should have seen.
Heard == {m \in Stored \ unheard : thread[m] \in {"app", "person"}}
PeopleAreQuiet == \A m \in Heard : m <= quietUpTo

SentBy(t) == t.phase \in {"record", "close"} /\ t.message # 0

\* A run that looked remembers a message of the brand's, has sent one of its
\* own, and looked when people had been quiet.
RunKnows(t) ==
    /\ t.phase # "idle" => conversation.exists
    /\ t.phase \in Looked /\ t.human # 0 => t.human \in Stored /\ ~Inbound(t.human)
    /\ t.phase = "hold" => t.message = 0
    /\ SentBy(t) => t.message \in Sent /\ thread[t.message] = "assistant"
    /\ t.phase = "record" => t.message # 0 /\ \A k \in Outstanding : k < t.message
    /\ t.phase \in {"send", "hold"} \/ SentBy(t) => PeopleAreQuiet

RunsKnow == \A r \in Runs : RunKnows(runs[r])

\* The gate's clock is the right one: when the last reply is an old one, people
\* have been quiet.
GateTellsQuiet ==
    /\ ~HumanActive(conversation) => PeopleAreQuiet
    /\ \A p \in Colleagues : replying[p] # NoReply => quietUpTo < replying[p]

\* The customer has spoken since the assistant last did, and what the run
\* remembers as a person's message is not one of the assistant's.
CustomerSpoke ==
    \A k \in Sent : thread[k] = "assistant" => \E m \in Sent : m > k /\ Inbound(m)

InTurn(t) ==
    /\ t.phase \in Looked /\ t.human # 0 => thread[t.human] # "assistant"
    /\ t.phase \in {"think", "send", "hold"} => CustomerSpoke

\* Each message of the assistant's is recorded, or its run is about to record
\* it; until then its echo may count as a person's.
RecordedOrBy(t) ==
    /\ \A k \in Sent : thread[k] = "assistant" =>
           k \in Stored \/ (SentBy(t) /\ t.message = k)
    /\ conversation.lastHumanReplyAt # 0 /\ thread[conversation.lastHumanReplyAt] = "assistant" =>
           SentBy(t)

\* As long as nothing failed: one run at a time, in its turn.
Undisturbed ==
    /\ \A r \in Runs : runs[r].phase # "idle" => runLock = r
    /\ runLock # Abandoned
    /\ \A r \in Runs : InTurn(runs[r])
    /\ RecordedOrBy(IF runLock \in Runs THEN runs[runLock] ELSE NoRun)

AssistantInv ==
    /\ InboxInv /\ AssistantTypes /\ RunsKnow /\ GateTellsQuiet
    /\ inboxFailures = 0 => Undisturbed
----------------------------------------------------------------------------
(* Steps of the inbox keep its invariant.                                  *)

\* The thread only grows: what was sent keeps its number and its sender.
LEMMA ThreadGrows ==
    ASSUME thread \in Seq(Senders), Len(thread) <= MaxThread,
           NEW s \in Senders, OnPlatform(s)
    PROVE  /\ thread' \in Seq(Senders) /\ Len(thread') = Len(thread) + 1
           /\ Len(thread') <= MaxThread
           /\ \A m \in Sent : m \in Sent' /\ thread'[m] = thread[m]
           /\ Len(thread) + 1 \in Sent' /\ Len(thread) + 1 \notin Sent
           /\ thread'[Len(thread) + 1] = s
    BY InboxAssumption DEF OnPlatform, Sent

LEMMA SentAreIds ==
    ASSUME InboxTypes
    PROVE  Sent \subseteq MessageIds /\ Sent \subseteq Nat \ {0}
    BY InboxAssumption DEF InboxTypes, Sent, MessageIds

LEMMA InboxStarts == InboxInit => InboxInv
  <1> SUFFICES ASSUME InboxInit PROVE InboxInv
    OBVIOUS
  <1> USE InboxAssumption DEF InboxInit
  <1>1. Stored = {} /\ Sent = {}
    BY DEF Stored, Sent, MessageIds
  <1>2. InboxTypes
    BY FS_EmptySet DEF InboxTypes, Conversations, Reads, MessageIds, NoReply
  <1>3. RowsAreSent /\ ColumnsName /\ MarkedIsStored
    BY <1>1 DEF RowsAreSent, ColumnsName, MarkedIsStored, ProcessedMeansStored
  <1>4. WritersKnow /\ WaitingIsShown
    BY <1>1 DEF WritersKnow, WaitingIsShown, Outstanding, Asked
  <1>. QED BY <1>2, <1>3, <1>4 DEF InboxInv

\* A message is sent, and nothing else happens; or a colleague who sends it
\* remembers its number.
LEMMA SendingKeeps ==
    ASSUME InboxInv, NEW s \in Senders, OnPlatform(s),
           UNCHANGED <<hooks, hookJobs, messageRows, conversation, readings, excused,
                       unplaced>>,
           inboxFailures' \in Nat,
           \/ UNCHANGED replying
           \/ /\ s = "person" /\ conversation.exists
              /\ \E p \in Colleagues : replying' = [replying EXCEPT ![p] = Len(thread) + 1]
    PROVE  InboxInv'
  <1>1. /\ thread' \in Seq(Senders) /\ Len(thread') <= MaxThread
        /\ \A m \in Sent : m \in Sent' /\ thread'[m] = thread[m]
        /\ Len(thread) + 1 \in Sent' /\ Len(thread) + 1 \notin Sent
        /\ thread'[Len(thread) + 1] = s
        /\ Len(thread) \in Nat
    BY ThreadGrows DEF InboxInv, InboxTypes
  <1>2. Stored' = Stored /\ Stored \subseteq Sent
    BY DEF Stored, InboxInv, RowsAreSent
  <1>3. Asked' = Asked /\ Outstanding' = Outstanding
    BY <1>1, <1>2 DEF Asked, Outstanding, Inbound
  <1>4. InboxTypes'
    <2>1. replying' \in [Colleagues -> Nat]
      BY <1>1 DEF InboxInv, InboxTypes
    <2>. QED BY <1>1, <2>1 DEF InboxInv, InboxTypes
  <1>5. RowsAreSent'
    <2>1. /\ hookJobs' \subseteq Sent' /\ Stored' \subseteq Sent' /\ excused' \subseteq Stored'
          /\ unplaced' \subseteq Sent'
      BY <1>1, <1>2 DEF InboxInv, RowsAreSent
    <2>2. \A r \in readings' : r.message \in Sent'
      BY <1>1 DEF InboxInv, RowsAreSent
    <2>3. \A p \in Colleagues : replying'[p] # NoReply =>
              replying'[p] \in Sent' /\ thread'[replying'[p]] = "person"
      BY <1>1 DEF InboxInv, RowsAreSent, InboxTypes
    <2>4. ~conversation'.exists =>
              Stored' = {} /\ \A p \in Colleagues : replying'[p] = NoReply
      BY <1>2 DEF InboxInv, RowsAreSent
    <2>5. \A m \in MessageIds : hooks'[m] # "none" => m \in Sent'
      BY <1>1 DEF InboxInv, RowsAreSent
    <2>. QED BY <2>1, <2>2, <2>3, <2>4, <2>5 DEF RowsAreSent
  <1>6. ColumnsName' /\ MarkedIsStored'
    BY <1>1, <1>2 DEF InboxInv, ColumnsName, MarkedIsStored, ProcessedMeansStored, Inbound
  <1>7. WritersKnow'
    <2>1. \A k \in Outstanding : k \in Sent /\ k < Len(thread) + 1
      BY <1>2 DEF Outstanding, Asked, Sent
    <2>. QED BY <1>1, <1>3, <2>1 DEF InboxInv, WritersKnow, InboxTypes
  <1>8. WaitingIsShown'
    BY <1>1, <1>2, <1>3 DEF InboxInv, WaitingIsShown, Outstanding, Inbound
  <1>. QED BY <1>4, <1>5, <1>6, <1>7, <1>8 DEF InboxInv

\* Work on the events: a job starts from the conversation as it is, ends, or
\* has found its message in the inbox.
LEMMA HookWorkKeeps ==
    ASSUME InboxInv, InboxTypes',
           UNCHANGED <<thread, messageRows, conversation, excused>>,
           hookJobs' \subseteq Sent,
           \A r \in readings' :
               \/ r \in readings
               \/ r.step = "write" /\ r.seen = conversation /\ r.message \in Sent
               \/ /\ r.step = "mark" /\ r.message \in Sent
                  /\ r.placed => r.message \in Stored,
           unplaced \subseteq unplaced', unplaced' \subseteq Sent,
           \A m \in MessageIds : hooks'[m] = "processed" => m \in Stored \cup unplaced',
           \A m \in MessageIds : hooks'[m] # "none" => m \in Sent,
           \A p \in Colleagues : replying'[p] = NoReply \/ replying'[p] = replying[p]
    PROVE  InboxInv'
  <1>1. Sent' = Sent /\ Stored' = Stored /\ Asked' = Asked /\ Outstanding' = Outstanding
    BY DEF Sent, Stored, Asked, Outstanding, Inbound
  <1>2. RowsAreSent'
    BY <1>1 DEF InboxInv, RowsAreSent
  <1>3. ColumnsName' /\ WaitingIsShown'
    BY <1>1 DEF InboxInv, ColumnsName, WaitingIsShown, Inbound, Outstanding
  <1>4. MarkedIsStored'
    <2>1. \A r \in readings' : r.step = "mark" /\ r.placed => r.message \in Stored
      BY DEF InboxInv, MarkedIsStored
    <2>. QED BY <1>1, <2>1 DEF MarkedIsStored, ProcessedMeansStored
  <1>5. WritersKnow'
    <2>1. \A r \in readings' : r.step = "write" /\ r.seen.exists =>
              conversation.exists /\ \A k \in Outstanding : k <= r.seen.lastInboundAt
      BY DEF InboxInv, WritersKnow
    <2>. QED BY <1>1, <2>1 DEF InboxInv, WritersKnow
  <1>. QED BY <1>2, <1>3, <1>4, <1>5 DEF InboxInv

\* What recordMessage writes, by the side the message is of.
LEMMA RecordedIs ==
    ASSUME conversation \in Conversations, NEW seen \in Conversations, NEW m \in Nat,
           seen.exists => conversation.exists,
           NEW c, c = Recorded(seen, m)
    PROVE  /\ c \in Conversations /\ c.exists
           /\ Inbound(m) =>
                /\ c.lastHumanReplyAt = conversation.lastHumanReplyAt
                /\ c.lastInboundAt = IF ~seen.exists \/ m > seen.lastInboundAt
                                     THEN m ELSE conversation.lastInboundAt
                /\ c.state = IF ~seen.exists \/ seen.state = "HANDLED"
                             THEN "NEW" ELSE conversation.state
           /\ ~Inbound(m) =>
                /\ c.lastInboundAt = conversation.lastInboundAt
                /\ c.lastHumanReplyAt = IF ~seen.exists \/ m > seen.lastHumanReplyAt
                                        THEN m ELSE conversation.lastHumanReplyAt
                /\ c.state = IF ~seen.exists \/ (m >= seen.lastInboundAt /\ seen.state = "NEW")
                             THEN "HANDLED" ELSE conversation.state
  <1>1. CASE ~seen.exists
    <2>1. c = NewConversation(m)
      BY <1>1 DEF Recorded
    <2>. QED BY <1>1, <2>1 DEF NewConversation, Conversations
  <1>2. CASE seen.exists /\ Inbound(m)
    <2>1. c = [conversation EXCEPT
                !.lastInboundAt = IF m > seen.lastInboundAt THEN m ELSE @,
                !.state = IF seen.state = "HANDLED" THEN "NEW" ELSE @]
      BY <1>2 DEF Recorded
    <2>. QED BY <1>2, <2>1 DEF Conversations
  <1>3. CASE seen.exists /\ ~Inbound(m)
    <2>1. c = [conversation EXCEPT
                !.lastHumanReplyAt = IF m > seen.lastHumanReplyAt THEN m ELSE @,
                !.state = IF m >= seen.lastInboundAt /\ seen.state = "NEW"
                          THEN "HANDLED" ELSE @]
      BY <1>3 DEF Recorded
    <2>. QED BY <1>3, <2>1 DEF Conversations
  <1>. QED BY <1>1, <1>2, <1>3

\* A message enters the inbox, from what its transaction had read.  Somebody
\* who was writing meanwhile, or who had read something else, excuses it.
LEMMA RecordingKeeps ==
    ASSUME InboxInv, NEW m \in Sent, m \notin Stored, NEW seen \in Conversations,
           IF seen.exists
           THEN conversation.exists /\ \A k \in Outstanding : k <= seen.lastInboundAt
           ELSE ~conversation.exists,
           UNCHANGED <<thread, hooks, hookJobs, replying, unplaced, inboxFailures>>,
           readings' \subseteq Reads, IsFiniteSet(readings'),
           Cardinality(readings') <= MaxReaders,
           \A r \in readings' : r \in readings \/ (r.step = "mark" /\ r.message = m),
           conversation' = Recorded(seen, m),
           messageRows' = [messageRows EXCEPT ![m] = IF Inbound(m) THEN "customer" ELSE "app"],
           excused \subseteq excused', excused' \subseteq excused \cup {m},
           \/ m \in excused'
           \/ /\ seen = conversation
              /\ \A r \in readings' : r.step # "write"
              /\ \A p \in Colleagues : replying[p] = NoReply
    PROVE  InboxInv'
  <1> m \in MessageIds /\ m \in Nat /\ m # 0
    BY SentAreIds DEF InboxInv
  <1>1. Stored' = Stored \cup {m} /\ Sent' = Sent
    BY DEF Stored, InboxInv, InboxTypes, Sent
  <1>2. \A k : Inbound(k)' = Inbound(k)
    BY DEF Inbound
  <1>3. Outstanding' \subseteq Outstanding \cup {m} /\ (m \in Outstanding' => Inbound(m) /\ m \notin excused')
    BY <1>1, <1>2 DEF Outstanding, Asked
  <1>4. conversation \in Conversations /\ (seen.exists => conversation.exists)
    BY DEF InboxInv, InboxTypes
  <1>5. /\ conversation' \in Conversations /\ conversation'.exists
        /\ Inbound(m) =>
             /\ conversation'.lastHumanReplyAt = conversation.lastHumanReplyAt
             /\ conversation'.lastInboundAt = IF ~seen.exists \/ m > seen.lastInboundAt
                                     THEN m ELSE conversation.lastInboundAt
             /\ conversation'.state = IF ~seen.exists \/ seen.state = "HANDLED"
                             THEN "NEW" ELSE conversation.state
        /\ ~Inbound(m) =>
             /\ conversation'.lastInboundAt = conversation.lastInboundAt
             /\ conversation'.lastHumanReplyAt = IF ~seen.exists \/ m > seen.lastHumanReplyAt
                                        THEN m ELSE conversation.lastHumanReplyAt
             /\ conversation'.state = IF ~seen.exists \/ (m >= seen.lastInboundAt /\ seen.state = "NEW")
                             THEN "HANDLED" ELSE conversation.state
    BY <1>4, RecordedIs
  <1>6. /\ seen.lastInboundAt \in Nat /\ conversation.lastInboundAt \in Nat
        /\ seen.state \in {"HANDLED", "NEW"} /\ conversation.state \in {"HANDLED", "NEW"}
    BY <1>4 DEF Conversations
  <1>7. \A k \in Outstanding : k \in Stored /\ k \in Nat
    BY SentAreIds DEF Outstanding, Asked, InboxInv, RowsAreSent
  <1>8. InboxTypes'
    BY <1>5 DEF InboxInv, InboxTypes, Senders
  <1>9. RowsAreSent'
    BY <1>1, <1>5 DEF InboxInv, RowsAreSent
  <1>10. ColumnsName'
    <2>1. conversation'.lastInboundAt # 0 =>
              conversation'.lastInboundAt \in Stored' /\ Inbound(conversation'.lastInboundAt)
      BY <1>1, <1>5 DEF InboxInv, ColumnsName
    <2>2. conversation'.lastHumanReplyAt # 0 =>
              conversation'.lastHumanReplyAt \in Stored' /\ ~Inbound(conversation'.lastHumanReplyAt)
      BY <1>1, <1>5 DEF InboxInv, ColumnsName
    <2>. QED BY <2>1, <2>2 DEF ColumnsName, Inbound
  <1>11. MarkedIsStored'
    BY <1>1 DEF InboxInv, MarkedIsStored, ProcessedMeansStored
  <1>12. ~seen.exists => Outstanding = {} /\ Stored = {}
    BY <1>7 DEF InboxInv, RowsAreSent
  <1>13. WritersKnow'
    <2>1. \A k \in Outstanding' : k <= conversation'.lastInboundAt
      <3>1. \A k \in Outstanding : k <= conversation'.lastInboundAt
        BY <1>5, <1>6, <1>7, <1>12 DEF InboxInv, WritersKnow
      <3>2. m \in Outstanding' => m <= conversation'.lastInboundAt
        BY <1>3, <1>5, <1>6
      <3>. QED BY <1>3, <3>1, <3>2
    <2>2. \A r \in readings' : r.step = "write" /\ r.seen.exists =>
              conversation'.exists /\ \A k \in Outstanding' : k <= r.seen.lastInboundAt
      BY <1>3, <1>5 DEF InboxInv, WritersKnow
    <2>3. \A p \in Colleagues : replying'[p] # NoReply => \A k \in Outstanding' : k < replying'[p]
      BY <1>3 DEF InboxInv, WritersKnow
    <2>. QED BY <2>1, <2>2, <2>3 DEF WritersKnow
  <1>14. WaitingIsShown'
    <2> SUFFICES ASSUME conversation'.state = "HANDLED", NEW k \in Outstanding'
                 PROVE  \E j \in Stored' : j > k /\ ~Inbound(j)
      BY <1>2 DEF WaitingIsShown, Outstanding, Inbound
    <2>1. CASE k = m
      <3>1. seen = conversation /\ Inbound(m)
        BY <1>3, <2>1
      <3>. QED BY <1>5, <1>6, <3>1
    <2>2. CASE k \in Outstanding /\ conversation.state = "HANDLED"
      <3>1. \E j \in Stored : j > k /\ ~Inbound(j)
        BY <2>2 DEF InboxInv, WaitingIsShown, Outstanding
      <3>. QED BY <3>1, <1>1
    <2>3. CASE k \in Outstanding /\ conversation.state # "HANDLED"
      <3>1. ~Inbound(m) /\ m >= seen.lastInboundAt /\ seen.exists
        BY <2>3, <1>5, <1>6, <1>12
      <3>2. k <= seen.lastInboundAt /\ k # m /\ k \in Nat
        BY <2>3, <3>1, <1>7
      <3>. QED BY <3>1, <3>2, <1>1, <1>6
    <2>. QED BY <1>3, <2>1, <2>2, <2>3
  <1>. QED BY <1>8, <1>9, <1>10, <1>11, <1>13, <1>14 DEF InboxInv

\* A colleague's reply is recorded: the conversation is handled.
LEMMA ReplyKeeps ==
    ASSUME InboxInv, NEW p \in Colleagues, RecordReply(p)
    PROVE  InboxInv'
  <1> DEFINE m == replying[p]
  <1>1. m \in Sent /\ m \in MessageIds /\ m \in Nat /\ m # 0 /\ thread[m] = "person" /\ conversation.exists
    BY SentAreIds DEF RecordReply, InboxInv, RowsAreSent, NoReply
  <1>2. /\ UNCHANGED <<thread, hooks, hookJobs, readings, unplaced, inboxFailures>>
        /\ replying' \in [Colleagues -> Nat]
        /\ \A q \in Colleagues : replying'[q] = NoReply \/ replying'[q] = replying[q]
    BY DEF RecordReply, InboxInv, InboxTypes, NoReply
  <1>3. CASE m \in Stored
    <2>1. UNCHANGED <<conversation, messageRows, excused>>
      BY <1>3 DEF RecordReply
    <2>2. InboxTypes'
      BY <1>2, <2>1 DEF InboxInv, InboxTypes
    <2>. QED
      BY <1>2, <2>1, <2>2, HookWorkKeeps
         DEF InboxInv, RowsAreSent, MarkedIsStored, ProcessedMeansStored
  <1>4. CASE m \notin Stored
    <2>1. /\ conversation' = Answered(m) /\ excused' = excused
          /\ messageRows' = [messageRows EXCEPT ![m] = "person"]
      BY <1>4 DEF RecordReply
    <2>2. /\ conversation' \in Conversations /\ conversation'.exists
          /\ conversation'.lastInboundAt = conversation.lastInboundAt
          /\ conversation'.lastHumanReplyAt = m
      BY <1>1, <2>1 DEF Answered, InboxInv, InboxTypes, Conversations
    <2>3. Stored' = Stored \cup {m} /\ Sent' = Sent
      BY <1>1, <1>2, <2>1 DEF Stored, InboxInv, InboxTypes, Sent
    <2>4. \A k : Inbound(k)' = Inbound(k)
      BY <1>2 DEF Inbound
    <2>5. ~Inbound(m) /\ Outstanding' = Outstanding
      BY <1>1, <2>1, <2>3, <2>4 DEF Outstanding, Asked, Inbound
    <2>6. InboxTypes'
      BY <1>2, <2>1, <2>2 DEF InboxInv, InboxTypes, Senders
    <2>7. RowsAreSent'
      BY <1>1, <1>2, <2>1, <2>2, <2>3 DEF InboxInv, RowsAreSent
    <2>8. ColumnsName'
      BY <2>2, <2>3, <2>5 DEF InboxInv, ColumnsName, Inbound, RecordReply
    <2>9. MarkedIsStored'
      BY <1>2, <2>3 DEF InboxInv, MarkedIsStored, ProcessedMeansStored
    <2>10. WritersKnow'
      BY <1>2, <2>2, <2>5 DEF InboxInv, WritersKnow
    <2>11. WaitingIsShown'
      <3>1. \A k \in Outstanding : k < m
        BY DEF InboxInv, WritersKnow, RecordReply
      <3>. QED BY <1>1, <2>3, <2>4, <2>5, <3>1 DEF WaitingIsShown, Outstanding
    <2>. QED BY <2>6, <2>7, <2>8, <2>9, <2>10, <2>11 DEF InboxInv
  <1>. QED BY <1>3, <1>4

\* Who handles a conversation excuses what was asked; putting it back, or
\* pausing the assistant, does not make it handled.
LEMMA HandlingKeeps ==
    ASSUME InboxInv, conversation.exists,
           UNCHANGED <<thread, hooks, hookJobs, messageRows, readings, replying,
                       unplaced>>,
           inboxFailures' \in Nat,
           conversation' \in Conversations, conversation'.exists,
           conversation'.lastInboundAt = conversation.lastInboundAt,
           conversation'.lastHumanReplyAt = conversation.lastHumanReplyAt,
           \/ excused' = excused \cup Asked
           \/ excused' = excused /\ conversation'.state \in {"NEW", conversation.state}
    PROVE  InboxInv'
  <1>1. /\ Sent' = Sent /\ Stored' = Stored /\ Asked' = Asked
        /\ \A k : Inbound(k)' = Inbound(k)
    BY DEF Sent, Stored, Asked, Inbound
  <1>2. Outstanding' = {} \/ (Outstanding' = Outstanding /\ conversation'.state \in {"NEW", conversation.state})
    BY <1>1 DEF Outstanding
  <1>3. InboxTypes'
    BY DEF InboxInv, InboxTypes
  <1>4. RowsAreSent'
    <2>1. excused' \subseteq Stored
      BY DEF InboxInv, RowsAreSent, Asked
    <2>. QED BY <1>1, <2>1 DEF InboxInv, RowsAreSent
  <1>5. ColumnsName' /\ MarkedIsStored'
    BY <1>1 DEF InboxInv, ColumnsName, MarkedIsStored, ProcessedMeansStored
  <1>6. WritersKnow'
    BY <1>2 DEF InboxInv, WritersKnow
  <1>7. WaitingIsShown'
    BY <1>1, <1>2 DEF InboxInv, WaitingIsShown, Outstanding
  <1>. QED BY <1>3, <1>4, <1>5, <1>6, <1>7 DEF InboxInv

LEMMA InboxSetHandledKeeps ==
    ASSUME InboxInv, NEW b \in BOOLEAN, SetHandled(b)
    PROVE  InboxInv'
  <1>1. /\ conversation' \in Conversations /\ conversation'.exists
        /\ conversation'.lastInboundAt = conversation.lastInboundAt
        /\ conversation'.lastHumanReplyAt = conversation.lastHumanReplyAt
        /\ ~b => conversation'.state = "NEW"
    BY DEF SetHandled, InboxInv, InboxTypes, Conversations
  <1>2. excused' = excused \cup Asked \/ (excused' = excused /\ conversation'.state = "NEW")
    BY <1>1 DEF SetHandled
  <1>. QED BY <1>1, <1>2, HandlingKeeps DEF SetHandled, InboxInv, InboxTypes

\* What a job knows when all that is left to do is to mark its event.
LEMMA MarksAre ==
    ASSUME NEW m \in MessageIds, NEW b \in BOOLEAN
    PROVE  /\ ToMark(m, b) \in Reads /\ ToMark(m, b).step = "mark"
           /\ ToMark(m, b).message = m /\ ToMark(m, b).placed = b
  <1>1. ToMark(m, b) \in [step : {"mark"}, message : MessageIds, placed : BOOLEAN]
    BY DEF ToMark
  <1>2. /\ ToMark(m, b).step = "mark" /\ ToMark(m, b).message = m
        /\ ToMark(m, b).placed = b
    BY DEF ToMark
  <1>. QED BY <1>1, <1>2 DEF Reads

\* A job starts on an event.
LEMMA ProcessKeeps ==
    ASSUME InboxInv, NEW m \in MessageIds, Process(m)
    PROVE  InboxInv'
  <1>1. m \in Sent /\ conversation \in Conversations
    BY DEF Process, InboxInv, RowsAreSent, InboxTypes
  <1>2. PICK q \in {Read(m), ToMark(m, FALSE)} :
            readings' = readings \/ readings' = readings \cup {q}
    BY DEF Process
  <1>3. /\ q \in Reads
        /\ \/ q.step = "write" /\ q.seen = conversation /\ q.message = m
           \/ q.step = "mark" /\ q.message = m /\ (q.placed => m \in Stored)
    <2>1. CASE q = ToMark(m, FALSE)
      BY <2>1, MarksAre
    <2>2. CASE q = Read(m) /\ m \in Stored
      BY <2>2, MarksAre DEF Read
    <2>3. CASE q = Read(m) /\ m \notin Stored
      BY <1>1, <2>3 DEF Read, Reads
    <2>. QED BY <2>1, <2>2, <2>3
  <1>4. /\ readings' \subseteq Reads /\ IsFiniteSet(readings')
        /\ Cardinality(readings') <= MaxReaders
    <2>1. CASE readings' = readings
      BY <2>1 DEF InboxInv, InboxTypes
    <2>2. CASE readings' = readings \cup {q}
      <3>1. IsFiniteSet(readings) /\ Cardinality(readings) < MaxReaders /\ readings \subseteq Reads
        BY DEF Process, InboxInv, InboxTypes
      <3>2. Cardinality(readings) \in Nat
        BY <3>1, FS_CardinalityType
      <3>3. /\ IsFiniteSet(readings \cup {q})
            /\ \/ Cardinality(readings \cup {q}) = Cardinality(readings)
               \/ Cardinality(readings \cup {q}) = Cardinality(readings) + 1
        BY <3>1, FS_AddElement
      <3>. QED BY <1>3, <2>2, <3>1, <3>2, <3>3, InboxAssumption
    <2>. QED BY <1>2, <2>1, <2>2
  <1>5. InboxTypes'
    BY <1>4 DEF Process, InboxInv, InboxTypes
  <1>6. \A r \in readings' :
               \/ r \in readings
               \/ r.step = "write" /\ r.seen = conversation /\ r.message \in Sent
               \/ /\ r.step = "mark" /\ r.message \in Sent
                  /\ r.placed => r.message \in Stored
    BY <1>1, <1>2, <1>3
  <1>. QED
    BY <1>5, <1>6, HookWorkKeeps
       DEF Process, InboxInv, RowsAreSent, MarkedIsStored, ProcessedMeansStored

\* A reading ends, or its transaction commits and its event is to be marked.
LEMMA ReadingsShrink ==
    ASSUME InboxTypes, NEW r \in readings
    PROVE  /\ readings \ {r} \subseteq Reads /\ IsFiniteSet(readings \ {r})
           /\ Cardinality(readings \ {r}) = Cardinality(readings) - 1
           /\ Cardinality(readings) \in Nat
  BY FS_RemoveElement, FS_CardinalityType DEF InboxTypes

LEMMA ReadingEndsKeeps ==
    ASSUME InboxInv, NEW r \in readings, MarkProcessed(r) \/ ReadFails(r)
    PROVE  InboxInv'
  <1>1. r.message \in Sent /\ r.message \in MessageIds
    BY SentAreIds DEF InboxInv, RowsAreSent
  <1>2. /\ UNCHANGED <<thread, messageRows, conversation, replying, excused>>
        /\ readings' = readings \ {r}
        /\ hookJobs' \subseteq Sent
        /\ unplaced \subseteq unplaced' /\ unplaced' \subseteq Sent
        /\ inboxFailures' \in Nat
    BY <1>1 DEF MarkProcessed, ReadFails, InboxInv, InboxTypes, RowsAreSent
  <1>3. \/ hooks' = hooks
        \/ /\ hooks' = [hooks EXCEPT ![r.message] = "processed"]
           /\ r.message \in Stored \cup unplaced'
    BY DEF MarkProcessed, ReadFails, FailureThrown, InboxInv, MarkedIsStored
  <1>4. /\ readings' \subseteq Reads /\ IsFiniteSet(readings')
        /\ Cardinality(readings') <= MaxReaders
    <2>1. InboxTypes /\ Cardinality(readings) <= MaxReaders
      BY DEF InboxInv, InboxTypes
    <2>2. /\ readings' \subseteq Reads /\ IsFiniteSet(readings')
          /\ Cardinality(readings') = Cardinality(readings) - 1
          /\ Cardinality(readings) \in Nat
      BY <1>2, <2>1, ReadingsShrink
    <2>. QED BY <2>1, <2>2, InboxAssumption
  <1>5. /\ hooks' \in [MessageIds -> {"none", "stored", "processed", "abandoned"}]
        /\ \A m \in MessageIds : hooks'[m] = "processed" => m \in Stored \cup unplaced'
        /\ \A m \in MessageIds : hooks'[m] # "none" => m \in Sent
    BY <1>1, <1>2, <1>3 DEF InboxInv, InboxTypes, MarkedIsStored, ProcessedMeansStored,
                             RowsAreSent
  <1>6. InboxTypes'
    BY <1>2, <1>4, <1>5 DEF InboxInv, InboxTypes
  <1>. QED BY <1>2, <1>5, <1>6, HookWorkKeeps

LEMMA CommitKeeps ==
    ASSUME InboxInv, NEW r \in readings, CommitRead(r)
    PROVE  InboxInv'
  <1> DEFINE m == r.message
             mark == ToMark(m, TRUE)
  <1>1. m \in Sent /\ m \in MessageIds
    BY SentAreIds DEF InboxInv, RowsAreSent
  <1>2. /\ UNCHANGED <<thread, hooks, hookJobs, replying, unplaced, inboxFailures>>
        /\ readings' = (readings \ {r}) \cup {mark}
    BY DEF CommitRead
  <1>3. /\ readings' \subseteq Reads /\ IsFiniteSet(readings')
        /\ Cardinality(readings') <= MaxReaders
    <2>1. /\ readings \ {r} \subseteq Reads /\ IsFiniteSet(readings \ {r})
          /\ Cardinality(readings \ {r}) = Cardinality(readings) - 1
          /\ Cardinality(readings) \in Nat /\ Cardinality(readings) <= MaxReaders
      BY ReadingsShrink DEF InboxInv, InboxTypes
    <2>2. /\ IsFiniteSet((readings \ {r}) \cup {mark})
          /\ \/ Cardinality((readings \ {r}) \cup {mark}) = Cardinality(readings \ {r})
             \/ Cardinality((readings \ {r}) \cup {mark}) = Cardinality(readings \ {r}) + 1
      BY <2>1, FS_AddElement
    <2>3. mark \in Reads
      BY <1>1, MarksAre
    <2>4. Cardinality((readings \ {r}) \cup {mark}) <= MaxReaders
      BY <2>1, <2>2, InboxAssumption
    <2>5. (readings \ {r}) \cup {mark} \subseteq Reads
      BY <2>1, <2>3
    <2>. QED BY <1>2, <2>2, <2>4, <2>5
  <1>4. \A q \in readings' : q \in readings \/ (q.step = "mark" /\ q.message = m)
    BY <1>1, <1>2, MarksAre
  <1>5. CASE m \in Stored
    <2>1. UNCHANGED <<conversation, messageRows, excused>>
      BY <1>5 DEF CommitRead
    <2>2. InboxTypes'
      BY <1>2, <1>3, <2>1 DEF InboxInv, InboxTypes
    <2>. QED
      BY <1>2, <1>4, <1>5, <2>1, <2>2, HookWorkKeeps
         DEF InboxInv, RowsAreSent, MarkedIsStored, ProcessedMeansStored
  <1>6. CASE m \notin Stored
    <2>1. /\ conversation' = Recorded(r.seen, m)
          /\ messageRows' = [messageRows EXCEPT ![m] = IF Inbound(m) THEN "customer" ELSE "app"]
          /\ excused' = excused \cup {k \in {m} : Writing({r}) \/ conversation # r.seen}
      BY <1>6 DEF CommitRead
    <2>2. r.step = "write" /\ r.seen \in Conversations
      BY DEF CommitRead, InboxInv, InboxTypes, Reads
    <2>3. IF r.seen.exists
          THEN conversation.exists /\ \A k \in Outstanding : k <= r.seen.lastInboundAt
          ELSE ~conversation.exists
      BY <2>2 DEF CommitRead, Collides, InboxInv, WritersKnow
    <2>4. \/ m \in excused'
          \/ /\ r.seen = conversation
             /\ \A q \in readings' : q.step # "write"
             /\ \A p \in Colleagues : replying[p] = NoReply
      <3>1. mark.step # "write"
        BY <1>1, MarksAre
      <3>. QED BY <1>2, <2>1, <3>1 DEF Writing
    <2>5. excused \subseteq excused' /\ excused' \subseteq excused \cup {m}
      BY <2>1
    <2>. QED
      BY <1>1, <1>2, <1>3, <1>4, <1>6, <2>1, <2>2, <2>3, <2>4, <2>5, RecordingKeeps
  <1>. QED BY <1>5, <1>6

\* The inbox as it is, with a message brought in at once: Backfill, and the
\* assistant's view of the ingest.
LEMMA AtOnceKeeps ==
    ASSUME InboxInv, NEW m \in Sent, m \notin Stored, NEW x \in BOOLEAN,
           UNCHANGED <<thread, hooks, hookJobs, readings, replying, unplaced,
                       inboxFailures>>,
           conversation' = Recorded(conversation, m),
           messageRows' = [messageRows EXCEPT ![m] = IF Inbound(m) THEN "customer" ELSE "app"],
           excused' = excused \cup {k \in {m} : Writing({}) \/ x}
    PROVE  InboxInv'
  <1>1. /\ readings' \subseteq Reads /\ IsFiniteSet(readings')
        /\ Cardinality(readings') <= MaxReaders /\ conversation \in Conversations
    BY DEF InboxInv, InboxTypes
  <1>2. excused \subseteq excused' /\ excused' \subseteq excused \cup {m}
    OBVIOUS
  <1>3. \/ m \in excused'
        \/ /\ \A q \in readings' : q.step # "write"
           /\ \A p \in Colleagues : replying[p] = NoReply
    BY DEF Writing
  <1>4. conversation.exists => \A k \in Outstanding : k <= conversation.lastInboundAt
    BY DEF InboxInv, WritersKnow
  <1>. QED BY <1>1, <1>2, <1>3, <1>4, RecordingKeeps

LEMMA InboxStep == InboxInv /\ [InboxNext]_inboxVars => InboxInv'
  <1> SUFFICES ASSUME InboxInv, [InboxNext]_inboxVars PROVE InboxInv'
    OBVIOUS
  <1>1. ASSUME NEW s \in {"customer", "app"}, Writes(s) PROVE InboxInv'
    BY <1>1, SendingKeeps DEF Writes, Senders, InboxInv, InboxTypes
  <1>2. ASSUME NEW m \in MessageIds, Deliver(m) \/ Requeue(m) \/ Abandon(m) PROVE InboxInv'
    <2>1. m \in Sent
      BY <1>2 DEF Deliver, Requeue, Abandon, Swept, InboxInv, RowsAreSent
    <2>2. /\ UNCHANGED <<thread, messageRows, conversation, readings, replying, excused,
                         unplaced, inboxFailures>>
          /\ hookJobs' \subseteq Sent
          /\ \/ hooks' = hooks
             \/ \E s \in {"stored", "abandoned"} : hooks' = [hooks EXCEPT ![m] = s]
      BY <1>2, <2>1 DEF Deliver, Requeue, Abandon, InboxInv, RowsAreSent
    <2>3. /\ hooks' \in [MessageIds -> {"none", "stored", "processed", "abandoned"}]
          /\ \A k \in MessageIds : hooks'[k] = "processed" => k \in Stored \cup unplaced
          /\ \A k \in MessageIds : hooks'[k] # "none" => k \in Sent
      BY <2>1, <2>2 DEF InboxInv, InboxTypes, MarkedIsStored, ProcessedMeansStored, RowsAreSent
    <2>4. InboxTypes'
      BY <2>2, <2>3 DEF InboxInv, InboxTypes
    <2>5. unplaced \subseteq unplaced' /\ unplaced' \subseteq Sent
      BY <2>2 DEF InboxInv, RowsAreSent
    <2>. QED BY <2>2, <2>3, <2>4, <2>5, HookWorkKeeps
  <1>3. ASSUME NEW m \in MessageIds, Process(m) PROVE InboxInv'
    BY <1>3, ProcessKeeps
  <1>4. ASSUME NEW m \in MessageIds, Backfill(m) PROVE InboxInv'
    BY <1>4, AtOnceKeeps DEF Backfill
  <1>5. ASSUME NEW r \in readings, CommitRead(r) PROVE InboxInv'
    BY <1>5, CommitKeeps
  <1>6. ASSUME NEW r \in readings, MarkProcessed(r) \/ ReadFails(r) PROVE InboxInv'
    BY <1>6, ReadingEndsKeeps
  <1>7. ASSUME NEW p \in Colleagues, SendReply(p) PROVE InboxInv'
    BY <1>7, SendingKeeps DEF SendReply, Senders, InboxInv, InboxTypes
  <1>8. ASSUME NEW p \in Colleagues, RecordReply(p) PROVE InboxInv'
    BY <1>8, ReplyKeeps
  <1>9. ASSUME NEW p \in Colleagues, ReplyUnrecorded(p) PROVE InboxInv'
    <2>1. InboxTypes' /\ \A q \in Colleagues : replying'[q] \in {NoReply, replying[q]}
      BY <1>9 DEF ReplyUnrecorded, InboxInv, InboxTypes, NoReply
    <2>. QED
      BY <1>9, <2>1, HookWorkKeeps
         DEF ReplyUnrecorded, InboxInv, RowsAreSent, MarkedIsStored, ProcessedMeansStored
  <1>10. ASSUME NEW b \in BOOLEAN, SetHandled(b) PROVE InboxInv'
    BY <1>10, InboxSetHandledKeeps
  <1>11. CASE UNCHANGED inboxVars
    <2>1. InboxTypes'
      BY <1>11 DEF inboxVars, InboxInv, InboxTypes
    <2>. QED
      BY <1>11, <2>1, HookWorkKeeps
         DEF inboxVars, InboxInv, RowsAreSent, MarkedIsStored, ProcessedMeansStored
  <1>. QED
    BY <1>1, <1>2, <1>3, <1>4, <1>5, <1>6, <1>7, <1>8, <1>9, <1>10, <1>11
       DEF InboxNext, InboxProgress

\* For every number of messages, readers and colleagues, and whatever is lost,
\* late or repeated: the invariant of the inbox.
THEOREM InboxInvariant == InboxSpec => []InboxInv
  BY InboxStarts, InboxStep, PTL DEF InboxSpec

\* Each variable keeps its type, and a job or a colleague works on a message of
\* the platform's (apps/worker/src/messaging, features/messaging).
LEMMA InboxInvGivesTypes == InboxInv => InboxTypeOK
  <1> SUFFICES ASSUME InboxInv PROVE InboxTypeOK
    OBVIOUS
  <1> USE DEF InboxInv, InboxTypes, RowsAreSent
  <1>1. \A r \in readings : r.step \in {"write", "mark"}
    BY DEF Reads
  <1>2. /\ conversation.lastInboundAt \in {0} \cup {m \in Stored : Inbound(m)}
        /\ conversation.lastHumanReplyAt \in {0} \cup {m \in Stored : ~Inbound(m)}
    BY DEF ColumnsName
  <1>3. \A p \in Colleagues : replying[p] \in Sent \cup {0}
    BY DEF NoReply
  <1>. QED BY <1>1, <1>2, <1>3 DEF InboxTypeOK, Senders

\* Each variable of the inbox keeps its type.
THEOREM InboxTypeCorrect == InboxSpec => []InboxTypeOK
  BY InboxInvariant, InboxInvGivesTypes, PTL

\* An event that is marked processed, and its copy scrubbed, has its message in
\* the inbox, whichever transaction fails and whoever dies, unless the job that
\* marked it found no inbox to put it in (processWebhookEvent).
THEOREM ProcessedIsStored == InboxSpec => []ProcessedMeansStored
  <1>1. InboxInv => ProcessedMeansStored
    BY DEF InboxInv, MarkedIsStored
  <1>. QED BY <1>1, InboxInvariant, PTL

\* A customer's message that nobody answered and nobody marked handled keeps
\* the conversation from being shown as handled, unless two transactions met
\* (recordMessage, replyToConversation, setConversationHandled).
THEOREM WhoWaitsIsShown == InboxSpec => []WaitingIsShown
  <1>1. InboxInv => WaitingIsShown
    BY DEF InboxInv
  <1>. QED BY <1>1, InboxInvariant, PTL

----------------------------------------------------------------------------
(* Steps of the assistant, and of the inbox around it, keep its invariant. *)

LEMMA RunFacts ==
    ASSUME AssistantTypes, NEW r \in Runs
    PROVE  /\ runs[r] \in RunStates
           /\ runs[r].phase = "idle" <=> runs[r] = NoRun
           /\ runs[r].phase \in {"idle", "think"} \cup Looked
           /\ runs[r].phase \in Looked => runs[r].human \in Nat
           /\ runs[r].phase \in {"record", "hold", "close"} => runs[r].message \in Nat
  <1>1. runs[r] \in RunStates
    BY DEF AssistantTypes
  <1>2. CASE runs[r] = NoRun
    BY <1>1, <1>2 DEF NoRun, Looked
  <1>3. CASE runs[r] # NoRun
    BY <1>1, <1>3 DEF RunStates, NoRun, Looked
  <1>. QED BY <1>2, <1>3

LEMMA AssistantStarts == InboxInit /\ AssistantInit => AssistantInv
  <1> SUFFICES ASSUME InboxInit, AssistantInit PROVE AssistantInv
    OBVIOUS
  <1> USE AssistantAssumption DEF AssistantInit
  <1>1. InboxInv /\ Stored = {} /\ Sent = {} /\ Len(thread) = 0
    BY InboxStarts DEF InboxInit, Stored, Sent, MessageIds
  <1>2. AssistantTypes
    BY <1>1 DEF AssistantTypes, RunStates
  <1>3. PeopleAreQuiet
    BY <1>1 DEF PeopleAreQuiet, Heard
  <1>4. RunsKnow
    BY DEF RunsKnow, RunKnows, NoRun, Looked, SentBy
  <1>5. GateTellsQuiet
    BY <1>3 DEF GateTellsQuiet, InboxInit, NoReply
  <1>6. Undisturbed
    <2>1. InTurn(NoRun) /\ RecordedOrBy(NoRun)
      BY <1>1 DEF InTurn, RecordedOrBy, NoRun, Looked, InboxInit
    <2>. QED BY <2>1 DEF Undisturbed, NoRun, Unlocked, Abandoned
  <1>. QED BY <1>1, <1>2, <1>4, <1>5, <1>6 DEF AssistantInv

\* Around the runs: customers, colleagues and the inbox move.  What is recorded
\* meanwhile is excused and unheard where a run has looked.
LEMMA WorldKeeps ==
    ASSUME AssistantInv, InboxInv', UNCHANGED <<runs, runLock>>,
           \A m \in Sent : m \in Sent' /\ thread'[m] = thread[m],
           \A m \in Sent' : m \in Sent \/ thread'[m] # "assistant",
           Stored \subseteq Stored',
           conversation.exists => conversation'.exists,
           \A k \in Outstanding' : k \in Outstanding \/ ~LastLooks,
           \A k \in Heard' : k \in Heard \/ k <= quietUpTo' \/ ~LastLooks,
           quietUpTo <= quietUpTo', quietUpTo' \in 0 .. Len(thread'),
           unheard' \subseteq Stored', assistantJobs' \in Nat,
           inboxFailures' = 0 => inboxFailures = 0,
           GateTellsQuiet',
           \/ conversation'.lastHumanReplyAt = conversation.lastHumanReplyAt
           \/ /\ conversation'.lastHumanReplyAt \in Sent
              /\ \/ thread[conversation'.lastHumanReplyAt] # "assistant"
                 \/ conversation'.lastHumanReplyAt \notin Stored
    PROVE  AssistantInv'
  <1>1. AssistantTypes'
    BY DEF AssistantInv, AssistantTypes
  <1>2. Stored \subseteq Sent /\ quietUpTo \in Nat /\ quietUpTo' \in Nat /\ Heard \subseteq Nat
    BY SentAreIds DEF AssistantInv, InboxInv, RowsAreSent, AssistantTypes, Heard
  <1>3. LastLooks \/ ~LastLooks
    OBVIOUS
  <1>4. LastLooks => (PeopleAreQuiet => PeopleAreQuiet') /\ Outstanding' \subseteq Outstanding
    <2>1. ASSUME LastLooks, PeopleAreQuiet, NEW k \in Heard' PROVE k <= quietUpTo'
      <3>1. k \in Heard \/ k <= quietUpTo'
        BY <2>1, Zenon
      <3>2. CASE k \in Heard
        <4>1. k \in Nat /\ k <= quietUpTo
          BY <1>2, <2>1, <3>2 DEF PeopleAreQuiet
        <4>. QED BY <1>2, <4>1
      <3>. QED BY <3>1, <3>2
    <2>2. LastLooks => (PeopleAreQuiet => PeopleAreQuiet')
      BY <2>1 DEF PeopleAreQuiet
    <2>3. LastLooks => Outstanding' \subseteq Outstanding
      OBVIOUS
    <2>. QED BY <2>2, <2>3, Zenon
  <1>5. RunsKnow'
    <2> SUFFICES ASSUME NEW r \in Runs PROVE RunKnows(runs[r])'
      BY DEF RunsKnow
    <2>1. RunKnows(runs[r]) /\ runs'[r] = runs[r]
      BY DEF AssistantInv, RunsKnow
    <2>2. runs[r].phase \in Looked => LastLooks
      BY DEF LastLooks
    <2>3. runs[r].phase \in {"send", "hold"} \/ SentBy(runs[r]) => runs[r].phase \in Looked
      BY DEF SentBy, Looked
    <2>4. runs[r].phase = "record" => runs[r].phase \in Looked
      BY DEF Looked
    <2>5. SentBy(runs[r])' = SentBy(runs[r])
      BY DEF SentBy
    <2>6. runs[r].phase \in Looked /\ runs[r].human # 0 =>
              runs[r].human \in Stored' /\ thread'[runs[r].human] # "customer"
      BY <1>2, <2>1 DEF RunKnows, Inbound
    <2>. QED
      BY <1>4, <2>1, <2>2, <2>3, <2>4, <2>5, <2>6 DEF RunKnows, Inbound
  <1>6. ASSUME inboxFailures' = 0 PROVE Undisturbed'
    <2>1. Undisturbed
      BY <1>6 DEF AssistantInv
    <2>2. CustomerSpoke => CustomerSpoke'
      BY DEF CustomerSpoke, Inbound
    <2>3. ASSUME NEW r \in Runs PROVE InTurn(runs[r])'
      <3>1. InTurn(runs[r]) /\ RunKnows(runs[r]) /\ runs'[r] = runs[r]
        BY <2>1 DEF Undisturbed, AssistantInv, RunsKnow
      <3>2. runs[r].phase \in Looked /\ runs[r].human # 0 => thread'[runs[r].human] # "assistant"
        BY <1>2, <3>1 DEF InTurn, RunKnows
      <3>. QED BY <2>2, <3>1, <3>2 DEF InTurn
    <2> DEFINE holder == IF runLock \in Runs THEN runs[runLock] ELSE NoRun
    <2>4. PICK t : t = holder
      OBVIOUS
    <2>5. RecordedOrBy(t)
      BY <2>1, <2>4 DEF Undisturbed
    <2>6. \A k \in Sent' : thread'[k] = "assistant" =>
              k \in Stored' \/ (SentBy(t) /\ t.message = k)
      BY <2>5 DEF RecordedOrBy
    <2>7. conversation'.lastHumanReplyAt # 0
            /\ thread'[conversation'.lastHumanReplyAt] = "assistant" => SentBy(t)
      <3>1. CASE conversation'.lastHumanReplyAt = conversation.lastHumanReplyAt
        <4>1. conversation.lastHumanReplyAt # 0 => conversation.lastHumanReplyAt \in Sent
          BY <1>2 DEF AssistantInv, InboxInv, ColumnsName
        <4>. QED BY <2>5, <3>1, <4>1 DEF RecordedOrBy
      <3>2. CASE /\ conversation'.lastHumanReplyAt \in Sent
                 /\ \/ thread[conversation'.lastHumanReplyAt] # "assistant"
                    \/ conversation'.lastHumanReplyAt \notin Stored
        BY <2>5, <3>2 DEF RecordedOrBy
      <3>. QED BY <3>1, <3>2
    <2>8. RecordedOrBy(t)'
      BY <2>6, <2>7 DEF RecordedOrBy, SentBy
    <2>. QED BY <2>1, <2>3, <2>4, <2>8 DEF Undisturbed
  <1>. QED BY <1>1, <1>5, <1>6 DEF AssistantInv

\* Customers write, colleagues send, give up and handle.
LEMMA PeopleKeep ==
    ASSUME AssistantInv, UNCHANGED assistantVars,
           \/ \E s \in {"customer", "app"} : Writes(s)
           \/ \E p \in Colleagues : SendReply(p) \/ ReplyUnrecorded(p)
           \/ \E b \in BOOLEAN : SetHandled(b) \/ SetPaused(b)
    PROVE  AssistantInv'
  <1>1. InboxInv /\ AssistantTypes /\ GateTellsQuiet
    BY DEF AssistantInv
  <1>2. InboxInv'
    <2>1. ASSUME NEW b \in BOOLEAN, SetPaused(b) PROVE InboxInv'
      <3>1. /\ conversation' \in Conversations /\ conversation'.exists
            /\ conversation'.lastInboundAt = conversation.lastInboundAt
            /\ conversation'.lastHumanReplyAt = conversation.lastHumanReplyAt
            /\ conversation'.state = conversation.state
        BY <1>1, <2>1 DEF SetPaused, InboxInv, InboxTypes, Conversations
      <3>. QED BY <1>1, <2>1, <3>1, HandlingKeeps DEF SetPaused, InboxInv, InboxTypes
    <2>. QED BY <1>1, <2>1, InboxStep DEF InboxNext
  <1>3. /\ thread \in Seq(Senders) /\ Len(thread) <= MaxThread /\ Len(thread) \in Nat
        /\ Stored \subseteq Sent /\ conversation \in Conversations
        /\ replying \in [Colleagues -> Nat]
        /\ quietUpTo \in 0 .. Len(thread) /\ assistantJobs \in Nat /\ unheard \subseteq Stored
    BY <1>1 DEF InboxInv, InboxTypes, RowsAreSent, AssistantTypes
  <1>4. /\ \A m \in Sent : m \in Sent' /\ thread'[m] = thread[m]
        /\ \A m \in Sent' : m \in Sent \/ thread'[m] # "assistant"
        /\ Len(thread') \in Nat /\ Len(thread) <= Len(thread')
        /\ \/ UNCHANGED replying
           \/ \E p \in Colleagues :
                 \/ replying' = [replying EXCEPT ![p] = Len(thread) + 1]
                 \/ replying' = [replying EXCEPT ![p] = NoReply]
    <2>1. CASE UNCHANGED thread
      BY <2>1, <1>3 DEF Sent, Writes, OnPlatform, SendReply, ReplyUnrecorded, SetHandled, SetPaused
    <2>2. CASE thread' # thread
      <3>1. PICK s \in {"customer", "app", "person"} :
              /\ OnPlatform(s)
              /\ \/ UNCHANGED replying
                 \/ \E p \in Colleagues : replying' = [replying EXCEPT ![p] = Len(thread) + 1]
        BY <2>2 DEF Writes, SendReply, ReplyUnrecorded, SetHandled, SetPaused
      <3>2. thread' = Append(thread, s)
        BY <3>1 DEF OnPlatform
      <3>. QED BY <1>3, <3>1, <3>2 DEF Sent
    <2>. QED BY <2>1, <2>2
  <1>5. /\ UNCHANGED messageRows /\ excused \subseteq excused'
        /\ conversation.exists => conversation'.exists
        /\ conversation'.lastHumanReplyAt = conversation.lastHumanReplyAt
        /\ inboxFailures' = inboxFailures \/ inboxFailures' = inboxFailures + 1
    BY <1>3 DEF Writes, SendReply, ReplyUnrecorded, SetHandled, SetPaused, Conversations
  <1>6. Stored' = Stored
    BY <1>5 DEF Stored
  <1>7. Outstanding' \subseteq Outstanding /\ Heard' \subseteq Heard
    BY <1>3, <1>4, <1>5, <1>6 DEF Outstanding, Asked, Inbound, Heard, assistantVars
  <1>8. GateTellsQuiet'
    <2>1. PeopleAreQuiet => PeopleAreQuiet'
      BY <1>7 DEF PeopleAreQuiet, assistantVars
    <2>2. \A p \in Colleagues : replying'[p] # NoReply => quietUpTo' < replying'[p]
      BY <1>1, <1>3, <1>4 DEF GateTellsQuiet, assistantVars, NoReply
    <2>. QED BY <1>1, <1>5, <2>1, <2>2 DEF GateTellsQuiet, HumanActive, assistantVars
  <1>9. inboxFailures' = 0 => inboxFailures = 0
    BY <1>1, <1>5 DEF InboxInv, InboxTypes
  <1>10. UNCHANGED <<runs, runLock, quietUpTo, unheard, assistantJobs>>
    BY DEF assistantVars
  <1>11. quietUpTo <= quietUpTo' /\ quietUpTo' \in 0 .. Len(thread')
    BY <1>3, <1>4, <1>10
  <1>. QED
    BY <1>2, <1>3, <1>4, <1>5, <1>6, <1>7, <1>8, <1>9, <1>10, <1>11, WorldKeeps

LEMMA HearReplyKeeps ==
    ASSUME AssistantInv, NEW p \in Colleagues, RecordReply(p), Hear(replying[p]),
           UNCHANGED <<assistantJobs, runs, runLock, quietUpTo>>
    PROVE  AssistantInv'
  <1> DEFINE m == replying[p]
  <1>1. InboxInv /\ AssistantTypes /\ GateTellsQuiet /\ InboxInv'
    BY ReplyKeeps DEF AssistantInv
  <1>2. /\ m \in Sent /\ m \in MessageIds /\ m \in Nat /\ m # 0 /\ thread[m] = "person"
        /\ quietUpTo < m /\ conversation.exists
    BY <1>1, SentAreIds DEF RecordReply, InboxInv, RowsAreSent, NoReply, GateTellsQuiet
  <1>3. /\ UNCHANGED <<thread, inboxFailures>> /\ replying' = [replying EXCEPT ![p] = NoReply]
        /\ quietUpTo \in 0 .. Len(thread) /\ quietUpTo \in Nat
        /\ assistantJobs \in Nat /\ unheard \subseteq Stored
        /\ Stored \subseteq Sent /\ Sent' = Sent
        /\ unheard' = unheard \cup {k \in {m} : LastLooks}
    BY <1>1 DEF RecordReply, AssistantTypes, InboxInv, RowsAreSent, Sent, Hear
  <1>4. Stored' = Stored \cup {m} /\ Outstanding' = Outstanding
    BY <1>1, <1>2 DEF RecordReply, Stored, Outstanding, Asked, Inbound, InboxInv, InboxTypes
  <1>5. \A k \in Heard' : k \in Heard \/ (k = m /\ ~LastLooks /\ m \notin Stored)
    BY <1>3, <1>4 DEF Heard
  <1>6. /\ conversation'.exists
        /\ IF m \in Stored THEN conversation' = conversation
           ELSE conversation'.lastHumanReplyAt = m
    <2>1. CASE m \in Stored
      BY <2>1, <1>2 DEF RecordReply
    <2>2. CASE m \notin Stored
      <3>1. conversation' = Answered(m) /\ conversation \in Conversations
        BY <2>2, <1>1 DEF RecordReply, InboxInv, InboxTypes
      <3>. QED BY <2>2, <3>1, <1>2 DEF Answered, Conversations
    <2>. QED BY <2>1, <2>2
  <1>7. GateTellsQuiet'
    <2>1. \A q \in Colleagues : replying'[q] # NoReply => quietUpTo' < replying'[q]
      BY <1>1, <1>3 DEF GateTellsQuiet, InboxInv, InboxTypes
    <2>2. ~HumanActive(conversation)' => PeopleAreQuiet'
      <3>1. CASE m \in Stored
        BY <3>1, <1>1, <1>5, <1>6 DEF GateTellsQuiet, PeopleAreQuiet, HumanActive
      <3>2. CASE m \notin Stored
        BY <3>2, <1>2, <1>3, <1>6 DEF HumanActive
      <3>. QED BY <3>1, <3>2
    <2>. QED BY <2>1, <2>2 DEF GateTellsQuiet
  <1>8. /\ \A k \in Sent : k \in Sent' /\ thread'[k] = thread[k]
        /\ \A k \in Sent' : k \in Sent \/ thread'[k] # "assistant"
        /\ Stored \subseteq Stored' /\ unheard' \subseteq Stored'
        /\ quietUpTo <= quietUpTo' /\ quietUpTo' \in 0 .. Len(thread')
        /\ \A k \in Outstanding' : k \in Outstanding \/ ~LastLooks
        /\ \A k \in Heard' : k \in Heard \/ k <= quietUpTo' \/ ~LastLooks
    BY <1>3, <1>4, <1>5
  <1>. QED BY <1>1, <1>2, <1>3, <1>6, <1>7, <1>8, WorldKeeps

LEMMA IngestKeeps ==
    ASSUME AssistantInv, NEW m \in MessageIds, Ingest(m)
    PROVE  AssistantInv'
  <1>1. InboxInv /\ AssistantTypes /\ GateTellsQuiet
    BY DEF AssistantInv
  <1>2. m \in Sent /\ m \notin Stored /\ m \in Nat /\ m # 0
    BY <1>1, SentAreIds DEF Ingest, InboxInv
  <1>3. LastLooks \in BOOLEAN
    BY DEF LastLooks
  <1>4. InboxInv'
    <2>1. /\ UNCHANGED <<thread, hooks, hookJobs, readings, replying, unplaced,
                         inboxFailures>>
          /\ conversation' = Recorded(conversation, m)
          /\ messageRows' = [messageRows EXCEPT ![m] = IF Inbound(m) THEN "customer" ELSE "app"]
          /\ excused' = excused \cup {k \in {m} : Writing({}) \/ LastLooks}
      BY DEF Ingest
    <2>. QED BY <1>1, <1>2, <1>3, <2>1, AtOnceKeeps
  <1>5. /\ UNCHANGED <<thread, replying, inboxFailures, runs, runLock, quietUpTo>>
        /\ quietUpTo \in 0 .. Len(thread) /\ quietUpTo \in Nat
        /\ Stored \subseteq Sent /\ Sent' = Sent
    BY <1>1 DEF Ingest, AssistantTypes, InboxInv, RowsAreSent, Sent
  <1>6. assistantJobs' \in Nat
    BY <1>1 DEF Ingest, AssistantTypes
  <1>7. Stored' = Stored \cup {m} /\ (\A k : Inbound(k)' = Inbound(k))
    BY <1>1 DEF Ingest, Stored, Inbound, InboxInv, InboxTypes
  <1>8. unheard \subseteq unheard' /\ unheard' \subseteq unheard \cup {m}
        /\ (thread[m] \in {"app", "person"} /\ LastLooks => m \in unheard')
    BY DEF Ingest, Hear
  <1>9. \A k \in Heard' : k \in Heard \/ (k = m /\ ~LastLooks /\ ~Inbound(m))
    BY <1>5, <1>7, <1>8 DEF Heard, Inbound
  <1>10. \A k \in Outstanding' : k \in Outstanding \/ ~LastLooks
    BY <1>7 DEF Outstanding, Asked, Ingest
  <1>11. /\ conversation'.exists
         /\ Inbound(m) => conversation'.lastHumanReplyAt = conversation.lastHumanReplyAt
         /\ ~Inbound(m) => conversation'.lastHumanReplyAt =
                IF ~conversation.exists \/ m > conversation.lastHumanReplyAt
                THEN m ELSE conversation.lastHumanReplyAt
         /\ conversation.lastHumanReplyAt \in Nat
    <2>1. conversation \in Conversations /\ conversation' = Recorded(conversation, m)
      BY <1>1 DEF Ingest, InboxInv, InboxTypes
    <2>2. conversation.lastHumanReplyAt \in Nat
      BY <2>1 DEF Conversations
    <2>. QED BY <1>2, <2>1, <2>2, RecordedIs
  <1>12. ~conversation.exists => Heard = {}
    BY <1>1 DEF InboxInv, RowsAreSent, Heard
  <1>13. GateTellsQuiet'
    <2>1. \A q \in Colleagues : replying'[q] # NoReply => quietUpTo' < replying'[q]
      BY <1>1, <1>5 DEF GateTellsQuiet
    <2>2. ASSUME ~HumanActive(conversation)' PROVE PeopleAreQuiet'
      <3>1. ~(conversation'.lastHumanReplyAt > quietUpTo)
        BY <2>2, <1>5 DEF HumanActive
      <3>2. \A k \in Heard : k <= quietUpTo
        <4>1. CASE conversation.exists
          <5>1. ~(conversation.lastHumanReplyAt > quietUpTo)
            BY <4>1, <3>1, <1>2, <1>5, <1>11
          <5>. QED BY <5>1, <1>1 DEF GateTellsQuiet, HumanActive, PeopleAreQuiet
        <4>2. CASE ~conversation.exists
          BY <4>2, <1>12
        <4>. QED BY <4>1, <4>2
      <3>3. ~Inbound(m) => m <= quietUpTo
        BY <3>1, <1>2, <1>5, <1>11
      <3>. QED BY <3>2, <3>3, <1>5, <1>9 DEF PeopleAreQuiet
    <2>. QED BY <2>1, <2>2 DEF GateTellsQuiet
  <1>14. /\ \A k \in Sent : k \in Sent' /\ thread'[k] = thread[k]
         /\ \A k \in Sent' : k \in Sent \/ thread'[k] # "assistant"
         /\ Stored \subseteq Stored' /\ unheard' \subseteq Stored'
         /\ quietUpTo <= quietUpTo' /\ quietUpTo' \in 0 .. Len(thread')
    BY <1>1, <1>5, <1>7, <1>8 DEF AssistantTypes
  <1>15. \A k \in Heard' : k \in Heard \/ k <= quietUpTo' \/ ~LastLooks
    BY <1>9
  <1>. QED
    BY <1>2, <1>4, <1>5, <1>6, <1>10, <1>11, <1>13, <1>14, <1>15, WorldKeeps

\* While nothing is about to be recorded by the run that holds the lock, or
\* nobody holds it, all the assistant said is recorded as its own.
LEMMA NothingPending ==
    ASSUME Undisturbed, AssistantTypes,
           \A r \in Runs : ~SentBy(runs[r])
    PROVE  /\ \A k \in Sent : thread[k] = "assistant" => k \in Stored
           /\ conversation.lastHumanReplyAt # 0 =>
                  thread[conversation.lastHumanReplyAt] # "assistant"
  <1>1. PICK t : t = IF runLock \in Runs THEN runs[runLock] ELSE NoRun
    OBVIOUS
  <1>2. ~SentBy(t)
    BY <1>1 DEF SentBy, NoRun
  <1>3. RecordedOrBy(t)
    BY <1>1 DEF Undisturbed
  <1>. QED BY <1>2, <1>3 DEF RecordedOrBy

\* A step of a run: it goes on as t, may have said something, and the others
\* stay where they are.
LEMMA RunMoves ==
    ASSUME AssistantInv, InboxInv', NEW r \in Runs, NEW t \in RunStates,
           runs' = [runs EXCEPT ![r] = t],
           runLock' \in Runs \cup {Unlocked, Abandoned},
           UNCHANGED <<quietUpTo, unheard, replying>>,
           assistantJobs' \in Nat,
           \A m \in Sent : m \in Sent' /\ thread'[m] = thread[m],
           Stored \subseteq Stored', Len(thread) <= Len(thread'),
           conversation.exists => conversation'.exists,
           Outstanding' \subseteq Outstanding, Heard' \subseteq Heard,
           \/ conversation'.lastHumanReplyAt = conversation.lastHumanReplyAt
           \/ PeopleAreQuiet,
           RunKnows(t)',
           inboxFailures' = 0 =>
               /\ inboxFailures = 0
               /\ runLock \in {r, Unlocked}
               /\ runLock' = IF t = NoRun THEN Unlocked ELSE r
               /\ InTurn(t)' /\ RecordedOrBy(t)'
    PROVE  AssistantInv'
  <1>1. InboxInv /\ AssistantTypes /\ RunsKnow /\ GateTellsQuiet
    BY DEF AssistantInv
  <1>2. AssistantTypes'
    <2>1. Len(thread) \in Nat /\ Len(thread') \in Nat
      BY <1>1 DEF InboxInv, InboxTypes
    <2>2. runs' \in [Runs -> RunStates]
      BY <1>1 DEF AssistantTypes
    <2>3. quietUpTo' \in 0 .. Len(thread')
      BY <1>1, <2>1 DEF AssistantTypes
    <2>. QED BY <1>1, <2>2, <2>3 DEF AssistantTypes
  <1>3. /\ runs'[r] = t
        /\ \A q \in Runs \ {r} : runs'[q] = runs[q]
    BY <1>1 DEF AssistantTypes
  <1>4. PeopleAreQuiet => PeopleAreQuiet'
    BY DEF PeopleAreQuiet
  <1>5. RunsKnow'
    <2> SUFFICES ASSUME NEW q \in Runs, q # r PROVE RunKnows(runs[q])'
      BY <1>3 DEF RunsKnow
    <2>1. RunKnows(runs[q]) /\ runs'[q] = runs[q]
      BY <1>1, <1>3 DEF RunsKnow
    <2>2. Stored \subseteq Sent
      BY <1>1 DEF InboxInv, RowsAreSent
    <2>3. runs[q].phase \in Looked /\ runs[q].human # 0 =>
              runs[q].human \in Stored' /\ thread'[runs[q].human] # "customer"
      BY <2>1, <2>2 DEF RunKnows, Inbound
    <2>4. SentBy(runs[q])' = SentBy(runs[q])
      BY <2>1 DEF SentBy
    <2>. QED BY <1>4, <2>1, <2>3, <2>4 DEF RunKnows, Inbound
  <1>6. GateTellsQuiet'
    <2>1. ~HumanActive(conversation)' => PeopleAreQuiet'
      BY <1>1, <1>4 DEF GateTellsQuiet, HumanActive
    <2>. QED BY <1>1, <2>1 DEF GateTellsQuiet
  <1>7. ASSUME inboxFailures' = 0 PROVE Undisturbed'
    <2>1. /\ Undisturbed /\ runLock \in {r, Unlocked}
          /\ runLock' = IF t = NoRun THEN Unlocked ELSE r
          /\ InTurn(t)' /\ RecordedOrBy(t)'
      BY <1>7 DEF AssistantInv
    <2>2. \A q \in Runs \ {r} : runs[q].phase = "idle" /\ runs[q] = NoRun
      BY <1>1, <2>1, RunFacts, AssistantAssumption DEF Undisturbed
    <2>3. \A q \in Runs : runs'[q].phase # "idle" => runLock' = q
      BY <1>3, <2>1, <2>2 DEF NoRun
    <2>4. runLock' # Abandoned
      BY <2>1, AssistantAssumption DEF Unlocked, Abandoned
    <2>5. \A q \in Runs : InTurn(runs[q])'
      <3>1. InTurn(NoRun)'
        BY DEF InTurn, NoRun, Looked
      <3> TAKE q \in Runs
      <3>2. CASE q = r
        BY <3>2, <2>1, <1>3
      <3>3. CASE q # r
        BY <3>1, <3>3, <2>2, <1>3
      <3>. QED BY <3>2, <3>3
    <2>6. t = IF runLock' \in Runs THEN runs'[runLock'] ELSE NoRun
      BY <1>3, <2>1, AssistantAssumption
    <2>. QED BY <2>1, <2>3, <2>4, <2>5, <2>6 DEF Undisturbed
  <1>. QED BY <1>2, <1>5, <1>6, <1>7 DEF AssistantInv

\* A step that writes nothing of the conversation's.
LEMMA RunMovesOnly ==
    ASSUME AssistantInv, NEW r \in Runs, NEW t \in RunStates,
           runs' = [runs EXCEPT ![r] = t],
           runLock' \in Runs \cup {Unlocked, Abandoned},
           UNCHANGED <<thread, hooks, hookJobs, messageRows, conversation, readings,
                       replying, excused, unplaced, quietUpTo, unheard>>,
           inboxFailures' \in Nat, assistantJobs' \in Nat,
           RunKnows(t),
           inboxFailures' = 0 =>
               /\ inboxFailures = 0
               /\ runLock \in {r, Unlocked}
               /\ runLock' = IF t = NoRun THEN Unlocked ELSE r
               /\ InTurn(t) /\ RecordedOrBy(t)
    PROVE  AssistantInv'
  <1>1. InboxInv'
    <2>1. InboxInv /\ InboxTypes'
      BY DEF AssistantInv, InboxInv, InboxTypes
    <2>. QED
      BY <2>1, HookWorkKeeps
         DEF InboxInv, RowsAreSent, MarkedIsStored, ProcessedMeansStored
  <1>2. Sent' = Sent /\ Stored' = Stored /\ Outstanding' = Outstanding /\ Heard' = Heard
    BY DEF Sent, Stored, Outstanding, Asked, Inbound, Heard
  <1>3. /\ RunKnows(t)'
        /\ InTurn(t) => InTurn(t)'
        /\ RecordedOrBy(t) => RecordedOrBy(t)'
    BY <1>2 DEF RunKnows, InTurn, RecordedOrBy, CustomerSpoke, SentBy, Inbound, PeopleAreQuiet
  <1>4. inboxFailures' = 0 =>
               /\ inboxFailures = 0
               /\ runLock \in {r, Unlocked}
               /\ runLock' = IF t = NoRun THEN Unlocked ELSE r
               /\ InTurn(t)' /\ RecordedOrBy(t)'
    BY <1>3
  <1>5. /\ \A m \in Sent : m \in Sent' /\ thread'[m] = thread[m]
        /\ Stored \subseteq Stored' /\ Len(thread) <= Len(thread')
        /\ conversation.exists => conversation'.exists
        /\ Outstanding' \subseteq Outstanding /\ Heard' \subseteq Heard
        /\ conversation'.lastHumanReplyAt = conversation.lastHumanReplyAt
        /\ UNCHANGED <<quietUpTo, unheard, replying>>
    BY <1>2 DEF AssistantInv, InboxInv, InboxTypes
  <1>. QED BY <1>1, <1>3, <1>4, <1>5, RunMoves

\* The assistant says something.
LEMMA RunSpeaks ==
    ASSUME AssistantInv, NEW r \in Runs, NEW t \in RunStates,
           runs' = [runs EXCEPT ![r] = t],
           AssistantSends,
           UNCHANGED <<runLock, assistantJobs, quietUpTo, unheard>>,
           \/ inboxFailures' = inboxFailures + 1
           \/ inboxFailures' = inboxFailures /\ SentBy(t) /\ t.message = Len(thread) + 1,
           t.phase \in {"record", "close"},
           runs[r].phase \in {"send", "hold"},
           t.human # 0 => t.human \in Stored /\ ~Inbound(t.human),
           t.phase = "record" => t.message # 0,
           SentBy(t) => t.message = Len(thread) + 1,
           inboxFailures = 0 => t.human = runs[r].human \/ t.human = conversation.lastHumanReplyAt
    PROVE  AssistantInv'
  <1>1. InboxInv /\ AssistantTypes /\ RunsKnow /\ GateTellsQuiet /\ inboxFailures \in Nat
    BY DEF AssistantInv, InboxInv, InboxTypes
  <1>2. OnPlatform("assistant") /\ thread \in Seq(Senders) /\ Len(thread) <= MaxThread
        /\ Len(thread) \in Nat
    BY <1>1 DEF AssistantSends, InboxInv, InboxTypes
  <1>3. /\ \A m \in Sent : m \in Sent' /\ thread'[m] = thread[m]
        /\ Len(thread) + 1 \in Sent' /\ thread'[Len(thread) + 1] = "assistant"
        /\ Len(thread') = Len(thread) + 1
    BY <1>2, ThreadGrows DEF Senders
  <1>4. InboxInv'
    BY <1>1, <1>2, SendingKeeps DEF AssistantSends, Senders
  <1>5. Stored' = Stored /\ Stored \subseteq Sent
    BY <1>1 DEF AssistantSends, Stored, InboxInv, RowsAreSent
  <1>6. Outstanding' = Outstanding /\ Heard' = Heard
    BY <1>3, <1>5 DEF AssistantSends, Outstanding, Asked, Inbound, Heard
  <1>7. RunKnows(runs[r])
    BY <1>1 DEF RunsKnow
  <1>8. RunKnows(t)'
    <2>1. conversation'.exists
      BY <1>7 DEF RunKnows, AssistantSends
    <2>2. t.human # 0 => t.human \in Stored' /\ ~Inbound(t.human)'
      BY <1>3, <1>5 DEF Inbound
    <2>3. PeopleAreQuiet'
      BY <1>6, <1>7 DEF RunKnows, PeopleAreQuiet
    <2>4. \A k \in Outstanding' : k < Len(thread) + 1
      BY <1>2, <1>5, <1>6 DEF Outstanding, Asked, Sent
    <2>5. SentBy(t)' = SentBy(t)
      BY DEF SentBy
    <2>6. SentBy(t) => t.message \in Sent' /\ thread'[t.message] = "assistant"
      BY <1>3
    <2>7. t.phase = "record" => t.message # 0 /\ \A k \in Outstanding' : k < t.message
      BY <2>4 DEF SentBy
    <2>. QED BY <2>1, <2>2, <2>3, <2>5, <2>6, <2>7 DEF RunKnows
  <1>9. ASSUME inboxFailures' = 0
        PROVE  /\ inboxFailures = 0 /\ runLock = r /\ t # NoRun
               /\ InTurn(t)' /\ RecordedOrBy(t)'
    <2>1. inboxFailures = 0 /\ SentBy(t) /\ t.message = Len(thread) + 1
      BY <1>1, <1>9
    <2>2. Undisturbed /\ runLock = r /\ InTurn(runs[r])
      BY <2>1 DEF AssistantInv, Undisturbed
    <2>3. \A q \in Runs : ~SentBy(runs[q])
      BY <2>2 DEF Undisturbed, SentBy
    <2>4. /\ \A k \in Sent : thread[k] = "assistant" => k \in Stored
          /\ conversation.lastHumanReplyAt # 0 =>
                 thread[conversation.lastHumanReplyAt] # "assistant"
      BY <1>1, <2>2, <2>3, NothingPending
    <2>5. runs[r].human # 0 => thread[runs[r].human] # "assistant"
      BY <2>2 DEF InTurn, Looked
    <2>6. t.human # 0 => thread'[t.human] # "assistant"
      BY <1>3, <1>5, <2>1, <2>4, <2>5
    <2>7. InTurn(t)'
      BY <2>6 DEF InTurn
    <2>8. RecordedOrBy(t)'
      <3>1. \A k \in Sent' : k \in Sent \/ k = Len(thread) + 1
        BY <1>2, <1>3 DEF Sent
      <3>2. SentBy(t)'
        BY <2>1 DEF SentBy
      <3>. QED BY <1>3, <1>5, <2>1, <2>4, <3>1, <3>2 DEF RecordedOrBy
    <2>. QED BY <2>1, <2>2, <2>7, <2>8 DEF NoRun
  <1>10. /\ runLock' \in Runs \cup {Unlocked, Abandoned}
         /\ UNCHANGED <<quietUpTo, unheard, replying, conversation>>
         /\ assistantJobs' \in Nat /\ Len(thread) <= Len(thread')
    BY <1>1, <1>2, <1>3 DEF AssistantSends, AssistantTypes
  <1>. QED BY <1>3, <1>4, <1>5, <1>6, <1>8, <1>9, <1>10, RunMoves

\* A run records what it said, or closes its hand-over, and is done.
LEMMA RunRecords ==
    ASSUME AssistantInv, NEW r \in Runs, NEW t, t = runs[r],
           t.phase \in {"record", "close"}, Release(r),
           messageRows' = IF t.message = 0 THEN messageRows
                          ELSE [messageRows EXCEPT ![t.message] = "assistant"],
           UNCHANGED <<thread, hooks, hookJobs, readings, replying, excused,
                       unplaced, inboxFailures, assistantJobs, quietUpTo, unheard>>,
           conversation' \in Conversations,
           conversation'.exists = conversation.exists,
           conversation'.lastInboundAt = conversation.lastInboundAt,
           conversation'.lastHumanReplyAt =
               IF t.message = 0 THEN conversation.lastHumanReplyAt ELSE t.human,
           conversation'.state \in {"NEW", conversation.state} \/ t.phase = "record"
    PROVE  AssistantInv'
  <1>1. InboxInv /\ AssistantTypes /\ RunsKnow /\ GateTellsQuiet /\ RunKnows(t)
    BY DEF AssistantInv, RunsKnow
  <1>2. /\ conversation.exists
        /\ t.human # 0 => t.human \in Stored /\ ~Inbound(t.human)
        /\ t.message # 0 => t.message \in Sent /\ thread[t.message] = "assistant" /\ PeopleAreQuiet
        /\ t.phase = "record" => t.message # 0 /\ \A k \in Outstanding : k < t.message
    BY <1>1 DEF RunKnows, SentBy, Looked
  <1>3. /\ Sent' = Sent /\ Sent \subseteq MessageIds /\ Sent \subseteq Nat \ {0}
        /\ \A k : Inbound(k)' = Inbound(k)
    BY <1>1, SentAreIds DEF Sent, Inbound, InboxInv
  <1>4. Stored' = IF t.message = 0 THEN Stored ELSE Stored \cup {t.message}
    BY <1>1, <1>2, <1>3 DEF Stored, InboxInv, InboxTypes
  <1>5. Outstanding' = Outstanding /\ Heard' = Heard
    BY <1>2, <1>4 DEF Outstanding, Asked, Inbound, Heard
  <1>6. InboxInv'
    <2>1. InboxTypes'
      <3>1. messageRows' \in [MessageIds -> Senders \cup {"absent"}]
        BY <1>1 DEF InboxInv, InboxTypes, Senders
      <3>. QED BY <1>1, <3>1 DEF InboxInv, InboxTypes
    <2>2. RowsAreSent'
      BY <1>1, <1>2, <1>3, <1>4 DEF InboxInv, RowsAreSent
    <2>3. ColumnsName'
      BY <1>1, <1>2, <1>3, <1>4 DEF InboxInv, ColumnsName
    <2>4. MarkedIsStored'
      BY <1>1, <1>4 DEF InboxInv, MarkedIsStored, ProcessedMeansStored
    <2>5. WritersKnow'
      BY <1>1, <1>2, <1>5 DEF InboxInv, WritersKnow
    <2>6. WaitingIsShown'
      <3> SUFFICES ASSUME conversation'.state = "HANDLED", NEW k \in Outstanding
                   PROVE  \E j \in Stored' : j > k /\ ~Inbound(j)
        BY <1>3, <1>5 DEF WaitingIsShown, Outstanding
      <3>1. CASE conversation.state = "HANDLED"
        BY <3>1, <1>1, <1>4 DEF InboxInv, WaitingIsShown, Outstanding
      <3>2. CASE t.phase = "record"
        BY <3>2, <1>2, <1>3, <1>4 DEF Inbound, Outstanding, Asked
      <3>. QED BY <3>1, <3>2
    <2>. QED BY <2>1, <2>2, <2>3, <2>4, <2>5, <2>6 DEF InboxInv
  <1>7. runs' = [runs EXCEPT ![r] = NoRun] /\ NoRun \in RunStates
        /\ runLock' = IF runLock = r THEN Unlocked ELSE runLock
    BY DEF Release, ToPhase, RunStates
  <1>8. RunKnows(NoRun)'
    BY DEF RunKnows, NoRun, Looked, SentBy
  <1>9. ASSUME inboxFailures' = 0
        PROVE  inboxFailures = 0 /\ runLock = r /\ InTurn(NoRun)' /\ RecordedOrBy(NoRun)'
    <2>1. inboxFailures = 0 /\ Undisturbed
      BY <1>9 DEF AssistantInv
    <2>2. runLock = r /\ InTurn(t) /\ RecordedOrBy(t)
      BY <2>1 DEF Undisturbed
    <2>3. InTurn(NoRun)'
      BY DEF InTurn, NoRun, Looked
    <2>4. \A k \in Sent : thread[k] = "assistant" => k \in Stored'
      BY <1>4, <2>2 DEF RecordedOrBy, SentBy
    <2>5. conversation'.lastHumanReplyAt # 0 =>
              thread[conversation'.lastHumanReplyAt] # "assistant"
      BY <2>2 DEF RecordedOrBy, SentBy, InTurn, Looked
    <2>6. RecordedOrBy(NoRun)'
      BY <1>3, <2>4, <2>5 DEF RecordedOrBy
    <2>. QED BY <2>1, <2>2, <2>3, <2>6
  <1>10. /\ runLock' \in Runs \cup {Unlocked, Abandoned} /\ assistantJobs' \in Nat
         /\ Len(thread') = Len(thread) /\ Len(thread) \in Nat
         /\ Stored \subseteq Stored'
    BY <1>1, <1>4, <1>7 DEF AssistantTypes, InboxInv, InboxTypes
  <1>11. \/ conversation'.lastHumanReplyAt = conversation.lastHumanReplyAt
         \/ PeopleAreQuiet
    BY <1>2
  <1>12. inboxFailures' = 0 =>
               /\ inboxFailures = 0
               /\ runLock \in {r, Unlocked}
               /\ runLock' = IF NoRun = NoRun THEN Unlocked ELSE r
               /\ InTurn(NoRun)' /\ RecordedOrBy(NoRun)'
    BY <1>7, <1>9
  <1>13. /\ \A m \in Sent : m \in Sent' /\ thread'[m] = thread[m]
         /\ Len(thread) <= Len(thread')
         /\ conversation.exists => conversation'.exists
         /\ Outstanding' \subseteq Outstanding /\ Heard' \subseteq Heard
         /\ UNCHANGED <<quietUpTo, unheard, replying>>
    BY <1>2, <1>3, <1>5, <1>10
  <1>. QED BY <1>6, <1>7, <1>8, <1>10, <1>11, <1>12, <1>13, RunMoves

----------------------------------------------------------------------------
(* Each step of a run.                                                     *)

LEMMA LookedNow ==
    ASSUME AssistantInv
    PROVE  /\ conversation.lastHumanReplyAt \in Nat
           /\ conversation.lastHumanReplyAt # 0 =>
                  conversation.lastHumanReplyAt \in Stored /\ ~Inbound(conversation.lastHumanReplyAt)
           /\ GateOpen(conversation) => PeopleAreQuiet
           /\ GateOpen(conversation) \in BOOLEAN
           /\ inboxFailures \in Nat /\ assistantJobs \in Nat
           /\ runLock \in Runs \cup {Unlocked, Abandoned}
  <1>1. InboxInv /\ GateTellsQuiet /\ AssistantTypes
    BY DEF AssistantInv
  <1>2. GateOpen(conversation) => ~HumanActive(conversation)
    BY DEF GateOpen
  <1>3. GateOpen(conversation) \in BOOLEAN
    BY DEF GateOpen
  <1>4. conversation.lastHumanReplyAt \in Nat
    BY <1>1 DEF InboxInv, InboxTypes, Conversations
  <1>. QED
    BY <1>1, <1>2, <1>3, <1>4
       DEF InboxInv, InboxTypes, ColumnsName, GateTellsQuiet, AssistantTypes

LEMMA DecideKeeps ==
    ASSUME AssistantInv, NEW r \in Runs, Decide(r)
    PROVE  AssistantInv'
  <1>1. AssistantTypes /\ RunKnows(runs[r])
    BY DEF AssistantInv, RunsKnow
  <1>2. UNCHANGED <<inboxVars, assistantJobs, quietUpTo, unheard>> /\ runs[r].phase = "think"
    BY DEF Decide, Phase
  <1>3. PICK t \in RunStates :
          /\ runs' = [runs EXCEPT ![r] = t]
          /\ \/ /\ t = NoRun /\ runLock' = IF runLock = r THEN Unlocked ELSE runLock
             \/ /\ t = [phase |-> "send", human |-> conversation.lastHumanReplyAt]
                /\ runLock' = runLock /\ GateOpen(conversation)
    BY LookedNow DEF Decide, Release, ToPhase, RunStates, StillOpen
  <1>4. runLock' \in Runs \cup {Unlocked, Abandoned}
    BY <1>3, LookedNow
  <1>5. RunKnows(t)
    <2>1. CASE t = NoRun
      BY <2>1 DEF RunKnows, NoRun, Looked, SentBy
    <2>2. CASE t # NoRun
      <3>1. t = [phase |-> "send", human |-> conversation.lastHumanReplyAt]
            /\ GateOpen(conversation)
        BY <2>2, <1>3
      <3>. QED BY <1>1, <1>2, <3>1, LookedNow DEF RunKnows, SentBy, Looked
    <2>. QED BY <2>1, <2>2
  <1>6. ASSUME inboxFailures' = 0
        PROVE  /\ inboxFailures = 0 /\ runLock = r
               /\ runLock' = IF t = NoRun THEN Unlocked ELSE r
               /\ InTurn(t) /\ RecordedOrBy(t)
    <2>1. inboxFailures = 0 /\ Undisturbed
      BY <1>2, <1>6 DEF inboxVars, AssistantInv
    <2>2. runLock = r /\ InTurn(runs[r]) /\ \A q \in Runs : ~SentBy(runs[q])
      BY <1>2, <2>1 DEF Undisturbed, SentBy
    <2>3. /\ \A k \in Sent : thread[k] = "assistant" => k \in Stored
          /\ conversation.lastHumanReplyAt # 0 =>
                 thread[conversation.lastHumanReplyAt] # "assistant"
      BY <1>1, <2>1, <2>2, NothingPending
    <2>4. InTurn(t)
      BY <1>2, <1>3, <2>2, <2>3 DEF InTurn, NoRun, Looked
    <2>5. RecordedOrBy(t)
      BY <2>3 DEF RecordedOrBy
    <2>6. runLock' = IF t = NoRun THEN Unlocked ELSE r
      BY <1>3, <2>2 DEF NoRun
    <2>. QED BY <2>1, <2>2, <2>4, <2>5, <2>6
  <1>7. assistantJobs' \in Nat /\ inboxFailures' \in Nat
    BY <1>2, LookedNow DEF inboxVars
  <1>. QED
    BY <1>2, <1>3, <1>4, <1>5, <1>6, <1>7, RunMovesOnly DEF inboxVars

\* What a hand-over leaves the run with.
LEMMA HandedOver ==
    ASSUME AssistantInv, NEW r \in Runs, NEW hold \in BOOLEAN, NEW pause \in BOOLEAN,
           HandOver(r, hold, pause)
    PROVE  \E t \in RunStates :
             /\ runs' = [runs EXCEPT ![r] = t]
             /\ t.phase \in {"hold", "close"} /\ t.message = 0
             /\ t.human = conversation.lastHumanReplyAt
             /\ t.phase = "hold" => GateOpen(conversation) /\ hold
  <1> DEFINE t == [phase |-> IF GateOpen(conversation) /\ hold THEN "hold" ELSE "close",
                human |-> conversation.lastHumanReplyAt,
                ours |-> GateOpen(conversation), pause |-> pause, message |-> 0]
  <1>1. runs' = [runs EXCEPT ![r] = t]
    BY DEF HandOver, ToPhase
  <1>2. t \in RunStates
    BY LookedNow DEF RunStates
  <1>3. /\ t.phase \in {"hold", "close"} /\ t.message = 0
        /\ t.human = conversation.lastHumanReplyAt
        /\ t.phase = "hold" => GateOpen(conversation) /\ hold
    OBVIOUS
  <1> HIDE DEF t
  <1>. QED BY <1>1, <1>2, <1>3

\* A hand-over that says nothing.
LEMMA HandOverKeeps ==
    ASSUME AssistantInv, NEW r \in Runs, NEW hold \in BOOLEAN, NEW pause \in BOOLEAN,
           HandOver(r, hold, pause), UNCHANGED inboxVars,
           UNCHANGED <<assistantJobs, runLock, quietUpTo, unheard>>,
           runs[r].phase \in {"think", "send"}
    PROVE  AssistantInv'
  <1>1. AssistantTypes /\ RunKnows(runs[r])
    BY DEF AssistantInv, RunsKnow
  <1>2. PICK t \in RunStates :
          /\ runs' = [runs EXCEPT ![r] = t]
          /\ t.phase \in {"hold", "close"} /\ t.message = 0
          /\ t.human = conversation.lastHumanReplyAt
          /\ t.phase = "hold" => GateOpen(conversation) /\ hold
    BY HandedOver
  <1>3. RunKnows(t) /\ t # NoRun
    BY <1>1, <1>2, LookedNow DEF RunKnows, SentBy, NoRun
  <1>4. ASSUME inboxFailures' = 0
        PROVE  /\ inboxFailures = 0 /\ runLock = r
               /\ InTurn(t) /\ RecordedOrBy(t)
    <2>1. inboxFailures = 0 /\ Undisturbed
      BY <1>4 DEF inboxVars, AssistantInv
    <2>2. runLock = r /\ InTurn(runs[r]) /\ \A q \in Runs : ~SentBy(runs[q])
      BY <2>1 DEF Undisturbed, SentBy
    <2>3. /\ \A k \in Sent : thread[k] = "assistant" => k \in Stored
          /\ conversation.lastHumanReplyAt # 0 =>
                 thread[conversation.lastHumanReplyAt] # "assistant"
      BY <1>1, <2>1, <2>2, NothingPending
    <2>4. InTurn(t)
      BY <1>2, <2>2, <2>3 DEF InTurn
    <2>5. RecordedOrBy(t)
      BY <2>3 DEF RecordedOrBy
    <2>. QED BY <2>1, <2>2, <2>4, <2>5
  <1>5. assistantJobs' \in Nat /\ inboxFailures' \in Nat
        /\ runLock' \in Runs \cup {Unlocked, Abandoned}
    BY LookedNow DEF inboxVars
  <1>. QED
    BY <1>2, <1>3, <1>4, <1>5, RunMovesOnly DEF inboxVars

LEMMA BeginKeeps ==
    ASSUME AssistantInv, NEW r \in Runs, BeginRun(r)
    PROVE  AssistantInv'
  <1> DEFINE t == [phase |-> "think"]
  <1>1. AssistantTypes /\ InboxInv
    BY DEF AssistantInv
  <1>2. /\ UNCHANGED <<inboxVars, quietUpTo, unheard>>
        /\ runs' = [runs EXCEPT ![r] = t] /\ runLock' = r
        /\ assistantJobs' = assistantJobs - 1 /\ assistantJobs > 0
        /\ runLock = Unlocked
    BY DEF BeginRun, ToPhase, LockFree
  <1>3. PICK m \in Stored : Inbound(m) /\ \A k \in Stored : k <= m
    BY DEF BeginRun, LastIsInbound, Asked
  <1>4. m \in Sent /\ m \in Nat /\ Stored \subseteq Nat /\ conversation.exists
    BY <1>1, <1>3, SentAreIds DEF InboxInv, RowsAreSent
  <1>5. t \in RunStates /\ t # NoRun /\ RunKnows(t)
    BY <1>4 DEF RunStates, NoRun, RunKnows, Looked, SentBy
  <1>6. ASSUME inboxFailures' = 0
        PROVE  /\ inboxFailures = 0 /\ runLock = Unlocked
               /\ InTurn(t) /\ RecordedOrBy(t)
    <2>1. inboxFailures = 0 /\ Undisturbed
      BY <1>2, <1>6 DEF inboxVars, AssistantInv
    <2>2. \A q \in Runs : ~SentBy(runs[q])
      BY <1>2, <2>1, AssistantAssumption DEF Undisturbed, SentBy
    <2>3. /\ \A k \in Sent : thread[k] = "assistant" => k \in Stored
          /\ conversation.lastHumanReplyAt # 0 =>
                 thread[conversation.lastHumanReplyAt] # "assistant"
      BY <1>1, <2>1, <2>2, NothingPending
    <2>4. CustomerSpoke
      <3> SUFFICES ASSUME NEW k \in Sent, thread[k] = "assistant"
                   PROVE  m > k
        BY <1>3, <1>4 DEF CustomerSpoke
      <3>1. k <= m /\ k # m /\ k \in Nat
        BY <1>3, <1>4, <2>3 DEF Inbound
      <3>. QED BY <1>4, <3>1
    <2>5. InTurn(t)
      BY <2>4 DEF InTurn, Looked
    <2>6. RecordedOrBy(t)
      BY <2>3 DEF RecordedOrBy
    <2>. QED BY <1>2, <2>1, <2>5, <2>6
  <1>7. assistantJobs' \in Nat /\ inboxFailures' \in Nat
    BY <1>2, LookedNow DEF inboxVars
  <1> HIDE DEF t
  <1>. QED
    BY <1>2, <1>5, <1>6, <1>7, RunMovesOnly DEF inboxVars

LEMMA SpeakingKeeps ==
    ASSUME AssistantInv, NEW r \in Runs, SendAnswer(r) \/ AnswerRefused(r) \/ SendHold(r)
    PROVE  AssistantInv'
  <1>1. AssistantTypes /\ InboxInv /\ RunKnows(runs[r]) /\ Len(thread) \in Nat
    BY DEF AssistantInv, RunsKnow, InboxInv, InboxTypes
  <1>2. /\ runs[r] \in RunStates /\ runs[r].phase \in {"send", "hold"}
        /\ UNCHANGED <<assistantJobs, runLock, quietUpTo, unheard>>
        /\ runs[r].human \in Nat
        /\ runs[r].human # 0 => runs[r].human \in Stored /\ ~Inbound(runs[r].human)
    BY <1>1, RunFacts DEF SendAnswer, AnswerRefused, SendHold, Phase, RunKnows, Looked
  <1>3. CASE SendAnswer(r)
    <2> DEFINE t == [phase |-> "record", human |-> runs[r].human, message |-> Len(thread) + 1]
    <2>1. /\ runs' = [runs EXCEPT ![r] = t] /\ AssistantSends /\ inboxFailures' = inboxFailures
      BY <1>3 DEF SendAnswer, ToPhase
    <2>2. t \in RunStates
      BY <1>1, <1>2 DEF RunStates
    <2>3. /\ t.phase = "record" /\ t.message = Len(thread) + 1 /\ t.message # 0
          /\ t.human = runs[r].human /\ SentBy(t)
      BY <1>1 DEF SentBy
    <2> HIDE DEF t
    <2>. QED BY <1>2, <2>1, <2>2, <2>3, RunSpeaks
  <1>4. CASE AnswerRefused(r) /\ UNCHANGED inboxVars
    <2>1. runs[r].phase \in {"think", "send"}
      BY <1>4 DEF AnswerRefused, Phase
    <2>. QED BY <1>2, <1>4, <2>1, HandOverKeeps DEF AnswerRefused
  <1>5. CASE AnswerRefused(r) /\ AssistantSends /\ inboxFailures' = inboxFailures + 1
    <2>1. PICK t \in RunStates :
          /\ runs' = [runs EXCEPT ![r] = t]
          /\ t.phase \in {"hold", "close"} /\ t.message = 0
          /\ t.human = conversation.lastHumanReplyAt
          /\ t.phase = "hold" => GateOpen(conversation) /\ FALSE
      BY <1>5, HandedOver DEF AnswerRefused
    <2>2. t.phase = "close" /\ ~SentBy(t)
      BY <2>1 DEF SentBy
    <2>. QED BY <1>2, <1>5, <2>1, <2>2, LookedNow, RunSpeaks
  <1>6. CASE SendHold(r)
    <2>1. runs[r].phase = "hold" /\ runs[r].message = 0
      BY <1>1, <1>6 DEF SendHold, Phase, RunKnows
    <2>2. runs[r] \in [phase : {"hold", "close"}, human : Nat, ours : BOOLEAN, pause : BOOLEAN,
            message : Nat]
      BY <1>2, <2>1 DEF RunStates, NoRun
    <2>3. CASE AssistantSends
      <3>1. PICK t : /\ t = [runs[r] EXCEPT !.phase = "close", !.message = Len(thread) + 1]
                     /\ runs' = [runs EXCEPT ![r] = t]
        BY <1>1, <1>6, <2>3 DEF SendHold, ToPhase, AssistantSends, OnPlatform, inboxVars
      <3>2. /\ t \in RunStates /\ t.phase = "close" /\ t.message = Len(thread) + 1
            /\ t.human = runs[r].human /\ SentBy(t)
        <4>1. PICK n \in Nat : n = Len(thread) + 1 /\ n # 0
          BY <1>1
        <4>2. t = [runs[r] EXCEPT !.phase = "close", !.message = n]
          BY <3>1, <4>1
        <4>3. /\ t \in [phase : {"hold", "close"}, human : Nat, ours : BOOLEAN,
                        pause : BOOLEAN, message : Nat]
              /\ t.phase = "close" /\ t.message = n /\ t.human = runs[r].human
          BY <2>2, <4>1, <4>2
        <4>. QED BY <4>1, <4>3 DEF RunStates, SentBy
      <3>3. inboxFailures' = inboxFailures
        BY <1>6 DEF SendHold, inboxVars
      <3>. QED BY <1>2, <2>3, <3>1, <3>2, <3>3, RunSpeaks
    <2>4. CASE UNCHANGED inboxVars
      <3>0. ~AssistantSends
        BY <1>1, <2>4 DEF AssistantSends, OnPlatform, inboxVars, InboxInv, InboxTypes
      <3>1. PICK t : /\ t = [runs[r] EXCEPT !.phase = "close"]
                     /\ runs' = [runs EXCEPT ![r] = t]
        BY <1>6, <3>0 DEF SendHold, ToPhase
      <3>2. /\ t \in RunStates /\ t.phase = "close" /\ t.message = 0
            /\ t.human = runs[r].human /\ ~SentBy(t) /\ t # NoRun
        BY <1>1, <2>1, <2>2, <3>1 DEF RunStates, SentBy, NoRun
      <3>3. RunKnows(t)
        BY <1>1, <1>2, <2>1, <3>2 DEF RunKnows
      <3>4. ASSUME inboxFailures' = 0
            PROVE  inboxFailures = 0 /\ runLock = r /\ InTurn(t) /\ RecordedOrBy(t)
        <4>1. inboxFailures = 0 /\ Undisturbed
          BY <2>4, <3>4 DEF inboxVars, AssistantInv
        <4>2. runLock = r /\ InTurn(runs[r]) /\ \A q \in Runs : ~SentBy(runs[q])
          BY <2>1, <4>1 DEF Undisturbed, SentBy
        <4>3. RecordedOrBy(t)
          BY <1>1, <4>1, <4>2, NothingPending DEF RecordedOrBy
        <4>4. InTurn(t)
          BY <1>2, <3>2, <4>2 DEF InTurn, Looked
        <4>. QED BY <4>1, <4>2, <4>3, <4>4
      <3>5. assistantJobs' \in Nat /\ inboxFailures' \in Nat
            /\ runLock' \in Runs \cup {Unlocked, Abandoned}
        BY <1>2, <2>4, LookedNow DEF inboxVars
      <3>. QED
        BY <1>2, <2>4, <3>1, <3>2, <3>3, <3>4, <3>5, RunMovesOnly DEF inboxVars
    <2>. QED BY <1>6, <2>3, <2>4 DEF SendHold
  <1>. QED BY <1>3, <1>4, <1>5, <1>6 DEF AnswerRefused

LEMMA RecordAnswerKeeps ==
    ASSUME AssistantInv, NEW r \in Runs, RecordAnswer(r)
    PROVE  AssistantInv'
  <1>1. PICK t : t = runs[r]
    OBVIOUS
  <1>2. t.phase = "record" /\ t.human \in Nat /\ t.message # 0
    BY <1>1, RunFacts DEF RecordAnswer, Phase, AssistantInv, RunsKnow, RunKnows, Looked
  <1>3. conversation \in Conversations
    BY DEF AssistantInv, InboxInv, InboxTypes
  <1>4. /\ conversation' \in Conversations
        /\ conversation'.exists = conversation.exists
        /\ conversation'.lastInboundAt = conversation.lastInboundAt
        /\ conversation'.lastHumanReplyAt = t.human
    <2>1. PICK c : c = EchoCorrected(conversation, t.human)
      OBVIOUS
    <2>2. /\ c \in Conversations /\ c.lastHumanReplyAt = t.human
          /\ c.exists = conversation.exists /\ c.lastInboundAt = conversation.lastInboundAt
      BY <1>2, <1>3, <2>1 DEF EchoCorrected, Conversations
    <2>3. PICK n \in Nat : n = c.replies + 1
      BY <2>2 DEF Conversations
    <2>4. conversation' = [c EXCEPT !.replies = n, !.state = "HANDLED"]
      BY <1>1, <2>1, <2>3 DEF RecordAnswer
    <2>. QED BY <2>2, <2>4 DEF Conversations
  <1>. QED BY <1>1, <1>2, <1>4, RunRecords DEF RecordAnswer

LEMMA CloseKeeps ==
    ASSUME AssistantInv, NEW r \in Runs, CloseEscalation(r)
    PROVE  AssistantInv'
  <1>1. PICK t : t = runs[r]
    OBVIOUS
  <1>2. /\ conversation \in Conversations
        /\ messageRows \in [MessageIds -> Senders \cup {"absent"}]
    BY DEF AssistantInv, InboxInv, InboxTypes
  <1>3. t.phase = "close" /\ t.human \in Nat /\ t.pause \in BOOLEAN /\ t.ours \in BOOLEAN
    BY <1>1 DEF CloseEscalation, Phase, AssistantInv, AssistantTypes, RunStates, NoRun
  <1>4. t.message # 0 => t.message \in MessageIds
    BY <1>1, <1>3, SentAreIds
       DEF AssistantInv, RunsKnow, RunKnows, SentBy, InboxInv
  <1>5. messageRows' = IF t.message = 0 THEN messageRows
                       ELSE [messageRows EXCEPT ![t.message] = "assistant"]
    <2>1. messageRows' = [k \in MessageIds |-> IF k = t.message THEN "assistant" ELSE messageRows[k]]
      BY <1>1 DEF CloseEscalation
    <2>2. CASE t.message = 0
      <3>1. \A k \in MessageIds : k # 0
        BY DEF MessageIds
      <3>. QED BY <1>2, <2>1, <2>2, <3>1
    <2>3. CASE t.message # 0
      BY <1>2, <1>4, <2>1, <2>3
    <2>. QED BY <2>2, <2>3
  <1>6. /\ conversation' \in Conversations
        /\ conversation'.exists = conversation.exists
        /\ conversation'.lastInboundAt = conversation.lastInboundAt
        /\ conversation'.lastHumanReplyAt =
               IF t.message = 0 THEN conversation.lastHumanReplyAt ELSE t.human
        /\ conversation'.state \in {"NEW", conversation.state}
    <2>1. PICK c : c = IF t.message = 0 THEN conversation ELSE EchoCorrected(conversation, t.human)
      OBVIOUS
    <2>2. /\ c \in Conversations
          /\ c.exists = conversation.exists /\ c.lastInboundAt = conversation.lastInboundAt
          /\ c.lastHumanReplyAt =
               IF t.message = 0 THEN conversation.lastHumanReplyAt ELSE t.human
          /\ c.state = conversation.state
      BY <1>2, <1>3, <2>1 DEF EchoCorrected, Conversations
    <2>3. conversation' = [c EXCEPT
               !.paused = @ \/ t.pause, !.needsHuman = @ \/ t.ours,
               !.state = IF t.ours THEN "NEW" ELSE @]
      BY <1>1, <2>1 DEF CloseEscalation
    <2>. QED BY <1>3, <2>2, <2>3 DEF Conversations
  <1>7. /\ Release(r)
        /\ UNCHANGED <<thread, hooks, hookJobs, readings, replying, excused,
                       unplaced, inboxFailures, assistantJobs, quietUpTo, unheard>>
    BY DEF CloseEscalation
  <1>. QED BY <1>1, <1>3, <1>5, <1>6, <1>7, RunRecords

LEMMA RunEndsKeeps ==
    ASSUME AssistantInv, NEW r \in Runs, RunFails(r) \/ RunDies(r)
    PROVE  AssistantInv'
  <1>1. /\ runs' = [runs EXCEPT ![r] = NoRun] /\ NoRun \in RunStates
        /\ runLock' \in {runLock, Unlocked, Abandoned}
        /\ UNCHANGED <<thread, hooks, hookJobs, messageRows, conversation, readings,
                       replying, excused, unplaced, quietUpTo, unheard>>
        /\ inboxFailures' = inboxFailures + 1
        /\ assistantJobs' \in {assistantJobs, assistantJobs + 1}
    BY DEF RunFails, RunDies, Release, ToPhase, RunStates
  <1>2. RunKnows(NoRun)
    BY DEF RunKnows, NoRun, Looked, SentBy
  <1>3. /\ runLock' \in Runs \cup {Unlocked, Abandoned}
        /\ inboxFailures' \in Nat /\ assistantJobs' \in Nat /\ inboxFailures' # 0
    BY <1>1, LookedNow
  <1>. QED BY <1>1, <1>2, <1>3, RunMovesOnly

\* The lock and the clock, and jobs that find nothing to do.
LEMMA AroundKeeps ==
    ASSUME AssistantInv,
           UNCHANGED <<thread, hooks, hookJobs, messageRows, conversation, readings,
                       replying, excused, unplaced, runs, unheard>>,
           assistantJobs' \in Nat, inboxFailures' \in Nat,
           runLock' \in Runs \cup {Unlocked, Abandoned},
           \/ UNCHANGED quietUpTo
           \/ /\ quietUpTo' = Len(thread)
              /\ \A p \in Colleagues : replying[p] = NoReply,
           \/ inboxFailures' = inboxFailures /\ runLock' = runLock
           \/ inboxFailures' = inboxFailures /\ runLock = Abandoned
           \/ inboxFailures' = inboxFailures + 1
    PROVE  AssistantInv'
  <1>1. InboxInv /\ AssistantTypes /\ RunsKnow /\ GateTellsQuiet
        /\ Len(thread) \in Nat /\ inboxFailures \in Nat /\ quietUpTo \in 0 .. Len(thread)
    BY DEF AssistantInv, InboxInv, InboxTypes, AssistantTypes
  <1>2. InboxInv'
    <2>1. InboxTypes'
      BY <1>1 DEF InboxInv, InboxTypes
    <2>. QED
      BY <1>1, <2>1, HookWorkKeeps
         DEF InboxInv, RowsAreSent, MarkedIsStored, ProcessedMeansStored
  <1>3. Sent' = Sent /\ Stored' = Stored /\ Outstanding' = Outstanding /\ Heard' = Heard
    BY DEF Sent, Stored, Outstanding, Asked, Inbound, Heard
  <1>4. AssistantTypes'
    BY <1>1, <1>3 DEF AssistantTypes
  <1>5. PeopleAreQuiet => PeopleAreQuiet'
    <2>1. Heard \subseteq Sent
      BY <1>1 DEF Heard, InboxInv, RowsAreSent
    <2>. QED BY <1>1, <1>3, <2>1 DEF PeopleAreQuiet, Sent
  <1>6. RunsKnow'
    BY <1>1, <1>3, <1>5 DEF RunsKnow, RunKnows, SentBy, Inbound
  <1>7. GateTellsQuiet'
    <2>1. \A p \in Colleagues : replying'[p] # NoReply => quietUpTo' < replying'[p]
      BY <1>1 DEF GateTellsQuiet
    <2>2. CASE UNCHANGED quietUpTo
      <3>1. ~HumanActive(conversation)' => PeopleAreQuiet'
        BY <1>1, <1>5, <2>2 DEF GateTellsQuiet, HumanActive
      <3>. QED BY <2>1, <3>1 DEF GateTellsQuiet
    <2>3. CASE quietUpTo' = Len(thread)
      <3>1. PeopleAreQuiet'
        BY <1>1, <1>3, <2>3 DEF PeopleAreQuiet, Heard, InboxInv, RowsAreSent, Sent
      <3>. QED BY <2>1, <3>1 DEF GateTellsQuiet
    <2>. QED BY <2>2, <2>3
  <1>8. ASSUME inboxFailures' = 0 PROVE Undisturbed'
    <2>1. Undisturbed /\ runLock' = runLock
      BY <1>1, <1>8 DEF AssistantInv, Undisturbed
    <2>2. PICK t : t = IF runLock \in Runs THEN runs[runLock] ELSE NoRun
      OBVIOUS
    <2>3. RecordedOrBy(t)
      BY <2>1, <2>2 DEF Undisturbed
    <2>4. RecordedOrBy(t)'
      BY <1>3, <2>3 DEF RecordedOrBy, SentBy
    <2>5. \A r \in Runs : InTurn(runs[r])'
      BY <1>3, <2>1 DEF Undisturbed, InTurn, CustomerSpoke, Inbound
    <2>. QED BY <2>1, <2>2, <2>4, <2>5 DEF Undisturbed
  <1>. QED BY <1>2, <1>4, <1>6, <1>7, <1>8 DEF AssistantInv

LEMMA AssistantStep == AssistantInv /\ [AssistantNext]_talkVars => AssistantInv'
  <1> SUFFICES ASSUME AssistantInv, [AssistantNext]_talkVars PROVE AssistantInv'
    OBVIOUS
  <1> USE LookedNow
  <1>1. CASE Agency
    <2>1. ASSUME NEW p \in Colleagues, RecordReply(p), Hear(replying[p]),
                 UNCHANGED <<assistantJobs, runs, runLock, quietUpTo>>
          PROVE  AssistantInv'
      BY <2>1, HearReplyKeeps
    <2>2. ASSUME NEW b \in BOOLEAN, SetPaused(b) PROVE AssistantInv'
      BY <2>2, PeopleKeep DEF SetPaused
    <2>. QED BY <1>1, <2>1, <2>2, PeopleKeep DEF Agency
  <1>2. ASSUME NEW m \in MessageIds, Ingest(m) PROVE AssistantInv'
    BY <1>2, IngestKeeps
  <1>3. ASSUME NEW r \in Runs, RunStep(r) PROVE AssistantInv'
    <2>1. CASE BeginRun(r)
      BY <2>1, BeginKeeps
    <2>2. CASE SkipJob(r)
      <3>1. assistantJobs' \in Nat
        BY <2>2 DEF SkipJob
      <3>. QED BY <2>2, <3>1, AroundKeeps DEF SkipJob, inboxVars
    <2>3. CASE Decide(r)
      BY <2>3, DecideKeeps
    <2>4. CASE Escalate(r)
      BY <2>4, HandOverKeeps DEF Escalate, Phase
    <2>5. CASE SendAnswer(r) \/ AnswerRefused(r) \/ SendHold(r)
      BY <2>5, SpeakingKeeps
    <2>6. CASE RecordAnswer(r)
      BY <2>6, RecordAnswerKeeps
    <2>7. CASE CloseEscalation(r)
      BY <2>7, CloseKeeps
    <2>8. CASE RunFails(r) \/ RunDies(r)
      BY <2>8, RunEndsKeeps
    <2>. QED BY <1>3, <2>1, <2>2, <2>3, <2>4, <2>5, <2>6, <2>7, <2>8 DEF RunStep
  <1>4. CASE LockExpires
    BY <1>4, AroundKeeps DEF LockExpires
  <1>5. CASE HumanGoesQuiet
    BY <1>5, AroundKeeps DEF HumanGoesQuiet, inboxVars
  <1>6. CASE UNCHANGED talkVars
    BY <1>6, AroundKeeps DEF talkVars, assistantVars, inboxVars
  <1>. QED BY <1>1, <1>2, <1>3, <1>4, <1>5, <1>6 DEF AssistantNext

\* For every number of messages, colleagues, runs and replies: the invariant of
\* the assistant and of the inbox it works on.
THEOREM AssistantInvariant == AssistantSpec => []AssistantInv
  BY AssistantStarts, AssistantStep, PTL DEF AssistantSpec

LEMMA AssistantInvGivesTypes == AssistantInv => AssistantTypeOK
  <1> SUFFICES ASSUME AssistantInv PROVE AssistantTypeOK
    OBVIOUS
  <1>1. AssistantTypes
    BY DEF AssistantInv
  <1>2. \A r \in Runs : /\ runs[r].phase \in {"idle", "think"} \cup Looked
                        /\ inboxFailures = 0 /\ runs[r] # NoRun => runLock = r
    BY <1>1, RunFacts DEF AssistantInv, Undisturbed
  <1>. QED BY <1>1, <1>2 DEF AssistantTypes, AssistantTypeOK

\* Each variable keeps its type, and unless something failed a run holds the
\* lock of its conversation (withLock in runAssistant).
THEOREM AssistantTypeCorrect == AssistantSpec => [](InboxTypeOK /\ AssistantTypeOK)
  <1>1. AssistantInv => InboxTypeOK
    BY InboxInvGivesTypes DEF AssistantInv
  <1>. QED BY <1>1, AssistantInvGivesTypes, AssistantInvariant, PTL

\* The echo of an answer may be ingested before the answer is recorded; when
\* the run is over it does not count as a person's (recordSent).
THEOREM EchoIsCorrected == AssistantSpec => []EchoIsNotAPerson
  <1>1. AssistantInv => EchoIsNotAPerson
    <2> SUFFICES ASSUME AssistantInv, inboxFailures = 0, runLock = Unlocked,
                        conversation.lastHumanReplyAt # 0
                 PROVE  thread[conversation.lastHumanReplyAt] # "assistant"
      BY DEF EchoIsNotAPerson
    <2>1. RecordedOrBy(NoRun)
      BY AssistantAssumption DEF AssistantInv, Undisturbed
    <2>. QED BY <2>1 DEF RecordedOrBy, SentBy, NoRun
  <1>. QED BY <1>1, AssistantInvariant, PTL

\* Both hold as well with the assistant at work, whose messages come in as the
\* customer's do (recordMessage, recordSent).
THEOREM InboxHoldsWithAssistant ==
    AssistantSpec => [](ProcessedMeansStored /\ WaitingIsShown)
  <1>1. AssistantInv => ProcessedMeansStored /\ WaitingIsShown
    BY DEF AssistantInv, InboxInv, MarkedIsStored
  <1>. QED BY <1>1, AssistantInvariant, PTL

\* However customers, colleagues, echoes, runs and locks that expire interleave,
\* the assistant speaks in its turn (autoReplyGate, asked again after the model).
THEOREM TurnsAreKept == AssistantSpec => SpeaksInTurn
  <1> DEFINE A == Speaks =>
           /\ \A m \in Stored \ unheard :
                  thread[m] \in {"app", "person"} => m <= quietUpTo
           /\ inboxFailures' = 0 => \A k \in Sent : thread[k] = "assistant" =>
                                        \E m \in Sent : m > k /\ Inbound(m)
  <1>1. AssistantInv /\ [AssistantNext]_talkVars => [A]_talkVars
    <2> SUFFICES ASSUME AssistantInv, AssistantNext, Speaks PROVE A
      OBVIOUS
    <2>1. Len(thread) \in Nat /\ inboxFailures \in Nat /\ thread \in Seq(Senders)
      BY DEF AssistantInv, InboxInv, InboxTypes
    <2>2. thread' # thread
      BY <2>1 DEF Speaks
    <2>3. \A s : thread' = Append(thread, s) => s = "assistant"
      BY <2>1 DEF Speaks
    <2>4. PICK r \in Runs : SendAnswer(r) \/ AnswerRefused(r) \/ SendHold(r)
      <3>1. ~Agency
        BY <2>2, <2>3 DEF Agency, Writes, SendReply, ReplyUnrecorded, SetHandled, RecordReply,
                          SetPaused, OnPlatform
      <3>2. \A m \in MessageIds : ~Ingest(m)
        BY <2>2 DEF Ingest
      <3>3. ~LockExpires /\ ~HumanGoesQuiet
        BY <2>2 DEF LockExpires, HumanGoesQuiet, inboxVars
      <3>4. PICK r \in Runs : RunStep(r)
        BY <3>1, <3>2, <3>3 DEF AssistantNext
      <3>. QED
        BY <2>2, <3>4 DEF RunStep, BeginRun, SkipJob, Decide, Escalate, RecordAnswer,
                          CloseEscalation, RunFails, RunDies, inboxVars
    <2>5. runs[r].phase \in {"send", "hold"} /\ (inboxFailures' = 0 => inboxFailures = 0)
      <3>1. runs[r].phase \in {"send", "hold"}
        BY <2>4 DEF SendAnswer, AnswerRefused, SendHold, Phase
      <3>2. inboxFailures' = inboxFailures \/ inboxFailures' = inboxFailures + 1
        BY <2>4 DEF SendAnswer, AnswerRefused, SendHold, inboxVars
      <3>. QED BY <2>1, <3>1, <3>2
    <2>6. PeopleAreQuiet
      BY <2>5 DEF AssistantInv, RunsKnow, RunKnows
    <2>7. inboxFailures = 0 => CustomerSpoke
      BY <2>5 DEF AssistantInv, Undisturbed, InTurn
    <2>. QED BY <2>5, <2>6, <2>7 DEF PeopleAreQuiet, Heard, CustomerSpoke
  <1>. QED BY <1>1, AssistantInvariant, PTL DEF AssistantSpec, SpeaksInTurn
=============================================================================
