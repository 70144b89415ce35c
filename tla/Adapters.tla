------------------------------- MODULE Adapters -------------------------------
(***************************************************************************)
(* One variant on its way through a platform adapter (packages/providers): *)
(* what publish() calls, in which order, what it records before which      *)
(* call, and what reconcile() concludes when an answer was lost.           *)
(*                                                                         *)
(* None of the platforms takes an idempotency key.  Six of the adapters    *)
(* record a handle (providerRef) that a later attempt may resume or ask    *)
(* about.  A post's content is its version: the contentHash of the draft.  *)
(* A job that TikTok leaves in the creator's inbox is a post like another. *)
(***************************************************************************)
EXTENDS Naturals, FiniteSets, Sequences

CONSTANTS
    Wares,              \* the kinds of post that are tried
    MaxVersions,        \* bound: contents the variant has
    MaxTries,           \* bound: attempts
    MaxAdapterTrouble   \* bound: answers lost, refusals, 5xx, deaths, spoilt handles

VARIABLES
    ware,       \* what is posted: its kind, and whether it is a short body with hashtags
    state,      \* where the variant is
    version,    \* the content it has
    ref,        \* providerRef: a handle, the content it was made for, the text sent
    handles,    \* the platform: containers, media, jobs, sessions and record keys
    posts,      \* the platform: what is public
    claimed,    \* the post recorded as the variant's, or 0
    work,       \* the attempt in progress
    tries, adapterTrouble,
    unclear     \* for the properties: what misled an attempt

adapterVars == <<ware, state, version, ref, handles, posts, claimed, work, tries,
                 adapterTrouble, unclear>>

----------------------------------------------------------------------------
(* What publish() does, platform by platform.  "create" obtains a handle,  *)
(* "record" writes it down, "await" polls it, "publish" is the call that   *)
(* makes a post.  A "settle" polls a job that posts by itself.             *)

\* Mutant: the handle is written down after the call that may be lost.
InstagramRecordsLate(video) == <<"create", "publish", "record">>

InstagramCalls(video) ==
    IF video THEN <<"create", "record", "await", "publish">>
             ELSE <<"create", "record", "publish">>
ThreadsCalls   == <<"create", "record", "await", "publish">>
BlueskyCalls   == <<"create", "record", "publish">>
XCalls(media)  == IF media THEN <<"create", "record", "await", "sign", "publish">>
                           ELSE <<"sign", "publish">>
PinterestCalls(video) ==
    IF video THEN <<"create", "record", "upload", "await", "publish">>
             ELSE <<"sign", "publish">>
TikTokCalls(video) ==
    IF video THEN <<"create", "record", "upload", "settle">>
             ELSE <<"create", "record", "settle">>
YouTubeCalls   == <<"create", "record", "publish">>
FacebookCalls(reel) ==
    IF reel THEN <<"create", "record", "upload", "publish">> ELSE <<"publish">>
LinkedInCalls  == <<"publish">>

Calls == [igImage    |-> InstagramCalls(FALSE), igReel    |-> InstagramCalls(TRUE),
          threads    |-> ThreadsCalls,          bluesky   |-> BlueskyCalls,
          xText      |-> XCalls(FALSE),         xVideo    |-> XCalls(TRUE),
          pinImage   |-> PinterestCalls(FALSE), pinVideo  |-> PinterestCalls(TRUE),
          tiktokPhoto|-> TikTokCalls(FALSE),    tiktokVideo|-> TikTokCalls(TRUE),
          youtube    |-> YouTubeCalls,          linkedin  |-> LinkedInCalls,
          fbPost     |-> FacebookCalls(FALSE),  fbReel    |-> FacebookCalls(TRUE)]

ASSUME AdaptersAssumption ==
    /\ Wares \subseteq [kind : DOMAIN Calls, brief : BOOLEAN]
    /\ MaxVersions \in Nat \ {0} /\ MaxTries \in Nat /\ MaxAdapterTrouble \in Nat

Instagram  == {"igImage", "igReel"}
Containers == Instagram \cup {"threads"}        \* published, once, by the platform
Media      == {"xVideo", "pinVideo"}            \* what a post is made from
XPosts     == {"xText", "xVideo"}               \* sought by the text recorded last
Jobs       == {"tiktokPhoto", "tiktokVideo"}    \* post by themselves
Resumable  == Containers \cup Media \cup {"bluesky"}
\* Found by their text, which is compared with the body alone.
ByBody     == Containers \cup {"fbPost", "fbReel", "linkedin"}

NoWare == [kind |-> "none", brief |-> FALSE]
NoRef  == [handle |-> 0, version |-> 0]
Idle   == [todo |-> <<>>, handle |-> 0, resumed |-> FALSE, asking |-> FALSE]

AdaptersInit ==
    /\ ware = NoWare /\ state = "draft" /\ version = 1
    /\ ref = NoRef /\ handles = <<>> /\ posts = <<>> /\ claimed = 0
    /\ work = Idle /\ tries = 0 /\ adapterTrouble = 0 /\ unclear = {}

----------------------------------------------------------------------------

Kind == ware.kind
NextIs(step) == work.todo # <<>> /\ ~work.asking /\ Head(work.todo) = step
InProgress == work # Idle
StateOf(h) == IF h = 0 THEN "none" ELSE handles[h].state
GoesAhead == work' = [work EXCEPT !.todo = Tail(@)]

Ends(how) == state' = how /\ work' = Idle
Ask == work' = [work EXCEPT !.asking = TRUE] /\ UNCHANGED state
Happens == adapterTrouble < MaxAdapterTrouble /\ adapterTrouble' = adapterTrouble + 1
Misled(why) == unclear' = unclear \cup why

\* What a person does: the piece is scheduled; a failed one is retried, as it
\* is or edited; a parked one is said to be published, or not.
Schedule(w) ==
    /\ state = "draft"
    /\ ware' = w /\ state' = "scheduled"
    /\ UNCHANGED <<version, ref, handles, posts, claimed, work, tries, adapterTrouble, unclear>>

EditWare ==
    /\ state \in {"scheduled", "failed"} /\ version < MaxVersions
    /\ version' = version + 1 /\ state' = "scheduled"
    /\ UNCHANGED <<ware, ref, handles, posts, claimed, work, tries, adapterTrouble, unclear>>

RetryWare ==
    /\ state = "failed" /\ state' = "scheduled"
    /\ UNCHANGED <<ware, version, ref, handles, posts, claimed, work, tries, adapterTrouble, unclear>>

MineLive == {i \in DOMAIN posts : posts[i].version = version}
JobsOut == {h \in DOMAIN handles : Kind \in Jobs /\ handles[h].state \in {"ready", "working"}}

AnswerParked(published) ==
    /\ state = "parked"
    /\ state' = IF published THEN "vouched" ELSE "failed"
    /\ Misled(IF ~published /\ (MineLive # {} \/ JobsOut # {}) THEN {"person"} ELSE {})
    /\ UNCHANGED <<ware, version, ref, handles, posts, claimed, work, tries, adapterTrouble>>

----------------------------------------------------------------------------
(* publish().                                                              *)

\* Mutant: whatever was recorded last is resumed.
ResumesAnything == IF Kind \in Resumable THEN ref.handle ELSE 0
\* Mutant: no attempt resumes another's.
ResumesNothing == 0

\* previousRef, when the content it was made for is the content to be posted.
\* X's media are used again until they expire, also when processing failed.
Resumes ==
    IF Kind \in Resumable /\ ref.version = version
       /\ ~(Kind = "xVideo" /\ StateOf(ref.handle) = "expired")
    THEN ref.handle ELSE 0

\* A resumed handle was created, and its bytes were sent, by an earlier attempt;
\* of media the record is not written again.
StillToDo(resumed) ==
    IF resumed = 0 THEN Calls[Kind]
    ELSE CASE Kind = "pinVideo" -> <<"await", "publish">>
           [] Kind = "xVideo"   -> <<"await", "sign", "publish">>
           [] OTHER             -> Tail(Calls[Kind])

BeginAttempt ==
    /\ state = "scheduled" /\ tries < MaxTries
    /\ state' = "publishing" /\ tries' = tries + 1
    /\ work' = [todo |-> StillToDo(Resumes), handle |-> Resumes,
                resumed |-> Resumes # 0, asking |-> FALSE]
    /\ UNCHANGED <<ware, version, ref, handles, posts, claimed, adapterTrouble, unclear>>

\* The draft is refused by our own validation, before any call.
PreflightRefuses ==
    /\ InProgress /\ ~work.asking /\ Happens
    /\ work.todo = StillToDo(IF work.resumed THEN work.handle ELSE 0)
    /\ Ends("failed")
    /\ UNCHANGED <<ware, version, ref, handles, posts, claimed, tries, unclear>>

\* What a handle is when it is made: a container or a photo job is worked on at
\* once, a file has to be sent, an image container, a session and a key are ready.
FirstState == CASE Kind \in {"igReel", "threads", "xVideo", "tiktokPhoto"} -> "working"
                [] Kind \in {"pinVideo", "tiktokVideo"} -> "empty"
                [] OTHER -> "ready"

Made == Append(handles, [state |-> FirstState, version |-> version])
Delivered == [handles EXCEPT ![work.handle].state = IF @ = "empty" THEN "working" ELSE @]
Post(h) == [version |-> IF h = 0 THEN version ELSE handles[h].version, wanted |-> version,
            handle |-> h, try |-> tries, shown |-> FALSE]

\* A container is published once, a record is created once; of media, sessions
\* and plain calls a post is made every time.
Publishable == Kind \in Containers \cup {"bluesky"} => StateOf(work.handle) = "ready"

\* What the call that is next does at the platform, when it does anything.
Lands ==
    \/ NextIs("create") /\ handles' = Made /\ UNCHANGED posts
    \/ NextIs("upload") /\ handles' = Delivered /\ UNCHANGED posts
    \/ /\ NextIs("publish") /\ Publishable
       /\ posts' = Append(posts, Post(work.handle))
       /\ handles' = IF work.handle = 0 \/ Kind \in Media THEN handles
                     ELSE [handles EXCEPT ![work.handle].state = "posted"]

DoesNot == UNCHANGED <<handles, posts>>
OnTheWire == \E step \in {"create", "upload", "await", "publish", "settle"} : NextIs(step)
KeyChosen == Kind = "bluesky" /\ NextIs("create")

CallAnswered ==
    /\ Lands
    /\ IF NextIs("publish") /\ Tail(work.todo) = <<>>
       THEN Ends("published") /\ claimed' = Len(posts')
       ELSE /\ work' = [work EXCEPT !.todo = Tail(@),
                                    !.handle = IF NextIs("create") THEN Len(handles') ELSE @]
            /\ UNCHANGED <<state, claimed>>
    /\ UNCHANGED <<ware, version, ref, tries, adapterTrouble, unclear>>

\* recordProviderRef: awaited, one write that replaces what was there.  "sign" is
\* the one just before the call: X's with the text sent, an image pin's.
Record ==
    /\ NextIs("record") \/ NextIs("sign")
    /\ ref' = [handle |-> work.handle, version |-> version]
    /\ GoesAhead
    /\ UNCHANGED <<ware, state, version, handles, posts, claimed, tries, adapterTrouble, unclear>>

\* The write fails: an error of ours, which the engine takes for retryable.
RecordFails ==
    /\ NextIs("record") \/ NextIs("sign")
    /\ Happens /\ Ends("scheduled")
    /\ Misled(IF Kind \in Jobs THEN {"torn"} ELSE {})
    /\ UNCHANGED <<ware, version, ref, handles, posts, claimed, tries>>

\* The status that ends the wait.  Instagram's container has to be FINISHED;
\* Threads' may be PUBLISHED as well.
Finished == IF Kind = "threads" THEN {"ready", "posted"} ELSE {"ready"}
Useless  == {"spoilt", "expired"}

AwaitReady ==
    /\ NextIs("await") /\ StateOf(work.handle) \in Finished
    /\ GoesAhead
    /\ UNCHANGED <<ware, state, version, ref, handles, posts, claimed, tries, adapterTrouble, unclear>>

AwaitFails ==
    /\ NextIs("await") /\ StateOf(work.handle) \in Useless
    /\ Ends("failed")
    /\ UNCHANGED <<ware, version, ref, handles, posts, claimed, tries, adapterTrouble, unclear>>

\* Out of budget: nothing was published, so the attempt is to be repeated.
AwaitRunsOut ==
    /\ NextIs("await") /\ StateOf(work.handle) \notin Finished \cup Useless
    /\ Ends("scheduled")
    /\ UNCHANGED <<ware, version, ref, handles, posts, claimed, tries, adapterTrouble, unclear>>

\* TikTok: settled, failed for a reason that is final or not, or out of budget.
SettledBy(h) == CHOOSE i \in DOMAIN posts : posts[i].handle = h
JobSettled ==
    /\ NextIs("settle") /\ StateOf(work.handle) = "posted"
    /\ Ends("published") /\ claimed' = SettledBy(work.handle)
    /\ UNCHANGED <<ware, version, ref, handles, posts, tries, adapterTrouble, unclear>>

JobFailed ==
    /\ NextIs("settle") /\ StateOf(work.handle) = "spoilt"
    /\ Ends("failed") \/ Ends("scheduled")
    /\ UNCHANGED <<ware, version, ref, handles, posts, claimed, tries, adapterTrouble, unclear>>

JobRunsOut ==
    /\ NextIs("settle") /\ StateOf(work.handle) \in {"working", "ready"}
    /\ Ask
    /\ UNCHANGED <<ware, version, ref, handles, posts, claimed, tries, adapterTrouble, unclear>>

----------------------------------------------------------------------------
(* A call that is not answered as it should be (each client's request, and *)
(* classifyHttpStatus): 4xx is final, 5xx and 429 are to be repeated,      *)
(* anything that may have been cut off is unknown.                         *)

\* A post was made, or a job runs that will make one, and the attempt that
\* caused it ends on an error that says nothing was.
Torn ==
    \/ posts' # posts
    \/ Kind \in Jobs /\ (handles' # handles \/ StateOf(work.handle) \in {"working", "posted"})
    \/ \E i \in DOMAIN posts : posts[i].handle = work.handle /\ work.handle # 0

CallRefused ==
    /\ OnTheWire /\ ~KeyChosen /\ Happens /\ DoesNot
    /\ Ends("failed") /\ Misled(IF Torn THEN {"torn"} ELSE {})
    /\ UNCHANGED <<ware, version, ref, claimed, tries>>

\* 5xx or 429; accepted without an id; an answer cut off after its headers.
CallUnavailable ==
    /\ OnTheWire /\ ~KeyChosen /\ Happens /\ (Lands \/ DoesNot)
    /\ Ends("scheduled") /\ Misled(IF Torn THEN {"torn"} ELSE {})
    /\ UNCHANGED <<ware, version, ref, claimed, tries>>

\* Mutant: an attempt that timed out is simply repeated.
RepeatsWhenLost == Ends("scheduled")

\* PublishingTimeoutError or an abort: the outcome is asked for.
WhenLost == Ask

CallLost ==
    /\ OnTheWire /\ ~KeyChosen /\ Happens /\ (Lands \/ DoesNot)
    /\ WhenLost
    /\ UNCHANGED <<ware, version, ref, claimed, tries, unclear>>

\* The process dies.  The attempt it left open is reconciled by the run that
\* takes the claim over.
AttemptDies ==
    /\ InProgress /\ ~work.asking /\ Happens /\ Ask
    /\ UNCHANGED <<ware, version, ref, handles, posts, claimed, tries, unclear>>

\* Bluesky: the key a retry reused is taken, so the first attempt did land.
KeyTaken ==
    /\ NextIs("publish") /\ Kind = "bluesky" /\ work.resumed
    /\ StateOf(work.handle) = "posted"
    /\ Ends("published") /\ claimed' = SettledBy(work.handle)
    /\ UNCHANGED <<ware, version, ref, handles, posts, tries, adapterTrouble, unclear>>

----------------------------------------------------------------------------
(* reconcile().  Each answer is the set of verdicts that may be given, and  *)
(* each verdict says what the adapter could not see when it gave it.       *)

Found(set, blind) == {[is |-> "found", post |-> i, blind |-> blind] : i \in set}
NotFound(blind)   == {[is |-> "notFound", post |-> 0, blind |-> blind]}
Unknown           == [is |-> "inconclusive", post |-> 0, blind |-> {}]
Inconclusive      == {Unknown}

\* The account's recent posts are matched on their text: the body, for YouTube
\* and Pinterest its first line, for X the text recorded last, which may be an
\* older content's.  Nobody compares the content hash.
SoughtByItsText == Kind \in XPosts => ref.version \in {0, version}
Readable == {i \in DOMAIN posts : posts[i].shown /\ ~(ware.brief /\ Kind \in ByBody)}
Expected == {i \in MineLive \cap Readable : posts[i].try = tries /\ SoughtByItsText}

\* This attempt's post is not there yet, or does not read like its body; the
\* post of another content is, and may read alike; the handle that was
\* recorded last is an earlier attempt's.
Hidden == IF \E i \in MineLive \ Readable : posts[i].try = tries THEN {"hidden"} ELSE {}
Alike  == IF \E i \in Readable : posts[i].version # version THEN {"alike"} ELSE {}
Stale  == IF ref.handle \notin {0, work.handle} THEN {"stale"} ELSE {}

\* The newest post that matches inside a window around the attempt: its own,
\* or one of an earlier attempt that is in the window and reads alike.
OnTimeline ==
    IF Expected # {} THEN Found(Expected, {})
    ELSE Found(Readable, Alike) \cup NotFound(Hidden)

\* A container is asked first.  {}: it cannot settle the question.
ByContainer(h) ==
    CASE StateOf(h) = "spoilt"             -> NotFound({})
      [] StateOf(h) \in {"working", "ready"} -> Inconclusive
      [] OTHER                             -> {}

\* It was published, and only the timeline can name what.
InstagramReconcile ==
    IF ByContainer(ref.handle) # {} THEN ByContainer(ref.handle)
    ELSE IF StateOf(ref.handle) = "posted"
    THEN {IF v.is = "found" THEN v ELSE Unknown : v \in OnTimeline}
    ELSE OnTimeline

ThreadsReconcile ==
    IF ByContainer(ref.handle) # {} THEN ByContainer(ref.handle) ELSE OnTimeline

\* The record under the recorded key, or the timeline without one.
BlueskyReconcile ==
    CASE ref.handle = 0                 -> OnTimeline
      [] StateOf(ref.handle) = "posted" -> Found({SettledBy(ref.handle)}, Stale)
      [] OTHER                          -> NotFound({})

\* The job that was recorded last, which may be an earlier attempt's.
TikTokReconcile ==
    CASE StateOf(ref.handle) = "posted" -> Found({SettledBy(ref.handle)}, Stale)
      [] StateOf(ref.handle) = "spoilt" -> NotFound(Stale)
      [] OTHER                          -> Inconclusive

\* The others have nothing but the timeline.
FacebookReconcile  == OnTimeline
LinkedInReconcile  == OnTimeline
XReconcile         == OnTimeline
PinterestReconcile == OnTimeline
YouTubeReconcile   == OnTimeline

Reconcilings ==
    CASE Kind \in Instagram            -> InstagramReconcile
      [] Kind = "threads"              -> ThreadsReconcile
      [] Kind = "bluesky"              -> BlueskyReconcile
      [] Kind \in Jobs                 -> TikTokReconcile
      [] Kind \in {"fbPost", "fbReel"} -> FacebookReconcile
      [] Kind = "linkedin"             -> LinkedInReconcile
      [] Kind \in XPosts               -> XReconcile
      [] Kind \in {"pinImage", "pinVideo"} -> PinterestReconcile
      [] Kind = "youtube"              -> YouTubeReconcile

\* The read of a container failed: the timeline has its turn, as if there were
\* none.  A job TikTok says it does not know counts as never having landed.
ContainerUnread ==
    IF Kind \notin Containers \/ ref.handle = 0 THEN {} ELSE OnTimeline
JobUnread ==
    IF Kind \notin Jobs \/ ref.handle = 0 THEN {}
    ELSE IF StateOf(ref.handle) \in {"working", "posted"} THEN NotFound({"unread"})
    ELSE NotFound(Stale)

\* Any other failed read licenses no retry; Threads' throws, which is the same.
Unread == Inconclusive \cup ContainerUnread \cup JobUnread

\* FOUND is the engine's PUBLISHED, NOT_FOUND licenses a retry, anything else is
\* parked for a person.
Verdict(v) ==
    /\ Ends(CASE v.is = "found" -> "published" [] v.is = "notFound" -> "scheduled"
              [] OTHER -> "parked")
    /\ claimed' = v.post /\ Misled(v.blind)

ReconcileAnswered ==
    /\ work.asking
    /\ \E v \in Reconcilings : Verdict(v)
    /\ UNCHANGED <<ware, version, ref, handles, posts, tries, adapterTrouble>>

ReconcileUnread ==
    /\ work.asking /\ Happens
    /\ \E v \in Unread : Verdict(v)
    /\ UNCHANGED <<ware, version, ref, handles, posts, tries>>

----------------------------------------------------------------------------
(* The platform.                                                           *)

\* It finishes a container or a file; a job posts.
HandleFinishes(h) ==
    /\ handles[h].state = "working"
    /\ IF Kind \in Jobs
       THEN /\ handles' = [handles EXCEPT ![h].state = "posted"]
            /\ posts' = Append(posts, [Post(h) EXCEPT !.wanted = handles[h].version])
       ELSE handles' = [handles EXCEPT ![h].state = "ready"] /\ UNCHANGED posts
    /\ UNCHANGED <<ware, state, version, ref, claimed, work, tries, adapterTrouble, unclear>>

\* It rejects the file, or the handle expires.
HandleSpoils(h) ==
    /\ Kind \in Containers \cup Media \cup Jobs
    /\ handles[h].state \in {"empty", "working", "ready"} /\ Happens
    /\ \E how \in IF Kind = "xVideo" THEN Useless ELSE {"spoilt"} :
           handles' = [handles EXCEPT ![h].state = how]
    /\ UNCHANGED <<ware, state, version, ref, posts, claimed, work, tries, unclear>>

\* A post appears on the timeline.
PostShows(i) ==
    /\ ~posts[i].shown
    /\ posts' = [posts EXCEPT ![i].shown = TRUE]
    /\ UNCHANGED <<ware, state, version, ref, handles, claimed, work, tries, adapterTrouble, unclear>>

AdaptersNext ==
    \/ \E w \in Wares : Schedule(w)
    \/ EditWare \/ RetryWare \/ \E yes \in BOOLEAN : AnswerParked(yes)
    \/ BeginAttempt \/ PreflightRefuses
    \/ CallAnswered \/ Record \/ RecordFails
    \/ AwaitReady \/ AwaitFails \/ AwaitRunsOut
    \/ JobSettled \/ JobFailed \/ JobRunsOut
    \/ CallRefused \/ CallUnavailable \/ CallLost \/ AttemptDies \/ KeyTaken
    \/ ReconcileAnswered \/ ReconcileUnread
    \/ \E h \in DOMAIN handles : HandleFinishes(h) \/ HandleSpoils(h)
    \/ \E i \in DOMAIN posts : PostShows(i)

AdaptersSpec == AdaptersInit /\ [][AdaptersNext]_adapterVars

----------------------------------------------------------------------------
(* Properties.                                                             *)

States == {"draft", "scheduled", "publishing", "published", "failed", "parked", "vouched"}

\* An attempt is in progress exactly when the variant is publishing, and what
\* it may have lost can only be asked for after a call.
AdaptersTypeOK ==
    /\ ware = NoWare \/ ware \in Wares
    /\ state \in States /\ version \in 1 .. MaxVersions
    /\ ref.handle \in 0 .. Len(handles) /\ work.handle \in 0 .. Len(handles)
    /\ claimed \in 0 .. Len(posts)
    /\ InProgress <=> state = "publishing"
    /\ work.asking => InProgress

Twice == {i \in DOMAIN posts : \E j \in DOMAIN posts : j < i /\ posts[j].version = posts[i].version}

\* Where the platform itself refuses the second time (a container, a record
\* key), no content is posted twice, whatever is lost, repeated or answered by
\* a person: the handle is durable before the call, and is resumed.
OncePerHandle == Kind \in Containers \cup {"bluesky"} => Twice = {}

\* What is public is the content that was to be posted, never the content of a
\* handle made for an older draft.
OnlyWhatWasWanted == \A i \in DOMAIN posts : posts[i].version = posts[i].wanted

\* Nothing but what an adapter cannot see leads it astray: an error that came
\* after the effect, a post that the timeline did not show or that its text did
\* not match, a verdict on an earlier attempt's job, a job TikTok disowned, or a
\* person who was wrong.  A lost answer alone never posts a content twice, never
\* leaves a post public that is FAILED or SCHEDULED again, and the post recorded
\* is of another content only when that one's was public to be mistaken for it,
\* or was what the recorded handle had made.
TrueUnlessMisled ==
    /\ Twice # {} => unclear # {}
    /\ state \in {"failed", "scheduled"} /\ MineLive # {} => unclear # {}
    /\ state = "published" => /\ claimed # 0
                              /\ \/ posts[claimed].version = version
                                 \/ unclear \cap {"stale", "alike"} # {}
=============================================================================
