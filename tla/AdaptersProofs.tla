---------------------------- MODULE AdaptersProofs ----------------------------
(* What holds of Adapters for every number of attempts, drafts, lost answers *)
(* and deaths: nothing is posted but what was wanted; where the platform     *)
(* refuses the second use of a handle no content is posted twice; and on the *)
(* others nothing but what reconcile() cannot see leads it to a wrong end.   *)
EXTENDS Adapters, SequenceTheorems, TLAPS

HandleStates == {"empty", "working", "ready", "posted", "spoilt", "expired"}
HandleRecord == [state : HandleStates, version : Nat]
PostRecord   == [version : Nat, wanted : Nat, handle : Nat, try : Nat, shown : BOOLEAN]

HandleIds == 1 .. Len(handles)
PostIds   == 1 .. Len(posts)

AdapterShape ==
    /\ version \in Nat \ {0} /\ tries \in Nat
    /\ handles \in Seq(HandleRecord) /\ posts \in Seq(PostRecord)
    /\ ref.handle \in {0} \cup HandleIds /\ ref.version \in 0 .. version
    /\ work = [todo |-> work.todo, handle |-> work.handle,
               resumed |-> work.resumed, asking |-> work.asking]
    /\ work.handle \in {0} \cup HandleIds

\* A handle is made for the content of the moment; the recorded one for the
\* content recorded with it, and the attempt's for the content as it still is.
MadeFor ==
    /\ \A h \in HandleIds : handles[h].version <= version
    /\ ref.handle # 0 => handles[ref.handle].version = ref.version
    /\ work.handle # 0 => handles[work.handle].version = version

\* The variant is edited only while nothing is in progress.
AtRest ==
    /\ state # "publishing" => work = Idle
    /\ state = "draft" => handles = <<>> /\ posts = <<>> /\ ref = NoRef

\* Kinds of which the platform posts a handle once.
Once == Containers \cup {"bluesky"}

\* Of those, a handle has one post at most, and the handles that were posted
\* are the recorded one and those of older contents, one for each content.
PostedOnce ==
    /\ \A i \in PostIds :
           /\ posts[i].handle \in HandleIds
           /\ handles[posts[i].handle].state = "posted"
           /\ posts[i].version = handles[posts[i].handle].version
    /\ \A i, j \in PostIds : posts[i].handle = posts[j].handle => i = j
    /\ \A h \in HandleIds : handles[h].state = "posted" =>
           h = ref.handle \/ handles[h].version < version
    /\ \A h, k \in HandleIds :
           handles[h].state = "posted" /\ handles[k].state = "posted"
             /\ handles[h].version = handles[k].version => h = k
    /\ ref.handle = 0 => ref.version < version

\* How far an attempt is, and what is recorded then.  No handle is made for a
\* content that one was recorded for, and none is posted that is not recorded.
Creating ==
    /\ work.todo \in {<<"create", "record", "publish">>, <<"create", "record", "await", "publish">>}
    /\ work.handle = 0 /\ ref.version < version
Recording ==
    /\ work.todo \in {<<"record", "publish">>, <<"record", "await", "publish">>}
    /\ work.handle # 0
    /\ ref.version < version \/ ref.handle = work.handle
OnRecord ==
    /\ work.todo \in {<<"await", "publish">>, <<"publish">>}
    /\ work.handle # 0 /\ ref.handle = work.handle /\ ref.version = version
HowFar == work = Idle \/ Creating \/ Recording \/ OnRecord

AdapterInv ==
    /\ AdapterShape /\ MadeFor /\ AtRest /\ OnlyWhatWasWanted
    /\ Kind \in Once => PostedOnce /\ HowFar

----------------------------------------------------------------------------
LEMMA AdaptersInitial == AdaptersInit => AdapterInv
<1> SUFFICES ASSUME AdaptersInit PROVE AdapterInv  OBVIOUS
<1>1. /\ handles \in Seq(HandleRecord) /\ posts \in Seq(PostRecord)
      /\ Len(handles) = 0 /\ Len(posts) = 0
  BY DEF AdaptersInit
<1>2. HandleIds = {} /\ PostIds = {}  BY <1>1 DEF HandleIds, PostIds
<1>3. AdapterShape /\ MadeFor /\ AtRest
  BY <1>1, <1>2 DEF AdaptersInit, AdapterShape, MadeFor, AtRest, NoRef, Idle
<1>4. OnlyWhatWasWanted /\ PostedOnce /\ HowFar
  BY <1>1, <1>2 DEF AdaptersInit, OnlyWhatWasWanted, PostedOnce, HowFar, NoRef
<1> QED  BY <1>3, <1>4 DEF AdapterInv

LEMMA AdapterElements ==
    ASSUME AdapterShape
    PROVE  /\ DOMAIN handles = HandleIds /\ DOMAIN posts = PostIds
           /\ \A h \in HandleIds : handles[h] \in HandleRecord
           /\ \A i \in PostIds : posts[i] \in PostRecord
<1>1. DOMAIN handles = HandleIds /\ DOMAIN posts = PostIds
  BY LenProperties DEF AdapterShape, HandleIds, PostIds
<1>2. ASSUME NEW h \in HandleIds PROVE handles[h] \in HandleRecord
  BY ElementOfSeq DEF AdapterShape, HandleIds
<1>3. ASSUME NEW i \in PostIds PROVE posts[i] \in PostRecord
  BY ElementOfSeq DEF AdapterShape, PostIds
<1> QED  BY <1>1, <1>2, <1>3

\* A handle is in another state; or nothing is, when there is none.
LEMMA HandleRow ==
    ASSUME AdapterShape, NEW h \in HandleIds, NEW row \in HandleRecord,
           handles' = [handles EXCEPT ![h] = row]
    PROVE  /\ handles' \in Seq(HandleRecord) /\ HandleIds' = HandleIds
           /\ handles'[h] = row
           /\ \A k \in HandleIds : k # h => handles'[k] = handles[k]
BY ExceptSeq DEF AdapterShape, HandleIds

LEMMA HandleMoves ==
    ASSUME AdapterShape, NEW h \in HandleIds, NEW s \in HandleStates,
           handles' = [handles EXCEPT ![h].state = s]
    PROVE  /\ handles' \in Seq(HandleRecord) /\ HandleIds' = HandleIds
           /\ handles'[h].state = s
           /\ \A k \in HandleIds : /\ handles'[k].version = handles[k].version
                                   /\ k # h => handles'[k].state = handles[k].state
<1>1. handles[h] \in HandleRecord  BY AdapterElements
<1>2. PICK row \in HandleRecord : row = [handles[h] EXCEPT !.state = s]
  BY <1>1 DEF HandleRecord
<1>3. row \in HandleRecord /\ row.state = s /\ row.version = handles[h].version
  BY <1>1, <1>2 DEF HandleRecord
<1>4. handles' = [handles EXCEPT ![h] = row]  BY <1>2
<1>5. /\ handles' \in Seq(HandleRecord) /\ HandleIds' = HandleIds /\ handles'[h] = row
      /\ \A k \in HandleIds : k # h => handles'[k] = handles[k]
  BY <1>3, <1>4, HandleRow
<1>6. ASSUME NEW k \in HandleIds
      PROVE  /\ handles'[k].version = handles[k].version
             /\ k # h => handles'[k].state = handles[k].state
  BY <1>3, <1>5
<1> QED  BY <1>3, <1>5, <1>6

\* A post is seen.
LEMMA PostRow ==
    ASSUME AdapterShape, NEW i \in PostIds, NEW row \in PostRecord,
           posts' = [posts EXCEPT ![i] = row]
    PROVE  /\ posts' \in Seq(PostRecord) /\ PostIds' = PostIds
           /\ posts'[i] = row
           /\ \A j \in PostIds : j # i => posts'[j] = posts[j]
BY ExceptSeq DEF AdapterShape, PostIds

\* One more post.
LEMMA PostAppended ==
    ASSUME AdapterShape, NEW p \in PostRecord, posts' = Append(posts, p)
    PROVE  /\ posts' \in Seq(PostRecord) /\ Len(posts') = Len(posts) + 1
           /\ PostIds' = PostIds \cup {Len(posts')} /\ Len(posts') \notin PostIds
           /\ posts'[Len(posts')] = p
           /\ \A i \in PostIds : posts'[i] = posts[i]
<1>1. posts \in Seq(PostRecord) /\ Len(posts) \in Nat
  BY LenProperties DEF AdapterShape
<1>2. /\ posts' \in Seq(PostRecord) /\ Len(posts') = Len(posts) + 1
      /\ posts'[Len(posts) + 1] = p
      /\ \A i \in 1 .. Len(posts) : posts'[i] = posts[i]
  BY <1>1, AppendProperties
<1> QED  BY <1>1, <1>2 DEF PostIds

----------------------------------------------------------------------------
(* Steps that change nothing at the platform.                              *)

\* How an attempt ends or goes on, as far as its call goes.
LEMMA EndingKeeps ==
    ASSUME AdapterInv, UNCHANGED <<ware, version, tries, ref, handles, posts>>,
           \/ work' = Idle /\ state' # "draft"
           \/ UNCHANGED work /\ work = Idle /\ state' # "draft"
           \/ work # Idle /\ work' = [work EXCEPT !.asking = TRUE] /\ UNCHANGED state
    PROVE  AdapterInv'
<1>1. HandleIds' = HandleIds /\ PostIds' = PostIds  BY DEF HandleIds, PostIds
<1>2. CASE work' = Idle /\ state' # "draft"
  <2>1. work'.handle = 0 /\ work' = [todo |-> work'.todo, handle |-> work'.handle,
               resumed |-> work'.resumed, asking |-> work'.asking]
    BY <1>2 DEF Idle
  <2>2. AdapterShape' /\ MadeFor' /\ AtRest'
    BY <1>1, <1>2, <2>1 DEF AdapterInv, AdapterShape, MadeFor, AtRest
  <2> QED
    BY <1>1, <1>2, <2>2
    DEF AdapterInv, OnlyWhatWasWanted, PostedOnce, HowFar, Kind
<1>3. CASE UNCHANGED work /\ work = Idle /\ state' # "draft"
  BY <1>1, <1>3 DEF AdapterInv, AdapterShape, MadeFor, AtRest, OnlyWhatWasWanted, PostedOnce,
     HowFar, Kind, Creating, Recording, OnRecord
<1>4. CASE work # Idle /\ work' = [work EXCEPT !.asking = TRUE] /\ UNCHANGED state
  <2>1. /\ work'.todo = work.todo /\ work'.handle = work.handle
        /\ work' = [todo |-> work'.todo, handle |-> work'.handle,
               resumed |-> work'.resumed, asking |-> work'.asking]
    BY <1>4 DEF AdapterInv, AdapterShape
  <2>2. AdapterShape' /\ MadeFor' /\ AtRest'
    BY <1>1, <1>4, <2>1 DEF AdapterInv, AdapterShape, MadeFor, AtRest
  <2>3. Kind \in Once => HowFar'
    BY <1>4, <2>1 DEF AdapterInv, HowFar, Creating, Recording, OnRecord
  <2> QED
    BY <1>1, <1>4, <2>2, <2>3 DEF AdapterInv, OnlyWhatWasWanted, PostedOnce, Kind
<1> QED  BY <1>2, <1>3, <1>4

LEMMA NextIsInProgress ==
    ASSUME NEW step, NextIs(step)
    PROVE  work # Idle
BY DEF NextIs, Idle

\* The calls, and what is left of them.
LEMMA CallsLeft ==
    /\ Head(<<"create", "record", "publish">>) = "create"
    /\ Head(<<"create", "record", "await", "publish">>) = "create"
    /\ Head(<<"record", "publish">>) = "record"
    /\ Head(<<"record", "await", "publish">>) = "record"
    /\ Head(<<"await", "publish">>) = "await"
    /\ Head(<<"publish">>) = "publish"
    /\ Tail(<<"create", "record", "publish">>) = <<"record", "publish">>
    /\ Tail(<<"create", "record", "await", "publish">>) = <<"record", "await", "publish">>
    /\ Tail(<<"record", "publish">>) = <<"publish">>
    /\ Tail(<<"record", "await", "publish">>) = <<"await", "publish">>
    /\ Tail(<<"await", "publish">>) = <<"publish">>
    /\ Tail(<<"publish">>) = <<>>
OBVIOUS

\* What comes next says how far the attempt is.
LEMMA NextSaysHowFar ==
    ASSUME HowFar, NEW step, NextIs(step)
    PROVE  /\ step = "create"  => Creating /\ Tail(work.todo) \in
                  {<<"record", "publish">>, <<"record", "await", "publish">>}
           /\ step = "record"  => Recording /\ Tail(work.todo) \in
                  {<<"publish">>, <<"await", "publish">>}
           /\ step = "await"   => OnRecord /\ Tail(work.todo) = <<"publish">>
           /\ step = "publish" => OnRecord /\ Tail(work.todo) = <<>>
           /\ step \in {"create", "record", "await", "publish"}
<1>1. work # Idle /\ Head(work.todo) = step  BY DEF NextIs, Idle
<1>2. CASE Creating  BY <1>1, <1>2, CallsLeft DEF Creating
<1>3. CASE Recording  BY <1>1, <1>3, CallsLeft DEF Recording
<1>4. CASE OnRecord  BY <1>1, <1>4, CallsLeft DEF OnRecord
<1> QED  BY <1>1, <1>2, <1>3, <1>4 DEF HowFar

\* The attempt goes on without the platform having done anything.
LEMMA GoingAhead ==
    ASSUME AdapterShape, NEW todo, work' = [work EXCEPT !.todo = todo]
    PROVE  /\ work'.todo = todo /\ work'.handle = work.handle
           /\ work' = [todo |-> work'.todo, handle |-> work'.handle,
                       resumed |-> work'.resumed, asking |-> work'.asking]
BY DEF AdapterShape

LEMMA AwaitReadyKeeps ==
    ASSUME AdapterInv, AwaitReady
    PROVE  AdapterInv'
<1>1. /\ NextIs("await") /\ work # Idle
      /\ UNCHANGED <<ware, state, version, ref, handles, posts, tries>>
  BY NextIsInProgress DEF AwaitReady
<1>2. /\ work'.todo = Tail(work.todo) /\ work'.handle = work.handle
      /\ work' = [todo |-> work'.todo, handle |-> work'.handle,
                  resumed |-> work'.resumed, asking |-> work'.asking]
  BY GoingAhead DEF AwaitReady, GoesAhead, AdapterInv
<1>3. HandleIds' = HandleIds /\ PostIds' = PostIds  BY <1>1 DEF HandleIds, PostIds
<1>4. AdapterShape' /\ MadeFor' /\ AtRest'
  BY <1>1, <1>2, <1>3 DEF AdapterInv, AdapterShape, MadeFor, AtRest
<1>5. Kind \in Once => HowFar'
  <2> SUFFICES ASSUME Kind \in Once PROVE HowFar'  OBVIOUS
  <2>1. OnRecord /\ Tail(work.todo) = <<"publish">>
    BY <1>1, NextSaysHowFar DEF AdapterInv
  <2> QED  BY <1>1, <1>2, <2>1 DEF HowFar, OnRecord
<1> QED  BY <1>1, <1>3, <1>4, <1>5 DEF AdapterInv, OnlyWhatWasWanted, PostedOnce, Kind

LEMMA RecordKeeps ==
    ASSUME AdapterInv, Record
    PROVE  AdapterInv'
<1>1. /\ NextIs("record") \/ NextIs("sign")
      /\ work # Idle /\ state = "publishing"
      /\ ref' = [handle |-> work.handle, version |-> version]
      /\ UNCHANGED <<ware, version, handles, posts, tries>>
  BY NextIsInProgress DEF Record, AdapterInv, AtRest
<1>2. HandleIds' = HandleIds /\ PostIds' = PostIds  BY <1>1 DEF HandleIds, PostIds
<1>3. \/ work' = Idle /\ state' = "published" /\ Tail(work.todo) = <<>>
      \/ work' = [work EXCEPT !.todo = Tail(work.todo)] /\ state' = state
  BY DEF Record, Ends, GoesAhead
<1>4. /\ \/ work' = Idle /\ state' = "published"
         \/ work'.todo = Tail(work.todo) /\ work'.handle = work.handle /\ state' = state
      /\ work' = [todo |-> work'.todo, handle |-> work'.handle,
                  resumed |-> work'.resumed, asking |-> work'.asking]
  <2>1. CASE work' = Idle /\ state' = "published"  BY <2>1 DEF Idle
  <2>2. CASE work' = [work EXCEPT !.todo = Tail(work.todo)] /\ state' = state
    BY <2>2, GoingAhead DEF AdapterInv
  <2> QED  BY <1>3, <2>1, <2>2
<1>5. AdapterShape' /\ MadeFor' /\ AtRest'
  BY <1>1, <1>2, <1>4 DEF AdapterInv, AdapterShape, MadeFor, AtRest, Idle
<1>6. ASSUME Kind \in Once PROVE PostedOnce' /\ HowFar'
  <2>1. NextIs("record")  BY <1>1, <1>6, NextSaysHowFar DEF AdapterInv
  <2>2. Recording /\ Tail(work.todo) \in {<<"publish">>, <<"await", "publish">>}
    BY <1>6, <2>1, NextSaysHowFar DEF AdapterInv
  <2>3. OnRecord'
    <3>1. Tail(work.todo) # <<>>  BY <2>2
    <3>2. state' = state  BY <1>3, <3>1
    <3>3. work'.todo = Tail(work.todo) /\ work'.handle = work.handle
      BY <1>1, <1>4, <3>2
    <3>4. ref'.handle = work.handle /\ ref'.version = version /\ UNCHANGED version
      BY <1>1
    <3> QED  BY <2>2, <3>3, <3>4 DEF OnRecord, Recording
  <2>4. ref.handle # 0 => handles[ref.handle].version < version \/ ref.handle = work.handle
    BY <2>2 DEF Recording, AdapterInv, MadeFor
  <2>5. ref'.handle = work.handle  BY <1>1
  <2>6. \A h \in HandleIds : handles[h].state = "posted" =>
            h = ref'.handle \/ handles[h].version < version
    <3> SUFFICES ASSUME NEW h \in HandleIds, handles[h].state = "posted", h = ref.handle
                 PROVE  h = ref'.handle \/ handles[h].version < version
      BY <1>6 DEF AdapterInv, PostedOnce
    <3>1. h # 0  BY LenProperties DEF HandleIds
    <3> QED  BY <2>4, <2>5, <3>1
  <2>7. ref'.handle # 0  BY <2>2, <2>5 DEF Recording
  <2> QED  BY <1>1, <1>2, <1>6, <2>3, <2>6, <2>7 DEF AdapterInv, PostedOnce, HowFar
<1> QED  BY <1>1, <1>2, <1>5, <1>6 DEF AdapterInv, OnlyWhatWasWanted, Kind

LEMMA BeginAttemptKeeps ==
    ASSUME AdapterInv, BeginAttempt
    PROVE  AdapterInv'
<1>1. /\ state = "scheduled" /\ work = Idle /\ state' = "publishing" /\ tries' = tries + 1
      /\ UNCHANGED <<ware, version, ref, handles, posts>>
  BY DEF BeginAttempt, AdapterInv, AtRest
<1>2. HandleIds' = HandleIds /\ PostIds' = PostIds  BY <1>1 DEF HandleIds, PostIds
<1>3. /\ work'.todo = StillToDo(Resumes) /\ work'.handle = Resumes
      /\ work' = [todo |-> work'.todo, handle |-> work'.handle,
                  resumed |-> work'.resumed, asking |-> work'.asking]
  BY DEF BeginAttempt
<1>4. \/ Resumes = 0
      \/ Resumes = ref.handle /\ ref.version = version
  BY DEF Resumes
<1>5. AdapterShape' /\ MadeFor' /\ AtRest'
  BY <1>1, <1>2, <1>3, <1>4 DEF AdapterInv, AdapterShape, MadeFor, AtRest
<1>6. ASSUME Kind \in Once PROVE HowFar'
  <2>1. Kind \in {"igImage", "igReel", "threads", "bluesky"}
    BY <1>6 DEF Once, Containers, Instagram
  <2>2. Calls[Kind] \in {<<"create", "record", "publish">>,
                         <<"create", "record", "await", "publish">>}
    BY <2>1 DEF Calls, InstagramCalls, ThreadsCalls, BlueskyCalls
  <2>3. ref.version = version => ref.handle # 0
    BY <1>6 DEF AdapterInv, PostedOnce, AdapterShape
  <2>4. Resumes = 0 <=> ref.version < version
    <3>1. Resumes = IF ref.version = version THEN ref.handle ELSE 0
      BY <2>1 DEF Resumes, Resumable, Containers, Instagram
    <3>2. ref.version \in 0 .. version /\ version \in Nat
      BY DEF AdapterInv, AdapterShape
    <3> QED  BY <2>3, <3>1, <3>2
  <2>5. CASE Resumes = 0
    <3>1. StillToDo(Resumes) = Calls[Kind]  BY <2>5 DEF StillToDo
    <3> QED  BY <1>1, <1>3, <2>2, <2>4, <2>5, <3>1 DEF HowFar, Creating
  <2>6. CASE Resumes # 0
    <3>1. StillToDo(Resumes) = Tail(Calls[Kind])  BY <2>1, <2>6 DEF StillToDo
    <3>2. Tail(Calls[Kind]) \in {<<"record", "publish">>, <<"record", "await", "publish">>}
      BY <2>2, CallsLeft
    <3> QED  BY <1>1, <1>3, <1>4, <2>6, <3>1, <3>2 DEF HowFar, Recording
  <2> QED  BY <2>5, <2>6
<1> QED  BY <1>1, <1>2, <1>5, <1>6 DEF AdapterInv, OnlyWhatWasWanted, PostedOnce, Kind

LEMMA EditKeeps ==
    ASSUME AdapterInv, EditWare
    PROVE  AdapterInv'
<1>1. /\ version' = version + 1 /\ work = Idle /\ state' = "scheduled"
      /\ UNCHANGED <<ware, work, ref, handles, posts, tries>>
  BY DEF EditWare, AdapterInv, AtRest
<1>2. HandleIds' = HandleIds /\ PostIds' = PostIds  BY <1>1 DEF HandleIds, PostIds
<1>3. \A h \in HandleIds : handles[h].version \in Nat /\ handles[h].version < version'
  BY <1>1, AdapterElements DEF AdapterInv, AdapterShape, MadeFor, HandleRecord
<1>4. AdapterShape' /\ MadeFor' /\ AtRest'
  <2>1. version' \in Nat \ {0} /\ ref.version \in 0 .. version' /\ work.handle = 0
    BY <1>1 DEF AdapterInv, AdapterShape, Idle
  <2>2. AdapterShape'  BY <1>1, <1>2, <2>1 DEF AdapterInv, AdapterShape
  <2>3. \A h \in HandleIds : handles[h].version <= version'  BY <1>1, <1>3
  <2> QED  BY <1>1, <1>2, <2>1, <2>2, <2>3 DEF AdapterInv, MadeFor, AtRest
<1>5. ASSUME Kind \in Once PROVE PostedOnce' /\ HowFar'
  <2>1. ref.version < version'  BY <1>1 DEF AdapterInv, AdapterShape
  <2> QED  BY <1>1, <1>2, <1>3, <1>5, <2>1 DEF AdapterInv, PostedOnce, HowFar
<1> QED  BY <1>1, <1>4, <1>5 DEF AdapterInv, OnlyWhatWasWanted, Kind

LEMMA ScheduleKeeps ==
    ASSUME AdapterInv, NEW w \in Wares, Schedule(w)
    PROVE  AdapterInv'
<1>1. /\ handles = <<>> /\ posts = <<>> /\ ref = NoRef /\ work = Idle /\ state' = "scheduled"
      /\ UNCHANGED <<version, ref, handles, posts, work, tries>>
  BY DEF Schedule, AdapterInv, AtRest
<1>2. HandleIds' = HandleIds /\ PostIds' = PostIds /\ HandleIds = {} /\ PostIds = {}
  BY <1>1 DEF HandleIds, PostIds
<1>3. AdapterShape' /\ MadeFor' /\ AtRest'
  BY <1>1, <1>2 DEF AdapterInv, AdapterShape, MadeFor, AtRest
<1>4. PostedOnce' /\ HowFar' /\ OnlyWhatWasWanted'
  <2>1. ref.handle = 0 /\ ref.version < version
    BY <1>1 DEF AdapterInv, AdapterShape, NoRef
  <2> QED  BY <1>1, <1>2, <2>1 DEF AdapterInv, PostedOnce, HowFar, OnlyWhatWasWanted
<1> QED  BY <1>3, <1>4 DEF AdapterInv

----------------------------------------------------------------------------
(* What a call does at the platform.                                       *)

\* The platform's side of the invariant, without the attempt's.
Landed ==
    /\ handles' \in Seq(HandleRecord) /\ posts' \in Seq(PostRecord)
    /\ HandleIds \subseteq HandleIds'
    /\ \A h \in HandleIds : handles'[h].version = handles[h].version
    /\ \A h \in HandleIds' : handles'[h].version <= version
    /\ OnlyWhatWasWanted'
    /\ Kind \in Once => PostedOnce'

LEMMA CreateLands ==
    ASSUME AdapterInv, NextIs("create"), handles' = Made,
           UNCHANGED <<ware, version, tries, ref, posts>>
    PROVE  /\ Landed /\ Len(handles') \in HandleIds' /\ Len(handles') # 0
           /\ handles'[Len(handles')].version = version
<1> DEFINE n == Len(handles) + 1
           new == [state |-> FirstState, version |-> version]
<1>1. FirstState \in {"working", "empty", "ready"}  BY DEF FirstState
<1>2. /\ handles \in Seq(HandleRecord) /\ Len(handles) \in Nat /\ new \in HandleRecord
  BY <1>1, LenProperties DEF AdapterInv, AdapterShape, HandleRecord, HandleStates
<1>3. handles' = Append(handles, new)  BY DEF Made
<1>4. new.state # "posted" /\ new.version = version  BY <1>1
<1> HIDE DEF new
<1>5. /\ handles' \in Seq(HandleRecord) /\ Len(handles') = n /\ handles'[n] = new
      /\ \A h \in HandleIds : handles'[h] = handles[h]
  BY <1>2, <1>3, AppendProperties DEF HandleIds
<1>6. HandleIds' = HandleIds \cup {n} /\ n \notin HandleIds /\ PostIds' = PostIds /\ n # 0
  BY <1>2, <1>5 DEF HandleIds, PostIds
<1>7. version \in Nat  BY DEF AdapterInv, AdapterShape
<1>8. \A h \in HandleIds' : handles'[h].version <= version
  BY <1>4, <1>5, <1>6, <1>7 DEF AdapterInv, MadeFor
<1>9. ASSUME Kind \in Once PROVE PostedOnce'
  <2>1. PostedOnce  BY <1>9 DEF AdapterInv
  <2>2. \A h \in HandleIds' : handles'[h].state = "posted" =>
            h \in HandleIds /\ handles'[h] = handles[h]
    BY <1>4, <1>5, <1>6
  <2>3. \A k \in PostIds : posts[k].handle \in HandleIds  BY <2>1 DEF PostedOnce
  <2>4. \A k \in PostIds : handles'[posts[k].handle] = handles[posts[k].handle]
    BY <1>5, <2>3
  <2> HIDE DEF n
  <2> QED  BY <1>6, <2>1, <2>2, <2>3, <2>4 DEF PostedOnce
<1> QED
  BY <1>4, <1>5, <1>6, <1>8, <1>9 DEF Landed, AdapterInv, AdapterShape, OnlyWhatWasWanted

LEMMA UploadLands ==
    ASSUME AdapterInv, NextIs("upload"), handles' = Delivered,
           UNCHANGED <<ware, version, tries, ref, posts>>
    PROVE  Landed /\ HandleIds' = HandleIds
<1>1. Kind \notin Once  BY NextSaysHowFar DEF AdapterInv
<1>2. /\ handles' \in Seq(HandleRecord) /\ HandleIds' = HandleIds
      /\ \A h \in HandleIds : handles'[h].version = handles[h].version
  <2>1. CASE work.handle = 0
    <3>1. handles \in [HandleIds -> HandleRecord] /\ 0 \notin HandleIds
      BY AdapterElements, LenProperties DEF AdapterInv, AdapterShape, HandleIds
    <3>2. handles' = handles  BY <2>1, <3>1 DEF Delivered
    <3> QED  BY <3>2 DEF AdapterInv, AdapterShape, HandleIds
  <2>2. CASE work.handle \in HandleIds
    <3>1. handles[work.handle] \in HandleRecord  BY <2>2, AdapterElements DEF AdapterInv
    <3>2. PICK s \in HandleStates :
              s = IF handles[work.handle].state = "empty" THEN "working"
                  ELSE handles[work.handle].state
      BY <3>1 DEF HandleRecord, HandleStates
    <3>3. handles' = [handles EXCEPT ![work.handle].state = s]  BY <3>2 DEF Delivered
    <3> QED  BY <2>2, <3>3, HandleMoves DEF AdapterInv
  <2> QED  BY <2>1, <2>2 DEF AdapterInv, AdapterShape
<1> QED
  BY <1>1, <1>2 DEF Landed, AdapterInv, AdapterShape, MadeFor, OnlyWhatWasWanted

LEMMA PublishLands ==
    ASSUME AdapterInv, NextIs("publish"), Publishable,
           posts' = Append(posts, Post(work.handle)),
           handles' = IF work.handle = 0 \/ Kind \in Media THEN handles
                      ELSE [handles EXCEPT ![work.handle].state = "posted"],
           UNCHANGED <<ware, version, tries, ref>>
    PROVE  Landed /\ HandleIds' = HandleIds
<1> DEFINE h == work.handle
<1>1. h \in {0} \cup HandleIds /\ (h # 0 => handles[h].version = version)
  BY DEF AdapterInv, AdapterShape, MadeFor
<1>2. PICK p \in PostRecord : p = Post(h)
  <2>1. h \in Nat /\ version \in Nat /\ tries \in Nat
    BY <1>1, LenProperties DEF HandleIds, AdapterInv, AdapterShape
  <2>2. (IF h = 0 THEN version ELSE handles[h].version) = version  BY <1>1
  <2> HIDE DEF h
  <2>3. Post(h) = [version |-> version, wanted |-> version, handle |-> h, try |-> tries,
                   shown |-> FALSE]
    BY <2>2 DEF Post
  <2> QED  BY <2>1, <2>3 DEF PostRecord, h
<1>3. p.version = version /\ p.wanted = version /\ p.handle = h
  BY <1>1, <1>2 DEF Post
<1>4. /\ posts' \in Seq(PostRecord) /\ Len(posts') = Len(posts) + 1
      /\ PostIds' = PostIds \cup {Len(posts')} /\ Len(posts') \notin PostIds
      /\ posts'[Len(posts')] = p
      /\ \A i \in PostIds : posts'[i] = posts[i]
  BY <1>2, PostAppended DEF AdapterInv
<1>5. /\ handles' \in Seq(HandleRecord) /\ HandleIds' = HandleIds
      /\ \A k \in HandleIds : /\ handles'[k].version = handles[k].version
                              /\ k # h => handles'[k].state = handles[k].state
  <2>1. CASE handles' = handles  BY <2>1 DEF AdapterInv, AdapterShape, HandleIds
  <2>2. CASE h \in HandleIds /\ handles' = [handles EXCEPT ![h].state = "posted"]
    BY <2>2, HandleMoves DEF AdapterInv, HandleStates
  <2> QED  BY <1>1, <2>1, <2>2
<1>6. OnlyWhatWasWanted'
  <2>1. DOMAIN posts' = PostIds'  BY <1>4, LenProperties DEF PostIds
  <2>2. \A i \in PostIds : posts[i].version = posts[i].wanted
    BY AdapterElements DEF AdapterInv, OnlyWhatWasWanted
  <2>3. \A i \in PostIds' : posts'[i].version = posts'[i].wanted
    BY <1>3, <1>4, <2>2
  <2> QED  BY <2>1, <2>3 DEF OnlyWhatWasWanted
<1>7. ASSUME Kind \in Once PROVE PostedOnce'
  <2>1. PostedOnce /\ OnRecord  BY <1>7, NextSaysHowFar DEF AdapterInv
  <2>2. h \in HandleIds /\ ref.handle = h /\ ref.version = version
    BY <1>1, <2>1 DEF OnRecord
  <2>3. handles' = [handles EXCEPT ![h].state = "posted"]
    BY <1>7, <2>1 DEF OnRecord, Once, Containers, Instagram, Media
  <2>4. handles'[h].state = "posted"
    BY <2>2, <2>3, HandleMoves DEF AdapterInv, HandleStates
  <2>5. handles[h].state = "ready" /\ handles[h].version = version
    <3>1. h # 0  BY <2>1 DEF OnRecord
    <3>2. Kind \in Containers \cup {"bluesky"}  BY <1>7 DEF Once
    <3> QED  BY <1>1, <3>1, <3>2 DEF Publishable, StateOf
  <2> HIDE DEF h
  <2>6. \A k \in HandleIds : handles'[k].state = "posted" =>
            k = h \/ (handles[k].state = "posted" /\ handles[k].version < version)
    BY <1>5, <2>1, <2>2 DEF PostedOnce
  <2>7. \A i \in PostIds : posts[i].handle # h
    BY <2>1, <2>5 DEF PostedOnce
  <2>8. \A i \in PostIds' :
           /\ posts'[i].handle \in HandleIds
           /\ handles'[posts'[i].handle].state = "posted"
           /\ posts'[i].version = handles'[posts'[i].handle].version
    <3> SUFFICES ASSUME NEW i \in PostIds'
                 PROVE  /\ posts'[i].handle \in HandleIds
                        /\ handles'[posts'[i].handle].state = "posted"
                        /\ posts'[i].version = handles'[posts'[i].handle].version
      OBVIOUS
    <3>1. CASE i \in PostIds
      <4>1. /\ posts[i].handle \in HandleIds /\ posts[i].handle # h
            /\ handles[posts[i].handle].state = "posted"
            /\ posts[i].version = handles[posts[i].handle].version
        BY <2>1, <2>7, <3>1 DEF PostedOnce
      <4>2. posts'[i] = posts[i]  BY <1>4, <3>1
      <4> QED  BY <1>5, <4>1, <4>2
    <3>2. CASE i = Len(posts')
      <4>1. posts'[i].handle = h /\ posts'[i].version = version  BY <1>3, <1>4, <3>2
      <4>2. handles'[h].version = version  BY <1>5, <2>2, <2>5
      <4> QED  BY <2>2, <2>4, <4>1, <4>2
    <3> QED  BY <1>4, <3>1, <3>2
  <2>9. \A i, j \in PostIds' : posts'[i].handle = posts'[j].handle => i = j
    <3>1. PICK n : PostIds' = PostIds \cup {n} /\ posts'[n].handle = h  BY <1>3, <1>4
    <3>2. \A i \in PostIds : posts'[i].handle = posts[i].handle /\ posts'[i].handle # h
      BY <1>4, <2>7
    <3>3. \A i, j \in PostIds : posts'[i].handle = posts'[j].handle => i = j
      <4>1. \A i, j \in PostIds : posts[i].handle = posts[j].handle => i = j
        BY <2>1 DEF PostedOnce
      <4>2. ASSUME NEW i \in PostIds, NEW j \in PostIds, posts'[i].handle = posts'[j].handle
            PROVE  posts[i].handle = posts[j].handle
        <5>1. posts'[i].handle = posts[i].handle  BY <3>2
        <5>2. posts'[j].handle = posts[j].handle  BY <3>2
        <5> QED  BY <4>2, <5>1, <5>2
      <4> QED  BY <4>1, <4>2
    <3> SUFFICES ASSUME NEW i \in PostIds', NEW j \in PostIds',
                        posts'[i].handle = posts'[j].handle
                 PROVE  i = j
      OBVIOUS
    <3>4. (i \in PostIds \/ i = n) /\ (j \in PostIds \/ j = n)  BY <3>1
    <3>5. CASE i \in PostIds /\ j \in PostIds  BY <3>3, <3>5
    <3>6. CASE i = n \/ j = n  BY <3>1, <3>2, <3>4, <3>6
    <3> QED  BY <3>4, <3>5, <3>6
  <2>10. \A k, l \in HandleIds :
           handles'[k].state = "posted" /\ handles'[l].state = "posted"
             /\ handles'[k].version = handles'[l].version => k = l
    <3>1. \A k \in HandleIds : handles[k].version \in Nat
      BY AdapterElements DEF AdapterInv, HandleRecord
    <3>2. version \in Nat  BY DEF AdapterInv, AdapterShape
    <3>3. \A k \in HandleIds : handles'[k].version = handles[k].version  BY <1>5
    <3> SUFFICES ASSUME NEW k \in HandleIds, NEW l \in HandleIds,
                        handles'[k].state = "posted", handles'[l].state = "posted",
                        handles[k].version = handles[l].version
                 PROVE  k = l
      BY <3>3
    <3>4. CASE k = h \/ l = h  BY <2>5, <2>6, <3>1, <3>2, <3>4
    <3>5. CASE k # h /\ l # h  BY <2>1, <2>6, <3>5 DEF PostedOnce
    <3> QED  BY <3>4, <3>5
  <2>11. \A k \in HandleIds : handles'[k].state = "posted" =>
            k = ref.handle \/ handles'[k].version < version
    BY <1>5, <2>2, <2>6
  <2> QED  BY <1>5, <2>1, <2>8, <2>9, <2>10, <2>11 DEF PostedOnce
<1> QED
  BY <1>4, <1>5, <1>6, <1>7 DEF Landed, AdapterInv, MadeFor

\* What a call does, whichever it is; nothing but a "create" adds a handle.
LEMMA CallLands ==
    ASSUME AdapterInv, Lands, UNCHANGED <<ware, version, tries, ref>>
    PROVE  /\ Landed
           /\ NextIs("create") => /\ Len(handles') \in HandleIds' /\ Len(handles') # 0
                                  /\ handles'[Len(handles')].version = version
<1>1. CASE NextIs("create") /\ handles' = Made /\ UNCHANGED posts
  BY <1>1, CreateLands
<1>2. CASE NextIs("upload") /\ handles' = Delivered /\ UNCHANGED posts
  BY <1>2, UploadLands DEF NextIs
<1>3. CASE /\ NextIs("publish") /\ Publishable
           /\ posts' = Append(posts, Post(work.handle))
           /\ handles' = IF work.handle = 0 \/ Kind \in Media THEN handles
                         ELSE [handles EXCEPT ![work.handle].state = "posted"]
  BY <1>3, PublishLands DEF NextIs
<1> QED  BY <1>1, <1>2, <1>3 DEF Lands

\* The answer of the call is lost, or says nothing, or the process died.
LEMMA LandingKeeps ==
    ASSUME AdapterInv, Lands, UNCHANGED <<ware, version, tries, ref>>,
           \/ work' = Idle /\ state' # "draft"
           \/ work # Idle /\ work' = [work EXCEPT !.asking = TRUE] /\ UNCHANGED state
    PROVE  AdapterInv'
<1>1. Landed  BY CallLands
<1>2. /\ \/ work' = Idle
         \/ work # Idle /\ state' = state /\ work'.todo = work.todo /\ work'.handle = work.handle
      /\ work' = [todo |-> work'.todo, handle |-> work'.handle,
                  resumed |-> work'.resumed, asking |-> work'.asking]
  BY DEF Idle, AdapterInv, AdapterShape
<1>3. work'.handle = 0 \/ work'.handle = work.handle  BY <1>2 DEF Idle
<1>4. AdapterShape' /\ MadeFor'
  BY <1>1, <1>2, <1>3 DEF Landed, AdapterInv, AdapterShape, MadeFor
<1>5. AtRest'  BY <1>2 DEF AdapterInv, AtRest
<1>6. Kind \in Once => HowFar'
  BY <1>2 DEF AdapterInv, HowFar, Creating, Recording, OnRecord
<1> QED  BY <1>1, <1>4, <1>5, <1>6 DEF AdapterInv, Landed, Kind

LEMMA CallAnsweredKeeps ==
    ASSUME AdapterInv, CallAnswered
    PROVE  AdapterInv'
<1>1. /\ Lands /\ UNCHANGED <<ware, version, tries, ref>>
      /\ work # Idle /\ state = "publishing"
  BY NextIsInProgress DEF CallAnswered, Lands, AdapterInv, AtRest
<1>2. CASE NextIs("publish") /\ Tail(work.todo) = <<>>
  BY <1>1, <1>2, LandingKeeps DEF CallAnswered, Ends
<1>3. CASE ~(NextIs("publish") /\ Tail(work.todo) = <<>>)
  <2> DEFINE handle == IF NextIs("create") THEN Len(handles') ELSE work.handle
  <2>1. /\ work' = [work EXCEPT !.todo = Tail(work.todo), !.handle = handle]
        /\ state' = state
    BY <1>3 DEF CallAnswered
  <2>2. /\ Landed
        /\ NextIs("create") => /\ Len(handles') \in HandleIds' /\ Len(handles') # 0
                               /\ handles'[Len(handles')].version = version
    BY <1>1, CallLands
  <2> HIDE DEF handle
  <2>3. /\ work'.todo = Tail(work.todo) /\ work'.handle = handle
        /\ work' = [todo |-> work'.todo, handle |-> work'.handle,
                    resumed |-> work'.resumed, asking |-> work'.asking]
    BY <2>1 DEF AdapterInv, AdapterShape
  <2>4. /\ handle \in {0} \cup HandleIds'
        /\ handle # 0 => handles'[handle].version = version
    <3>1. CASE NextIs("create")  BY <2>2, <3>1 DEF handle
    <3>2. CASE ~NextIs("create")
      BY <2>2, <3>2 DEF handle, Landed, AdapterInv, AdapterShape, MadeFor
    <3> QED  BY <3>1, <3>2
  <2>5. AdapterShape' /\ MadeFor'
    BY <1>1, <2>2, <2>3, <2>4 DEF Landed, AdapterInv, AdapterShape, MadeFor
  <2>6. AtRest'  BY <1>1, <2>1 DEF AtRest
  <2>7. ASSUME Kind \in Once PROVE HowFar'
    <3>1. NextIs("create")
      BY <1>1, <1>3, <2>7, NextSaysHowFar DEF Lands, AdapterInv
    <3>2. Creating /\ Tail(work.todo) \in {<<"record", "publish">>, <<"record", "await", "publish">>}
      BY <2>7, <3>1, NextSaysHowFar DEF AdapterInv
    <3>3. work'.handle # 0  BY <2>2, <2>3, <3>1 DEF handle
    <3> QED  BY <1>1, <2>3, <3>2, <3>3 DEF Creating, HowFar, Recording
  <2> QED  BY <1>1, <2>2, <2>5, <2>6, <2>7 DEF AdapterInv, Landed, Kind
<1> QED  BY <1>2, <1>3

\* The platform finishes what it works on; a job posts; a handle is spoilt.
LEMMA HandleFinishesKeeps ==
    ASSUME AdapterInv, NEW h \in DOMAIN handles, HandleFinishes(h)
    PROVE  AdapterInv'
<1>1. /\ h \in HandleIds /\ handles[h] \in HandleRecord /\ handles[h].state = "working"
      /\ UNCHANGED <<ware, state, version, ref, work, tries>>
  BY AdapterElements DEF HandleFinishes, AdapterInv
<1>2. \/ Kind \in Jobs /\ handles' = [handles EXCEPT ![h].state = "posted"]
      \/ Kind \notin Jobs /\ handles' = [handles EXCEPT ![h].state = "ready"] /\ posts' = posts
  BY DEF HandleFinishes
<1>3. /\ handles' \in Seq(HandleRecord) /\ HandleIds' = HandleIds
      /\ \A k \in HandleIds : /\ handles'[k].version = handles[k].version
                              /\ k # h => handles'[k].state = handles[k].state
      /\ Kind \notin Jobs => handles'[h].state = "ready"
  BY <1>1, <1>2, HandleMoves DEF AdapterInv, HandleStates
<1>4. posts' \in Seq(PostRecord) /\ OnlyWhatWasWanted'
  <2>1. CASE posts' = posts  BY <2>1 DEF AdapterInv, AdapterShape, OnlyWhatWasWanted
  <2>2. CASE posts' = Append(posts, [Post(h) EXCEPT !.wanted = handles[h].version])
    <3>1. h \in Nat /\ h # 0 /\ tries \in Nat /\ handles[h].version \in Nat
      BY <1>1, LenProperties DEF HandleIds, HandleRecord, AdapterInv, AdapterShape
    <3>2. /\ Post(h) \in PostRecord
          /\ Post(h).version = handles[h].version
      <4>1. (IF h = 0 THEN version ELSE handles[h].version) = handles[h].version  BY <3>1
      <4>2. PICK v \in Nat : v = handles[h].version  BY <3>1
      <4>3. Post(h) = [version |-> v, wanted |-> version,
                       handle |-> h, try |-> tries, shown |-> FALSE]
        BY <4>1, <4>2 DEF Post
      <4>4. version \in Nat  BY DEF AdapterInv, AdapterShape
      <4>5. Post(h) \in PostRecord  BY <3>1, <4>3, <4>4 DEF PostRecord
      <4>6. Post(h).version = v  BY <4>3
      <4> QED  BY <4>2, <4>5, <4>6
    <3> PICK made \in PostRecord : made = Post(h) /\ made.version = handles[h].version
      BY <3>2
    <3>3. PICK p \in PostRecord : p = [made EXCEPT !.wanted = handles[h].version]
      BY <3>1 DEF PostRecord
    <3>4. p \in PostRecord /\ p.version = p.wanted /\ posts' = Append(posts, p)
      <4>1. p.version = made.version /\ p.wanted = handles[h].version
        BY <3>3 DEF PostRecord
      <4> QED  BY <2>2, <3>3, <4>1
    <3>5. /\ posts' \in Seq(PostRecord) /\ PostIds' = PostIds \cup {Len(posts')}
          /\ posts'[Len(posts')] = p /\ \A i \in PostIds : posts'[i] = posts[i]
      BY <3>4, PostAppended DEF AdapterInv
    <3>6. \A i \in PostIds : posts[i].version = posts[i].wanted
      BY AdapterElements DEF AdapterInv, OnlyWhatWasWanted
    <3>7. \A i \in PostIds' : posts'[i].version = posts'[i].wanted
      BY <3>4, <3>5, <3>6
    <3>8. DOMAIN posts' = PostIds'  BY <3>5, LenProperties DEF PostIds
    <3> QED  BY <3>5, <3>7, <3>8 DEF OnlyWhatWasWanted
  <2> QED  BY <2>1, <2>2 DEF HandleFinishes
<1>5. AdapterShape' /\ MadeFor'
  BY <1>1, <1>3, <1>4 DEF AdapterInv, AdapterShape, MadeFor
<1>6. AtRest'
  BY <1>1 DEF AdapterInv, AtRest, AdapterShape, HandleIds
<1>7. ASSUME Kind \in Once PROVE PostedOnce' /\ HowFar'
  <2>1. Kind \notin Jobs  BY <1>7 DEF Once, Containers, Instagram, Jobs
  <2>2. posts' = posts /\ PostIds' = PostIds  BY <1>2, <2>1 DEF PostIds, Jobs
  <2>3. \A k \in HandleIds : handles'[k].state = "posted" <=> handles[k].state = "posted"
    BY <1>1, <1>3, <2>1
  <2>4. PostedOnce'
    BY <1>1, <1>3, <1>7, <2>2, <2>3 DEF AdapterInv, PostedOnce
  <2>5. HowFar'
    BY <1>1, <1>7 DEF AdapterInv, HowFar, Creating, Recording, OnRecord
  <2> QED  BY <2>4, <2>5
<1> QED  BY <1>1, <1>4, <1>5, <1>6, <1>7 DEF AdapterInv, Kind

LEMMA HandleSpoilsKeeps ==
    ASSUME AdapterInv, NEW h \in DOMAIN handles, HandleSpoils(h)
    PROVE  AdapterInv'
<1>1. PICK how \in Useless :
      /\ h \in HandleIds /\ handles[h].state # "posted"
      /\ handles' = [handles EXCEPT ![h].state = how]
      /\ UNCHANGED <<ware, state, version, ref, posts, work, tries>>
  BY AdapterElements DEF HandleSpoils, Useless, AdapterInv
<1>2. /\ handles' \in Seq(HandleRecord) /\ HandleIds' = HandleIds /\ PostIds' = PostIds
      /\ \A k \in HandleIds : /\ handles'[k].version = handles[k].version
                              /\ k # h => handles'[k].state = handles[k].state
      /\ handles'[h].state = how /\ how # "posted"
  BY <1>1, HandleMoves DEF AdapterInv, HandleStates, Useless, PostIds
<1>3. \A k \in HandleIds : handles'[k].state = "posted" <=> handles[k].state = "posted"
  BY <1>1, <1>2
<1>4. AdapterShape' /\ MadeFor'
  BY <1>1, <1>2 DEF AdapterInv, AdapterShape, MadeFor
<1>5. AtRest'  BY <1>1 DEF AdapterInv, AtRest, AdapterShape, HandleIds
<1>6. Kind \in Once => PostedOnce' /\ HowFar'
  BY <1>1, <1>2, <1>3 DEF AdapterInv, PostedOnce, HowFar, Creating, Recording, OnRecord
<1> QED  BY <1>1, <1>4, <1>5, <1>6 DEF AdapterInv, OnlyWhatWasWanted, Kind

LEMMA PostShowsKeeps ==
    ASSUME AdapterInv, NEW i \in DOMAIN posts, PostShows(i)
    PROVE  AdapterInv'
<1>1. /\ i \in PostIds /\ posts[i] \in PostRecord
      /\ posts' = [posts EXCEPT ![i].shown = TRUE]
      /\ UNCHANGED <<ware, state, version, ref, handles, work, tries>>
  BY AdapterElements DEF PostShows, AdapterInv
<1>2. PICK row \in PostRecord : row = [posts[i] EXCEPT !.shown = TRUE]
  BY <1>1 DEF PostRecord
<1>3. /\ row \in PostRecord /\ row.version = posts[i].version /\ row.wanted = posts[i].wanted
      /\ row.handle = posts[i].handle
  BY <1>1, <1>2 DEF PostRecord
<1>4. posts' = [posts EXCEPT ![i] = row]  BY <1>1, <1>2
<1>5. /\ posts' \in Seq(PostRecord) /\ PostIds' = PostIds /\ posts'[i] = row
      /\ \A j \in PostIds : j # i => posts'[j] = posts[j]
  BY <1>1, <1>3, <1>4, PostRow DEF AdapterInv
<1>6. ASSUME NEW j \in PostIds
      PROVE  /\ posts'[j].version = posts[j].version /\ posts'[j].wanted = posts[j].wanted
             /\ posts'[j].handle = posts[j].handle
  BY <1>3, <1>5
<1>7. HandleIds' = HandleIds  BY <1>1 DEF HandleIds
<1>8. AdapterShape' /\ MadeFor'
  BY <1>1, <1>5, <1>7 DEF AdapterInv, AdapterShape, MadeFor
<1>9. AtRest'  BY <1>1 DEF AdapterInv, AtRest, PostIds
<1>10. OnlyWhatWasWanted'
  <2>1. DOMAIN posts = PostIds /\ DOMAIN posts' = PostIds
    BY <1>5, LenProperties, AdapterElements DEF AdapterInv, PostIds
  <2> QED  BY <1>6, <2>1 DEF AdapterInv, OnlyWhatWasWanted
<1>11. Kind \in Once => PostedOnce' /\ HowFar'
  BY <1>1, <1>5, <1>6, <1>7
  DEF AdapterInv, PostedOnce, HowFar, Creating, Recording, OnRecord
<1> QED  BY <1>1, <1>8, <1>9, <1>10, <1>11 DEF AdapterInv, Kind

LEMMA AdapterStep ==
    ASSUME AdapterInv, [AdaptersNext]_adapterVars
    PROVE  AdapterInv'
<1>1. CASE UNCHANGED adapterVars
  BY <1>1 DEF adapterVars, AdapterInv, AdapterShape, MadeFor, AtRest, OnlyWhatWasWanted,
     PostedOnce, HowFar, Creating, Recording, OnRecord, Kind, HandleIds, PostIds
<1>2. ASSUME NEW w \in Wares, Schedule(w) PROVE AdapterInv'
  BY <1>2, ScheduleKeeps
<1>3. CASE EditWare \/ BeginAttempt \/ CallAnswered \/ Record \/ AwaitReady
  BY <1>3, EditKeeps, BeginAttemptKeeps, CallAnsweredKeeps, RecordKeeps, AwaitReadyKeeps
\* A person acts on a variant that rests.
<1>4. CASE RetryWare \/ \E yes \in BOOLEAN : AnswerParked(yes)
  <2>1. /\ work = Idle /\ state' # "draft"
        /\ UNCHANGED <<ware, version, tries, ref, handles, posts, work>>
    BY <1>4 DEF RetryWare, AnswerParked, AdapterInv, AtRest
  <2> QED  BY <2>1, EndingKeeps
\* The attempt ends, or its outcome is to be asked for, with no call landing.
<1>5. CASE \/ PreflightRefuses \/ RecordFails \/ AwaitFails \/ AwaitRunsOut \/ JobSettled
           \/ JobFailed \/ KeyTaken
  <2>1. /\ work' = Idle /\ state' # "draft"
        /\ UNCHANGED <<ware, version, tries, ref, handles, posts>>
    BY <1>5 DEF PreflightRefuses, RecordFails, AwaitFails, AwaitRunsOut, JobSettled, JobFailed,
       KeyTaken, Ends
  <2> QED  BY <2>1, EndingKeeps
<1>6. CASE JobRunsOut \/ AttemptDies
  <2>1. /\ work # Idle /\ work' = [work EXCEPT !.asking = TRUE]
        /\ UNCHANGED <<state, ware, version, tries, ref, handles, posts>>
    BY <1>6, NextIsInProgress DEF JobRunsOut, AttemptDies, Ask, InProgress
  <2> QED  BY <2>1, EndingKeeps
<1>7. CASE ReconcileAnswered \/ ReconcileUnread
  <2>1. PICK v : Verdict(v)  BY <1>7 DEF ReconcileAnswered, ReconcileUnread
  <2>2. /\ work' = Idle /\ state' # "draft"
        /\ UNCHANGED <<ware, version, tries, ref, handles, posts>>
    BY <1>7, <2>1 DEF ReconcileAnswered, ReconcileUnread, Verdict, Ends
  <2> QED  BY <2>2, EndingKeeps
\* The call is refused, or its answer is lost.
<1>8. CASE CallRefused \/ CallUnavailable
  <2>1. /\ work' = Idle /\ state' # "draft" /\ UNCHANGED <<ware, version, tries, ref>>
        /\ Lands \/ UNCHANGED <<handles, posts>>
    BY <1>8 DEF CallRefused, CallUnavailable, Ends, DoesNot
  <2> QED  BY <2>1, EndingKeeps, LandingKeeps
<1>9. CASE CallLost
  <2>1. /\ work # Idle /\ work' = [work EXCEPT !.asking = TRUE] /\ UNCHANGED state
        /\ UNCHANGED <<ware, version, tries, ref>>
        /\ Lands \/ UNCHANGED <<handles, posts>>
    BY <1>9, NextIsInProgress DEF CallLost, WhenLost, Ask, OnTheWire, DoesNot
  <2> QED  BY <2>1, EndingKeeps, LandingKeeps
<1>10. ASSUME NEW h \in DOMAIN handles, HandleFinishes(h) \/ HandleSpoils(h)
       PROVE AdapterInv'
  BY <1>10, HandleFinishesKeeps, HandleSpoilsKeeps
<1>11. ASSUME NEW i \in DOMAIN posts, PostShows(i) PROVE AdapterInv'
  BY <1>11, PostShowsKeeps
<1> QED
  BY <1>1, <1>2, <1>3, <1>4, <1>5, <1>6, <1>7, <1>8, <1>9, <1>10, <1>11 DEF AdaptersNext

----------------------------------------------------------------------------
\* What a handle was made for, what is recorded and how far the attempt is
\* agree, whatever call is lost and wherever the process dies.
THEOREM AdapterInvariant == AdaptersSpec => []AdapterInv
BY AdaptersInitial, AdapterStep, PTL DEF AdaptersSpec

\* No adapter posts a handle that was made for an older draft (the contentHash
\* that each publish() compares before it resumes a previousRef).
THEOREM PostsWhatWasWanted == AdaptersSpec => []OnlyWhatWasWanted
<1>1. AdapterInv => OnlyWhatWasWanted  BY DEF AdapterInv
<1> QED  BY <1>1, AdapterInvariant, PTL

\* On Instagram, Threads and Bluesky no content is posted twice, however many
\* attempts are made, answers are lost and people answer wrongly: the handle is
\* recorded before the call and resumed after it.
THEOREM PostsOnce == AdaptersSpec => []OncePerHandle
<1>1. AdapterInv => OncePerHandle
  <2> SUFFICES ASSUME AdapterInv, Kind \in Once,
                      NEW i \in PostIds, NEW j \in PostIds,
                      j < i, posts[j].version = posts[i].version
               PROVE  FALSE
    BY AdapterElements DEF OncePerHandle, Twice, Once, AdapterInv
  <2>1. PostedOnce  BY DEF AdapterInv
  <2>2. posts[i].handle = posts[j].handle  BY <2>1 DEF PostedOnce
  <2>3. i = j  BY <2>1, <2>2 DEF PostedOnce
  <2> QED  BY <2>3, LenProperties DEF PostIds
<1> QED  BY <1>1, AdapterInvariant, PTL

----------------------------------------------------------------------------
(* That nothing leads an adapter astray but what it cannot see.            *)

CallSteps == {"create", "record", "await", "sign", "upload", "publish", "settle"}

\* What an attempt has still to do: a job is created, recorded, perhaps filled,
\* and waited for; anything else ends in the call that publishes.
JobPlans ==
    {<<"create", "record", "upload", "settle">>, <<"record", "upload", "settle">>,
     <<"upload", "settle">>, <<"create", "record", "settle">>, <<"record", "settle">>,
     <<"settle">>}

PublishLast(s) ==
    /\ s \in Seq(CallSteps \ {"settle"}) /\ s # <<>>
    /\ \A n \in 1 .. Len(s) : s[n] = "publish" <=> n = Len(s)

OnPlan ==
    work # Idle =>
        IF Kind \in Jobs
        THEN /\ work.todo \in JobPlans /\ ~work.resumed
             /\ Head(work.todo) = "create" <=> work.handle = 0
        ELSE PublishLast(work.todo)

\* What is posted was a handle's, or a plain call's, and has its content.
PostsCome ==
    /\ \A h \in HandleIds :
           /\ handles[h].state = "posted" => \E i \in PostIds : posts[i].handle = h
           /\ Kind \in Jobs => handles[h].state # "ready"
    /\ \A i \in PostIds :
           /\ posts[i].handle \in {0} \cup HandleIds /\ posts[i].version <= version
           /\ posts[i].handle # 0 => posts[i].version = handles[posts[i].handle].version
           /\ Kind \in Jobs => posts[i].handle # 0 /\ handles[posts[i].handle].state = "posted"

\* The post that is recorded is one of the content that was to be posted.
ClaimIsTrue ==
    state = "published" =>
        claimed # 0 /\ (posts[claimed].version = version \/ unclear \cap {"stale", "alike"} # {})

Nothing == MineLive = {} /\ JobsOut = {}

\* A job that may still post is the only trace of the content, and belongs to
\* the attempt that has a handle.
LoneJob == \A h \in JobsOut :
    handles[h].version = version /\ MineLive = {} /\ JobsOut = {h}
OneJobOut ==
    /\ LoneJob
    /\ work.handle # 0 => /\ JobsOut \subseteq {work.handle}
                          /\ \A i \in MineLive : posts[i].handle = work.handle

\* As long as nothing misled an attempt: no trace of the content is left when
\* the variant rests to be posted, nor before the call that posts; and what is
\* asked for then is this attempt's.
Unmisled ==
    unclear = {} =>
        /\ Twice = {}
        /\ state \in {"draft", "scheduled", "failed"} => Nothing
        /\ work # Idle /\ ~work.asking /\ (Kind \in Jobs => work.handle = 0) => Nothing
        /\ work.asking /\ Kind \notin Jobs => \A i \in MineLive :
               posts[i].try = tries /\ (Kind \in Once => posts[i].handle = ref.handle)
        /\ Kind \in Jobs => OneJobOut

TruthInv ==
    /\ AdaptersTypeOK /\ (state # "draft" => ware \in Wares)
    /\ OnPlan /\ PostsCome /\ ClaimIsTrue /\ Unmisled

----------------------------------------------------------------------------
LEMMA TruthInitial == AdaptersInit => TruthInv
<1> SUFFICES ASSUME AdaptersInit PROVE TruthInv  OBVIOUS
<1>1. HandleIds = {} /\ PostIds = {} /\ DOMAIN handles = {} /\ DOMAIN posts = {}
      /\ Len(handles) = 0 /\ Len(posts) = 0
  BY DEF AdaptersInit, HandleIds, PostIds
<1>2. AdaptersTypeOK
  BY <1>1, AdaptersAssumption DEF AdaptersInit, AdaptersTypeOK, States, NoRef, Idle, InProgress
<1>3. OnPlan /\ PostsCome /\ ClaimIsTrue
  BY <1>1 DEF AdaptersInit, OnPlan, PostsCome, ClaimIsTrue
<1>4. MineLive = {} /\ JobsOut = {} /\ Twice = {}
  BY <1>1 DEF MineLive, JobsOut, Twice
<1>5. Unmisled
  BY <1>4 DEF AdaptersInit, Unmisled, Nothing, OneJobOut, LoneJob, Idle
<1> QED  BY <1>2, <1>3, <1>5 DEF AdaptersInit, TruthInv

\* The plan of a kind of post, and what is left of it after the next call.
LEMMA PublishLastGoesOn ==
    ASSUME NEW s, PublishLast(s)
    PROVE  /\ Head(s) # "settle"
           /\ Head(s) = "publish" <=> Tail(s) = <<>>
           /\ Head(s) # "publish" => PublishLast(Tail(s))
<1>1. /\ s \in Seq(CallSteps \ {"settle"}) /\ s # <<>>
      /\ Len(s) \in Nat /\ Len(s) # 0 /\ Head(s) = s[1] /\ Head(s) \in CallSteps \ {"settle"}
      /\ Tail(s) \in Seq(CallSteps \ {"settle"}) /\ Len(Tail(s)) = Len(s) - 1
      /\ \A n \in 1 .. Len(Tail(s)) : Tail(s)[n] = s[n + 1]
  BY HeadTailProperties, EmptySeq, LenProperties DEF PublishLast
<1>2. \A n \in 1 .. Len(s) : s[n] = "publish" <=> n = Len(s)
  BY DEF PublishLast
<1>3. Head(s) = "publish" <=> Len(s) = 1
  <2>1. 1 \in 1 .. Len(s)  BY <1>1
  <2>2. s[1] = "publish" <=> 1 = Len(s)  BY <1>2, <2>1
  <2> QED  BY <1>1, <2>2
<1>4. Tail(s) = <<>> <=> Len(s) = 1
  <2>1. Len(Tail(s)) = 0 <=> Tail(s) = <<>>  BY <1>1, EmptySeq
  <2>2. Len(Tail(s)) = 0 <=> Len(s) = 1  BY <1>1
  <2> QED  BY <2>1, <2>2
<1>5. ASSUME Head(s) # "publish" PROVE PublishLast(Tail(s))
  <2> SUFFICES ASSUME NEW n \in 1 .. Len(Tail(s))
               PROVE  Tail(s)[n] = "publish" <=> n = Len(Tail(s))
    BY <1>1, <1>3, <1>4, <1>5 DEF PublishLast
  <2>1. n \in Nat /\ n + 1 \in 1 .. Len(s)  BY <1>1
  <2>2. Tail(s)[n] = s[n + 1]  BY <1>1
  <2>3. s[n + 1] = "publish" <=> n + 1 = Len(s)  BY <1>2, <2>1
  <2>4. n + 1 = Len(s) <=> n = Len(Tail(s))  BY <1>1, <2>1
  <2> QED  BY <2>2, <2>3, <2>4
<1> QED  BY <1>1, <1>3, <1>4, <1>5

LEMMA JobCallsLeft ==
    /\ Head(<<"create", "record", "upload", "settle">>) = "create"
    /\ Head(<<"record", "upload", "settle">>) = "record"
    /\ Head(<<"upload", "settle">>) = "upload"
    /\ Head(<<"create", "record", "settle">>) = "create"
    /\ Head(<<"record", "settle">>) = "record"
    /\ Head(<<"settle">>) = "settle"
    /\ Tail(<<"create", "record", "upload", "settle">>) = <<"record", "upload", "settle">>
    /\ Tail(<<"record", "upload", "settle">>) = <<"upload", "settle">>
    /\ Tail(<<"upload", "settle">>) = <<"settle">>
    /\ Tail(<<"create", "record", "settle">>) = <<"record", "settle">>
    /\ Tail(<<"record", "settle">>) = <<"settle">>
OBVIOUS

LEMMA JobPlanGoesOn ==
    ASSUME NEW s \in JobPlans
    PROVE  /\ s # <<>> /\ Head(s) \in {"create", "record", "upload", "settle"}
           /\ Head(s) # "settle" => Tail(s) \in JobPlans /\ Head(Tail(s)) # "create"
<1>1. s # <<>>  BY DEF JobPlans
<1>2. Head(s) \in {"create", "record", "upload", "settle"}  BY JobCallsLeft DEF JobPlans
<1>3. Head(s) # "settle" => Tail(s) \in JobPlans  BY JobCallsLeft DEF JobPlans
<1>4. Head(s) # "settle" => Head(Tail(s)) # "create"  BY JobCallsLeft DEF JobPlans
<1> QED  BY <1>1, <1>2, <1>3, <1>4

LEMMA PlansNotEmpty ==
    ASSUME OnPlan, work # Idle
    PROVE  work.todo # <<>>
BY JobPlanGoesOn DEF OnPlan, PublishLast

\* What comes next, for either kind of plan.
LEMMA NextOnPlan ==
    ASSUME OnPlan, NEW step, NextIs(step)
    PROVE  /\ Kind \in Jobs => /\ step \in {"create", "record", "upload", "settle"}
                               /\ step = "create" <=> work.handle = 0
                               /\ step # "settle" => /\ Tail(work.todo) \in JobPlans
                                                     /\ Head(Tail(work.todo)) # "create"
           /\ Kind \notin Jobs => /\ step # "settle"
                                  /\ step = "publish" <=> Tail(work.todo) = <<>>
                                  /\ step # "publish" => PublishLast(Tail(work.todo))
<1>1. work # Idle /\ Head(work.todo) = step  BY NextIsInProgress DEF NextIs
<1>2. CASE Kind \in Jobs  BY <1>1, <1>2, JobPlanGoesOn DEF OnPlan
<1>3. CASE Kind \notin Jobs  BY <1>1, <1>3, PublishLastGoesOn DEF OnPlan
<1> QED  BY <1>2, <1>3

LEMMA PlanOf ==
    ASSUME Kind \in DOMAIN Calls
    PROVE  /\ Kind \in Jobs => Calls[Kind] \in JobPlans /\ Head(Calls[Kind]) = "create"
           /\ Kind \notin Jobs => PublishLast(Calls[Kind])
           /\ Kind \in Resumable \ {"pinVideo"} => PublishLast(Tail(Calls[Kind]))
           /\ PublishLast(<<"await", "publish">>) /\ PublishLast(<<"await", "sign", "publish">>)
<1> USE DEF Calls, InstagramCalls, ThreadsCalls, BlueskyCalls, XCalls, PinterestCalls,
            TikTokCalls, YouTubeCalls, FacebookCalls, LinkedInCalls
<1>1. Kind \in Jobs => Calls[Kind] \in JobPlans /\ Head(Calls[Kind]) = "create"
  BY DEF Jobs, JobPlans
<1>2. Kind \notin Jobs => Calls[Kind] \in
        {<<"create", "record", "publish">>, <<"create", "record", "await", "publish">>,
         <<"create", "record", "await", "sign", "publish">>, <<"sign", "publish">>,
         <<"create", "record", "upload", "await", "publish">>,
         <<"create", "record", "upload", "publish">>, <<"publish">>}
  BY DEF Jobs
<1>3. Kind \in Resumable \ {"pinVideo"} => Kind \notin Jobs /\ Calls[Kind] \in
        {<<"create", "record", "publish">>, <<"create", "record", "await", "publish">>,
         <<"create", "record", "await", "sign", "publish">>}
  BY DEF Resumable, Containers, Instagram, Media, Jobs
<1>4. /\ PublishLast(<<"create", "record", "publish">>)
      /\ PublishLast(<<"create", "record", "await", "publish">>)
      /\ PublishLast(<<"create", "record", "await", "sign", "publish">>)
      /\ PublishLast(<<"sign", "publish">>) /\ PublishLast(<<"publish">>)
      /\ PublishLast(<<"create", "record", "upload", "await", "publish">>)
      /\ PublishLast(<<"create", "record", "upload", "publish">>)
      /\ PublishLast(<<"await", "publish">>) /\ PublishLast(<<"await", "sign", "publish">>)
  BY DEF PublishLast, CallSteps
<1>5. ASSUME Kind \in Resumable \ {"pinVideo"} PROVE PublishLast(Tail(Calls[Kind]))
  <2>1. Head(Calls[Kind]) = "create"  BY <1>3, <1>5
  <2>2. PublishLast(Calls[Kind])  BY <1>3, <1>4, <1>5
  <2> QED  BY <2>1, <2>2, PublishLastGoesOn
<1>6. Kind \notin Jobs => PublishLast(Calls[Kind])  BY <1>2, <1>4
<1> QED  BY <1>1, <1>4, <1>5, <1>6

----------------------------------------------------------------------------
(* How a step disturbs it.                                                 *)

LEMMA DomainsNext ==
    ASSUME AdapterShape'
    PROVE  /\ DOMAIN handles' = HandleIds' /\ DOMAIN posts' = PostIds'
           /\ Len(handles') \in Nat /\ Len(posts') \in Nat
BY LenProperties DEF AdapterShape, HandleIds, PostIds

\* The type invariant, but for how the state and the attempt go together.
LEMMA TypeKept ==
    ASSUME AdaptersTypeOK, AdapterShape', UNCHANGED <<ware, version>>,
           state' \in States, claimed' \in 0 .. Len(posts'),
           work' # Idle <=> state' = "publishing", work'.asking => work' # Idle
    PROVE  AdaptersTypeOK'
<1>1. Len(handles') \in Nat  BY DomainsNext
<1>2. ref'.handle \in 0 .. Len(handles') /\ work'.handle \in 0 .. Len(handles')
  BY <1>1 DEF AdapterShape, HandleIds
<1> QED  BY <1>2 DEF AdaptersTypeOK, InProgress

LEMMA GroundKept ==
    ASSUME UNCHANGED <<ware, version, handles, posts>>
    PROVE  /\ Kind' = Kind /\ HandleIds' = HandleIds /\ PostIds' = PostIds
           /\ MineLive' = MineLive /\ JobsOut' = JobsOut /\ Twice' = Twice
           /\ PostsCome => PostsCome'
<1>1. Kind' = Kind /\ HandleIds' = HandleIds /\ PostIds' = PostIds
  BY DEF Kind, HandleIds, PostIds
<1>2. MineLive' = MineLive  BY DEF MineLive
<1>3. JobsOut' = JobsOut  BY <1>1 DEF JobsOut
<1>4. Twice' = Twice  BY DEF Twice
<1>5. PostsCome => PostsCome'  BY <1>1 DEF PostsCome
<1> QED  BY <1>1, <1>2, <1>3, <1>4, <1>5

\* The attempt ends, whatever its last call did.
LEMMA AttemptEnds ==
    ASSUME TruthInv, AdapterShape', UNCHANGED <<ware, version>>, work' = Idle,
           state' \in States \ {"draft", "publishing"},
           state # "draft", claimed' \in 0 .. Len(posts'), ClaimIsTrue', PostsCome',
           unclear' = {} => /\ Twice' = {} /\ (Kind \in Jobs => LoneJob')
                            /\ state' \in {"scheduled", "failed"} => Nothing'
    PROVE  TruthInv'
<1>1. Kind' = Kind  BY DEF Kind
<1>2. work'.handle = 0 /\ work'.asking = FALSE  BY DEF Idle
<1>3. AdaptersTypeOK'  BY <1>2, TypeKept DEF TruthInv
<1>4. ware' \in Wares  BY DEF TruthInv
<1>5. OnPlan'  BY DEF OnPlan
<1>6. Unmisled'
  <2> SUFFICES ASSUME unclear' = {} PROVE Unmisled'  BY DEF Unmisled
  <2>1. Kind \in Jobs => OneJobOut'  BY <1>2 DEF OneJobOut
  <2> QED  BY <1>1, <1>2, <2>1 DEF Unmisled
<1> QED  BY <1>3, <1>4, <1>5, <1>6 DEF TruthInv

\* The same, when the platform did nothing.
LEMMA EndsIdly ==
    ASSUME TruthInv, AdapterShape', UNCHANGED <<ware, version, handles, posts>>, work' = Idle,
           state' \in States \ {"draft", "publishing"},
           state # "draft", claimed' \in 0 .. Len(posts), ClaimIsTrue',
           unclear \subseteq unclear',
           unclear' = {} /\ state' \in {"scheduled", "failed"} => Nothing
    PROVE  TruthInv'
<1>1. PostsCome'  BY GroundKept DEF TruthInv
<1>2. unclear' = {} => /\ Twice' = {} /\ (Kind \in Jobs => LoneJob')
                       /\ state' \in {"scheduled", "failed"} => Nothing'
  <2> SUFFICES ASSUME unclear' = {}
               PROVE  /\ Twice' = {} /\ (Kind \in Jobs => LoneJob')
                      /\ state' \in {"scheduled", "failed"} => Nothing'
    OBVIOUS
  <2>1. unclear = {}  OBVIOUS
  <2>2. Twice = {} /\ (Kind \in Jobs => OneJobOut)  BY <2>1 DEF TruthInv, Unmisled
  <2>3. Twice' = {}  BY <2>2, GroundKept
  <2>4. Nothing => Nothing'  BY GroundKept DEF Nothing
  <2>5. LoneJob => LoneJob'  BY GroundKept DEF LoneJob
  <2> QED  BY <2>2, <2>3, <2>4, <2>5 DEF OneJobOut
<1>3. claimed' \in 0 .. Len(posts')  OBVIOUS
<1> QED  BY <1>1, <1>2, <1>3, AttemptEnds

\* The attempt goes on to be asked about; what it may have lost is its own.
LEMMA AttemptAsks ==
    ASSUME TruthInv, AdapterShape', UNCHANGED <<ware, version, state, tries, claimed, unclear>>,
           work # Idle, ~work.asking, work' = [work EXCEPT !.asking = TRUE], AdapterShape,
           Len(posts) <= Len(posts'), ClaimIsTrue', PostsCome',
           unclear = {} =>
             /\ Twice' = {}
             /\ Kind \notin Jobs => \A i \in MineLive' : posts'[i].try = tries
                                      /\ (Kind \in Once => posts'[i].handle = ref'.handle)
             /\ Kind \in Jobs => OneJobOut'
    PROVE  TruthInv'
<1>1. Kind' = Kind  BY DEF Kind
<1>2. /\ work'.handle = work.handle /\ work'.asking = TRUE /\ work'.todo = work.todo
      /\ work'.resumed = work.resumed
  BY DEF AdapterShape
<1>3. work' # Idle  BY <1>2 DEF Idle
<1>4. state = "publishing"  BY DEF TruthInv, AdaptersTypeOK, InProgress
<1>5. AdaptersTypeOK'
  <2>1. claimed \in 0 .. Len(posts) /\ state \in States  BY DEF TruthInv, AdaptersTypeOK
  <2>2. Len(posts) \in Nat /\ Len(posts') \in Nat
    BY DomainsNext, LenProperties DEF AdapterShape
  <2>3. claimed' \in 0 .. Len(posts')  BY <2>1, <2>2
  <2> QED  BY <1>3, <1>4, <2>1, <2>3, TypeKept DEF TruthInv
<1>6. ware' \in Wares  BY <1>4 DEF TruthInv
<1>7. OnPlan'  BY <1>1, <1>2 DEF OnPlan, TruthInv
<1>8. Unmisled'  BY <1>1, <1>2, <1>4 DEF Unmisled
<1> QED  BY <1>5, <1>6, <1>7, <1>8 DEF TruthInv

LEMMA AsksIdly ==
    ASSUME TruthInv, AdapterShape', AdapterShape,
           UNCHANGED <<ware, version, state, tries, claimed, unclear, handles, posts>>,
           work # Idle, ~work.asking, work' = [work EXCEPT !.asking = TRUE]
    PROVE  TruthInv'
<1>1. PostsCome'  BY GroundKept DEF TruthInv
<1>2. ClaimIsTrue'  BY DEF TruthInv, ClaimIsTrue
<1>3. Len(posts) <= Len(posts')  BY LenProperties DEF AdapterShape
<1>4. work'.handle = work.handle  BY DEF AdapterShape
<1>5. ASSUME unclear = {}
      PROVE  /\ Twice' = {}
             /\ Kind \notin Jobs => \A i \in MineLive' : posts'[i].try = tries
                                      /\ (Kind \in Once => posts'[i].handle = ref'.handle)
             /\ Kind \in Jobs => OneJobOut'
  <2>1. /\ Twice = {} /\ (Kind \in Jobs => OneJobOut)
        /\ Kind \notin Jobs => Nothing
    BY <1>5 DEF TruthInv, Unmisled
  <2>2. Twice' = {}  BY <2>1, GroundKept
  <2>3. Kind \notin Jobs => MineLive' = {}  BY <2>1, GroundKept DEF Nothing
  <2>4. OneJobOut => OneJobOut'  BY <1>4, GroundKept DEF OneJobOut, LoneJob
  <2> QED  BY <2>1, <2>2, <2>3, <2>4
<1> QED  BY <1>1, <1>2, <1>3, <1>5, AttemptAsks

\* The attempt goes on to its next call.
LEMMA AttemptGoesOn ==
    ASSUME TruthInv, UNCHANGED <<ware, version, state, tries, claimed, unclear>>,
           AdapterShape, AdapterShape',
           NEW step, NextIs(step), step \notin {"publish", "settle"},
           work'.todo = Tail(work.todo), work'.resumed = work.resumed,
           work'.asking = work.asking, Kind \in Jobs => work'.handle # 0,
           Len(posts) <= Len(posts'), ClaimIsTrue', PostsCome',
           unclear = {} => /\ Twice' = {} /\ (Kind \notin Jobs => Nothing')
                           /\ Kind \in Jobs => OneJobOut'
    PROVE  TruthInv'
<1>1. Kind' = Kind  BY DEF Kind
<1>2. work # Idle /\ ~work.asking /\ state = "publishing"
  BY NextIsInProgress DEF NextIs, TruthInv, AdaptersTypeOK, InProgress
<1>3. OnPlan  BY DEF TruthInv
<1>4. /\ Kind \in Jobs => Tail(work.todo) \in JobPlans /\ Head(Tail(work.todo)) # "create"
      /\ Kind \notin Jobs => PublishLast(Tail(work.todo))
  BY <1>3, NextOnPlan
<1>5. work' # Idle
  <2>1. ASSUME Kind \in Jobs PROVE Tail(work.todo) # <<>>
    <3>1. Tail(work.todo) \in JobPlans  BY <1>4, <2>1
    <3> QED  BY <3>1, JobPlanGoesOn
  <2>2. Kind \notin Jobs => Tail(work.todo) # <<>>  BY <1>4 DEF PublishLast
  <2>3. Idle.todo = <<>>  BY DEF Idle
  <2> QED  BY <2>1, <2>2, <2>3
<1>6. OnPlan'  BY <1>1, <1>2, <1>3, <1>4 DEF OnPlan
<1>7. AdaptersTypeOK'
  <2>1. claimed \in 0 .. Len(posts) /\ state \in States  BY DEF TruthInv, AdaptersTypeOK
  <2>2. Len(posts) \in Nat /\ Len(posts') \in Nat
    BY DomainsNext, LenProperties DEF AdapterShape
  <2>3. claimed' \in 0 .. Len(posts')  BY <2>1, <2>2
  <2> QED  BY <1>2, <1>5, <2>1, <2>3, TypeKept DEF TruthInv
<1>8. ware' \in Wares  BY <1>2 DEF TruthInv
<1>9. Unmisled'  BY <1>1, <1>2 DEF Unmisled
<1> QED  BY <1>6, <1>7, <1>8, <1>9 DEF TruthInv

LEMMA GoesOnIdly ==
    ASSUME TruthInv, UNCHANGED <<ware, version, state, tries, claimed, unclear, handles, posts>>,
           AdapterShape, AdapterShape',
           NEW step, NextIs(step), step \notin {"create", "publish", "settle"},
           work' = [work EXCEPT !.todo = Tail(@)]
    PROVE  TruthInv'
<1>1. /\ work'.todo = Tail(work.todo) /\ work'.resumed = work.resumed
      /\ work'.asking = work.asking /\ work'.handle = work.handle
  BY DEF AdapterShape
<1>2. OnPlan /\ PostsCome  BY DEF TruthInv
<1>3. Kind \in Jobs => work'.handle # 0  BY <1>1, <1>2, NextOnPlan
<1>4. PostsCome'  BY <1>2, GroundKept
<1>5. ClaimIsTrue'  BY DEF TruthInv, ClaimIsTrue
<1>6. Len(posts) <= Len(posts')  BY LenProperties DEF AdapterShape
<1>7. ASSUME unclear = {}
      PROVE  /\ Twice' = {} /\ (Kind \notin Jobs => Nothing')
             /\ Kind \in Jobs => OneJobOut'
  <2>1. work # Idle /\ ~work.asking  BY NextIsInProgress DEF NextIs
  <2>2. /\ Twice = {} /\ (Kind \in Jobs => OneJobOut)
        /\ Kind \notin Jobs => Nothing
    BY <1>7, <2>1 DEF TruthInv, Unmisled
  <2>3. Twice' = {}  BY <2>2, GroundKept
  <2>4. Nothing => Nothing'  BY GroundKept DEF Nothing
  <2>5. OneJobOut => OneJobOut'  BY <1>1, GroundKept DEF OneJobOut, LoneJob
  <2> QED  BY <2>2, <2>3, <2>4, <2>5
<1> QED  BY <1>1, <1>3, <1>4, <1>5, <1>6, <1>7, AttemptGoesOn

----------------------------------------------------------------------------
(* The attempt's steps that leave the platform alone.                      *)

\* As long as the attempt can still end on an error, nothing is out.
LEMMA CleanSoFar ==
    ASSUME TruthInv, unclear = {}, work # Idle, ~work.asking,
           Kind \in Jobs => work.handle = 0
    PROVE  Nothing
BY DEF TruthInv, Unmisled

\* A job that does not work any more and has not posted has left nothing.
LEMMA DeadJob ==
    ASSUME TruthInv, AdapterShape, unclear = {}, Kind \in Jobs, work.handle # 0,
           StateOf(work.handle) \notin {"working", "posted"}
    PROVE  Nothing
<1>1. OneJobOut /\ PostsCome  BY DEF TruthInv, Unmisled
<1>2. work.handle \in HandleIds /\ handles[work.handle].state \notin {"working", "posted"}
  BY DEF AdapterShape, StateOf
<1>3. handles[work.handle].state # "ready"  BY <1>1, <1>2 DEF PostsCome
<1>4. JobsOut = {}
  <2>1. work.handle \notin JobsOut  BY <1>2, <1>3 DEF JobsOut
  <2> QED  BY <1>1, <2>1 DEF OneJobOut
<1>5. MineLive = {}
  <2> SUFFICES ASSUME NEW i \in MineLive PROVE FALSE  OBVIOUS
  <2>1. i \in PostIds  BY AdapterElements DEF MineLive
  <2>2. posts[i].handle = work.handle  BY <1>1 DEF OneJobOut
  <2>3. handles[posts[i].handle].state = "posted"  BY <1>1, <2>1 DEF PostsCome
  <2> QED  BY <1>2, <2>2, <2>3
<1> QED  BY <1>4, <1>5 DEF Nothing

LEMMA UnclaimedIsTrue ==
    ASSUME TruthInv, state' # "published", UNCHANGED claimed
    PROVE  ClaimIsTrue' /\ claimed' \in 0 .. Len(posts)
BY DEF ClaimIsTrue, TruthInv, AdaptersTypeOK

LEMMA PreflightTruth ==
    ASSUME TruthInv, AdapterShape, AdapterShape', PreflightRefuses
    PROVE  TruthInv'
<1>1. /\ work # Idle /\ ~work.asking /\ work' = Idle /\ state' = "failed"
      /\ work.todo = StillToDo(IF work.resumed THEN work.handle ELSE 0)
      /\ UNCHANGED <<ware, version, ref, handles, posts, claimed, tries, unclear>>
  BY DEF PreflightRefuses, InProgress, Ends
<1>2. state = "publishing"  BY <1>1 DEF TruthInv, AdaptersTypeOK, InProgress
<1>3. Kind \in Jobs => work.handle = 0
  <2> SUFFICES ASSUME Kind \in Jobs PROVE work.handle = 0  OBVIOUS
  <2>1. /\ ~work.resumed
        /\ Head(work.todo) = "create" <=> work.handle = 0
    BY <1>1 DEF TruthInv, OnPlan
  <2>2. work.todo = Calls[Kind]  BY <1>1, <2>1 DEF StillToDo
  <2>3. Kind \in DOMAIN Calls  BY <1>2, AdaptersAssumption DEF TruthInv, Kind
  <2>4. Head(Calls[Kind]) = "create"  BY <2>3, PlanOf
  <2> QED  BY <2>1, <2>2, <2>4
<1>4. unclear' = {} => Nothing  BY <1>1, <1>3, CleanSoFar
<1>5. ClaimIsTrue' /\ claimed' \in 0 .. Len(posts)  BY <1>1, UnclaimedIsTrue
<1> QED  BY <1>1, <1>2, <1>4, <1>5, EndsIdly DEF States

LEMMA RecordTruth ==
    ASSUME TruthInv, AdapterShape, AdapterShape', Record
    PROVE  TruthInv'
<1>1. CASE NextIs("record")  BY <1>1, GoesOnIdly DEF Record, GoesAhead
<1>2. CASE NextIs("sign")  BY <1>2, GoesOnIdly DEF Record, GoesAhead
<1> QED  BY <1>1, <1>2 DEF Record

LEMMA RecordFailsTruth ==
    ASSUME TruthInv, AdapterShape, AdapterShape', RecordFails
    PROVE  TruthInv'
<1>1. /\ work' = Idle /\ state' = "scheduled" /\ work # Idle /\ ~work.asking
      /\ unclear' = unclear \cup (IF Kind \in Jobs THEN {"torn"} ELSE {})
      /\ UNCHANGED <<ware, version, ref, handles, posts, claimed, tries>>
  BY NextIsInProgress DEF RecordFails, Ends, Misled, NextIs
<1>2. state = "publishing"  BY <1>1 DEF TruthInv, AdaptersTypeOK, InProgress
<1>3. unclear' = {} => Nothing
  <2> SUFFICES ASSUME unclear' = {} PROVE Nothing  OBVIOUS
  <2>1. unclear = {} /\ Kind \notin Jobs  BY <1>1
  <2> QED  BY <1>1, <2>1, CleanSoFar
<1>4. ClaimIsTrue' /\ claimed' \in 0 .. Len(posts)  BY <1>1, UnclaimedIsTrue
<1>5. unclear \subseteq unclear'  BY <1>1
<1> QED  BY <1>1, <1>2, <1>3, <1>4, <1>5, EndsIdly DEF States

LEMMA AwaitTruth ==
    ASSUME TruthInv, AdapterShape, AdapterShape', AwaitReady \/ AwaitFails \/ AwaitRunsOut
    PROVE  TruthInv'
<1>1. CASE AwaitReady  BY <1>1, GoesOnIdly DEF AwaitReady, GoesAhead
<1>2. CASE AwaitFails \/ AwaitRunsOut
  <2>1. /\ work' = Idle /\ state' \in {"failed", "scheduled"} /\ NextIs("await")
        /\ UNCHANGED <<ware, version, ref, handles, posts, claimed, tries, unclear>>
    BY <1>2 DEF AwaitFails, AwaitRunsOut, Ends
  <2>2. work # Idle /\ ~work.asking  BY <2>1, NextIsInProgress DEF NextIs
  <2>3. state = "publishing"  BY <2>2 DEF TruthInv, AdaptersTypeOK, InProgress
  <2>4. Kind \notin Jobs  BY <2>1, NextOnPlan DEF TruthInv
  <2>5. unclear' = {} => Nothing  BY <2>1, <2>2, <2>4, CleanSoFar
  <2>6. ClaimIsTrue' /\ claimed' \in 0 .. Len(posts)  BY <2>1, UnclaimedIsTrue
  <2> QED  BY <2>1, <2>3, <2>5, <2>6, EndsIdly DEF States
<1> QED  BY <1>1, <1>2

LEMMA JobFailedTruth ==
    ASSUME TruthInv, AdapterShape, AdapterShape', JobFailed
    PROVE  TruthInv'
<1>1. /\ work' = Idle /\ state' \in {"failed", "scheduled"} /\ NextIs("settle")
      /\ StateOf(work.handle) = "spoilt"
      /\ UNCHANGED <<ware, version, ref, handles, posts, claimed, tries, unclear>>
  BY DEF JobFailed, Ends
<1>2. work # Idle  BY <1>1, NextIsInProgress
<1>3. state = "publishing"  BY <1>2 DEF TruthInv, AdaptersTypeOK, InProgress
<1>4. Kind \in Jobs /\ work.handle # 0  BY <1>1, NextOnPlan DEF TruthInv
<1>5. unclear' = {} => Nothing  BY <1>1, <1>4, DeadJob
<1>6. ClaimIsTrue' /\ claimed' \in 0 .. Len(posts)  BY <1>1, UnclaimedIsTrue
<1> QED  BY <1>1, <1>3, <1>5, <1>6, EndsIdly DEF States

LEMMA AsksTruth ==
    ASSUME TruthInv, AdapterShape, AdapterShape', JobRunsOut \/ AttemptDies
    PROVE  TruthInv'
<1>1. CASE JobRunsOut
  <2>1. work # Idle /\ ~work.asking  BY <1>1, NextIsInProgress DEF JobRunsOut, NextIs
  <2> QED  BY <1>1, <2>1, AsksIdly DEF JobRunsOut, Ask
<1>2. CASE AttemptDies  BY <1>2, AsksIdly DEF AttemptDies, Ask, InProgress
<1> QED  BY <1>1, <1>2

\* The post that a job, or a key, became.
LEMMA SettledIs ==
    ASSUME TruthInv, AdapterShape, NEW h, StateOf(h) = "posted", h \in {0} \cup HandleIds
    PROVE  /\ h # 0 /\ SettledBy(h) \in PostIds /\ posts[SettledBy(h)].handle = h
           /\ posts[SettledBy(h)].version = handles[h].version
<1>1. h # 0 /\ h \in HandleIds /\ handles[h].state = "posted"  BY DEF StateOf
<1>2. PICK i \in PostIds : posts[i].handle = h  BY <1>1 DEF TruthInv, PostsCome
<1>3. i \in DOMAIN posts  BY AdapterElements
<1>4. SettledBy(h) \in DOMAIN posts /\ posts[SettledBy(h)].handle = h
  BY <1>2, <1>3 DEF SettledBy
<1>5. SettledBy(h) \in PostIds  BY <1>4, AdapterElements
<1>6. posts[SettledBy(h)].version = handles[posts[SettledBy(h)].handle].version
  BY <1>1, <1>4, <1>5 DEF TruthInv, PostsCome
<1> QED  BY <1>1, <1>4, <1>5, <1>6

LEMMA PostIdIsClaim ==
    ASSUME AdapterShape, NEW i \in PostIds
    PROVE  i # 0 /\ i \in 0 .. Len(posts)
BY LenProperties DEF PostIds, AdapterShape

LEMMA SettledTruth ==
    ASSUME TruthInv, AdapterShape, AdapterShape', MadeFor, JobSettled \/ KeyTaken
    PROVE  TruthInv'
<1>1. /\ work # Idle /\ work' = Idle /\ state' = "published"
      /\ StateOf(work.handle) = "posted" /\ claimed' = SettledBy(work.handle)
      /\ UNCHANGED <<ware, version, ref, handles, posts, tries, unclear>>
  BY NextIsInProgress DEF JobSettled, KeyTaken, Ends
<1>2. state = "publishing"  BY <1>1 DEF TruthInv, AdaptersTypeOK, InProgress
<1>3. /\ work.handle # 0 /\ claimed' \in PostIds
      /\ posts[claimed'].version = handles[work.handle].version
  BY <1>1, SettledIs DEF AdapterShape
<1>4. posts[claimed'].version = version  BY <1>3 DEF MadeFor
<1>5. ClaimIsTrue' /\ claimed' \in 0 .. Len(posts)
  BY <1>1, <1>3, <1>4, PostIdIsClaim DEF ClaimIsTrue
<1> QED  BY <1>1, <1>2, <1>5, EndsIdly DEF States

----------------------------------------------------------------------------
(* What reconcile() concludes.                                             *)

\* X's text is recorded before the call that posts: what is public was signed.
XPlans == {<<"create", "record", "await", "sign", "publish">>,
           <<"record", "await", "sign", "publish">>, <<"await", "sign", "publish">>,
           <<"sign", "publish">>}

Signed ==
    Kind \in XPosts =>
        /\ MineLive # {} => ref.version = version
        /\ work # Idle => \/ work.todo \in XPlans
                          \/ work.todo = <<"publish">> /\ ref.version = version

\* There is nothing public of this attempt.
Unposted == \A i \in MineLive : posts[i].try # tries

\* What a verdict rests on: a post that reads alike, what the handle has become,
\* or that neither is to be seen; and what could not be seen is said with it.
Rests(v) ==
    \/ /\ v.is = "found" /\ v.post \in PostIds
       /\ posts[v.post].version = version \/ "alike" \in v.blind
    \/ /\ v.is = "found" /\ Kind \in Jobs \cup {"bluesky"}
       /\ StateOf(ref.handle) = "posted" /\ v.post = SettledBy(ref.handle)
       /\ ref.handle = work.handle \/ "stale" \in v.blind
    \/ /\ v.is = "notFound" /\ v.post = 0
       /\ v.blind = {} =>
            \/ Kind \notin Jobs /\ Unposted
            \/ Kind \in Once /\ StateOf(ref.handle) # "posted"
            \/ /\ Kind \in Jobs /\ ref.handle = work.handle /\ ref.handle # 0
               /\ StateOf(ref.handle) \notin {"working", "posted"}
    \/ v.is = "inconclusive" /\ v.post = 0

LEMMA TimelineRests ==
    ASSUME AdapterShape, Signed, Kind \notin Jobs, NEW v \in OnTimeline
    PROVE  Rests(v)
<1>1. DOMAIN posts = PostIds  BY AdapterElements
<1>2. CASE Expected # {}
  <2>1. v \in Found(Expected, {})  BY <1>2 DEF OnTimeline
  <2>2. PICK i \in Expected : v = [is |-> "found", post |-> i, blind |-> {}]
    BY <2>1 DEF Found
  <2>3. i \in PostIds /\ posts[i].version = version  BY <1>1 DEF Expected, MineLive
  <2> QED  BY <2>2, <2>3 DEF Rests
<1>3. CASE Expected = {}
  <2>1. v \in Found(Readable, Alike) \/ v \in NotFound(Hidden)
    BY <1>3 DEF OnTimeline
  <2>2. CASE v \in Found(Readable, Alike)
    <3>1. PICK i \in Readable : v = [is |-> "found", post |-> i, blind |-> Alike]
      BY <2>2 DEF Found
    <3>2. posts[i].version = version \/ "alike" \in Alike  BY DEF Alike
    <3>3. i \in PostIds  BY <1>1 DEF Readable
    <3> QED  BY <3>1, <3>2, <3>3 DEF Rests
  <2>3. CASE v \in NotFound(Hidden)
    <3>1. v = [is |-> "notFound", post |-> 0, blind |-> Hidden]  BY <2>3 DEF NotFound
    <3>2. ASSUME Hidden = {}, NEW i \in MineLive, posts[i].try = tries PROVE FALSE
      <4>1. i \in Readable  BY <3>2 DEF Hidden
      <4>2. SoughtByItsText  BY <3>2 DEF SoughtByItsText, Signed
      <4> QED  BY <1>3, <3>2, <4>1, <4>2 DEF Expected
    <3> QED  BY <3>1, <3>2 DEF Rests, Unposted
  <2> QED  BY <2>1, <2>2, <2>3
<1> QED  BY <1>2, <1>3

\* Whatever the platform, and whether or not its handle could be read.
LEMMA ReconcileRests ==
    ASSUME AdapterShape, Signed, Kind \in DOMAIN Calls,
           NEW v \in Reconcilings \cup Unread
    PROVE  Rests(v)
<1>1. v \in OnTimeline /\ Kind \notin Jobs => Rests(v)  BY TimelineRests
<1>2. v \in Inconclusive => Rests(v)  BY DEF Inconclusive, Unknown, Rests
<1>3. ASSUME Kind \in Containers, v \in ByContainer(ref.handle) PROVE Rests(v)
  <2>1. \/ v \in NotFound({}) /\ StateOf(ref.handle) = "spoilt"
        \/ v \in Inconclusive
    BY <1>3 DEF ByContainer
  <2>2. v \in NotFound({}) => v = [is |-> "notFound", post |-> 0, blind |-> {}]
    BY DEF NotFound
  <2> QED  BY <1>2, <1>3, <2>1, <2>2 DEF Rests, Once
<1>4. ASSUME v \in Unread PROVE Rests(v)
  <2>1. CASE Kind \in Containers
    <3>1. Kind \notin Jobs  BY <2>1 DEF Containers, Instagram, Jobs
    <3>2. v \in Inconclusive \/ v \in OnTimeline
      BY <1>4, <2>1, <3>1 DEF Unread, ContainerUnread, JobUnread
    <3> QED  BY <1>1, <1>2, <3>1, <3>2
  <2>2. CASE Kind \in Jobs
    <3>1. Kind \notin Containers  BY <2>2 DEF Containers, Instagram, Jobs
    <3>2. v \in Inconclusive \/ v \in JobUnread
      BY <1>4, <2>2, <3>1 DEF Unread, ContainerUnread
    <3>3. ASSUME v \in JobUnread PROVE Rests(v)
      <4>1. ref.handle # 0  BY <3>3 DEF JobUnread
      <4>2. CASE StateOf(ref.handle) \in {"working", "posted"}
        <5>1. v = [is |-> "notFound", post |-> 0, blind |-> {"unread"}]
          BY <3>3, <4>1, <4>2 DEF JobUnread, NotFound
        <5> QED  BY <5>1 DEF Rests
      <4>3. CASE StateOf(ref.handle) \notin {"working", "posted"}
        <5>1. v = [is |-> "notFound", post |-> 0, blind |-> Stale]
          BY <3>3, <4>1, <4>3 DEF JobUnread, NotFound
        <5>2. Stale = {} => ref.handle = work.handle  BY <4>1 DEF Stale
        <5> QED  BY <2>2, <4>1, <4>3, <5>1, <5>2 DEF Rests
      <4> QED  BY <4>2, <4>3
    <3> QED  BY <1>2, <3>2, <3>3
  <2>3. CASE Kind \notin Containers \cup Jobs
    BY <1>2, <1>4, <2>3 DEF Unread, ContainerUnread, JobUnread
  <2> QED  BY <2>1, <2>2, <2>3
<1>5. ASSUME Kind \in Containers, v \in Reconcilings PROVE Rests(v)
  <2>1. Kind \notin Jobs  BY <1>5 DEF Containers, Instagram, Jobs
  <2>2. CASE Kind \in Instagram
    <3>1. Kind \in {"igImage", "igReel"}  BY <2>2 DEF Instagram
    <3>2. v \in InstagramReconcile  BY <1>5, <2>1, <2>2, <3>1 DEF Reconcilings, XPosts
    <3>3. \/ v \in ByContainer(ref.handle) \/ v \in OnTimeline
          \/ \E u \in OnTimeline : v = IF u.is = "found" THEN u ELSE Unknown
      BY <3>2 DEF InstagramReconcile
    <3>4. v \in ByContainer(ref.handle) \/ v \in OnTimeline \/ v \in Inconclusive
      BY <3>3 DEF Inconclusive
    <3> QED  BY <1>1, <1>2, <1>3, <1>5, <2>1, <3>4
  <2>3. CASE Kind = "threads"
    <3>1. Kind \notin Instagram  BY <2>3 DEF Instagram
    <3>2. v \in ThreadsReconcile  BY <1>5, <2>1, <2>3, <3>1 DEF Reconcilings, XPosts
    <3> QED  BY <1>1, <1>3, <1>5, <2>1, <3>2 DEF ThreadsReconcile
  <2> QED  BY <1>5, <2>2, <2>3 DEF Containers
<1>6. ASSUME Kind = "bluesky", v \in Reconcilings PROVE Rests(v)
  <2>1. Kind \notin Jobs /\ Kind \notin Instagram /\ Kind \in Once
    BY <1>6 DEF Instagram, Jobs, Once
  <2>2. v \in BlueskyReconcile  BY <1>6, <2>1 DEF Reconcilings, XPosts
  <2>3. CASE ref.handle = 0
    <3>1. StateOf(ref.handle) # "posted"  BY <2>3 DEF StateOf
    <3> QED  BY <1>1, <2>1, <2>2, <2>3, <3>1 DEF BlueskyReconcile
  <2>4. CASE ref.handle # 0 /\ StateOf(ref.handle) = "posted"
    <3>1. v = [is |-> "found", post |-> SettledBy(ref.handle), blind |-> Stale]
      BY <2>2, <2>4 DEF BlueskyReconcile, Found
    <3>2. ref.handle = work.handle \/ "stale" \in Stale  BY <2>4 DEF Stale
    <3> QED  BY <1>6, <2>4, <3>1, <3>2 DEF Rests
  <2>5. CASE ref.handle # 0 /\ StateOf(ref.handle) # "posted"
    <3>1. v = [is |-> "notFound", post |-> 0, blind |-> {}]
      BY <2>2, <2>5 DEF BlueskyReconcile, NotFound
    <3> QED  BY <2>1, <2>5, <3>1 DEF Rests
  <2> QED  BY <2>3, <2>4, <2>5
<1>7. ASSUME Kind \in Jobs, v \in Reconcilings PROVE Rests(v)
  <2>1. v \in TikTokReconcile
    <3>1. Kind \in {"tiktokPhoto", "tiktokVideo"}  BY <1>7 DEF Jobs
    <3>2. Kind \notin Instagram /\ Kind # "threads" /\ Kind # "bluesky"
      BY <3>1 DEF Instagram
    <3> QED  BY <1>7, <3>1, <3>2 DEF Reconcilings, XPosts
  <2>2. ref.handle # 0 => ref.handle = work.handle \/ "stale" \in Stale  BY DEF Stale
  <2>3. CASE StateOf(ref.handle) = "posted"
    <3>1. v = [is |-> "found", post |-> SettledBy(ref.handle), blind |-> Stale]
      BY <2>1, <2>3 DEF TikTokReconcile, Found
    <3>2. ref.handle # 0  BY <2>3 DEF StateOf
    <3> QED  BY <1>7, <2>2, <2>3, <3>1, <3>2 DEF Rests
  <2>4. CASE StateOf(ref.handle) = "spoilt"
    <3>1. v = [is |-> "notFound", post |-> 0, blind |-> Stale]
      BY <2>1, <2>4 DEF TikTokReconcile, NotFound
    <3>2. ref.handle # 0  BY <2>4 DEF StateOf
    <3> QED  BY <1>7, <2>2, <2>4, <3>1, <3>2 DEF Rests
  <2>5. CASE StateOf(ref.handle) \notin {"posted", "spoilt"}
    BY <1>2, <2>1, <2>5 DEF TikTokReconcile
  <2> QED  BY <2>3, <2>4, <2>5
<1>8. ASSUME Kind \notin Containers, Kind \notin Jobs, Kind # "bluesky", v \in Reconcilings
      PROVE Rests(v)
  <2>1. Kind \in {"fbPost", "fbReel", "linkedin", "xText", "xVideo", "pinImage", "pinVideo",
                  "youtube"}
    BY <1>8 DEF Containers, Instagram, Jobs, Calls
  <2>2. Reconcilings = OnTimeline
    BY <1>8, <2>1 DEF Reconcilings, Containers, FacebookReconcile, LinkedInReconcile, XReconcile,
       PinterestReconcile, YouTubeReconcile, XPosts
  <2> QED  BY <1>1, <1>8, <2>2
<1> QED  BY <1>4, <1>5, <1>6, <1>7, <1>8

\* A verdict, the adapter's blind spots excepted, is the truth.
LEMMA ReconcileTruth ==
    ASSUME TruthInv, AdapterInv, Signed, AdapterShape', ReconcileAnswered \/ ReconcileUnread
    PROVE  TruthInv'
<1>1. PICK v \in Reconcilings \cup Unread : Verdict(v)
  BY DEF ReconcileAnswered, ReconcileUnread
<1>2. /\ work.asking /\ work' = Idle /\ unclear' = unclear \cup v.blind /\ claimed' = v.post
      /\ state' = CASE v.is = "found" -> "published" [] v.is = "notFound" -> "scheduled"
                    [] OTHER -> "parked"
      /\ UNCHANGED <<ware, version, ref, handles, posts, tries>>
  BY <1>1 DEF ReconcileAnswered, ReconcileUnread, Misled, Verdict, Ends
<1>3. work # Idle /\ state = "publishing"
  BY <1>2 DEF TruthInv, AdaptersTypeOK, InProgress
<1>4. Kind \in DOMAIN Calls  BY <1>3, AdaptersAssumption DEF TruthInv, Kind
<1>5. AdapterShape /\ MadeFor /\ (Kind \in Once => PostedOnce)  BY DEF AdapterInv
<1>6. ref.handle \in {0} \cup HandleIds  BY <1>5 DEF AdapterShape
<1>7. Rests(v)  BY <1>1, <1>4, <1>5, ReconcileRests
<1>8. ASSUME v.is = "found"
      PROVE  /\ v.post \in PostIds
             /\ posts[v.post].version = version \/ unclear' \cap {"stale", "alike"} # {}
  <2>1. CASE v.post \in PostIds /\ (posts[v.post].version = version \/ "alike" \in v.blind)
    BY <1>2, <2>1
  <2>2. CASE /\ StateOf(ref.handle) = "posted" /\ v.post = SettledBy(ref.handle)
             /\ ref.handle = work.handle \/ "stale" \in v.blind
    <3>1. /\ ref.handle # 0 /\ v.post \in PostIds
          /\ posts[v.post].version = handles[ref.handle].version
      BY <1>5, <1>6, <2>2, SettledIs
    <3>2. CASE ref.handle = work.handle  BY <1>5, <3>1, <3>2 DEF MadeFor
    <3>3. CASE "stale" \in v.blind  BY <1>2, <3>1, <3>3
    <3> QED  BY <2>2, <3>2, <3>3
  <2> QED  BY <1>7, <1>8, <2>1, <2>2 DEF Rests
<1>9. ASSUME v.is = "notFound", unclear' = {}
      PROVE  Nothing
  <2>1. unclear = {} /\ v.blind = {}  BY <1>2, <1>9
  <2>2. Kind \notin Jobs => /\ JobsOut = {}
                            /\ \A i \in MineLive : posts[i].try = tries
                                 /\ (Kind \in Once => posts[i].handle = ref.handle)
    BY <1>2, <2>1 DEF TruthInv, Unmisled, JobsOut
  <2>3. CASE Kind \notin Jobs /\ Unposted
    <3>1. MineLive = {}  BY <2>2, <2>3 DEF Unposted
    <3> QED  BY <2>2, <2>3, <3>1 DEF Nothing
  <2>4. CASE Kind \in Once /\ StateOf(ref.handle) # "posted"
    <3>1. Kind \notin Jobs  BY <2>4 DEF Once, Jobs, Containers, Instagram
    <3>2. ASSUME NEW i \in MineLive PROVE FALSE
      <4>1. i \in PostIds  BY <1>5, AdapterElements DEF MineLive
      <4>2. /\ posts[i].handle = ref.handle /\ posts[i].handle \in HandleIds
            /\ handles[posts[i].handle].state = "posted"
        BY <1>5, <2>2, <2>4, <3>1, <4>1 DEF PostedOnce
      <4>3. ref.handle # 0  BY <4>2, LenProperties DEF HandleIds
      <4> QED  BY <2>4, <4>2, <4>3 DEF StateOf
    <3> QED  BY <2>2, <3>1, <3>2 DEF Nothing
  <2>5. CASE /\ Kind \in Jobs /\ ref.handle = work.handle /\ ref.handle # 0
             /\ StateOf(ref.handle) \notin {"working", "posted"}
    <3>1. work.handle # 0 /\ StateOf(work.handle) \notin {"working", "posted"}  BY <2>5
    <3> QED  BY <1>5, <2>1, <2>5, <3>1, DeadJob
  <2> QED  BY <1>7, <1>9, <2>1, <2>3, <2>4, <2>5 DEF Rests
<1>10. CASE v.is = "found"
  <2>1. state' = "published"  BY <1>2, <1>10
  <2>2. ClaimIsTrue' /\ claimed' \in 0 .. Len(posts)
    BY <1>2, <1>5, <1>8, <1>10, PostIdIsClaim DEF ClaimIsTrue
  <2> QED  BY <1>2, <1>3, <1>5, <2>1, <2>2, EndsIdly DEF States
<1>11. CASE v.is # "found"
  <2>1. v.post = 0 /\ v.is \in {"notFound", "inconclusive"}  BY <1>7, <1>11 DEF Rests
  <2>2. /\ v.is = "notFound" => state' = "scheduled"
        /\ v.is = "inconclusive" => state' = "parked"
    BY <1>2
  <2>3. ClaimIsTrue'  BY <2>1, <2>2 DEF ClaimIsTrue
  <2>4. claimed' \in 0 .. Len(posts)  BY <1>2, <1>5, <2>1, LenProperties DEF AdapterShape
  <2>5. unclear' = {} /\ state' \in {"scheduled", "failed"} => Nothing
    BY <1>9, <2>1, <2>2
  <2>6. unclear \subseteq unclear'  BY <1>2
  <2> QED  BY <1>2, <1>3, <1>5, <2>1, <2>2, <2>3, <2>4, <2>5, <2>6, EndsIdly DEF States
<1> QED  BY <1>10, <1>11

----------------------------------------------------------------------------
(* What people do.                                                         *)

LEMMA PersonTruth ==
    ASSUME TruthInv, AdapterInv, AdapterShape',
           RetryWare \/ \E yes \in BOOLEAN : AnswerParked(yes)
    PROVE  TruthInv'
<1>1. AdapterShape /\ AtRest  BY DEF AdapterInv
<1>2. CASE RetryWare
  <2>1. /\ state = "failed" /\ state' = "scheduled"
        /\ UNCHANGED <<ware, version, ref, handles, posts, claimed, work, tries, unclear>>
    BY <1>2 DEF RetryWare
  <2>2. work' = Idle  BY <1>1, <2>1 DEF AtRest
  <2>3. unclear' = {} => Nothing  BY <2>1 DEF TruthInv, Unmisled
  <2>4. ClaimIsTrue' /\ claimed' \in 0 .. Len(posts)  BY <2>1, UnclaimedIsTrue
  <2> QED  BY <1>1, <2>1, <2>2, <2>3, <2>4, EndsIdly DEF States
<1>3. ASSUME NEW yes \in BOOLEAN, AnswerParked(yes) PROVE TruthInv'
  <2>1. /\ state = "parked" /\ state' = IF yes THEN "vouched" ELSE "failed"
        /\ unclear' = unclear \cup (IF ~yes /\ (MineLive # {} \/ JobsOut # {})
                                    THEN {"person"} ELSE {})
        /\ UNCHANGED <<ware, version, ref, handles, posts, claimed, work, tries>>
    BY <1>3 DEF AnswerParked, Misled
  <2>2. work' = Idle  BY <1>1, <2>1 DEF AtRest
  <2>3. unclear' = {} /\ state' \in {"scheduled", "failed"} => Nothing
    BY <2>1 DEF Nothing
  <2>4. ClaimIsTrue' /\ claimed' \in 0 .. Len(posts)  BY <2>1, UnclaimedIsTrue
  <2>5. unclear \subseteq unclear' /\ state' \in States \ {"draft", "publishing"}
    BY <2>1 DEF States
  <2> QED  BY <1>1, <2>1, <2>2, <2>3, <2>4, <2>5, EndsIdly
<1> QED  BY <1>2, <1>3

LEMMA EditTruth ==
    ASSUME TruthInv, AdapterInv, AdapterInv', EditWare
    PROVE  TruthInv'
<1>1. /\ state \in {"scheduled", "failed"} /\ state' = "scheduled"
      /\ version < MaxVersions /\ version' = version + 1
      /\ UNCHANGED <<ware, ref, handles, posts, claimed, work, tries, unclear>>
  BY DEF EditWare
<1>2. /\ work = Idle /\ AdapterShape /\ version \in Nat
      /\ HandleIds' = HandleIds /\ PostIds' = PostIds /\ Kind' = Kind
  BY <1>1 DEF AdapterInv, AtRest, AdapterShape, HandleIds, PostIds, Kind
<1>3. \A i \in PostIds : posts[i].version \in Nat /\ posts[i].version <= version
  BY <1>2, AdapterElements DEF PostRecord, TruthInv, PostsCome
<1>4. AdaptersTypeOK'
  <2>1. version' \in 1 .. MaxVersions  BY <1>1, <1>2, AdaptersAssumption
  <2> QED  BY <1>1, <2>1 DEF TruthInv, AdaptersTypeOK, InProgress, States
<1>5. ware' \in Wares /\ OnPlan' /\ ClaimIsTrue'
  BY <1>1, <1>2 DEF TruthInv, OnPlan, ClaimIsTrue
<1>6. PostsCome'
  <2>1. \A i \in PostIds : posts[i].version <= version'  BY <1>1, <1>2, <1>3
  <2>2. PostsCome  BY DEF TruthInv
  <2>3. \A h \in HandleIds :
          /\ handles[h].state = "posted" => \E i \in PostIds : posts[i].handle = h
          /\ Kind \in Jobs => handles[h].state # "ready"
    BY <2>2 DEF PostsCome
  <2>4. \A i \in PostIds :
          /\ posts[i].handle \in {0} \cup HandleIds
          /\ posts[i].handle # 0 => posts[i].version = handles[posts[i].handle].version
          /\ Kind \in Jobs => posts[i].handle # 0 /\ handles[posts[i].handle].state = "posted"
    BY <2>2 DEF PostsCome
  <2> QED  BY <1>1, <1>2, <2>1, <2>3, <2>4 DEF PostsCome
<1>7. Unmisled'
  <2> SUFFICES ASSUME unclear' = {} PROVE Unmisled'  BY DEF Unmisled
  <2>1. Nothing /\ Twice = {}  BY <1>1 DEF TruthInv, Unmisled
  <2>2. MineLive' = {}
    <3> SUFFICES ASSUME NEW i \in MineLive' PROVE FALSE  OBVIOUS
    <3>1. i \in PostIds /\ posts[i].version = version + 1
      BY <1>1, <1>2, AdapterElements DEF MineLive
    <3> QED  BY <1>2, <1>3, <3>1
  <2>3. JobsOut' = {} /\ Twice' = {}  BY <1>1, <1>2, <2>1 DEF Nothing, JobsOut, Twice
  <2>4. Nothing' /\ OneJobOut'
    BY <1>1, <1>2, <2>2, <2>3 DEF Nothing, OneJobOut, LoneJob, Idle
  <2> QED  BY <1>1, <1>2, <2>3, <2>4 DEF Unmisled, Idle
<1> QED  BY <1>4, <1>5, <1>6, <1>7 DEF TruthInv

LEMMA ScheduleTruth ==
    ASSUME TruthInv, AdapterInv, NEW w \in Wares, Schedule(w)
    PROVE  TruthInv'
<1>1. /\ state = "draft" /\ state' = "scheduled" /\ ware' = w
      /\ UNCHANGED <<version, ref, handles, posts, claimed, work, tries, unclear>>
  BY DEF Schedule
<1>2. work = Idle /\ handles = <<>> /\ posts = <<>>  BY <1>1 DEF AdapterInv, AtRest
<1>3. /\ HandleIds' = {} /\ PostIds' = {} /\ DOMAIN handles' = {} /\ DOMAIN posts' = {}
  BY <1>1, <1>2 DEF HandleIds, PostIds
<1>4. AdaptersTypeOK'  BY <1>1, <1>2 DEF TruthInv, AdaptersTypeOK, InProgress, States
<1>5. OnPlan' /\ PostsCome' /\ ClaimIsTrue'
  BY <1>1, <1>2, <1>3 DEF OnPlan, PostsCome, ClaimIsTrue
<1>6. MineLive' = {} /\ JobsOut' = {} /\ Twice' = {}  BY <1>3 DEF MineLive, JobsOut, Twice
<1>7. Unmisled'
  BY <1>1, <1>2, <1>6 DEF Unmisled, Nothing, OneJobOut, LoneJob, Idle
<1> QED  BY <1>1, <1>4, <1>5, <1>7 DEF TruthInv

LEMMA BeginTruth ==
    ASSUME TruthInv, AdapterInv, AdapterShape', BeginAttempt
    PROVE  TruthInv'
<1>1. /\ state = "scheduled" /\ state' = "publishing"
      /\ work' = [todo |-> StillToDo(Resumes), handle |-> Resumes,
                  resumed |-> Resumes # 0, asking |-> FALSE]
      /\ UNCHANGED <<ware, version, ref, handles, posts, claimed, unclear>>
  BY DEF BeginAttempt
<1>2. ware' \in Wares /\ Kind \in DOMAIN Calls /\ Kind' = Kind
  BY <1>1, AdaptersAssumption DEF TruthInv, Kind
<1>3. ASSUME Kind \in Jobs PROVE OnPlan' /\ work'.todo # <<>>
  <2>1. Resumes = 0
    BY <1>3 DEF Resumes, Jobs, Resumable, Containers, Instagram, Media
  <2>2. work'.todo = Calls[Kind] /\ work'.handle = 0 /\ work'.resumed = FALSE
    BY <1>1, <2>1 DEF StillToDo
  <2>3. Calls[Kind] \in JobPlans /\ Head(Calls[Kind]) = "create"  BY <1>2, <1>3, PlanOf
  <2>4. OnPlan'  BY <1>2, <1>3, <2>2, <2>3 DEF OnPlan
  <2>5. work'.todo # <<>>  BY <2>2, <2>3, JobPlanGoesOn
  <2> QED  BY <1>1, <2>2, <2>4, <2>5
<1>4. ASSUME Kind \notin Jobs PROVE OnPlan' /\ work'.todo # <<>>
  <2>1. PublishLast(StillToDo(Resumes))
    <3>1. Resumes # 0 => Kind \in Resumable  BY DEF Resumes
    <3>2. CASE Resumes = 0  BY <1>2, <1>4, <3>2, PlanOf DEF StillToDo
    <3>3. CASE Resumes # 0 /\ Kind \in Media  BY <1>2, <3>3, PlanOf DEF StillToDo, Media
    <3>4. CASE Resumes # 0 /\ Kind \notin Media
      <4>1. PublishLast(Tail(Calls[Kind]))  BY <1>2, <3>1, <3>4, PlanOf DEF Media
      <4> QED  BY <3>4, <4>1 DEF StillToDo, Media
    <3> QED  BY <3>2, <3>3, <3>4
  <2>2. PublishLast(work'.todo)  BY <1>1, <2>1
  <2>3. work'.todo # <<>>  BY <2>2 DEF PublishLast
  <2>4. OnPlan'  BY <1>2, <1>4, <2>2 DEF OnPlan
  <2> QED  BY <2>3, <2>4
<1>5. /\ OnPlan' /\ work'.todo # <<>> /\ work'.asking = FALSE
      /\ Kind \in Jobs => work'.handle = 0
  <2>1. Kind \in Jobs => Resumes = 0
    BY DEF Resumes, Jobs, Resumable, Containers, Instagram, Media
  <2>2. OnPlan' /\ work'.todo # <<>>
    BY <1>3, <1>4
  <2> QED  BY <1>1, <2>1, <2>2
<1>6. work' # Idle
  <2>1. Idle.todo = <<>>  BY DEF Idle
  <2> QED  BY <1>5, <2>1
<1>7. AdaptersTypeOK'
  <2>1. claimed' \in 0 .. Len(posts')  BY <1>1 DEF TruthInv, AdaptersTypeOK
  <2> QED  BY <1>1, <1>6, <2>1, TypeKept DEF TruthInv, States
<1>8. PostsCome' /\ ClaimIsTrue'  BY <1>1, GroundKept DEF TruthInv, ClaimIsTrue
<1>9. Unmisled'
  <2> SUFFICES ASSUME unclear' = {} PROVE Unmisled'  BY DEF Unmisled
  <2>1. Nothing /\ Twice = {}  BY <1>1 DEF TruthInv, Unmisled
  <2>2. Nothing' /\ Twice' = {}  BY <1>1, <2>1, GroundKept DEF Nothing
  <2>3. Kind \in Jobs => OneJobOut'  BY <1>5, <2>2 DEF OneJobOut, LoneJob, Nothing
  <2> QED  BY <1>1, <1>2, <1>5, <2>2, <2>3 DEF Unmisled
<1> QED  BY <1>2, <1>5, <1>7, <1>8, <1>9 DEF TruthInv

----------------------------------------------------------------------------
(* What a call does at the platform.                                       *)

\* One more post: a second of its content only if there was one.
LEMMA OneMorePost ==
    ASSUME AdapterShape, UNCHANGED version, NEW p \in PostRecord, posts' = Append(posts, p)
    PROVE  /\ Len(posts) <= Len(posts') /\ Len(posts') \in PostIds'
           /\ posts'[Len(posts')] = p
           /\ \A i \in PostIds : i \in PostIds' /\ posts'[i] = posts[i]
           /\ \A i \in PostIds' : i = Len(posts') \/ i \in PostIds
           /\ DOMAIN posts' = PostIds'
           /\ MineLive' \subseteq MineLive \cup {Len(posts')}
           /\ p.version = version /\ MineLive = {} /\ Twice = {} => Twice' = {}
<1>1. /\ posts' \in Seq(PostRecord) /\ Len(posts') = Len(posts) + 1 /\ Len(posts) \in Nat
      /\ PostIds' = PostIds \cup {Len(posts')} /\ Len(posts') \notin PostIds
      /\ posts'[Len(posts')] = p
      /\ \A i \in PostIds : posts'[i] = posts[i]
  BY PostAppended, LenProperties DEF AdapterShape
<1>2. DOMAIN posts' = PostIds' /\ DOMAIN posts = PostIds
  BY <1>1, AdapterElements, LenProperties DEF PostIds
<1>3. MineLive' \subseteq MineLive \cup {Len(posts')}  BY <1>1, <1>2 DEF MineLive
<1>4. ASSUME p.version = version, MineLive = {}, Twice = {} PROVE Twice' = {}
  <2> SUFFICES ASSUME NEW i \in PostIds', NEW j \in PostIds', j < i,
                      posts'[j].version = posts'[i].version
               PROVE  FALSE
    BY <1>2 DEF Twice
  <2>1. j \in PostIds
    <3>1. i \in 1 .. Len(posts) + 1 /\ j \in 1 .. Len(posts) + 1  BY <1>1 DEF PostIds
    <3> QED  BY <1>1, <3>1 DEF PostIds
  <2>2. CASE i \in PostIds  BY <1>1, <1>2, <1>4, <2>1, <2>2 DEF Twice
  <2>3. CASE i = Len(posts')
    <3>1. posts[j].version = version  BY <1>1, <1>4, <2>1, <2>3
    <3> QED  BY <1>2, <1>4, <2>1, <3>1 DEF MineLive
  <2> QED  BY <1>1, <2>2, <2>3
<1> QED  BY <1>1, <1>2, <1>3, <1>4

\* What the callers of Lands need to know.
CallEffect ==
    /\ PostsCome' /\ Len(posts) <= Len(posts')
    /\ \A i \in PostIds : posts'[i].version = posts[i].version
    /\ unclear = {} =>
         /\ Twice' = {}
         /\ Kind \notin Jobs =>
              /\ ~NextIs("publish") => Nothing'
              /\ \A i \in MineLive' : /\ posts'[i].try = tries
                                      /\ Kind \in Once => posts'[i].handle = ref.handle
         /\ Kind \in Jobs =>
              /\ LoneJob'
              /\ NextIs("create") => JobsOut' \subseteq {Len(handles')} /\ MineLive' = {}
              /\ ~NextIs("create") => /\ JobsOut' \subseteq {work.handle}
                                      /\ \A i \in MineLive' : posts'[i].handle = work.handle

LEMMA CreateTruth ==
    ASSUME TruthInv, AdapterInv, NextIs("create"), handles' = Made,
           UNCHANGED <<ware, version, tries, ref, posts>>
    PROVE  CallEffect
<1> DEFINE n == Len(handles) + 1
<1>1. /\ AdapterShape /\ work # Idle /\ ~work.asking
      /\ Kind \in Jobs => work.handle = 0
  BY NextIsInProgress, NextOnPlan DEF AdapterInv, NextIs, TruthInv
<1>2. PICK new \in HandleRecord : new = [state |-> FirstState, version |-> version]
  <2>1. FirstState \in {"working", "empty", "ready"}  BY DEF FirstState
  <2>2. version \in Nat  BY <1>1 DEF AdapterShape
  <2> QED  BY <2>1, <2>2 DEF HandleRecord, HandleStates
<1>3. /\ new.version = version /\ new.state # "posted"
      /\ Kind \in Jobs => new.state # "ready"
  <2>1. FirstState \in {"working", "empty", "ready"}  BY DEF FirstState
  <2>2. Kind \in Jobs => FirstState \in {"working", "empty"}  BY DEF FirstState, Jobs
  <2> QED  BY <1>2, <2>1, <2>2
<1>4. /\ handles' \in Seq(HandleRecord) /\ Len(handles') = n /\ handles'[n] = new
      /\ Len(handles) \in Nat
      /\ \A h \in HandleIds : handles'[h] = handles[h]
  <2>1. handles \in Seq(HandleRecord)  BY <1>1 DEF AdapterShape
  <2>2. handles' = Append(handles, new)  BY <1>2 DEF Made
  <2> QED  BY <2>1, <2>2, AppendProperties, LenProperties DEF HandleIds
<1>5. /\ HandleIds' = HandleIds \cup {n} /\ PostIds' = PostIds /\ n \notin HandleIds /\ n # 0
      /\ DOMAIN handles' = HandleIds' /\ DOMAIN handles = HandleIds /\ Kind' = Kind
  BY <1>1, <1>4, AdapterElements, LenProperties DEF HandleIds, PostIds, Kind
<1>6. MineLive' = MineLive /\ Twice' = Twice  BY DEF MineLive, Twice
<1>7. JobsOut' \subseteq JobsOut \cup {n}
  BY <1>4, <1>5 DEF JobsOut
<1>8. PostsCome'
  <2>1. PostsCome  BY DEF TruthInv
  <2>2. \A h \in HandleIds' :
          /\ handles'[h].state = "posted" => \E i \in PostIds : posts[i].handle = h
          /\ Kind \in Jobs => handles'[h].state # "ready"
    BY <1>3, <1>4, <1>5, <2>1 DEF PostsCome
  <2>3. \A i \in PostIds :
          /\ posts[i].handle \in {0} \cup HandleIds' /\ posts[i].version <= version
          /\ posts[i].handle # 0 => posts[i].version = handles'[posts[i].handle].version
          /\ Kind \in Jobs => posts[i].handle # 0 /\ handles'[posts[i].handle].state = "posted"
    <3> SUFFICES ASSUME NEW i \in PostIds
                 PROVE  /\ posts[i].handle \in {0} \cup HandleIds' /\ posts[i].version <= version
                        /\ posts[i].handle # 0 =>
                               posts[i].version = handles'[posts[i].handle].version
                        /\ Kind \in Jobs => /\ posts[i].handle # 0
                                            /\ handles'[posts[i].handle].state = "posted"
      OBVIOUS
    <3>1. /\ posts[i].handle \in {0} \cup HandleIds /\ posts[i].version <= version
          /\ posts[i].handle # 0 => posts[i].version = handles[posts[i].handle].version
          /\ Kind \in Jobs => posts[i].handle # 0 /\ handles[posts[i].handle].state = "posted"
      BY <2>1 DEF PostsCome
    <3>2. posts[i].handle # 0 => handles'[posts[i].handle] = handles[posts[i].handle]
      BY <1>4, <3>1
    <3> QED  BY <1>5, <3>1, <3>2
  <2> QED  BY <1>5, <2>2, <2>3 DEF PostsCome
<1>9. ASSUME unclear = {}
      PROVE  /\ Twice' = {} /\ MineLive' = {} /\ JobsOut' \subseteq {n}
             /\ Kind \notin Jobs => Nothing'
             /\ LoneJob'
  <2>1. Nothing /\ Twice = {}  BY <1>1, <1>9, CleanSoFar DEF TruthInv, Unmisled
  <2>2. MineLive' = {} /\ Twice' = {} /\ JobsOut' \subseteq {n}
    BY <1>6, <1>7, <2>1 DEF Nothing
  <2>3. Kind \notin Jobs => Nothing'  BY <1>5, <2>2 DEF Nothing, JobsOut
  <2>4. LoneJob'  BY <1>3, <1>4, <2>2 DEF LoneJob
  <2> QED  BY <2>2, <2>3, <2>4
<1>10. Len(posts) <= Len(posts')  BY <1>1, LenProperties DEF AdapterShape
<1> QED  BY <1>4, <1>8, <1>9, <1>10 DEF CallEffect

LEMMA UploadTruth ==
    ASSUME TruthInv, AdapterInv, NextIs("upload"), handles' = Delivered,
           UNCHANGED <<ware, version, tries, ref, posts>>
    PROVE  CallEffect
<1>1. /\ AdapterShape /\ MadeFor /\ PostsCome /\ work # Idle /\ ~work.asking
      /\ Kind \in Jobs => work.handle # 0
      /\ ~NextIs("create") /\ ~NextIs("publish")
  BY NextIsInProgress, NextOnPlan DEF AdapterInv, NextIs, TruthInv
<1>2. /\ HandleIds' = HandleIds /\ PostIds' = PostIds /\ Kind' = Kind
      /\ \A h \in HandleIds : handles'[h].version = handles[h].version
      /\ handles' \in Seq(HandleRecord)
  BY UploadLands DEF Landed, PostIds, Kind
<1>3. \A h \in HandleIds :
        \/ handles'[h].state = handles[h].state
        \/ h = work.handle /\ handles[h].state = "empty" /\ handles'[h].state = "working"
  <2> SUFFICES ASSUME NEW h \in HandleIds
               PROVE  \/ handles'[h].state = handles[h].state
                      \/ /\ h = work.handle /\ handles[h].state = "empty"
                         /\ handles'[h].state = "working"
    OBVIOUS
  <2>1. handles \in [HandleIds -> HandleRecord]
    BY <1>1, SeqDef, LenProperties DEF AdapterShape, HandleIds
  <2>2. CASE h # work.handle  BY <2>1, <2>2 DEF Delivered
  <2>3. CASE h = work.handle
    <3>1. handles[h] \in HandleRecord  BY <2>1
    <3>2. handles'[h] = [handles[h] EXCEPT !.state = IF @ = "empty" THEN "working" ELSE @]
      BY <2>1, <2>3 DEF Delivered
    <3> QED  BY <2>3, <3>1, <3>2 DEF HandleRecord
  <2> QED  BY <2>2, <2>3
<1>4. DOMAIN handles' = HandleIds /\ DOMAIN handles = HandleIds
  BY <1>1, <1>2, AdapterElements, LenProperties DEF HandleIds
<1>5. MineLive' = MineLive /\ Twice' = Twice  BY DEF MineLive, Twice
<1>6. JobsOut' \subseteq JobsOut \cup {work.handle}  BY <1>2, <1>3, <1>4 DEF JobsOut
<1>7. PostsCome'
  <2>1. \A h \in HandleIds :
          /\ handles'[h].state = "posted" => \E i \in PostIds : posts[i].handle = h
          /\ Kind \in Jobs => handles'[h].state # "ready"
    BY <1>1, <1>3 DEF PostsCome
  <2>2. \A i \in PostIds :
          /\ posts[i].handle \in {0} \cup HandleIds /\ posts[i].version <= version
          /\ posts[i].handle # 0 => posts[i].version = handles'[posts[i].handle].version
          /\ Kind \in Jobs => posts[i].handle # 0 /\ handles'[posts[i].handle].state = "posted"
    <3> SUFFICES ASSUME NEW i \in PostIds
                 PROVE  /\ posts[i].handle \in {0} \cup HandleIds /\ posts[i].version <= version
                        /\ posts[i].handle # 0 =>
                               posts[i].version = handles'[posts[i].handle].version
                        /\ Kind \in Jobs => /\ posts[i].handle # 0
                                            /\ handles'[posts[i].handle].state = "posted"
      OBVIOUS
    <3>1. /\ posts[i].handle \in {0} \cup HandleIds /\ posts[i].version <= version
          /\ posts[i].handle # 0 => posts[i].version = handles[posts[i].handle].version
          /\ Kind \in Jobs => posts[i].handle # 0 /\ handles[posts[i].handle].state = "posted"
      BY <1>1 DEF PostsCome
    <3>2. PICK h : h = posts[i].handle  OBVIOUS
    <3>3. h # 0 => /\ handles'[h].version = handles[h].version
                   /\ handles[h].state = "posted" => handles'[h].state = "posted"
      BY <1>2, <1>3, <3>1, <3>2
    <3> QED  BY <3>1, <3>2, <3>3
  <2> QED  BY <1>2, <2>1, <2>2 DEF PostsCome
<1>8. ASSUME unclear = {}, Kind \in Jobs
      PROVE  /\ LoneJob' /\ JobsOut' \subseteq {work.handle}
             /\ \A i \in MineLive' : posts'[i].handle = work.handle
  <2>1. OneJobOut  BY <1>8 DEF TruthInv, Unmisled
  <2>2. work.handle \in HandleIds  BY <1>1, <1>8 DEF AdapterShape
  <2>3. JobsOut' \subseteq {work.handle}  BY <1>1, <1>6, <1>8, <2>1 DEF OneJobOut
  <2>4. \A i \in MineLive' : posts'[i].handle = work.handle
    BY <1>1, <1>5, <1>8, <2>1 DEF OneJobOut
  <2>5. work.handle \in JobsOut' => MineLive' = {}
    <3> SUFFICES ASSUME work.handle \in JobsOut', NEW i \in MineLive' PROVE FALSE  OBVIOUS
    <3>1. i \in PostIds /\ posts[i].handle = work.handle
      BY <1>1, <1>5, <2>4, AdapterElements DEF MineLive
    <3>2. handles[work.handle].state = "posted"  BY <1>1, <1>8, <3>1 DEF PostsCome
    <3>3. handles'[work.handle].state = "posted"  BY <1>3, <2>2, <3>2
    <3> QED  BY <3>3 DEF JobsOut
  <2>6. handles'[work.handle].version = version  BY <1>1, <1>2, <1>8, <2>2 DEF MadeFor
  <2> QED  BY <2>3, <2>4, <2>5, <2>6 DEF LoneJob
<1>9. ASSUME unclear = {}, Kind \notin Jobs PROVE MineLive' = {} /\ Nothing'
  <2>1. Nothing  BY <1>1, <1>9, CleanSoFar
  <2> QED  BY <1>2, <1>5, <1>9, <2>1 DEF Nothing, JobsOut
<1>10. unclear = {} => Twice' = {}  BY <1>5 DEF TruthInv, Unmisled
<1>11. Len(posts) <= Len(posts')  BY <1>1, LenProperties DEF AdapterShape
<1> QED  BY <1>1, <1>7, <1>8, <1>9, <1>10, <1>11 DEF CallEffect

LEMMA PublishTruth ==
    ASSUME TruthInv, AdapterInv, NextIs("publish"),
           posts' = Append(posts, Post(work.handle)),
           handles' = IF work.handle = 0 \/ Kind \in Media THEN handles
                      ELSE [handles EXCEPT ![work.handle].state = "posted"],
           UNCHANGED <<ware, version, tries, ref>>
    PROVE  CallEffect /\ posts'[Len(posts')].version = version /\ Len(posts') \in PostIds'
<1>1. /\ AdapterShape /\ MadeFor /\ PostsCome /\ work # Idle /\ ~work.asking
      /\ Kind \notin Jobs /\ Kind' = Kind
  BY NextIsInProgress, NextOnPlan DEF AdapterInv, NextIs, TruthInv, Kind
<1>2. PICK h \in {0} \cup HandleIds : h = work.handle  BY <1>1 DEF AdapterShape
<1>3. h # 0 => handles[h].version = version  BY <1>1, <1>2 DEF MadeFor
<1>4. PICK p \in PostRecord :
        /\ p = Post(work.handle)
        /\ p.version = version /\ p.handle = h /\ p.try = tries
  <2>1. h \in Nat /\ version \in Nat /\ tries \in Nat
    BY <1>1, <1>2, LenProperties DEF AdapterShape, HandleIds
  <2>2. (IF h = 0 THEN version ELSE handles[h].version) = version  BY <1>3
  <2> DEFINE new == [version |-> version, wanted |-> version, handle |-> h, try |-> tries,
                     shown |-> FALSE]
  <2>3. Post(work.handle) = new  BY <1>2, <2>2 DEF Post
  <2>4. new \in PostRecord  BY <2>1 DEF PostRecord
  <2>5. new.version = version /\ new.handle = h /\ new.try = tries  OBVIOUS
  <2> HIDE DEF new
  <2> QED  BY <2>3, <2>4, <2>5
<1>5. /\ Len(posts) <= Len(posts') /\ Len(posts') \in PostIds'
      /\ posts'[Len(posts')] = p
      /\ \A i \in PostIds : i \in PostIds' /\ posts'[i] = posts[i]
      /\ \A i \in PostIds' : i = Len(posts') \/ i \in PostIds
      /\ MineLive' \subseteq MineLive \cup {Len(posts')}
      /\ MineLive = {} /\ Twice = {} => Twice' = {}
  <2>1. posts' = Append(posts, p)  BY <1>4
  <2> QED  BY <1>1, <1>4, <2>1, OneMorePost
<1>6. /\ HandleIds' = HandleIds
      /\ \A k \in HandleIds : /\ handles'[k].version = handles[k].version
                              /\ k # h => handles'[k].state = handles[k].state
  <2>1. CASE handles' = handles  BY <2>1 DEF HandleIds
  <2>2. CASE h \in HandleIds /\ handles' = [handles EXCEPT ![h].state = "posted"]
    <3>1. "posted" \in HandleStates  BY DEF HandleStates
    <3> QED  BY <1>1, <2>2, <3>1, HandleMoves
  <2> QED  BY <1>2, <2>1, <2>2
<1>7. PostsCome'
  <2>1. \A k \in HandleIds : handles'[k].state = "posted" => \E i \in PostIds' : posts'[i].handle = k
    <3> SUFFICES ASSUME NEW k \in HandleIds, handles'[k].state = "posted"
                 PROVE  \E i \in PostIds' : posts'[i].handle = k
      OBVIOUS
    <3>1. CASE k = h  BY <1>4, <1>5, <3>1
    <3>2. CASE k # h
      <4>1. PICK i \in PostIds : posts[i].handle = k  BY <1>1, <1>6, <3>2 DEF PostsCome
      <4> QED  BY <1>5, <4>1
    <3> QED  BY <3>1, <3>2
  <2>2. \A i \in PostIds' :
          /\ posts'[i].handle \in {0} \cup HandleIds /\ posts'[i].version <= version
          /\ posts'[i].handle # 0 => posts'[i].version = handles'[posts'[i].handle].version
    <3> SUFFICES ASSUME NEW i \in PostIds'
                 PROVE  /\ posts'[i].handle \in {0} \cup HandleIds /\ posts'[i].version <= version
                        /\ posts'[i].handle # 0 =>
                               posts'[i].version = handles'[posts'[i].handle].version
      OBVIOUS
    <3>1. CASE i = Len(posts')
      <4>1. posts'[i].handle = h /\ posts'[i].version = version  BY <1>4, <1>5, <3>1
      <4>2. version \in Nat  BY <1>1 DEF AdapterShape
      <4>3. h # 0 => handles'[h].version = version  BY <1>2, <1>3, <1>6
      <4> QED  BY <4>1, <4>2, <4>3
    <3>2. CASE i \in PostIds
      <4>1. /\ posts[i].handle \in {0} \cup HandleIds /\ posts[i].version <= version
            /\ posts[i].handle # 0 => posts[i].version = handles[posts[i].handle].version
        BY <1>1, <3>2 DEF PostsCome
      <4>2. posts'[i] = posts[i]  BY <1>5, <3>2
      <4>3. PICK k : k = posts[i].handle  OBVIOUS
      <4>4. k # 0 => handles'[k].version = handles[k].version  BY <1>6, <4>1, <4>3
      <4> QED  BY <4>1, <4>2, <4>3, <4>4
    <3> QED  BY <1>5, <3>1, <3>2
  <2> QED  BY <1>1, <1>6, <2>1, <2>2 DEF PostsCome
<1>8. ASSUME unclear = {}
      PROVE  /\ Twice' = {}
             /\ \A i \in MineLive' : /\ posts'[i].try = tries
                                     /\ Kind \in Once => posts'[i].handle = ref.handle
  <2>1. Nothing /\ Twice = {}  BY <1>1, <1>8, CleanSoFar DEF TruthInv, Unmisled
  <2>2. Twice' = {} /\ MineLive' \subseteq {Len(posts')}  BY <1>5, <2>1 DEF Nothing
  <2>3. posts'[Len(posts')].try = tries  BY <1>4, <1>5
  <2>4. Kind \in Once => posts'[Len(posts')].handle = ref.handle
    <3> SUFFICES ASSUME Kind \in Once PROVE posts'[Len(posts')].handle = ref.handle  OBVIOUS
    <3>1. OnRecord  BY NextSaysHowFar DEF AdapterInv
    <3> QED  BY <1>2, <1>4, <1>5, <3>1 DEF OnRecord
  <2> QED  BY <2>2, <2>3, <2>4
<1> QED  BY <1>1, <1>4, <1>5, <1>7, <1>8 DEF CallEffect

LEMMA CallTruth ==
    ASSUME TruthInv, AdapterInv, Lands, UNCHANGED <<ware, version, tries, ref>>
    PROVE  /\ CallEffect
           /\ NextIs("publish") => /\ posts'[Len(posts')].version = version
                                   /\ Len(posts') \in PostIds'
<1>1. CASE NextIs("create") /\ handles' = Made /\ UNCHANGED posts
  BY <1>1, CreateTruth DEF NextIs
<1>2. CASE NextIs("upload") /\ handles' = Delivered /\ UNCHANGED posts
  BY <1>2, UploadTruth DEF NextIs
<1>3. CASE /\ NextIs("publish") /\ Publishable
           /\ posts' = Append(posts, Post(work.handle))
           /\ handles' = IF work.handle = 0 \/ Kind \in Media THEN handles
                         ELSE [handles EXCEPT ![work.handle].state = "posted"]
  BY <1>3, PublishTruth
<1> QED  BY <1>1, <1>2, <1>3 DEF Lands

\* The post that was claimed is still of the content it was.
LEMMA ClaimStays ==
    ASSUME TruthInv, AdapterShape, UNCHANGED <<state, claimed, version>>,
           unclear \subseteq unclear',
           \A i \in PostIds : posts'[i].version = posts[i].version
    PROVE  ClaimIsTrue'
<1> SUFFICES ASSUME state = "published"
             PROVE  /\ claimed # 0
                    /\ \/ posts'[claimed].version = version
                       \/ unclear' \cap {"stale", "alike"} # {}
  BY DEF ClaimIsTrue
<1>1. claimed # 0 /\ (posts[claimed].version = version \/ unclear \cap {"stale", "alike"} # {})
  BY DEF TruthInv, ClaimIsTrue
<1>2. claimed \in 0 .. Len(posts)  BY DEF TruthInv, AdaptersTypeOK
<1>3. claimed \in PostIds  BY <1>1, <1>2, LenProperties DEF PostIds, AdapterShape
<1> QED  BY <1>1, <1>3

LEMMA AnsweredTruth ==
    ASSUME TruthInv, AdapterInv, AdapterInv', CallAnswered
    PROVE  TruthInv'
<1>1. /\ Lands /\ UNCHANGED <<ware, version, ref, tries, unclear>>
      /\ AdapterShape /\ AdapterShape'
  BY DEF CallAnswered, AdapterInv
<1>2. PICK step \in {"create", "upload", "publish"} : NextIs(step)  BY <1>1 DEF Lands
<1>3. work # Idle /\ ~work.asking  BY <1>2, NextIsInProgress DEF NextIs
<1>4. state = "publishing" /\ OnPlan  BY <1>3 DEF TruthInv, AdaptersTypeOK, InProgress
<1>5. CallEffect  BY <1>1, CallTruth
<1>6. CASE step = "publish"
  <2>1. Kind \notin Jobs /\ Tail(work.todo) = <<>>  BY <1>2, <1>4, <1>6, NextOnPlan
  <2>2. work' = Idle /\ state' = "published" /\ claimed' = Len(posts')
    BY <1>2, <1>6, <2>1 DEF CallAnswered, Ends
  <2>3. posts'[Len(posts')].version = version /\ Len(posts') \in PostIds'
    BY <1>1, <1>2, <1>6, CallTruth
  <2>4. claimed' # 0 /\ claimed' \in 0 .. Len(posts')
    BY <1>1, <2>2, <2>3, DomainsNext DEF PostIds
  <2>5. ClaimIsTrue'  BY <1>1, <2>2, <2>3, <2>4 DEF ClaimIsTrue
  <2>6. PostsCome' /\ (unclear' = {} => Twice' = {})  BY <1>1, <1>5 DEF CallEffect
  <2> QED  BY <1>1, <1>4, <2>1, <2>2, <2>4, <2>5, <2>6, AttemptEnds DEF States
<1>7. CASE step \in {"create", "upload"}
  <2>1. ~NextIs("publish")  BY <1>2, <1>7 DEF NextIs
  <2>2. /\ work' = [work EXCEPT !.todo = Tail(@),
                                !.handle = IF NextIs("create") THEN Len(handles') ELSE @]
        /\ UNCHANGED <<state, claimed>>
    BY <2>1 DEF CallAnswered
  <2>3. /\ work'.todo = Tail(work.todo) /\ work'.resumed = work.resumed
        /\ work'.asking = work.asking
        /\ work'.handle = IF NextIs("create") THEN Len(handles') ELSE work.handle
    BY <1>1, <2>2 DEF AdapterShape
  <2>4. NextIs("create") => Len(handles') # 0
    BY <1>1, CallLands
  <2>5. ~NextIs("create") => (Kind \in Jobs => work.handle # 0)
    BY <1>2, <1>4, <1>7, NextOnPlan
  <2>6. Kind \in Jobs => work'.handle # 0  BY <2>3, <2>4, <2>5
  <2>7. PostsCome' /\ Len(posts) <= Len(posts')  BY <1>5 DEF CallEffect
  <2>8. ClaimIsTrue'  BY <1>1, <1>5, <2>2, ClaimStays DEF CallEffect
  <2>9. ASSUME unclear = {}
        PROVE  /\ Twice' = {} /\ (Kind \notin Jobs => Nothing')
               /\ Kind \in Jobs => OneJobOut'
    <3>1. Twice' = {} /\ (Kind \notin Jobs => Nothing')
      BY <1>5, <2>1, <2>9 DEF CallEffect
    <3>2. ASSUME Kind \in Jobs
          PROVE  /\ LoneJob' /\ JobsOut' \subseteq {work'.handle}
                 /\ \A i \in MineLive' : posts'[i].handle = work'.handle
      <4>1. CASE NextIs("create")
        BY <1>5, <2>3, <2>9, <3>2, <4>1 DEF CallEffect
      <4>2. CASE ~NextIs("create")
        BY <1>5, <2>3, <2>9, <3>2, <4>2 DEF CallEffect
      <4> QED  BY <4>1, <4>2
    <3> QED  BY <3>1, <3>2 DEF OneJobOut
  <2> QED  BY <1>1, <1>2, <1>7, <2>2, <2>3, <2>6, <2>7, <2>8, <2>9, AttemptGoesOn
<1> QED  BY <1>2, <1>6, <1>7

\* A call that is refused did nothing.
LEMMA RefusedTruth ==
    ASSUME TruthInv, AdapterShape, AdapterShape', CallRefused
    PROVE  TruthInv'
<1>1. /\ work # Idle /\ ~work.asking /\ work' = Idle /\ state' = "failed"
      /\ unclear' = unclear \cup (IF Torn THEN {"torn"} ELSE {})
      /\ UNCHANGED <<ware, version, ref, handles, posts, claimed, tries>>
  BY NextIsInProgress DEF CallRefused, OnTheWire, NextIs, DoesNot, Ends, Misled
<1>2. state = "publishing"  BY <1>1 DEF TruthInv, AdaptersTypeOK, InProgress
<1>3. unclear' = {} => Nothing
  <2> SUFFICES ASSUME unclear' = {} PROVE Nothing  OBVIOUS
  <2>1. unclear = {} /\ ~Torn  BY <1>1
  <2>2. CASE Kind \in Jobs => work.handle = 0  BY <1>1, <2>1, <2>2, CleanSoFar
  <2>3. CASE Kind \in Jobs /\ work.handle # 0  BY <2>1, <2>3, DeadJob DEF Torn
  <2> QED  BY <2>2, <2>3
<1>4. ClaimIsTrue' /\ claimed' \in 0 .. Len(posts)  BY <1>1, UnclaimedIsTrue
<1>5. unclear \subseteq unclear'  BY <1>1
<1> QED  BY <1>1, <1>2, <1>3, <1>4, <1>5, EndsIdly DEF States

\* One that seems to be may have done something: it is torn, or harmless.
LEMMA UnavailableTruth ==
    ASSUME TruthInv, AdapterInv, AdapterShape', CallUnavailable
    PROVE  TruthInv'
<1>1. /\ work # Idle /\ ~work.asking /\ work' = Idle /\ state' = "scheduled"
      /\ unclear' = unclear \cup (IF Torn THEN {"torn"} ELSE {})
      /\ UNCHANGED <<ware, version, ref, claimed, tries>>
      /\ Lands \/ UNCHANGED <<handles, posts>>
  BY NextIsInProgress DEF CallUnavailable, OnTheWire, NextIs, DoesNot, Ends, Misled
<1>2. state = "publishing" /\ AdapterShape /\ Kind' = Kind
  BY <1>1 DEF TruthInv, AdaptersTypeOK, InProgress, AdapterInv, Kind
<1>3. PostsCome' /\ Len(posts) <= Len(posts')
  <2>1. CASE Lands  BY <1>1, <2>1, CallTruth DEF CallEffect
  <2>2. CASE UNCHANGED <<handles, posts>>
    <3>1. Len(posts) <= Len(posts')  BY <1>2, <2>2, LenProperties DEF AdapterShape
    <3> QED  BY <1>1, <2>2, <3>1, GroundKept DEF TruthInv
  <2> QED  BY <1>1, <2>1, <2>2
<1>4. ASSUME unclear' = {}
      PROVE  Twice' = {} /\ Nothing' /\ (Kind \in Jobs => LoneJob')
  <2>1. unclear = {} /\ ~Torn  BY <1>1, <1>4
  <2>2. posts' = posts /\ (Kind \in Jobs => handles' = handles)  BY <2>1 DEF Torn
  <2>3. Nothing
    <3>1. CASE Kind \in Jobs => work.handle = 0  BY <1>1, <2>1, <3>1, CleanSoFar
    <3>2. CASE Kind \in Jobs /\ work.handle # 0  BY <1>2, <2>1, <3>2, DeadJob DEF Torn
    <3> QED  BY <3>1, <3>2
  <2>4. MineLive' = {}  BY <1>1, <2>2, <2>3 DEF Nothing, MineLive
  <2>5. JobsOut' = {}
    <3>1. CASE Kind \in Jobs  BY <1>2, <2>2, <2>3, <3>1 DEF Nothing, JobsOut
    <3>2. CASE Kind \notin Jobs  BY <1>2, <3>2 DEF JobsOut
    <3> QED  BY <3>1, <3>2
  <2>6. Twice' = {}  BY <2>1, <2>2 DEF Twice, TruthInv, Unmisled
  <2> QED  BY <2>4, <2>5, <2>6 DEF Nothing, LoneJob
<1>5. ClaimIsTrue' /\ claimed' \in 0 .. Len(posts)  BY <1>1, UnclaimedIsTrue
<1>6. claimed' \in 0 .. Len(posts')
  BY <1>2, <1>3, <1>5, DomainsNext, LenProperties DEF AdapterShape
<1> QED  BY <1>1, <1>2, <1>3, <1>4, <1>5, <1>6, AttemptEnds DEF States

LEMMA LostTruth ==
    ASSUME TruthInv, AdapterInv, AdapterShape', CallLost
    PROVE  TruthInv'
<1>1. /\ work # Idle /\ ~work.asking /\ work' = [work EXCEPT !.asking = TRUE]
      /\ UNCHANGED <<ware, state, version, ref, claimed, tries, unclear>>
      /\ Lands \/ UNCHANGED <<handles, posts>>
      /\ AdapterShape
  BY NextIsInProgress DEF CallLost, OnTheWire, NextIs, DoesNot, WhenLost, Ask, AdapterInv
<1>2. CASE UNCHANGED <<handles, posts>>  BY <1>1, <1>2, AsksIdly
<1>3. CASE Lands
  <2>1. CallEffect  BY <1>1, <1>3, CallTruth
  <2>2. PostsCome' /\ Len(posts) <= Len(posts')  BY <2>1 DEF CallEffect
  <2>3. ClaimIsTrue'  BY <1>1, <2>1, ClaimStays DEF CallEffect
  <2>4. work'.handle = work.handle  BY <1>1 DEF AdapterShape
  <2>5. ASSUME unclear = {}
        PROVE  /\ Twice' = {}
               /\ Kind \notin Jobs => \A i \in MineLive' : posts'[i].try = tries
                                        /\ (Kind \in Once => posts'[i].handle = ref'.handle)
               /\ Kind \in Jobs => OneJobOut'
    <3>1. /\ Twice' = {}
          /\ Kind \notin Jobs => \A i \in MineLive' : posts'[i].try = tries
                                   /\ (Kind \in Once => posts'[i].handle = ref'.handle)
      BY <1>1, <2>1, <2>5 DEF CallEffect
    <3>2. ASSUME Kind \in Jobs PROVE OneJobOut'
      <4>1. LoneJob'  BY <2>1, <2>5, <3>2 DEF CallEffect
      <4>2. CASE NextIs("create")
        <5>1. work.handle = 0  BY <3>2, <4>2, NextOnPlan DEF TruthInv
        <5> QED  BY <2>4, <4>1, <5>1 DEF OneJobOut
      <4>3. CASE ~NextIs("create")
        <5>1. /\ JobsOut' \subseteq {work.handle}
              /\ \A i \in MineLive' : posts'[i].handle = work.handle
          BY <2>1, <2>5, <3>2, <4>3 DEF CallEffect
        <5> QED  BY <2>4, <4>1, <5>1 DEF OneJobOut
      <4> QED  BY <4>2, <4>3
    <3> QED  BY <3>1, <3>2
  <2> QED  BY <1>1, <2>2, <2>3, <2>5, AttemptAsks
<1> QED  BY <1>1, <1>2, <1>3

----------------------------------------------------------------------------
(* The platform's own steps.                                               *)

\* The attempt and the variant stay as they are; a job that posts, or a handle
\* that changes, leaves no more behind than there was.
LEMMA PlatformMoves ==
    ASSUME TruthInv, AdapterShape, AdapterShape',
           UNCHANGED <<ware, state, version, ref, claimed, work, tries, unclear>>,
           Len(posts) <= Len(posts'), PostsCome',
           \A i \in PostIds : posts'[i].version = posts[i].version,
           unclear = {} => /\ Twice' = {} /\ (Nothing => Nothing')
                           /\ Kind \notin Jobs => \A i \in MineLive' :
                                /\ i \in MineLive
                                /\ posts'[i].try = posts[i].try
                                /\ posts'[i].handle = posts[i].handle
                           /\ Kind \in Jobs => OneJobOut'
    PROVE  TruthInv'
<1>1. Kind' = Kind  BY DEF Kind
<1>2. AdaptersTypeOK'
  <2>1. claimed \in 0 .. Len(posts) /\ state \in States  BY DEF TruthInv, AdaptersTypeOK
  <2>2. Len(posts) \in Nat /\ Len(posts') \in Nat
    BY DomainsNext, LenProperties DEF AdapterShape
  <2>3. claimed' \in 0 .. Len(posts')  BY <2>1, <2>2
  <2> QED  BY <2>1, <2>3, TypeKept DEF TruthInv, AdaptersTypeOK, InProgress
<1>3. ClaimIsTrue'  BY ClaimStays
<1>4. OnPlan' /\ (state' # "draft" => ware' \in Wares)  BY <1>1 DEF TruthInv, OnPlan
<1>5. Unmisled'
  <2> SUFFICES ASSUME unclear' = {} PROVE Unmisled'  BY DEF Unmisled
  <2>1. unclear = {} /\ Unmisled  BY DEF TruthInv
  <2>2. /\ state \in {"draft", "scheduled", "failed"} => Nothing
        /\ work # Idle /\ ~work.asking /\ (Kind \in Jobs => work.handle = 0) => Nothing
        /\ work.asking /\ Kind \notin Jobs => \A i \in MineLive :
               posts[i].try = tries /\ (Kind \in Once => posts[i].handle = ref.handle)
    BY <2>1 DEF Unmisled
  <2>3. work'.asking /\ Kind' \notin Jobs => \A i \in MineLive' :
               posts'[i].try = tries' /\ (Kind' \in Once => posts'[i].handle = ref'.handle)
    BY <1>1, <2>1, <2>2
  <2> QED  BY <1>1, <2>1, <2>2, <2>3 DEF Unmisled
<1> QED  BY <1>2, <1>3, <1>4, <1>5 DEF TruthInv

\* A handle becomes ready or is spoilt; a job only the latter.
LEMMA HandleTruth ==
    ASSUME TruthInv, AdapterShape, AdapterShape',
           NEW h \in HandleIds, NEW s \in {"ready", "spoilt", "expired"},
           handles[h].state # "posted", s = "ready" => Kind \notin Jobs,
           handles' = [handles EXCEPT ![h].state = s],
           UNCHANGED <<ware, state, version, ref, posts, claimed, work, tries, unclear>>
    PROVE  TruthInv'
<1>1. s \in HandleStates  BY DEF HandleStates
<1>2. /\ HandleIds' = HandleIds /\ handles'[h].state = s
      /\ \A k \in HandleIds : /\ handles'[k].version = handles[k].version
                              /\ k # h => handles'[k].state = handles[k].state
  BY <1>1, HandleMoves
<1>3. /\ PostIds' = PostIds /\ Kind' = Kind /\ MineLive' = MineLive /\ Twice' = Twice
      /\ DOMAIN handles' = HandleIds /\ DOMAIN handles = HandleIds /\ DOMAIN posts = PostIds
  BY <1>2, DomainsNext, AdapterElements DEF PostIds, Kind, MineLive, Twice
<1>4. PostsCome'
  <2>1. PostsCome  BY DEF TruthInv
  <2>2. \A k \in HandleIds :
          /\ handles'[k].state = "posted" => \E i \in PostIds : posts[i].handle = k
          /\ Kind \in Jobs => handles'[k].state # "ready"
    BY <1>2, <2>1 DEF PostsCome
  <2>3. \A i \in PostIds :
          /\ posts[i].handle \in {0} \cup HandleIds /\ posts[i].version <= version
          /\ posts[i].handle # 0 => posts[i].version = handles'[posts[i].handle].version
          /\ Kind \in Jobs => posts[i].handle # 0 /\ handles'[posts[i].handle].state = "posted"
    <3> SUFFICES ASSUME NEW i \in PostIds
                 PROVE  /\ posts[i].handle \in {0} \cup HandleIds /\ posts[i].version <= version
                        /\ posts[i].handle # 0 =>
                               posts[i].version = handles'[posts[i].handle].version
                        /\ Kind \in Jobs => /\ posts[i].handle # 0
                                            /\ handles'[posts[i].handle].state = "posted"
      OBVIOUS
    <3>1. /\ posts[i].handle \in {0} \cup HandleIds /\ posts[i].version <= version
          /\ posts[i].handle # 0 => posts[i].version = handles[posts[i].handle].version
          /\ Kind \in Jobs => posts[i].handle # 0 /\ handles[posts[i].handle].state = "posted"
      BY <2>1 DEF PostsCome
    <3>2. PICK k : k = posts[i].handle  OBVIOUS
    <3>3. k # 0 => /\ handles'[k].version = handles[k].version
                   /\ handles[k].state = "posted" => handles'[k].state = "posted"
      BY <1>2, <3>1, <3>2
    <3> QED  BY <3>1, <3>2, <3>3
  <2> QED  BY <1>2, <1>3, <2>2, <2>3 DEF PostsCome
<1>5. JobsOut' \subseteq JobsOut
  <2> SUFFICES ASSUME NEW k \in JobsOut' PROVE k \in JobsOut  OBVIOUS
  <2>1. k \in HandleIds /\ Kind \in Jobs /\ handles'[k].state \in {"ready", "working"}
    BY <1>3 DEF JobsOut
  <2>2. k # h  BY <1>2, <2>1
  <2> QED  BY <1>2, <1>3, <2>1, <2>2 DEF JobsOut
<1>6. ASSUME unclear = {}
      PROVE  Twice' = {} /\ (Nothing => Nothing') /\ (Kind \in Jobs => OneJobOut')
  <2>1. Twice = {} /\ (Kind \in Jobs => OneJobOut)  BY <1>6 DEF TruthInv, Unmisled
  <2>2. OneJobOut => LoneJob'
    <3> SUFFICES ASSUME LoneJob, NEW k \in JobsOut'
                 PROVE  handles'[k].version = version /\ MineLive' = {} /\ JobsOut' = {k}
      BY DEF OneJobOut, LoneJob
    <3>1. k \in JobsOut  BY <1>5
    <3>2. k \in HandleIds  BY <1>3, <3>1 DEF JobsOut
    <3>3. handles[k].version = version /\ MineLive = {} /\ JobsOut = {k}  BY <3>1 DEF LoneJob
    <3> QED  BY <1>2, <1>3, <1>5, <3>2, <3>3
  <2>3. OneJobOut => OneJobOut'  BY <1>3, <1>5, <2>2 DEF OneJobOut
  <2> QED  BY <1>3, <1>5, <2>1, <2>3 DEF Nothing
<1>7. Len(posts) <= Len(posts')  BY LenProperties DEF AdapterShape
<1> QED  BY <1>3, <1>4, <1>6, <1>7, PlatformMoves

\* A job posts.
LEMMA JobPosts ==
    ASSUME TruthInv, AdapterShape, AdapterShape', MadeFor,
           NEW h \in HandleIds, handles[h].state = "working", Kind \in Jobs,
           handles' = [handles EXCEPT ![h].state = "posted"],
           posts' = Append(posts, [Post(h) EXCEPT !.wanted = handles[h].version]),
           UNCHANGED <<ware, state, version, ref, claimed, work, tries, unclear>>
    PROVE  TruthInv'
<1>1. "posted" \in HandleStates  BY DEF HandleStates
<1>2. /\ HandleIds' = HandleIds /\ handles'[h].state = "posted" /\ handles'[h].version = handles[h].version
      /\ \A k \in HandleIds : /\ handles'[k].version = handles[k].version
                              /\ k # h => handles'[k].state = handles[k].state
  BY <1>1, HandleMoves
<1>3. h # 0 /\ handles[h].version \in Nat /\ version \in Nat /\ tries \in Nat /\ h \in Nat
      /\ handles[h].version <= version
  BY AdapterElements, LenProperties DEF HandleIds, HandleRecord, AdapterShape, MadeFor
<1>4. PICK p \in PostRecord :
        /\ p = [Post(h) EXCEPT !.wanted = handles[h].version]
        /\ p.version = handles[h].version /\ p.handle = h
  <2>1. PICK v \in Nat : v = handles[h].version  BY <1>3
  <2>2. Post(h) = [version |-> v, wanted |-> version, handle |-> h, try |-> tries,
                   shown |-> FALSE]
    BY <1>3, <2>1 DEF Post
  <2>3. PICK made \in PostRecord : made = Post(h) /\ made.version = v /\ made.handle = h
    <3>1. Post(h) \in PostRecord  BY <1>3, <2>1, <2>2 DEF PostRecord
    <3>2. Post(h).version = v /\ Post(h).handle = h  BY <2>2
    <3> QED  BY <3>1, <3>2
  <2> DEFINE new == [made EXCEPT !.wanted = v]
  <2>4. new \in PostRecord /\ new.version = made.version /\ new.handle = made.handle
    BY <2>1 DEF PostRecord
  <2>5. new = [Post(h) EXCEPT !.wanted = handles[h].version]  BY <2>1, <2>3
  <2> HIDE DEF new
  <2> QED  BY <2>1, <2>3, <2>4, <2>5
<1>5. /\ Len(posts) <= Len(posts') /\ Len(posts') \in PostIds'
      /\ posts'[Len(posts')] = p
      /\ \A i \in PostIds : i \in PostIds' /\ posts'[i] = posts[i]
      /\ \A i \in PostIds' : i = Len(posts') \/ i \in PostIds
      /\ MineLive' \subseteq MineLive \cup {Len(posts')}
      /\ p.version = version /\ MineLive = {} /\ Twice = {} => Twice' = {}
  <2>1. posts' = Append(posts, p)  BY <1>4
  <2> QED  BY <2>1, OneMorePost
<1>6. Kind' = Kind /\ DOMAIN handles' = HandleIds /\ DOMAIN handles = HandleIds
  BY <1>2, DomainsNext, AdapterElements DEF Kind
<1>7. PostsCome'
  <2>1. PostsCome  BY DEF TruthInv
  <2>2. \A k \in HandleIds :
          /\ handles'[k].state = "posted" => \E i \in PostIds' : posts'[i].handle = k
          /\ handles'[k].state # "ready"
    <3> SUFFICES ASSUME NEW k \in HandleIds
                 PROVE  /\ handles'[k].state = "posted" => \E i \in PostIds' : posts'[i].handle = k
                        /\ handles'[k].state # "ready"
      OBVIOUS
    <3>1. CASE k = h  BY <1>2, <1>4, <1>5, <3>1
    <3>2. CASE k # h
      <4>1. /\ handles[k].state = "posted" => \E i \in PostIds : posts[i].handle = k
            /\ handles[k].state # "ready"
        BY <2>1 DEF PostsCome
      <4> QED  BY <1>2, <1>5, <3>2, <4>1
    <3> QED  BY <3>1, <3>2
  <2>3. \A i \in PostIds' :
          /\ posts'[i].handle \in HandleIds /\ posts'[i].version <= version
          /\ posts'[i].handle # 0
          /\ posts'[i].version = handles'[posts'[i].handle].version
          /\ handles'[posts'[i].handle].state = "posted"
    <3> SUFFICES ASSUME NEW i \in PostIds'
                 PROVE  /\ posts'[i].handle \in HandleIds /\ posts'[i].version <= version
                        /\ posts'[i].handle # 0
                        /\ posts'[i].version = handles'[posts'[i].handle].version
                        /\ handles'[posts'[i].handle].state = "posted"
      OBVIOUS
    <3>1. CASE i = Len(posts')  BY <1>2, <1>3, <1>4, <1>5, <3>1
    <3>2. CASE i \in PostIds
      <4>1. /\ posts[i].handle \in {0} \cup HandleIds /\ posts[i].version <= version
            /\ posts[i].handle # 0 => posts[i].version = handles[posts[i].handle].version
            /\ posts[i].handle # 0 /\ handles[posts[i].handle].state = "posted"
        BY <2>1, <3>2 DEF PostsCome
      <4>2. PICK k : k = posts[i].handle  OBVIOUS
      <4>3. k \in HandleIds /\ k # h  BY <4>1, <4>2
      <4>4. handles'[k].version = handles[k].version /\ handles'[k].state = handles[k].state
        BY <1>2, <4>3
      <4>5. posts'[i].handle = k /\ posts'[i].version = posts[i].version  BY <1>5, <3>2, <4>2
      <4> QED  BY <4>1, <4>2, <4>3, <4>4, <4>5
    <3> QED  BY <1>5, <3>1, <3>2
  <2> QED  BY <1>2, <1>6, <2>2, <2>3 DEF PostsCome
<1>8. ASSUME unclear = {}
      PROVE  Twice' = {} /\ (Nothing => Nothing') /\ OneJobOut'
  <2>1. Twice = {} /\ LoneJob /\ OneJobOut  BY <1>8 DEF TruthInv, Unmisled, OneJobOut
  <2>2. h \in JobsOut  BY <1>6 DEF JobsOut
  <2>3. handles[h].version = version /\ MineLive = {} /\ JobsOut = {h}
    BY <2>1, <2>2 DEF LoneJob
  <2>4. Twice' = {} /\ MineLive' \subseteq {Len(posts')}  BY <1>4, <1>5, <2>1, <2>3
  <2>5. JobsOut' = {}
    <3> SUFFICES ASSUME NEW k \in JobsOut' PROVE FALSE  OBVIOUS
    <3>1. k \in HandleIds /\ handles'[k].state \in {"ready", "working"}  BY <1>6 DEF JobsOut
    <3>2. k # h  BY <1>2, <3>1
    <3>3. k \in JobsOut  BY <1>2, <1>6, <3>1, <3>2 DEF JobsOut
    <3> QED  BY <2>3, <3>2, <3>3
  <2>6. work.handle # 0 => work.handle = h  BY <2>1, <2>3 DEF OneJobOut
  <2>7. \A i \in MineLive' : posts'[i].handle = h  BY <1>4, <1>5, <2>4
  <2>8. OneJobOut'
    BY <2>5, <2>6, <2>7 DEF OneJobOut, LoneJob
  <2> QED  BY <2>2, <2>4, <2>8 DEF Nothing
<1> QED  BY <1>5, <1>7, <1>8, PlatformMoves

LEMMA ShowsTruth ==
    ASSUME TruthInv, AdapterShape, AdapterShape', NEW j \in PostIds, PostShows(j)
    PROVE  TruthInv'
<1>1. /\ posts' = [posts EXCEPT ![j].shown = TRUE]
      /\ UNCHANGED <<ware, state, version, ref, handles, claimed, work, tries, unclear>>
  BY DEF PostShows
<1>2. posts[j] \in PostRecord  BY AdapterElements
<1>3. PICK row \in PostRecord :
        /\ row = [posts[j] EXCEPT !.shown = TRUE]
        /\ row.version = posts[j].version /\ row.handle = posts[j].handle
        /\ row.try = posts[j].try
  <2> DEFINE new == [posts[j] EXCEPT !.shown = TRUE]
  <2>1. /\ new \in PostRecord /\ new.version = posts[j].version
        /\ new.handle = posts[j].handle /\ new.try = posts[j].try
    BY <1>2 DEF PostRecord
  <2> HIDE DEF new
  <2> QED  BY <2>1 DEF new
<1>4. /\ PostIds' = PostIds /\ posts'[j] = row
      /\ \A i \in PostIds : i # j => posts'[i] = posts[i]
  <2>1. posts' = [posts EXCEPT ![j] = row]  BY <1>1, <1>3
  <2> QED  BY <2>1, PostRow
<1>5. \A i \in PostIds : /\ posts'[i].version = posts[i].version
                         /\ posts'[i].handle = posts[i].handle
                         /\ posts'[i].try = posts[i].try
  BY <1>3, <1>4
<1>6. /\ HandleIds' = HandleIds /\ Kind' = Kind
      /\ DOMAIN posts' = PostIds /\ DOMAIN posts = PostIds
  BY <1>1, <1>4, DomainsNext, AdapterElements DEF HandleIds, Kind
<1>7. MineLive' = MineLive /\ Twice' = Twice /\ JobsOut' = JobsOut
  BY <1>1, <1>5, <1>6 DEF MineLive, Twice, JobsOut
<1>8. PostsCome'
  BY <1>1, <1>4, <1>5, <1>6 DEF TruthInv, PostsCome
<1>9. ASSUME unclear = {}
      PROVE  /\ Twice' = {} /\ (Nothing => Nothing')
             /\ \A i \in MineLive' : i \in MineLive /\ i \in PostIds
             /\ Kind \in Jobs => OneJobOut'
  <2>1. Twice = {} /\ (Kind \in Jobs => OneJobOut)  BY <1>9 DEF TruthInv, Unmisled
  <2>2. \A i \in MineLive : i \in PostIds  BY <1>6 DEF MineLive
  <2>3. LoneJob => LoneJob'  BY <1>1, <1>7 DEF LoneJob
  <2>4. OneJobOut => OneJobOut'  BY <1>1, <1>5, <1>7, <2>2, <2>3 DEF OneJobOut
  <2> QED  BY <1>7, <2>1, <2>2, <2>4 DEF Nothing
<1>10. Len(posts) <= Len(posts')
  BY <1>1, <1>4, <1>6, DomainsNext, LenProperties DEF AdapterShape, PostIds
<1> QED  BY <1>1, <1>5, <1>8, <1>9, <1>10, PlatformMoves

LEMMA PlatformTruth ==
    ASSUME TruthInv, AdapterInv, AdapterShape',
           \/ \E h \in DOMAIN handles : HandleFinishes(h) \/ HandleSpoils(h)
           \/ \E i \in DOMAIN posts : PostShows(i)
    PROVE  TruthInv'
<1>1. AdapterShape /\ MadeFor /\ DOMAIN handles = HandleIds /\ DOMAIN posts = PostIds
  BY AdapterElements DEF AdapterInv
<1>2. ASSUME NEW h \in HandleIds, HandleFinishes(h) PROVE TruthInv'
  <2>1. CASE Kind \in Jobs  BY <1>1, <1>2, <2>1, JobPosts DEF HandleFinishes
  <2>2. CASE Kind \notin Jobs
    <3>1. /\ handles[h].state # "posted" /\ handles' = [handles EXCEPT ![h].state = "ready"]
          /\ UNCHANGED <<ware, state, version, ref, posts, claimed, work, tries, unclear>>
      BY <1>2, <2>2 DEF HandleFinishes
    <3> QED  BY <1>1, <2>2, <3>1, HandleTruth
  <2> QED  BY <2>1, <2>2
<1>3. ASSUME NEW h \in HandleIds, HandleSpoils(h) PROVE TruthInv'
  <2>1. PICK how \in Useless :
        /\ handles[h].state # "posted" /\ handles' = [handles EXCEPT ![h].state = how]
        /\ UNCHANGED <<ware, state, version, ref, posts, claimed, work, tries, unclear>>
    BY <1>3 DEF HandleSpoils, Useless
  <2>2. how \in {"ready", "spoilt", "expired"} /\ how # "ready"  BY <2>1 DEF Useless
  <2> QED  BY <1>1, <2>1, <2>2, HandleTruth
<1>4. ASSUME NEW i \in PostIds, PostShows(i) PROVE TruthInv'
  BY <1>1, <1>4, ShowsTruth
<1> QED  BY <1>1, <1>2, <1>3, <1>4

LEMMA TruthStutters ==
    ASSUME TruthInv, UNCHANGED adapterVars
    PROVE  TruthInv'
<1>1. UNCHANGED <<ware, state, version, ref, handles, posts, claimed, work, tries, unclear>>
  BY DEF adapterVars
<1>2. AdaptersTypeOK'  BY <1>1 DEF TruthInv, AdaptersTypeOK, InProgress
<1>3. OnPlan' /\ (state' # "draft" => ware' \in Wares) /\ ClaimIsTrue'
  BY <1>1, GroundKept DEF TruthInv, OnPlan, ClaimIsTrue
<1>4. PostsCome'  BY <1>1, GroundKept DEF TruthInv
<1>5. Unmisled'
  <2>1. Kind' = Kind /\ MineLive' = MineLive /\ JobsOut' = JobsOut /\ Twice' = Twice
    BY <1>1, GroundKept
  <2>2. Nothing => Nothing'  BY <2>1 DEF Nothing
  <2>3. OneJobOut => OneJobOut'  BY <1>1, <2>1 DEF OneJobOut, LoneJob
  <2> QED  BY <1>1, <2>1, <2>2, <2>3 DEF TruthInv, Unmisled
<1> QED  BY <1>1, <1>2, <1>3, <1>4, <1>5 DEF TruthInv

LEMMA TruthStep ==
    ASSUME TruthInv, Signed, AdapterInv, AdapterInv', [AdaptersNext]_adapterVars
    PROVE  TruthInv'
<1>1. AdapterShape /\ AdapterShape' /\ MadeFor  BY DEF AdapterInv
<1>2. CASE UNCHANGED adapterVars  BY <1>2, TruthStutters
<1>3. ASSUME NEW w \in Wares, Schedule(w) PROVE TruthInv'  BY <1>3, ScheduleTruth
<1>4. CASE EditWare  BY <1>4, EditTruth
<1>5. CASE RetryWare \/ \E yes \in BOOLEAN : AnswerParked(yes)  BY <1>1, <1>5, PersonTruth
<1>6. CASE BeginAttempt  BY <1>1, <1>6, BeginTruth
<1>7. CASE PreflightRefuses \/ Record \/ RecordFails
  BY <1>1, <1>7, PreflightTruth, RecordTruth, RecordFailsTruth
<1>8. CASE CallAnswered  BY <1>8, AnsweredTruth
<1>9. CASE AwaitReady \/ AwaitFails \/ AwaitRunsOut  BY <1>1, <1>9, AwaitTruth
<1>10. CASE JobSettled \/ JobFailed \/ JobRunsOut \/ AttemptDies \/ KeyTaken
  BY <1>1, <1>10, SettledTruth, JobFailedTruth, AsksTruth
<1>11. CASE CallRefused \/ CallUnavailable \/ CallLost
  BY <1>1, <1>11, RefusedTruth, UnavailableTruth, LostTruth
<1>12. CASE ReconcileAnswered \/ ReconcileUnread
  BY <1>1, <1>12, ReconcileTruth
<1>13. CASE \/ \E h \in DOMAIN handles : HandleFinishes(h) \/ HandleSpoils(h)
            \/ \E i \in DOMAIN posts : PostShows(i)
  BY <1>1, <1>13, PlatformTruth
<1> QED
  BY <1>2, <1>3, <1>4, <1>5, <1>6, <1>7, <1>8, <1>9, <1>10, <1>11, <1>12, <1>13
  DEF AdaptersNext

----------------------------------------------------------------------------
(* What X was sent is what it is asked for.                                *)

\* An attempt goes on, ends, or is asked about, and its post was signed.
LEMMA SignedKept ==
    ASSUME Signed, UNCHANGED <<ware, version>>,
           ref'.version = version \/ UNCHANGED ref,
           Kind \in XPosts /\ MineLive' # {} => MineLive # {} \/ NextIs("publish"),
           \/ work' = Idle
           \/ work # Idle /\ work'.todo = work.todo
           \/ /\ work # Idle /\ work'.todo = Tail(work.todo) /\ work.todo \in XPlans
              /\ work.todo = <<"sign", "publish">> => ref'.version = version
    PROVE  Signed'
<1> SUFFICES ASSUME Kind \in XPosts
             PROVE  /\ MineLive' # {} => ref'.version = version
                    /\ work' # Idle => \/ work'.todo \in XPlans
                                       \/ work'.todo = <<"publish">> /\ ref'.version = version
  BY DEF Signed, Kind
<1>1. /\ MineLive # {} => ref.version = version
      /\ work # Idle => \/ work.todo \in XPlans
                        \/ work.todo = <<"publish">> /\ ref.version = version
  BY DEF Signed
<1>2. NextIs("publish") => ref.version = version
  <2>1. \A s \in XPlans : Head(s) # "publish"  BY DEF XPlans
  <2> QED  BY <1>1, <2>1, NextIsInProgress DEF NextIs
<1>3. ref.version = version => ref'.version = version  OBVIOUS
<1>4. \A s \in XPlans : \/ Tail(s) \in XPlans
                        \/ s = <<"sign", "publish">> /\ Tail(s) = <<"publish">>
  <2>1. /\ Tail(<<"create", "record", "await", "sign", "publish">>)
             = <<"record", "await", "sign", "publish">>
        /\ Tail(<<"record", "await", "sign", "publish">>) = <<"await", "sign", "publish">>
        /\ Tail(<<"await", "sign", "publish">>) = <<"sign", "publish">>
        /\ Tail(<<"sign", "publish">>) = <<"publish">>
    OBVIOUS
  <2> QED  BY <2>1 DEF XPlans
<1> QED  BY <1>1, <1>2, <1>3, <1>4

LEMMA XPlanGoesOn ==
    ASSUME Signed, Kind \in XPosts, NEW step \in CallSteps \ {"publish"}, NextIs(step)
    PROVE  work # Idle /\ work.todo \in XPlans /\ (work.todo = <<"sign", "publish">> <=> step = "sign")
<1>1. Head(<<"publish">>) = "publish"  OBVIOUS
<1>2. \A s \in XPlans : s = <<"sign", "publish">> <=> Head(s) = "sign"  BY DEF XPlans
<1> QED  BY <1>1, <1>2, NextIsInProgress DEF Signed, NextIs

\* Posts are made, of X, by the call that posts, and no call else.
LEMMA XPostsCome ==
    ASSUME AdapterInv, Kind \in XPosts, UNCHANGED version, Lands \/ UNCHANGED <<handles, posts>>
    PROVE  MineLive' # {} => MineLive # {} \/ NextIs("publish")
<1>1. posts' = posts \/ NextIs("publish")  BY DEF Lands
<1>2. posts' = posts => MineLive' = MineLive  BY DEF MineLive
<1> QED  BY <1>1, <1>2

LEMMA SignedStep ==
    ASSUME Signed, TruthInv, AdapterInv, AdapterInv', [AdaptersNext]_adapterVars
    PROVE  Signed'
<1> USE DEF AdapterInv
<1>1. UNCHANGED posts /\ UNCHANGED version => MineLive' = MineLive  BY DEF MineLive
<1>2. ASSUME NEW w \in Wares, Schedule(w) PROVE Signed'
  <2>1. work' = Idle /\ DOMAIN posts' = {}  BY <1>2 DEF Schedule, AtRest
  <2> QED  BY <2>1 DEF Signed, MineLive
<1>3. CASE EditWare
  <2>1. /\ work' = Idle /\ version' = version + 1 /\ UNCHANGED posts /\ version \in Nat
    BY <1>3 DEF EditWare, AtRest, AdapterShape
  <2>2. \A i \in DOMAIN posts : posts[i].version \in Nat /\ posts[i].version <= version
    BY AdapterElements DEF PostRecord, TruthInv, PostsCome
  <2>3. MineLive' = {}  BY <2>1, <2>2 DEF MineLive
  <2> QED  BY <2>1, <2>3 DEF Signed
<1>4. CASE RetryWare \/ \E yes \in BOOLEAN : AnswerParked(yes)
  <2>1. work' = Idle /\ UNCHANGED <<ware, version, ref, posts>>
    BY <1>4 DEF RetryWare, AnswerParked, AtRest
  <2> QED  BY <1>1, <2>1, SignedKept
<1>5. CASE BeginAttempt
  <2>1. /\ state = "scheduled" /\ work'.todo = StillToDo(Resumes)
        /\ UNCHANGED <<ware, version, ref, posts>>
    BY <1>5 DEF BeginAttempt
  <2>2. Kind \in XPosts => StillToDo(Resumes) \in XPlans
    BY DEF StillToDo, XPosts, Calls, XCalls, XPlans, Resumes, Resumable, Containers, Instagram, Media
  <2> QED  BY <1>1, <2>1, <2>2 DEF Signed, Kind
<1>6. CASE PreflightRefuses \/ RecordFails \/ AwaitFails \/ AwaitRunsOut \/ JobSettled \/ JobFailed
           \/ KeyTaken \/ ReconcileAnswered \/ ReconcileUnread
  <2>1. work' = Idle /\ UNCHANGED <<ware, version, ref, posts>>
    BY <1>6 DEF PreflightRefuses, RecordFails, AwaitFails, AwaitRunsOut, JobSettled, JobFailed,
       KeyTaken, ReconcileAnswered, ReconcileUnread, Verdict, Ends
  <2> QED  BY <1>1, <2>1, SignedKept
<1>7. CASE JobRunsOut \/ AttemptDies \/ CallLost
  <2>1. /\ work # Idle /\ work' = [work EXCEPT !.asking = TRUE]
        /\ UNCHANGED <<ware, version, ref>>
        /\ Lands \/ UNCHANGED <<handles, posts>>
    BY <1>7, NextIsInProgress
    DEF JobRunsOut, AttemptDies, CallLost, WhenLost, Ask, InProgress, OnTheWire, DoesNot
  <2>2. work'.todo = work.todo  BY <2>1 DEF AdapterShape
  <2> QED  BY <2>1, <2>2, XPostsCome, SignedKept
<1>8. CASE CallRefused \/ CallUnavailable
  <2>1. work' = Idle /\ UNCHANGED <<ware, version, ref>> /\ (Lands \/ UNCHANGED <<handles, posts>>)
    BY <1>8 DEF CallRefused, CallUnavailable, Ends, DoesNot
  <2> QED  BY <2>1, XPostsCome, SignedKept
<1>9. CASE Record \/ AwaitReady
  <2>1. PICK step \in {"record", "sign", "await"} :
          /\ NextIs(step) /\ work' = [work EXCEPT !.todo = Tail(@)]
          /\ UNCHANGED <<ware, version, posts>>
          /\ step = "await" => UNCHANGED ref
          /\ step # "await" => ref'.version = version
    BY <1>9 DEF Record, AwaitReady, GoesAhead
  <2>2. work'.todo = Tail(work.todo)  BY <2>1 DEF AdapterShape
  <2>3. CASE Kind \in XPosts
    <3>1. work # Idle /\ work.todo \in XPlans /\ (work.todo = <<"sign", "publish">> <=> step = "sign")
      BY <2>1, <2>3, XPlanGoesOn DEF CallSteps
    <3> QED  BY <1>1, <2>1, <2>2, <3>1, SignedKept
  <2>4. CASE Kind \notin XPosts  BY <2>1, <2>4 DEF Signed, Kind
  <2> QED  BY <2>3, <2>4
<1>10. CASE CallAnswered
  <2>1. Lands /\ UNCHANGED <<ware, version, ref>>  BY <1>10 DEF CallAnswered
  <2>2. CASE Kind \notin XPosts  BY <2>1, <2>2 DEF Signed, Kind
  <2>3. CASE Kind \in XPosts /\ work' = Idle  BY <2>1, <2>3, XPostsCome, SignedKept
  <2>4. CASE Kind \in XPosts /\ work' # Idle
    <3>1. PICK step \in {"create", "upload", "publish"} : NextIs(step)  BY <2>1 DEF Lands
    <3>2. step = "publish" => Tail(work.todo) = <<>>
      <4>1. Kind \notin Jobs  BY <2>4 DEF XPosts, Jobs
      <4> QED  BY <3>1, <4>1, NextOnPlan DEF TruthInv
    <3>3. step # "publish" /\ work'.todo = Tail(work.todo)
      BY <1>10, <2>4, <3>1, <3>2 DEF CallAnswered, Ends, AdapterShape, NextIs
    <3>4. work # Idle /\ work.todo \in XPlans /\ (work.todo = <<"sign", "publish">> <=> step = "sign")
      BY <2>4, <3>1, <3>3, XPlanGoesOn DEF CallSteps
    <3> QED  BY <2>1, <2>4, <3>1, <3>3, <3>4, XPostsCome, SignedKept
  <2> QED  BY <2>2, <2>3, <2>4
<1>11. ASSUME NEW h \in DOMAIN handles, HandleFinishes(h) \/ HandleSpoils(h) PROVE Signed'
  <2>1. UNCHANGED <<ware, version, ref, work>> /\ (Kind \in XPosts => UNCHANGED posts)
    BY <1>11 DEF HandleFinishes, HandleSpoils, XPosts, Jobs
  <2> QED  BY <1>1, <2>1 DEF Signed, Kind
<1>12. ASSUME NEW i \in DOMAIN posts, PostShows(i) PROVE Signed'
  <2>1. /\ UNCHANGED <<ware, version, ref, work>> /\ posts' = [posts EXCEPT ![i].shown = TRUE]
        /\ i \in PostIds /\ posts[i] \in PostRecord
    BY <1>12, AdapterElements DEF PostShows
  <2>2. DOMAIN posts' = DOMAIN posts /\ \A j \in DOMAIN posts : posts'[j].version = posts[j].version
    BY <2>1, AdapterElements DEF PostRecord
  <2>3. MineLive' = MineLive  BY <2>1, <2>2 DEF MineLive
  <2> QED  BY <2>1, <2>3 DEF Signed, Kind
<1>13. CASE UNCHANGED adapterVars  BY <1>1, <1>13 DEF adapterVars, Signed, Kind
<1> QED
  BY <1>2, <1>3, <1>4, <1>5, <1>6, <1>7, <1>8, <1>9, <1>10, <1>11, <1>12, <1>13 DEF AdaptersNext

----------------------------------------------------------------------------
\* With what is known of handles and references, they are inductive together.
LEMMA TruthInvariant == AdaptersSpec => [](TruthInv /\ Signed)
<1>1. AdaptersInit => TruthInv /\ Signed
  BY TruthInitial DEF AdaptersInit, Signed, MineLive
<1>2. TruthInv /\ Signed /\ AdapterInv /\ AdapterInv' /\ [AdaptersNext]_adapterVars
          => TruthInv' /\ Signed'
  BY TruthStep, SignedStep
<1> QED  BY <1>1, <1>2, AdapterInvariant, PTL DEF AdaptersSpec

\* An attempt is in progress exactly while the variant is publishing, and what
\* is recorded as its post or its handle exists (the variant's platform id and
\* providerRef).
THEOREM AdapterTypeCorrect == AdaptersSpec => []AdaptersTypeOK
<1>1. TruthInv => AdaptersTypeOK  BY DEF TruthInv
<1> QED  BY <1>1, TruthInvariant, PTL

\* On all nine platforms, whatever is lost, refused or repeated and wherever
\* the process dies: a content is public twice, or public while its variant is
\* FAILED or SCHEDULED again, only after something no reconcile() can see; the
\* post recorded for a variant is its own, unless an older content's was public
\* to be mistaken for it or was the recorded handle's (provider.ts of each).
THEOREM NothingLeadsAstray == AdaptersSpec => []TrueUnlessMisled
<1>1. TruthInv => TrueUnlessMisled
  <2> SUFFICES ASSUME TruthInv PROVE TrueUnlessMisled  OBVIOUS
  <2>1. /\ Twice # {} => unclear # {}
        /\ state \in {"failed", "scheduled"} /\ MineLive # {} => unclear # {}
    BY DEF TruthInv, Unmisled, Nothing
  <2>2. state = "published" => /\ claimed # 0
                               /\ \/ posts[claimed].version = version
                                  \/ unclear \cap {"stale", "alike"} # {}
    BY DEF TruthInv, ClaimIsTrue
  <2> QED  BY <2>1, <2>2 DEF TrueUnlessMisled
<1> QED  BY <1>1, TruthInvariant, PTL
=============================================================================
