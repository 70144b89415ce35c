---------------------------- MODULE MediaLibrary ----------------------------
(***************************************************************************)
(* One file of the media library: presign, upload, completeMediaUpload,    *)
(* deleteMediaAsset, and what posts and the publisher do with the asset.   *)
(* A request reads, works and writes in transactions of its own, or in     *)
(* statements of one that takes no lock, so requests meet in between.      *)
(* External: the object store and the browser's PUT.                       *)
(***************************************************************************)
EXTENDS Naturals, FiniteSets

CONSTANTS
    Completions,        \* requests that complete the upload
    LibraryPosts,       \* posts the file may be attached to
    MaxMediaTrouble     \* bound: storage or database errors, requests that die

ASSUME MediaAssumption == MaxMediaTrouble \in Nat

VARIABLES
    asset,        \* the MediaAsset row
    object,       \* what is in the bucket: a file that passes the checks or not
    urlOpen,      \* is the presigned URL still good?
    completing,   \* what each completion does
    attached,     \* PostMedia: the posts the file is attached to
    attaching,    \* posts whose edit found the asset READY and has not written
    deleting,     \* a deletion found it attached nowhere and has not written
    handed,       \* what the publisher's URL gave the platform
    crossed,      \* for the properties: two requests met in between
    putAgain,     \* and a file was put after a completion had begun
    mediaTrouble

mediaVars == <<asset, object, urlOpen, completing, attached, attaching, deleting,
               handed, crossed, putAgain, mediaTrouble>>

Contents == {"fit", "unfit"}

MediaInit ==
    /\ asset = [status |-> "none", deleted |-> FALSE]
    /\ object = "none" /\ urlOpen = FALSE
    /\ completing = [c \in Completions |-> "idle"]
    /\ attached = {} /\ attaching = {} /\ deleting = FALSE
    /\ handed = "nothing" /\ crossed = FALSE /\ putAgain = FALSE /\ mediaTrouble = 0

MediaTrouble == mediaTrouble < MaxMediaTrouble /\ mediaTrouble' = mediaTrouble + 1
Quietly == UNCHANGED mediaTrouble
ElsewhereCompleting(c) == \E d \in Completions \ {c} : completing[d] # "idle"
Examined == asset.status # "PENDING" \/ \E c \in Completions : completing[c] # "idle"

----------------------------------------------------------------------------
PresignMediaUpload ==
    /\ asset.status = "none"
    /\ asset' = [asset EXCEPT !.status = "PENDING"] /\ urlOpen' = TRUE
    /\ UNCHANGED <<object, completing, attached, attaching, deleting, handed, crossed,
                   putAgain, mediaTrouble>>

\* The URL signs the key, the type and the length, for 900 seconds and whatever
\* becomes of the row meanwhile: the file may be put again, or another like it,
\* also when it was verified, attached or erased.
UploadFile(content) ==
    /\ urlOpen /\ object' = content
    /\ putAgain' = (putAgain \/ Examined)
    /\ UNCHANGED <<asset, urlOpen, completing, attached, attaching, deleting, handed,
                   crossed, mediaTrouble>>

UrlExpires ==
    /\ urlOpen /\ urlOpen' = FALSE
    /\ UNCHANGED <<asset, object, completing, attached, attaching, deleting, handed,
                   crossed, putAgain, mediaTrouble>>

\* Completing a READY asset again changes nothing; a REJECTED one is refused.
BeginCompletion(c) ==
    /\ completing[c] = "idle" /\ asset.status = "PENDING" /\ ~asset.deleted
    /\ completing' = [completing EXCEPT ![c] = "verify"]
    /\ crossed' = (crossed \/ ElsewhereCompleting(c))
    /\ UNCHANGED <<asset, object, urlOpen, attached, attaching, deleting, handed,
                   putAgain, mediaTrouble>>

\* verifyUploadedObject; its reads of the object are taken as one.
FileIsFit == object = "fit"

VerifyUpload(c) ==
    /\ completing[c] = "verify"
    /\ \/ FileIsFit /\ Quietly /\ completing' = [completing EXCEPT ![c] = "accept"]
       \/ ~FileIsFit /\ Quietly /\ completing' = [completing EXCEPT ![c] = "reject"]
       \/ MediaTrouble /\ completing' = [completing EXCEPT ![c] = "reject"]
    /\ UNCHANGED <<asset, object, urlOpen, attached, attaching, deleting, handed,
                   crossed, putAgain>>

\* The transaction that makes it READY may fail, or fail to say it succeeded:
\* either way the handler rejects the upload.
AcceptUpload(c) ==
    /\ completing[c] = "accept"
    /\ \/ /\ asset' = [asset EXCEPT !.status = "READY"] /\ Quietly
          /\ completing' = [completing EXCEPT ![c] = "idle"]
       \/ /\ MediaTrouble
          /\ \/ UNCHANGED asset
             \/ asset' = [asset EXCEPT !.status = "READY"]
          /\ completing' = [completing EXCEPT ![c] = "reject"]
    /\ crossed' = (crossed \/ (asset'.status = "READY" /\ completing'[c] = "reject"))
    /\ UNCHANGED <<object, urlOpen, attached, attaching, deleting, handed, putAgain>>

RejectUpload(c) ==
    /\ completing[c] = "reject"
    /\ \/ /\ asset' = [asset EXCEPT !.status = "REJECTED"] /\ Quietly
          /\ completing' = [completing EXCEPT ![c] = "erase"]
       \/ /\ MediaTrouble /\ UNCHANGED asset
          /\ completing' = [completing EXCEPT ![c] = "idle"]
    /\ UNCHANGED <<object, urlOpen, attached, attaching, deleting, handed, crossed,
                   putAgain>>

\* A deletion that fails is logged.
EraseUpload(c) ==
    /\ completing[c] = "erase"
    /\ \/ object' = "none" /\ Quietly
       \/ MediaTrouble /\ UNCHANGED object
    /\ completing' = [completing EXCEPT ![c] = "idle"]
    /\ UNCHANGED <<asset, urlOpen, attached, attaching, deleting, handed, crossed,
                   putAgain>>

CompletionDies(c) ==
    /\ completing[c] # "idle" /\ MediaTrouble
    /\ completing' = [completing EXCEPT ![c] = "idle"]
    /\ UNCHANGED <<asset, object, urlOpen, attached, attaching, deleting, handed,
                   crossed, putAgain>>

----------------------------------------------------------------------------
\* Mutant: anything that was uploaded may be attached.
AttachableOnceSent == asset.status \in {"PENDING", "READY"} /\ ~asset.deleted
Attachable == asset.status = "READY" /\ ~asset.deleted

FindMedia(p) ==
    /\ p \notin attached \cup attaching /\ Attachable
    /\ attaching' = attaching \cup {p}
    /\ crossed' = (crossed \/ deleting)
    /\ UNCHANGED <<asset, object, urlOpen, completing, attached, deleting, handed,
                   putAgain, mediaTrouble>>

AttachMedia(p) ==
    /\ p \in attaching
    /\ attaching' = attaching \ {p} /\ attached' = attached \cup {p}
    /\ UNCHANGED <<asset, object, urlOpen, completing, deleting, handed, crossed,
                   putAgain, mediaTrouble>>

\* duplicatePost copies the attachments of a post as they are.
CopyMedia(p, q) ==
    /\ p \in attached /\ q \notin attached \cup attaching
    /\ attached' = attached \cup {q}
    /\ crossed' = (crossed \/ deleting)
    /\ UNCHANGED <<asset, object, urlOpen, completing, attaching, deleting, handed,
                   putAgain, mediaTrouble>>

DetachMedia(p) ==
    /\ p \in attached /\ attached' = attached \ {p}
    /\ UNCHANGED <<asset, object, urlOpen, completing, attaching, deleting, handed,
                   crossed, putAgain, mediaTrouble>>

\* Mutant: attachments are not counted.
DeletableAnyway == asset.status # "none" /\ ~asset.deleted
Deletable == asset.status # "none" /\ ~asset.deleted /\ attached = {}

CountAttachments ==
    /\ Deletable /\ ~deleting
    /\ deleting' = TRUE
    /\ crossed' = (crossed \/ attaching # {})
    /\ UNCHANGED <<asset, object, urlOpen, completing, attached, attaching, handed,
                   putAgain, mediaTrouble>>

DeleteMediaAsset ==
    /\ deleting /\ deleting' = FALSE
    /\ asset' = [asset EXCEPT !.deleted = TRUE]
    /\ UNCHANGED <<object, urlOpen, completing, attached, attaching, handed,
                   crossed, putAgain, mediaTrouble>>

----------------------------------------------------------------------------
\* resolveSubject: an attachment that is not READY stops the publication; the
\* platform is given a URL of what is in the bucket now.
ServeMedia(p) ==
    /\ p \in attached /\ asset.status = "READY"
    /\ handed' = IF object = "none" THEN "broken" ELSE object
    /\ UNCHANGED <<asset, object, urlOpen, completing, attached, attaching,
                   deleting, crossed, putAgain, mediaTrouble>>

MediaNext ==
    \/ PresignMediaUpload \/ UrlExpires \/ CountAttachments \/ DeleteMediaAsset
    \/ \E content \in Contents : UploadFile(content)
    \/ \E c \in Completions :
           \/ BeginCompletion(c) \/ VerifyUpload(c) \/ AcceptUpload(c)
           \/ RejectUpload(c) \/ EraseUpload(c) \/ CompletionDies(c)
    \/ \E p \in LibraryPosts :
           FindMedia(p) \/ AttachMedia(p) \/ DetachMedia(p) \/ ServeMedia(p)
    \/ \E p, q \in LibraryPosts : CopyMedia(p, q)

MediaSpec == MediaInit /\ [][MediaNext]_mediaVars

----------------------------------------------------------------------------
(* Properties.                                                             *)

\* A row that is REJECTED has a completion that rejected it behind it, and a
\* completion under way was begun on a row that exists.
MediaTypeOK ==
    /\ asset.status \in {"none", "PENDING", "READY", "REJECTED"}
    /\ attached \subseteq LibraryPosts /\ attaching \subseteq LibraryPosts \ attached
    /\ object \in Contents \cup {"none"} /\ handed \in Contents \cup {"nothing", "broken"}
    /\ asset.status = "none" => /\ object = "none" /\ ~urlOpen /\ attached = {}
                                /\ \A c \in Completions : completing[c] = "idle"
    /\ asset.status = "REJECTED" \/ \A c \in Completions : completing[c] # "erase" \/ crossed

\* What a post has attached stands: READY, not deleted, its bytes in the bucket,
\* unless two requests met between their reads and their writes; only then does
\* a platform find nothing at the URL it was given.  And whatever met, a file
\* that fails the checks reaches a platform only if it was put under the URL,
\* which stays good, after a completion had begun to look.
AttachedStands ==
    /\ attached # {} /\ ~crossed =>
           asset.status = "READY" /\ ~asset.deleted /\ object # "none"
    /\ handed = "broken" => crossed
    /\ handed = "unfit" => putAgain
=============================================================================
