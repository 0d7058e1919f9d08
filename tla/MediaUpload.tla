----------------------------- MODULE MediaUpload -----------------------------
(***************************************************************************)
(* Media files of one character, kept in an object store beside the        *)
(* database: upload, attachment, publication and garbage collection        *)
(* (content/character/service/media.py and workflow/media.py,              *)
(* media_cleanup.py).                                                      *)
(*                                                                         *)
(* Row and object cannot change together, so every change of the store is  *)
(* reserved in a committed row first and made under the lock of that row.  *)
(* A process that loses its database connection loses its locks, while a   *)
(* call it has made may still reach the store: such calls are in `late`.   *)
(***************************************************************************)
EXTENDS FiniteSets

CONSTANTS
    Media,     \* upload requests, each with its row and its object
    Clients,   \* requests of the owner in progress at the same time
    Cleaners,  \* media_cleanup processes
    NoActor

ASSUME MediaAssumption == NoActor \notin Clients \cup Cleaners

VARIABLES
    character,      \* the character exists
    characterLock,  \* the client that holds its row
    media,          \* the character_media rows
    mediaLock,      \* who holds each row FOR UPDATE
    object,         \* what the store holds
    draftMedia,     \* media of the character's images and assets
    snapshots,      \* media of published snapshots
    actor,          \* the step of every client and cleaner
    late,           \* calls in flight whose caller is gone
    revived         \* history variable: rows taken back from deletion

mediaVars == <<character, characterLock, media, mediaLock, object, draftMedia, snapshots,
          actor, late, revived>>

Actors == Clients \cup Cleaners
IdleActor == [at |-> "idle", media |-> {}]
NoRow == [state |-> "absent", recent |-> FALSE, bound |-> FALSE]

MediaInit ==
    /\ character = TRUE
    /\ characterLock = NoActor
    /\ media = [m \in Media |-> NoRow]
    /\ mediaLock = [m \in Media |-> NoActor]
    /\ object = [m \in Media |-> FALSE]
    /\ draftMedia = {}
    /\ snapshots = {}
    /\ actor = [a \in Actors |-> IdleActor]
    /\ late = {}
    /\ revived = {}

At(a, step) == actor[a].at = step
Goto(a, step, S) == actor' = [actor EXCEPT ![a] = [at |-> step, media |-> S]]
Return(a) == actor' = [actor EXCEPT ![a] = IdleActor]

\* _get_owned_character: the row exists and nobody holds it.
CharacterFree == character /\ characterLock = NoActor
RowFree(m) == mediaLock[m] = NoActor

\* The end of a transaction releases what it locked.
ReleaseAll(a) ==
    /\ characterLock' = IF characterLock = a THEN NoActor ELSE characterLock
    /\ mediaLock' = [m \in Media |-> IF mediaLock[m] = a THEN NoActor ELSE mediaLock[m]]

locks == <<characterLock, mediaLock>>
references == <<draftMedia, snapshots>>

-----------------------------------------------------------------------------
(* upload_character_media *)

\* reserve_upload, but for the end of a retry: the row is read without its lock.
ReserveUpload(c) ==
    /\ At(c, "idle")
    /\ CharacterFree
    /\ \E m \in Media :
         /\ media' = IF media[m].state = "absent"
                     THEN [media EXCEPT ![m].state = "pending", ![m].recent = TRUE]
                     ELSE media
         /\ IF media[m].state = "pending"
            THEN Goto(c, "touch", {m}) /\ characterLock' = c
            ELSE Goto(c, "lock", {m}) /\ UNCHANGED characterLock
    /\ UNCHANGED <<character, mediaLock, object, references, late, revived>>

\* Faulty: a retry keeps the time of the first attempt.
TouchedNot(row) == [row EXCEPT !.state = "pending"]

\* set_media_state: onupdate sets the time.
Touched(row) == [row EXCEPT !.state = "pending", !.recent = TRUE]

\* The UPDATE of a retry waits for the row and does not look at it again.
TouchReservation(c) ==
    /\ At(c, "touch")
    /\ \E m \in actor[c].media :
         /\ RowFree(m)
         /\ media' = [media EXCEPT ![m] = Touched(@)]
         /\ revived' = IF media[m].state \in {"deleting", "deleted"}
                       THEN revived \cup {m} ELSE revived
         /\ Goto(c, "lock", {m})
    /\ ReleaseAll(c)
    /\ UNCHANGED <<character, object, references, late>>

\* Faulty: a row is only refused when its object is gone.
UploadableUntilDeleted(m) == media[m].state \in {"pending", "deleting"}

Uploadable(m) == media[m].state = "pending"

\* lock_upload: character and row stay locked while the object is stored.
LockUpload(c) ==
    /\ At(c, "lock")
    /\ characterLock = NoActor
    /\ \E m \in actor[c].media :
         /\ RowFree(m)
         /\ IF character /\ Uploadable(m)
            THEN /\ characterLock' = c
                 /\ mediaLock' = [mediaLock EXCEPT ![m] = c]
                 /\ Goto(c, "store", {m})
            ELSE Return(c) /\ UNCHANGED locks
    /\ UNCHANGED <<character, media, object, references, late, revived>>

\* store_asset: an error or a cancelled request may leave the object behind.
StoreObject(c) ==
    /\ At(c, "store")
    /\ \E m \in actor[c].media, ok \in BOOLEAN :
         /\ object' \in {[object EXCEPT ![m] = TRUE]} \cup (IF ok THEN {} ELSE {object})
         /\ IF ok THEN Goto(c, "complete", {m}) /\ UNCHANGED locks
            ELSE Return(c) /\ ReleaseAll(c)
    /\ UNCHANGED <<character, media, references, late, revived>>

\* complete_upload; its commit may fail.
CompleteUpload(c) ==
    /\ At(c, "complete")
    /\ \E m \in actor[c].media :
         media' \in {media, [media EXCEPT ![m].state = "ready", ![m].recent = TRUE]}
    /\ Return(c)
    /\ ReleaseAll(c)
    /\ UNCHANGED <<character, object, references, late, revived>>

-----------------------------------------------------------------------------
(* The character that uses the media *)

\* Faulty: an attachment that was removed may be made again.
MayAttachAgain(m) == media[m].state = "ready" /\ m \notin draftMedia

\* _attach_character_media of a media that is not attached yet
MayAttach(m) == media[m].state = "ready" /\ ~media[m].bound

Attach(m) ==
    /\ CharacterFree
    /\ RowFree(m)
    /\ MayAttach(m)
    /\ media' = [media EXCEPT ![m].bound = TRUE, ![m].recent = TRUE]
    /\ draftMedia' = draftMedia \cup {m}
    /\ UNCHANGED <<character, locks, object, snapshots, actor, late, revived>>

\* delete_character_image, delete_character_asset
Detach(m) ==
    /\ CharacterFree
    /\ m \in draftMedia
    /\ draftMedia' = draftMedia \ {m}
    /\ UNCHANGED <<character, locks, media, object, snapshots, actor, late, revived>>

\* delete_character, whose images and assets go with it; snapshots stay.
DeleteCharacter ==
    /\ CharacterFree
    /\ character' = FALSE
    /\ draftMedia' = {}
    /\ UNCHANGED <<locks, media, object, snapshots, actor, late, revived>>

\* freeze_character reads the images and assets of the locked character ...
ReadDraft(c) ==
    /\ At(c, "idle")
    /\ CharacterFree
    /\ characterLock' = c
    /\ Goto(c, "freeze", draftMedia)
    /\ UNCHANGED <<character, mediaLock, media, object, references, late, revived>>

\* ... and copies them; the foreign keys wait for rows that are locked.
Freeze(c) ==
    /\ At(c, "freeze")
    /\ \A m \in actor[c].media : RowFree(m)
    /\ snapshots' = snapshots \cup actor[c].media
    /\ Return(c)
    /\ ReleaseAll(c)
    /\ UNCHANGED <<character, media, object, draftMedia, late, revived>>

-----------------------------------------------------------------------------
(* cleanup_character_media *)

\* prepare_cleanup: an old row, or one whose deletion was begun, is locked.
LockForCleanup(k) ==
    /\ At(k, "idle")
    /\ \E m \in Media :
         /\ RowFree(m)
         /\ \/ media[m].state \in {"pending", "ready"} /\ ~media[m].recent
            \/ media[m].state = "deleting"
         /\ mediaLock' = [mediaLock EXCEPT ![m] = k]
         /\ Goto(k, "check", {m})
    /\ UNCHANGED <<character, characterLock, media, object, references, late, revived>>

\* has_media_references asks for images and assets first ...
CheckDraft(k) ==
    /\ At(k, "check")
    /\ IF actor[k].media \cap draftMedia # {} THEN Return(k) /\ ReleaseAll(k)
       ELSE Goto(k, "check_snapshots", actor[k].media) /\ UNCHANGED locks
    /\ UNCHANGED <<character, media, object, references, late, revived>>

\* Faulty: what was published keeps no media alive.
PublishedNever(m) == FALSE

PublishedMedia(m) == m \in snapshots

\* ... and for snapshots then; unreferenced media are retired.
RetireMedia(k) ==
    /\ At(k, "check_snapshots")
    /\ \E m \in actor[k].media :
         IF PublishedMedia(m) THEN Return(k) /\ UNCHANGED media
         ELSE media' = [media EXCEPT ![m].state = "deleting"] /\ Goto(k, "lock_cleanup", {m})
    /\ ReleaseAll(k)
    /\ UNCHANGED <<character, object, references, late, revived>>

\* lock_cleanup, in a transaction of its own
LockCleanup(k) ==
    /\ At(k, "lock_cleanup")
    /\ \E m \in actor[k].media :
         /\ RowFree(m)
         /\ IF media[m].state = "deleting"
            THEN mediaLock' = [mediaLock EXCEPT ![m] = k] /\ Goto(k, "delete", {m})
            ELSE Return(k) /\ UNCHANGED mediaLock
    /\ UNCHANGED <<character, characterLock, media, object, references, late, revived>>

\* delete_asset
DeleteObject(k) ==
    /\ At(k, "delete")
    /\ \E m \in actor[k].media, ok \in BOOLEAN :
         /\ object' \in {[object EXCEPT ![m] = FALSE]} \cup (IF ok THEN {} ELSE {object})
         /\ IF ok THEN Goto(k, "finish", {m}) /\ UNCHANGED locks
            ELSE Return(k) /\ ReleaseAll(k)
    /\ UNCHANGED <<character, media, references, late, revived>>

\* complete_cleanup; its commit may fail.
CompleteCleanup(k) ==
    /\ At(k, "finish")
    /\ \E m \in actor[k].media : media' \in {media, [media EXCEPT ![m].state = "deleted"]}
    /\ Return(k)
    /\ ReleaseAll(k)
    /\ UNCHANGED <<character, object, references, late, revived>>

-----------------------------------------------------------------------------
(* Failures and time *)

\* The process or its connection is lost: the transaction is rolled back, and a
\* call to the store goes on without it.
Lose(a) ==
    /\ ~At(a, "idle")
    /\ late' = late \cup ({actor[a].at} \cap {"store", "delete"}) \X actor[a].media
    /\ Return(a)
    /\ ReleaseAll(a)
    /\ UNCHANGED <<character, media, object, references, revived>>

LateCall ==
    /\ \E call \in late :
         /\ late' = late \ {call}
         /\ object' \in {object, [object EXCEPT ![call[2]] = call[1] = "store"]}
    /\ UNCHANGED <<character, locks, media, references, actor, revived>>

Uploading(m) ==
    \/ <<"store", m>> \in late
    \/ \E c \in Clients : m \in actor[c].media /\ actor[c].at \in {"lock", "store", "complete"}

\* A day passes since the row was last written, which no upload takes.
GraceEnds(m) ==
    /\ media[m].recent
    /\ ~Uploading(m)
    /\ media' = [media EXCEPT ![m].recent = FALSE]
    /\ UNCHANGED <<character, locks, object, references, actor, late, revived>>

MediaNext ==
    \/ \E c \in Clients :
         \/ ReserveUpload(c) \/ TouchReservation(c) \/ LockUpload(c)
         \/ StoreObject(c) \/ CompleteUpload(c)
         \/ ReadDraft(c) \/ Freeze(c)
    \/ \E k \in Cleaners :
         \/ LockForCleanup(k) \/ CheckDraft(k) \/ RetireMedia(k)
         \/ LockCleanup(k) \/ DeleteObject(k) \/ CompleteCleanup(k)
    \/ \E m \in Media : Attach(m) \/ Detach(m) \/ GraceEnds(m)
    \/ DeleteCharacter \/ LateCall
    \/ \E a \in Actors : Lose(a)

MediaSpec == MediaInit /\ [][MediaNext]_mediaVars

-----------------------------------------------------------------------------
(* Properties *)

Steps == {"idle", "touch", "lock", "store", "complete", "freeze", "check",
          "check_snapshots", "lock_cleanup", "delete", "finish"}

\* The shape of the rows and of every actor's step.
MediaTypeOK ==
    /\ character \in BOOLEAN
    /\ characterLock \in Clients \cup {NoActor}
    /\ media \in [Media -> [state: {"absent", "pending", "ready", "deleting", "deleted"},
                            recent: BOOLEAN, bound: BOOLEAN]]
    /\ \A m \in Media : media[m].bound => media[m].state \in {"ready", "deleting", "deleted"}
    /\ mediaLock \in [Media -> Actors \cup {NoActor}]
    /\ object \in [Media -> BOOLEAN]
    /\ {draftMedia, snapshots, revived} \subseteq SUBSET Media
    /\ actor \in [Actors -> [at: Steps, media: SUBSET Media]]
    /\ late \subseteq {"store", "delete"} \X Media

\* Whatever the order of attaching, publishing, detaching and cleaning up, media
\* that an image or a snapshot shows are ready: cleanup never retires them.
ReferencedIsReady ==
    \A m \in draftMedia \cup snapshots : media[m].state = "ready"

\* A ready row has its object, also when uploads and deletions were cut off in the
\* middle; but for rows taken back from deletion, which a late call may still empty.
ReadyIsStored ==
    \A m \in Media \ revived : media[m].state = "ready" => object[m]

\* Nothing is left in the store of media recorded as deleted, or reaches it later.
DeletedIsGone ==
    \A m \in Media : media[m].state = "deleted" => ~object[m] /\ <<"store", m>> \notin late

\* An attachment that was removed is not made again by a repeated request.
DetachedStays ==
    [][\A m \in Media : media[m].bound /\ m \notin draftMedia => m \notin draftMedia']_mediaVars

\* "Reject future attachment/replay before deletion": a retired row is not used again.
RetiredStays ==
    [][\A m \in Media : media[m].state \in {"deleting", "deleted"}
                          => media'[m].state \in {"deleting", "deleted"}]_mediaVars

\* The invariants of rows and objects, and what a repeated request may not do.
MediaStayWhole ==
    /\ [](MediaTypeOK /\ ReferencedIsReady /\ ReadyIsStored /\ DeletedIsGone)
    /\ DetachedStays
=============================================================================
