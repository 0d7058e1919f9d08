---------------------------- MODULE ContentProofs ---------------------------
(***************************************************************************)
(* Proofs about MediaUpload, ContentTags and StudioDrafts, for any numbers *)
(* of media, clients, cleaners, sessions, components, tags, devices and    *)
(* documents and any set of requests.                                      *)
(*                                                                         *)
(* Of media: the locks tell who is at which step, and the row of a medium  *)
(* tells which calls to the store may still come.  Of tags: a transaction  *)
(* is at a place of a sequence that is sorted by one order; what it has    *)
(* read of the rows and names it holds is still so, since only it may      *)
(* change them.                                                            *)
(* Of the studio: a mapping names rows of its own, one for each key, and   *)
(* whoever edits rows elsewhere can only end them; so a publication that   *)
(* finds all its rows writes the document over them, and what it freezes   *)
(* is the document.                                                        *)
(***************************************************************************)
EXTENDS MediaUpload, ContentTags, StudioDrafts, ReviewProofs, FunctionTheorems

-----------------------------------------------------------------------------
(* Media of a character *)

RowStates == {"absent", "pending", "ready", "deleting", "deleted"}
MediaRow == [state: RowStates, recent: BOOLEAN, bound: BOOLEAN]
ActorRow == [at: Steps, media: SUBSET Media]
Call == {"store", "delete"} \X Media

ClientSteps == {"touch", "lock", "store", "complete", "freeze"}
CleanerSteps == {"check", "check_snapshots", "lock_cleanup", "delete", "finish"}

\* Who is at which step holds which locks.
HoldsLocks(a) ==
    /\ actor[a].at \in ClientSteps => a \in Clients
    /\ actor[a].at \in CleanerSteps => a \in Cleaners
    /\ actor[a].at \notin {"idle", "freeze"} => \E m \in Media : actor[a].media = {m}
    /\ characterLock = a <=> actor[a].at \in {"touch", "store", "complete", "freeze"}
    /\ \A m \in Media : mediaLock[m] = a <=>
          /\ actor[a].at \in {"store", "complete", "check", "check_snapshots", "delete", "finish"}
          /\ m \in actor[a].media

\* What an actor has read of its medium still holds.
StepFits(a, m) ==
    /\ actor[a].at = "touch" =>
           media[m].state \in {"pending", "deleting", "deleted"} /\ media[m].bound = FALSE
    /\ actor[a].at = "lock" =>
           media[m].state # "absent" /\ (media[m].state = "pending" => media[m].recent = TRUE)
    /\ actor[a].at \in {"store", "complete"} => media[m].state = "pending" /\ media[m].recent = TRUE
    /\ actor[a].at = "complete" => object[m] = TRUE \/ m \in revived
    /\ actor[a].at \in {"check", "check_snapshots"} =>
           media[m].state \in {"pending", "ready", "deleting"} /\ media[m].recent = FALSE
    /\ actor[a].at = "check_snapshots" => m \notin draftMedia
    /\ actor[a].at \in {"delete", "finish"} => media[m].state = "deleting"
    /\ actor[a].at = "finish" => object[m] = FALSE

LocksFit == \A a \in Actors : HoldsLocks(a)

StepsFit ==
    \A a \in Actors :
        /\ actor[a].at = "freeze" => actor[a].media = draftMedia
        /\ \A m \in actor[a].media : StepFits(a, m)

\* What a row of the media table says of the calls to the store that may still
\* come: a deletion never comes for a medium that is in use.
MediaRowsFit ==
    \A m \in Media :
        /\ media[m].state \in {"absent", "deleting", "deleted"} => media[m].recent = FALSE
        /\ <<"store", m>> \in late => media[m].recent = TRUE
        /\ <<"delete", m>> \in late => media[m].state \in {"deleting", "deleted"} \/ m \in revived

\* The inductive invariant.
MediaInv ==
    /\ MediaTypeOK /\ LocksFit /\ StepsFit /\ MediaRowsFit
    /\ ReferencedIsReady /\ ReadyIsStored /\ DeletedIsGone

\* Rows and what is written to them.
LEMMA RowsTyped == ASSUME MediaTypeOK
  PROVE /\ media \in [Media -> MediaRow] /\ object \in [Media -> BOOLEAN] /\ actor \in [Actors -> ActorRow]
        /\ mediaLock \in [Media -> Actors \cup {NoActor}] /\ late \subseteq Call
  BY DEF MediaTypeOK, MediaRow, RowStates, ActorRow, Call
IsRow(new, s, r, b) == new \in MediaRow /\ new.state = s /\ new.recent = r /\ new.bound = b

LEMMA SetState ==
    ASSUME NEW row \in MediaRow, NEW s \in RowStates, NEW new, new = [row EXCEPT !.state = s]
    PROVE  IsRow(new, s, row.recent, row.bound)
  BY DEF MediaRow, IsRow
LEMMA SetRecent ==
    ASSUME NEW row \in MediaRow, NEW r \in BOOLEAN, NEW new, new = [row EXCEPT !.recent = r]
    PROVE  IsRow(new, row.state, r, row.bound)
  BY DEF MediaRow, IsRow
LEMMA SetBound ==
    ASSUME NEW row \in MediaRow, NEW b \in BOOLEAN, NEW new, new = [row EXCEPT !.bound = b]
    PROVE  IsRow(new, row.state, row.recent, b)
  BY DEF MediaRow, IsRow
LEMMA SetStateRecent ==
    ASSUME NEW row \in MediaRow, NEW s \in RowStates, NEW r \in BOOLEAN,
           NEW new, new = [row EXCEPT !.state = s, !.recent = r]
    PROVE  IsRow(new, s, r, row.bound)
<1> DEFINE mid == [row EXCEPT !.state = s]
<1>1. IsRow(mid, s, row.recent, row.bound)  BY SetState
<1>2. new = [mid EXCEPT !.recent = r]  OBVIOUS
<1> HIDE DEF mid
<1>3. mid \in MediaRow /\ mid.state = s /\ mid.bound = row.bound  BY <1>1 DEF IsRow
<1>4. IsRow(new, mid.state, r, mid.bound) BY <1>2, <1>3, SetRecent
<1> QED BY <1>3, <1>4 
LEMMA SetBoundRecent ==
    ASSUME NEW row \in MediaRow, NEW b \in BOOLEAN, NEW r \in BOOLEAN,
           NEW new, new = [row EXCEPT !.bound = b, !.recent = r]
    PROVE  IsRow(new, row.state, r, b)
<1> DEFINE mid == [row EXCEPT !.bound = b]
<1>1. IsRow(mid, row.state, row.recent, b)  BY SetBound
<1>2. new = [mid EXCEPT !.recent = r]  OBVIOUS
<1> HIDE DEF mid
<1>3. mid \in MediaRow /\ mid.state = row.state /\ mid.bound = b  BY <1>1 DEF IsRow
<1>4. IsRow(new, mid.state, r, mid.bound) BY <1>2, <1>3, SetRecent
<1> QED BY <1>3, <1>4 

Becomes(m, s, r, b) ==
    /\ media' \in [Media -> MediaRow] /\ \A o \in Media \ {m} : media'[o] = media[o]
    /\ IsRow(media'[m], s, r, b)

LEMMA RowBecomes ==
    ASSUME media \in [Media -> MediaRow], NEW m \in Media, NEW s \in RowStates, NEW r \in BOOLEAN
    PROVE  /\ media' = [media EXCEPT ![m].state = s] => Becomes(m, s, media[m].recent, media[m].bound)
           /\ media' = [media EXCEPT ![m].recent = r] => Becomes(m, media[m].state, r, media[m].bound)
           /\ media' = [media EXCEPT ![m].state = s, ![m].recent = r] => Becomes(m, s, r, media[m].bound)
           /\ media' = [media EXCEPT ![m].bound = r, ![m].recent = r] => Becomes(m, media[m].state, r, r)
<1>0. media[m] \in MediaRow OBVIOUS
<1>5. ASSUME NEW t, NEW u, NEW v, NEW new, IsRow(new, t, u, v), media' = [media EXCEPT ![m] = new] PROVE Becomes(m, t, u, v)
  BY <1>5 DEF Becomes, IsRow
<1>1. media' = [media EXCEPT ![m].state = s] => Becomes(m, s, media[m].recent, media[m].bound)
  BY <1>0, <1>5, SetState
<1>2. media' = [media EXCEPT ![m].recent = r] => Becomes(m, media[m].state, r, media[m].bound)
  BY <1>0, <1>5, SetRecent
<1>6. [media EXCEPT ![m].state = s, ![m].recent = r] = [media EXCEPT ![m] = [@ EXCEPT !.state = s, !.recent = r]]
  OBVIOUS
<1>7. [media EXCEPT ![m].bound = r, ![m].recent = r] = [media EXCEPT ![m] = [@ EXCEPT !.bound = r, !.recent = r]]
  OBVIOUS
<1>3. media' = [media EXCEPT ![m].state = s, ![m].recent = r] => Becomes(m, s, r, media[m].bound)
  <2>1. IsRow([media[m] EXCEPT !.state = s, !.recent = r], s, r, media[m].bound)
    BY <1>0, SetStateRecent
  <2> QED  BY <2>1, <1>5, <1>6
<1>4. media' = [media EXCEPT ![m].bound = r, ![m].recent = r] => Becomes(m, media[m].state, r, r)
  BY <1>0, <1>5, <1>7, SetBoundRecent
<1> QED BY <1>1, <1>2, <1>3, <1>4

Stepped(a, step, S) ==
    /\ actor' \in [Actors -> ActorRow]
    /\ actor'[a].at = step /\ actor'[a].media = S
    /\ \A b \in Actors \ {a} : actor'[b] = actor[b]

Freed(a) ==
    /\ characterLock' = IF characterLock = a THEN NoActor ELSE characterLock
    /\ mediaLock' \in [Media -> Actors \cup {NoActor}]
    /\ \A m \in Media : mediaLock'[m] = IF mediaLock[m] = a THEN NoActor ELSE mediaLock[m]

\* Actors and locks.
LEMMA Released ==
    ASSUME NEW a \in Actors, MediaTypeOK, ReleaseAll(a)
    PROVE  Freed(a)
  BY DEF ReleaseAll, MediaTypeOK, Freed

LEMMA Went ==
    ASSUME MediaTypeOK, NEW a \in Actors, NEW step \in Steps, NEW S \in SUBSET Media, Goto(a, step, S)
    PROVE  Stepped(a, step, S)
  BY RowsTyped DEF Goto, ActorRow, Stepped

LEMMA Returned ==
    ASSUME MediaTypeOK, NEW a \in Actors, Return(a)
    PROVE  Stepped(a, "idle", {})
  BY RowsTyped DEF Return, IdleActor, ActorRow, Steps, Stepped

Locked(a, m) ==
    /\ mediaLock' \in [Media -> Actors \cup {NoActor}] /\ mediaLock'[m] = a
    /\ \A o \in Media \ {m} : mediaLock'[o] = mediaLock[o]

LEMMA Locks ==
    ASSUME MediaTypeOK, NEW a \in Actors, NEW m \in Media, mediaLock' = [mediaLock EXCEPT ![m] = a]
    PROVE  Locked(a, m)
  BY RowsTyped DEF Locked

LEMMA TypeHolds == MediaInv => MediaTypeOK
  BY DEF MediaInv

\* Every action keeps the invariant.
LEMMA ReserveUploadKeeps ==
    ASSUME NEW c \in Clients, MediaInv, ReserveUpload(c)
    PROVE  MediaInv'
<1> USE MediaAssumption, TypeHolds
<1>0. c \in Actors  BY DEF Actors
<1>1. PICK m \in Media :
         /\ media' = IF media[m].state = "absent" THEN [media EXCEPT ![m].state = "pending", ![m].recent = TRUE]
                     ELSE media
         /\ IF media[m].state = "pending" THEN Goto(c, "touch", {m}) /\ characterLock' = c
            ELSE Goto(c, "lock", {m}) /\ UNCHANGED characterLock
  BY DEF ReserveUpload
<1>2. /\ media[m] \in MediaRow /\ actor[c].at = "idle" /\ characterLock = NoActor
      /\ media[m].state = "absent" => media[m].bound = FALSE /\ media[m].recent = FALSE
      /\ media[m].state = "pending" => media[m].bound = FALSE
  BY RowsTyped DEF ReserveUpload, At, CharacterFree, MediaInv, MediaTypeOK, MediaRowsFit, MediaRow
<1>3. IF media[m].state = "absent" THEN Becomes(m, "pending", TRUE, FALSE) ELSE media' = media
  BY <1>1, <1>2, RowBecomes, RowsTyped DEF MediaInv, RowStates
<1>4. \/ media[m].state = "pending" /\ Stepped(c, "touch", {m})
      \/ media[m].state # "pending" /\ Stepped(c, "lock", {m})
  BY <1>0, <1>1, Went DEF Steps
<1>5. characterLock' = IF media[m].state = "pending" THEN c ELSE characterLock
  BY <1>1
<1>6. 
    /\ character' = character /\ mediaLock' = mediaLock /\ object' = object
    /\ draftMedia' = draftMedia /\ snapshots' = snapshots /\ late' = late
    /\ revived' = revived
  BY DEF ReserveUpload, locks, references
<1>7. MediaTypeOK'
  BY <1>0, <1>2, <1>3, <1>4, <1>5, <1>6 DEF MediaInv, MediaTypeOK, Becomes, IsRow, Stepped,
     Actors, MediaRow, RowStates, ActorRow, Call, Steps
<1>8. LocksFit'
  BY SMTT(20), <1>0, <1>2, <1>3, <1>4, <1>5, <1>6 DEF MediaInv, MediaTypeOK, LocksFit, HoldsLocks,
     ClientSteps, CleanerSteps, Stepped, Actors
<1>9. StepsFit'
  BY <1>0, <1>2, <1>3, <1>4, <1>5, <1>6 DEF MediaInv, MediaTypeOK, LocksFit, HoldsLocks,
     StepsFit, StepFits, MediaRowsFit, ReferencedIsReady, ClientSteps, CleanerSteps, Becomes, IsRow,
     Stepped, Actors
<1>10. MediaRowsFit'
  BY <1>0, <1>2, <1>3, <1>4, <1>5, <1>6 DEF MediaInv, MediaRowsFit, Becomes, IsRow, Stepped, Actors
<1>11. (ReferencedIsReady /\ ReadyIsStored /\ DeletedIsGone)'
  BY <1>0, <1>2, <1>3, <1>4, <1>5, <1>6 DEF MediaInv, MediaTypeOK, MediaRowsFit, ReferencedIsReady,
     ReadyIsStored, DeletedIsGone, Becomes, IsRow, Stepped, Actors
<1> QED  BY <1>7, <1>8, <1>9, <1>10, <1>11 DEF MediaInv

LEMMA TouchReservationKeeps ==
    ASSUME NEW c \in Clients, MediaInv, TouchReservation(c)
    PROVE  MediaInv'
<1> USE MediaAssumption, TypeHolds
<1>0. c \in Actors  BY DEF Actors
<1>1. PICK m \in actor[c].media :
         /\ RowFree(m) /\ media' = [media EXCEPT ![m].state = "pending", ![m].recent = TRUE]
         /\ revived' = IF media[m].state \in {"deleting", "deleted"} THEN revived \cup {m} ELSE revived
         /\ Goto(c, "lock", {m})
  BY DEF TouchReservation, Touched
<1>2. /\ m \in Media /\ media[m] \in MediaRow /\ actor[c].at = "touch" /\ actor[c].media = {m}
      /\ media[m].state \in {"pending", "deleting", "deleted"} /\ media[m].bound = FALSE
      /\ characterLock = c /\ mediaLock[m] = NoActor
  BY <1>0, <1>1, RowsTyped DEF TouchReservation, At, MediaInv, MediaTypeOK, StepsFit, StepFits,
     MediaRowsFit, LocksFit, HoldsLocks, ActorRow, ClientSteps, CleanerSteps, RowFree
<1>3. Becomes(m, "pending", TRUE, FALSE)
  BY <1>1, <1>2, RowBecomes, RowsTyped DEF MediaInv, RowStates
<1>4. /\ revived' \subseteq Media /\ revived \subseteq revived'
      /\ media[m].state \in {"deleting", "deleted"} => m \in revived'
  BY <1>1, <1>2 DEF MediaInv, MediaTypeOK
<1>5. Stepped(c, "lock", {m})
  BY <1>0, <1>1, <1>2, Went DEF TouchReservation, Steps
<1>6. Freed(c)
  BY <1>0, Released DEF TouchReservation
<1>7. 
    /\ character' = character /\ object' = object /\ draftMedia' = draftMedia
    /\ snapshots' = snapshots /\ late' = late
  BY DEF TouchReservation, locks, references
<1>8. MediaTypeOK'
  BY <1>0, <1>2, <1>3, <1>4, <1>5, <1>6, <1>7 DEF MediaInv, MediaTypeOK, Becomes, IsRow, Stepped,
     Freed, Actors, MediaRow, RowStates, ActorRow, Call, Steps
<1>9. LocksFit'
  <2>1. HoldsLocks(c)'
    BY <1>0, <1>2, <1>5, <1>6 DEF HoldsLocks, Stepped, Freed, ClientSteps, CleanerSteps, Actors
  <2>2. ASSUME NEW b \in Actors \ {c} PROVE HoldsLocks(b)'
    <3>1. HoldsLocks(b) /\ actor'[b] = actor[b]
      BY <1>5 DEF MediaInv, LocksFit, Stepped
    <3> QED BY <1>0, <1>2, <1>6, <3>1 DEF HoldsLocks, Freed, Actors
  <2> QED BY <2>1, <2>2 DEF LocksFit
<1>10. StepsFit'
  BY <1>0, <1>2, <1>3, <1>4, <1>5, <1>6, <1>7 DEF MediaInv, MediaTypeOK, LocksFit, HoldsLocks,
     StepsFit, StepFits, MediaRowsFit, ReferencedIsReady, ClientSteps, CleanerSteps, Becomes, IsRow,
     Stepped, Freed, Actors
<1>11. MediaRowsFit'
  BY <1>0, <1>2, <1>3, <1>4, <1>5, <1>6, <1>7 DEF MediaInv, MediaRowsFit, Becomes, IsRow, Stepped,
     Freed, Actors
<1>12. (ReferencedIsReady /\ ReadyIsStored /\ DeletedIsGone)'
  BY <1>0, <1>2, <1>3, <1>4, <1>5, <1>6, <1>7 DEF MediaInv, MediaTypeOK, MediaRowsFit,
     ReferencedIsReady, ReadyIsStored, DeletedIsGone, Becomes, IsRow, Stepped, Freed, Actors
<1> QED  BY <1>8, <1>9, <1>10, <1>11, <1>12 DEF MediaInv

LEMMA LockUploadKeeps ==
    ASSUME NEW c \in Clients, MediaInv, LockUpload(c)
    PROVE  MediaInv'
<1> USE MediaAssumption, TypeHolds
<1>0. c \in Actors  BY DEF Actors
<1>1. PICK m \in actor[c].media :
         /\ RowFree(m)
         /\ IF character /\ media[m].state = "pending"
            THEN /\ characterLock' = c /\ mediaLock' = [mediaLock EXCEPT ![m] = c]
                 /\ Goto(c, "store", {m})
            ELSE Return(c) /\ UNCHANGED locks
  BY DEF LockUpload, Uploadable
<1>2. /\ m \in Media /\ media[m] \in MediaRow /\ actor[c].at = "lock" /\ actor[c].media = {m}
      /\ (media[m].state = "pending" => media[m].recent = TRUE)
      /\ characterLock = NoActor /\ mediaLock[m] = NoActor
  BY <1>0, <1>1, RowsTyped DEF LockUpload, At, MediaInv, MediaTypeOK, StepsFit, StepFits,
     MediaRowsFit, LocksFit, HoldsLocks, ActorRow, ClientSteps, CleanerSteps, RowFree
<1>3. \/ /\ media[m].state = "pending" /\ Stepped(c, "store", {m})
         /\ characterLock' = c /\ Locked(c, m)
      \/ /\ Stepped(c, "idle", {})
         /\ characterLock' = characterLock /\ mediaLock' = mediaLock
  BY <1>0, <1>1, <1>2, Went, Returned, Locks, Released DEF MediaInv, Steps, locks
<1>4. 
    /\ character' = character /\ media' = media /\ object' = object
    /\ draftMedia' = draftMedia /\ snapshots' = snapshots /\ late' = late
    /\ revived' = revived
  BY DEF LockUpload, locks, references
<1>5. MediaTypeOK'
  BY <1>0, <1>2, <1>3, <1>4 DEF MediaInv, MediaTypeOK, Stepped, Locked, Actors, MediaRow,
     RowStates, ActorRow, Call, Steps
<1>6. LocksFit'
  <2>1. ASSUME NEW b \in Actors \ {c} PROVE HoldsLocks(b)'
    BY <1>0, <1>2, <1>3, <1>4, <2>1 DEF LocksFit, MediaInv, MediaTypeOK, HoldsLocks, ClientSteps,
       CleanerSteps, Stepped, Locked, Actors
  <2>2. HoldsLocks(c)'
    BY <1>0, <1>2, <1>3, <1>4 DEF LocksFit, MediaInv, MediaTypeOK, HoldsLocks, ClientSteps,
       CleanerSteps, Stepped, Locked, Actors
  <2> QED  BY <2>1, <2>2 DEF LocksFit, Actors
<1>7. StepsFit'
  <2>1. ASSUME NEW b \in Actors \ {c}, NEW o \in actor[b].media PROVE StepFits(b, o)'
    BY <1>0, <1>2, <1>3, <1>4, <2>1 DEF StepsFit, MediaInv, MediaTypeOK, LocksFit, HoldsLocks,
       StepFits, MediaRowsFit, ReferencedIsReady, ClientSteps, CleanerSteps, Stepped, Locked, Actors
  <2>2. ASSUME NEW o \in actor'[c].media PROVE StepFits(c, o)'
    BY <1>0, <1>2, <1>3, <1>4, <2>2 DEF StepsFit, MediaInv, MediaTypeOK, LocksFit, HoldsLocks,
       StepFits, MediaRowsFit, ReferencedIsReady, ClientSteps, CleanerSteps, Stepped, Locked, Actors
  <2> QED  BY <2>1, <2>2, <1>0, <1>2, <1>3, <1>4 DEF MediaInv, StepsFit, Stepped
<1>8. MediaRowsFit'
  BY <1>0, <1>2, <1>3, <1>4 DEF MediaInv, MediaRowsFit, Stepped, Locked, Actors
<1>9. (ReferencedIsReady /\ ReadyIsStored /\ DeletedIsGone)'
  BY <1>0, <1>2, <1>3, <1>4 DEF MediaInv, MediaTypeOK, MediaRowsFit, ReferencedIsReady,
     ReadyIsStored,
     DeletedIsGone, Stepped, Locked, Actors
<1> QED  BY <1>5, <1>6, <1>7, <1>8, <1>9 DEF MediaInv

LEMMA StoreObjectKeeps ==
    ASSUME NEW c \in Clients, MediaInv, StoreObject(c)
    PROVE  MediaInv'
<1> USE MediaAssumption, TypeHolds
<1>0. c \in Actors  BY DEF Actors
<1>1. PICK m \in actor[c].media :
         \/ object' = [object EXCEPT ![m] = TRUE] /\ Goto(c, "complete", {m}) /\ UNCHANGED locks
         \/ object' \in {object, [object EXCEPT ![m] = TRUE]} /\ Return(c) /\ ReleaseAll(c)
  BY DEF StoreObject
<1>2. /\ m \in Media /\ media[m] \in MediaRow /\ actor[c].at = "store" /\ actor[c].media = {m}
      /\ media[m].state = "pending" /\ media[m].recent = TRUE /\ mediaLock[m] = c /\ characterLock = c
  BY <1>0, <1>1, RowsTyped DEF StoreObject, At, MediaInv, MediaTypeOK, StepsFit, StepFits,
     MediaRowsFit, LocksFit, HoldsLocks, ActorRow, ClientSteps, CleanerSteps
<1>3. object' \in [Media -> BOOLEAN] /\ \A o \in Media \ {m} : object'[o] = object[o]
  BY <1>1, <1>2, RowsTyped
<1>4. object[m] = TRUE => object'[m] = TRUE
  BY <1>1, <1>2, RowsTyped
<1>5. \/ /\ object'[m] = TRUE /\ Stepped(c, "complete", {m})
         /\ characterLock' = characterLock /\ mediaLock' = mediaLock
      \/ Stepped(c, "idle", {}) /\ Freed(c)
  <2>1. CASE object' = [object EXCEPT ![m] = TRUE] /\ Goto(c, "complete", {m}) /\ UNCHANGED locks
    BY <1>0, <1>2, <2>1, Went, RowsTyped DEF Steps, locks
  <2>2. CASE Return(c) /\ ReleaseAll(c)
    BY <1>0, <2>2, Returned, Released
  <2> QED  BY <1>1, <2>1, <2>2
<1>6. 
    /\ character' = character /\ media' = media /\ draftMedia' = draftMedia
    /\ snapshots' = snapshots /\ late' = late /\ revived' = revived
  BY DEF StoreObject, locks, references
<1>7. MediaTypeOK'
  BY <1>0, <1>2, <1>3, <1>4, <1>5, <1>6 DEF MediaInv, MediaTypeOK, Stepped, Freed, Actors,
     MediaRow, RowStates, ActorRow, Call, Steps
<1>8. LocksFit'
  BY <1>0, <1>2, <1>3, <1>4, <1>5, <1>6 DEF MediaInv, MediaTypeOK, LocksFit, HoldsLocks,
     ClientSteps, CleanerSteps, Stepped, Freed, Actors
<1>9. StepsFit'
  BY <1>0, <1>2, <1>3, <1>4, <1>5, <1>6 DEF MediaInv, MediaTypeOK, LocksFit, HoldsLocks,
     StepsFit, StepFits, MediaRowsFit, ReferencedIsReady, ClientSteps, CleanerSteps, Stepped, Freed,
     Actors
<1>10. MediaRowsFit'
  BY <1>0, <1>2, <1>3, <1>4, <1>5, <1>6 DEF MediaInv, MediaRowsFit, Stepped, Freed, Actors
<1>11. (ReferencedIsReady /\ ReadyIsStored /\ DeletedIsGone)'
  BY <1>0, <1>2, <1>3, <1>4, <1>5, <1>6 DEF MediaInv, MediaTypeOK, MediaRowsFit, ReferencedIsReady,
     ReadyIsStored, DeletedIsGone, Stepped, Freed, Actors
<1> QED  BY <1>7, <1>8, <1>9, <1>10, <1>11 DEF MediaInv

LEMMA CompleteUploadKeeps ==
    ASSUME NEW c \in Clients, MediaInv, CompleteUpload(c)
    PROVE  MediaInv'
<1> USE MediaAssumption, TypeHolds
<1>0. c \in Actors  BY DEF Actors
<1>1. PICK m \in actor[c].media : media' \in {media, [media EXCEPT ![m].state = "ready", ![m].recent = TRUE]}
  BY DEF CompleteUpload
<1>2. /\ m \in Media /\ media[m] \in MediaRow /\ actor[c].at = "complete" /\ actor[c].media = {m}
      /\ media[m].state = "pending" /\ media[m].recent = TRUE /\ media[m].bound = FALSE
      /\ (object[m] = TRUE \/ m \in revived) /\ mediaLock[m] = c /\ characterLock = c
  BY <1>0, <1>1, RowsTyped DEF CompleteUpload, At, MediaInv, MediaTypeOK, StepsFit, StepFits,
     MediaRowsFit, LocksFit, HoldsLocks, ActorRow, ClientSteps, CleanerSteps
<1>3. media' = media \/ Becomes(m, "ready", TRUE, FALSE)
  BY <1>1, <1>2, RowBecomes, RowsTyped DEF MediaInv, RowStates
<1>4. Stepped(c, "idle", {})
  BY <1>0, Returned DEF CompleteUpload
<1>5. Freed(c)
  BY <1>0, Released DEF CompleteUpload
<1>6. 
    /\ character' = character /\ object' = object /\ draftMedia' = draftMedia
    /\ snapshots' = snapshots /\ late' = late /\ revived' = revived
  BY DEF CompleteUpload, locks, references
<1>7. MediaTypeOK'
  BY <1>0, <1>2, <1>3, <1>4, <1>5, <1>6 DEF MediaInv, MediaTypeOK, Becomes, IsRow, Stepped,
     Freed, Actors, MediaRow, RowStates, ActorRow, Call, Steps
<1>8. LocksFit'
  BY <1>0, <1>2, <1>3, <1>4, <1>5, <1>6 DEF MediaInv, MediaTypeOK, LocksFit, HoldsLocks,
     ClientSteps, CleanerSteps, Stepped, Freed, Actors
<1>9. StepsFit'
  BY <1>0, <1>2, <1>3, <1>4, <1>5, <1>6 DEF MediaInv, MediaTypeOK, LocksFit, HoldsLocks,
     StepsFit, StepFits, MediaRowsFit, ReferencedIsReady, ClientSteps, CleanerSteps, Becomes, IsRow,
     Stepped, Freed, Actors
<1>10. MediaRowsFit'
  <2>1. CASE media' = media
    BY <2>1, <1>6 DEF MediaInv, MediaRowsFit
  <2>2. CASE Becomes(m, "ready", TRUE, FALSE)
    <3>1. /\ \A o \in Media \ {m} : media'[o] = media[o]
          /\ media'[m].state = "ready" /\ media'[m].recent = TRUE
      BY <2>2 DEF Becomes, IsRow
    <3>2. <<"delete", m>> \in late => m \in revived
      BY <1>2 DEF MediaInv, MediaRowsFit
    <3> QED  BY <3>1, <3>2, <1>6 DEF MediaInv, MediaRowsFit
  <2> QED  BY <1>3, <2>1, <2>2
<1>11. (ReferencedIsReady /\ ReadyIsStored /\ DeletedIsGone)'
  <2>1. CASE media' = media
    BY <2>1, <1>6 DEF MediaInv, ReferencedIsReady, ReadyIsStored, DeletedIsGone
  <2>2. CASE Becomes(m, "ready", TRUE, FALSE)
    <3>1. (\A o \in Media \ {m} : media'[o] = media[o]) /\ media'[m].state = "ready"
      BY <2>2 DEF Becomes, IsRow
    <3>2. ReferencedIsReady'
      BY <3>1, <1>2, <1>6 DEF MediaInv, MediaTypeOK, ReferencedIsReady
    <3>3. ReadyIsStored'
      BY <3>1, <1>2, <1>6 DEF MediaInv, ReadyIsStored
    <3>4. DeletedIsGone'
      BY <3>1, <1>2, <1>6 DEF MediaInv, DeletedIsGone
    <3> QED  BY <3>2, <3>3, <3>4
  <2> QED  BY <1>3, <2>1, <2>2
<1> QED  BY <1>7, <1>8, <1>9, <1>10, <1>11 DEF MediaInv

LEMMA ReadDraftKeeps ==
    ASSUME NEW c \in Clients, MediaInv, ReadDraft(c)
    PROVE  MediaInv'
<1> USE MediaAssumption, TypeHolds
<1>0. c \in Actors  BY DEF Actors
<1>1. actor[c].at = "idle" /\ characterLock = NoActor /\ characterLock' = c
  BY DEF ReadDraft, At, CharacterFree
<1>2. Stepped(c, "freeze", draftMedia)
  BY <1>0, Went DEF ReadDraft, Steps, MediaTypeOK
<1>3. 
    /\ character' = character /\ mediaLock' = mediaLock /\ media' = media
    /\ object' = object /\ draftMedia' = draftMedia /\ snapshots' = snapshots
    /\ late' = late /\ revived' = revived
  BY DEF ReadDraft, locks, references
<1>4. MediaTypeOK'
  BY <1>0, <1>1, <1>2, <1>3 DEF MediaInv, MediaTypeOK, Stepped, Actors, MediaRow, RowStates,
     ActorRow, Call, Steps
<1>5. LocksFit'
  BY <1>0, <1>1, <1>2, <1>3 DEF MediaInv, MediaTypeOK, LocksFit, HoldsLocks, ClientSteps,
     CleanerSteps, Stepped, Actors
<1>6. StepsFit'
  BY <1>0, <1>1, <1>2, <1>3 DEF MediaInv, MediaTypeOK, LocksFit, HoldsLocks, StepsFit, StepFits,
     MediaRowsFit, ReferencedIsReady, ClientSteps, CleanerSteps, Stepped, Actors
<1>7. MediaRowsFit'
  BY <1>0, <1>1, <1>2, <1>3 DEF MediaInv, MediaRowsFit, Stepped, Actors
<1>8. (ReferencedIsReady /\ ReadyIsStored /\ DeletedIsGone)'
  BY <1>0, <1>1, <1>2, <1>3 DEF MediaInv, MediaTypeOK, MediaRowsFit, ReferencedIsReady,
     ReadyIsStored,
     DeletedIsGone, Stepped, Actors
<1> QED  BY <1>4, <1>5, <1>6, <1>7, <1>8 DEF MediaInv

LEMMA FreezeKeeps ==
    ASSUME NEW c \in Clients, MediaInv, Freeze(c)
    PROVE  MediaInv'
<1> USE MediaAssumption, TypeHolds
<1>0. c \in Actors  BY DEF Actors
<1>1. actor[c].at = "freeze" /\ actor[c].media = draftMedia /\ characterLock = c
  BY <1>0 DEF Freeze, At, MediaInv, LocksFit, HoldsLocks, StepsFit, StepFits
<1>2. snapshots' = snapshots \cup draftMedia
  BY <1>1 DEF Freeze
<1>3. Stepped(c, "idle", {})
  BY <1>0, Returned DEF Freeze
<1>4. Freed(c)
  BY <1>0, Released DEF Freeze
<1>5. 
    /\ character' = character /\ media' = media /\ object' = object
    /\ draftMedia' = draftMedia /\ late' = late /\ revived' = revived
  BY DEF Freeze, locks, references
<1>6. MediaTypeOK'
  BY <1>0, <1>1, <1>2, <1>3, <1>4, <1>5 DEF MediaInv, MediaTypeOK, Stepped, Freed, Actors,
     MediaRow, RowStates, ActorRow, Call, Steps
<1>7. LocksFit'
  BY <1>0, <1>1, <1>2, <1>3, <1>4, <1>5 DEF MediaInv, MediaTypeOK, LocksFit, HoldsLocks,
     ClientSteps, CleanerSteps, Stepped, Freed, Actors
<1>8. StepsFit'
  BY SMTT(20), <1>0, <1>1, <1>2, <1>3, <1>4, <1>5 DEF MediaInv, MediaTypeOK, LocksFit, HoldsLocks,
     StepsFit, StepFits, MediaRowsFit, ReferencedIsReady, ClientSteps, CleanerSteps, Stepped, Freed,
     Actors
<1>9. MediaRowsFit'
  BY <1>0, <1>1, <1>2, <1>3, <1>4, <1>5 DEF MediaInv, MediaRowsFit, Stepped, Freed, Actors
<1>10. (ReferencedIsReady /\ ReadyIsStored /\ DeletedIsGone)'
  BY <1>0, <1>1, <1>2, <1>3, <1>4, <1>5 DEF MediaInv, MediaTypeOK, MediaRowsFit, ReferencedIsReady,
     ReadyIsStored, DeletedIsGone, Stepped, Freed, Actors
<1> QED  BY <1>6, <1>7, <1>8, <1>9, <1>10 DEF MediaInv

LEMMA LockForCleanupKeeps ==
    ASSUME NEW k \in Cleaners, MediaInv, LockForCleanup(k)
    PROVE  MediaInv'
<1> USE MediaAssumption, TypeHolds
<1>0. k \in Actors  BY DEF Actors
<1>1. PICK m \in Media :
         /\ RowFree(m)
         /\ \/ media[m].state \in {"pending", "ready"} /\ ~media[m].recent
            \/ media[m].state = "deleting"
         /\ mediaLock' = [mediaLock EXCEPT ![m] = k] /\ Goto(k, "check", {m})
  BY DEF LockForCleanup
<1>2. /\ media[m].state \in {"pending", "ready", "deleting"} /\ media[m].recent = FALSE
      /\ mediaLock[m] = NoActor /\ actor[k].at = "idle"
  BY <1>1, RowsTyped DEF LockForCleanup, At, RowFree, MediaInv, MediaRowsFit, MediaRow
<1>3. Locked(k, m)
  BY <1>0, <1>1, Locks
<1>4. Stepped(k, "check", {m})
  BY <1>0, <1>1, Went DEF Steps
<1>5. 
    /\ character' = character /\ characterLock' = characterLock /\ media' = media
    /\ object' = object /\ draftMedia' = draftMedia /\ snapshots' = snapshots
    /\ late' = late /\ revived' = revived
  BY DEF LockForCleanup, locks, references
<1>6. MediaTypeOK'
  BY <1>0, <1>2, <1>3, <1>4, <1>5 DEF MediaInv, MediaTypeOK, Stepped, Locked, Actors, MediaRow,
     RowStates, ActorRow, Call, Steps
<1>7. LocksFit'
  <2>1. ASSUME NEW b \in Actors \ {k} PROVE HoldsLocks(b)'
    BY <1>0, <1>2, <1>3, <1>4, <1>5, <2>1 DEF LocksFit, MediaInv, MediaTypeOK, HoldsLocks,
       ClientSteps, CleanerSteps, Stepped, Locked, Actors
  <2>2. HoldsLocks(k)'
    BY <1>0, <1>2, <1>3, <1>4, <1>5 DEF LocksFit, MediaInv, MediaTypeOK, HoldsLocks, ClientSteps,
       CleanerSteps, Stepped, Locked, Actors
  <2> QED  BY <2>1, <2>2 DEF LocksFit, Actors
<1>8. StepsFit'
  <2>1. ASSUME NEW b \in Actors \ {k}, NEW o \in actor[b].media PROVE StepFits(b, o)'
    BY <1>0, <1>2, <1>3, <1>4, <1>5, <2>1 DEF StepsFit, MediaInv, MediaTypeOK, LocksFit,
       HoldsLocks, StepFits, MediaRowsFit, ReferencedIsReady, ClientSteps, CleanerSteps, Stepped,
       Locked, Actors
  <2>2. ASSUME NEW o \in actor'[k].media PROVE StepFits(k, o)'
    BY <1>0, <1>2, <1>3, <1>4, <1>5, <2>2 DEF StepsFit, MediaInv, MediaTypeOK, LocksFit,
       HoldsLocks, StepFits, MediaRowsFit, ReferencedIsReady, ClientSteps, CleanerSteps, Stepped,
       Locked, Actors
  <2> QED  BY <2>1, <2>2, <1>0, <1>2, <1>3, <1>4, <1>5 DEF MediaInv, StepsFit, Stepped
<1>9. MediaRowsFit'
  BY <1>0, <1>2, <1>3, <1>4, <1>5 DEF MediaInv, MediaRowsFit, Stepped, Locked, Actors
<1>10. (ReferencedIsReady /\ ReadyIsStored /\ DeletedIsGone)'
  BY <1>0, <1>2, <1>3, <1>4, <1>5 DEF MediaInv, MediaTypeOK, MediaRowsFit, ReferencedIsReady,
     ReadyIsStored, DeletedIsGone, Stepped, Locked, Actors
<1> QED  BY <1>6, <1>7, <1>8, <1>9, <1>10 DEF MediaInv

LEMMA CheckDraftKeeps ==
    ASSUME NEW k \in Cleaners, MediaInv, CheckDraft(k)
    PROVE  MediaInv'
<1> USE MediaAssumption, TypeHolds
<1>0. k \in Actors  BY DEF Actors
<1>1. PICK m \in Media : actor[k].media = {m} /\ actor[k].at = "check"
  BY <1>0 DEF CheckDraft, At, MediaInv, LocksFit, HoldsLocks
<1>2. media[m].state \in {"pending", "ready", "deleting"} /\ media[m].recent = FALSE /\ mediaLock[m] = k
  BY <1>0, <1>1 DEF MediaInv, LocksFit, HoldsLocks, StepsFit, StepFits
<1>3. \/ Stepped(k, "idle", {}) /\ Freed(k)
      \/ /\ m \notin draftMedia /\ Stepped(k, "check_snapshots", {m})
         /\ characterLock' = characterLock /\ mediaLock' = mediaLock
  BY <1>0, <1>1, Went, Returned, Released DEF CheckDraft, MediaInv, Steps, locks
<1>4. 
    /\ character' = character /\ media' = media /\ object' = object
    /\ draftMedia' = draftMedia /\ snapshots' = snapshots /\ late' = late
    /\ revived' = revived
  BY DEF CheckDraft, locks, references
<1>5. MediaTypeOK'
  BY <1>0, <1>1, <1>2, <1>3, <1>4 DEF MediaInv, MediaTypeOK, Stepped, Freed, Actors, MediaRow,
     RowStates, ActorRow, Call, Steps
<1>6. LocksFit'
  BY <1>0, <1>1, <1>2, <1>3, <1>4 DEF MediaInv, MediaTypeOK, LocksFit, HoldsLocks, ClientSteps,
     CleanerSteps, Stepped, Freed, Actors
<1>7. StepsFit'
  BY <1>0, <1>1, <1>2, <1>3, <1>4 DEF MediaInv, MediaTypeOK, LocksFit, HoldsLocks, StepsFit,
     StepFits, MediaRowsFit, ReferencedIsReady, ClientSteps, CleanerSteps, Stepped, Freed, Actors
<1>8. MediaRowsFit'
  BY <1>0, <1>1, <1>2, <1>3, <1>4 DEF MediaInv, MediaRowsFit, Stepped, Freed, Actors
<1>9. (ReferencedIsReady /\ ReadyIsStored /\ DeletedIsGone)'
  BY <1>0, <1>1, <1>2, <1>3, <1>4 DEF MediaInv, MediaTypeOK, MediaRowsFit, ReferencedIsReady,
     ReadyIsStored, DeletedIsGone, Stepped, Freed, Actors
<1> QED  BY <1>5, <1>6, <1>7, <1>8, <1>9 DEF MediaInv

LEMMA RetireMediaKeeps ==
    ASSUME NEW k \in Cleaners, MediaInv, RetireMedia(k)
    PROVE  MediaInv'
<1> USE MediaAssumption, TypeHolds
<1>0. k \in Actors  BY DEF Actors
<1>1. PICK m \in actor[k].media :
         IF PublishedMedia(m) THEN Return(k) /\ UNCHANGED media
         ELSE media' = [media EXCEPT ![m].state = "deleting"] /\ Goto(k, "lock_cleanup", {m})
  BY DEF RetireMedia
<1>2. /\ m \in Media /\ media[m] \in MediaRow /\ actor[k].at = "check_snapshots" /\ actor[k].media = {m}
      /\ media[m].state \in {"pending", "ready", "deleting"} /\ media[m].recent = FALSE
      /\ m \notin draftMedia /\ mediaLock[m] = k
  BY <1>0, <1>1, RowsTyped DEF RetireMedia, At, MediaInv, MediaTypeOK, StepsFit, StepFits,
     MediaRowsFit, LocksFit, HoldsLocks, ActorRow, ClientSteps, CleanerSteps
<1>3. \/ media' = media /\ Stepped(k, "idle", {})
      \/ /\ m \notin snapshots /\ Becomes(m, "deleting", FALSE, media[m].bound)
         /\ Stepped(k, "lock_cleanup", {m})
  BY <1>0, <1>1, <1>2, Went, Returned, RowBecomes, RowsTyped DEF MediaInv, Steps, RowStates,
     PublishedMedia
<1>4. Freed(k)
  BY <1>0, Released DEF RetireMedia
<1>5. 
    /\ character' = character /\ object' = object /\ draftMedia' = draftMedia
    /\ snapshots' = snapshots /\ late' = late /\ revived' = revived
  BY DEF RetireMedia, locks, references
<1>6. MediaTypeOK'
  BY <1>0, <1>2, <1>3, <1>4, <1>5 DEF MediaInv, MediaTypeOK, Becomes, IsRow, Stepped, Freed,
     Actors, MediaRow, RowStates, ActorRow, Call, Steps
<1>7. LocksFit'
  <2>0. /\ \A b \in Actors \ {k} : actor'[b] = actor[b]
        /\ \/ actor'[k].at = "idle" /\ actor'[k].media = {}
           \/ actor'[k].at = "lock_cleanup" /\ actor'[k].media = {m}
    BY <1>3 DEF Stepped
  <2>1. ASSUME NEW b \in Actors \ {k} PROVE HoldsLocks(b)'
    BY <2>0, <1>0, <1>2, <1>4, <2>1, MediaAssumption DEF MediaInv, MediaTypeOK, LocksFit,
       HoldsLocks, ClientSteps, CleanerSteps, Freed, Actors
  <2>2. HoldsLocks(k)'
    BY <2>0, <1>0, <1>2, <1>4, MediaAssumption DEF MediaInv, MediaTypeOK, LocksFit, HoldsLocks,
       ClientSteps, CleanerSteps, Freed, Actors
  <2> QED  BY <2>1, <2>2 DEF LocksFit, Actors
<1>8. StepsFit'
  <2>1. ASSUME NEW b \in Actors \ {k}, NEW o \in actor[b].media PROVE StepFits(b, o)'
    BY <1>0, <1>2, <1>3, <1>4, <1>5, <2>1 DEF StepsFit, MediaInv, MediaTypeOK, LocksFit,
       HoldsLocks, StepFits, MediaRowsFit, ReferencedIsReady, ClientSteps, CleanerSteps, Becomes,
       IsRow, Stepped, Freed, Actors
  <2>2. ASSUME NEW o \in actor'[k].media PROVE StepFits(k, o)'
    BY <1>0, <1>2, <1>3, <1>4, <1>5, <2>2 DEF StepsFit, MediaInv, MediaTypeOK, LocksFit,
       HoldsLocks, StepFits, MediaRowsFit, ReferencedIsReady, ClientSteps, CleanerSteps, Becomes,
       IsRow, Stepped, Freed, Actors
  <2> QED  BY ZenonT(40), <2>1, <2>2, <1>0, <1>2, <1>3, <1>4, <1>5 DEF MediaInv, StepsFit, Stepped
<1>9. MediaRowsFit'
  BY ZenonT(40), <1>0, <1>2, <1>3, <1>4, <1>5
     DEF MediaInv, MediaRowsFit, Becomes, IsRow, Stepped, Freed, Actors
<1>10. (ReferencedIsReady /\ ReadyIsStored /\ DeletedIsGone)'
  BY ZenonT(40), <1>0, <1>2, <1>3, <1>4, <1>5
     DEF MediaInv, MediaTypeOK, MediaRowsFit, ReferencedIsReady,
     ReadyIsStored, DeletedIsGone, Becomes, IsRow, Stepped, Freed, Actors
<1> QED  BY <1>6, <1>7, <1>8, <1>9, <1>10 DEF MediaInv

LEMMA LockCleanupKeeps ==
    ASSUME NEW k \in Cleaners, MediaInv, LockCleanup(k)
    PROVE  MediaInv'
<1> USE MediaAssumption, TypeHolds
<1>0. k \in Actors  BY DEF Actors
<1>1. PICK m \in actor[k].media :
         /\ RowFree(m)
         /\ IF media[m].state = "deleting"
            THEN mediaLock' = [mediaLock EXCEPT ![m] = k] /\ Goto(k, "delete", {m})
            ELSE Return(k) /\ UNCHANGED mediaLock
  BY DEF LockCleanup
<1>2. /\ m \in Media /\ media[m] \in MediaRow /\ actor[k].at = "lock_cleanup" /\ actor[k].media = {m}
      /\ mediaLock[m] = NoActor
  BY <1>0, <1>1, RowsTyped DEF LockCleanup, At, MediaInv, MediaTypeOK, StepsFit, StepFits,
     MediaRowsFit, LocksFit, HoldsLocks, ActorRow, ClientSteps, CleanerSteps, RowFree
<1>3. \/ /\ media[m].state = "deleting" /\ Locked(k, m)
         /\ Stepped(k, "delete", {m})
      \/ mediaLock' = mediaLock /\ Stepped(k, "idle", {})
  BY <1>0, <1>1, <1>2, Went, Returned, Locks, Released DEF MediaInv, Steps
<1>4. 
    /\ character' = character /\ characterLock' = characterLock /\ media' = media
    /\ object' = object /\ draftMedia' = draftMedia /\ snapshots' = snapshots
    /\ late' = late /\ revived' = revived
  BY DEF LockCleanup, locks, references
<1>5. MediaTypeOK'
  BY <1>0, <1>2, <1>3, <1>4 DEF MediaInv, MediaTypeOK, Stepped, Locked, Actors, MediaRow,
     RowStates, ActorRow, Call, Steps
<1>6. LocksFit'
  <2>1. ASSUME NEW b \in Actors \ {k} PROVE HoldsLocks(b)'
    BY <1>0, <1>2, <1>3, <1>4, <2>1 DEF LocksFit, MediaInv, MediaTypeOK, HoldsLocks, ClientSteps,
       CleanerSteps, Stepped, Locked, Actors
  <2>2. HoldsLocks(k)'
    BY <1>0, <1>2, <1>3, <1>4 DEF LocksFit, MediaInv, MediaTypeOK, HoldsLocks, ClientSteps,
       CleanerSteps, Stepped, Locked, Actors
  <2> QED  BY <2>1, <2>2 DEF LocksFit, Actors
<1>7. StepsFit'
  <2>1. ASSUME NEW b \in Actors \ {k}, NEW o \in actor[b].media PROVE StepFits(b, o)'
    BY <1>0, <1>2, <1>3, <1>4, <2>1 DEF StepsFit, MediaInv, MediaTypeOK, LocksFit, HoldsLocks,
       StepFits, MediaRowsFit, ReferencedIsReady, ClientSteps, CleanerSteps, Stepped, Locked, Actors
  <2>2. ASSUME NEW o \in actor'[k].media PROVE StepFits(k, o)'
    BY <1>0, <1>2, <1>3, <1>4, <2>2 DEF StepsFit, MediaInv, MediaTypeOK, LocksFit, HoldsLocks,
       StepFits, MediaRowsFit, ReferencedIsReady, ClientSteps, CleanerSteps, Stepped, Locked, Actors
  <2> QED  BY <2>1, <2>2, <1>0, <1>2, <1>3, <1>4 DEF MediaInv, StepsFit, Stepped
<1>8. MediaRowsFit'
  BY <1>0, <1>2, <1>3, <1>4 DEF MediaInv, MediaRowsFit, Stepped, Locked, Actors
<1>9. (ReferencedIsReady /\ ReadyIsStored /\ DeletedIsGone)'
  BY <1>0, <1>2, <1>3, <1>4 DEF MediaInv, MediaTypeOK, MediaRowsFit, ReferencedIsReady,
     ReadyIsStored,
     DeletedIsGone, Stepped, Locked, Actors
<1> QED  BY <1>5, <1>6, <1>7, <1>8, <1>9 DEF MediaInv

LEMMA DeleteObjectKeeps ==
    ASSUME NEW k \in Cleaners, MediaInv, DeleteObject(k)
    PROVE  MediaInv'
<1> USE MediaAssumption, TypeHolds
<1>0. k \in Actors  BY DEF Actors
<1>1. PICK m \in actor[k].media :
         \/ object' = [object EXCEPT ![m] = FALSE] /\ Goto(k, "finish", {m}) /\ UNCHANGED locks
         \/ object' \in {object, [object EXCEPT ![m] = FALSE]} /\ Return(k) /\ ReleaseAll(k)
  BY DEF DeleteObject
<1>2. /\ m \in Media /\ media[m] \in MediaRow /\ actor[k].at = "delete" /\ actor[k].media = {m}
      /\ media[m].state = "deleting" /\ mediaLock[m] = k
  BY <1>0, <1>1, RowsTyped, SMTT(30) DEF DeleteObject, At, MediaInv, MediaTypeOK, StepsFit, StepFits,
     MediaRowsFit, LocksFit, HoldsLocks, ActorRow, ClientSteps, CleanerSteps
<1>3. object' \in [Media -> BOOLEAN] /\ \A o \in Media \ {m} : object'[o] = object[o]
  BY <1>1, <1>2, RowsTyped
<1>4. object[m] = FALSE => object'[m] = FALSE
  BY <1>1, <1>2, RowsTyped
<1>5. \/ /\ object'[m] = FALSE /\ Stepped(k, "finish", {m})
         /\ characterLock' = characterLock /\ mediaLock' = mediaLock
      \/ Stepped(k, "idle", {}) /\ Freed(k)
  <2>1. CASE object' = [object EXCEPT ![m] = FALSE] /\ Goto(k, "finish", {m}) /\ UNCHANGED locks
    BY <1>0, <1>2, <2>1, Went, RowsTyped DEF Steps, locks
  <2>2. CASE Return(k) /\ ReleaseAll(k)
    BY <1>0, <2>2, Returned, Released
  <2> QED  BY <1>1, <2>1, <2>2
<1>6. 
    /\ character' = character /\ media' = media /\ draftMedia' = draftMedia
    /\ snapshots' = snapshots /\ late' = late /\ revived' = revived
  BY DEF DeleteObject, locks, references
<1>7. MediaTypeOK'
  BY <1>0, <1>2, <1>3, <1>4, <1>5, <1>6 DEF MediaInv, MediaTypeOK, Stepped, Freed, Actors,
     MediaRow, RowStates, ActorRow, Call, Steps
<1>8. LocksFit'
  BY <1>0, <1>2, <1>3, <1>4, <1>5, <1>6 DEF MediaInv, MediaTypeOK, LocksFit, HoldsLocks,
     ClientSteps, CleanerSteps, Stepped, Freed, Actors
<1>9. StepsFit'
  BY <1>0, <1>2, <1>3, <1>4, <1>5, <1>6 DEF MediaInv, MediaTypeOK, LocksFit, HoldsLocks,
     StepsFit, StepFits, MediaRowsFit, ReferencedIsReady, ClientSteps, CleanerSteps, Stepped, Freed,
     Actors
<1>10. MediaRowsFit'
  BY <1>0, <1>2, <1>3, <1>4, <1>5, <1>6 DEF MediaInv, MediaRowsFit, Stepped, Freed, Actors
<1>11. (ReferencedIsReady /\ ReadyIsStored /\ DeletedIsGone)'
  BY <1>0, <1>2, <1>3, <1>4, <1>5, <1>6 DEF MediaInv, MediaTypeOK, MediaRowsFit, ReferencedIsReady,
     ReadyIsStored, DeletedIsGone, Stepped, Freed, Actors
<1> QED  BY <1>7, <1>8, <1>9, <1>10, <1>11 DEF MediaInv

LEMMA CompleteCleanupKeeps ==
    ASSUME NEW k \in Cleaners, MediaInv, CompleteCleanup(k)
    PROVE  MediaInv'
<1> USE MediaAssumption, TypeHolds
<1>0. k \in Actors  BY DEF Actors
<1>1. PICK m \in actor[k].media : media' \in {media, [media EXCEPT ![m].state = "deleted"]}
  BY DEF CompleteCleanup
<1>2. /\ m \in Media /\ media[m] \in MediaRow /\ actor[k].at = "finish" /\ actor[k].media = {m}
      /\ media[m].state = "deleting" /\ media[m].recent = FALSE /\ object[m] = FALSE /\ mediaLock[m] = k
  <2>1. m \in Media /\ media[m] \in MediaRow /\ actor[k].at = "finish"
    BY <1>0, <1>1, RowsTyped DEF CompleteCleanup, At, ActorRow
  <2>2. actor[k].media = {m} /\ mediaLock[m] = k
    BY <1>0, <1>1, <2>1 DEF MediaInv, LocksFit, HoldsLocks
  <2>3. media[m].state = "deleting" /\ object[m] = FALSE
    BY <1>0, <1>1, <2>1 DEF MediaInv, StepsFit, StepFits
  <2>4. media[m].recent = FALSE
    BY <2>1, <2>3 DEF MediaInv, MediaRowsFit
  <2> QED  BY <2>1, <2>2, <2>3, <2>4
<1>3. media' = media \/ Becomes(m, "deleted", FALSE, media[m].bound)
  BY <1>1, <1>2, RowBecomes, RowsTyped DEF MediaInv, RowStates
<1>4. Stepped(k, "idle", {})
  BY <1>0, Returned DEF CompleteCleanup
<1>5. Freed(k)
  BY <1>0, Released DEF CompleteCleanup
<1>6. 
    /\ character' = character /\ object' = object /\ draftMedia' = draftMedia
    /\ snapshots' = snapshots /\ late' = late /\ revived' = revived
  BY DEF CompleteCleanup, locks, references
<1>7. MediaTypeOK'
  BY <1>0, <1>2, <1>3, <1>4, <1>5, <1>6 DEF MediaInv, MediaTypeOK, Becomes, IsRow, Stepped,
     Freed, Actors, MediaRow, RowStates, ActorRow, Call, Steps
<1>8. LocksFit'
  BY <1>0, <1>2, <1>3, <1>4, <1>5, <1>6 DEF MediaInv, MediaTypeOK, LocksFit, HoldsLocks,
     ClientSteps, CleanerSteps, Stepped, Freed, Actors
<1>9. StepsFit'
  BY <1>0, <1>2, <1>3, <1>4, <1>5, <1>6 DEF MediaInv, MediaTypeOK, LocksFit, HoldsLocks,
     StepsFit, StepFits, MediaRowsFit, ReferencedIsReady, ClientSteps, CleanerSteps, Becomes, IsRow,
     Stepped, Freed, Actors
<1>10. MediaRowsFit'
  BY <1>0, <1>2, <1>3, <1>4, <1>5, <1>6 DEF MediaInv, MediaRowsFit, Becomes, IsRow, Stepped, Freed,
     Actors
<1>11. (ReferencedIsReady /\ ReadyIsStored /\ DeletedIsGone)'
  BY ZenonT(40), <1>0, <1>2, <1>3, <1>4, <1>5, <1>6
     DEF MediaInv, MediaTypeOK, MediaRowsFit, ReferencedIsReady,
     ReadyIsStored, DeletedIsGone, Becomes, IsRow, Stepped, Freed, Actors
<1> QED  BY <1>7, <1>8, <1>9, <1>10, <1>11 DEF MediaInv

LEMMA AttachKeeps ==
    ASSUME NEW m \in Media, MediaInv, Attach(m)
    PROVE  MediaInv'
<1> USE MediaAssumption, TypeHolds
<1>1. /\ media[m].state = "ready" /\ mediaLock[m] = NoActor /\ characterLock = NoActor
      /\ media' = [media EXCEPT ![m].bound = TRUE, ![m].recent = TRUE]
  BY DEF Attach, MayAttach, RowFree, CharacterFree
<1>2. Becomes(m, "ready", TRUE, TRUE)
  BY <1>1, RowBecomes, RowsTyped DEF MediaInv, RowStates
<1>3. draftMedia' = draftMedia \cup {m}
  BY DEF Attach
<1>4. 
    /\ character' = character /\ characterLock' = characterLock /\ mediaLock' = mediaLock
    /\ object' = object /\ snapshots' = snapshots /\ actor' = actor
    /\ late' = late /\ revived' = revived
  BY DEF Attach, locks, references
<1>5. MediaTypeOK'
  BY <1>1, <1>2, <1>3, <1>4 DEF MediaInv, MediaTypeOK, Becomes, IsRow, Actors, MediaRow,
     RowStates, ActorRow, Call, Steps
<1>6. LocksFit'
  BY <1>1, <1>2, <1>3, <1>4 DEF MediaInv, MediaTypeOK, LocksFit, HoldsLocks, ClientSteps,
     CleanerSteps, Actors
<1>7. StepsFit'
  BY <1>1, <1>2, <1>3, <1>4 DEF MediaInv, MediaTypeOK, LocksFit, HoldsLocks, StepsFit, StepFits,
     MediaRowsFit, ReferencedIsReady, ClientSteps, CleanerSteps, Becomes, IsRow, Actors
<1>8. MediaRowsFit'
  BY <1>1, <1>2, <1>3, <1>4 DEF MediaInv, MediaRowsFit, Becomes, IsRow, Actors
<1>9. (ReferencedIsReady /\ ReadyIsStored /\ DeletedIsGone)'
  BY <1>1, <1>2, <1>3, <1>4 DEF MediaInv, MediaTypeOK, MediaRowsFit, ReferencedIsReady,
     ReadyIsStored,
     DeletedIsGone, Becomes, IsRow, Actors
<1> QED  BY <1>5, <1>6, <1>7, <1>8, <1>9 DEF MediaInv

LEMMA DetachKeeps ==
    ASSUME NEW m \in Media, MediaInv, Detach(m)
    PROVE  MediaInv'
<1> USE MediaAssumption, TypeHolds
<1>1. draftMedia' = draftMedia \ {m} /\ characterLock = NoActor
  BY DEF Detach, CharacterFree
<1>2. 
    /\ character' = character /\ characterLock' = characterLock /\ mediaLock' = mediaLock
    /\ media' = media /\ object' = object /\ snapshots' = snapshots
    /\ actor' = actor /\ late' = late /\ revived' = revived
  BY DEF Detach, locks, references
<1>3. MediaTypeOK'
  BY <1>1, <1>2 DEF MediaInv, MediaTypeOK, Actors, MediaRow, RowStates, ActorRow, Call, Steps
<1>4. LocksFit'
  BY <1>1, <1>2 DEF MediaInv, MediaTypeOK, LocksFit, HoldsLocks, ClientSteps, CleanerSteps, Actors
<1>5. StepsFit'
  BY <1>1, <1>2 DEF MediaInv, MediaTypeOK, LocksFit, HoldsLocks, StepsFit, StepFits, MediaRowsFit,
     ReferencedIsReady, ClientSteps, CleanerSteps, Actors
<1>6. MediaRowsFit'
  BY <1>1, <1>2 DEF MediaInv, MediaRowsFit, Actors
<1>7. (ReferencedIsReady /\ ReadyIsStored /\ DeletedIsGone)'
  BY <1>1, <1>2 DEF MediaInv, MediaTypeOK, MediaRowsFit, ReferencedIsReady, ReadyIsStored,
     DeletedIsGone, Actors
<1> QED  BY <1>3, <1>4, <1>5, <1>6, <1>7 DEF MediaInv

LEMMA GraceEndsKeeps ==
    ASSUME NEW m \in Media, MediaInv, GraceEnds(m)
    PROVE  MediaInv'
<1> USE MediaAssumption, TypeHolds
<1>1. /\ <<"store", m>> \notin late
      /\ \A a \in Actors : m \in actor[a].media => actor[a].at \notin {"lock", "store", "complete"}
  BY DEF GraceEnds, Uploading, MediaInv, LocksFit, HoldsLocks, ClientSteps
<1>2. Becomes(m, media[m].state, FALSE, media[m].bound)
  BY RowBecomes, RowsTyped DEF GraceEnds, MediaInv, RowStates
<1>3. media[m].state \in {"pending", "ready"}
  BY RowsTyped DEF GraceEnds, MediaInv, MediaRowsFit, MediaRow, RowStates
<1>4. 
    /\ character' = character /\ characterLock' = characterLock /\ mediaLock' = mediaLock
    /\ object' = object /\ draftMedia' = draftMedia /\ snapshots' = snapshots
    /\ actor' = actor /\ late' = late /\ revived' = revived
  BY DEF GraceEnds, locks, references
<1>5. MediaTypeOK'
  BY <1>1, <1>2, <1>3, <1>4 DEF MediaInv, MediaTypeOK, Becomes, IsRow, Actors, MediaRow,
     RowStates, ActorRow, Call, Steps
<1>6. LocksFit'
  BY <1>1, <1>2, <1>3, <1>4 DEF MediaInv, MediaTypeOK, LocksFit, HoldsLocks, ClientSteps,
     CleanerSteps, Actors
<1>7. StepsFit'
  BY <1>1, <1>2, <1>3, <1>4 DEF MediaInv, MediaTypeOK, LocksFit, HoldsLocks, StepsFit, StepFits,
     MediaRowsFit, ReferencedIsReady, ClientSteps, CleanerSteps, Becomes, IsRow, Actors
<1>8. MediaRowsFit'
  BY <1>1, <1>2, <1>3, <1>4 DEF MediaInv, MediaRowsFit, Becomes, IsRow, Actors
<1>9. (ReferencedIsReady /\ ReadyIsStored /\ DeletedIsGone)'
  BY <1>1, <1>2, <1>3, <1>4 DEF MediaInv, MediaTypeOK, MediaRowsFit, ReferencedIsReady,
     ReadyIsStored,
     DeletedIsGone, Becomes, IsRow, Actors
<1> QED  BY <1>5, <1>6, <1>7, <1>8, <1>9 DEF MediaInv

LEMMA DeleteCharacterKeeps ==
    ASSUME MediaInv, DeleteCharacter
    PROVE  MediaInv'
<1> USE MediaAssumption, TypeHolds
<1>1. draftMedia' = {} /\ character' = FALSE /\ characterLock = NoActor
  BY DEF DeleteCharacter, CharacterFree
<1>2. 
    /\ characterLock' = characterLock /\ mediaLock' = mediaLock /\ media' = media
    /\ object' = object /\ snapshots' = snapshots /\ actor' = actor
    /\ late' = late /\ revived' = revived
  BY DEF DeleteCharacter, locks, references
<1>3. MediaTypeOK'
  BY <1>1, <1>2 DEF MediaInv, MediaTypeOK, Actors, MediaRow, RowStates, ActorRow, Call, Steps
<1>4. LocksFit'
  BY <1>1, <1>2 DEF MediaInv, MediaTypeOK, LocksFit, HoldsLocks, ClientSteps, CleanerSteps, Actors
<1>5. StepsFit'
  BY <1>1, <1>2 DEF MediaInv, MediaTypeOK, LocksFit, HoldsLocks, StepsFit, StepFits, MediaRowsFit,
     ReferencedIsReady, ClientSteps, CleanerSteps, Actors
<1>6. MediaRowsFit'
  BY <1>1, <1>2 DEF MediaInv, MediaRowsFit, Actors
<1>7. (ReferencedIsReady /\ ReadyIsStored /\ DeletedIsGone)'
  BY <1>1, <1>2 DEF MediaInv, MediaTypeOK, MediaRowsFit, ReferencedIsReady, ReadyIsStored,
     DeletedIsGone, Actors
<1> QED  BY <1>3, <1>4, <1>5, <1>6, <1>7 DEF MediaInv

LEMMA LateCallKeeps ==
    ASSUME MediaInv, LateCall
    PROVE  MediaInv'
<1> USE MediaAssumption, TypeHolds
<1>1. PICK m \in Media, kind \in {"store", "delete"} :
         /\ <<kind, m>> \in late /\ late' = late \ {<<kind, m>>}
         /\ object' \in {object, [object EXCEPT ![m] = kind = "store"]}
  <2>1. PICK call \in late : /\ late' = late \ {call}
                            /\ object' \in {object, [object EXCEPT ![call[2]] = call[1] = "store"]}
    BY DEF LateCall
  <2>2. PICK kind \in {"store", "delete"}, m \in Media : call = <<kind, m>>
    BY <2>1, RowsTyped DEF Call
  <2> QED  BY <2>1, <2>2
<1>2. object' \in [Media -> BOOLEAN] /\ \A o \in Media \ {m} : object'[o] = object[o]
  BY <1>1, RowsTyped DEF MediaInv
<1>3. /\ object'[m] = FALSE /\ object[m] = TRUE => <<"delete", m>> \in late
      /\ object'[m] = TRUE /\ object[m] = FALSE => <<"store", m>> \in late
  BY <1>1, RowsTyped DEF MediaInv
<1>4. late' \subseteq late
  BY <1>1
<1>5. 
    /\ character' = character /\ characterLock' = characterLock /\ mediaLock' = mediaLock
    /\ media' = media /\ draftMedia' = draftMedia /\ snapshots' = snapshots
    /\ actor' = actor /\ revived' = revived
  BY DEF LateCall, locks, references
<1>6. MediaTypeOK'
  BY <1>1, <1>2, <1>3, <1>4, <1>5 DEF MediaInv, MediaTypeOK, Actors, MediaRow, RowStates,
     ActorRow, Call, Steps
<1>7. LocksFit'
  BY <1>1, <1>2, <1>3, <1>4, <1>5 DEF MediaInv, MediaTypeOK, LocksFit, HoldsLocks, ClientSteps,
     CleanerSteps, Actors
<1>8. StepsFit'
  BY <1>1, <1>2, <1>3, <1>4, <1>5 DEF MediaInv, MediaTypeOK, LocksFit, HoldsLocks, StepsFit,
     StepFits, MediaRowsFit, ReferencedIsReady, ClientSteps, CleanerSteps, Actors
<1>9. MediaRowsFit'
  BY <1>1, <1>2, <1>3, <1>4, <1>5 DEF MediaInv, MediaRowsFit, Actors
<1>10. (ReferencedIsReady /\ ReadyIsStored /\ DeletedIsGone)'
  BY <1>1, <1>2, <1>3, <1>4, <1>5 DEF MediaInv, MediaTypeOK, MediaRowsFit, ReferencedIsReady,
     ReadyIsStored, DeletedIsGone, Actors
<1> QED  BY <1>6, <1>7, <1>8, <1>9, <1>10 DEF MediaInv

LEMMA LoseKeeps ==
    ASSUME NEW a \in Actors, MediaInv, Lose(a)
    PROVE  MediaInv'
<1> USE MediaAssumption, TypeHolds
<1>0. a \in Actors  BY DEF Actors
<1>1. late' = late \cup ({actor[a].at} \cap {"store", "delete"}) \X actor[a].media
  BY DEF Lose
<1>2. /\ late' \subseteq Call
      /\ \A o \in Media : <<"store", o>> \in late' => <<"store", o>> \in late \/ (actor[a].at = "store" /\ o \in actor[a].media)
      /\ \A o \in Media : <<"delete", o>> \in late' => <<"delete", o>> \in late \/ (actor[a].at = "delete" /\ o \in actor[a].media)
  BY <1>1, RowsTyped DEF MediaInv, Call, ActorRow
<1>3. /\ \A o \in actor[a].media : actor[a].at = "store" => media[o].state = "pending" /\ media[o].recent = TRUE
      /\ \A o \in actor[a].media : actor[a].at = "delete" => media[o].state = "deleting"
  BY DEF MediaInv, StepsFit, StepFits
<1>4. Stepped(a, "idle", {})
  BY <1>0, Returned DEF Lose
<1>5. Freed(a)
  BY <1>0, Released DEF Lose
<1>6. 
    /\ character' = character /\ media' = media /\ object' = object
    /\ draftMedia' = draftMedia /\ snapshots' = snapshots /\ revived' = revived
  BY DEF Lose, locks, references
<1>7. MediaTypeOK'
  BY <1>0, <1>1, <1>2, <1>3, <1>4, <1>5, <1>6 DEF MediaInv, MediaTypeOK, Stepped, Freed, Actors,
     MediaRow, RowStates, ActorRow, Call, Steps
<1>8. LocksFit'
  BY <1>0, <1>1, <1>2, <1>3, <1>4, <1>5, <1>6 DEF MediaInv, MediaTypeOK, LocksFit, HoldsLocks,
     ClientSteps, CleanerSteps, Stepped, Freed, Actors
<1>9. StepsFit'
  BY <1>0, <1>1, <1>2, <1>3, <1>4, <1>5, <1>6 DEF MediaInv, MediaTypeOK, LocksFit, HoldsLocks,
     StepsFit, StepFits, MediaRowsFit, ReferencedIsReady, ClientSteps, CleanerSteps, Stepped, Freed,
     Actors
<1>10. MediaRowsFit'
  BY <1>0, <1>1, <1>2, <1>3, <1>4, <1>5, <1>6 DEF MediaInv, MediaRowsFit, Stepped, Freed, Actors
<1>11. (ReferencedIsReady /\ ReadyIsStored /\ DeletedIsGone)'
  BY <1>0, <1>1, <1>2, <1>3, <1>4, <1>5, <1>6 DEF MediaInv, MediaTypeOK, MediaRowsFit,
     ReferencedIsReady, ReadyIsStored, DeletedIsGone, Stepped, Freed, Actors
<1> QED  BY <1>7, <1>8, <1>9, <1>10, <1>11 DEF MediaInv

\* A medium is taken from the draft, and not brought back.
LEMMA DetachedStay ==
    ASSUME MediaInv, [MediaNext]_mediaVars
    PROVE  \A m \in Media : media[m].bound /\ m \notin draftMedia => m \notin draftMedia'
<1>1. CASE UNCHANGED mediaVars
  BY <1>1 DEF mediaVars
<1>2. CASE \E m \in Media : Attach(m)
  BY <1>2 DEF Attach, MayAttach
<1>3. CASE \E m \in Media : Detach(m)
  BY <1>3 DEF Detach
<1>4. CASE DeleteCharacter
  BY <1>4 DEF DeleteCharacter
<1>5. CASE \E c \in Clients :
         \/ ReserveUpload(c) \/ TouchReservation(c) \/ LockUpload(c)
         \/ StoreObject(c) \/ CompleteUpload(c) \/ ReadDraft(c) \/ Freeze(c)
  BY <1>5 DEF references, ReserveUpload, TouchReservation, LockUpload, StoreObject,
     CompleteUpload, ReadDraft, Freeze
<1>6. CASE \E k \in Cleaners :
         \/ LockForCleanup(k) \/ CheckDraft(k) \/ RetireMedia(k)
         \/ LockCleanup(k) \/ DeleteObject(k) \/ CompleteCleanup(k)
  BY <1>6 DEF references, LockForCleanup, CheckDraft, RetireMedia, LockCleanup, DeleteObject,
     CompleteCleanup
<1>7. CASE LateCall \/ (\E m \in Media : GraceEnds(m)) \/ \E a \in Actors : Lose(a)
  BY <1>7 DEF references, LateCall, GraceEnds, Lose
<1> QED  BY <1>1, <1>2, <1>3, <1>4, <1>5, <1>6, <1>7 DEF MediaNext

\* The invariant holds from the start and in all states.
LEMMA MediaStarts == MediaInit => MediaInv
<1> SUFFICES ASSUME MediaInit PROVE MediaInv
  OBVIOUS
<1> USE MediaAssumption DEF MediaInit, NoRow, IdleActor, Actors
<1>1. MediaTypeOK  BY DEF MediaTypeOK, Steps
<1>2. LocksFit  BY DEF LocksFit, HoldsLocks, ClientSteps, CleanerSteps
<1>3. StepsFit /\ MediaRowsFit  BY DEF StepsFit, StepFits, MediaRowsFit
<1>4. ReferencedIsReady /\ ReadyIsStored /\ DeletedIsGone
  BY DEF ReferencedIsReady, ReadyIsStored, DeletedIsGone
<1> QED  BY <1>1, <1>2, <1>3, <1>4 DEF MediaInv

LEMMA MediaSteps ==
    ASSUME MediaInv, [MediaNext]_mediaVars
    PROVE  MediaInv'
<1>1. CASE UNCHANGED mediaVars
  BY <1>1 DEF mediaVars, MediaInv, MediaTypeOK, LocksFit, HoldsLocks, StepsFit, StepFits,
     MediaRowsFit, ReferencedIsReady, ReadyIsStored, DeletedIsGone
<1>2. CASE MediaNext
  BY <1>2, ReserveUploadKeeps, TouchReservationKeeps, LockUploadKeeps, StoreObjectKeeps,
     CompleteUploadKeeps, ReadDraftKeeps, FreezeKeeps, LockForCleanupKeeps, CheckDraftKeeps,
     RetireMediaKeeps, LockCleanupKeeps, DeleteObjectKeeps, CompleteCleanupKeeps, AttachKeeps,
     DetachKeeps, GraceEndsKeeps, DeleteCharacterKeeps, LateCallKeeps, LoseKeeps DEF MediaNext
<1> QED  BY <1>1, <1>2

\* What a draft or a release shows is ready, what is ready is stored, what was
\* deleted is gone, and a medium that was bound and let go never comes back to the
\* draft: whatever uploads, releases and cleaners do at once, and whichever calls to
\* the store are lost or come late.
THEOREM PublishedMediaStay == MediaSpec => MediaStayWhole
<1> DEFINE Stays == \A m \in Media : media[m].bound /\ m \notin draftMedia => m \notin draftMedia'
<1>1. DetachedStays <=> [][Stays]_mediaVars
  BY DEF DetachedStays
<1>2. MediaInv => MediaTypeOK /\ ReferencedIsReady /\ ReadyIsStored /\ DeletedIsGone
  BY DEF MediaInv
<1>3. MediaInv /\ [MediaNext]_mediaVars => [Stays]_mediaVars
  BY DetachedStay
<1> HIDE DEF Stays
<1> QED  BY <1>1, <1>2, <1>3, MediaStarts, MediaSteps, PTL DEF MediaSpec, MediaStayWhole

-----------------------------------------------------------------------------
(* Tags: the steps of a request *)

\* What is taken for the ascending list is one.
LEMMA AscendingIsIncreasing ==
    ASSUME NEW S, S \subseteq Nat, IsFiniteSet(S)
    PROVE  Cardinality(S) \in Nat /\ Increasing(S, Ascending(S))
  BY Ordering DEF Ascending

\* s lists the elements of S in the order R.
Lists(s, S, R) ==
    /\ s \in Seq(S)
    /\ \A x \in S : \E i \in 1 .. Len(s) : s[i] = x
    /\ \A i, j \in 1 .. Len(s) : i < j => <<s[i], s[j]>> \in R

\* Two lists, one after the other.
LEMMA Joined ==
    ASSUME NEW S, NEW T, NEW R, NEW s, NEW t, Lists(s, S, R), Lists(t, T, R),
           \A x \in S, y \in T : <<x, y>> \in R
    PROVE  Lists(s \o t, S \cup T, R)
<1> DEFINE U == S \cup T
           u == s \o t
<1>1. s \in Seq(S) /\ t \in Seq(T) /\ s \in Seq(U) /\ t \in Seq(U)
  BY SeqMonotonic DEF Lists
<1>2. Len(s) \in Nat /\ Len(t) \in Nat /\ s \in [1 .. Len(s) -> S] /\ t \in [1 .. Len(t) -> T]
  BY <1>1, LenProperties
<1> HIDE DEF U
<1>3. /\ u \in Seq(U) /\ Len(u) = Len(s) + Len(t)
      /\ \A i \in 1 .. Len(s) + Len(t) : u[i] = IF i <= Len(s) THEN s[i] ELSE t[i - Len(s)]
  BY <1>1, ConcatProperties
<1> HIDE DEF u
<1>4. \A x \in U : \E i \in 1 .. Len(u) : u[i] = x
  <2>1. ASSUME NEW x \in S PROVE \E i \in 1 .. Len(u) : u[i] = x
    <3>1. PICK i \in 1 .. Len(s) : s[i] = x
      BY DEF Lists
    <3>2. i \in 1 .. Len(u) /\ i <= Len(s)
      BY <1>2, <1>3
    <3>3. u[i] = x
      BY <3>1, <3>2, <1>3
    <3> QED  BY <3>2, <3>3
  <2>2. ASSUME NEW x \in T PROVE \E i \in 1 .. Len(u) : u[i] = x
    <3>1. PICK i \in 1 .. Len(t) : t[i] = x
      BY DEF Lists
    <3>2. Len(s) + i \in 1 .. Len(u) /\ ~(Len(s) + i <= Len(s)) /\ (Len(s) + i) - Len(s) = i
      BY <1>2, <1>3
    <3>3. u[Len(s) + i] = x
      BY <3>1, <3>2, <1>3
    <3> QED  BY <3>2, <3>3
  <2> QED  BY <2>1, <2>2 DEF U
<1>5. ASSUME NEW i \in 1 .. Len(u), NEW j \in 1 .. Len(u), i < j PROVE <<u[i], u[j]>> \in R
  <2>1. CASE j <= Len(s)
    <3>1. i \in 1 .. Len(s) /\ j \in 1 .. Len(s)
      BY <2>1, <1>2, <1>3, <1>5
    <3>2. u[i] = s[i] /\ u[j] = s[j]
      BY <3>1, <1>2, <1>3
    <3> QED  BY <3>1, <3>2, <1>5 DEF Lists
  <2>2. CASE Len(s) < i
    <3>1. i - Len(s) \in 1 .. Len(t) /\ j - Len(s) \in 1 .. Len(t) /\ i - Len(s) < j - Len(s)
      BY <2>2, <1>2, <1>3, <1>5
    <3>2. u[i] = t[i - Len(s)] /\ u[j] = t[j - Len(s)]
      BY <2>2, <1>2, <1>3, <1>5
    <3> QED  BY <3>1, <3>2 DEF Lists
  <2>3. CASE i <= Len(s) /\ Len(s) < j
    <3>1. i \in 1 .. Len(s) /\ j - Len(s) \in 1 .. Len(t)
      BY <2>3, <1>2, <1>3
    <3>2. u[i] = s[i] /\ u[j] = t[j - Len(s)]
      BY <2>3, <1>2, <1>3
    <3>3. u[i] \in S /\ u[j] \in T
      BY <3>1, <3>2, <1>2
    <3> QED  BY <3>3
  <2> QED  BY <2>1, <2>2, <2>3, <1>2, <1>3
<1> QED  BY <1>3, <1>4, <1>5 DEF Lists, U, u

\* The order in which components and names are locked.
KindRank(kind) == CASE kind = "product" -> 1 [] kind = "character" -> 2 [] OTHER -> 3
RowOrder ==
    {p \in Rows \X Rows : \/ KindRank(p[1][1]) < KindRank(p[2][1])
                          \/ p[1][1] = p[2][1] /\ p[1][2] < p[2][2]}
RowSteps(S) == {RowStep(r) : r \in S}
NameSteps(S) == {NameStep(n) : n \in S}
StepOrder ==
    {<<RowStep(p[1]), RowStep(p[2])>> : p \in RowOrder}
    \cup {<<RowStep(p[1]), NameStep(p[2])>> : p \in Rows \X Names}
    \cup {<<NameStep(p[1]), NameStep(p[2])>> : p \in {p \in Names \X Names : p[1] < p[2]}}

\* A function that meets all elements in order lists them.
LEMMA Mapped ==
    ASSUME NEW S, NEW n \in Nat, NEW f \in [1 .. n -> S], NEW R,
           \A x \in S : \E i \in 1 .. n : f[i] = x,
           \A i, j \in 1 .. n : i < j => <<f[i], f[j]>> \in R
    PROVE  Lists(f, S, R)
<1>1. f \in Seq(S)
  BY SeqDef
<1>2. Len(f) = n
  BY <1>1, LenProperties
<1> QED  BY <1>1, <1>2 DEF Lists

\* The locks of names, of one kind of components, and of all components.
LEMMA NamesListed ==
    ASSUME NEW S \in SUBSET Names
    PROVE  Lists(NameLocks(S), NameSteps(S), StepOrder)
<1> DEFINE n == Cardinality(S)
           q == Ascending(S)
           f == [i \in 1 .. n |-> NameStep(q[i])]
<1>1. S \subseteq Nat /\ IsFiniteSet(S)
  BY TagAssumption, FS_Subset
<1>2. /\ n \in Nat /\ q \in [1 .. n -> S] /\ \A x \in S : \E i \in 1 .. n : q[i] = x
      /\ \A i, j \in 1 .. n : i < j => q[i] < q[j]
  BY <1>1, AscendingIsIncreasing DEF Increasing
<1>3. NameLocks(S) = f
  BY DEF NameLocks
<1> HIDE DEF n, q
<1>4. f \in [1 .. n -> NameSteps(S)] /\ \A i \in 1 .. n : f[i] = NameStep(q[i])
  BY <1>2 DEF NameSteps
<1>5. \A x \in NameSteps(S) : \E i \in 1 .. n : f[i] = x
  <2> SUFFICES ASSUME NEW m \in S PROVE \E i \in 1 .. n : f[i] = NameStep(m)
    BY DEF NameSteps
  <2>1. PICK i \in 1 .. n : q[i] = m
    BY <1>2
  <2> QED  BY <2>1
<1>6. ASSUME NEW i \in 1 .. n, NEW j \in 1 .. n, i < j PROVE <<f[i], f[j]>> \in StepOrder
  <2>1. <<q[i], q[j]>> \in {p \in Names \X Names : p[1] < p[2]}
    BY <1>2, <1>6
  <2>2. f[i] = NameStep(<<q[i], q[j]>>[1]) /\ f[j] = NameStep(<<q[i], q[j]>>[2])
    BY <1>4
  <2> QED  BY <2>1, <2>2 DEF StepOrder
<1> HIDE DEF f
<1> QED  BY <1>2, <1>3, <1>4, <1>5, <1>6, Mapped

LEMMA RowsArePairs ==
    ASSUME NEW r \in Rows
    PROVE  r = <<r[1], r[2]>> /\ r[1] \in {"product", "character", "lorebook"} /\ r[2] \in Nat
<1>1. r \in {"product", "character", "lorebook"} \X Nat
  BY TagAssumption
<1> QED  BY <1>1

LEMMA KindListed ==
    ASSUME NEW S \in SUBSET Rows, NEW kind
    PROVE  Lists(OfKind(S, kind), {r \in S : r[1] = kind}, RowOrder)
<1> DEFINE ids == {id \in {r[2] : r \in S} : <<kind, id>> \in S}
           n == Cardinality(ids)
           q == Ascending(ids)
           f == [i \in 1 .. n |-> <<kind, q[i]>>]
           T == {r \in S : r[1] = kind}
<1>1. ids \subseteq Nat /\ IsFiniteSet(ids)
  <2>1. ids \subseteq Nat
    BY RowsArePairs
  <2>2. IsFiniteSet(ids)
    <3> DEFINE g == [r \in T |-> r[2]]
    <3>1. IsFiniteSet(T)
      BY TagAssumption, FS_Subset
    <3>2. g \in Surjection(T, ids)
      <4>1. ASSUME NEW r \in T PROVE r[2] \in ids
        BY RowsArePairs
      <4>2. ASSUME NEW id \in ids PROVE \E r \in T : g[r] = id
        <5>1. <<kind, id>> \in T /\ <<kind, id>>[2] = id
          OBVIOUS
        <5> QED  BY <5>1
      <4> HIDE DEF ids, T
      <4> QED  BY <4>1, <4>2 DEF Surjection
    <3> HIDE DEF g, ids, T
    <3> QED  BY <3>1, <3>2, FS_Surjection
  <2> QED  BY <2>1, <2>2
<1>2. /\ n \in Nat /\ q \in [1 .. n -> ids] /\ \A x \in ids : \E i \in 1 .. n : q[i] = x
      /\ \A i, j \in 1 .. n : i < j => q[i] < q[j]
  <2> HIDE DEF ids
  <2> QED  BY <1>1, AscendingIsIncreasing DEF Increasing
<1>3. OfKind(S, kind) = f
  BY DEF OfKind
<1>4. \A id \in ids : <<kind, id>> \in T /\ <<kind, id>> \in Rows
  OBVIOUS
<1>5. \A r \in T : r = <<kind, r[2]>> /\ r[2] \in ids
  BY RowsArePairs
<1> HIDE DEF n, q, ids, T
<1>6. f \in [1 .. n -> T] /\ \A i \in 1 .. n : f[i] = <<kind, q[i]>>
  BY <1>2, <1>4
<1>7. \A x \in T : \E i \in 1 .. n : f[i] = x
  <2> SUFFICES ASSUME NEW r \in T PROVE \E i \in 1 .. n : f[i] = r
    OBVIOUS
  <2>1. PICK i \in 1 .. n : q[i] = r[2]
    BY <1>2, <1>5
  <2>2. f[i] = r
    BY <2>1, <1>5, <1>6
  <2> QED  BY <2>2
<1>8. ASSUME NEW i \in 1 .. n, NEW j \in 1 .. n, i < j PROVE <<f[i], f[j]>> \in RowOrder
  <2>1. q[i] \in ids /\ q[j] \in ids /\ q[i] < q[j]
    BY <1>2, <1>8
  <2>2. <<kind, q[i]>> \in Rows /\ <<kind, q[j]>> \in Rows
    BY <2>1, <1>4
  <2> QED  BY <2>1, <2>2, <1>6 DEF RowOrder
<1> HIDE DEF f
<1>9. Lists(f, T, RowOrder)
  BY <1>2, <1>6, <1>7, <1>8, Mapped
<1> QED  BY <1>3, <1>9 DEF T

LEMMA RowsListed ==
    ASSUME NEW S \in SUBSET Rows
    PROVE  Lists(AsLocks(InLockOrder(S)), RowSteps(S), StepOrder)
<1> DEFINE P == {r \in S : r[1] = "product"}
           C == {r \in S : r[1] = "character"}
           L == {r \in S : r[1] = "lorebook"}
           s == InLockOrder(S)
           f == [i \in 1 .. Len(s) |-> RowStep(s[i])]
<1>1. Lists(OfKind(S, "product"), P, RowOrder) /\ Lists(OfKind(S, "character"), C, RowOrder)
      /\ Lists(OfKind(S, "lorebook"), L, RowOrder)
  BY KindListed
<1>2. (P \cup C) \cup L = S
  BY RowsArePairs
<1>3. \A x \in P, y \in C : <<x, y>> \in RowOrder
  BY DEF RowOrder, KindRank
<1>4. \A x \in P \cup C, y \in L : <<x, y>> \in RowOrder
  BY DEF RowOrder, KindRank
<1>5. s = (OfKind(S, "product") \o OfKind(S, "character")) \o OfKind(S, "lorebook")
  BY DEF InLockOrder
<1> HIDE DEF P, C, L, s
<1>6. Lists(s, S, RowOrder)
  <2>1. Lists(OfKind(S, "product") \o OfKind(S, "character"), P \cup C, RowOrder)
    BY <1>1, <1>3, Joined
  <2> QED  BY <2>1, <1>1, <1>2, <1>4, <1>5, Joined
<1>7. s \in Seq(S) /\ Len(s) \in Nat /\ DOMAIN s = 1 .. Len(s) /\ s \in [1 .. Len(s) -> S]
  BY <1>6, LenProperties DEF Lists
<1>8. AsLocks(s) = f
  BY <1>7 DEF AsLocks
<1>9. f \in [1 .. Len(s) -> RowSteps(S)] /\ \A i \in 1 .. Len(s) : f[i] = RowStep(s[i])
  BY <1>7 DEF RowSteps
<1>10. \A x \in RowSteps(S) : \E i \in 1 .. Len(s) : f[i] = x
  <2> SUFFICES ASSUME NEW r \in S PROVE \E i \in 1 .. Len(s) : f[i] = RowStep(r)
    BY DEF RowSteps
  <2>1. PICK i \in 1 .. Len(s) : s[i] = r
    BY <1>6 DEF Lists
  <2> QED  BY <2>1
<1>11. ASSUME NEW i \in 1 .. Len(s), NEW j \in 1 .. Len(s), i < j PROVE <<f[i], f[j]>> \in StepOrder
  <2>1. <<s[i], s[j]>> \in RowOrder
    BY <1>6, <1>11 DEF Lists
  <2>2. f[i] = RowStep(<<s[i], s[j]>>[1]) /\ f[j] = RowStep(<<s[i], s[j]>>[2])
    BY <1>9
  <2> QED  BY <2>1, <2>2 DEF StepOrder
<1> HIDE DEF f
<1>12. Lists(f, RowSteps(S), StepOrder)
  BY <1>7, <1>9, <1>10, <1>11, Mapped
<1> QED  BY <1>8, <1>12 DEF s

\* The components and the names a request locks.
RowsOf(req) ==
    CASE req.kind = "publish" -> req.rows [] req.kind = "create" -> {} [] OTHER -> {req.row}
NamesOf(req) ==
    CASE req.kind = "publish" -> AllNames(req) [] req.kind \in {"unlink", "remove"} -> {}
      [] OTHER -> ToSet(req.names)
StepsFor(req) == RowSteps(RowsOf(req)) \cup NameSteps(NamesOf(req))

\* Every request locks them in the one order.
LEMMA OneRow ==
    ASSUME NEW r
    PROVE  Lists(<<RowStep(r)>>, RowSteps({r}), StepOrder)
<1> DEFINE s == <<RowStep(r)>>
<1>1. s \in Seq({RowStep(r)}) /\ Len(s) = 1 /\ s[1] = RowStep(r)
  OBVIOUS
<1>2. RowSteps({r}) = {RowStep(r)}
  BY DEF RowSteps
<1> HIDE DEF s
<1>3. \A i \in 1 .. Len(s) : i = 1
  BY <1>1
<1>4. \A i, j \in 1 .. Len(s) : ~(i < j)
  BY <1>1, <1>3
<1>5. s \in Seq(RowSteps({r}))
  BY <1>1, <1>2
<1>6. \A x \in RowSteps({r}) : \E i \in 1 .. Len(s) : s[i] = x
  <2>1. 1 \in 1 .. Len(s)
    BY <1>1
  <2> QED  BY <2>1, <1>1, <1>2
<1>7. Lists(s, RowSteps({r}), StepOrder)
  BY <1>4, <1>5, <1>6 DEF Lists
<1> QED  BY <1>7 DEF s

LEMMA TagStepsListed ==
    ASSUME NEW req \in Requests
    PROVE  /\ RowsOf(req) \subseteq Rows /\ NamesOf(req) \subseteq Names
           /\ Lists(TagStepsOf(req), StepsFor(req), StepOrder)
<1>1. RowsOf(req) \subseteq Rows
  BY RequestAssumption DEF RowsOf
<1>2. \A names \in Seq(Names) : ToSet(names) \in SUBSET Names
  <2>1. ASSUME NEW names \in Seq(Names) PROVE ToSet(names) \in SUBSET Names
    <3>1. names \in [1 .. Len(names) -> Names] /\ DOMAIN names = 1 .. Len(names)
      BY LenProperties
    <3> QED  BY <3>1 DEF ToSet
  <2> QED  BY <2>1
<1>3. NamesOf(req) \subseteq Names
  BY <1>2, RequestAssumption DEF NamesOf, AllNames
<1>4. \A S \in SUBSET Rows : \A T \in SUBSET Names : \A x \in RowSteps(S), y \in NameSteps(T) : <<x, y>> \in StepOrder
  <2>1. ASSUME NEW r \in Rows, NEW n \in Names PROVE <<RowStep(r), NameStep(n)>> \in StepOrder
    <3>1. <<r, n>> \in Rows \X Names /\ <<r, n>>[1] = r /\ <<r, n>>[2] = n
      OBVIOUS
    <3> QED  BY <3>1 DEF StepOrder
  <2> QED  BY <2>1 DEF RowSteps, NameSteps
<1>5. CASE req.kind = "publish"
  <2>1. TagStepsOf(req) = AsLocks(InLockOrder(req.rows)) \o NameLocks(AllNames(req))
    BY <1>5 DEF TagStepsOf, PublishLocks
  <2>2. RowsOf(req) = req.rows /\ NamesOf(req) = AllNames(req)
    BY <1>5 DEF RowsOf, NamesOf
  <2> QED  BY <2>1, <2>2, <1>1, <1>3, <1>4, RowsListed, NamesListed, Joined DEF StepsFor
<1>6. CASE req.kind \in {"unlink", "remove"}
  <2>1. TagStepsOf(req) = <<RowStep(req.row)>>
    BY <1>6 DEF TagStepsOf
  <2>2. RowsOf(req) = {req.row} /\ NamesOf(req) = {} /\ NameSteps({}) = {}
    BY <1>6 DEF RowsOf, NamesOf, NameSteps
  <2> QED  BY <2>1, <2>2, <1>1, <1>3, OneRow DEF StepsFor
<1>7. CASE req.kind = "create"
  <2>1. TagStepsOf(req) = NameLocks(ToSet(req.names))
    BY <1>7 DEF TagStepsOf
  <2>2. RowsOf(req) = {} /\ NamesOf(req) = ToSet(req.names) /\ RowSteps({}) = {}
    BY <1>7 DEF RowsOf, NamesOf, RowSteps
  <2> QED  BY <2>1, <2>2, <1>1, <1>3, NamesListed DEF StepsFor
<1>8. CASE req.kind \in {"public", "internal"}
  <2>1. TagStepsOf(req) = <<RowStep(req.row)>> \o NameLocks(ToSet(req.names))
    BY <1>8 DEF TagStepsOf
  <2>2. RowsOf(req) = {req.row} /\ NamesOf(req) = ToSet(req.names)
    BY <1>8 DEF RowsOf, NamesOf
  <2>3. Lists(<<RowStep(req.row)>>, RowSteps({req.row}), StepOrder)
    BY OneRow
  <2>4. Lists(NameLocks(ToSet(req.names)), NameSteps(ToSet(req.names)), StepOrder)
    BY <2>2, <1>3, NamesListed
  <2>5. \A x \in RowSteps({req.row}), y \in NameSteps(ToSet(req.names)) : <<x, y>> \in StepOrder
    BY <2>2, <1>1, <1>3, <1>4
  <2> QED  BY ZenonT(40), <2>1, <2>2, <2>3, <2>4, <2>5, <1>1, <1>3, Joined DEF StepsFor
<1> QED  BY <1>5, <1>6, <1>7, <1>8, RequestAssumption

-----------------------------------------------------------------------------
(* Tags: a transaction is at a place of its steps *)

\* The first steps are done and held, the others are left.
TagWalked(req, todo, held) ==
    LET s == TagStepsOf(req) IN
    \E k \in 0 .. Len(s) :
        /\ todo = [i \in 1 .. Len(s) - k |-> s[k + i]]
        /\ held = {s[i] : i \in 1 .. k}

\* It begins with all steps before it, goes on step by step,
LEMMA TagWalkBegins ==
    ASSUME NEW req \in Requests
    PROVE  TagWalked(req, TagStepsOf(req), {})
<1> DEFINE s == TagStepsOf(req)
<1>1. s \in Seq(StepsFor(req))
  BY TagStepsListed DEF Lists
<1> HIDE DEF s
<1>2. Len(s) \in Nat /\ s \in [1 .. Len(s) -> StepsFor(req)]
  BY <1>1, LenProperties
<1>3. s = [i \in 1 .. Len(s) - 0 |-> s[0 + i]] /\ {} = {s[i] : i \in 1 .. 0} /\ 0 \in 0 .. Len(s)
  BY <1>2
<1> QED  BY <1>3 DEF TagWalked, s

LEMMA TagWalkGoesOn ==
    ASSUME NEW req \in Requests, NEW todo, NEW held, TagWalked(req, todo, held), todo # <<>>
    PROVE  /\ TagWalked(req, Tail(todo), held \cup {Head(todo)})
           /\ Head(todo) \in StepsFor(req) /\ held \subseteq StepsFor(req)
           /\ \A h \in held : <<h, Head(todo)>> \in StepOrder
<1> DEFINE s == TagStepsOf(req)
<1>1. s \in Seq(StepsFor(req)) /\ \A i, j \in 1 .. Len(s) : i < j => <<s[i], s[j]>> \in StepOrder
  BY TagStepsListed DEF Lists
<1>2. PICK k \in 0 .. Len(s) : /\ todo = [i \in 1 .. Len(s) - k |-> s[k + i]]
                               /\ held = {s[i] : i \in 1 .. k}
  BY DEF TagWalked
<1> HIDE DEF s
<1>3. Len(s) \in Nat /\ k \in Nat /\ s \in [1 .. Len(s) -> StepsFor(req)]
  BY <1>1, LenProperties
<1>4. /\ k + 1 \in 1 .. Len(s) /\ Head(todo) = s[k + 1]
      /\ Tail(todo) = [i \in 1 .. Len(s) - (k + 1) |-> s[k + 1 + i]]
  BY <1>1, <1>2, <1>3, Rest
<1>5. {s[i] : i \in 1 .. k + 1} = {s[i] : i \in 1 .. k} \cup {s[k + 1]}
  <2>1. 1 .. k + 1 = (1 .. k) \cup {k + 1}
    BY <1>3
  <2> QED  BY <2>1
<1>6. TagWalked(req, Tail(todo), held \cup {Head(todo)})
  <2>1. held \cup {Head(todo)} = {s[i] : i \in 1 .. k + 1} /\ k + 1 \in 0 .. Len(s)
    BY <1>2, <1>3, <1>4, <1>5
  <2> QED  BY <2>1, <1>4 DEF TagWalked, s
<1>7. \A i \in 1 .. k : i \in 1 .. Len(s) /\ i < k + 1
  BY <1>3
<1>8. held \subseteq StepsFor(req) /\ Head(todo) \in StepsFor(req)
  BY <1>2, <1>3, <1>4, <1>7
<1>9. \A h \in held : <<h, Head(todo)>> \in StepOrder
  BY <1>1, <1>2, <1>4, <1>7
<1> QED  BY <1>6, <1>8, <1>9

\* A transaction that has nothing left to lock holds all that it needs.
LEMMA TagWalkEnds ==
    ASSUME NEW req \in Requests, NEW held, TagWalked(req, <<>>, held)
    PROVE  held = StepsFor(req)
<1> DEFINE s == TagStepsOf(req)
<1>1. s \in Seq(StepsFor(req)) /\ \A x \in StepsFor(req) : \E i \in 1 .. Len(s) : s[i] = x
  BY TagStepsListed DEF Lists
<1>2. PICK k \in 0 .. Len(s) : /\ <<>> = [i \in 1 .. Len(s) - k |-> s[k + i]]
                               /\ held = {s[i] : i \in 1 .. k}
  BY DEF TagWalked
<1> HIDE DEF s
<1>3. Len(s) \in Nat /\ k \in Nat /\ s \in [1 .. Len(s) -> StepsFor(req)]
  BY <1>1, LenProperties
<1>4. PICK todo : todo = <<>> /\ todo = [i \in 1 .. Len(s) - k |-> s[k + i]]
  BY <1>2
<1>5. k = Len(s)
  <2>1. Len(todo) = 0
    BY <1>4
  <2>2. Len(todo) = Len(s) - k
    <3>1. todo = [i \in 1 .. Len(s) - k |-> s[k + i]]
      BY <1>4
    <3> QED  BY <3>1, <1>1, Rest
  <2>3. Len(s) - k = 0
    BY <2>1, <2>2
  <2> QED  BY <2>3, <1>3
<1> QED  BY <1>1, <1>2, <1>3, <1>5

\* It holds nothing but what it has asked for.
LEMMA TagWalkInside ==
    ASSUME NEW req \in Requests, NEW todo, NEW held, TagWalked(req, todo, held)
    PROVE  held \subseteq StepsFor(req)
<1> DEFINE s == TagStepsOf(req)
<1>1. s \in Seq(StepsFor(req))
  BY TagStepsListed DEF Lists
<1>2. PICK k \in 0 .. Len(s) : held = {s[i] : i \in 1 .. k}
  BY DEF TagWalked
<1> HIDE DEF s
<1>3. Len(s) \in Nat /\ k \in Nat /\ s \in [1 .. Len(s) -> StepsFor(req)]
  BY <1>1, LenProperties
<1> QED  BY <1>2, <1>3

\* Steps of rows and names are told apart.
LEMMA StepsDiffer ==
    /\ \A r, n : RowStep(r) # NameStep(n) /\ RowStep(r)[1] = "row" /\ RowStep(r)[2] = r
                 /\ NameStep(n)[1] = "name" /\ NameStep(n)[2] = n
    /\ \A q, r : RowStep(q) = RowStep(r) => q = r
    /\ \A m, n : NameStep(m) = NameStep(n) => m = n
  BY DEF RowStep, NameStep

-----------------------------------------------------------------------------
DictRow == [name: Names, active: BOOLEAN]
LinkRow == [public: Seq(Tags), internal: [Tags -> {NoTag, "admin", "system"}]]

\* Transactions are records of six fields.
TagForm ==
    tagTx = [s \in Sessions |-> [req |-> tagTx[s].req, todo |-> tagTx[s].todo, held |-> tagTx[s].held,
                                 ids |-> tagTx[s].ids, new |-> tagTx[s].new, seen |-> tagTx[s].seen]]

TablesFit == dict \in [Tags -> DictRow \cup {NoTag}] /\ links \in [Rows -> LinkRow]

\* A transaction is at a place of its steps.
WorkFits(req, todo, held) ==
    \/ req = NoTag /\ todo = <<>> /\ held = {}
    \/ req \in Requests /\ TagWalked(req, todo, held)

\* What it knows are the names and rows it has locked; the dictionary still
\* says the same of the names, and the components are linked as they were read.
NamesKnown(held, ids, new) ==
    /\ DOMAIN ids = {n \in Names : NameStep(n) \in held}
    /\ new \subseteq DOMAIN ids
    /\ \A n \in DOMAIN ids : ids[n] \in Tags
    /\ \A n \in new : dict[ids[n]] = NoTag
    /\ \A n \in DOMAIN ids \ new : dict[ids[n]] # NoTag /\ dict[ids[n]].name = n
    /\ \A m, n \in new : ids[m] = ids[n] => m = n

RowsKnown(held, seen) ==
    /\ DOMAIN seen = {r \in Rows : RowStep(r) \in held}
    /\ \A r \in DOMAIN seen : seen[r] = links[r]

SessionFits(s) ==
    /\ WorkFits(tagTx[s].req, tagTx[s].todo, tagTx[s].held)
    /\ NamesKnown(tagTx[s].held, tagTx[s].ids, tagTx[s].new)
    /\ RowsKnown(tagTx[s].held, tagTx[s].seen)

\* A row is locked by one transaction, a tag not yet committed is of one.
Apart(held, new, ids, o) ==
    /\ \A r : RowStep(r) \in held => RowStep(r) \notin tagTx[o].held
    /\ \A n \in new, m \in DOMAIN tagTx[o].ids : ids[n] # tagTx[o].ids[m]
    /\ \A n \in DOMAIN ids, m \in tagTx[o].new : ids[n] # tagTx[o].ids[m]

SessionsApart ==
    \A s, o \in Sessions : s # o => Apart(tagTx[s].held, tagTx[s].new, tagTx[s].ids, o)

\* The inductive invariant.
TagInv == TagForm /\ TablesFit /\ (\A s \in Sessions : SessionFits(s)) /\ SessionsApart

\* One transaction moves, the others stay.
TagMoved(s, req, todo, held, ids, new, seen) ==
    /\ TagForm'
    /\ tagTx'[s] = [req |-> req, todo |-> todo, held |-> held, ids |-> ids, new |-> new, seen |-> seen]
    /\ \A o \in Sessions \ {s} : tagTx'[o] = tagTx[o]

LEMMA TagMovedWhole ==
    ASSUME TagForm, NEW s \in Sessions, NEW req, NEW todo, NEW held, NEW ids, NEW new, NEW seen,
           tagTx' = [tagTx EXCEPT ![s] = [req |-> req, todo |-> todo, held |-> held,
                                          ids |-> ids, new |-> new, seen |-> seen]]
    PROVE  TagMoved(s, req, todo, held, ids, new, seen)
  BY DEF TagForm, TagMoved

TxRow(row, req, todo, held, ids, new, seen) ==
    row = [req |-> req, todo |-> todo, held |-> held, ids |-> ids, new |-> new, seen |-> seen]

\* One field at a time.
LEMMA SetReq ==
    ASSUME NEW row, NEW req, NEW todo, NEW held, NEW ids, NEW new, NEW seen,
           TxRow(row, req, todo, held, ids, new, seen), NEW x
    PROVE  TxRow([row EXCEPT !.req = x], x, todo, held, ids, new, seen)
  BY DEF TxRow
LEMMA SetTodo ==
    ASSUME NEW row, NEW req, NEW todo, NEW held, NEW ids, NEW new, NEW seen,
           TxRow(row, req, todo, held, ids, new, seen), NEW x
    PROVE  TxRow([row EXCEPT !.todo = x], req, x, held, ids, new, seen)
  BY DEF TxRow
LEMMA SetHeld ==
    ASSUME NEW row, NEW req, NEW todo, NEW held, NEW ids, NEW new, NEW seen,
           TxRow(row, req, todo, held, ids, new, seen), NEW x
    PROVE  TxRow([row EXCEPT !.held = x], req, todo, x, ids, new, seen)
  BY DEF TxRow
LEMMA SetIds ==
    ASSUME NEW row, NEW req, NEW todo, NEW held, NEW ids, NEW new, NEW seen,
           TxRow(row, req, todo, held, ids, new, seen), NEW x
    PROVE  TxRow([row EXCEPT !.ids = x], req, todo, held, x, new, seen)
  BY DEF TxRow
LEMMA SetNew ==
    ASSUME NEW row, NEW req, NEW todo, NEW held, NEW ids, NEW new, NEW seen,
           TxRow(row, req, todo, held, ids, new, seen), NEW x
    PROVE  TxRow([row EXCEPT !.new = x], req, todo, held, ids, x, seen)
  BY DEF TxRow
LEMMA SetSeen ==
    ASSUME NEW row, NEW req, NEW todo, NEW held, NEW ids, NEW new, NEW seen,
           TxRow(row, req, todo, held, ids, new, seen), NEW x
    PROVE  TxRow([row EXCEPT !.seen = x], req, todo, held, ids, new, x)
  BY DEF TxRow

LEMMA RowOfTx ==
    ASSUME TagForm, NEW s \in Sessions
    PROVE  TxRow(tagTx[s], tagTx[s].req, tagTx[s].todo, tagTx[s].held, tagTx[s].ids, tagTx[s].new, tagTx[s].seen)
  BY DEF TagForm, TxRow

\* How each action moves its transaction.
LEMMA TagBegins ==
    ASSUME TagForm, NEW s \in Sessions, NEW req, BeginTagWork(s, req)
    PROVE  TagMoved(s, req, TagStepsOf(req), {}, <<>>, {}, <<>>)
<1> DEFINE t == TagStepsOf(req)
           mid == [NoTx EXCEPT !.req = req]
           row == [mid EXCEPT !.todo = t]
<1>1. tagTx' = [tagTx EXCEPT ![s] = row]
  BY DEF BeginTagWork, TagForm
<1>2. TxRow(NoTx, NoTag, <<>>, {}, <<>>, {}, <<>>)
  BY DEF TxRow, NoTx
<1>3. TxRow(mid, req, <<>>, {}, <<>>, {}, <<>>)
  BY <1>2, SetReq
<1> HIDE DEF mid, t
<1>4. TxRow(row, req, t, {}, <<>>, {}, <<>>)
  BY <1>3, SetTodo
<1> HIDE DEF row
<1>5. TagMoved(s, req, t, {}, <<>>, {}, <<>>)
  BY <1>1, <1>4, TagMovedWhole DEF TxRow
<1> QED  BY <1>5 DEF t

LEMMA TagEnds ==
    ASSUME TagForm, NEW s \in Sessions, tagTx' = [tagTx EXCEPT ![s] = NoTx]
    PROVE  TagMoved(s, NoTag, <<>>, {}, <<>>, {}, <<>>)
<1>1. tagTx' = [tagTx EXCEPT ![s] = [req |-> NoTag, todo |-> <<>>, held |-> {}, ids |-> <<>>, new |-> {}, seen |-> <<>>]]
  BY DEF NoTx
<1> QED  BY <1>1, TagMovedWhole

LEMMA TagReads ==
    ASSUME TagForm, NEW s \in Sessions, NEW step, ReadRow(s, step)
    PROVE  TagMoved(s, tagTx[s].req, Tail(tagTx[s].todo), tagTx[s].held \cup {step}, tagTx[s].ids, tagTx[s].new,
                    Noted(tagTx[s].seen, step[2], links[step[2]]))
<1> DEFINE t == Tail(tagTx[s].todo)
           h == tagTx[s].held \cup {step}
           e == Noted(tagTx[s].seen, step[2], links[step[2]])
           row == tagTx[s]
           mid == [row EXCEPT !.todo = t]
           mid2 == [mid EXCEPT !.held = h]
           end == [mid2 EXCEPT !.seen = e]
<1>1. tagTx' = [tagTx EXCEPT ![s] = end]
  BY DEF ReadRow, TagForm
<1>2. TxRow(row, tagTx[s].req, tagTx[s].todo, tagTx[s].held, tagTx[s].ids, tagTx[s].new, tagTx[s].seen)
  BY RowOfTx
<1> HIDE DEF row, t, h, e
<1>3. TxRow(mid, tagTx[s].req, t, tagTx[s].held, tagTx[s].ids, tagTx[s].new, tagTx[s].seen)
  BY <1>2, SetTodo
<1> HIDE DEF mid
<1>4. TxRow(mid2, tagTx[s].req, t, h, tagTx[s].ids, tagTx[s].new, tagTx[s].seen)
  BY <1>3, SetHeld
<1> HIDE DEF mid2
<1>5. TxRow(end, tagTx[s].req, t, h, tagTx[s].ids, tagTx[s].new, e)
  BY <1>4, SetSeen
<1> HIDE DEF end
<1>6. TagMoved(s, tagTx[s].req, t, h, tagTx[s].ids, tagTx[s].new, e)
  BY <1>1, <1>5, TagMovedWhole DEF TxRow
<1> QED  BY <1>6 DEF t, h, e

LEMMA TagResolves ==
    ASSUME TagForm, NEW s \in Sessions, NEW step, ResolveName(s, step)
    PROVE  \E t \in IF Named(step[2]) # {} THEN Named(step[2]) ELSE UnusedTag :
             TagMoved(s, tagTx[s].req, Tail(tagTx[s].todo), tagTx[s].held \cup {step},
                      Noted(tagTx[s].ids, step[2], t),
                      IF Named(step[2]) # {} THEN tagTx[s].new ELSE tagTx[s].new \cup {step[2]},
                      tagTx[s].seen)
<1>1. PICK t \in IF Named(step[2]) # {} THEN Named(step[2]) ELSE UnusedTag :
         tagTx' = [tagTx EXCEPT ![s].todo = Tail(@), ![s].held = @ \cup {step},
                          ![s].ids = Noted(@, step[2], t),
                          ![s].new = IF Named(step[2]) # {} THEN @ ELSE @ \cup {step[2]}]
  BY DEF ResolveName
<1> DEFINE d == Tail(tagTx[s].todo)
           h == tagTx[s].held \cup {step}
           i == Noted(tagTx[s].ids, step[2], t)
           n == IF Named(step[2]) # {} THEN tagTx[s].new ELSE tagTx[s].new \cup {step[2]}
           row == tagTx[s]
           mid == [row EXCEPT !.todo = d]
           mid2 == [mid EXCEPT !.held = h]
           mid3 == [mid2 EXCEPT !.ids = i]
           end == [mid3 EXCEPT !.new = n]
<1>2. tagTx' = [tagTx EXCEPT ![s] = end]
  BY <1>1 DEF TagForm
<1>3. TxRow(row, tagTx[s].req, tagTx[s].todo, tagTx[s].held, tagTx[s].ids, tagTx[s].new, tagTx[s].seen)
  BY RowOfTx
<1> HIDE DEF row, d, h, i, n
<1>4. TxRow(mid, tagTx[s].req, d, tagTx[s].held, tagTx[s].ids, tagTx[s].new, tagTx[s].seen)
  BY <1>3, SetTodo
<1> HIDE DEF mid
<1>5. TxRow(mid2, tagTx[s].req, d, h, tagTx[s].ids, tagTx[s].new, tagTx[s].seen)
  BY <1>4, SetHeld
<1> HIDE DEF mid2
<1>6. TxRow(mid3, tagTx[s].req, d, h, i, tagTx[s].new, tagTx[s].seen)
  BY <1>5, SetIds
<1> HIDE DEF mid3
<1>7. TxRow(end, tagTx[s].req, d, h, i, n, tagTx[s].seen)
  BY <1>6, SetNew
<1> HIDE DEF end
<1>8. TagMoved(s, tagTx[s].req, d, h, i, n, tagTx[s].seen)
  BY <1>2, <1>7, TagMovedWhole DEF TxRow
<1> QED  BY <1>8 DEF d, h, i, n

-----------------------------------------------------------------------------
(* Tags: the invariant, while nothing is written *)

\* A finite set has an element with none after it, in any strict order.
LEMMA LastOfFinite ==
    ASSUME NEW S, IsFiniteSet(S), S # {}, NEW R,
           \A x \in S : <<x, x>> \notin R,
           \A x, y, z \in S : <<x, y>> \in R /\ <<y, z>> \in R => <<x, z>> \in R
    PROVE  \E m \in S : \A x \in S : <<m, x>> \notin R
<1> DEFINE Good(T) == \E m \in T : \A x \in T : <<m, x>> \notin R
           Bad == {T \in SUBSET S : T # {} /\ ~Good(T)}
<1>1. SUFFICES ASSUME Bad # {} PROVE FALSE
  OBVIOUS
<1>2. Bad \subseteq SUBSET S
  OBVIOUS
<1>3. PICK T \in Bad : \A U \in (SUBSET T) \ {T} : U \notin Bad
  <2> HIDE DEF Bad
  <2> QED  BY <1>1, <1>2, SmallestBad
<1>4. T \subseteq S /\ T # {} /\ ~Good(T)
  OBVIOUS
<1>5. PICK y \in T : TRUE
  BY <1>4
<1>6. T \ {y} # {}
  BY <1>4
<1>7. Good(T \ {y})
  <2>1. T \ {y} \notin Bad
    <3>1. T \ {y} \in (SUBSET T) \ {T}
      BY <1>5
    <3> HIDE DEF Bad
    <3> QED  BY <3>1, <1>3
  <2>2. T \ {y} \in SUBSET S
    BY <1>4
  <2> HIDE DEF Good
  <2> QED  BY <2>1, <2>2, <1>6
<1>8. PICK m \in T \ {y} : \A x \in T \ {y} : <<m, x>> \notin R
  BY <1>7
<1>9. CASE <<m, y>> \notin R
  BY <1>4, <1>8, <1>9
<1>10. CASE <<m, y>> \in R
  <2>1. \A x \in T : <<y, x>> \notin R
    BY ZenonT(40), <1>4, <1>8, <1>10
  <2> QED  BY <2>1, <1>4
<1> QED  BY <1>9, <1>10

-----------------------------------------------------------------------------
\* At the start nobody works.
LEMMA InitHolds == TagInit => TagInv
<1> SUFFICES ASSUME TagInit PROVE TagInv
  OBVIOUS
<1>1. \A s \in Sessions : tagTx[s] = NoTx
  BY DEF TagInit
<1>2. \A s \in Sessions : /\ tagTx[s].req = NoTag /\ tagTx[s].todo = <<>> /\ tagTx[s].held = {}
                          /\ tagTx[s].ids = <<>> /\ tagTx[s].new = {} /\ tagTx[s].seen = <<>>
  BY <1>1 DEF NoTx
<1>3. TagForm
  BY <1>2 DEF TagInit, NoTx, TagForm
<1>4. TablesFit
  <2>1. <<>> \in Seq(Tags)
    OBVIOUS
  <2>2. Unlinked \in LinkRow
    BY <2>1 DEF Unlinked, LinkRow
  <2> QED  BY <2>2 DEF TablesFit, TagInit
<1>5. DOMAIN <<>> = {}
  OBVIOUS
<1>6. ASSUME NEW s \in Sessions PROVE SessionFits(s)
  BY <1>2, <1>5 DEF SessionFits, WorkFits, NamesKnown, RowsKnown
<1>7. SessionsApart
  BY <1>2, <1>5 DEF SessionsApart, Apart
<1> QED  BY <1>3, <1>4, <1>6, <1>7 DEF TagInv

\* A step of one transaction that writes nothing.
LEMMA MoveKeeps ==
    ASSUME TagInv, UNCHANGED <<dict, links>>,
           NEW s \in Sessions, NEW req, NEW todo, NEW held, NEW ids, NEW new, NEW seen,
           TagMoved(s, req, todo, held, ids, new, seen),
           WorkFits(req, todo, held), NamesKnown(held, ids, new), RowsKnown(held, seen),
           \A o \in Sessions \ {s} : Apart(held, new, ids, o)
    PROVE  TagInv'
<1>1. TagForm' /\ TablesFit'
  BY DEF TagMoved, TablesFit, TagInv
<1>2. /\ tagTx'[s].req = req /\ tagTx'[s].todo = todo /\ tagTx'[s].held = held
      /\ tagTx'[s].ids = ids /\ tagTx'[s].new = new /\ tagTx'[s].seen = seen
  BY DEF TagMoved
<1>3. \A o \in Sessions \ {s} : tagTx'[o] = tagTx[o]
  BY DEF TagMoved
<1>4. ASSUME NEW o \in Sessions PROVE SessionFits(o)'
  <2>1. CASE o = s
    BY <2>1, <1>2 DEF SessionFits, WorkFits, NamesKnown, RowsKnown
  <2>2. CASE o # s
    <3>1. SessionFits(o)
      BY DEF TagInv
    <3>2. tagTx'[o] = tagTx[o]
      BY <2>2, <1>3
    <3> QED  BY <3>1, <3>2 DEF SessionFits, WorkFits, NamesKnown, RowsKnown
  <2> QED  BY <2>1, <2>2
<1>5. ASSUME NEW p \in Sessions, NEW o \in Sessions, p # o
      PROVE  Apart(tagTx[p].held, tagTx[p].new, tagTx[p].ids, o)'
  <2>1. CASE p = s
    BY <2>1, <1>2, <1>3, <1>5 DEF Apart
  <2>2. CASE o = s
    <3>1. Apart(held, new, ids, p) /\ tagTx'[p] = tagTx[p]
      BY <2>2, <1>3, <1>5
    <3> QED  BY <2>2, <1>2, <3>1 DEF Apart
  <2>3. CASE p # s /\ o # s
    <3>1. Apart(tagTx[p].held, tagTx[p].new, tagTx[p].ids, o)
      BY <1>5 DEF TagInv, SessionsApart
    <3> QED  BY <2>3, <1>3, <3>1 DEF Apart
  <2> QED  BY <2>1, <2>2, <2>3
<1>6. SessionsApart'
  BY <1>5 DEF SessionsApart
<1> QED  BY <1>1, <1>4, <1>6 DEF TagInv

\* One who holds nothing fits everything.
LEMMA FreshFits ==
    /\ NamesKnown({}, <<>>, {}) /\ RowsKnown({}, <<>>)
    /\ \A o : Apart({}, {}, <<>>, o)
<1>1. DOMAIN <<>> = {}
  OBVIOUS
<1> QED  BY <1>1 DEF NamesKnown, RowsKnown, Apart

LEMMA BeginTagKeeps ==
    ASSUME TagInv, NEW s \in Sessions, NEW req \in Requests, BeginTagWork(s, req)
    PROVE  TagInv'
<1>1. TagMoved(s, req, TagStepsOf(req), {}, <<>>, {}, <<>>)
  BY TagBegins DEF TagInv
<1>2. WorkFits(req, TagStepsOf(req), {})
  BY TagWalkBegins DEF WorkFits
<1>3. UNCHANGED <<dict, links>>
  BY DEF BeginTagWork
<1> QED  BY <1>1, <1>2, <1>3, FreshFits, MoveKeeps

LEMMA AbortKeeps ==
    ASSUME TagInv, NEW s \in Sessions, Abort(s)
    PROVE  TagInv'
<1>1. TagMoved(s, NoTag, <<>>, {}, <<>>, {}, <<>>)
  BY TagEnds DEF TagInv, Abort
<1>2. WorkFits(NoTag, <<>>, {})
  BY DEF WorkFits
<1>3. UNCHANGED <<dict, links>>
  BY DEF Abort
<1> QED  BY <1>1, <1>2, <1>3, FreshFits, MoveKeeps

\* What a transaction knows of the step it takes.
LEMMA TagStepFacts ==
    ASSUME TagInv, NEW s \in Sessions, tagTx[s].todo # <<>>
    PROVE  LET step == Head(tagTx[s].todo) IN
           /\ tagTx[s].req \in Requests
           /\ WorkFits(tagTx[s].req, Tail(tagTx[s].todo), tagTx[s].held \cup {step})
           /\ (\E r \in Rows : step = RowStep(r)) \/ (\E n \in Names : step = NameStep(n))
           /\ \A h \in tagTx[s].held : <<h, step>> \in StepOrder
<1>1. WorkFits(tagTx[s].req, tagTx[s].todo, tagTx[s].held)
  BY DEF TagInv, SessionFits
<1>2. tagTx[s].req \in Requests /\ TagWalked(tagTx[s].req, tagTx[s].todo, tagTx[s].held)
  BY <1>1 DEF WorkFits
<1>3. /\ TagWalked(tagTx[s].req, Tail(tagTx[s].todo), tagTx[s].held \cup {Head(tagTx[s].todo)})
      /\ Head(tagTx[s].todo) \in StepsFor(tagTx[s].req)
      /\ \A h \in tagTx[s].held : <<h, Head(tagTx[s].todo)>> \in StepOrder
  BY <1>2, TagWalkGoesOn
<1>4. RowsOf(tagTx[s].req) \subseteq Rows /\ NamesOf(tagTx[s].req) \subseteq Names
  BY <1>2, TagStepsListed
<1>5. (\E r \in Rows : Head(tagTx[s].todo) = RowStep(r)) \/ (\E n \in Names : Head(tagTx[s].todo) = NameStep(n))
  BY <1>3, <1>4 DEF StepsFor, RowSteps, NameSteps
<1> QED  BY <1>2, <1>3, <1>5 DEF WorkFits

\* What may come after the lock of a name and of a row.
LEMMA StepOrderFacts ==
    /\ \A n, x : <<NameStep(n), x>> \in StepOrder => \E m \in Names : x = NameStep(m) /\ n < m
    /\ \A r, x : <<RowStep(r), x>> \in StepOrder =>
          (\E m \in Names : x = NameStep(m)) \/ (\E q \in Rows : x = RowStep(q) /\ <<r, q>> \in RowOrder)
<1>1. ASSUME NEW n, NEW x, <<NameStep(n), x>> \in StepOrder PROVE \E m \in Names : x = NameStep(m) /\ n < m
  <2>1. \/ \E p \in RowOrder : <<NameStep(n), x>> = <<RowStep(p[1]), RowStep(p[2])>>
        \/ \E p \in Rows \X Names : <<NameStep(n), x>> = <<RowStep(p[1]), NameStep(p[2])>>
        \/ \E p \in {p \in Names \X Names : p[1] < p[2]} : <<NameStep(n), x>> = <<NameStep(p[1]), NameStep(p[2])>>
    BY <1>1 DEF StepOrder
  <2>2. PICK p \in Names \X Names : p[1] < p[2] /\ NameStep(n) = NameStep(p[1]) /\ x = NameStep(p[2])
    BY <2>1, StepsDiffer
  <2>3. n = p[1] /\ p[2] \in Names
    BY <2>2, StepsDiffer
  <2> QED  BY <2>2, <2>3
<1>2. ASSUME NEW r, NEW x, <<RowStep(r), x>> \in StepOrder
      PROVE (\E m \in Names : x = NameStep(m)) \/ (\E q \in Rows : x = RowStep(q) /\ <<r, q>> \in RowOrder)
  <2>1. \/ \E p \in RowOrder : <<RowStep(r), x>> = <<RowStep(p[1]), RowStep(p[2])>>
        \/ \E p \in Rows \X Names : <<RowStep(r), x>> = <<RowStep(p[1]), NameStep(p[2])>>
        \/ \E p \in {p \in Names \X Names : p[1] < p[2]} : <<RowStep(r), x>> = <<NameStep(p[1]), NameStep(p[2])>>
    BY <1>2 DEF StepOrder
  <2>2. CASE \E p \in RowOrder : RowStep(r) = RowStep(p[1]) /\ x = RowStep(p[2])
    <3>1. PICK p \in RowOrder : RowStep(r) = RowStep(p[1]) /\ x = RowStep(p[2])
      BY <2>2
    <3>2. p \in Rows \X Rows
      BY DEF RowOrder
    <3>3. r = p[1] /\ p[2] \in Rows /\ p = <<p[1], p[2]>>
      BY <3>1, <3>2, StepsDiffer
    <3> QED  BY <3>1, <3>3
  <2>3. CASE \E p \in Rows \X Names : x = NameStep(p[2])
    <3>1. PICK p \in Rows \X Names : x = NameStep(p[2])
      BY <2>3
    <3> QED  BY <3>1
  <2> QED  BY <2>1, <2>2, <2>3, StepsDiffer
<1> QED  BY <1>1, <1>2

\* A row is locked and read, a name inserted or found.
LEMMA ReadKeeps ==
    ASSUME TagInv, NEW s \in Sessions, tagTx[s].todo # <<>>, UNCHANGED <<dict, links>>,
           ~Taken(s, Head(tagTx[s].todo)), ReadRow(s, Head(tagTx[s].todo))
    PROVE  TagInv'
<1> DEFINE step == Head(tagTx[s].todo)
           held == tagTx[s].held
           seen == tagTx[s].seen
<1>1. /\ WorkFits(tagTx[s].req, Tail(tagTx[s].todo), held \cup {step})
      /\ (\E r \in Rows : step = RowStep(r)) \/ (\E n \in Names : step = NameStep(n))
  BY TagStepFacts
<1>2. step[1] \in {"row", "look"}
  BY DEF ReadRow
<1>3. PICK r \in Rows : step = RowStep(r)
  BY <1>1, <1>2, StepsDiffer
<1>4. step[2] = r
  BY <1>3, StepsDiffer
<1>5. TagMoved(s, tagTx[s].req, Tail(tagTx[s].todo), held \cup {step}, tagTx[s].ids, tagTx[s].new,
               Noted(seen, r, links[r]))
  BY <1>4, TagReads DEF TagInv
<1>6. NamesKnown(held, tagTx[s].ids, tagTx[s].new) /\ RowsKnown(held, seen)
  BY DEF TagInv, SessionFits
<1>7. \A o \in Sessions \ {s} : RowStep(r) \notin tagTx[o].held
  BY <1>3, StepsDiffer DEF Taken
<1>8. \A o \in Sessions \ {s} : Apart(held, tagTx[s].new, tagTx[s].ids, o)
  BY DEF TagInv, SessionsApart
<1> HIDE DEF step, held, seen
<1>9. NamesKnown(held \cup {step}, tagTx[s].ids, tagTx[s].new)
  BY <1>3, <1>6, StepsDiffer DEF NamesKnown
<1>10. RowsKnown(held \cup {step}, Noted(seen, r, links[r]))
  <2> DEFINE e == Noted(seen, r, links[r])
  <2>1. DOMAIN e = DOMAIN seen \cup {r}
    BY DEF Noted
  <2>2. {q \in Rows : RowStep(q) \in held \cup {step}} = {q \in Rows : RowStep(q) \in held} \cup {r}
    BY <1>3, StepsDiffer
  <2>3. \A q \in DOMAIN e : e[q] = links[q]
    BY <1>6 DEF Noted, RowsKnown
  <2> QED  BY <2>1, <2>2, <2>3, <1>6 DEF RowsKnown
<1>11. \A o \in Sessions \ {s} : Apart(held \cup {step}, tagTx[s].new, tagTx[s].ids, o)
  BY <1>3, <1>7, <1>8, StepsDiffer DEF Apart
<1>12. WorkFits(tagTx[s].req, Tail(tagTx[s].todo), held \cup {step})
  BY <1>1
<1> QED  BY <1>5, <1>9, <1>10, <1>11, <1>12, MoveKeeps

LEMMA ResolveKeeps ==
    ASSUME TagInv, NEW s \in Sessions, tagTx[s].todo # <<>>, UNCHANGED <<dict, links>>,
           ~Inserted(s, Head(tagTx[s].todo)), ResolveName(s, Head(tagTx[s].todo))
    PROVE  TagInv'
<1> DEFINE step == Head(tagTx[s].todo)
           held == tagTx[s].held
           ids == tagTx[s].ids
           old == tagTx[s].new
<1>1. /\ WorkFits(tagTx[s].req, Tail(tagTx[s].todo), held \cup {step})
      /\ (\E r \in Rows : step = RowStep(r)) \/ (\E n \in Names : step = NameStep(n))
      /\ \A h \in held : <<h, step>> \in StepOrder
  BY TagStepFacts
<1>2. step[1] = "name"
  BY DEF ResolveName
<1>3. PICK n \in Names : step = NameStep(n)
  BY <1>1, <1>2, StepsDiffer
<1>4. step[2] = n
  BY <1>3, StepsDiffer
<1>5. PICK t \in IF Named(n) # {} THEN Named(n) ELSE UnusedTag :
        TagMoved(s, tagTx[s].req, Tail(tagTx[s].todo), held \cup {step}, Noted(ids, n, t),
                 IF Named(n) # {} THEN old ELSE old \cup {n}, tagTx[s].seen)
  BY <1>4, TagResolves DEF TagInv
<1> DEFINE new == IF Named(n) # {} THEN old ELSE old \cup {n}
           all == Noted(ids, n, t)
<1>6. NamesKnown(held, ids, old) /\ RowsKnown(held, tagTx[s].seen)
  BY DEF TagInv, SessionFits
<1>7. \A o \in Sessions \ {s} : Apart(held, old, ids, o)
  BY DEF TagInv, SessionsApart
<1>8. \A o \in Sessions : NamesKnown(tagTx[o].held, tagTx[o].ids, tagTx[o].new)
  BY DEF TagInv, SessionFits
<1>9. Named(n) = {} => t \in Tags /\ dict[t] = NoTag /\ \A o \in Sessions : \A m \in DOMAIN tagTx[o].ids : tagTx[o].ids[m] # t
  <2>1. SUFFICES ASSUME Named(n) = {} PROVE t \in Tags /\ dict[t] = NoTag /\ \A o \in Sessions : \A m \in DOMAIN tagTx[o].ids : tagTx[o].ids[m] # t
    OBVIOUS
  <2>2. t \in UnusedTag
    BY <2>1, <1>5
  <2> QED  BY <2>2 DEF UnusedTag, Range
<1>10. Named(n) # {} => t \in Tags /\ dict[t] # NoTag /\ dict[t].name = n
  BY <1>5 DEF Named
<1>11. n \notin DOMAIN ids
  <2>1. SUFFICES ASSUME n \in DOMAIN ids PROVE FALSE
    OBVIOUS
  <2>2. NameStep(n) \in held
    BY <2>1, <1>6 DEF NamesKnown
  <2>3. PICK m \in Names : NameStep(n) = NameStep(m) /\ n < m
    BY <2>2, <1>1, <1>3, StepOrderFacts
  <2>4. n = m
    BY <2>3, StepsDiffer
  <2>5. n \in Nat
    BY TagAssumption
  <2> QED  BY <2>3, <2>4, <2>5
<1>12. /\ DOMAIN all = DOMAIN ids \cup {n} /\ all[n] = t
       /\ \A m \in DOMAIN ids : all[m] = ids[m]
  BY <1>11 DEF Noted
<1>13. new \subseteq old \cup {n} /\ old \subseteq new /\ (n \in new <=> Named(n) = {})
  BY <1>6, <1>11 DEF NamesKnown
<1> HIDE DEF step, held, ids, old, new, all
<1>14. NamesKnown(held \cup {step}, all, new)
  <2>1. {m \in Names : NameStep(m) \in held \cup {step}} = {m \in Names : NameStep(m) \in held} \cup {n}
    BY <1>3, StepsDiffer
  <2>2. DOMAIN all = {m \in Names : NameStep(m) \in held \cup {step}} /\ new \subseteq DOMAIN all
    BY <2>1, <1>6, <1>12, <1>13 DEF NamesKnown
  <2>3. \A m \in DOMAIN all : all[m] \in Tags
    BY <1>6, <1>9, <1>10, <1>12 DEF NamesKnown
  <2>4. \A m \in new : dict[all[m]] = NoTag
    BY <1>6, <1>9, <1>12, <1>13 DEF NamesKnown
  <2>5. \A m \in DOMAIN all \ new : dict[all[m]] # NoTag /\ dict[all[m]].name = m
    BY <1>6, <1>10, <1>12, <1>13 DEF NamesKnown
  <2>6. \A m \in DOMAIN ids : n \in new => ids[m] # t
    BY <1>9, <1>13 DEF ids
  <2>7. \A m, k \in new : all[m] = all[k] => m = k
    BY <2>6, <1>6, <1>12, <1>13 DEF NamesKnown
  <2> QED  BY <2>2, <2>3, <2>4, <2>5, <2>7 DEF NamesKnown
<1>15. RowsKnown(held \cup {step}, tagTx[s].seen)
  BY <1>3, <1>6, StepsDiffer DEF RowsKnown
<1>16. ASSUME NEW o \in Sessions \ {s} PROVE Apart(held \cup {step}, new, all, o)
  <2>1. \A r : RowStep(r) \in held \cup {step} => RowStep(r) \notin tagTx[o].held
    BY <1>3, <1>7, StepsDiffer DEF Apart
  <2>2. \A m \in DOMAIN tagTx[o].ids : n \in new => tagTx[o].ids[m] # t
    BY <1>9, <1>13
  <2>3. \A k \in new, m \in DOMAIN tagTx[o].ids : all[k] # tagTx[o].ids[m]
    BY <2>2, <1>6, <1>7, <1>12, <1>13 DEF Apart, NamesKnown
  <2>4. \A m \in tagTx[o].new : m \in DOMAIN tagTx[o].ids /\ dict[tagTx[o].ids[m]] = NoTag
    BY <1>8 DEF NamesKnown
  <2>5. \A m \in tagTx[o].new : t # tagTx[o].ids[m]
    BY <2>4, <1>9, <1>10
  <2>6. \A k \in DOMAIN all, m \in tagTx[o].new : all[k] # tagTx[o].ids[m]
    BY <2>5, <1>7, <1>12 DEF Apart
  <2> QED  BY <2>1, <2>3, <2>6 DEF Apart
<1>17. WorkFits(tagTx[s].req, Tail(tagTx[s].todo), held \cup {step})
  BY <1>1
<1>18. TagMoved(s, tagTx[s].req, Tail(tagTx[s].todo), held \cup {step}, all, new, tagTx[s].seen)
  BY <1>5 DEF all, new
<1> QED  BY <1>6, <1>14, <1>15, <1>16, <1>17, <1>18, MoveKeeps

LEMMA LockKeeps ==
    ASSUME TagInv, NEW s \in Sessions, AcquireTagLock(s)
    PROVE  TagInv'
  BY ReadKeeps, ResolveKeeps DEF AcquireTagLock

\* Rows are renamed and deactivated while nobody has resolved a name.
LEMMA ByAdministratorsKeeps ==
    ASSUME TagInv, NEW t \in Tags, Deactivate(t) \/ \E n \in Names : Rename(t, n)
    PROVE  TagInv'
<1>1. DictionaryIdle /\ dict[t] # NoTag /\ UNCHANGED <<links, tagTx>>
  BY DEF Deactivate, Rename
<1>2. dict[t] \in DictRow
  BY <1>1 DEF TagInv, TablesFit
<1>3. dict' \in [Tags -> DictRow \cup {NoTag}]
  <2>1. CASE Deactivate(t)
    <3>1. dict' = [dict EXCEPT ![t].active = FALSE]
      BY <2>1 DEF Deactivate
    <3>2. dict' = [dict EXCEPT ![t] = [dict[t] EXCEPT !.active = FALSE]]
      BY <3>1
    <3>3. [dict[t] EXCEPT !.active = FALSE] \in DictRow
      BY <1>2 DEF DictRow
    <3> QED  BY <3>2, <3>3 DEF TagInv, TablesFit
  <2>2. ASSUME NEW n \in Names, Rename(t, n) PROVE dict' \in [Tags -> DictRow \cup {NoTag}]
    <3>1. dict' = [dict EXCEPT ![t].name = n]
      BY <2>2 DEF Rename
    <3>2. dict' = [dict EXCEPT ![t] = [dict[t] EXCEPT !.name = n]]
      BY <3>1
    <3>3. [dict[t] EXCEPT !.name = n] \in DictRow
      BY <1>2 DEF DictRow
    <3> QED  BY <3>2, <3>3 DEF TagInv, TablesFit
  <2> QED  BY <2>1, <2>2
<1>4. TablesFit' /\ TagForm' /\ SessionsApart'
  <2>1. TablesFit'
    BY <1>1, <1>3 DEF TagInv, TablesFit
  <2>2. TagForm'
    BY <1>1 DEF TagInv, TagForm
  <2>3. SessionsApart'
    BY <1>1 DEF TagInv, SessionsApart, Apart
  <2> QED  BY <2>1, <2>2, <2>3
<1>5. ASSUME NEW s \in Sessions PROVE SessionFits(s)'
  <2>1. SessionFits(s)
    BY DEF TagInv
  <2>2. DOMAIN tagTx[s].ids = {}
    <3>1. tagTx[s].ids = <<>>
      BY <1>1 DEF DictionaryIdle
    <3> QED  BY <3>1
  <2>3. NamesKnown(tagTx[s].held, tagTx[s].ids, tagTx[s].new)'
    BY <2>1, <2>2, <1>1 DEF SessionFits, NamesKnown
  <2> QED  BY <2>1, <2>3, <1>1 DEF SessionFits, WorkFits, RowsKnown
<1> QED  BY <1>4, <1>5 DEF TagInv

-----------------------------------------------------------------------------
(* Tags: what is written at the end *)

\* Lists and what is in them.
LEMMA ListOf ==
    ASSUME NEW S, NEW q \in Seq(S)
    PROVE  /\ DOMAIN q = 1 .. Len(q) /\ Len(q) \in Nat /\ q \in [1 .. Len(q) -> S]
           /\ ToSet(q) = {q[i] : i \in 1 .. Len(q)} /\ ToSet(q) \subseteq S
<1>1. DOMAIN q = 1 .. Len(q) /\ Len(q) \in Nat /\ q \in [1 .. Len(q) -> S]
  BY LenProperties
<1> QED  BY <1>1 DEF ToSet

LEMMA WithoutIsList ==
    ASSUME NEW S, NEW q \in Seq(S), NEW others
    PROVE  Without(q, others) \in Seq(S) /\ ToSet(Without(q, others)) \subseteq ToSet(q)
<1> DEFINE kept == {i \in DOMAIN q : q[i] \notin others}
           n == Cardinality(kept)
<1>1. DOMAIN q = 1 .. Len(q) /\ Len(q) \in Nat /\ q \in [1 .. Len(q) -> S]
  BY ListOf
<1>2. IsFiniteSet(1 .. Len(q))
  BY <1>1, FS_Interval
<1>3. kept \subseteq Nat /\ IsFiniteSet(kept)
  BY <1>1, <1>2, FS_Subset
<1>4. n \in Nat /\ Ascending(kept) \in [1 .. n -> kept]
  <2> HIDE DEF kept
  <2> QED  BY <1>3, AscendingIsIncreasing DEF Increasing
<1>5. Without(q, others) = [i \in 1 .. n |-> q[Ascending(kept)[i]]]
  BY DEF Without
<1>6. \A i \in 1 .. n : Ascending(kept)[i] \in DOMAIN q
  <2>1. \A i \in 1 .. n : Ascending(kept)[i] \in kept
    <3> HIDE DEF kept, n
    <3> QED  BY <1>4
  <2> QED  BY <2>1
<1> HIDE DEF kept, n
<1> DEFINE w == Without(q, others)
<1>7. w \in [1 .. n -> S] /\ DOMAIN w = 1 .. n
  BY <1>1, <1>5, <1>6
<1>8. \A i \in 1 .. n : w[i] = q[Ascending(kept)[i]]
  BY <1>5
<1> HIDE DEF w
<1>9. w \in Seq(S)
  BY <1>4, <1>7, SeqDef
<1>10. ToSet(w) \subseteq ToSet(q)
  BY <1>6, <1>7, <1>8 DEF ToSet
<1> QED  BY <1>9, <1>10 DEF w

LEMMA AppendedIsList ==
    ASSUME NEW S, NEW p \in Seq(S), NEW q \in Seq(S)
    PROVE  p \o q \in Seq(S) /\ ToSet(p \o q) \subseteq ToSet(p) \cup ToSet(q)
<1> DEFINE u == p \o q
<1>1. /\ u \in Seq(S) /\ Len(u) = Len(p) + Len(q)
      /\ \A i \in 1 .. Len(p) + Len(q) : u[i] = IF i <= Len(p) THEN p[i] ELSE q[i - Len(p)]
  BY ConcatProperties
<1> HIDE DEF u
<1>2. Len(p) \in Nat /\ Len(q) \in Nat
  BY LenProperties
<1>3. ASSUME NEW i \in 1 .. Len(u) PROVE u[i] \in ToSet(p) \cup ToSet(q)
  <2>1. CASE i <= Len(p)
    <3>1. i \in 1 .. Len(p) /\ u[i] = p[i]
      BY <2>1, <1>1, <1>2
    <3> QED  BY <3>1, ListOf
  <2>2. CASE ~(i <= Len(p))
    <3>1. i - Len(p) \in 1 .. Len(q) /\ u[i] = q[i - Len(p)]
      BY <2>2, <1>1, <1>2
    <3> QED  BY <3>1, ListOf
  <2> QED  BY <2>1, <2>2
<1>4. ToSet(u) = {u[i] : i \in 1 .. Len(u)}
  BY <1>1, ListOf
<1> QED  BY <1>1, <1>3, <1>4 DEF u

\* What an owner's request selects was there or is asked for.
LEMMA SelectedPublic ==
    ASSUME NEW S, NEW old \in Seq(S), NEW ids \in Seq(S), NEW append
    PROVE  SelectPublic(old, ids, append) \in Seq(S) /\ ToSet(SelectPublic(old, ids, append)) \subseteq ToSet(old) \cup ToSet(ids)
<1> DEFINE w == Without(ids, ToSet(old))
<1>1. w \in Seq(S) /\ ToSet(w) \subseteq ToSet(ids)
  BY WithoutIsList
<1>2. SelectPublic(old, ids, append) = IF append THEN old \o w ELSE ids
  BY DEF SelectPublic
<1> HIDE DEF w
<1>3. old \o w \in Seq(S) /\ ToSet(old \o w) \subseteq ToSet(old) \cup ToSet(ids)
  BY <1>1, AppendedIsList
<1> QED  BY <1>2, <1>3

\* The ids of the names a transaction has resolved.
LEMMA IdsFound ==
    ASSUME NEW s \in Sessions, NEW names \in Seq(Names), ToSet(names) \subseteq DOMAIN tagTx[s].ids,
           \A n \in DOMAIN tagTx[s].ids : tagTx[s].ids[n] \in Tags
    PROVE  /\ IdsOf(s, names) \in Seq(Tags)
           /\ \A t \in ToSet(IdsOf(s, names)) : \E n \in ToSet(names) : t = tagTx[s].ids[n]
<1>1. DOMAIN names = 1 .. Len(names) /\ Len(names) \in Nat /\ ToSet(names) = {names[i] : i \in 1 .. Len(names)}
  BY ListOf
<1>2. \A i \in 1 .. Len(names) : names[i] \in ToSet(names) /\ names[i] \in DOMAIN tagTx[s].ids
  BY <1>1
<1>3. IdsOf(s, names) = [i \in 1 .. Len(names) |-> tagTx[s].ids[names[i]]]
  BY <1>1 DEF IdsOf
<1>4. IdsOf(s, names) \in [1 .. Len(names) -> Tags]
  BY <1>2, <1>3
<1>5. IdsOf(s, names) \in Seq(Tags)
  BY <1>1, <1>4, SeqDef
<1>6. ToSet(IdsOf(s, names)) = {IdsOf(s, names)[i] : i \in 1 .. Len(names)}
  BY <1>3 DEF ToSet
<1> QED  BY <1>2, <1>3, <1>5, <1>6

\* The dictionary as a transaction leaves it.
LEMMA WithNewFacts ==
    ASSUME TagInv, NEW s \in Sessions
    PROVE  /\ WithNew(s) \in [Tags -> DictRow \cup {NoTag}]
           /\ \A n \in DOMAIN tagTx[s].ids : WithNew(s)[tagTx[s].ids[n]].name = n
           /\ \A t \in Tags : dict[t] # NoTag => WithNew(s)[t] = dict[t]
           /\ \A t \in Tags : (\A n \in tagTx[s].new : tagTx[s].ids[n] # t) => WithNew(s)[t] = dict[t]
<1> DEFINE ids == tagTx[s].ids
           new == tagTx[s].new
           w == WithNew(s)
           the(t) == CHOOSE n \in new : ids[n] = t
<1>1. NamesKnown(tagTx[s].held, ids, new)
  BY DEF TagInv, SessionFits
<1>2. w = [t \in Tags |-> IF \E n \in new : ids[n] = t THEN [name |-> the(t), active |-> TRUE] ELSE dict[t]]
  BY DEF WithNew
<1>3. \A t \in Tags : (\E n \in new : ids[n] = t) => the(t) \in new /\ ids[the(t)] = t
  OBVIOUS
<1> HIDE DEF ids, new, w, the
<1>4. dict \in [Tags -> DictRow \cup {NoTag}]
  BY DEF TagInv, TablesFit
<1>5. new \subseteq Names
  BY <1>1 DEF NamesKnown
<1>6. \A t \in Tags : (\E n \in new : ids[n] = t) => [name |-> the(t), active |-> TRUE] \in DictRow
  BY <1>3, <1>5 DEF DictRow
<1>7. w \in [Tags -> DictRow \cup {NoTag}]
  BY <1>2, <1>4, <1>6
<1>8. ASSUME NEW n \in DOMAIN ids PROVE w[ids[n]].name = n
  <2>1. ids[n] \in Tags
    BY <1>1 DEF NamesKnown
  <2>2. CASE n \in new
    <3>1. the(ids[n]) \in new /\ ids[the(ids[n])] = ids[n]
      BY <2>1, <2>2, <1>3
    <3>2. the(ids[n]) = n
      BY <3>1, <2>2, <1>1 DEF NamesKnown
    <3>3. w[ids[n]] = [name |-> n, active |-> TRUE]
      BY <2>1, <2>2, <3>2, <1>2
    <3> QED  BY <3>3
  <2>3. CASE n \notin new
    <3>1. dict[ids[n]] # NoTag /\ dict[ids[n]].name = n
      BY <2>3, <1>1 DEF NamesKnown
    <3>2. ~(\E m \in new : ids[m] = ids[n])
      BY <3>1, <1>1 DEF NamesKnown
    <3>3. w[ids[n]] = dict[ids[n]]
      BY <2>1, <3>2, <1>2
    <3> QED  BY <3>1, <3>3
  <2> QED  BY <2>2, <2>3
<1>9. \A t \in Tags : (\A n \in new : ids[n] # t) => w[t] = dict[t]
  BY <1>2
<1>10. \A t \in Tags : dict[t] # NoTag => w[t] = dict[t]
  BY <1>1, <1>9 DEF NamesKnown
<1> QED  BY <1>7, <1>8, <1>9, <1>10 DEF ids, new, w

\* What a transaction knows when it writes.
LEMMA WriterKnows ==
    ASSUME TagInv, NEW s \in Sessions, tagTx[s].req # NoTag, tagTx[s].todo = <<>>
    PROVE  /\ tagTx[s].req \in Requests
           /\ DOMAIN tagTx[s].ids = NamesOf(tagTx[s].req)
           /\ DOMAIN tagTx[s].seen = RowsOf(tagTx[s].req)
           /\ \A n \in DOMAIN tagTx[s].ids : tagTx[s].ids[n] \in Tags
           /\ \A r \in DOMAIN tagTx[s].seen : r \in Rows /\ RowStep(r) \in tagTx[s].held /\ tagTx[s].seen[r] = links[r]
<1> DEFINE req == tagTx[s].req
           held == tagTx[s].held
<1>1. WorkFits(req, <<>>, held) /\ NamesKnown(held, tagTx[s].ids, tagTx[s].new) /\ RowsKnown(held, tagTx[s].seen)
  BY DEF TagInv, SessionFits
<1>2. req \in Requests /\ TagWalked(req, <<>>, held)
  BY <1>1 DEF WorkFits
<1> HIDE DEF req, held
<1>3. held = StepsFor(req)
  BY <1>2, TagWalkEnds
<1>4. RowsOf(req) \subseteq Rows /\ NamesOf(req) \subseteq Names
  BY <1>2, TagStepsListed
<1>5. \A n : NameStep(n) \in held <=> n \in NamesOf(req)
  BY <1>3, StepsDiffer DEF StepsFor, RowSteps, NameSteps
<1>6. \A r : RowStep(r) \in held <=> r \in RowsOf(req)
  BY <1>3, StepsDiffer DEF StepsFor, RowSteps, NameSteps
<1>7. DOMAIN tagTx[s].ids = NamesOf(req) /\ \A n \in DOMAIN tagTx[s].ids : tagTx[s].ids[n] \in Tags
  BY <1>1, <1>4, <1>5 DEF NamesKnown
<1>8. DOMAIN tagTx[s].seen = RowsOf(req) /\ \A r \in DOMAIN tagTx[s].seen : tagTx[s].seen[r] = links[r]
  BY <1>1, <1>4, <1>6 DEF RowsKnown
<1> QED  BY <1>2, <1>4, <1>6, <1>7, <1>8 DEF req, held

\* What a write may do to the links of a component.
LinkMeant(s, r, new) ==
    /\ new \in LinkRow
    /\ \A t \in ToSet(new.public) \cup InternalTags(new.internal) :
         \/ t \in LinkedTags(r)
         \/ WithNew(s)[t].active /\ \E n \in NamesFor(tagTx[s].req, r) : n \in DOMAIN tagTx[s].ids /\ t = tagTx[s].ids[n]
    /\ \A t \in Tags : links[r].internal[t] = "admin" /\ new.internal[t] # "admin" => tagTx[s].req.source = "admin"

\* One half of a row is written at a time.
LEMMA SetPublic ==
    ASSUME NEW row \in LinkRow, NEW p \in Seq(Tags)
    PROVE  /\ [row EXCEPT !.public = p] \in LinkRow /\ [row EXCEPT !.public = p].public = p
           /\ [row EXCEPT !.public = p].internal = row.internal
  BY DEF LinkRow
LEMMA SetInternal ==
    ASSUME NEW row \in LinkRow, NEW f \in [Tags -> {NoTag, "admin", "system"}]
    PROVE  /\ [row EXCEPT !.internal = f] \in LinkRow /\ [row EXCEPT !.internal = f].internal = f
           /\ [row EXCEPT !.internal = f].public = row.public
  BY DEF LinkRow

LEMMA LinkRowParts ==
    ASSUME NEW row \in LinkRow
    PROVE  row.public \in Seq(Tags) /\ row.internal \in [Tags -> {NoTag, "admin", "system"}]
  BY DEF LinkRow

\* Every kind of request writes to rows it has locked, and only what is meant.
Written(s) ==
    /\ links' \in [Rows -> LinkRow]
    /\ \A r \in Rows : \/ links'[r] = links[r]
                       \/ r \in RowsOf(tagTx[s].req) /\ LinkMeant(s, r, links'[r])

LEMMA WrittenAt ==
    ASSUME TagInv, NEW s \in Sessions, NEW q \in RowsOf(tagTx[s].req), q \in Rows, NEW row,
           links' = [links EXCEPT ![q] = row], LinkMeant(s, q, row)
    PROVE  Written(s)
<1>1. links \in [Rows -> LinkRow]
  BY DEF TagInv, TablesFit
<1>2. row \in LinkRow
  BY DEF LinkMeant
<1>3. links' \in [Rows -> LinkRow] /\ links'[q] = row /\ \A r \in Rows \ {q} : links'[r] = links[r]
  BY <1>1, <1>2
<1>4. LinkMeant(s, q, links'[q])
  BY <1>3
<1> QED  BY <1>3, <1>4 DEF Written

LEMMA PublicIsMeant ==
    ASSUME TagInv, NEW s \in Sessions, NEW r \in Rows, NEW p \in Seq(Tags),
           \A t \in ToSet(p) : \/ t \in ToSet(links[r].public)
                               \/ /\ WithNew(s)[t].active
                                  /\ \E n \in NamesFor(tagTx[s].req, r) : n \in DOMAIN tagTx[s].ids /\ t = tagTx[s].ids[n]
    PROVE  LinkMeant(s, r, [links[r] EXCEPT !.public = p])
<1> DEFINE new == [links[r] EXCEPT !.public = p]
<1>1. links[r] \in LinkRow
  BY DEF TagInv, TablesFit
<1>2. new \in LinkRow /\ new.public = p /\ new.internal = links[r].internal
  BY <1>1, SetPublic
<1> HIDE DEF new
<1>3. LinkMeant(s, r, new)
  BY <1>2 DEF LinkMeant, LinkedTags
<1> QED  BY <1>3 DEF new

\* Each kind of request.
LEMMA PublishWritten ==
    ASSUME TagInv, NEW s \in Sessions, tagTx[s].req # NoTag, tagTx[s].todo = <<>>,
           tagTx[s].req.kind = "publish", WritePublish(s, tagTx[s].req)
    PROVE  Written(s)
<1> DEFINE req == tagTx[s].req
           New(r) == [links[r] EXCEPT !.public = IdsOf(s, req.names[r])]
<1>1. /\ req \in Requests /\ DOMAIN tagTx[s].ids = NamesOf(req) /\ DOMAIN tagTx[s].seen = RowsOf(req)
      /\ \A n \in DOMAIN tagTx[s].ids : tagTx[s].ids[n] \in Tags
      /\ \A r \in DOMAIN tagTx[s].seen : tagTx[s].seen[r] = links[r]
  BY WriterKnows
<1>2. /\ req.rows \subseteq Rows /\ DOMAIN req.names \subseteq req.rows
      /\ \A r \in DOMAIN req.names : req.names[r] \in Seq(Names)
  BY <1>1, RequestAssumption
<1>3. RowsOf(req) = req.rows /\ NamesOf(req) = UNION {ToSet(req.names[r]) : r \in DOMAIN req.names}
  BY DEF RowsOf, NamesOf, AllNames
<1>4. /\ \A r \in DOMAIN req.names : Assignable(s, IdsOf(s, req.names[r]), ToSet(tagTx[s].seen[r].public))
      /\ links' = [r \in Rows |-> IF r \in DOMAIN req.names THEN New(r) ELSE links[r]]
  BY DEF WritePublish
<1>5. ASSUME NEW r \in DOMAIN req.names PROVE LinkMeant(s, r, New(r))
  <2>1. ToSet(req.names[r]) \subseteq DOMAIN tagTx[s].ids
    BY <1>1, <1>3
  <2>2. req.names[r] \in Seq(Names) /\ r \in Rows /\ tagTx[s].seen[r] = links[r]
    BY <1>1, <1>2, <1>3
  <2>3. /\ IdsOf(s, req.names[r]) \in Seq(Tags)
        /\ \A t \in ToSet(IdsOf(s, req.names[r])) : \E n \in ToSet(req.names[r]) : t = tagTx[s].ids[n]
    <3> HIDE DEF req
    <3> QED  BY <2>1, <2>2, <1>1, IdsFound
  <2>4. NamesFor(req, r) = ToSet(req.names[r])
    BY DEF NamesFor
  <2>5. \A t \in ToSet(IdsOf(s, req.names[r])) : WithNew(s)[t].active \/ t \in ToSet(links[r].public)
    BY <1>4, <2>2 DEF Assignable
  <2>6. \A t \in ToSet(IdsOf(s, req.names[r])) :
          \/ t \in ToSet(links[r].public)
          \/ WithNew(s)[t].active /\ \E n \in NamesFor(req, r) : n \in DOMAIN tagTx[s].ids /\ t = tagTx[s].ids[n]
    BY <2>1, <2>3, <2>4, <2>5
  <2> DEFINE p == IdsOf(s, req.names[r])
  <2> HIDE DEF p
  <2>7. LinkMeant(s, r, [links[r] EXCEPT !.public = p])
    BY <2>2, <2>3, <2>6, PublicIsMeant DEF p
  <2> QED  BY <2>7 DEF p
<1>6. \A r \in DOMAIN req.names : New(r) \in LinkRow
  BY <1>5 DEF LinkMeant
<1>7. links \in [Rows -> LinkRow]
  BY DEF TagInv, TablesFit
<1> HIDE DEF New, req
<1>8. links' \in [Rows -> LinkRow]
  BY <1>4, <1>6, <1>7
<1>9. \A r \in Rows : links'[r] = IF r \in DOMAIN req.names THEN New(r) ELSE links[r]
  BY <1>4
<1>10. \A r \in Rows : links'[r] = links[r] \/ (r \in RowsOf(req) /\ LinkMeant(s, r, links'[r]))
  BY <1>2, <1>3, <1>5, <1>9
<1> QED  BY <1>8, <1>10 DEF Written, req

\* One component's row, locked and read.
LEMMA OneComponent ==
    ASSUME TagInv, NEW s \in Sessions, tagTx[s].req # NoTag, tagTx[s].todo = <<>>,
           tagTx[s].req.kind \in {"public", "internal", "unlink", "remove"}
    PROVE  /\ tagTx[s].req \in Requests /\ tagTx[s].req.row \in Rows /\ RowsOf(tagTx[s].req) = {tagTx[s].req.row}
           /\ tagTx[s].seen[tagTx[s].req.row] = links[tagTx[s].req.row]
           /\ links[tagTx[s].req.row] \in LinkRow
<1>1. tagTx[s].req \in Requests /\ DOMAIN tagTx[s].seen = RowsOf(tagTx[s].req)
      /\ \A r \in DOMAIN tagTx[s].seen : tagTx[s].seen[r] = links[r]
  BY WriterKnows
<1>2. tagTx[s].req.row \in Rows
  BY <1>1, RequestAssumption
<1>3. RowsOf(tagTx[s].req) = {tagTx[s].req.row}
  BY DEF RowsOf
<1> QED  BY <1>1, <1>2, <1>3 DEF TagInv, TablesFit

LEMMA NamesOfOne ==
    ASSUME TagInv, NEW s \in Sessions, tagTx[s].req # NoTag, tagTx[s].todo = <<>>,
           tagTx[s].req.kind \in {"public", "internal"}
    PROVE  LET ids == IdsOf(s, tagTx[s].req.names) IN
           /\ ids \in Seq(Tags)
           /\ \A t \in ToSet(ids) : \E n \in NamesFor(tagTx[s].req, tagTx[s].req.row) :
                n \in DOMAIN tagTx[s].ids /\ t = tagTx[s].ids[n]
<1> DEFINE req == tagTx[s].req
<1>1. /\ req \in Requests /\ DOMAIN tagTx[s].ids = NamesOf(req)
      /\ \A n \in DOMAIN tagTx[s].ids : tagTx[s].ids[n] \in Tags
  BY WriterKnows
<1>2. req.names \in Seq(Names)
  BY <1>1, RequestAssumption
<1>3. NamesOf(req) = ToSet(req.names) /\ NamesFor(req, req.row) = ToSet(req.names)
  BY DEF NamesOf, NamesFor
<1> HIDE DEF req
<1>4. /\ IdsOf(s, req.names) \in Seq(Tags)
      /\ \A t \in ToSet(IdsOf(s, req.names)) : \E n \in ToSet(req.names) : t = tagTx[s].ids[n]
  BY <1>1, <1>2, <1>3, IdsFound
<1> QED  BY <1>1, <1>3, <1>4 DEF req

LEMMA PublicWritten ==
    ASSUME TagInv, NEW s \in Sessions, tagTx[s].req # NoTag, tagTx[s].todo = <<>>,
           tagTx[s].req.kind = "public", WritePublic(s, tagTx[s].req)
    PROVE  Written(s)
<1> DEFINE req == tagTx[s].req
           r == req.row
           ids == IdsOf(s, req.names)
           old == links[r].public
           p == SelectPublic(old, ids, req.append)
<1>1. r \in Rows /\ RowsOf(req) = {r} /\ tagTx[s].seen[r] = links[r] /\ links[r] \in LinkRow
  BY OneComponent
<1>2. ids \in Seq(Tags) /\ \A t \in ToSet(ids) : \E n \in NamesFor(req, r) : n \in DOMAIN tagTx[s].ids /\ t = tagTx[s].ids[n]
  BY NamesOfOne
<1>3. Assignable(s, ids, ToSet(old)) /\ links' = [links EXCEPT ![r].public = p]
  BY <1>1 DEF WritePublic
<1>4. links' = [links EXCEPT ![r] = [links[r] EXCEPT !.public = p]]
  BY <1>3
<1>5. old \in Seq(Tags)
  BY <1>1, LinkRowParts
<1> HIDE DEF ids
<1>6. p \in Seq(Tags) /\ ToSet(p) \subseteq ToSet(old) \cup ToSet(ids)
  <2> HIDE DEF old
  <2> QED  BY <1>2, <1>5, SelectedPublic
<1> HIDE DEF p
<1>7. LinkMeant(s, r, [links[r] EXCEPT !.public = p])
  <2>1. \A t \in ToSet(p) : \/ t \in ToSet(links[r].public)
                            \/ /\ WithNew(s)[t].active
                               /\ \E n \in NamesFor(tagTx[s].req, r) : n \in DOMAIN tagTx[s].ids /\ t = tagTx[s].ids[n]
    BY <1>2, <1>3, <1>6 DEF Assignable
  <2> QED  BY <2>1, <1>1, <1>6, PublicIsMeant
<1> QED  BY <1>1, <1>4, <1>7, WrittenAt

LEMMA UnlinkWritten ==
    ASSUME TagInv, NEW s \in Sessions, tagTx[s].req # NoTag, tagTx[s].todo = <<>>,
           tagTx[s].req.kind = "unlink", Unlink(s, tagTx[s].req)
    PROVE  Written(s)
<1> DEFINE req == tagTx[s].req
           r == req.row
           p == Without(links[r].public, {req.tag})
<1>1. r \in Rows /\ RowsOf(req) = {r} /\ links[r] \in LinkRow
  BY OneComponent
<1>2. links' = [links EXCEPT ![r] = [links[r] EXCEPT !.public = p]]
  BY DEF Unlink
<1>3. links[r].public \in Seq(Tags)
  BY <1>1, LinkRowParts
<1>4. p \in Seq(Tags) /\ ToSet(p) \subseteq ToSet(links[r].public)
  BY <1>3, WithoutIsList
<1> HIDE DEF p
<1>5. LinkMeant(s, r, [links[r] EXCEPT !.public = p])
  BY <1>1, <1>4, PublicIsMeant
<1> QED  BY <1>1, <1>2, <1>5, WrittenAt

LEMMA InternalWritten ==
    ASSUME TagInv, NEW s \in Sessions, tagTx[s].req # NoTag, tagTx[s].todo = <<>>,
           tagTx[s].req.kind = "internal", WriteInternal(s, tagTx[s].req)
    PROVE  Written(s)
<1> DEFINE req == tagTx[s].req
           r == req.row
           ids == IdsOf(s, req.names)
           old == links[r].internal
           f == PlanInternal(old, ids, req.source, req.replace)
           new == [links[r] EXCEPT !.internal = f]
<1>1. req \in Requests /\ r \in Rows /\ RowsOf(req) = {r} /\ tagTx[s].seen[r] = links[r] /\ links[r] \in LinkRow
  BY OneComponent
<1>2. ids \in Seq(Tags) /\ \A t \in ToSet(ids) : \E n \in NamesFor(req, r) : n \in DOMAIN tagTx[s].ids /\ t = tagTx[s].ids[n]
  BY NamesOfOne
<1>3. Assignable(s, ids, InternalTags(old)) /\ links' = [links EXCEPT ![r].internal = f]
  BY <1>1 DEF WriteInternal
<1>4. links' = [links EXCEPT ![r] = new]
  BY <1>3
<1>5. old \in [Tags -> {NoTag, "admin", "system"}]
  BY <1>1, LinkRowParts
<1>6. req.source \in {"admin", "system"}
  BY <1>1, RequestAssumption
<1>7. f = [t \in Tags |-> IF req.source = "system" /\ old[t] = "admin" THEN "admin"
                          ELSE IF t \in ToSet(ids) THEN req.source
                          ELSE IF req.replace THEN NoTag ELSE old[t]]
  BY DEF PlanInternal
<1> HIDE DEF ids, f
<1>8. f \in [Tags -> {NoTag, "admin", "system"}]
  BY <1>5, <1>6, <1>7
<1>9. new \in LinkRow /\ new.internal = f /\ new.public = links[r].public
  BY <1>1, <1>8, SetInternal
<1> HIDE DEF new
<1>10. \A t \in InternalTags(f) : t \in InternalTags(old) \/ t \in ToSet(ids)
  <2> HIDE DEF old
  <2> QED  BY <1>5, <1>7, TagAssumption DEF InternalTags
<1>11. \A t \in Tags : old[t] = "admin" /\ f[t] # "admin" => req.source = "admin"
  <2> HIDE DEF old
  <2> QED  BY <1>6, <1>7
<1>12. LinkMeant(s, r, new)
  <2>1. \A t \in ToSet(new.public) \cup InternalTags(new.internal) :
          \/ t \in LinkedTags(r)
          \/ WithNew(s)[t].active /\ \E n \in NamesFor(req, r) : n \in DOMAIN tagTx[s].ids /\ t = tagTx[s].ids[n]
    BY <1>2, <1>3, <1>9, <1>10 DEF LinkedTags, Assignable
  <2> QED  BY <2>1, <1>9, <1>11 DEF LinkMeant
<1> QED  BY <1>1, <1>4, <1>12, WrittenAt

LEMMA RemoveWritten ==
    ASSUME TagInv, NEW s \in Sessions, tagTx[s].req # NoTag, tagTx[s].todo = <<>>,
           tagTx[s].req.kind = "remove", RemoveInternal(s, tagTx[s].req)
    PROVE  Written(s)
<1> DEFINE req == tagTx[s].req
           r == req.row
           old == links[r].internal
           f == [old EXCEPT ![req.tag] = NoTag]
           new == [links[r] EXCEPT !.internal = f]
<1>1. req \in Requests /\ r \in Rows /\ RowsOf(req) = {r} /\ tagTx[s].seen[r] = links[r] /\ links[r] \in LinkRow
  BY OneComponent
<1>2. ~(req.source = "system" /\ old[req.tag] = "admin") /\ links' = [links EXCEPT ![r].internal[req.tag] = NoTag]
  BY <1>1 DEF RemoveInternal
<1>3. links' = [links EXCEPT ![r] = new]
  BY <1>2
<1>4. old \in [Tags -> {NoTag, "admin", "system"}]
  BY <1>1, LinkRowParts
<1>5. req.source \in {"admin", "system"} /\ req.tag \in Tags
  BY <1>1, RequestAssumption
<1> HIDE DEF old
<1>6. f \in [Tags -> {NoTag, "admin", "system"}] /\ f[req.tag] = NoTag /\ \A t \in Tags \ {req.tag} : f[t] = old[t]
  BY <1>4, <1>5
<1> HIDE DEF f
<1>7. new \in LinkRow /\ new.internal = f /\ new.public = links[r].public
  BY <1>1, <1>6, SetInternal
<1> HIDE DEF new
<1>8. InternalTags(f) \subseteq InternalTags(old)
  BY <1>6 DEF InternalTags
<1>9. \A t \in Tags : old[t] = "admin" /\ f[t] # "admin" => req.source = "admin"
  BY <1>2, <1>5, <1>6
<1>10. LinkMeant(s, r, new)
  BY <1>7, <1>8, <1>9 DEF LinkMeant, LinkedTags, old
<1> QED  BY <1>1, <1>3, <1>10, WrittenAt

LEMMA CommitWrites ==
    ASSUME TagInv, NEW s \in Sessions, CommitTags(s)
    PROVE  Written(s)
<1>1. tagTx[s].req # NoTag /\ tagTx[s].todo = <<>> /\ Write(s, tagTx[s].req)
  BY DEF CommitTags
<1>2. UNCHANGED links => Written(s)
  BY DEF Written, TagInv, TablesFit
<1> QED  BY <1>1, <1>2, PublishWritten, PublicWritten, InternalWritten, UnlinkWritten,
   RemoveWritten DEF Write

-----------------------------------------------------------------------------
(* Tags: theorems *)

\* A commit, seen as a whole.
LEMMA CommitFacts ==
    ASSUME TagInv, NEW s \in Sessions, CommitTags(s)
    PROVE  /\ TagMoved(s, NoTag, <<>>, {}, <<>>, {}, <<>>)
           /\ dict' = WithNew(s) /\ Written(s)
           /\ tagTx[s].req # NoTag /\ tagTx[s].todo = <<>>
  BY CommitWrites, TagEnds DEF CommitTags, TagInv

\* What others know still holds after it.
LEMMA CommitTagsKeeps ==
    ASSUME TagInv, NEW s \in Sessions, CommitTags(s)
    PROVE  TagInv'
<1>1. /\ TagMoved(s, NoTag, <<>>, {}, <<>>, {}, <<>>) /\ dict' = WithNew(s) /\ Written(s)
      /\ tagTx[s].req # NoTag /\ tagTx[s].todo = <<>>
  BY CommitFacts
<1>2. /\ tagTx'[s].req = NoTag /\ tagTx'[s].todo = <<>> /\ tagTx'[s].held = {}
      /\ tagTx'[s].ids = <<>> /\ tagTx'[s].new = {} /\ tagTx'[s].seen = <<>>
      /\ \A o \in Sessions \ {s} : tagTx'[o] = tagTx[o]
      /\ TagForm'
  BY <1>1 DEF TagMoved
<1>3. /\ dict' \in [Tags -> DictRow \cup {NoTag}]
      /\ \A t \in Tags : dict[t] # NoTag => dict'[t] = dict[t]
      /\ \A t \in Tags : (\A n \in tagTx[s].new : tagTx[s].ids[n] # t) => dict'[t] = dict[t]
  BY <1>1, WithNewFacts
<1>4. links' \in [Rows -> LinkRow] /\ \A r \in Rows : links'[r] = links[r] \/ r \in RowsOf(tagTx[s].req)
  BY <1>1 DEF Written
<1>5. \A r \in RowsOf(tagTx[s].req) : RowStep(r) \in tagTx[s].held
  BY <1>1, WriterKnows
<1>6. TablesFit'
  BY <1>3, <1>4 DEF TablesFit
<1>7. DOMAIN <<>> = {}
  OBVIOUS
<1>8. ASSUME NEW o \in Sessions PROVE SessionFits(o)'
  <2>1. CASE o = s
    <3>1. NamesKnown({}, <<>>, {})' /\ RowsKnown({}, <<>>)'
      BY <1>7 DEF NamesKnown, RowsKnown
    <3>2. WorkFits(NoTag, <<>>, {})
      BY DEF WorkFits
    <3>3. WorkFits(tagTx[s].req, tagTx[s].todo, tagTx[s].held)'
      BY <1>2, <3>2
    <3>4. NamesKnown(tagTx[s].held, tagTx[s].ids, tagTx[s].new)'
      BY <1>2, <3>1 DEF NamesKnown
    <3>5. RowsKnown(tagTx[s].held, tagTx[s].seen)'
      BY <1>2, <3>1 DEF RowsKnown
    <3> QED  BY <2>1, <3>3, <3>4, <3>5 DEF SessionFits
  <2>2. CASE o # s
    <3>1. /\ WorkFits(tagTx[o].req, tagTx[o].todo, tagTx[o].held)
          /\ NamesKnown(tagTx[o].held, tagTx[o].ids, tagTx[o].new)
          /\ RowsKnown(tagTx[o].held, tagTx[o].seen)
      BY DEF TagInv, SessionFits
    <3>2. tagTx'[o] = tagTx[o]
      BY <2>2, <1>2
    <3>3. Apart(tagTx[o].held, tagTx[o].new, tagTx[o].ids, s)
      BY <2>2 DEF TagInv, SessionsApart
    <3>4. NamesKnown(tagTx[s].held, tagTx[s].ids, tagTx[s].new)
      BY DEF TagInv, SessionFits
    <3>5. \A n \in DOMAIN tagTx[o].ids : tagTx[o].ids[n] \in Tags
      BY <3>1 DEF NamesKnown
    <3>6. \A n \in tagTx[o].new : n \in DOMAIN tagTx[o].ids /\ \A m \in tagTx[s].new : tagTx[s].ids[m] # tagTx[o].ids[n]
      BY <3>1, <3>3, <3>4 DEF Apart, NamesKnown
    <3>7. \A n \in tagTx[o].new : dict'[tagTx[o].ids[n]] = NoTag
      BY <3>1, <3>5, <3>6, <1>3 DEF NamesKnown
    <3>8. \A n \in DOMAIN tagTx[o].ids \ tagTx[o].new : dict'[tagTx[o].ids[n]] # NoTag /\ dict'[tagTx[o].ids[n]].name = n
      BY <3>1, <3>5, <1>3 DEF NamesKnown
    <3>9. NamesKnown(tagTx[o].held, tagTx[o].ids, tagTx[o].new)'
      BY <3>1, <3>2, <3>7, <3>8 DEF NamesKnown
    <3>10. \A r \in DOMAIN tagTx[o].seen : r \in Rows /\ RowStep(r) \in tagTx[o].held
      BY <3>1 DEF RowsKnown
    <3>11. \A r \in DOMAIN tagTx[o].seen : links'[r] = links[r]
      BY <3>3, <3>10, <1>4, <1>5 DEF Apart
    <3>12. RowsKnown(tagTx[o].held, tagTx[o].seen)'
      BY <3>1, <3>2, <3>11 DEF RowsKnown
    <3>13. WorkFits(tagTx[o].req, tagTx[o].todo, tagTx[o].held)'
      BY <3>1, <3>2
    <3> QED  BY <3>9, <3>12, <3>13 DEF SessionFits
  <2> QED  BY <2>1, <2>2
<1>9. ASSUME NEW p \in Sessions, NEW o \in Sessions, p # o
      PROVE  Apart(tagTx[p].held, tagTx[p].new, tagTx[p].ids, o)'
  <2>1. CASE p = s
    BY <2>1, <1>2, <1>7 DEF Apart
  <2>2. CASE o = s
    BY <2>2, <1>2, <1>7 DEF Apart
  <2>3. CASE p # s /\ o # s
    <3>1. Apart(tagTx[p].held, tagTx[p].new, tagTx[p].ids, o)
      BY <1>9 DEF TagInv, SessionsApart
    <3> QED  BY <2>3, <1>2, <3>1 DEF Apart
  <2> QED  BY <2>1, <2>2, <2>3
<1>10. SessionsApart'
  BY <1>9 DEF SessionsApart
<1> QED  BY <1>2, <1>6, <1>8, <1>10 DEF TagInv

\* The invariant holds in all states.
LEMMA TagStepKeeps == TagInv /\ [TagNext]_tagVars => TagInv'
<1> SUFFICES ASSUME TagInv, [TagNext]_tagVars PROVE TagInv'
  OBVIOUS
<1>1. CASE UNCHANGED tagVars
  <2>1. dict' = dict /\ links' = links /\ tagTx' = tagTx
    BY <1>1 DEF tagVars
  <2>2. TagForm' /\ TablesFit'
    BY <2>1 DEF TagInv, TagForm, TablesFit
  <2>3. ASSUME NEW s \in Sessions PROVE SessionFits(s)'
    BY <2>1 DEF TagInv, SessionFits, WorkFits, NamesKnown, RowsKnown
  <2>4. SessionsApart'
    BY <2>1 DEF TagInv, SessionsApart, Apart
  <2> QED  BY <2>2, <2>3, <2>4 DEF TagInv
<1>2. ASSUME NEW s \in Sessions, NEW req \in Requests, BeginTagWork(s, req) PROVE TagInv'
  BY <1>2, BeginTagKeeps
<1>3. ASSUME NEW s \in Sessions, AcquireTagLock(s) PROVE TagInv'
  BY <1>3, LockKeeps
<1>4. ASSUME NEW s \in Sessions, CommitTags(s) PROVE TagInv'
  BY <1>4, CommitTagsKeeps
<1>5. ASSUME NEW s \in Sessions, Abort(s) PROVE TagInv'
  BY <1>5, AbortKeeps
<1>6. ASSUME NEW t \in Tags, Deactivate(t) \/ \E n \in Names : Rename(t, n) PROVE TagInv'
  BY <1>6, ByAdministratorsKeeps
<1> QED  BY <1>1, <1>2, <1>3, <1>4, <1>5, <1>6 DEF TagNext

LEMMA TagInvHolds == TagSpec => []TagInv
<1>1. TagInit => TagInv
  BY InitHolds
<1>2. TagInv /\ [TagNext]_tagVars => TagInv'
  BY TagStepKeeps
<1> QED  BY <1>1, <1>2, PTL DEF TagSpec

LEMMA TagInvTypes == TagInv => TagTypeOK
<1> SUFFICES ASSUME TagInv PROVE TagTypeOK
  OBVIOUS
<1>1. \A t \in Tags : dict[t] # NoTag => dict[t] \in [name: Names, active: BOOLEAN]
  BY DEF TagInv, TablesFit, DictRow
<1>2. \A r \in Rows : links[r].public \in Seq(Tags) /\ links[r].internal \in [Tags -> {NoTag, "admin", "system"}]
  BY LinkRowParts DEF TagInv, TablesFit
<1>3. \A s \in Sessions : tagTx[s].new \subseteq DOMAIN tagTx[s].ids
  BY DEF TagInv, SessionFits, NamesKnown
<1> QED  BY <1>1, <1>2, <1>3 DEF TagTypeOK

\* Only a commit changes links.
LEMMA OnlyCommitsLink ==
    ASSUME TagInv, [TagNext]_tagVars, NEW s \in Sessions, NEW r \in Rows,
           links[r] # links'[r], tagTx[s] # tagTx'[s]
    PROVE  CommitTags(s)
<1>1. links' # links
  OBVIOUS
<1>2. ~(UNCHANGED tagVars) /\ TagNext
  BY <1>1 DEF tagVars
<1>3. PICK p \in Sessions : CommitTags(p)
  BY <1>1, <1>2 DEF TagNext, BeginTagWork, AcquireTagLock, Abort, Deactivate, Rename
<1>4. \A o \in Sessions \ {p} : tagTx'[o] = tagTx[o]
  BY <1>3, CommitFacts DEF TagMoved
<1>5. p = s
  BY <1>4
<1> QED  BY <1>3, <1>5

\* Every step links only what is meant,
LEMMA LinksMeantStep ==
    ASSUME TagInv, [TagNext]_tagVars, NEW s \in Sessions, NEW r \in Rows,
           links[r] # links'[r], tagTx[s] # tagTx'[s], NEW t, t \in LinkedTags(r)' \ LinkedTags(r)
    PROVE  dict'[t].active /\ dict'[t].name \in NamesFor(tagTx[s].req, r)
<1>1. CommitTags(s)
  BY OnlyCommitsLink
<1>2. dict' = WithNew(s) /\ Written(s)
  BY <1>1, CommitFacts
<1>3. LinkMeant(s, r, links'[r])
  BY <1>2 DEF Written
<1>4. t \in ToSet(links'[r].public) \cup InternalTags(links'[r].internal) /\ t \notin LinkedTags(r)
  BY DEF LinkedTags, InternalTags
<1>5. WithNew(s)[t].active /\ \E n \in NamesFor(tagTx[s].req, r) : n \in DOMAIN tagTx[s].ids /\ t = tagTx[s].ids[n]
  BY <1>3, <1>4 DEF LinkMeant
<1>6. PICK n \in NamesFor(tagTx[s].req, r) : n \in DOMAIN tagTx[s].ids /\ t = tagTx[s].ids[n]
  BY <1>5
<1>7. WithNew(s)[t].name = n
  BY <1>6, WithNewFacts
<1> QED  BY <1>2, <1>5, <1>6, <1>7

\* and takes from an administrator only what an administrator takes.
LEMMA AdminLinksStep ==
    ASSUME TagInv, [TagNext]_tagVars, NEW s \in Sessions, NEW r \in Rows, NEW t \in Tags,
           tagTx[s] # tagTx'[s], links[r].internal[t] = "admin", links'[r].internal[t] # "admin"
    PROVE  tagTx[s].req.source = "admin"
<1>1. links[r] # links'[r]
  OBVIOUS
<1>2. CommitTags(s)
  BY <1>1, OnlyCommitsLink
<1>3. Written(s)
  BY <1>2, CommitFacts
<1>4. LinkMeant(s, r, links'[r])
  BY <1>1, <1>3 DEF Written
<1> QED  BY <1>4 DEF LinkMeant

\* Every commit links components only to tags that are active and have the names
\* that were asked for, and no request of the system takes away or replaces what an
\* administrator has assigned.
THEOREM TagLinksAreSound == TagSpec => LinksAreSound
<1>1. TagInv => TagTypeOK
  BY TagInvTypes
<1> DEFINE Meant == \A s \in Sessions, r \in Rows : links[r] # links'[r] /\ tagTx[s] # tagTx'[s] =>
                      \A t \in LinkedTags(r)' \ LinkedTags(r) :
                        dict'[t].active /\ dict'[t].name \in NamesFor(tagTx[s].req, r)
           Stay == \A s \in Sessions, r \in Rows, t \in Tags :
                     /\ tagTx[s] # tagTx'[s]
                     /\ links[r].internal[t] = "admin" /\ links'[r].internal[t] # "admin"
                     => tagTx[s].req.source = "admin"
<1>2. TagInv /\ [TagNext]_tagVars => [Meant]_tagVars
  BY LinksMeantStep
<1>3. TagInv /\ [TagNext]_tagVars => [Stay]_tagVars
  BY AdminLinksStep
<1>4. LinksAreMeant <=> [][Meant]_tagVars
  BY DEF LinksAreMeant
<1>5. AdminLinksStay <=> [][Stay]_tagVars
  BY DEF AdminLinksStay
<1> HIDE DEF Meant, Stay
<1> QED  BY <1>1, <1>2, <1>3, <1>4, <1>5, TagInvHolds, PTL DEF TagSpec, LinksAreSound

-----------------------------------------------------------------------------
\* The order of components is strict.
LEMMA RowsAreOrdered ==
    /\ \A r : <<r, r>> \notin RowOrder
    /\ \A q, r, z : <<q, r>> \in RowOrder /\ <<r, z>> \in RowOrder => <<q, z>> \in RowOrder
<1>1. \A q, r : <<q, r>> \in RowOrder <=>
        /\ q \in Rows /\ r \in Rows
        /\ KindRank(q[1]) < KindRank(r[1]) \/ (q[1] = r[1] /\ q[2] < r[2])
  BY DEF RowOrder
<1>2. \A k : KindRank(k) \in Nat
  BY DEF KindRank
<1>3. \A r \in Rows : r[2] \in Nat
  BY TagAssumption
<1>4. ASSUME NEW r, <<r, r>> \in RowOrder PROVE FALSE
  <2>1. r \in Rows /\ (KindRank(r[1]) < KindRank(r[1]) \/ r[2] < r[2])
    BY <1>1, <1>4
  <2>2. r[2] \in Nat /\ KindRank(r[1]) \in Nat
    BY <2>1, <1>2, <1>3
  <2>3. \A i \in Nat : ~(i < i)
    OBVIOUS
  <2> QED  BY <2>1, <2>2, <2>3
<1>5. \A i, j, k \in Nat : i < j /\ j < k => i < k
  OBVIOUS
<1>6. ASSUME NEW q, NEW r, NEW z, <<q, r>> \in RowOrder, <<r, z>> \in RowOrder PROVE <<q, z>> \in RowOrder
  <2>1. /\ q \in Rows /\ r \in Rows /\ z \in Rows
        /\ KindRank(q[1]) < KindRank(r[1]) \/ (q[1] = r[1] /\ q[2] < r[2])
        /\ KindRank(r[1]) < KindRank(z[1]) \/ (r[1] = z[1] /\ r[2] < z[2])
    BY <1>1, <1>6
  <2>2. KindRank(q[1]) \in Nat /\ KindRank(r[1]) \in Nat /\ KindRank(z[1]) \in Nat
        /\ q[2] \in Nat /\ r[2] \in Nat /\ z[2] \in Nat
    BY <2>1, <1>2, <1>3
  <2>3. KindRank(q[1]) < KindRank(z[1]) \/ (q[1] = z[1] /\ q[2] < z[2])
    BY <2>1, <2>2, <1>5
  <2> QED  BY <2>1, <2>3, <1>1
<1> QED  BY <1>4, <1>6

\* One who waits for a lock holds none that comes after it.
LEMMA WaiterFacts ==
    ASSUME TagInv, NEW s \in Sessions, NEW o \in Sessions, TagWaitsFor(s, o)
    PROVE  LET step == Head(tagTx[s].todo) IN
           /\ step \in tagTx[o].held
           /\ (\E r \in Rows : step = RowStep(r)) \/ (\E n \in Names : step = NameStep(n))
           /\ tagTx[o].todo # <<>> => <<step, Head(tagTx[o].todo)>> \in StepOrder
<1> DEFINE step == Head(tagTx[s].todo)
<1>1. /\ tagTx[s].todo # <<>>
      /\ \/ step[1] = "row" /\ step \in tagTx[o].held
         \/ step[1] = "name" /\ step[2] \in tagTx[o].new
  BY DEF TagWaitsFor
<1>2. (\E r \in Rows : step = RowStep(r)) \/ (\E n \in Names : step = NameStep(n))
  BY <1>1, TagStepFacts
<1>3. step \in tagTx[o].held
  <2>1. CASE step[1] = "row"
    BY <1>1, <2>1
  <2>2. CASE step[1] = "name"
    <3>1. PICK n \in Names : step = NameStep(n)
      BY <1>2, <2>2, StepsDiffer
    <3>2. n \in tagTx[o].new
      BY <1>1, <2>2, <3>1, StepsDiffer
    <3>3. NamesKnown(tagTx[o].held, tagTx[o].ids, tagTx[o].new)
      BY DEF TagInv, SessionFits
    <3> QED  BY <3>1, <3>2, <3>3 DEF NamesKnown
  <2> QED  BY <1>1, <2>1, <2>2
<1>4. tagTx[o].todo # <<>> => <<step, Head(tagTx[o].todo)>> \in StepOrder
  BY <1>3, TagStepFacts
<1> QED  BY <1>2, <1>3, <1>4

\* No set of publications and edits wait for each other: of the locks they wait for,
\* the last one in the order is held by somebody who waits for a later one.
THEOREM TagsNeverWaitInCircles == TagSpec => []NoTagDeadlock
<1>1. TagInv => NoTagDeadlock
  <2> SUFFICES ASSUME TagInv, NEW S \in SUBSET Sessions, S # {},
                      \A s \in S : \E o \in S : TagWaitsFor(s, o)
               PROVE  FALSE
    BY DEF NoTagDeadlock
  <2> DEFINE Awaited == {Head(tagTx[s].todo) : s \in S}
             names == {n \in Names : NameStep(n) \in Awaited}
             rows == {r \in Rows : RowStep(r) \in Awaited}
  <2>1. ASSUME NEW s \in S
        PROVE  \E next \in Awaited : <<Head(tagTx[s].todo), next>> \in StepOrder
    <3>1. PICK o \in S : TagWaitsFor(s, o)
      OBVIOUS
    <3>2. tagTx[o].todo # <<>>
      BY DEF TagWaitsFor
    <3>3. <<Head(tagTx[s].todo), Head(tagTx[o].todo)>> \in StepOrder
      BY <3>1, <3>2, WaiterFacts
    <3> QED  BY <3>3
  <2>2. \A step \in Awaited : \E next \in Awaited : <<step, next>> \in StepOrder
    BY <2>1
  <2>3. \A step \in Awaited : (\E r \in Rows : step = RowStep(r)) \/ (\E n \in Names : step = NameStep(n))
    <3>1. ASSUME NEW s \in S
          PROVE  (\E r \in Rows : Head(tagTx[s].todo) = RowStep(r)) \/ (\E n \in Names : Head(tagTx[s].todo) = NameStep(n))
      <4>1. PICK o \in S : TagWaitsFor(s, o)
        OBVIOUS
      <4> QED  BY <4>1, WaiterFacts
    <3> QED  BY <3>1
  <2>4. Awaited # {}
    OBVIOUS
  <2> HIDE DEF Awaited
  <2>5. CASE names # {}
    <3>1. names \subseteq Nat /\ IsFiniteSet(names)
      BY TagAssumption, FS_Subset
    <3>2. PICK n \in names : \A m \in names : m <= n
      <4> HIDE DEF names
      <4> QED  BY <2>5, <3>1, LargestOfFinite
    <3>3. PICK next \in Awaited : <<NameStep(n), next>> \in StepOrder
      BY <2>2
    <3>4. PICK m \in Names : next = NameStep(m) /\ n < m
      BY <3>3, StepOrderFacts
    <3>5. m <= n /\ m \in Nat /\ n \in Nat
      BY <3>1, <3>2, <3>3, <3>4
    <3> QED  BY <3>4, <3>5
  <2>6. CASE names = {}
    <3>1. \A step \in Awaited : \E r \in rows : step = RowStep(r)
      BY <2>3, <2>6
    <3>2. rows # {} /\ IsFiniteSet(rows)
      BY <2>4, <3>1, TagAssumption, FS_Subset
    <3>3. PICK r \in rows : \A q \in rows : <<r, q>> \notin RowOrder
      <4> HIDE DEF rows
      <4> QED  BY <3>2, RowsAreOrdered, LastOfFinite
    <3>4. PICK next \in Awaited : <<RowStep(r), next>> \in StepOrder
      BY <2>2
    <3>5. PICK q \in rows : next = RowStep(q)
      BY <3>1, <3>4
    <3>6. <<r, q>> \in RowOrder
      <4>1. <<RowStep(r), RowStep(q)>> \in StepOrder
        BY <3>4, <3>5
      <4>2. PICK z \in Rows : RowStep(q) = RowStep(z) /\ <<r, z>> \in RowOrder
        BY <4>1, StepOrderFacts, StepsDiffer
      <4> QED  BY <4>2, StepsDiffer
    <3> QED  BY <3>3, <3>6
  <2> QED  BY <2>5, <2>6
<1> QED  BY <1>1, TagInvHolds, PTL

-----------------------------------------------------------------------------
(* Copies of the studio: rows that a mapping names *)

\* Enough free ids give every new row one of its own.
LEMMA NewIdsAreOwn ==
    ASSUME NEW keys, NEW free, IsFiniteSet(keys), IsFiniteSet(free),
           Cardinality(keys) <= Cardinality(free)
    PROVE  /\ NewIds(keys, free) \in [keys -> free]
           /\ \A a, b \in keys : NewIds(keys, free)[a] = NewIds(keys, free)[b] => a = b
<1> DEFINE n == Cardinality(keys)
           m == Cardinality(free)
<1>1. /\ n \in Nat /\ m \in Nat
      /\ ExistsBijection(1 .. n, keys) /\ ExistsBijection(1 .. m, free)
  BY FS_CardinalityType
<1> HIDE DEF n, m
<1>2. PICK f \in Bijection(1 .. n, keys) : TRUE
  BY <1>1 DEF ExistsBijection
<1>3. PICK g \in Bijection(1 .. m, free) : TRUE
  BY <1>1 DEF ExistsBijection
<1>4. /\ f \in [1 .. n -> keys] /\ \A k \in keys : \E i \in 1 .. n : f[i] = k
      /\ g \in [1 .. m -> free] /\ \A i, j \in 1 .. m : g[i] = g[j] => i = j
  BY <1>2, <1>3 DEF Bijection, Injection, Surjection, IsInjective
<1> DEFINE at(k) == CHOOSE i \in 1 .. n : f[i] = k
           ids == [k \in keys |-> g[at(k)]]
<1>5. \A k \in keys : at(k) \in 1 .. n /\ f[at(k)] = k
  BY <1>4
<1>6. \A k \in keys : at(k) \in 1 .. m
  BY <1>1, <1>5 DEF n, m
<1> HIDE DEF at
<1>7. ids \in [keys -> free] /\ IsInjective(ids)
  BY <1>4, <1>5, <1>6 DEF IsInjective
<1> HIDE DEF ids
<1>8. NewIds(keys, free) \in [keys -> free] /\ IsInjective(NewIds(keys, free))
  BY <1>7 DEF NewIds
<1> QED BY <1>8 DEF IsInjective

\* ids names rows, each row for one key, and only rows that were used.
NamesRows(ids, rows, D, R) ==
    /\ ids \in [D -> R \cup {None}] /\ DOMAIN rows = R
    /\ \A a, b \in D : ids[a] # None /\ ids[a] = ids[b] => a = b
    /\ \A a \in D : ids[a] # None => rows[ids[a]] # Unused

\* Giving ids to keys that have none: named rows stay, the others get rows of
\* their own (component copies of prepare_components and publish_studio).
LEMMA WithIdsNames ==
    ASSUME NEW ids, NEW rows, NEW D, NEW R, NEW keys, keys \subseteq D,
           None \notin R, IsFiniteSet(D), IsFiniteSet(R), NamesRows(ids, rows, D, R),
           Cardinality(FreeIn(rows)) >= Cardinality(D)
    PROVE  /\ WithIds(ids, keys, rows) \in [D -> R \cup {None}]
           /\ \A a, b \in D : /\ WithIds(ids, keys, rows)[a] # None
                              /\ WithIds(ids, keys, rows)[a] = WithIds(ids, keys, rows)[b]
                              => a = b
           /\ \A a \in D : ids[a] # None => WithIds(ids, keys, rows)[a] = ids[a]
           /\ \A a \in keys : WithIds(ids, keys, rows)[a] \in R
           /\ \A a \in D \ keys : WithIds(ids, keys, rows)[a] = ids[a]
<1> DEFINE missing == {k \in keys : ids[k] = None}
           free == FreeIn(rows)
           new == NewIds(missing, free)
           w == WithIds(ids, keys, rows)
<1>1. /\ IsFiniteSet(missing) /\ IsFiniteSet(free) /\ Cardinality(missing) <= Cardinality(free)
      /\ free \subseteq R
  <2>1. missing \subseteq D
    OBVIOUS
  <2>2. IsFiniteSet(missing) /\ Cardinality(missing) <= Cardinality(D)
    <3> HIDE DEF missing
    <3> QED BY <2>1, FS_Subset
  <2>3. free \subseteq R
    BY DEF FreeIn, NamesRows
  <2>4. IsFiniteSet(free)
    <3> HIDE DEF free
    <3> QED BY <2>3, FS_Subset
  <2>5. Cardinality(missing) \in Nat /\ Cardinality(free) \in Nat /\ Cardinality(D) \in Nat
    <3> HIDE DEF missing, free
    <3> QED BY <2>2, <2>4, FS_CardinalityType
  <2> QED BY <2>2, <2>3, <2>4, <2>5
<1>2. /\ new \in [missing -> free]
      /\ \A a, b \in missing : new[a] = new[b] => a = b
  <2> HIDE DEF missing, free
  <2> QED BY <1>1, NewIdsAreOwn
<1>3. DOMAIN ids = D
  BY DEF NamesRows
<1>4. w = [k \in D |-> IF k \in missing THEN new[k] ELSE ids[k]]
  BY <1>3 DEF WithIds
<1>5. \A k \in missing : new[k] \in R /\ rows[new[k]] = Unused
  <2>1. \A i \in free : i \in R /\ rows[i] = Unused
    BY <1>1 DEF FreeIn
  <2> HIDE DEF missing, free, new
  <2> QED BY <1>2, <2>1
<1>6. /\ \A k \in D : ids[k] \in R \cup {None}
      /\ \A a, b \in D : ids[a] # None /\ ids[a] = ids[b] => a = b
      /\ \A a \in D : ids[a] # None => rows[ids[a]] # Unused
  BY DEF NamesRows
<1>7. \A k \in missing : k \in keys /\ ids[k] = None
  OBVIOUS
<1>8. \A k \in keys : k \notin missing => ids[k] # None
  OBVIOUS
<1> HIDE DEF w, missing, new, free
<1>9. w \in [D -> R \cup {None}]
  BY <1>4, <1>5, <1>6
<1>10. \A k \in D : w[k] = IF k \in missing THEN new[k] ELSE ids[k]
  BY <1>4
<1>11. \A a \in keys : w[a] \in R
  BY <1>5, <1>6, <1>8, <1>10
<1>12. \A a \in D : ids[a] # None => w[a] = ids[a]
  BY <1>7, <1>10
<1>13. \A a \in D \ keys : w[a] = ids[a]
  BY <1>7, <1>10
<1>14. ASSUME NEW a \in D, NEW b \in D, w[a] # None, w[a] = w[b] PROVE a = b
  <2>1. CASE a \in missing /\ b \in missing
    BY <1>2, <1>10, <1>14, <2>1
  <2>2. CASE a \in missing /\ b \notin missing
    <3>1. new[a] = ids[b] /\ ids[b] # None
      BY <1>10, <1>14, <2>2
    <3> QED BY <1>5, <1>6, <2>2, <3>1
  <2>3. CASE a \notin missing /\ b \in missing
    <3>1. new[b] = ids[a] /\ ids[a] # None
      BY <1>10, <1>14, <2>3
    <3> QED BY <1>5, <1>6, <2>3, <3>1
  <2>4. CASE a \notin missing /\ b \notin missing
    <3>1. ids[a] # None /\ ids[a] = ids[b]
      BY <1>10, <1>14, <2>4
    <3> QED BY <1>6, <3>1
  <2> QED BY <2>1, <2>2, <2>3, <2>4
<1> QED BY <1>9, <1>11, <1>12, <1>13, <1>14 DEF w

\* A document written over the copies that ids names: the keys of the values keep
\* their rows or get new ones, find their values there, and no other row changes.
LEMMA RowsWritten ==
    ASSUME NEW ids, NEW rows, NEW D, NEW R, NEW keys, keys \subseteq D,
           None \notin R, IsFiniteSet(D), IsFiniteSet(R), NamesRows(ids, rows, D, R),
           Cardinality(FreeIn(rows)) >= Cardinality(D),
           NEW values, DOMAIN values = keys, \A k \in keys : values[k] # Unused
    PROVE  LET w == WithIds(ids, keys, rows)
               r == WithRows(rows, w, values)
           IN  /\ NamesRows(w, r, D, R)
               /\ \A a \in D : ids[a] # None => w[a] = ids[a]
               /\ \A a \in keys : w[a] \in R /\ r[w[a]] = values[a]
               /\ \A a \in D \ keys : w[a] = ids[a]
               /\ r = [id \in R |-> r[id]]
               /\ \A id \in R : (\A k \in keys : w[k] # id) => r[id] = rows[id]
               /\ \A id \in R : r[id] = rows[id] \/ \E k \in keys : r[id] = values[k]
               /\ \A id \in R : rows[id] # Unused => r[id] # Unused
<1> DEFINE w == WithIds(ids, keys, rows)
           r == WithRows(rows, w, values)
<1>1. /\ w \in [D -> R \cup {None}]
      /\ \A a, b \in D : w[a] # None /\ w[a] = w[b] => a = b
      /\ \A a \in D : ids[a] # None => w[a] = ids[a]
      /\ \A a \in keys : w[a] \in R
      /\ \A a \in D \ keys : w[a] = ids[a]
  <2> HIDE DEF w
  <2> QED BY WithIdsNames DEF w
<1> HIDE DEF w
<1>2. r = [id \in R |-> IF \E k \in keys : w[k] = id
                        THEN values[CHOOSE k \in keys : w[k] = id] ELSE rows[id]]
  BY DEF WithRows, NamesRows
<1> HIDE DEF r
<1>3. ASSUME NEW k \in keys PROVE r[w[k]] = values[k]
  <2> DEFINE c == CHOOSE j \in keys : w[j] = w[k]
  <2>1. c \in keys /\ w[c] = w[k]
    OBVIOUS
  <2>2. r[w[k]] = values[c]
    BY <1>1, <1>2
  <2> HIDE DEF c
  <2>3. c = k
    BY <1>1, <2>1
  <2> QED BY <2>2, <2>3
<1>4. /\ DOMAIN r = R /\ r = [id \in R |-> r[id]]
      /\ \A id \in R : (\A k \in keys : w[k] # id) => r[id] = rows[id]
  BY <1>2
<1>5. \A id \in R : r[id] = rows[id] \/ \E k \in keys : r[id] = values[k]
  BY <1>3, <1>4
<1>6. \A id \in R : rows[id] # Unused => r[id] # Unused
  BY <1>5
<1>7. ASSUME NEW a \in D, w[a] # None PROVE r[w[a]] # Unused
  <2>1. CASE a \in keys
    BY <1>3, <2>1
  <2>2. CASE a \notin keys
    <3>1. w[a] = ids[a] /\ w[a] \in R /\ rows[ids[a]] # Unused
      BY <1>1, <1>7, <2>2 DEF NamesRows
    <3> QED BY <1>6, <3>1
  <2> QED BY <2>1, <2>2
<1>8. NamesRows(w, r, D, R)
  BY <1>1, <1>4, <1>7 DEF NamesRows
<1> QED BY <1>1, <1>3, <1>4, <1>5, <1>6, <1>8 DEF w, r

-----------------------------------------------------------------------------
(* Content of an owner *)

ProductRows ==
    [text: Texts, links: Seq(CharacterIds), primary: CharacterIds \cup {None}, book: BOOLEAN,
     model: Models \cup {None}, starts: SUBSET EntryIds, latest: Nat]

FrozenContents ==
    [text: Texts, model: Models \cup {None}, cast: Seq(CharacterRows \cup {Unused, Gone}),
     lore: SUBSET EntryRows, starts: SUBSET (EntryRows \cup {Unused, Gone})]

Snapshots == [content: FrozenContents, kind: {"initial", "content", "media"}]

Contents ==
    [product: ProductRows, chars: [CharacterIds -> CharacterRows \cup {Unused, Gone}],
     book: {Unused, "live"}, entries: [EntryIds -> EntryRows \cup {Unused, Gone}],
     snaps: Seq(Snapshots)]

\* The composition names characters that there were, each once; every release counts.
Composes(c) ==
    /\ \A i, j \in DOMAIN c.product.links : c.product.links[i] = c.product.links[j] => i = j
    /\ \A i \in DOMAIN c.product.links : c.chars[c.product.links[i]] # Unused
    /\ c.product.latest = Len(c.snaps)

\* The content of a new product has no copies and no releases.
LEMMA EmptyContentFits ==
    ASSUME NEW text \in Texts
    PROVE  /\ EmptyContent(text) \in Contents /\ Composes(EmptyContent(text))
           /\ \A id \in CharacterIds : EmptyContent(text).chars[id] = Unused
           /\ \A id \in EntryIds : EmptyContent(text).entries[id] = Unused
           /\ EmptyContent(text).snaps = <<>>
<1>1. <<>> \in Seq(CharacterIds) /\ <<>> \in Seq(Snapshots) /\ Len(<<>>) = 0 /\ DOMAIN <<>> = {}
  BY EmptySeq, LenProperties
<1>2. EmptyProduct(text) \in ProductRows /\ EmptyProduct(text).links = <<>>
      /\ EmptyProduct(text).latest = 0
  BY <1>1 DEF EmptyProduct, ProductRows
<1> QED BY <1>1, <1>2 DEF EmptyContent, Contents, Composes

\* Writing the profile touches the product's text alone.
LEMMA ProfiledFits ==
    ASSUME NEW c \in Contents, NEW text \in Texts
    PROVE  /\ Profiled(c, text) \in Contents
           /\ Profiled(c, text).product = [c.product EXCEPT !.text = text]
           /\ Profiled(c, text).chars = c.chars /\ Profiled(c, text).entries = c.entries
           /\ Profiled(c, text).snaps = c.snaps
BY DEF Profiled, Contents, ProductRows

\* set_settings touches the model and the start options alone.
LEMMA ConfiguredFits ==
    ASSUME NEW c \in Contents, NEW model \in Models, NEW starts \in SUBSET EntryIds
    PROVE  /\ Configured(c, model, starts) \in Contents
           /\ Configured(c, model, starts).product.model = model
           /\ Configured(c, model, starts).product.starts = starts
           /\ Configured(c, model, starts).product.links = c.product.links
           /\ Configured(c, model, starts).product.book = c.product.book
           /\ Configured(c, model, starts).product.latest = c.product.latest
           /\ Configured(c, model, starts).chars = c.chars
           /\ Configured(c, model, starts).entries = c.entries
           /\ Configured(c, model, starts).snaps = c.snaps
BY DEF Configured, Contents, ProductRows

\* replace_composition touches the product's links alone.
LEMMA ComposedFits ==
    ASSUME NEW c \in Contents, NEW ids \in Seq(CharacterIds), NEW primary \in CharacterIds
    PROVE  /\ Composed(c, ids, primary) \in Contents
           /\ Composed(c, ids, primary).product.links = ids
           /\ Composed(c, ids, primary).product.book = TRUE
           /\ Composed(c, ids, primary).product.latest = c.product.latest
           /\ Composed(c, ids, primary).chars = c.chars
           /\ Composed(c, ids, primary).entries = c.entries
           /\ Composed(c, ids, primary).snaps = c.snaps
BY DEF Composed, Contents, ProductRows

\* Deleting entries takes them out of the start options as well.
LEMMA WithoutEntriesFits ==
    ASSUME NEW c \in Contents, NEW ids \in SUBSET EntryIds
    PROVE  /\ WithoutEntries(c, ids) \in Contents
           /\ WithoutEntries(c, ids).product.starts = c.product.starts \ ids
           /\ WithoutEntries(c, ids).product.model = c.product.model
           /\ WithoutEntries(c, ids).product.links = c.product.links
           /\ WithoutEntries(c, ids).product.book = c.product.book
           /\ WithoutEntries(c, ids).product.latest = c.product.latest
           /\ WithoutEntries(c, ids).chars = c.chars
           /\ \A id \in EntryIds : WithoutEntries(c, ids).entries[id]
                                     = IF id \in ids THEN Gone ELSE c.entries[id]
           /\ WithoutEntries(c, ids).snaps = c.snaps
BY DEF WithoutEntries, Contents, ProductRows

\* An update of a copy touches that copy alone.
LEMMA UpdatedCharacterFits ==
    ASSUME NEW c \in Contents, NEW id \in CharacterIds, NEW value \in CharacterRows
    PROVE  /\ UpdatedCharacter(c, id, value) \in Contents
           /\ UpdatedCharacter(c, id, value).product = c.product
           /\ \A i \in CharacterIds : UpdatedCharacter(c, id, value).chars[i]
                                     = IF i = id THEN value ELSE c.chars[i]
           /\ UpdatedCharacter(c, id, value).entries = c.entries
           /\ UpdatedCharacter(c, id, value).snaps = c.snaps
BY DEF UpdatedCharacter, Contents

\* A part of a sequence, from a place of it to another.
LEMMA PartOf ==
    ASSUME NEW S, NEW q \in Seq(S),
           NEW m \in 1 .. Len(q) + 1, NEW n \in 0 .. Len(q), m <= n + 1
    PROVE  /\ SubSeq(q, m, n) \in Seq(S) /\ Len(SubSeq(q, m, n)) = n - m + 1
           /\ \A i \in 1 .. n - m + 1 : SubSeq(q, m, n)[i] = q[m + i - 1]
<1>1. Len(q) \in Nat /\ \A i \in 1 .. Len(q) : q[i] \in S
  BY LenProperties, ElementOfSeq
<1>2. m \in Int /\ n \in Int /\ \A i \in m .. n : q[i] \in S
  BY <1>1
<1>3. /\ SubSeq(q, m, n) \in Seq(S)
      /\ Len(SubSeq(q, m, n)) = IF m <= n THEN n - m + 1 ELSE 0
      /\ \A i \in 1 .. n - m + 1 : SubSeq(q, m, n)[i] = q[m + i - 1]
  BY <1>2, SubSeqProperties
<1>4. (IF m <= n THEN n - m + 1 ELSE 0) = n - m + 1
  BY <1>2
<1> QED BY <1>3, <1>4

\* A place is taken out of a list.
LEMMA RemoveFirstFits ==
    ASSUME NEW S, NEW q \in Seq(S), NEW x,
           \A i, j \in DOMAIN q : q[i] = q[j] => i = j
    PROVE  /\ RemoveFirst(q, x) \in Seq(S)
           /\ \A i, j \in DOMAIN RemoveFirst(q, x) :
                 RemoveFirst(q, x)[i] = RemoveFirst(q, x)[j] => i = j
           /\ \A i \in DOMAIN RemoveFirst(q, x) :
                 \E j \in DOMAIN q : q[j] # x /\ RemoveFirst(q, x)[i] = q[j]
<1>1. Len(q) \in Nat /\ DOMAIN q = 1 .. Len(q) /\ \A i \in 1 .. Len(q) : q[i] \in S
  BY LenProperties, ElementOfSeq
<1>2. CASE ~\E i \in 1 .. Len(q) : q[i] = x
  <2>1. RemoveFirst(q, x) = q
    BY <1>2 DEF RemoveFirst
  <2> QED BY <1>1, <1>2, <2>1
<1>3. CASE \E i \in 1 .. Len(q) : q[i] = x
  <2>1. PICK p \in 1 .. Len(q) : q[p] = x
    BY <1>3
  <2>2. {i \in 1 .. Len(q) : q[i] = x} = {p}
    BY <1>1, <2>1
  <2>3. SelectInSeq(q, LAMBDA v : v = x) = p
    <3>1. Min({p}) = p
      BY <2>1 DEF Min
    <3> QED BY <2>2, <3>1 DEF SelectInSeq
  <2>4. RemoveFirst(q, x) = SubSeq(q, 1, p - 1) \o SubSeq(q, p + 1, Len(q))
    BY <1>3, <2>3 DEF RemoveFirst, RemoveAt
  <2> DEFINE f == SubSeq(q, 1, p - 1)
             g == SubSeq(q, p + 1, Len(q))
  <2>5. f \in Seq(S) /\ Len(f) = p - 1 /\ \A i \in 1 .. p - 1 : f[i] = q[i]
    <3> DEFINE n == p - 1
    <3>1. 1 \in 1 .. Len(q) + 1 /\ n \in 0 .. Len(q) /\ 1 <= n + 1
      BY <1>1
    <3> HIDE DEF n
    <3>2. /\ SubSeq(q, 1, n) \in Seq(S) /\ Len(SubSeq(q, 1, n)) = n - 1 + 1
          /\ \A i \in 1 .. n - 1 + 1 : SubSeq(q, 1, n)[i] = q[1 + i - 1]
      BY <3>1, PartOf
    <3>3. SubSeq(q, 1, n) = f
      BY DEF n
    <3> HIDE DEF f
    <3>4. n = p - 1 /\ n - 1 + 1 = p - 1 /\ \A i \in 1 .. p - 1 : 1 + i - 1 = i
      BY DEF n
    <3> QED BY <3>2, <3>3, <3>4
  <2>6. g \in Seq(S) /\ Len(g) = Len(q) - p /\ \A i \in 1 .. Len(q) - p : g[i] = q[p + i]
    <3> DEFINE m == p + 1
               n == Len(q)
    <3>1. m \in 1 .. Len(q) + 1 /\ n \in 0 .. Len(q) /\ m <= n + 1
      BY <1>1
    <3> HIDE DEF m, n
    <3>2. /\ SubSeq(q, m, n) \in Seq(S) /\ Len(SubSeq(q, m, n)) = n - m + 1
          /\ \A i \in 1 .. n - m + 1 : SubSeq(q, m, n)[i] = q[m + i - 1]
      BY <3>1, PartOf
    <3>3. SubSeq(q, m, n) = g
      BY DEF m, n
    <3> HIDE DEF g
    <3>4. n - m + 1 = Len(q) - p /\ \A i \in 1 .. Len(q) - p : m + i - 1 = p + i
      BY <1>1 DEF m, n
    <3> QED BY <3>2, <3>3, <3>4
  <2> HIDE DEF f, g
  <2> DEFINE h == f \o g
  <2>7. /\ h \in Seq(S) /\ DOMAIN h = 1 .. Len(q) - 1
        /\ \A i \in 1 .. Len(q) - 1 : h[i] = IF i < p THEN q[i] ELSE q[i + 1]
    <3>1. /\ h \in Seq(S) /\ Len(h) = Len(f) + Len(g)
          /\ \A i \in 1 .. Len(f) + Len(g) :
                h[i] = IF i <= Len(f) THEN f[i] ELSE g[i - Len(f)]
      <4>1. f \in Seq(S) /\ g \in Seq(S)
        BY <2>5, <2>6
      <4> QED BY <4>1, ConcatProperties
    <3>2. DOMAIN h = 1 .. Len(h)
      BY <3>1, LenProperties
    <3> HIDE DEF h
    <3>3. Len(h) = Len(q) - 1
      BY <1>1, <2>5, <2>6, <3>1
    <3>4. ASSUME NEW i \in 1 .. Len(q) - 1 PROVE h[i] = IF i < p THEN q[i] ELSE q[i + 1]
      <4>1. CASE i < p
        <5>1. i \in 1 .. p - 1 /\ i <= Len(f) /\ i \in 1 .. Len(f) + Len(g)
          BY <1>1, <2>5, <2>6, <4>1
        <5>2. h[i] = f[i]
          BY <3>1, <5>1
        <5> QED BY <2>5, <4>1, <5>1, <5>2
      <4>2. CASE ~(i < p)
        <5>1. i - (p - 1) \in 1 .. Len(q) - p /\ ~(i <= Len(f)) /\ i \in 1 .. Len(f) + Len(g)
          BY <1>1, <2>5, <2>6, <4>2
        <5>2. h[i] = g[i - (p - 1)] /\ p + (i - (p - 1)) = i + 1
          BY <1>1, <2>5, <3>1, <5>1
        <5> QED BY <2>6, <4>2, <5>1, <5>2
      <4> QED BY <4>1, <4>2
    <3> QED BY <3>1, <3>2, <3>3, <3>4
  <2>8. h = RemoveFirst(q, x)
    BY <2>4 DEF h, f, g
  <2> HIDE DEF h
  <2>9. \A i \in 1 .. Len(q) - 1 : \E j \in 1 .. Len(q) : j # p /\ h[i] = q[j]
    <3>1. ASSUME NEW i \in 1 .. Len(q) - 1 PROVE \E j \in 1 .. Len(q) : j # p /\ h[i] = q[j]
      <4>1. CASE i < p
        BY <1>1, <2>7, <4>1
      <4>2. CASE ~(i < p)
        <5>1. i + 1 \in 1 .. Len(q) /\ i + 1 # p /\ h[i] = q[i + 1]
          BY <1>1, <2>7, <4>2
        <5> QED BY <5>1
      <4> QED BY <4>1, <4>2
    <3> QED BY <3>1
  <2>10. \A i, j \in 1 .. Len(q) - 1 : h[i] = h[j] => i = j
    <3>1. \A i, j \in 1 .. Len(q) - 1 : /\ (IF i < p THEN i ELSE i + 1) \in 1 .. Len(q)
                                       /\ (IF i < p THEN i ELSE i + 1)
                                            = (IF j < p THEN j ELSE j + 1) => i = j
      BY <1>1, <2>1
    <3>2. \A i \in 1 .. Len(q) - 1 : h[i] = q[IF i < p THEN i ELSE i + 1]
      BY <2>7
    <3>3. ASSUME NEW i \in 1 .. Len(q) - 1, NEW j \in 1 .. Len(q) - 1, h[i] = h[j] PROVE i = j
      <4> DEFINE m == IF i < p THEN i ELSE i + 1
                 n == IF j < p THEN j ELSE j + 1
      <4>1. m \in 1 .. Len(q) /\ n \in 1 .. Len(q) /\ (m = n => i = j)
        BY <3>1
      <4>2. q[m] = q[n]
        BY <3>2, <3>3
      <4> HIDE DEF m, n
      <4> QED BY <1>1, <4>1, <4>2
    <3> QED BY <3>3
  <2>11. \A i, j \in DOMAIN h : h[i] = h[j] => i = j
    BY <2>7, <2>10
  <2>12. \A i \in DOMAIN h : \E j \in DOMAIN q : q[j] # x /\ h[i] = q[j]
    <3>1. \A j \in 1 .. Len(q) : j # p => q[j] # x
      BY <1>1, <2>1
    <3>2. DOMAIN h = 1 .. Len(q) - 1 /\ DOMAIN q = 1 .. Len(q)
      BY <1>1, <2>7
    <3> QED BY <2>9, <3>1, <3>2
  <2> QED BY <2>7, <2>8, <2>11, <2>12
<1> QED BY <1>2, <1>3

\* Deleting a copy takes it out of the composition, which stays without
\* repetitions.
LEMMA DeletedCharacterFits ==
    ASSUME NEW c \in Contents, Composes(c), NEW id \in CharacterIds
    PROVE  /\ DeletedCharacter(c, id) \in Contents /\ Composes(DeletedCharacter(c, id))
           /\ \A i \in CharacterIds : DeletedCharacter(c, id).chars[i]
                                     = IF i = id THEN Gone ELSE c.chars[i]
           /\ DeletedCharacter(c, id).entries = c.entries
           /\ DeletedCharacter(c, id).snaps = c.snaps
<1> DEFINE q == c.product.links
           r == RemoveFirst(q, id)
           d == DeletedCharacter(c, id)
<1>1. q \in Seq(CharacterIds) /\ \A i, j \in DOMAIN q : q[i] = q[j] => i = j
  BY DEF Contents, ProductRows, Composes
<1>2. /\ r \in Seq(CharacterIds)
      /\ \A i, j \in DOMAIN r : r[i] = r[j] => i = j
      /\ \A i \in DOMAIN r : \E j \in DOMAIN q : q[j] # id /\ r[i] = q[j]
  <2> HIDE DEF q
  <2> QED BY <1>1, RemoveFirstFits
<1>3. /\ d.product = [c.product EXCEPT !.links = r,
                         !.primary = IF c.product.primary = id THEN None ELSE c.product.primary]
      /\ d.chars = [c.chars EXCEPT ![id] = Gone]
      /\ d.entries = c.entries /\ d.snaps = c.snaps /\ d.book = c.book
      /\ d = [c EXCEPT !.product = d.product, !.chars = d.chars]
  BY DEF DeletedCharacter, Contents, ProductRows
<1> HIDE DEF d, r
<1>4. d.product \in ProductRows /\ d.product.links = r /\ d.product.latest = c.product.latest
  BY <1>2, <1>3 DEF Contents, ProductRows
<1>5. /\ d.chars \in [CharacterIds -> CharacterRows \cup {Unused, Gone}]
      /\ \A i \in CharacterIds : d.chars[i] = IF i = id THEN Gone ELSE c.chars[i]
  BY <1>3 DEF Contents
<1>6. d \in Contents
  BY <1>3, <1>4, <1>5 DEF Contents
<1>7. \A i \in DOMAIN r : d.chars[r[i]] # Unused
  <2>1. \A j \in DOMAIN q : c.chars[q[j]] # Unused /\ q[j] \in CharacterIds
    BY <1>1, LenProperties, ElementOfSeq DEF Composes
  <2> HIDE DEF q
  <2> QED BY <1>2, <1>5, <2>1, ContentAssumption
<1>8. Composes(d)
  BY <1>2, <1>3, <1>4, <1>7 DEF Composes
<1> QED BY <1>3, <1>5, <1>6, <1>8 DEF d

\* A release: what is frozen is a row of the table of snapshots.
LEMMA PublishedFits ==
    ASSUME NEW c \in Contents, Composes(c)
    PROVE  /\ Published(c) \in Contents /\ Composes(Published(c))
           /\ Published(c).chars = c.chars /\ Published(c).entries = c.entries
           /\ Published(c).product = [c.product EXCEPT !.latest = Len(c.snaps) + 1]
           /\ \E s \in Snapshots : /\ Published(c).snaps = Append(c.snaps, s)
                                    /\ s.content = Canonical(c)
<1> DEFINE s == [content |-> Canonical(c), kind |-> ChangeKind(c)]
           p == Published(c)
           q == c.product.links
<1>1. Canonical(c) \in FrozenContents
  <2>1. FrozenCharacters(c) \in Seq(CharacterRows \cup {Unused, Gone})
    <3>1. q \in Seq(CharacterIds)
      BY DEF Contents, ProductRows
    <3>2. DOMAIN q = 1 .. Len(q) /\ Len(q) \in Nat /\ \A i \in 1 .. Len(q) : q[i] \in CharacterIds
      <4> HIDE DEF q
      <4> QED BY <3>1, LenProperties, ElementOfSeq
    <3>3. FrozenCharacters(c) = [i \in 1 .. Len(q) |-> c.chars[q[i]]]
      BY <3>2 DEF FrozenCharacters
    <3>4. \A i \in 1 .. Len(q) : c.chars[q[i]] \in CharacterRows \cup {Unused, Gone}
      BY <3>2 DEF Contents
    <3>5. FrozenCharacters(c) \in [1 .. Len(q) -> CharacterRows \cup {Unused, Gone}]
      <4> HIDE DEF q
      <4> QED BY <3>3, <3>4
    <3> HIDE DEF q
    <3> QED BY <3>2, <3>5, SeqDef
  <2>2. FrozenLorebook(c) \in SUBSET EntryRows
    BY DEF FrozenLorebook, Live, Contents
  <2>3. FrozenStarts(c) \in SUBSET (EntryRows \cup {Unused, Gone})
    BY DEF FrozenStarts, Contents, ProductRows
  <2>4. c.product.text \in Texts /\ c.product.model \in Models \cup {None}
    BY DEF Contents, ProductRows
  <2> QED BY <2>1, <2>2, <2>3, <2>4 DEF Canonical, FrozenContents
<1>2. s \in Snapshots
  <2>1. ChangeKind(c) \in {"initial", "content", "media"}
    BY DEF ChangeKind
  <2> QED BY <1>1, <2>1 DEF Snapshots
<1>3. /\ p.product = [c.product EXCEPT !.latest = Len(c.snaps) + 1]
      /\ p.chars = c.chars /\ p.entries = c.entries /\ p.book = c.book
      /\ p.snaps = Append(c.snaps, s)
      /\ p = [c EXCEPT !.product = p.product, !.snaps = p.snaps]
  BY DEF Published, Contents
<1>4. c.snaps \in Seq(Snapshots) /\ Len(c.snaps) \in Nat
  BY LenProperties DEF Contents
<1> HIDE DEF s, p
<1>5. Append(c.snaps, s) \in Seq(Snapshots) /\ Len(Append(c.snaps, s)) = Len(c.snaps) + 1
  BY <1>2, <1>4, AppendProperties
<1>6. p.product \in ProductRows /\ p.product.links = c.product.links
      /\ p.product.latest = Len(c.snaps) + 1
  <2>1. Len(c.snaps) + 1 \in Nat /\ c.product \in ProductRows
    BY <1>4 DEF Contents
  <2>2. \A n \in Nat, row \in ProductRows :
            /\ [row EXCEPT !.latest = n] \in ProductRows
            /\ [row EXCEPT !.latest = n].links = row.links
            /\ [row EXCEPT !.latest = n].latest = n
    BY DEF ProductRows
  <2> QED BY <1>3, <2>1, <2>2
<1>7. p \in Contents
  BY <1>3, <1>5, <1>6 DEF Contents
<1>8. Composes(p)
  BY <1>3, <1>5, <1>6 DEF Composes
<1>9. s.content = Canonical(c)
  BY DEF s
<1> QED BY <1>2, <1>3, <1>7, <1>8, <1>9 DEF p

-----------------------------------------------------------------------------
(* Mappings *)

MappedKeys == LoreKeys \cup {SceneKey}

\* A mapping names rows that there were, each row once, and every live entry.
MapsContent(c, m) ==
    /\ NamesRows(m.chars, c.chars, Locals, CharacterIds)
    /\ NamesRows(m.entries, c.entries, MappedKeys, EntryIds)
    /\ \A id \in EntryIds : Live(c.entries[id]) => \E k \in MappedKeys : m.entries[k] = id

\* What a document is made of: characters in places, entries under keys, and
\* the rows that are written for them.
LEMMA DocumentFits ==
    ASSUME NEW doc \in Documents
    PROVE  /\ doc.text \in Texts /\ doc.lore \subseteq LoreKeys
           /\ doc.cast \in Seq(Locals) /\ Len(doc.cast) \in Nat
           /\ DOMAIN doc.cast = 1 .. Len(doc.cast) /\ ToSet(doc.cast) \subseteq Locals
           /\ \A i \in DOMAIN doc.cast : doc.cast[i] \in ToSet(doc.cast)
           /\ EntryKeys(doc) \subseteq MappedKeys /\ SceneKey \in EntryKeys(doc)
           /\ \A l \in Locals : CharacterValue(doc, l) \in CharacterRows
           /\ \A k \in MappedKeys : EntryValue(doc, k) \in EntryRows
<1>1. doc.text \in Texts /\ doc.lore \subseteq LoreKeys
      /\ doc.cast \in BoundedSeq(Locals, Cardinality(Locals))
  BY DEF Documents
<1>2. \E n \in Nat : doc.cast \in [1 .. n -> Locals]
  <2>1. doc.cast \in UNION {[1 .. m -> Locals] : m \in 0 .. Cardinality(Locals)}
    BY <1>1 DEF BoundedSeq, SeqOf
  <2>2. PICK m \in 0 .. Cardinality(Locals) : doc.cast \in [1 .. m -> Locals]
    BY <2>1
  <2>3. m \in Nat
    BY ContentAssumption, FS_CardinalityType
  <2> QED BY <2>2, <2>3
<1>3. doc.cast \in Seq(Locals)
  BY <1>2, SeqDef
<1>4. Len(doc.cast) \in Nat /\ DOMAIN doc.cast = 1 .. Len(doc.cast)
      /\ \A i \in DOMAIN doc.cast : doc.cast[i] \in Locals
  BY <1>3, LenProperties, ElementOfSeq
<1>5. ToSet(doc.cast) \subseteq Locals /\ \A i \in DOMAIN doc.cast : doc.cast[i] \in ToSet(doc.cast)
  BY <1>4 DEF ToSet
<1>6. EntryKeys(doc) \subseteq MappedKeys /\ SceneKey \in EntryKeys(doc)
  BY <1>1 DEF EntryKeys, MappedKeys
<1>7. /\ \A l \in Locals : CharacterValue(doc, l) \in CharacterRows
      /\ \A k \in MappedKeys : EntryValue(doc, k) \in EntryRows
  BY <1>1 DEF CharacterValue, EntryValue, CharacterRows, EntryRows, MappedKeys
<1> QED BY <1>1, <1>3, <1>4, <1>5, <1>6, <1>7

\* The copies of characters that a document writes.
LEMMA CharactersWritten ==
    ASSUME NEW c \in Contents, NEW m \in Mappings, MapsContent(c, m), Composes(c), EnoughIds(c),
           NEW doc \in Documents, NEW cast \in SUBSET Locals
    PROVE  LET w == WriteCharacters([c |-> c, m |-> m], doc, cast)
           IN  /\ w.c \in Contents /\ w.m \in Mappings /\ MapsContent(w.c, w.m)
               /\ Composes(w.c)
               /\ w.m.receipts = m.receipts /\ w.m.entries = m.entries
               /\ w.c.entries = c.entries /\ w.c.snaps = c.snaps
               /\ w.c.product = c.product
               /\ \A l \in Locals : m.chars[l] # None => w.m.chars[l] = m.chars[l]
               /\ \A l \in cast : /\ w.m.chars[l] \in CharacterIds
                                  /\ w.c.chars[w.m.chars[l]] = CharacterValue(doc, l)
               /\ \A l \in Locals \ cast : w.m.chars[l] = m.chars[l]
<1> DEFINE ids == WithIds(m.chars, cast, c.chars)
           values == [l \in cast |-> CharacterValue(doc, l)]
           rows == WithRows(c.chars, ids, values)
           w == WriteCharacters([c |-> c, m |-> m], doc, cast)
<1>1. /\ w.m = [m EXCEPT !.chars = ids] /\ w.c = [c EXCEPT !.chars = rows]
  BY DEF WriteCharacters
<1>2. /\ NamesRows(m.chars, c.chars, Locals, CharacterIds)
      /\ None \notin CharacterIds /\ IsFiniteSet(Locals) /\ IsFiniteSet(CharacterIds)
      /\ Cardinality(FreeIn(c.chars)) >= Cardinality(Locals)
  BY ContentAssumption DEF MapsContent, EnoughIds
<1>3. \A l \in cast : values[l] = CharacterValue(doc, l) /\ values[l] \in CharacterRows
                      /\ values[l] # Unused
  BY DocumentFits, ContentAssumption
<1>4. DOMAIN values = cast /\ cast \subseteq Locals
  OBVIOUS
<1>5. /\ NamesRows(ids, rows, Locals, CharacterIds)
      /\ \A a \in Locals : m.chars[a] # None => ids[a] = m.chars[a]
      /\ \A a \in cast : ids[a] \in CharacterIds /\ rows[ids[a]] = values[a]
      /\ \A a \in Locals \ cast : ids[a] = m.chars[a]
      /\ rows = [id \in CharacterIds |-> rows[id]]
      /\ \A id \in CharacterIds : rows[id] = c.chars[id] \/ \E k \in cast : rows[id] = values[k]
      /\ \A id \in CharacterIds : c.chars[id] # Unused => rows[id] # Unused
  <2> HIDE DEF ids, values, rows
  <2> QED BY <1>2, <1>3, <1>4, RowsWritten DEF ids, rows
<1> HIDE DEF ids, values, rows, w
<1>6. rows \in [CharacterIds -> CharacterRows \cup {Unused, Gone}]
  <2>1. \A id \in CharacterIds : rows[id] \in CharacterRows \cup {Unused, Gone}
    BY <1>3, <1>5 DEF Contents
  <2> QED BY <1>5, <2>1
<1>10. w.c \in Contents /\ w.c.chars = rows /\ w.c.entries = c.entries /\ w.c.snaps = c.snaps
       /\ w.c.product = c.product
  BY <1>1, <1>6 DEF Contents
<1>11. w.m \in Mappings /\ w.m.chars = ids /\ w.m.receipts = m.receipts
       /\ w.m.entries = m.entries
  BY <1>1, <1>5 DEF Mappings, NamesRows
<1>13. MapsContent(w.c, w.m)
  BY <1>5, <1>10, <1>11 DEF MapsContent
<1>14. Composes(w.c)
  <2>1. \A i \in DOMAIN c.product.links : c.product.links[i] \in CharacterIds
    BY LenProperties, ElementOfSeq DEF Contents, ProductRows
  <2> QED BY <1>5, <1>10, <2>1 DEF Composes
<1> QED BY <1>3, <1>5, <1>10, <1>11, <1>13, <1>14 DEF w

\* There is a key for every entry and for the scene: whoever has enough free
\* ids can give each of them a row.
LEMMA MappedKeysAreFew ==
    /\ IsFiniteSet(MappedKeys)
    /\ \A c \in Contents : EnoughIds(c) => Cardinality(FreeIn(c.entries)) >= Cardinality(MappedKeys)
<1>1. IsFiniteSet(LoreKeys) /\ Cardinality(LoreKeys) \in Nat
  BY ContentAssumption, FS_CardinalityType
<1>2. /\ IsFiniteSet(LoreKeys \cup {SceneKey})
      /\ Cardinality(LoreKeys \cup {SceneKey})
            = IF SceneKey \in LoreKeys THEN Cardinality(LoreKeys) ELSE Cardinality(LoreKeys) + 1
  BY <1>1, FS_AddElement
<1>3. ASSUME NEW c \in Contents, EnoughIds(c)
       PROVE  Cardinality(FreeIn(c.entries)) >= Cardinality(MappedKeys)
  <2> DEFINE n == Cardinality(FreeIn(c.entries))
  <2>1. n >= Cardinality(LoreKeys) + 1
    BY <1>3 DEF EnoughIds
  <2> HIDE DEF n
  <2>2. n \in Nat
    <3>1. FreeIn(c.entries) \subseteq EntryIds
      BY DEF FreeIn, Contents
    <3> QED BY <3>1, ContentAssumption, FS_Subset, FS_CardinalityType DEF n
  <2> QED BY <1>1, <1>2, <2>1, <2>2 DEF MappedKeys, n
<1> QED BY <1>2, <1>3 DEF MappedKeys

\* The entries of the lorebook that a document writes.
LEMMA EntriesWritten ==
    ASSUME NEW c \in Contents, NEW m \in Mappings, MapsContent(c, m), Composes(c),
           Cardinality(FreeIn(c.entries)) >= Cardinality(MappedKeys), NEW doc \in Documents
    PROVE  LET w == WriteEntries([c |-> c, m |-> m], doc)
           IN  /\ w.c \in Contents /\ w.m \in Mappings /\ MapsContent(w.c, w.m)
               /\ Composes(w.c)
               /\ w.m.receipts = m.receipts /\ w.m.chars = m.chars
               /\ w.c.chars = c.chars /\ w.c.snaps = c.snaps /\ w.c.product = c.product
               /\ \A k \in EntryKeys(doc) :
                     /\ w.m.entries[k] \in EntryIds
                     /\ w.c.entries[w.m.entries[k]] = EntryValue(doc, k)
<1> DEFINE keys == EntryKeys(doc)
           ids == WithIds(m.entries, keys, c.entries)
           values == [k \in keys |-> EntryValue(doc, k)]
           rows == WithRows(c.entries, ids, values)
           w == WriteEntries([c |-> c, m |-> m], doc)
<1>1. /\ w.m = [m EXCEPT !.entries = ids] /\ w.c = [c EXCEPT !.entries = rows]
  BY DEF WriteEntries
<1>2. /\ NamesRows(m.entries, c.entries, MappedKeys, EntryIds)
      /\ None \notin EntryIds /\ IsFiniteSet(MappedKeys) /\ IsFiniteSet(EntryIds)
  BY ContentAssumption, MappedKeysAreFew DEF MapsContent
<1>3. /\ DOMAIN values = keys /\ keys \subseteq MappedKeys
      /\ \A k \in keys : values[k] = EntryValue(doc, k) /\ values[k] \in EntryRows
                         /\ values[k] # Unused
  BY DocumentFits, ContentAssumption
<1>4. /\ NamesRows(ids, rows, MappedKeys, EntryIds)
      /\ \A a \in MappedKeys : m.entries[a] # None => ids[a] = m.entries[a]
      /\ \A a \in keys : ids[a] \in EntryIds /\ rows[ids[a]] = values[a]
      /\ \A a \in MappedKeys \ keys : ids[a] = m.entries[a]
      /\ rows = [id \in EntryIds |-> rows[id]]
      /\ \A id \in EntryIds : (\A k \in keys : ids[k] # id) => rows[id] = c.entries[id]
      /\ \A id \in EntryIds : rows[id] = c.entries[id] \/ \E k \in keys : rows[id] = values[k]
  <2> HIDE DEF ids, values, rows, keys
  <2> QED BY <1>2, <1>3, RowsWritten DEF ids, rows
<1> HIDE DEF ids, values, rows, w, keys
<1>5. rows \in [EntryIds -> EntryRows \cup {Unused, Gone}]
  <2>1. \A id \in EntryIds : rows[id] \in EntryRows \cup {Unused, Gone}
    BY <1>3, <1>4 DEF Contents
  <2> QED BY <1>4, <2>1
<1>6. w.c \in Contents /\ w.c.entries = rows /\ w.c.chars = c.chars /\ w.c.snaps = c.snaps
      /\ w.c.product = c.product
  BY <1>1, <1>5 DEF Contents
<1>7. w.m \in Mappings /\ w.m.entries = ids /\ w.m.receipts = m.receipts /\ w.m.chars = m.chars
  BY <1>1, <1>4 DEF Mappings, NamesRows, MappedKeys
<1>8. \A id \in EntryIds : Live(rows[id]) => \E k \in MappedKeys : ids[k] = id
  <2> SUFFICES ASSUME NEW id \in EntryIds, Live(rows[id]), \A k \in keys : ids[k] # id
               PROVE  \E k \in MappedKeys : ids[k] = id
    BY <1>3
  <2>1. Live(c.entries[id])
    BY <1>4
  <2>2. PICK k \in MappedKeys : m.entries[k] = id
    BY <2>1 DEF MapsContent
  <2>3. ids[k] = id
    BY <1>2, <1>4, <2>2
  <2> QED BY <2>3
<1>9. MapsContent(w.c, w.m)
  BY <1>4, <1>6, <1>7, <1>8 DEF MapsContent
<1>10. Composes(w.c)
  BY <1>6 DEF Composes
<1> QED BY <1>3, <1>4, <1>6, <1>7, <1>9, <1>10 DEF w, keys

\* The settings of a product, without its start options.
KeepsSettings(d, c) ==
    /\ d.product.model = c.product.model /\ d.product.links = c.product.links
    /\ d.product.book = c.product.book /\ d.product.latest = c.product.latest

\* The entries that a document no longer has go; those it has stay.
LEMMA EntriesDropped ==
    ASSUME NEW c \in Contents, NEW m \in Mappings, MapsContent(c, m), Composes(c),
           NEW doc \in Documents
    PROVE  LET d == DropEntries([c |-> c, m |-> m], doc)
           IN  /\ d.c \in Contents /\ d.m \in Mappings /\ MapsContent(d.c, d.m)
               /\ Composes(d.c)
               /\ d.m.receipts = m.receipts /\ d.m.chars = m.chars
               /\ d.c.chars = c.chars /\ d.c.snaps = c.snaps
               /\ KeepsSettings(d.c, c)
               /\ c.product.starts = {m.entries[SceneKey]} => d.c.product.starts = c.product.starts
               /\ \A k \in EntryKeys(doc) :
                     /\ d.m.entries[k] = m.entries[k]
                     /\ m.entries[k] # None => d.c.entries[m.entries[k]] = c.entries[m.entries[k]]
               /\ \A k \in MappedKeys \ EntryKeys(doc) : d.m.entries[k] = None
<1> DEFINE removed == RemovedKeys(m, doc)
           S == {m.entries[k] : k \in removed}
           ids == [k \in MappedKeys |-> IF k \in removed THEN None ELSE m.entries[k]]
           d == DropEntries([c |-> c, m |-> m], doc)
<1>1. DOMAIN m.entries = MappedKeys /\ \A k \in MappedKeys : m.entries[k] \in EntryIds \cup {None}
  BY DEF Mappings, MappedKeys
<1>2. d.m = [m EXCEPT !.entries = ids] /\ d.c = WithoutEntries(c, S)
  BY <1>1 DEF DropEntries
<1>3. \A k \in removed : k \in MappedKeys /\ m.entries[k] # None /\ k \notin EntryKeys(doc)
                         /\ m.entries[k] \in EntryIds
  BY <1>1 DEF RemovedKeys
<1>4. \A k \in MappedKeys \ EntryKeys(doc) : k \notin removed => m.entries[k] = None
  BY <1>1 DEF RemovedKeys
<1> HIDE DEF removed, d
<1>5. S \in SUBSET EntryIds
  BY <1>3
<1>6. \A a, b \in MappedKeys : m.entries[a] # None /\ m.entries[a] = m.entries[b] => a = b
  BY DEF MapsContent, NamesRows
<1>7. \A a \in MappedKeys : m.entries[a] # None => c.entries[m.entries[a]] # Unused
  BY DEF MapsContent, NamesRows
<1>8. \A k \in MappedKeys \ removed : m.entries[k] \notin S
  <2> SUFFICES ASSUME NEW k \in MappedKeys, k \notin removed, m.entries[k] \in S PROVE FALSE
    OBVIOUS
  <2>1. PICK j \in removed : m.entries[j] = m.entries[k]
    OBVIOUS
  <2> QED BY <1>3, <1>6, <2>1
<1> HIDE DEF S
<1>9. /\ d.c \in Contents
      /\ d.c.product.starts = c.product.starts \ S
      /\ KeepsSettings(d.c, c)
      /\ d.c.chars = c.chars
      /\ \A id \in EntryIds : d.c.entries[id] = IF id \in S THEN Gone ELSE c.entries[id]
      /\ d.c.snaps = c.snaps
  BY <1>2, <1>5, WithoutEntriesFits DEF KeepsSettings
<1>10. /\ ids \in [MappedKeys -> EntryIds \cup {None}]
       /\ \A k \in MappedKeys : ids[k] = IF k \in removed THEN None ELSE m.entries[k]
  BY <1>1
<1> HIDE DEF ids
<1>11. d.m \in Mappings /\ d.m.entries = ids /\ d.m.receipts = m.receipts /\ d.m.chars = m.chars
  BY <1>2, <1>10 DEF Mappings, MappedKeys
<1>12. /\ \A k \in EntryKeys(doc) : k \in MappedKeys /\ k \notin removed
       /\ \A k \in EntryKeys(doc) : m.entries[k] \notin S
  BY <1>3, <1>8, DocumentFits
<1>13. NamesRows(ids, d.c.entries, MappedKeys, EntryIds)
  <2>1. DOMAIN d.c.entries = EntryIds
    BY <1>9 DEF Contents
  <2>2. ASSUME NEW a \in MappedKeys, ids[a] # None
        PROVE  ids[a] = m.entries[a] /\ ids[a] \in EntryIds /\ d.c.entries[ids[a]] # Unused
    BY <1>1, <1>7, <1>9, <1>10, <2>2, ContentAssumption
  <2>3. ASSUME NEW a \in MappedKeys, NEW b \in MappedKeys, ids[a] # None, ids[a] = ids[b]
        PROVE  a = b
    BY <1>6, <2>2, <2>3
  <2> QED BY <1>10, <2>1, <2>2, <2>3 DEF NamesRows
<1>14. ASSUME NEW id \in EntryIds, Live(d.c.entries[id])
       PROVE  \E k \in MappedKeys : ids[k] = id
  <2>1. id \notin S /\ Live(c.entries[id])
    BY <1>9, <1>14 DEF Live
  <2>2. PICK k \in MappedKeys : m.entries[k] = id
    BY <2>1 DEF MapsContent
  <2>3. k \notin removed
    BY <2>1, <2>2 DEF S
  <2> QED BY <1>10, <2>2, <2>3
<1>15. NamesRows(d.m.chars, d.c.chars, Locals, CharacterIds)
  BY <1>9, <1>11 DEF MapsContent
<1>16. MapsContent(d.c, d.m)
  BY <1>11, <1>13, <1>14, <1>15 DEF MapsContent
<1>17. Composes(d.c)
  <2>1. d.c.product.links = c.product.links /\ d.c.product.latest = c.product.latest
    BY <1>9 DEF KeepsSettings
  <2> QED BY <1>9, <2>1 DEF Composes
<1>18. \A k \in EntryKeys(doc) :
          /\ d.m.entries[k] = m.entries[k]
          /\ m.entries[k] # None => d.c.entries[m.entries[k]] = c.entries[m.entries[k]]
  BY <1>1, <1>9, <1>10, <1>11, <1>12
<1>19. \A k \in MappedKeys \ EntryKeys(doc) : d.m.entries[k] = None
  BY <1>4, <1>10, <1>11
<1>20. c.product.starts = {m.entries[SceneKey]} => d.c.product.starts = c.product.starts
  BY <1>9, <1>12, DocumentFits
<1> QED BY <1>9, <1>11, <1>16, <1>17, <1>18, <1>19, <1>20 DEF d

\* Content that shows a document at the rows its mapping names.
ShowsDocument(c, m, doc, model) ==
    /\ c.product.text = doc.text /\ c.product.model = model
    /\ c.product.links = LinkIds(m, doc) /\ c.product.starts = {m.entries[SceneKey]}
    /\ \A l \in ToSet(doc.cast) : c.chars[m.chars[l]] = CharacterValue(doc, l)
    /\ \A k \in EntryKeys(doc) : /\ m.entries[k] \in EntryIds
                                  /\ c.entries[m.entries[k]] = EntryValue(doc, k)
    /\ \A k \in MappedKeys \ EntryKeys(doc) : m.entries[k] = None

\* What is frozen of content whose rows a document has just written.
LEMMA FrozenAsExpected ==
    ASSUME NEW c \in Contents, NEW m \in Mappings, MapsContent(c, m),
           NEW doc \in Documents, NEW model \in Models, ShowsDocument(c, m, doc, model)
    PROVE  Canonical(c) = ExpectedContent(doc, model)
<1>0. /\ c.product.text = doc.text /\ c.product.model = model
      /\ c.product.links = LinkIds(m, doc) /\ c.product.starts = {m.entries[SceneKey]}
      /\ \A l \in ToSet(doc.cast) : c.chars[m.chars[l]] = CharacterValue(doc, l)
      /\ \A k \in EntryKeys(doc) : /\ m.entries[k] \in EntryIds
                                    /\ c.entries[m.entries[k]] = EntryValue(doc, k)
      /\ \A k \in MappedKeys \ EntryKeys(doc) : m.entries[k] = None
  BY DEF ShowsDocument
<1>1. FrozenCharacters(c) = [i \in DOMAIN doc.cast |-> CharacterValue(doc, doc.cast[i])]
  <2>1. DOMAIN c.product.links = DOMAIN doc.cast
        /\ \A i \in DOMAIN doc.cast : c.product.links[i] = m.chars[doc.cast[i]]
    BY <1>0 DEF LinkIds
  <2>2. \A i \in DOMAIN doc.cast : doc.cast[i] \in ToSet(doc.cast)
    BY DocumentFits
  <2>3. \A i \in DOMAIN doc.cast : c.chars[c.product.links[i]] = CharacterValue(doc, doc.cast[i])
    BY <1>0, <2>1, <2>2
  <2> QED BY <2>1, <2>3 DEF FrozenCharacters
<1>2. FrozenLorebook(c) = {EntryValue(doc, k) : k \in EntryKeys(doc)}
  <2>1. ASSUME NEW id \in EntryIds, Live(c.entries[id])
        PROVE  \E k \in EntryKeys(doc) : c.entries[id] = EntryValue(doc, k)
    <3>1. PICK k \in MappedKeys : m.entries[k] = id
      BY <2>1 DEF MapsContent
    <3>2. k \in EntryKeys(doc)
      BY <1>0, <3>1, ContentAssumption
    <3> QED BY <1>0, <3>1, <3>2
  <2>2. ASSUME NEW k \in EntryKeys(doc)
        PROVE  \E id \in EntryIds : Live(c.entries[id]) /\ c.entries[id] = EntryValue(doc, k)
    <3>1. EntryValue(doc, k) \in EntryRows
      BY DocumentFits
    <3>2. Live(EntryValue(doc, k))
      BY <3>1, ContentAssumption DEF Live
    <3> QED BY <1>0, <3>2
  <2>3. \A x \in FrozenLorebook(c) : x \in {EntryValue(doc, k) : k \in EntryKeys(doc)}
    BY <2>1 DEF FrozenLorebook
  <2>4. \A x \in {EntryValue(doc, k) : k \in EntryKeys(doc)} : x \in FrozenLorebook(c)
    BY <2>2 DEF FrozenLorebook
  <2> QED BY <2>3, <2>4
<1>3. FrozenStarts(c) = {EntryValue(doc, SceneKey)}
  BY <1>0, DocumentFits DEF FrozenStarts
<1> QED BY <1>0, <1>1, <1>2, <1>3 DEF Canonical, ExpectedContent

\* What publish_studio leaves: the document is written over the copies its mapping
\* names and frozen exactly, and no copy of a character changes its row.
Releases(after, c, m, doc, model) ==
    /\ after.c \in Contents /\ after.m \in Mappings /\ MapsContent(after.c, after.m)
    /\ Composes(after.c)
    /\ after.m.receipts = m.receipts
    /\ \A l \in Locals : m.chars[l] # None => after.m.chars[l] = m.chars[l]
    /\ \E s \in Snapshots : /\ after.c.snaps = Append(c.snaps, s)
                            /\ s.content = ExpectedContent(doc, model)

\* publish_studio as a whole: whatever the copies and the mapping were, the
\* release shows the document, and the mapping goes on naming what it named.
LEMMA AfterPublication ==
    ASSUME NEW c \in Contents, NEW m \in Mappings, MapsContent(c, m), Composes(c), EnoughIds(c),
           NEW doc \in Documents, Publishable(doc), NEW model \in Models
    PROVE  Releases(AfterStudioPublication(c, m, doc, model), c, m, doc, model)
<1> DEFINE people == ToSet(doc.cast)
           cast == WriteCharacters([c |-> c, m |-> m], doc, people)
           booked == WriteBook(cast)
           written == WriteEntries(booked, doc)
           ids == LinkIds(written.m, doc)
           composed == Composed(written.c, ids, ids[1])
           settled == Configured(composed, model, {written.m.entries[SceneKey]})
           dropped == DropEntries([written EXCEPT !.c = settled], doc)
           profiled == Profiled(dropped.c, doc.text)
           after == AfterStudioPublication(c, m, doc, model)
<1>1. people \in SUBSET Locals /\ doc.cast \in Seq(Locals)
  BY DocumentFits
<1>2. /\ cast.c \in Contents /\ cast.m \in Mappings /\ MapsContent(cast.c, cast.m)
      /\ Composes(cast.c)
      /\ cast.m.receipts = m.receipts /\ cast.m.entries = m.entries
      /\ cast.c.entries = c.entries /\ cast.c.snaps = c.snaps
      /\ \A l \in Locals : m.chars[l] # None => cast.m.chars[l] = m.chars[l]
      /\ \A l \in people : /\ cast.m.chars[l] \in CharacterIds
                           /\ cast.c.chars[cast.m.chars[l]] = CharacterValue(doc, l)
      /\ \A l \in Locals \ people : cast.m.chars[l] = m.chars[l]
  <2> HIDE DEF people, cast
  <2> QED BY <1>1, CharactersWritten DEF cast
<1>3. booked = [m |-> [cast.m EXCEPT !.book = TRUE], c |-> [cast.c EXCEPT !.book = "live"]]
  BY DEF WriteBook
<1> HIDE DEF people, cast, booked
<1>4. /\ booked.c \in Contents /\ booked.m \in Mappings
      /\ booked.c.chars = cast.c.chars /\ booked.c.entries = c.entries
      /\ booked.c.snaps = c.snaps /\ booked.c.product = cast.c.product
      /\ booked.m.chars = cast.m.chars /\ booked.m.entries = cast.m.entries
      /\ booked.m.receipts = m.receipts
      /\ booked = [c |-> booked.c, m |-> booked.m]
  BY <1>2, <1>3 DEF Contents, Mappings
<1>5. MapsContent(booked.c, booked.m) /\ Composes(booked.c)
      /\ Cardinality(FreeIn(booked.c.entries)) >= Cardinality(MappedKeys)
  BY <1>2, <1>4, MappedKeysAreFew DEF MapsContent, Composes
<1>6. /\ written.c \in Contents /\ written.m \in Mappings /\ MapsContent(written.c, written.m)
      /\ Composes(written.c)
      /\ written.m.receipts = m.receipts /\ written.m.chars = cast.m.chars
      /\ written.c.chars = cast.c.chars /\ written.c.snaps = c.snaps
      /\ \A k \in EntryKeys(doc) :
            /\ written.m.entries[k] \in EntryIds
            /\ written.c.entries[written.m.entries[k]] = EntryValue(doc, k)
  BY <1>4, <1>5, EntriesWritten
<1>7. written = [c |-> written.c, m |-> written.m]
  BY DEF WriteEntries
<1> HIDE DEF written
<1>8. /\ DOMAIN ids = DOMAIN doc.cast /\ \A i \in DOMAIN doc.cast : ids[i] = written.m.chars[doc.cast[i]]
      /\ \A i \in DOMAIN doc.cast : doc.cast[i] \in people
  BY DocumentFits DEF LinkIds, people
<1> HIDE DEF ids
<1>9. /\ ids \in Seq(CharacterIds) /\ ids[1] \in CharacterIds
      /\ \A i, j \in DOMAIN ids : ids[i] = ids[j] => i = j
      /\ \A i \in DOMAIN ids : written.c.chars[ids[i]] # Unused
  <2>1. \A i \in DOMAIN doc.cast : ids[i] \in CharacterIds /\ ids[i] # None
    BY <1>2, <1>6, <1>8, ContentAssumption
  <2>2. DOMAIN doc.cast = 1 .. Len(doc.cast) /\ Len(doc.cast) \in Nat
    BY DocumentFits
  <2>3. ids = [i \in 1 .. Len(doc.cast) |-> ids[i]]
    BY <2>2 DEF ids, LinkIds
  <2>4. ids \in Seq(CharacterIds)
    <3>1. ids \in [1 .. Len(doc.cast) -> CharacterIds]
      BY <2>1, <2>2, <2>3
    <3> QED BY <2>2, <3>1, SeqDef
  <2>5. Len(doc.cast) # 0
    <3>1. doc.cast # <<>>
      BY DEF Publishable
    <3> QED BY <1>1, <3>1, EmptySeq
  <2>6. ids[1] \in CharacterIds
    BY <2>1, <2>2, <2>5
  <2>7. \A i, j \in DOMAIN doc.cast : doc.cast[i] = doc.cast[j] => i = j
    BY DEF Publishable, Distinct, IsInjective
  <2>8. \A a, b \in Locals : written.m.chars[a] # None /\ written.m.chars[a] = written.m.chars[b]
                             => a = b
    BY <1>6 DEF MapsContent, NamesRows
  <2>9. \A i, j \in DOMAIN ids : ids[i] = ids[j] => i = j
    BY <1>1, <1>8, <2>1, <2>7, <2>8
  <2>10. \A i \in DOMAIN ids : written.c.chars[ids[i]] # Unused
    <3>1. \A a \in Locals : written.m.chars[a] # None => written.c.chars[written.m.chars[a]] # Unused
      BY <1>6 DEF MapsContent, NamesRows
    <3> QED BY <1>1, <1>8, <2>1, <3>1
  <2> QED BY <2>4, <2>6, <2>9, <2>10
<1>10. /\ composed \in Contents
       /\ composed.product.links = ids /\ composed.product.book = TRUE
       /\ composed.product.latest = written.c.product.latest
       /\ composed.chars = written.c.chars /\ composed.entries = written.c.entries
       /\ composed.snaps = c.snaps
  <2>1. written.c \in Contents /\ written.c.snaps = c.snaps
    BY <1>6
  <2> DEFINE old == written.c
             first == ids[1]
  <2>2. old \in Contents /\ ids \in Seq(CharacterIds) /\ first \in CharacterIds
    BY <1>9, <2>1
  <2> HIDE DEF old, first
  <2>3. /\ Composed(old, ids, first) \in Contents
        /\ Composed(old, ids, first).product.links = ids
        /\ Composed(old, ids, first).product.book = TRUE
        /\ Composed(old, ids, first).product.latest = old.product.latest
        /\ Composed(old, ids, first).chars = old.chars
        /\ Composed(old, ids, first).entries = old.entries
        /\ Composed(old, ids, first).snaps = old.snaps
    BY <2>2, ComposedFits
  <2> QED BY <2>1, <2>3 DEF old, first
<1> HIDE DEF composed
<1>11. {written.m.entries[SceneKey]} \in SUBSET EntryIds
  BY <1>6, DocumentFits
<1>12. /\ settled \in Contents
       /\ settled.product.model = model
       /\ settled.product.starts = {written.m.entries[SceneKey]}
       /\ settled.product.links = composed.product.links
       /\ settled.product.book = composed.product.book
       /\ settled.product.latest = composed.product.latest
       /\ settled.chars = written.c.chars /\ settled.entries = written.c.entries
       /\ settled.snaps = c.snaps
  <2> DEFINE starts == {written.m.entries[SceneKey]}
  <2>1. starts \in SUBSET EntryIds /\ composed \in Contents
    BY <1>10, <1>11
  <2> HIDE DEF starts
  <2>2. /\ Configured(composed, model, starts) \in Contents
        /\ Configured(composed, model, starts).product.model = model
        /\ Configured(composed, model, starts).product.starts = starts
        /\ Configured(composed, model, starts).product.links = composed.product.links
        /\ Configured(composed, model, starts).product.book = composed.product.book
        /\ Configured(composed, model, starts).product.latest = composed.product.latest
        /\ Configured(composed, model, starts).chars = composed.chars
        /\ Configured(composed, model, starts).entries = composed.entries
        /\ Configured(composed, model, starts).snaps = composed.snaps
    BY <2>1, ConfiguredFits
  <2> QED BY <1>10, <2>2 DEF starts
<1> HIDE DEF settled
<1>13. /\ settled.product.links = ids /\ settled.product.book = TRUE
       /\ settled.product.model = model
       /\ settled.product.starts = {written.m.entries[SceneKey]}
       /\ settled.product.latest = Len(c.snaps)
  BY <1>6, <1>10, <1>12 DEF Composes
<1>14. MapsContent(settled, written.m) /\ Composes(settled)
  BY <1>6, <1>9, <1>12, <1>13 DEF MapsContent, Composes
<1>15. [written EXCEPT !.c = settled] = [c |-> settled, m |-> written.m]
  BY <1>7
<1>16. /\ dropped.c \in Contents /\ dropped.m \in Mappings /\ MapsContent(dropped.c, dropped.m)
       /\ Composes(dropped.c)
       /\ dropped.m.receipts = m.receipts /\ dropped.m.chars = written.m.chars
       /\ dropped.c.chars = written.c.chars /\ dropped.c.snaps = c.snaps
       /\ KeepsSettings(dropped.c, settled)
       /\ dropped.c.product.starts = settled.product.starts
       /\ \A k \in EntryKeys(doc) :
             /\ dropped.m.entries[k] = written.m.entries[k]
             /\ written.m.entries[k] # None
                => dropped.c.entries[written.m.entries[k]] = settled.entries[written.m.entries[k]]
       /\ \A k \in MappedKeys \ EntryKeys(doc) : dropped.m.entries[k] = None
  <2> DEFINE old == written.m
             d == DropEntries([c |-> settled, m |-> old], doc)
  <2>1. /\ old \in Mappings /\ MapsContent(settled, old) /\ old.receipts = m.receipts
        /\ settled.product.starts = {old.entries[SceneKey]}
    BY <1>6, <1>13, <1>14
  <2> HIDE DEF old
  <2>2. /\ d.c \in Contents /\ d.m \in Mappings /\ MapsContent(d.c, d.m)
        /\ Composes(d.c)
        /\ d.m.receipts = old.receipts /\ d.m.chars = old.chars
        /\ d.c.chars = settled.chars /\ d.c.snaps = settled.snaps
        /\ KeepsSettings(d.c, settled)
        /\ d.c.product.starts = settled.product.starts
        /\ \A k \in EntryKeys(doc) :
              /\ d.m.entries[k] = old.entries[k]
              /\ old.entries[k] # None
                 => d.c.entries[old.entries[k]] = settled.entries[old.entries[k]]
        /\ \A k \in MappedKeys \ EntryKeys(doc) : d.m.entries[k] = None
    BY <1>12, <1>14, <2>1, EntriesDropped
  <2>3. dropped = d
    BY <1>15 DEF old
  <2> HIDE DEF d, dropped
  <2> QED BY <1>12, <2>1, <2>2, <2>3 DEF old
<1>17. after = [m |-> dropped.m, c |-> Published(profiled)]
  <2>1. dropped = [m |-> dropped.m, c |-> dropped.c]
    BY DEF DropEntries
  <2>2. after = [dropped EXCEPT !.c = Published(Profiled(dropped.c, doc.text))]
    BY DEF AfterStudioPublication, people, cast, booked, written, ids, composed, settled
  <2> HIDE DEF dropped, after
  <2> QED BY <2>1, <2>2
<1> HIDE DEF dropped
<1>18. /\ dropped.c.product \in ProductRows
       /\ dropped.c.product.links = ids /\ dropped.c.product.book = TRUE
       /\ dropped.c.product.model = model
       /\ dropped.c.product.starts = {written.m.entries[SceneKey]}
       /\ dropped.c.product.latest = Len(c.snaps)
  BY <1>13, <1>16 DEF KeepsSettings, Contents
<1>19. /\ profiled \in Contents
       /\ profiled.product = [dropped.c.product EXCEPT !.text = doc.text]
       /\ profiled.chars = written.c.chars /\ profiled.entries = dropped.c.entries
       /\ profiled.snaps = c.snaps
  BY <1>16, DocumentFits, ProfiledFits
<1> HIDE DEF profiled, after
<1>20. /\ profiled.product.text = doc.text /\ profiled.product.links = ids
       /\ profiled.product.book = TRUE /\ profiled.product.model = model
       /\ profiled.product.starts = {written.m.entries[SceneKey]}
       /\ profiled.product.latest = Len(c.snaps)
  BY <1>18, <1>19 DEF ProductRows
<1>21. MapsContent(profiled, dropped.m) /\ Composes(profiled)
  <2>1. MapsContent(dropped.c, dropped.m)
    BY <1>16
  <2>2. NamesRows(dropped.m.chars, profiled.chars, Locals, CharacterIds)
    BY <1>16, <1>19, <2>1 DEF MapsContent
  <2>3. MapsContent(profiled, dropped.m)
    BY <1>19, <2>1, <2>2 DEF MapsContent
  <2>4. Composes(profiled)
    <3>1. profiled.product.links = ids /\ profiled.product.latest = Len(profiled.snaps)
          /\ profiled.chars = written.c.chars
      BY <1>19, <1>20
    <3> QED BY <1>9, <3>1 DEF Composes
  <2> QED BY <2>3, <2>4
<1>22. Canonical(profiled) = ExpectedContent(doc, model)
  <2>1. LinkIds(dropped.m, doc) = ids
    BY <1>16 DEF ids, LinkIds
  <2>2. dropped.m.entries[SceneKey] = written.m.entries[SceneKey]
    BY <1>16, DocumentFits
  <2>3. \A l \in people : profiled.chars[dropped.m.chars[l]] = CharacterValue(doc, l)
    BY <1>2, <1>6, <1>16, <1>19
  <2>4. \A k \in EntryKeys(doc) :
            /\ dropped.m.entries[k] \in EntryIds
            /\ profiled.entries[dropped.m.entries[k]] = EntryValue(doc, k)
    BY <1>6, <1>12, <1>16, <1>19, ContentAssumption
  <2> DEFINE names == dropped.m
  <2>5. names \in Mappings /\ MapsContent(profiled, names)
    BY <1>16, <1>21
  <2>6. ShowsDocument(profiled, names, doc, model)
    BY <1>16, <1>20, <2>1, <2>2, <2>3, <2>4 DEF ShowsDocument, people
  <2> HIDE DEF names
  <2> QED BY <1>19, <2>5, <2>6, FrozenAsExpected
<1> DEFINE released == Published(profiled)
<1>23. /\ released \in Contents /\ Composes(released)
       /\ released.chars = profiled.chars /\ released.entries = profiled.entries
       /\ released.product = [profiled.product EXCEPT !.latest = Len(profiled.snaps) + 1]
       /\ \E s \in Snapshots : /\ released.snaps = Append(profiled.snaps, s)
                               /\ s.content = Canonical(profiled)
  BY <1>19, <1>21, PublishedFits
<1> HIDE DEF released
<1>24. after.c = released /\ after.m = dropped.m
  BY <1>17 DEF released
<1>26. MapsContent(after.c, after.m)
  BY <1>21, <1>23, <1>24 DEF MapsContent
<1>27. \A l \in Locals : m.chars[l] # None => after.m.chars[l] = m.chars[l]
  BY <1>2, <1>6, <1>16, <1>24 DEF people
<1>29. \E s \in Snapshots : /\ after.c.snaps = Append(c.snaps, s)
                            /\ s.content = ExpectedContent(doc, model)
  BY <1>19, <1>22, <1>23, <1>24
<1> QED BY <1>16, <1>23, <1>24, <1>26, <1>27, <1>29 DEF after, Releases

-----------------------------------------------------------------------------
(* The draft and what it says of the content *)

DraftTable ==
    [revision: 1 .. MaxRevision, doc: Works, published: Documents \cup {None},
     release: 0 .. MaxSnapshots, mapping: {None} \cup Mappings]

\* Every receipt names a release that shows the document of its revision.
ReceiptsHold(m, c, ds) ==
    \A r \in DOMAIN m.receipts :
        m.receipts[r] # None =>
            /\ r \in DOMAIN ds /\ m.receipts[r].release \in DOMAIN c.snaps
            /\ c.snaps[m.receipts[r].release].content
                  = ExpectedContent(ds[r], m.receipts[r].model)

\* The mapping of the row names the rows of the content; where there is none, there
\* is nothing to name, or an old release of a document with every entry.
MappingHolds(row, c, ds) ==
    /\ row.mapping # None => MapsContent(c, row.mapping) /\ ReceiptsHold(row.mapping, c, ds)
    /\ row.mapping = None /\ row.release = 0 => MapsContent(c, NoMapping)
    /\ row.mapping = None /\ row.release # 0 => row.doc.lore = LoreKeys

\* The release of the row shows the document last published.
ReleaseHolds(row, c) ==
    /\ row.release <= Len(c.snaps) /\ Len(c.snaps) <= MaxSnapshots
    /\ row.release # 0 =>
         /\ row.published \in Documents
         /\ c.snaps[row.release].content
               = ExpectedContent(row.published, c.snaps[row.release].content.model)

DraftFits(row, c, ds) ==
    /\ row \in DraftTable /\ c \in Contents /\ Composes(c)
    /\ ds \in Seq(Works) /\ Len(ds) = row.revision /\ row.doc = ds[row.revision]
    /\ ReleaseHolds(row, c) /\ MappingHolds(row, c, ds)

\* A document of the owner can be published.
LEMMA WorksFit ==
    /\ Works \subseteq Documents /\ \A doc \in Works : Publishable(doc) /\ doc # None
    /\ None \notin Mappings /\ None \notin Nat
    /\ MaxSnapshots \in Nat \ {0} /\ MaxRevision \in Nat \ {0}
    /\ FirstDocument \in Works /\ FirstDocument.lore = LoreKeys
    /\ (CHOOSE model \in Models : TRUE) \in Models
BY StudioAssumption, NoneAssumption DEF FirstDocument

\* A row of the table is a row.
LEMMA RowsAreSome ==
    /\ None \notin DraftTable
    /\ \A row \in DraftTable : row.revision \in Nat \ {0} /\ row.release \in Nat
<1>1. DraftTable \subseteq DraftRows
  BY WorksFit DEF DraftTable, DraftRows
<1> QED BY <1>1, NoneAssumption, WorksFit DEF DraftTable

\* A mapping without rows names nothing.
LEMMA NoMappingFits ==
    /\ NoMapping \in Mappings /\ NoMapping.receipts = <<>>
    /\ \A c \in Contents : (\A id \in EntryIds : ~Live(c.entries[id]))
                               => MapsContent(c, NoMapping)
<1>1. NoMapping \in Mappings /\ NoMapping.receipts = <<>>
  <2>1. <<>> \in Seq({None} \cup [model: Models, release: 1 .. MaxSnapshots])
    BY EmptySeq
  <2> QED BY <2>1 DEF NoMapping, Mappings
<1>2. /\ NoMapping.chars = [l \in Locals |-> None]
      /\ NoMapping.entries = [k \in MappedKeys |-> None]
  BY DEF NoMapping, MappedKeys
<1>3. \A c \in Contents : DOMAIN c.chars = CharacterIds /\ DOMAIN c.entries = EntryIds
  BY DEF Contents
<1>4. /\ \A c \in Contents : NamesRows(NoMapping.chars, c.chars, Locals, CharacterIds)
      /\ \A c \in Contents : NamesRows(NoMapping.entries, c.entries, MappedKeys, EntryIds)
  BY <1>2, <1>3 DEF NamesRows
<1> QED BY <1>1, <1>4 DEF MapsContent

\* The mapping adopted from what an old release left names its rows.
LEMMA AdoptedFits ==
    ASSUME NEW row \in DraftTable, NEW c \in Contents, Composes(c), row.doc.lore = LoreKeys,
           CanAdopt(row, c)
    PROVE  /\ AdoptedMapping(row, c) \in Mappings
           /\ AdoptedMapping(row, c).receipts = <<>>
           /\ MapsContent(c, AdoptedMapping(row, c))
<1> DEFINE doc == row.doc
           links1 == c.product.links
           m == AdoptedMapping(row, c)
           at(l) == CHOOSE i \in DOMAIN doc.cast : doc.cast[i] = l
           one(k) == CHOOSE id \in EntriesNamed(c, k) : TRUE
<1>1. doc \in Documents /\ doc \in Works /\ Publishable(doc)
  BY WorksFit DEF DraftTable
<1>2. /\ links1 \in Seq(CharacterIds) /\ DOMAIN links1 = 1 .. Len(links1)
      /\ \A i \in DOMAIN links1 : links1[i] \in CharacterIds
      /\ \A i, j \in DOMAIN links1 : links1[i] = links1[j] => i = j
      /\ \A i \in DOMAIN links1 : c.chars[links1[i]] # Unused
  <2>1. links1 \in Seq(CharacterIds)
    BY DEF Contents, ProductRows
  <2>2. /\ \A i, j \in DOMAIN links1 : links1[i] = links1[j] => i = j
        /\ \A i \in DOMAIN links1 : c.chars[links1[i]] # Unused
    BY DEF Composes
  <2> HIDE DEF links1
  <2> QED BY <2>1, <2>2, LenProperties, ElementOfSeq
<1>3. DOMAIN doc.cast = DOMAIN links1
  <2>1. Len(doc.cast) = Len(links1)
    BY DEF CanAdopt
  <2>2. DOMAIN doc.cast = 1 .. Len(doc.cast)
    BY <1>1, DocumentFits
  <2> QED BY <1>2, <2>1, <2>2
<1>4. \A l \in ToSet(doc.cast) : at(l) \in DOMAIN doc.cast /\ doc.cast[at(l)] = l
  BY DEF ToSet
<1>5. EntryKeys(doc) = MappedKeys
  BY DEF EntryKeys, MappedKeys
<1>6. /\ m.chars = [l \in Locals |-> IF l \in ToSet(doc.cast) THEN links1[at(l)] ELSE None]
      /\ m.entries = [k \in MappedKeys |-> IF k \in EntryKeys(doc) THEN one(k) ELSE None]
      /\ m.receipts = <<>>
      /\ m = [chars |-> m.chars, book |-> TRUE, entries |-> m.entries, receipts |-> <<>>]
  BY DEF AdoptedMapping, MappedKeys
<1>7. ASSUME NEW k \in MappedKeys
      PROVE  /\ one(k) \in EntryIds /\ Live(c.entries[one(k)]) /\ c.entries[one(k)].key = k
             /\ \A id \in EntryIds : Live(c.entries[id]) /\ c.entries[id].key = k => id = one(k)
  <2>1. Cardinality(EntriesNamed(c, k)) = 1
    BY <1>5 DEF CanAdopt
  <2>2. EntriesNamed(c, k) \subseteq EntryIds
    BY DEF EntriesNamed
  <2>3. IsFiniteSet(EntriesNamed(c, k))
    BY <2>2, ContentAssumption, FS_Subset
  <2>4. PICK x : EntriesNamed(c, k) = {x}
    BY <2>1, <2>3, FS_Singleton
  <2>5. one(k) = x
    BY <2>4
  <2> QED BY <2>4, <2>5 DEF EntriesNamed
<1> HIDE DEF m, at, one, links1, doc
<1>8. NamesRows(m.chars, c.chars, Locals, CharacterIds)
  <2>1. \A l \in Locals : m.chars[l] = IF l \in ToSet(doc.cast) THEN links1[at(l)] ELSE None
    BY <1>6
  <2>2. \A l \in ToSet(doc.cast) : links1[at(l)] \in CharacterIds
    BY <1>2, <1>3, <1>4
  <2>3. m.chars \in [Locals -> CharacterIds \cup {None}]
    BY <1>6, <2>1, <2>2
  <2>4. DOMAIN c.chars = CharacterIds
    BY DEF Contents
  <2>5. ASSUME NEW a \in Locals, NEW b \in Locals, m.chars[a] # None, m.chars[a] = m.chars[b]
        PROVE  a = b
    <3>1. a \in ToSet(doc.cast) /\ b \in ToSet(doc.cast)
      BY <2>1, <2>5
    <3>2. links1[at(a)] = links1[at(b)]
      BY <2>1, <2>5, <3>1
    <3>3. at(a) = at(b)
      BY <1>2, <1>3, <1>4, <3>1, <3>2
    <3> QED BY <1>4, <3>1, <3>3
  <2>6. ASSUME NEW a \in Locals, m.chars[a] # None PROVE c.chars[m.chars[a]] # Unused
    <3>1. a \in ToSet(doc.cast) /\ m.chars[a] = links1[at(a)]
      BY <2>1, <2>6
    <3> QED BY <1>2, <1>3, <1>4, <3>1
  <2> QED BY <2>3, <2>4, <2>5, <2>6 DEF NamesRows
<1>9. \A k \in MappedKeys : m.entries[k] = one(k)
  BY <1>5, <1>6
<1>10. m.entries \in [MappedKeys -> EntryIds \cup {None}]
  BY <1>6, <1>7, <1>9
<1>11. NamesRows(m.entries, c.entries, MappedKeys, EntryIds)
  <2>1. DOMAIN c.entries = EntryIds
    BY DEF Contents
  <2>2. \A a, b \in MappedKeys : m.entries[a] = m.entries[b] => a = b
    BY <1>7, <1>9
  <2>3. \A a \in MappedKeys : c.entries[m.entries[a]] # Unused
    BY <1>7, <1>9 DEF Live
  <2> QED BY <1>10, <2>1, <2>2, <2>3 DEF NamesRows
<1>12. ASSUME NEW id \in EntryIds, Live(c.entries[id])
       PROVE  \E k \in MappedKeys : m.entries[k] = id
  <2>1. c.entries[id] \in EntryRows
    BY <1>12 DEF Live, Contents
  <2>2. c.entries[id].key \in MappedKeys
    BY <2>1 DEF EntryRows, MappedKeys
  <2>3. m.entries[c.entries[id].key] = id
    BY <1>7, <1>9, <1>12, <2>2
  <2> QED BY <2>2, <2>3
<1>13. m \in Mappings
  <2>1. <<>> \in Seq({None} \cup [model: Models, release: 1 .. MaxSnapshots])
    BY EmptySeq
  <2>2. m.chars \in [Locals -> CharacterIds \cup {None}]
    BY <1>8 DEF NamesRows
  <2>3. \A f \in [Locals -> CharacterIds \cup {None}], g \in [MappedKeys -> EntryIds \cup {None}] :
            [chars |-> f, book |-> TRUE, entries |-> g, receipts |-> <<>>] \in Mappings
    BY <2>1 DEF Mappings, MappedKeys
  <2>4. [chars |-> m.chars, book |-> TRUE, entries |-> m.entries, receipts |-> <<>>] \in Mappings
    BY <1>10, <2>2, <2>3
  <2> QED BY <1>6, <2>4, Zenon
<1> QED BY <1>6, <1>8, <1>11, <1>12, <1>13 DEF MapsContent, m

\* The mapping the server works with names the rows of the content.
LEMMA ComponentMappingFits ==
    ASSUME NEW row, NEW c, NEW ds, DraftFits(row, c, ds), HasMapping(row, c)
    PROVE  /\ ComponentMapping(row, c) \in Mappings /\ ComponentMapping(row, c) # None
           /\ MapsContent(c, ComponentMapping(row, c))
           /\ ReceiptsHold(ComponentMapping(row, c), c, ds)
<1>1. /\ row \in DraftTable /\ c \in Contents /\ Composes(c) /\ MappingHolds(row, c, ds)
  BY DEF DraftFits
<1>2. \A m : m.receipts = <<>> => ReceiptsHold(m, c, ds)
  BY EmptySeq, LenProperties DEF ReceiptsHold
<1>3. CASE row.mapping # None
  <2>1. row.mapping \in Mappings
    BY <1>1, <1>3 DEF DraftTable
  <2> QED BY <1>1, <1>3, <2>1 DEF MappingHolds, ComponentMapping
<1>4. CASE row.mapping = None /\ row.release = 0
  BY <1>1, <1>2, <1>4, NoMappingFits, WorksFit DEF MappingHolds, ComponentMapping
<1>5. CASE row.mapping = None /\ row.release # 0
  <2>1. CanAdopt(row, c) /\ row.doc.lore = LoreKeys
    BY <1>1, <1>5 DEF HasMapping, MappingHolds
  <2>2. ComponentMapping(row, c) = AdoptedMapping(row, c)
    BY <1>5 DEF ComponentMapping
  <2> QED BY <1>1, <1>2, <2>1, <2>2, AdoptedFits, WorksFit
<1> QED BY <1>3, <1>4, <1>5

\* A receipt is added; the others stay.
LEMMA WithReceiptFits ==
    ASSUME NEW m \in Mappings, NEW r \in Nat \ {0},
           NEW x \in [model: Models, release: 1 .. MaxSnapshots]
    PROVE  /\ WithReceipt(m, r, x) \in Mappings
           /\ WithReceipt(m, r, x).chars = m.chars
           /\ WithReceipt(m, r, x).entries = m.entries
           /\ r \in DOMAIN WithReceipt(m, r, x).receipts
           /\ DOMAIN m.receipts \subseteq DOMAIN WithReceipt(m, r, x).receipts
           /\ \A i \in DOMAIN WithReceipt(m, r, x).receipts :
                 WithReceipt(m, r, x).receipts[i] = IF i = r THEN x ELSE ReceiptAt(m, i)
<1> DEFINE q == m.receipts
           n == IF r > Len(q) THEN r ELSE Len(q)
           p == [i \in 1 .. n |-> IF i = r THEN x ELSE ReceiptAt(m, i)]
           S == {None} \cup [model: Models, release: 1 .. MaxSnapshots]
           w == WithReceipt(m, r, x)
<1>1. q \in Seq(S) /\ Len(q) \in Nat /\ DOMAIN q = 1 .. Len(q)
  <2>1. q \in Seq(S)
    BY DEF Mappings
  <2> HIDE DEF q, S
  <2> QED BY <2>1, LenProperties
<1>2. \A i \in DOMAIN q : q[i] \in S
  <2> HIDE DEF q, S
  <2> QED BY <1>1, ElementOfSeq
<1>3. n \in Nat /\ r \in 1 .. n /\ 1 .. Len(q) \subseteq 1 .. n
  <2> HIDE DEF q
  <2> QED BY <1>1
<1>4. \A i \in 1 .. n : (IF i = r THEN x ELSE ReceiptAt(m, i)) \in S
  <2>1. \A i : ReceiptAt(m, i) = IF i \in DOMAIN q THEN q[i] ELSE None
    BY DEF ReceiptAt
  <2>2. None \in S /\ x \in S
    OBVIOUS
  <2> HIDE DEF q, S, n
  <2> QED BY <1>2, <2>1, <2>2
<1>5. w = [m EXCEPT !.receipts = p]
  BY DEF WithReceipt
<1> HIDE DEF q, n, S
<1>6. p \in Seq(S) /\ DOMAIN p = 1 .. n /\ \A i \in 1 .. n : p[i] = IF i = r THEN x ELSE ReceiptAt(m, i)
  <2>1. p \in [1 .. n -> S]
    BY <1>4
  <2> QED BY <1>3, <2>1, SeqDef
<1> HIDE DEF p, w
<1>7. w \in Mappings /\ w.chars = m.chars /\ w.entries = m.entries /\ w.receipts = p
  BY <1>5, <1>6 DEF Mappings, S
<1> QED BY <1>1, <1>3, <1>6, <1>7 DEF w, q

-----------------------------------------------------------------------------
(* What the operations of the server keep *)

\* No snapshot is edited.
SnapshotsStay(c, d) ==
    /\ Len(c.snaps) <= Len(d.snaps)
    /\ \A i \in 1 .. Len(c.snaps) : d.snaps[i] = c.snaps[i]

\* No row is used again, and no entry comes back.
RowsOnlyGo(c, d) ==
    /\ \A id \in CharacterIds : c.chars[id] # Unused => d.chars[id] # Unused
    /\ \A id \in EntryIds : /\ c.entries[id] # Unused => d.entries[id] # Unused
                            /\ Live(d.entries[id]) => Live(c.entries[id])

\* A sequence that agrees with a longer one at all its places is its prefix.
LEMMA PrefixOf ==
    ASSUME NEW S, NEW s \in Seq(S), NEW t \in Seq(S), Len(s) <= Len(t),
           \A i \in 1 .. Len(s) : t[i] = s[i]
    PROVE  IsPrefix(s, t)
<1>1. Len(s) \in Nat /\ Len(t) \in Nat
  BY LenProperties
<1>2. SubSeq(s, 1, Len(s)) = s
  BY SubSeqFull
<1>3. \A i \in 1 .. Len(s) : t[i] \in S
  BY ElementOfSeq
<1>4. /\ SubSeq(t, 1, Len(s)) \in Seq(S)
      /\ Len(SubSeq(t, 1, Len(s))) = Len(s)
      /\ \A i \in 1 .. Len(s) : SubSeq(t, 1, Len(s))[i] = s[i]
  <2>1. 1 \in Int /\ Len(s) \in Int
    BY <1>1
  <2>2. /\ SubSeq(t, 1, Len(s)) \in Seq(S)
        /\ Len(SubSeq(t, 1, Len(s))) = IF 1 <= Len(s) THEN Len(s) - 1 + 1 ELSE 0
        /\ \A i \in 1 .. Len(s) - 1 + 1 : SubSeq(t, 1, Len(s))[i] = t[1 + i - 1]
    BY <1>3, <2>1, SubSeqProperties
  <2> QED BY <1>1, <2>2
<1>5. SubSeq(t, 1, Len(s)) = s
  BY <1>4, SeqEqual
<1> QED BY <1>2, <1>5 DEF IsPrefix

\* Snapshots that stay are a prefix of what is there later.
LEMMA SnapshotsArePrefix ==
    ASSUME NEW c \in Contents, NEW d \in Contents, SnapshotsStay(c, d)
    PROVE  IsPrefix(c.snaps, d.snaps)
<1>1. c.snaps \in Seq(Snapshots) /\ d.snaps \in Seq(Snapshots)
  BY DEF Contents
<1> QED BY <1>1, PrefixOf DEF SnapshotsStay

\* A release adds a snapshot and touches none.
LEMMA AppendedSnapshot ==
    ASSUME NEW c \in Contents, NEW d \in Contents, NEW s \in Snapshots,
           d.snaps = Append(c.snaps, s)
    PROVE  /\ SnapshotsStay(c, d) /\ Len(c.snaps) \in Nat
           /\ Len(d.snaps) = Len(c.snaps) + 1 /\ d.snaps[Len(c.snaps) + 1] = s
<1>1. c.snaps \in Seq(Snapshots)
  BY DEF Contents
<1>2. Len(c.snaps) \in Nat
  BY <1>1, LenProperties
<1>3. /\ Len(d.snaps) = Len(c.snaps) + 1
      /\ \A i \in 1 .. Len(c.snaps) : d.snaps[i] = c.snaps[i]
      /\ d.snaps[Len(c.snaps) + 1] = s
  BY <1>1, AppendProperties
<1> QED BY <1>2, <1>3 DEF SnapshotsStay

\* A mapping that names the rows names them when rows only go.
LEMMA MapsStays ==
    ASSUME NEW c \in Contents, NEW d \in Contents, RowsOnlyGo(c, d), NEW m, MapsContent(c, m)
    PROVE  MapsContent(d, m)
<1>1. /\ NamesRows(m.chars, c.chars, Locals, CharacterIds)
      /\ NamesRows(m.entries, c.entries, MappedKeys, EntryIds)
      /\ \A id \in EntryIds : Live(c.entries[id]) => \E k \in MappedKeys : m.entries[k] = id
  BY DEF MapsContent
<1>2. DOMAIN d.chars = CharacterIds /\ DOMAIN d.entries = EntryIds
  BY DEF Contents
<1>3. NamesRows(m.chars, d.chars, Locals, CharacterIds)
  <2>1. \A a \in Locals : m.chars[a] \in CharacterIds \cup {None}
    BY <1>1 DEF NamesRows
  <2> QED BY <1>1, <1>2, <2>1 DEF NamesRows, RowsOnlyGo
<1>4. NamesRows(m.entries, d.entries, MappedKeys, EntryIds)
  <2>1. \A a \in MappedKeys : m.entries[a] \in EntryIds \cup {None}
    BY <1>1 DEF NamesRows
  <2> QED BY <1>1, <1>2, <2>1 DEF NamesRows, RowsOnlyGo
<1> QED BY <1>1, <1>3, <1>4 DEF MapsContent, RowsOnlyGo

\* Receipts hold as long as snapshots stay and revisions are only added.
LEMMA ReceiptsStay ==
    ASSUME NEW c \in Contents, NEW d \in Contents, SnapshotsStay(c, d), NEW m,
           NEW ds, NEW es, DOMAIN ds \subseteq DOMAIN es, \A r \in DOMAIN ds : es[r] = ds[r],
           ReceiptsHold(m, c, ds)
    PROVE  ReceiptsHold(m, d, es)
<1>1. /\ DOMAIN c.snaps = 1 .. Len(c.snaps) /\ DOMAIN d.snaps = 1 .. Len(d.snaps)
      /\ Len(c.snaps) \in Nat /\ Len(d.snaps) \in Nat
  BY LenProperties DEF Contents
<1>2. \A i \in DOMAIN c.snaps : i \in DOMAIN d.snaps /\ d.snaps[i] = c.snaps[i]
  BY <1>1 DEF SnapshotsStay
<1> QED BY <1>2 DEF ReceiptsHold

\* A recorded release is there for good.
LEMMA ReleaseStays ==
    ASSUME NEW row \in DraftTable, NEW c \in Contents, NEW d \in Contents,
           SnapshotsStay(c, d), Len(d.snaps) <= MaxSnapshots, ReleaseHolds(row, c)
    PROVE  ReleaseHolds(row, d)
<1>1. Len(c.snaps) \in Nat /\ Len(d.snaps) \in Nat /\ row.release \in Nat
  BY LenProperties DEF Contents, DraftTable
<1>2. row.release # 0 => row.release \in 1 .. Len(c.snaps)
  BY <1>1 DEF ReleaseHolds
<1> QED BY <1>1, <1>2 DEF ReleaseHolds, SnapshotsStay

\* The draft fits whatever else is done to the content.
LEMMA DraftStays ==
    ASSUME NEW row, NEW c, NEW d \in Contents, NEW ds, DraftFits(row, c, ds), Composes(d),
           Len(d.snaps) <= MaxSnapshots, RowsOnlyGo(c, d), SnapshotsStay(c, d)
    PROVE  DraftFits(row, d, ds)
<1>1. /\ row \in DraftTable /\ c \in Contents
      /\ ReleaseHolds(row, c) /\ MappingHolds(row, c, ds)
  BY DEF DraftFits
<1>2. ReleaseHolds(row, d)
  BY <1>1, ReleaseStays
<1>3. MappingHolds(row, d, ds)
  <2>1. row.mapping # None => ReceiptsHold(row.mapping, d, ds)
    BY <1>1, ReceiptsStay DEF MappingHolds
  <2>2. \A m : MapsContent(c, m) => MapsContent(d, m)
    BY <1>1, MapsStays
  <2> QED BY <1>1, <2>1, <2>2 DEF MappingHolds
<1> QED BY <1>2, <1>3 DEF DraftFits

\* The owner's other editors: rows only go, and snapshots are only added.
LEMMA DirectEditsFit ==
    ASSUME content \in Contents, Composes(content), Len(content.snaps) <= MaxSnapshots,
           EditCopy \/ DeleteCopy \/ DeleteEntryDirectly
           \/ Recompose \/ Reconfigure \/ PublishDirectly
    PROVE  /\ content' \in Contents /\ Composes(content')
           /\ Len(content'.snaps) <= MaxSnapshots
           /\ RowsOnlyGo(content, content') /\ SnapshotsStay(content, content')
<1> DEFINE c == content
<1>1. c \in Contents /\ Composes(c) /\ Len(c.snaps) <= MaxSnapshots
  OBVIOUS
<1>2. Len(c.snaps) \in Nat /\ c.product \in ProductRows
      /\ \A i \in DOMAIN c.product.links : c.product.links[i] \in CharacterIds
  <2>1. c.snaps \in Seq(Snapshots) /\ c.product \in ProductRows
    BY DEF Contents
  <2>2. c.product.links \in Seq(CharacterIds)
    BY <2>1 DEF ProductRows
  <2> QED BY <2>1, <2>2, LenProperties, ElementOfSeq
<1> HIDE DEF c
<1>3. \A d : d.snaps = c.snaps => SnapshotsStay(c, d)
  BY <1>2 DEF SnapshotsStay
<1>4. CASE EditCopy
  <2>1. PICK id \in CharacterIds :
          /\ Live(c.chars[id])
          /\ content' = UpdatedCharacter(c, id, [c.chars[id] EXCEPT !.text = 0])
    BY <1>4 DEF EditCopy, c
  <2> DEFINE value == [c.chars[id] EXCEPT !.text = 0]
  <2>2. value \in CharacterRows
    <3>1. c.chars[id] \in CharacterRows
      BY <1>1, <2>1 DEF Live, Contents
    <3> QED BY <3>1 DEF CharacterRows
  <2> HIDE DEF value
  <2>3. content' = UpdatedCharacter(c, id, value)
    BY <2>1 DEF value
  <2>4. /\ content' \in Contents /\ content'.product = c.product
        /\ \A i \in CharacterIds : content'.chars[i] = IF i = id THEN value ELSE c.chars[i]
        /\ content'.entries = c.entries /\ content'.snaps = c.snaps
    BY <1>1, <2>2, <2>3, UpdatedCharacterFits
  <2>5. RowsOnlyGo(c, content')
    BY <2>2, <2>4, ContentAssumption DEF RowsOnlyGo
  <2>6. Composes(content')
    BY <1>1, <1>2, <2>4, <2>5 DEF Composes, RowsOnlyGo
  <2> QED BY <1>1, <1>3, <2>4, <2>5, <2>6 DEF c
<1>5. CASE DeleteCopy
  <2>1. PICK id \in CharacterIds : content' = DeletedCharacter(c, id)
    BY <1>5 DEF DeleteCopy, c
  <2>2. /\ content' \in Contents /\ Composes(content')
        /\ \A i \in CharacterIds : content'.chars[i] = IF i = id THEN Gone ELSE c.chars[i]
        /\ content'.entries = c.entries /\ content'.snaps = c.snaps
    BY <1>1, <2>1, DeletedCharacterFits
  <2>3. RowsOnlyGo(c, content')
    BY <2>2, ContentAssumption DEF RowsOnlyGo
  <2> QED BY <1>1, <1>3, <2>2, <2>3 DEF c
<1>6. CASE DeleteEntryDirectly
  <2>1. PICK id \in EntryIds : Live(c.entries[id]) /\ content' = WithoutEntries(c, {id})
    BY <1>6 DEF DeleteEntryDirectly, DeletedEntry, c
  <2>2. /\ content' \in Contents
        /\ content'.product.links = c.product.links
        /\ content'.product.latest = c.product.latest
        /\ content'.chars = c.chars
        /\ \A i \in EntryIds : content'.entries[i] = IF i \in {id} THEN Gone ELSE c.entries[i]
        /\ content'.snaps = c.snaps
    <3>1. {id} \in SUBSET EntryIds
      OBVIOUS
    <3> QED BY <1>1, <2>1, <3>1, WithoutEntriesFits
  <2>3. RowsOnlyGo(c, content')
    BY <2>2, ContentAssumption DEF RowsOnlyGo, Live
  <2>4. Composes(content')
    BY <1>1, <2>2 DEF Composes
  <2> QED BY <1>1, <1>3, <2>2, <2>3, <2>4 DEF c
<1>7. CASE Recompose
  <2>1. PICK id \in CharacterIds :
          CanCompose(c, <<id>>) /\ content' = Composed(c, <<id>>, id)
    BY <1>7 DEF Recompose, c
  <2> DEFINE ids == <<id>>
  <2>2. /\ ids \in Seq(CharacterIds) /\ DOMAIN ids = {1} /\ ids[1] = id
        /\ c.chars[id] # Unused
    BY <2>1 DEF CanCompose, OwnsCharacters, Live, ToSet
  <2> HIDE DEF ids
  <2>3. content' = Composed(c, ids, id)
    BY <2>1 DEF ids
  <2>4. /\ content' \in Contents
        /\ content'.product.links = ids /\ content'.product.latest = c.product.latest
        /\ content'.chars = c.chars /\ content'.entries = c.entries
        /\ content'.snaps = c.snaps
    <3>0. c \in Contents /\ ids \in Seq(CharacterIds)
      BY <1>1, <2>2
    <3>1. /\ Composed(c, ids, id) \in Contents
          /\ Composed(c, ids, id).product.links = ids
          /\ Composed(c, ids, id).product.book = TRUE
          /\ Composed(c, ids, id).product.latest = c.product.latest
          /\ Composed(c, ids, id).chars = c.chars
          /\ Composed(c, ids, id).entries = c.entries
          /\ Composed(c, ids, id).snaps = c.snaps
      BY <3>0, ComposedFits
    <3> QED BY <2>3, <3>1
  <2>6. Composes(content')
    BY <1>1, <2>2, <2>4 DEF Composes
  <2>7. RowsOnlyGo(c, content')
    BY <2>4 DEF RowsOnlyGo
  <2> QED BY <1>1, <1>3, <2>4, <2>6, <2>7 DEF c
<1>8. CASE Reconfigure
  <2>1. PICK model \in Models, id \in EntryIds : content' = Configured(c, model, {id})
    BY <1>8 DEF Reconfigure, c
  <2> DEFINE starts == {id}
  <2>2. starts \in SUBSET EntryIds
    OBVIOUS
  <2> HIDE DEF starts
  <2>3. content' = Configured(c, model, starts)
    BY <2>1 DEF starts
  <2>4. /\ content' \in Contents
        /\ content'.product.links = c.product.links
        /\ content'.product.latest = c.product.latest
        /\ content'.chars = c.chars /\ content'.entries = c.entries
        /\ content'.snaps = c.snaps
    BY <1>1, <2>2, <2>3, ConfiguredFits
  <2>5. Composes(content') /\ RowsOnlyGo(c, content')
    BY <1>1, <2>4 DEF Composes, RowsOnlyGo
  <2> QED BY <1>1, <1>3, <2>4, <2>5 DEF c
<1>9. CASE PublishDirectly
  <2>1. Len(c.snaps) < MaxSnapshots /\ content' = Published(c)
    BY <1>9 DEF PublishDirectly, c
  <2>2. /\ content' \in Contents /\ Composes(content')
        /\ content'.chars = c.chars /\ content'.entries = c.entries
        /\ \E s \in Snapshots : content'.snaps = Append(c.snaps, s)
    BY <1>1, <2>1, PublishedFits
  <2>3. PICK s \in Snapshots : content'.snaps = Append(c.snaps, s)
    BY <2>2
  <2>4. SnapshotsStay(c, content') /\ Len(content'.snaps) = Len(c.snaps) + 1
    BY <1>1, <2>2, <2>3, AppendedSnapshot
  <2>5. Len(content'.snaps) <= MaxSnapshots
    BY <1>2, <2>1, <2>4, WorksFit
  <2>6. RowsOnlyGo(c, content')
    BY <2>2 DEF RowsOnlyGo
  <2> QED BY <2>2, <2>4, <2>5, <2>6 DEF c
<1> QED BY <1>4, <1>5, <1>6, <1>7, <1>8, <1>9

-----------------------------------------------------------------------------
(* The operations of the server *)

\* A mapping forgets no copy and no answer of another.
Extends(before, after) ==
    /\ \A l \in Locals : before.chars[l] # None => after.chars[l] = before.chars[l]
    /\ \A r \in DOMAIN before.receipts :
          before.receipts[r] # None => ReceiptAt(after, r) = before.receipts[r]

\* What IdentitiesStay asks of a step, as a relation of rows and contents.
Kept(row, c, next, d) ==
    HasMapping(row, c) =>
        /\ HasMapping(next, d)
        /\ Extends(ComponentMapping(row, c), ComponentMapping(next, d))
        /\ IsPrefix(c.snaps, d.snaps)

\* Every mapping goes on from itself.
LEMMA ExtendsItself == \A m : Extends(m, m)
BY DEF Extends, ReceiptAt

\* A step that touches neither row nor content keeps all identities.
LEMMA KeptAsItIs ==
    ASSUME NEW row, NEW c \in Contents
    PROVE  Kept(row, c, row, c)
<1>1. c.snaps \in Seq(Snapshots)
  BY DEF Contents
<1>2. IsPrefix(c.snaps, c.snaps)
  BY <1>1, PrefixOf, LenProperties
<1>3. Extends(ComponentMapping(row, c), ComponentMapping(row, c))
  BY ExtendsItself
<1>4. HasMapping(row, c) =>
        /\ HasMapping(row, c)
        /\ Extends(ComponentMapping(row, c), ComponentMapping(row, c))
        /\ IsPrefix(c.snaps, c.snaps)
  BY <1>2, <1>3
<1> QED BY <1>4 DEF Kept

\* A row with another mapping, or the mapping the server already works with.
LEMMA MappedRow ==
    ASSUME NEW row \in DraftTable, NEW m \in Mappings
    PROVE  /\ [row EXCEPT !.mapping = m] \in DraftTable
           /\ [row EXCEPT !.mapping = m].mapping = m
           /\ [row EXCEPT !.mapping = m].revision = row.revision
           /\ [row EXCEPT !.mapping = m].doc = row.doc
           /\ [row EXCEPT !.mapping = m].published = row.published
           /\ [row EXCEPT !.mapping = m].release = row.release
BY DEF DraftTable

\* What EditedDraft writes, field by field.
LEMMA EditedRow ==
    ASSUME NEW row \in DraftTable, NEW doc \in Works, NEW m \in {None} \cup Mappings,
           row.revision < MaxRevision
    PROVE  /\ EditedDraft(row, doc, m) \in DraftTable
           /\ EditedDraft(row, doc, m).mapping = m
           /\ EditedDraft(row, doc, m).revision = row.revision + 1
           /\ EditedDraft(row, doc, m).doc = doc
           /\ EditedDraft(row, doc, m).published = row.published
           /\ EditedDraft(row, doc, m).release = row.release
<1> DEFINE n == row.revision + 1
           new == [row EXCEPT !.revision = n, !.doc = doc, !.mapping = m]
<1>1. n \in 1 .. MaxRevision
  BY WorksFit DEF DraftTable
<1>2. EditedDraft(row, doc, m) = new
  BY DEF EditedDraft
<1> HIDE DEF n
<1>3. new \in DraftTable
  BY <1>1 DEF DraftTable
<1>4. /\ new.mapping = m /\ new.revision = n /\ new.doc = doc
      /\ new.published = row.published /\ new.release = row.release
  BY DEF DraftTable
<1> HIDE DEF new
<1> QED BY <1>2, <1>3, <1>4 DEF n

\* A row whose mapping is m, of content that m names.
LEMMA FitsWithMapping ==
    ASSUME NEW row, NEW c, NEW ds, DraftFits(row, c, ds), NEW d \in Contents, Composes(d),
           SnapshotsStay(c, d), Len(d.snaps) <= MaxSnapshots,
           NEW m \in Mappings, MapsContent(d, m), ReceiptsHold(m, c, ds)
    PROVE  DraftFits([row EXCEPT !.mapping = m], d, ds)
<1> DEFINE next == [row EXCEPT !.mapping = m]
<1>1. /\ row \in DraftTable /\ c \in Contents /\ ReleaseHolds(row, c)
      /\ ds \in Seq(Works) /\ Len(ds) = row.revision /\ row.doc = ds[row.revision]
  BY DEF DraftFits
<1>2. /\ next \in DraftTable /\ next.mapping = m /\ next.revision = row.revision
      /\ next.doc = row.doc /\ next.published = row.published /\ next.release = row.release
  BY <1>1, MappedRow
<1> HIDE DEF next
<1>3. ReleaseHolds(next, d)
  <2>1. ReleaseHolds(next, c)
    BY <1>1, <1>2 DEF ReleaseHolds
  <2> QED BY <1>1, <1>2, <2>1, ReleaseStays
<1>4. ReceiptsHold(m, d, ds)
  BY <1>1, ReceiptsStay
<1>5. MappingHolds(next, d, ds)
  BY <1>2, <1>4, WorksFit DEF MappingHolds
<1>6. DraftFits(next, d, ds)
  BY <1>1, <1>2, <1>3, <1>5 DEF DraftFits
<1> QED BY <1>6 DEF next

\* A work saved for the first time.
LEMMA CreatedFits ==
    ASSUME NEW doc \in Works
    PROVE  DraftFits(NewDraft(doc), EmptyContent(doc.text), <<doc>>)
<1> DEFINE row == NewDraft(doc)
           c == EmptyContent(doc.text)
           ds == <<doc>>
<1>1. doc.text \in Texts
  BY WorksFit, DocumentFits
<1>2. /\ c \in Contents /\ Composes(c) /\ c.snaps = <<>>
      /\ \A id \in EntryIds : ~Live(c.entries[id])
  <2>1. /\ c \in Contents /\ Composes(c) /\ c.snaps = <<>>
        /\ \A id \in EntryIds : c.entries[id] = Unused
    BY <1>1, EmptyContentFits
  <2> QED BY <2>1 DEF Live
<1>3. /\ row \in DraftTable /\ row.mapping = None /\ row.release = 0
      /\ row.revision = 1 /\ row.doc = doc
  BY WorksFit DEF NewDraft, DraftTable
<1>4. ds \in Seq(Works) /\ Len(ds) = 1 /\ ds[1] = doc
  OBVIOUS
<1> HIDE DEF row, c, ds
<1>5. ReleaseHolds(row, c)
  <2>1. Len(c.snaps) = 0
    BY <1>2, EmptySeq
  <2> QED BY <1>3, <2>1, WorksFit DEF ReleaseHolds
<1>6. MappingHolds(row, c, ds)
  BY <1>2, <1>3, NoMappingFits DEF MappingHolds
<1>7. DraftFits(row, c, ds)
  BY <1>2, <1>3, <1>4, <1>5, <1>6 DEF DraftFits
<1> QED BY <1>7 DEF row, c, ds

\* The same document saved again.
LEMMA RepeatedFits ==
    ASSUME NEW row, NEW c, NEW ds, DraftFits(row, c, ds), NEW expected,
           CanKeepMapping(row, expected, c)
    PROVE  LET next == [row EXCEPT !.mapping = MappingKept(row, expected, c)]
           IN  DraftFits(next, c, ds) /\ Kept(row, c, next, c)
<1> DEFINE next == [row EXCEPT !.mapping = MappingKept(row, expected, c)]
<1>1. row \in DraftTable /\ c \in Contents /\ Composes(c) /\ ReleaseHolds(row, c)
  BY DEF DraftFits
<1>2. CASE expected # None /\ row.release # 0
  <2> DEFINE m == ComponentMapping(row, c)
  <2>1. HasMapping(row, c)
    BY <1>2 DEF CanKeepMapping
  <2>2. /\ m \in Mappings /\ m # None /\ MapsContent(c, m) /\ ReceiptsHold(m, c, ds)
    BY <2>1, ComponentMappingFits
  <2>3. next = [row EXCEPT !.mapping = m]
    BY <1>2 DEF MappingKept
  <2> HIDE DEF m, next
  <2>4. SnapshotsStay(c, c) /\ Len(c.snaps) <= MaxSnapshots
    BY <1>1, LenProperties DEF SnapshotsStay, ReleaseHolds, Contents
  <2>5. DraftFits(next, c, ds)
    BY <1>1, <2>2, <2>3, <2>4, FitsWithMapping
  <2>6. next.mapping = m
    BY <1>1, <2>2, <2>3, MappedRow
  <2>7. HasMapping(next, c) /\ ComponentMapping(next, c) = m
    BY <2>2, <2>6 DEF HasMapping, ComponentMapping
  <2>8. IsPrefix(c.snaps, c.snaps)
    BY <1>1, <2>4, SnapshotsArePrefix
  <2>9. Kept(row, c, next, c)
    BY <2>7, <2>8, ExtendsItself DEF Kept, m
  <2> QED BY <2>5, <2>9 DEF next
<1>3. CASE ~(expected # None /\ row.release # 0)
  <2>1. MappingKept(row, expected, c) = row.mapping
    BY <1>3 DEF MappingKept
  <2>2. next = row
    BY <1>1, <2>1 DEF DraftTable
  <2> HIDE DEF next
  <2>3. DraftFits(next, c, ds) /\ Kept(row, c, next, c)
    BY <1>1, <2>2, KeptAsItIs
  <2> QED BY <2>3 DEF next
<1> QED BY <1>2, <1>3

\* Another document saved over the one the client expected.
LEMMA EditedFits ==
    ASSUME NEW row, NEW c, NEW ds, DraftFits(row, c, ds), NEW expected,
           CanKeepMapping(row, expected, c), expected # None, NEW doc \in Works,
           row.revision < MaxRevision
    PROVE  LET next == EditedDraft(row, doc, MappingKept(row, expected, c))
               d == IF c.product.latest = 0 THEN Profiled(c, doc.text) ELSE c
           IN  DraftFits(next, d, Append(ds, doc)) /\ Kept(row, c, next, d)
<1> DEFINE kept == MappingKept(row, expected, c)
           next == EditedDraft(row, doc, kept)
           d == IF c.product.latest = 0 THEN Profiled(c, doc.text) ELSE c
           es == Append(ds, doc)
<1>1. /\ row \in DraftTable /\ c \in Contents /\ Composes(c) /\ ReleaseHolds(row, c)
      /\ MappingHolds(row, c, ds)
      /\ ds \in Seq(Works) /\ Len(ds) = row.revision /\ row.doc = ds[row.revision]
  BY DEF DraftFits
<1>2. /\ d \in Contents /\ d.chars = c.chars /\ d.entries = c.entries /\ d.snaps = c.snaps
      /\ d.product.links = c.product.links /\ d.product.latest = c.product.latest
  <2>1. doc.text \in Texts
    BY WorksFit, DocumentFits
  <2>2. /\ Profiled(c, doc.text) \in Contents
        /\ Profiled(c, doc.text).product = [c.product EXCEPT !.text = doc.text]
        /\ Profiled(c, doc.text).chars = c.chars
        /\ Profiled(c, doc.text).entries = c.entries
        /\ Profiled(c, doc.text).snaps = c.snaps
    BY <1>1, <2>1, ProfiledFits
  <2>3. c.product \in ProductRows
    BY <1>1 DEF Contents
  <2>4. /\ Profiled(c, doc.text).product.links = c.product.links
        /\ Profiled(c, doc.text).product.latest = c.product.latest
    BY <2>2, <2>3 DEF ProductRows
  <2> QED BY <1>1, <2>2, <2>4
<1>3. /\ kept # None => kept \in Mappings /\ MapsContent(c, kept) /\ ReceiptsHold(kept, c, ds)
      /\ kept = None => row.mapping = None /\ row.release = 0
      /\ row.mapping # None \/ row.release = 0 => kept = row.mapping
      /\ row.release # 0 => HasMapping(row, c) /\ kept = ComponentMapping(row, c)
  <2>1. CASE row.release # 0
    <3>1. HasMapping(row, c) /\ kept = ComponentMapping(row, c)
      BY <2>1 DEF CanKeepMapping, MappingKept
    <3>2. kept \in Mappings /\ kept # None /\ MapsContent(c, kept) /\ ReceiptsHold(kept, c, ds)
      BY <3>1, ComponentMappingFits
    <3> QED BY <2>1, <3>1, <3>2 DEF ComponentMapping
  <2>2. CASE row.release = 0
    <3>1. kept = row.mapping
      BY <2>2 DEF MappingKept
    <3>2. kept # None => kept \in Mappings /\ MapsContent(c, kept) /\ ReceiptsHold(kept, c, ds)
      BY <1>1, <3>1 DEF DraftTable, MappingHolds
    <3> QED BY <2>2, <3>1, <3>2
  <2> QED BY <2>1, <2>2
<1>4. /\ next \in DraftTable /\ next.revision = row.revision + 1 /\ next.doc = doc
      /\ next.mapping = kept /\ next.release = row.release /\ next.published = row.published
  <2>1. kept \in {None} \cup Mappings
    BY <1>3
  <2> HIDE DEF kept
  <2> QED BY <1>1, <2>1, EditedRow
<1>5. /\ es \in Seq(Works) /\ Len(es) = row.revision + 1 /\ es[row.revision + 1] = doc
      /\ DOMAIN ds = 1 .. Len(ds) /\ DOMAIN es = 1 .. Len(ds) + 1 /\ Len(ds) \in Nat
      /\ \A r \in 1 .. Len(ds) : es[r] = ds[r]
  <2>1. /\ es \in Seq(Works) /\ Len(es) = Len(ds) + 1 /\ es[Len(ds) + 1] = doc
        /\ \A r \in 1 .. Len(ds) : es[r] = ds[r]
    BY <1>1, AppendProperties
  <2> HIDE DEF es
  <2> QED BY <1>1, <2>1, LenProperties
<1> HIDE DEF kept, next, d, es
<1>6. SnapshotsStay(c, d) /\ RowsOnlyGo(c, d) /\ Composes(d) /\ Len(d.snaps) <= MaxSnapshots
  <2>1. Len(c.snaps) \in Nat
    BY <1>1, LenProperties DEF Contents
  <2> QED BY <1>1, <1>2, <2>1 DEF SnapshotsStay, RowsOnlyGo, Composes, ReleaseHolds
<1>7. ReleaseHolds(next, d)
  <2>1. ReleaseHolds(next, c)
    BY <1>1, <1>4 DEF ReleaseHolds
  <2> QED BY <1>1, <1>2, <1>4, <1>6, <2>1, ReleaseStays
<1>8. MappingHolds(next, d, es)
  <2>1. \A m : MapsContent(c, m) => MapsContent(d, m)
    BY <1>1, <1>2, <1>6, MapsStays
  <2>2. kept # None => ReceiptsHold(kept, d, es)
    <3>1. DOMAIN ds \subseteq DOMAIN es /\ \A r \in DOMAIN ds : es[r] = ds[r]
      BY <1>5
    <3> QED BY <1>1, <1>2, <1>3, <1>6, <3>1, ReceiptsStay
  <2> QED BY <1>1, <1>3, <1>4, <2>1, <2>2 DEF MappingHolds
<1>9. DraftFits(next, d, es)
  BY <1>2, <1>4, <1>5, <1>6, <1>7, <1>8 DEF DraftFits
<1>10. Kept(row, c, next, d)
  <2>1. IsPrefix(c.snaps, d.snaps)
    BY <1>1, <1>2, <1>6, SnapshotsArePrefix
  <2>2. HasMapping(next, d) /\ ComponentMapping(next, d) = ComponentMapping(row, c)
    <3>1. CASE kept # None
      BY <1>3, <1>4, <3>1 DEF HasMapping, ComponentMapping
    <3>2. CASE kept = None
      BY <1>3, <1>4, <3>2 DEF HasMapping, ComponentMapping
    <3> QED BY <3>1, <3>2
  <2> QED BY <2>1, <2>2, ExtendsItself DEF Kept
<1> QED BY <1>9, <1>10 DEF next, d, es, kept

\* The copies of the characters are prepared for uploads.
LEMMA PreparedFits ==
    ASSUME NEW row, NEW c, NEW ds, DraftFits(row, c, ds), HasMapping(row, c), EnoughIds(c),
           NEW cast \in SUBSET Locals
    PROVE  LET w == WriteCharacters([c |-> c, m |-> ComponentMapping(row, c)], row.doc, cast)
               next == [row EXCEPT !.mapping = w.m]
           IN  DraftFits(next, w.c, ds) /\ Kept(row, c, next, w.c)
<1> DEFINE m == ComponentMapping(row, c)
           w == WriteCharacters([c |-> c, m |-> m], row.doc, cast)
           next == [row EXCEPT !.mapping = w.m]
<1>1. /\ row \in DraftTable /\ c \in Contents /\ Composes(c) /\ ReleaseHolds(row, c)
  BY DEF DraftFits
<1>2. /\ m \in Mappings /\ m # None /\ MapsContent(c, m) /\ ReceiptsHold(m, c, ds)
  BY ComponentMappingFits
<1>3. row.doc \in Documents
  BY <1>1, WorksFit DEF DraftTable
<1> HIDE DEF m
<1>4. /\ w.c \in Contents /\ w.m \in Mappings /\ MapsContent(w.c, w.m) /\ Composes(w.c)
      /\ w.m.receipts = m.receipts /\ w.c.snaps = c.snaps
      /\ \A l \in Locals : m.chars[l] # None => w.m.chars[l] = m.chars[l]
  BY <1>1, <1>2, <1>3, CharactersWritten
<1> HIDE DEF w, next
<1>5. SnapshotsStay(c, w.c) /\ Len(w.c.snaps) <= MaxSnapshots
  BY <1>1, <1>4, LenProperties DEF SnapshotsStay, ReleaseHolds, Contents
<1>6. ReceiptsHold(w.m, c, ds)
  BY <1>2, <1>4 DEF ReceiptsHold
<1>7. next = [row EXCEPT !.mapping = w.m]
  BY DEF next
<1>8. DraftFits(next, w.c, ds)
  BY <1>4, <1>5, <1>6, <1>7, FitsWithMapping
<1>9. next.mapping = w.m /\ w.m # None
  BY <1>1, <1>4, <1>7, MappedRow, WorksFit
<1>10. HasMapping(next, w.c) /\ ComponentMapping(next, w.c) = w.m
  BY <1>9 DEF HasMapping, ComponentMapping
<1>11. IsPrefix(c.snaps, w.c.snaps)
  BY <1>1, <1>4, <1>5, SnapshotsArePrefix
<1>12. Extends(m, w.m)
  BY <1>4 DEF Extends, ReceiptAt
<1>13. Kept(row, c, next, w.c)
  BY <1>10, <1>11, <1>12 DEF Kept, m
<1> QED BY <1>8, <1>13 DEF next, w, m

\* What Marked writes, field by field.
LEMMA MarkedRow ==
    ASSUME NEW row \in DraftTable, NEW m \in Mappings, NEW r \in Nat \ {0},
           NEW model \in Models, NEW n \in 1 .. MaxSnapshots
    PROVE  LET next == Marked(row, m, r, model, n)
               x == [model |-> model, release |-> n]
           IN  /\ x \in [model: Models, release: 1 .. MaxSnapshots]
               /\ next \in DraftTable
               /\ next.mapping = WithReceipt(m, r, x) /\ next.mapping \in Mappings
               /\ next.revision = row.revision /\ next.doc = row.doc
               /\ next.published = row.doc /\ next.release = n
<1> DEFINE x == [model |-> model, release |-> n]
           k == WithReceipt(m, r, x)
<1>1. x \in [model: Models, release: 1 .. MaxSnapshots]
  OBVIOUS
<1>2. k \in Mappings
  <2> HIDE DEF x
  <2> QED BY <1>1, WithReceiptFits
<1>3. n \in 0 .. MaxSnapshots /\ row.doc \in Documents
  BY WorksFit DEF DraftTable
<1>4. Marked(row, m, r, model, n)
        = [row EXCEPT !.published = row.doc, !.release = n, !.mapping = k]
  BY DEF Marked
<1> HIDE DEF k
<1> DEFINE next == [row EXCEPT !.published = row.doc, !.release = n, !.mapping = k]
<1>5. next \in DraftTable
  BY <1>2, <1>3 DEF DraftTable
<1>6. /\ next.mapping = k /\ next.revision = row.revision /\ next.doc = row.doc
      /\ next.published = row.doc /\ next.release = n
  BY DEF DraftTable
<1>7. Marked(row, m, r, model, n) = next
  BY <1>4
<1> HIDE DEF next
<1> QED BY <1>1, <1>2, <1>5, <1>6, <1>7 DEF k

\* Marking a publication touches neither document nor revision.
LEMMA MarkedStays ==
    ASSUME NEW row \in DraftTable, NEW m \in Mappings, NEW model \in Models,
           NEW n \in 1 .. MaxSnapshots
    PROVE  /\ Marked(row, m, row.revision, model, n).doc = row.doc
           /\ Marked(row, m, row.revision, model, n).revision = row.revision
BY DEF Marked, DraftTable

\* A release is recorded for the revision it shows.
LEMMA MarkedFits ==
    ASSUME NEW row, NEW c, NEW ds, DraftFits(row, c, ds), HasMapping(row, c),
           NEW d \in Contents, Composes(d), SnapshotsStay(c, d), Len(d.snaps) <= MaxSnapshots,
           NEW m \in Mappings, MapsContent(d, m), Extends(ComponentMapping(row, c), m),
           m.receipts = ComponentMapping(row, c).receipts,
           ReceiptAt(ComponentMapping(row, c), row.revision) = None,
           NEW model \in Models, NEW n \in 1 .. Len(d.snaps),
           d.snaps[n].content = ExpectedContent(row.doc, model)
    PROVE  LET next == Marked(row, m, row.revision, model, n)
           IN  DraftFits(next, d, ds) /\ Kept(row, c, next, d)
<1> DEFINE old == ComponentMapping(row, c)
           r == row.revision
           x == [model |-> model, release |-> n]
           k == WithReceipt(m, r, x)
           next == Marked(row, m, r, model, n)
<1>1. /\ row \in DraftTable /\ c \in Contents /\ Composes(c)
      /\ ds \in Seq(Works) /\ Len(ds) = r /\ row.doc = ds[r]
  BY DEF DraftFits
<1>2. /\ r \in Nat \ {0} /\ row.doc \in Documents /\ Len(d.snaps) \in Nat
      /\ DOMAIN d.snaps = 1 .. Len(d.snaps) /\ n \in 1 .. MaxSnapshots
      /\ DOMAIN ds = 1 .. r
  <2>1. r \in Nat \ {0} /\ row.doc \in Documents
    BY <1>1, WorksFit DEF DraftTable
  <2>2. Len(d.snaps) \in Nat /\ DOMAIN d.snaps = 1 .. Len(d.snaps)
    BY LenProperties DEF Contents
  <2>3. DOMAIN ds = 1 .. r
    BY <1>1, LenProperties
  <2>4. n \in 1 .. MaxSnapshots
    BY <2>2, WorksFit
  <2> QED BY <2>1, <2>2, <2>3, <2>4
<1>3. /\ x \in [model: Models, release: 1 .. MaxSnapshots]
      /\ next \in DraftTable /\ next.mapping = k /\ k \in Mappings
      /\ next.revision = row.revision /\ next.doc = row.doc
      /\ next.published = row.doc /\ next.release = n
  BY <1>1, <1>2, MarkedRow
<1>4. x.model = model /\ x.release = n
  OBVIOUS
<1> HIDE DEF x, r
<1>5. /\ k.chars = m.chars /\ k.entries = m.entries
      /\ r \in DOMAIN k.receipts /\ DOMAIN m.receipts \subseteq DOMAIN k.receipts
      /\ \A i \in DOMAIN k.receipts : k.receipts[i] = IF i = r THEN x ELSE ReceiptAt(m, i)
  BY <1>2, <1>3, WithReceiptFits, SMTT(30)
<1> HIDE DEF k, next, old
<1>6. MapsContent(d, k)
  BY <1>5 DEF MapsContent
<1>7. ReceiptsHold(old, c, ds) /\ old # None
  BY ComponentMappingFits DEF old
<1>8. ReceiptsHold(m, d, ds)
  <2>1. ReceiptsHold(m, c, ds)
    BY <1>7 DEF ReceiptsHold, old
  <2> QED BY <1>1, <2>1, ReceiptsStay
<1>9. ReceiptsHold(k, d, ds)
  <2> SUFFICES ASSUME NEW i \in DOMAIN k.receipts, k.receipts[i] # None
               PROVE  /\ i \in DOMAIN ds /\ k.receipts[i].release \in DOMAIN d.snaps
                      /\ d.snaps[k.receipts[i].release].content
                            = ExpectedContent(ds[i], k.receipts[i].model)
    BY DEF ReceiptsHold
  <2>1. CASE i = r
    BY <1>1, <1>2, <1>4, <1>5, <2>1
  <2>2. CASE i # r
    <3>1. k.receipts[i] = ReceiptAt(m, i)
      BY <1>5, <2>2
    <3>2. i \in DOMAIN m.receipts /\ k.receipts[i] = m.receipts[i]
      BY <3>1 DEF ReceiptAt
    <3> QED BY <1>8, <3>2 DEF ReceiptsHold
  <2> QED BY <2>1, <2>2
<1>10. MappingHolds(next, d, ds)
  BY <1>3, <1>6, <1>9, WorksFit DEF MappingHolds
<1>11. ReleaseHolds(next, d)
  <2>1. ExpectedContent(row.doc, model).model = model
    BY DEF ExpectedContent
  <2> QED BY <1>2, <1>3, <2>1 DEF ReleaseHolds
<1>12. DraftFits(next, d, ds)
  BY <1>1, <1>3, <1>10, <1>11 DEF DraftFits, r
<1>13. HasMapping(next, d) /\ ComponentMapping(next, d) = k
  BY <1>3, WorksFit DEF HasMapping, ComponentMapping
<1>14. Extends(old, k)
  <2>1. \A l \in Locals : old.chars[l] # None => k.chars[l] = old.chars[l]
    BY <1>5 DEF Extends, old
  <2>2. ASSUME NEW i \in DOMAIN old.receipts, old.receipts[i] # None
        PROVE  ReceiptAt(k, i) = old.receipts[i]
    <3>1. i # r
      BY <2>2 DEF ReceiptAt, old, r
    <3>2. i \in DOMAIN m.receipts /\ m.receipts[i] = old.receipts[i]
      BY <2>2 DEF old
    <3>3. k.receipts[i] = ReceiptAt(m, i) /\ i \in DOMAIN k.receipts
      BY <1>5, <3>1, <3>2
    <3> QED BY <3>2, <3>3 DEF ReceiptAt
  <2> QED BY <2>1, <2>2 DEF Extends
<1>15. IsPrefix(c.snaps, d.snaps)
  BY <1>1, SnapshotsArePrefix
<1>16. Kept(row, c, next, d)
  BY <1>13, <1>14, <1>15 DEF Kept, old
<1> QED BY <1>12, <1>16 DEF next, r

-----------------------------------------------------------------------------
(* The state of the studio *)

Progresses ==
    [pc: {"idle", "read", "put", "saved"}, work: Works \cup {None}, expected: Nat \cup {None}]
Links == [revision: Nat \cup {None}, base: Works \cup {None}]

ServerFits == draft # None => DraftFits(draft, content, docs)

DevicesFit ==
    /\ local \in [Devices -> Works \cup {None}]
    /\ link \in [Devices -> Links]
    /\ dev \in [Devices -> Progresses] /\ edits \in Nat
    /\ \A d \in Devices : dev[d].pc # "idle" => dev[d].work \in Works

\* A device about to overwrite the revision it expects has seen that revision.
PutFits(d) ==
    dev[d].pc = "put" /\ dev[d].expected # None =>
        /\ draft # None /\ dev[d].expected <= draft.revision
        /\ dev[d].expected = draft.revision => link[d].base = draft.doc

StudioInv == ServerFits /\ DevicesFit /\ \A d \in Devices : PutFits(d)

\* A work published before there was a mapping: its row and its copies fit, and
\* its copies can be recognised.
LEMMA LegacyFits ==
    DraftFits(LegacyDraft, LegacyContent, <<FirstDocument>>)
<1> DEFINE doc == FirstDocument
           model == CHOOSE m \in Models : TRUE
           c == EmptyContent(doc.text)
           after == AfterStudioPublication(c, NoMapping, doc, model)
           row == LegacyDraft
           ds == <<doc>>
<1>1. /\ doc \in Works /\ doc \in Documents /\ Publishable(doc) /\ doc.lore = LoreKeys
      /\ model \in Models /\ doc.text \in Texts
  BY WorksFit, DocumentFits
<1> HIDE DEF doc, model
<1>2. /\ c \in Contents /\ Composes(c) /\ c.snaps = <<>>
      /\ \A id \in CharacterIds : c.chars[id] = Unused
      /\ \A id \in EntryIds : c.entries[id] = Unused
  BY <1>1, EmptyContentFits
<1>3. NoMapping \in Mappings /\ MapsContent(c, NoMapping)
  BY <1>2, NoMappingFits DEF Live
<1>4. EnoughIds(c)
  <2>1. DOMAIN c.chars = CharacterIds /\ DOMAIN c.entries = EntryIds
    BY <1>2 DEF Contents
  <2>2. FreeIn(c.chars) = CharacterIds /\ FreeIn(c.entries) = EntryIds
    BY <1>2, <2>1 DEF FreeIn
  <2>3. /\ Cardinality(CharacterIds) \in Nat /\ Cardinality(Locals) \in Nat
        /\ Cardinality(EntryIds) \in Nat /\ Cardinality(LoreKeys) \in Nat
    BY ContentAssumption, FS_CardinalityType
  <2> QED BY <2>2, <2>3, ContentAssumption DEF EnoughIds
<1> HIDE DEF c
<1>5. /\ after.c \in Contents /\ Composes(after.c)
      /\ \E s \in Snapshots : /\ after.c.snaps = Append(c.snaps, s)
                              /\ s.content = ExpectedContent(doc, model)
  <2>1. Releases(after, c, NoMapping, doc, model)
    BY <1>1, <1>2, <1>3, <1>4, AfterPublication
  <2> HIDE DEF after
  <2> QED BY <2>1 DEF Releases
<1> HIDE DEF after
<1>6. PICK s \in Snapshots : /\ after.c.snaps = Append(c.snaps, s)
                             /\ s.content = ExpectedContent(doc, model)
  BY <1>5
<1>7. Len(after.c.snaps) = 1 /\ after.c.snaps[1] = s
  <2>1. Len(c.snaps) = 0
    BY <1>2, EmptySeq
  <2>2. Len(after.c.snaps) = Len(c.snaps) + 1 /\ after.c.snaps[Len(c.snaps) + 1] = s
    BY <1>2, <1>5, <1>6, AppendedSnapshot
  <2> QED BY <2>1, <2>2
<1>8. /\ row \in DraftTable /\ row.mapping = None /\ row.release = 1 /\ row.revision = 1
      /\ row.doc = doc /\ row.published = doc
  BY <1>1, WorksFit DEF LegacyDraft, DraftTable, doc
<1>9. ds \in Seq(Works) /\ Len(ds) = 1 /\ ds[1] = doc
  BY <1>1
<1> HIDE DEF row, ds
<1>10. ExpectedContent(doc, model).model = model
  BY DEF ExpectedContent
<1>11. ReleaseHolds(row, after.c)
  BY <1>1, <1>6, <1>7, <1>8, <1>10, WorksFit DEF ReleaseHolds
<1>12. MappingHolds(row, after.c, ds)
  BY <1>1, <1>8, WorksFit DEF MappingHolds
<1>13. DraftFits(row, after.c, ds)
  BY <1>5, <1>8, <1>9, <1>11, <1>12 DEF DraftFits
<1>14. after.c = LegacyContent
  BY DEF after, c, doc, model, LegacyContent
<1> QED BY <1>13, <1>14 DEF row, ds, doc

\* The invariant holds at the start.
LEMMA StudioInit == Init => StudioInv
<1> SUFFICES ASSUME Init PROVE StudioInv
  OBVIOUS
<1>1. ServerFits
  <2>1. CASE draft = None
    BY <2>1 DEF ServerFits
  <2>2. CASE draft # None
    <3>1. draft = LegacyDraft /\ content = LegacyContent /\ docs = <<FirstDocument>>
      BY <2>2 DEF Init
    <3> QED BY <3>1, LegacyFits DEF ServerFits
  <2> QED BY <2>1, <2>2
<1>2. dev = [d \in Devices |-> Resting] /\ Resting \in Progresses /\ Resting.pc = "idle"
  BY DEF Init, Resting, Progresses
<1>3. DevicesFit
  <2>1. PICK author \in Devices :
           /\ local = [d \in Devices |-> IF d = author THEN FirstDocument ELSE None]
           /\ link = [d \in Devices |->
                        IF d = author /\ draft # None
                        THEN [revision |-> 1, base |-> FirstDocument] ELSE NoLink]
    BY DEF Init
  <2>2. local \in [Devices -> Works \cup {None}]
    BY <2>1, WorksFit
  <2>3. [revision |-> 1, base |-> FirstDocument] \in Links /\ NoLink \in Links
    BY WorksFit DEF Links, NoLink
  <2>4. link \in [Devices -> Links]
    BY <2>1, <2>3
  <2>5. edits \in Nat
    BY DEF Init
  <2> QED BY <1>2, <2>2, <2>4, <2>5 DEF DevicesFit
<1>4. \A d \in Devices : PutFits(d)
  BY <1>2 DEF PutFits
<1> QED BY <1>1, <1>3, <1>4 DEF StudioInv

\* A save: the row fits, it has the document, and what was kept is kept.
LEMMA SaveFits ==
    ASSUME ServerFits, NEW doc \in Works, NEW expected, SaveStudio(doc, expected)
    PROVE  /\ ServerFits' /\ draft' \in DraftTable /\ draft'.doc = doc
           /\ draft # None => /\ Kept(draft, content, draft', content')
                              /\ draft'.revision \in {draft.revision, draft.revision + 1}
                              /\ draft'.revision = draft.revision => draft'.doc = draft.doc
                              /\ draft'.doc # draft.doc => expected = draft.revision
<1>1. CASE SaveCreates(doc, expected)
  <2>1. /\ draft = None /\ draft' = NewDraft(doc) /\ content' = EmptyContent(doc.text)
        /\ docs' = <<doc>>
    BY <1>1 DEF SaveCreates
  <2>2. DraftFits(draft', content', docs')
    BY <2>1, CreatedFits
  <2>3. draft'.doc = doc
    BY <2>1 DEF NewDraft
  <2> QED BY <2>1, <2>2, <2>3 DEF ServerFits, DraftFits
<1>2. CASE SaveRepeats(doc, expected)
  <2>1. /\ draft # None /\ draft.doc = doc /\ CanKeepMapping(draft, expected, content)
        /\ draft' = [draft EXCEPT !.mapping = MappingKept(draft, expected, content)]
        /\ content' = content /\ docs' = docs
    BY <1>2 DEF SaveRepeats
  <2>2. DraftFits(draft, content, docs)
    BY <2>1 DEF ServerFits
  <2> DEFINE next == [draft EXCEPT !.mapping = MappingKept(draft, expected, content)]
  <2>3. DraftFits(next, content, docs) /\ Kept(draft, content, next, content)
    BY <2>1, <2>2, RepeatedFits
  <2>4. draft \in DraftTable
    BY <2>2 DEF DraftFits
  <2>5. next.doc = draft.doc /\ next.revision = draft.revision
    BY <2>4 DEF DraftTable
  <2> HIDE DEF next
  <2>6. draft' = next
    BY <2>1 DEF next
  <2> QED BY <2>1, <2>3, <2>5, <2>6 DEF ServerFits, DraftFits
<1>3. CASE SaveEdits(doc, expected)
  <2>1. /\ draft # None /\ draft.doc # doc /\ RevisionMatches(draft, expected)
        /\ draft.revision < MaxRevision /\ CanKeepMapping(draft, expected, content)
        /\ draft' = EditedDraft(draft, doc, MappingKept(draft, expected, content))
        /\ content' = IF content.product.latest = 0 THEN Profiled(content, doc.text)
                      ELSE content
        /\ docs' = Append(docs, doc)
    BY <1>3 DEF SaveEdits
  <2>2. DraftFits(draft, content, docs) /\ draft \in DraftTable
    BY <2>1 DEF ServerFits, DraftFits
  <2>3. expected = draft.revision /\ expected # None
    BY <2>1, <2>2, RowsAreSome, WorksFit DEF RevisionMatches
  <2>4. DraftFits(draft', content', docs') /\ Kept(draft, content, draft', content')
    BY <2>1, <2>2, <2>3, EditedFits
  <2>5. draft'.doc = doc /\ draft'.revision = draft.revision + 1
    BY <2>1, <2>2 DEF EditedDraft, DraftTable
  <2>6. draft.revision \in Nat
    BY <2>2, RowsAreSome
  <2> QED BY <2>1, <2>3, <2>4, <2>5, <2>6 DEF ServerFits, DraftFits
<1> QED BY <1>1, <1>2, <1>3 DEF SaveStudio

\* Requests that leave the document alone.
LEMMA PrepareFits ==
    ASSUME ServerFits, NEW expected, PrepareComponents(expected)
    PROVE  /\ ServerFits' /\ draft' \in DraftTable
           /\ Kept(draft, content, draft', content')
           /\ draft'.doc = draft.doc /\ draft'.revision = draft.revision
<1> DEFINE m == ComponentMapping(draft, content)
           missing == {l \in ToSet(draft.doc.cast) : m.chars[l] = None}
           w == WriteCharacters([c |-> content, m |-> m], draft.doc, missing)
           next == [draft EXCEPT !.mapping = w.m]
<1>1. /\ draft # None /\ HasMapping(draft, content) /\ EnoughIds(content)
      /\ draft' = next /\ content' = w.c /\ docs' = docs
  BY DEF PrepareComponents
<1>2. DraftFits(draft, content, docs) /\ draft \in DraftTable
  BY <1>1 DEF ServerFits, DraftFits
<1>3. missing \in SUBSET Locals
  <2>1. draft.doc \in Documents
    BY <1>2, WorksFit DEF DraftTable
  <2>2. ToSet(draft.doc.cast) \subseteq Locals
    BY <2>1, DocumentFits
  <2> QED BY <2>2
<1>4. next.doc = draft.doc /\ next.revision = draft.revision
  BY <1>2 DEF DraftTable
<1> HIDE DEF missing
<1>5. DraftFits(next, w.c, docs) /\ Kept(draft, content, next, w.c)
  BY <1>1, <1>2, <1>3, PreparedFits
<1> HIDE DEF m, w, next
<1>6. DraftFits(draft', content', docs') /\ Kept(draft, content, draft', content')
      /\ draft'.doc = draft.doc /\ draft'.revision = draft.revision
  BY <1>1, <1>4, <1>5
<1> QED BY <1>6 DEF ServerFits, DraftFits

\* publish_studio, replayed, repeated or released, keeps row, content and
\* identities in order.
LEMMA PublishFits ==
    ASSUME ServerFits, NEW expected, NEW model \in Models, PublishStudio(expected, model)
    PROVE  /\ ServerFits' /\ draft' \in DraftTable
           /\ Kept(draft, content, draft', content')
           /\ draft'.doc = draft.doc /\ draft'.revision = draft.revision
<1> DEFINE m == ComponentMapping(draft, content)
<1>1. draft # None /\ HasMapping(draft, content)
  BY DEF PublishStudio
<1>2. /\ DraftFits(draft, content, docs) /\ draft \in DraftTable
      /\ content \in Contents /\ Composes(content) /\ ReleaseHolds(draft, content)
  BY <1>1 DEF ServerFits, DraftFits
<1>3. /\ m \in Mappings /\ m # None /\ MapsContent(content, m) /\ ReceiptsHold(m, content, docs)
  BY <1>1, <1>2, ComponentMappingFits
<1>4. /\ Len(content.snaps) \in Nat /\ SnapshotsStay(content, content)
      /\ Len(content.snaps) <= MaxSnapshots
  BY <1>2, LenProperties DEF Contents, SnapshotsStay, ReleaseHolds
<1>5. CASE PublicationReplays(expected, model)
  <2>1. draft' = draft /\ content' = content /\ docs' = docs
    BY <1>5 DEF PublicationReplays
  <2> QED BY <1>2, <2>1, KeptAsItIs DEF ServerFits
<1>6. CASE PublicationRepeats(expected, model)
  <2>1. /\ ReceiptAt(m, expected) = None /\ draft.revision = expected
        /\ draft.release # 0 /\ draft.published = draft.doc
        /\ content.snaps[draft.release].content.model = model
        /\ draft' = Marked(draft, m, expected, model, draft.release)
        /\ content' = content /\ docs' = docs
    BY <1>6 DEF PublicationRepeats, IsNewRequest, SameAsReleased
  <2> HIDE DEF m
  <2>2. draft.release \in 1 .. Len(content.snaps) /\ draft.release \in 1 .. MaxSnapshots
    BY <1>2, <1>4, <2>1, RowsAreSome, WorksFit DEF ReleaseHolds
  <2>3. content.snaps[draft.release].content = ExpectedContent(draft.doc, model)
    BY <1>2, <2>1 DEF ReleaseHolds
  <2>4. Extends(ComponentMapping(draft, content), m) /\ m.receipts = ComponentMapping(draft, content).receipts
        /\ ReceiptAt(ComponentMapping(draft, content), draft.revision) = None
    BY <2>1, ExtendsItself DEF m
  <2> DEFINE n == draft.release
             next == Marked(draft, m, draft.revision, model, n)
  <2>5. n \in 1 .. Len(content.snaps) /\ content.snaps[n].content = ExpectedContent(draft.doc, model)
        /\ n \in 1 .. MaxSnapshots
    BY <2>2, <2>3
  <2>6. draft' = next
    BY <2>1
  <2> HIDE DEF n
  <2>7. DraftFits(next, content, docs) /\ Kept(draft, content, next, content)
    BY <1>1, <1>2, <1>3, <1>4, <2>4, <2>5, MarkedFits
  <2>8. next.doc = draft.doc /\ next.revision = draft.revision
    BY <1>2, <1>3, <2>5, MarkedStays
  <2> HIDE DEF next
  <2> QED BY <2>1, <2>6, <2>7, <2>8 DEF ServerFits, DraftFits
<1>7. CASE PublicationReleases(expected, model)
  <2> DEFINE after == AfterStudioPublication(content, m, draft.doc, model)
  <2>1. /\ ReceiptAt(m, expected) = None /\ draft.revision = expected
        /\ EnoughIds(content) /\ Len(content.snaps) < MaxSnapshots
        /\ draft' = Marked(draft, after.m, expected, model, Len(after.c.snaps))
        /\ content' = after.c /\ docs' = docs
    BY <1>7 DEF PublicationReleases, IsNewRequest
  <2>2. draft.doc \in Documents /\ Publishable(draft.doc)
    BY <1>2, WorksFit DEF DraftTable
  <2> HIDE DEF m
  <2>3. /\ after.c \in Contents /\ after.m \in Mappings /\ MapsContent(after.c, after.m)
        /\ Composes(after.c) /\ after.m.receipts = m.receipts
        /\ \A l \in Locals : m.chars[l] # None => after.m.chars[l] = m.chars[l]
        /\ \E s \in Snapshots : /\ after.c.snaps = Append(content.snaps, s)
                                /\ s.content = ExpectedContent(draft.doc, model)
    <3> DEFINE doc == draft.doc
               new == AfterStudioPublication(content, m, doc, model)
    <3>1. /\ doc \in Documents /\ Publishable(doc) /\ EnoughIds(content)
          /\ content \in Contents /\ Composes(content)
          /\ m \in Mappings /\ MapsContent(content, m)
      BY <1>2, <1>3, <2>1, <2>2
    <3> HIDE DEF doc
    <3>2. Releases(new, content, m, doc, model)
      BY <3>1, AfterPublication
    <3>3. after = new
      BY DEF doc
    <3> HIDE DEF new, after
    <3> QED BY <3>2, <3>3 DEF doc, Releases
  <2> DEFINE n == Len(after.c.snaps)
             next == Marked(draft, after.m, draft.revision, model, n)
  <2> HIDE DEF after
  <2>4. PICK s \in Snapshots : /\ after.c.snaps = Append(content.snaps, s)
                               /\ s.content = ExpectedContent(draft.doc, model)
    BY <2>3
  <2>5. /\ SnapshotsStay(content, after.c) /\ n = Len(content.snaps) + 1
        /\ after.c.snaps[Len(content.snaps) + 1] = s
    BY <1>2, <2>3, <2>4, AppendedSnapshot
  <2>6. draft' = next
    BY <2>1
  <2> HIDE DEF n
  <2>7. /\ Len(after.c.snaps) <= MaxSnapshots /\ n \in 1 .. Len(after.c.snaps)
        /\ n \in 1 .. MaxSnapshots
    BY <1>4, <2>1, <2>5, WorksFit DEF n
  <2>8. after.c.snaps[n].content = ExpectedContent(draft.doc, model)
    BY <2>4, <2>5
  <2>9. /\ Extends(ComponentMapping(draft, content), after.m)
        /\ after.m.receipts = ComponentMapping(draft, content).receipts
        /\ ReceiptAt(ComponentMapping(draft, content), draft.revision) = None
    BY <2>1, <2>3 DEF m, Extends, ReceiptAt
  <2> DEFINE d == after.c
             k == after.m
  <2>10. /\ d \in Contents /\ Composes(d) /\ SnapshotsStay(content, d)
         /\ Len(d.snaps) <= MaxSnapshots /\ k \in Mappings /\ MapsContent(d, k)
         /\ Extends(ComponentMapping(draft, content), k)
         /\ k.receipts = ComponentMapping(draft, content).receipts
         /\ n \in 1 .. Len(d.snaps) /\ d.snaps[n].content = ExpectedContent(draft.doc, model)
    BY <2>3, <2>5, <2>7, <2>8, <2>9
  <2>11. next = Marked(draft, k, draft.revision, model, n)
    OBVIOUS
  <2> HIDE DEF d, k, next
  <2>12. DraftFits(next, d, docs) /\ Kept(draft, content, next, d)
    BY <1>1, <1>2, <2>9, <2>10, <2>11, MarkedFits
  <2>13. next.doc = draft.doc /\ next.revision = draft.revision
    BY <1>2, <2>7, <2>10, <2>11, MarkedStays
  <2> QED BY <2>1, <2>6, <2>12, <2>13 DEF ServerFits, DraftFits, d
<1> QED BY <1>5, <1>6, <1>7 DEF PublishStudio

-----------------------------------------------------------------------------
(* Steps *)

\* What was kept of the names and releases, and which device changed the document.
NamesKept == draft # None /\ edits' = edits => Kept(draft, content, draft', content')
EditSeen ==
    draft # None /\ draft' # None /\ draft'.doc # draft.doc
    => \E d \in Devices : /\ dev[d].pc = "put" /\ dev'[d] # dev[d]
                          /\ link[d].base = draft.doc
StudioStep == StudioInv' /\ NamesKept /\ EditSeen

\* A document changes only with its revision, and a draft is never taken away.
RevisionsGrow ==
    draft # None => /\ draft' # None /\ draft.revision <= draft'.revision
                    /\ draft'.revision = draft.revision => draft'.doc = draft.doc

\* The fields of a draft that is there.
LEMMA DraftIsTyped ==
    ASSUME ServerFits, draft # None
    PROVE  draft \in DraftTable /\ draft.revision \in Nat /\ draft.doc \in Works
BY RowsAreSome DEF ServerFits, DraftFits, DraftTable

\* A device that waits is not misled by the steps of the others.
LEMMA OthersFit ==
    ASSUME StudioInv, ServerFits', RevisionsGrow, NEW e \in Devices,
           dev'[e] = dev[e], link'[e] = link[e]
    PROVE  PutFits(e)'
<1> SUFFICES ASSUME dev[e].pc = "put", dev[e].expected # None
             PROVE  /\ draft' # None /\ dev[e].expected <= draft'.revision
                    /\ dev[e].expected = draft'.revision => link[e].base = draft'.doc
  BY DEF PutFits
<1>1. /\ draft # None /\ dev[e].expected <= draft.revision
      /\ dev[e].expected = draft.revision => link[e].base = draft.doc
  BY DEF StudioInv, PutFits
<1>2. /\ draft' # None /\ draft.revision <= draft'.revision
      /\ draft'.revision = draft.revision => draft'.doc = draft.doc
  BY <1>1 DEF RevisionsGrow
<1>3. draft.revision \in Nat
  BY <1>1, DraftIsTyped DEF StudioInv
<1>4. draft'.revision \in Nat
  BY <1>2, RowsAreSome DEF ServerFits, DraftFits
<1>5. dev[e].expected \in Nat
  BY DEF StudioInv, DevicesFit, Progresses
<1> QED BY <1>1, <1>2, <1>3, <1>4, <1>5

\* One device moves; the server has taken its request or not.
LEMMA DeviceMoves ==
    ASSUME StudioInv, ServerFits', RevisionsGrow, NEW d \in Devices,
           local' \in [Devices -> Works \cup {None}], edits' = edits,
           NEW p \in Progresses, p.pc # "idle" => p.work \in Works, dev' = [dev EXCEPT ![d] = p],
           NEW k \in Links, link' = [link EXCEPT ![d] = k],
           PutFits(d)'
    PROVE  StudioInv'
<1>1. dev \in [Devices -> Progresses] /\ link \in [Devices -> Links] /\ edits \in Nat
      /\ \A e \in Devices : dev[e].pc # "idle" => dev[e].work \in Works
  BY DEF StudioInv, DevicesFit
<1>2. /\ dev' \in [Devices -> Progresses] /\ link' \in [Devices -> Links]
      /\ dev'[d] = p
      /\ \A e \in Devices : e # d => dev'[e] = dev[e] /\ link'[e] = link[e]
  BY <1>1
<1>3. DevicesFit'
  BY <1>1, <1>2 DEF DevicesFit
<1>4. \A e \in Devices : PutFits(e)'
  <2> SUFFICES ASSUME NEW e \in Devices PROVE PutFits(e)'
    OBVIOUS
  <2>1. CASE e = d
    BY <2>1
  <2>2. CASE e # d
    BY <1>2, <2>2, OthersFit
  <2> QED BY <2>1, <2>2
<1> QED BY <1>3, <1>4 DEF StudioInv

\* The server is left alone.
LEMMA ServerRests ==
    ASSUME StudioInv, draft' = draft, content' = content, docs' = docs
    PROVE  ServerFits' /\ RevisionsGrow /\ NamesKept /\ EditSeen
<1>1. ServerFits'
  BY DEF StudioInv, ServerFits
<1>2. RevisionsGrow
  BY DraftIsTyped DEF RevisionsGrow, StudioInv
<1>3. NamesKept
  <2>1. draft # None => content \in Contents
    BY DEF StudioInv, ServerFits, DraftFits
  <2> QED BY <2>1, KeptAsItIs DEF NamesKept
<1> QED BY <1>1, <1>2, <1>3 DEF EditSeen

\* A device that is not about to save relies on nothing.
LEMMA IdleFits ==
    ASSUME NEW d, dev'[d].pc # "put"
    PROVE  PutFits(d)'
BY DEF PutFits

\* Editing in the browser touches the local document alone.
LEMMA EditStep == ASSUME StudioInv, NEW d \in Devices, Edit(d) PROVE StudioStep
<1>1. /\ draft' = draft /\ content' = content /\ docs' = docs /\ dev' = dev /\ link' = link
      /\ edits' = edits /\ dev[d].pc = "idle"
      /\ \E doc \in Works : local' = [local EXCEPT ![d] = doc]
  BY DEF Edit
<1>2. /\ local \in [Devices -> Works \cup {None}] /\ dev \in [Devices -> Progresses]
      /\ link \in [Devices -> Links]
  BY DEF StudioInv, DevicesFit
<1>3. local' \in [Devices -> Works \cup {None}]
  BY <1>1, <1>2
<1>4. dev' = [dev EXCEPT ![d] = dev[d]] /\ link' = [link EXCEPT ![d] = link[d]]
      /\ dev[d] \in Progresses /\ link[d] \in Links
  BY <1>1, <1>2
<1>5. PutFits(d)'
  BY <1>1, IdleFits
<1>6. StudioInv'
  BY <1>1, <1>3, <1>4, <1>5, ServerRests, DeviceMoves
<1> QED BY <1>1, <1>6, ServerRests DEF StudioStep

\* Starting a save captures the local document.
LEMMA StartSaveStep == ASSUME StudioInv, NEW d \in Devices, StartSave(d) PROVE StudioStep
<1> DEFINE p == Progress("read", local[d], None)
<1>1. /\ draft' = draft /\ content' = content /\ docs' = docs /\ link' = link
      /\ edits' = edits /\ local' = local /\ local[d] # None
      /\ dev' = [dev EXCEPT ![d] = p]
  BY DEF StartSave
<1>2. /\ local \in [Devices -> Works \cup {None}] /\ dev \in [Devices -> Progresses]
      /\ link \in [Devices -> Links]
  BY DEF StudioInv, DevicesFit
<1>3. p \in Progresses /\ p.work \in Works /\ p.pc = "read"
  BY <1>1, <1>2 DEF Progress, Progresses
<1> HIDE DEF p
<1>4. link' = [link EXCEPT ![d] = link[d]] /\ link[d] \in Links /\ dev'[d] = p
      /\ local' \in [Devices -> Works \cup {None}]
  BY <1>1, <1>2
<1>5. PutFits(d)'
  BY <1>3, <1>4, IdleFits
<1>6. StudioInv'
  BY <1>1, <1>3, <1>4, <1>5, ServerRests, DeviceMoves
<1> QED BY <1>1, <1>6, ServerRests DEF StudioStep

\* Resting is one of the states of a device.
LEMMA RestingFits == Resting \in Progresses /\ Resting.pc = "idle"
BY DEF Resting, Progresses

\* A read of the remote draft: a save goes on only on a base that was seen.
LEMMA ReadStep == ASSUME StudioInv, NEW d \in Devices, ReadRemote(d) PROVE StudioStep
<1>1. /\ draft' = draft /\ content' = content /\ docs' = docs /\ edits' = edits
      /\ local' = local /\ dev[d].pc = "read"
  BY DEF ReadRemote
<1>2. /\ local \in [Devices -> Works \cup {None}] /\ dev \in [Devices -> Progresses]
      /\ link \in [Devices -> Links] /\ dev[d].work \in Works
  BY <1>1 DEF StudioInv, DevicesFit
<1>3. local' \in [Devices -> Works \cup {None}] /\ ServerFits' /\ RevisionsGrow
      /\ NamesKept /\ EditSeen
  BY <1>1, <1>2, ServerRests
<1>4. ASSUME NEW p \in Progresses, p.pc # "idle" => p.work \in Works,
             dev' = [dev EXCEPT ![d] = p], NEW k \in Links, link' = [link EXCEPT ![d] = k],
             p.pc = "put" /\ p.expected # None =>
                draft # None /\ p.expected = draft.revision /\ k.base = draft.doc
      PROVE  StudioInv'
  <2>1. dev'[d] = p /\ link'[d] = k
    BY <1>2, <1>4
  <2>2. draft # None => draft.revision <= draft.revision
    BY DraftIsTyped DEF StudioInv
  <2>3. PutFits(d)'
    BY <1>1, <1>4, <2>1, <2>2 DEF PutFits
  <2> QED BY <1>1, <1>3, <1>4, <2>3, DeviceMoves
<1>5. link[d] \in Links /\ link = [link EXCEPT ![d] = link[d]]
  BY <1>2
<1>6. ASSUME GiveUp(d), link' = link PROVE StudioInv'
  BY <1>4, <1>5, <1>6, RestingFits DEF GiveUp
<1>7. ASSUME ReadMisses(d) PROVE StudioInv'
  <2> DEFINE p == Progress("put", dev[d].work, None)
  <2>1. dev' = [dev EXCEPT ![d] = p] /\ link' = link
    BY <1>7 DEF ReadMisses
  <2>2. p \in Progresses /\ p.work \in Works /\ p.expected = None
    BY <1>2 DEF Progress, Progresses
  <2> HIDE DEF p
  <2> QED BY <1>4, <1>5, <2>1, <2>2
<1>8. ASSUME ReadFinds(d) PROVE StudioInv'
  <2>1. draft # None /\ draft.revision \in Nat /\ draft.doc \in Works
    BY <1>8, DraftIsTyped DEF ReadFinds, StudioInv
  <2>2. ASSUME link' = [link EXCEPT ![d] = [revision |-> draft.revision, base |-> draft.doc]],
               dev' = [dev EXCEPT ![d] = Progress("saved", dev[d].work, draft.revision)]
        PROVE  StudioInv'
    <3> DEFINE p == Progress("saved", dev[d].work, draft.revision)
               k == [revision |-> draft.revision, base |-> draft.doc]
    <3>1. p \in Progresses /\ p.work \in Works /\ p.pc = "saved" /\ k \in Links
      BY <1>2, <2>1 DEF Progress, Progresses, Links
    <3>2. dev' = [dev EXCEPT ![d] = p] /\ link' = [link EXCEPT ![d] = k]
      BY <2>2
    <3> HIDE DEF p, k
    <3> QED BY <1>4, <3>1, <3>2
  <2>3. ASSUME BaseMatches(d), link' = link,
               dev' = [dev EXCEPT ![d] = Progress("put", dev[d].work, draft.revision)]
        PROVE  StudioInv'
    <3> DEFINE p == Progress("put", dev[d].work, draft.revision)
    <3>1. p \in Progresses /\ p.work \in Works /\ p.expected = draft.revision
      BY <1>2, <2>1 DEF Progress, Progresses
    <3>2. dev' = [dev EXCEPT ![d] = p] /\ link[d].base = draft.doc
      BY <2>3 DEF BaseMatches
    <3> HIDE DEF p
    <3> QED BY <1>4, <1>5, <2>1, <2>3, <3>1, <3>2
  <2> QED BY <1>6, <1>8, <2>2, <2>3 DEF ReadFinds
<1>9. StudioInv'
  BY <1>6, <1>7, <1>8 DEF ReadRemote
<1> QED BY <1>3, <1>9 DEF StudioStep

\* The save itself: it replaces only the revision the device has read.
LEMMA PutStep == ASSUME StudioInv, NEW d \in Devices, PutDraft(d) PROVE StudioStep
<1>1. local' = local /\ edits' = edits /\ dev[d].pc = "put"
  BY DEF PutDraft
<1>2. /\ local \in [Devices -> Works \cup {None}] /\ dev \in [Devices -> Progresses]
      /\ link \in [Devices -> Links] /\ dev[d].work \in Works /\ dev[d].expected \in Nat \cup {None}
      /\ ServerFits
  BY <1>1 DEF StudioInv, DevicesFit, Progresses
<1>3. /\ local' \in [Devices -> Works \cup {None}]
      /\ link = [link EXCEPT ![d] = link[d]] /\ link[d] \in Links
  BY <1>1, <1>2
<1>4. ASSUME SaveStudio(dev[d].work, dev[d].expected),
             \/ /\ dev' = [dev EXCEPT ![d] = Progress("saved", dev[d].work, draft'.revision)]
                /\ link' = [link EXCEPT ![d] = [revision |-> draft'.revision,
                                                base |-> dev[d].work]]
             \/ (GiveUp(d) /\ link' = link)
      PROVE  StudioStep
  <2>1. /\ ServerFits' /\ draft' \in DraftTable /\ draft'.doc = dev[d].work
        /\ draft # None => /\ Kept(draft, content, draft', content')
                           /\ draft'.revision \in {draft.revision, draft.revision + 1}
                           /\ draft'.revision = draft.revision => draft'.doc = draft.doc
                           /\ draft'.doc # draft.doc => dev[d].expected = draft.revision
    BY <1>2, <1>4, SaveFits
  <2>2. draft'.revision \in Nat /\ draft' # None
    BY <2>1, RowsAreSome
  <2>3. RevisionsGrow
    BY <1>2, <2>1, <2>2, DraftIsTyped DEF RevisionsGrow
  <2>4. \E q \in Progresses, k \in Links :
           /\ q.pc # "put" /\ (q.pc # "idle" => q.work \in Works)
           /\ dev' = [dev EXCEPT ![d] = q] /\ link' = [link EXCEPT ![d] = k]
    <3>1. CASE GiveUp(d) /\ link' = link
      <4>1. dev' = [dev EXCEPT ![d] = Resting] /\ link' = [link EXCEPT ![d] = link[d]]
        BY <1>3, <3>1 DEF GiveUp
      <4> QED BY <1>3, <4>1, RestingFits
    <3>2. CASE /\ dev' = [dev EXCEPT ![d] = Progress("saved", dev[d].work, draft'.revision)]
               /\ link' = [link EXCEPT ![d] = [revision |-> draft'.revision,
                                               base |-> dev[d].work]]
      <4> DEFINE q == Progress("saved", dev[d].work, draft'.revision)
                 k == [revision |-> draft'.revision, base |-> dev[d].work]
      <4>1. q \in Progresses /\ q.pc = "saved" /\ q.work \in Works /\ k \in Links
        BY <1>2, <2>2 DEF Progress, Progresses, Links
      <4>2. dev' = [dev EXCEPT ![d] = q] /\ link' = [link EXCEPT ![d] = k]
        BY <3>2
      <4> HIDE DEF q, k
      <4> QED BY <4>1, <4>2
    <3> QED BY <1>4, <3>1, <3>2
  <2>5. PICK q \in Progresses, k \in Links :
           /\ q.pc # "put" /\ (q.pc # "idle" => q.work \in Works)
           /\ dev' = [dev EXCEPT ![d] = q] /\ link' = [link EXCEPT ![d] = k]
    BY <2>4
  <2>6. dev'[d] = q
    BY <1>2, <2>5
  <2>7. PutFits(d)'
    BY <2>5, <2>6, IdleFits
  <2>8. StudioInv'
    BY <1>1, <1>3, <2>1, <2>3, <2>5, <2>7, DeviceMoves
  <2>9. EditSeen
    <3> SUFFICES ASSUME draft # None, draft'.doc # draft.doc
                 PROVE  dev'[d] # dev[d] /\ link[d].base = draft.doc
      BY <1>1 DEF EditSeen
    <3>1. dev[d].expected = draft.revision /\ draft.revision \in Nat
      BY <1>2, <2>1, DraftIsTyped
    <3>2. dev[d].expected # None
      BY <3>1, WorksFit
    <3> QED BY <1>1, <2>5, <2>6, <3>1, <3>2 DEF StudioInv, PutFits
  <2> QED BY <2>1, <2>8, <2>9 DEF StudioStep, NamesKept
<1>5. ASSUME GiveUp(d), draft' = draft, content' = content, docs' = docs, link' = link
      PROVE  StudioStep
  <2>1. dev' = [dev EXCEPT ![d] = Resting] /\ dev'[d].pc # "put"
    BY <1>2, <1>5, RestingFits DEF GiveUp
  <2>2. PutFits(d)'
    BY <2>1, IdleFits
  <2>3. ServerFits' /\ RevisionsGrow /\ NamesKept /\ EditSeen
    BY <1>5, ServerRests
  <2>4. StudioInv'
    BY <1>1, <1>3, <1>5, <2>1, <2>2, <2>3, RestingFits, DeviceMoves
  <2> QED BY <2>3, <2>4 DEF StudioStep
<1> QED BY <1>4, <1>5 DEF PutDraft

\* Requests of a device that leave the document alone.
LEMMA RequestStep ==
    ASSUME StudioInv, NEW d \in Devices, dev[d].pc = "saved", local' = local, link' = link,
           edits' = edits, dev' = dev \/ GiveUp(d), ServerFits', draft' \in DraftTable,
           Kept(draft, content, draft', content'), draft # None,
           draft'.doc = draft.doc, draft'.revision = draft.revision
    PROVE  StudioStep
<1>1. /\ local \in [Devices -> Works \cup {None}] /\ dev \in [Devices -> Progresses]
      /\ link \in [Devices -> Links] /\ dev[d].work \in Works /\ ServerFits
  BY DEF StudioInv, DevicesFit
<1>2. RevisionsGrow
  BY <1>1, DraftIsTyped, RowsAreSome DEF RevisionsGrow
<1>3. \E q \in Progresses :
         /\ q.pc # "put" /\ (q.pc # "idle" => q.work \in Works) /\ dev' = [dev EXCEPT ![d] = q]
  <2>1. CASE GiveUp(d)
    BY <2>1, RestingFits DEF GiveUp
  <2>2. CASE dev' = dev
    <3>1. dev' = [dev EXCEPT ![d] = dev[d]] /\ dev[d] \in Progresses
      BY <1>1, <2>2
    <3> QED BY <1>1, <3>1
  <2> QED BY <2>1, <2>2
<1>4. PICK q \in Progresses :
         /\ q.pc # "put" /\ (q.pc # "idle" => q.work \in Works) /\ dev' = [dev EXCEPT ![d] = q]
  BY <1>3
<1>5. PutFits(d)'
  <2>1. dev'[d] = q
    BY <1>1, <1>4
  <2> QED BY <1>4, <2>1, IdleFits
<1>6. link' = [link EXCEPT ![d] = link[d]] /\ link[d] \in Links
      /\ local' \in [Devices -> Works \cup {None}]
  BY <1>1
<1>7. StudioInv'
  BY <1>2, <1>4, <1>5, <1>6, DeviceMoves
<1> QED BY <1>7 DEF StudioStep, NamesKept, EditSeen

\* prepare_components, answered or not.
LEMMA PrepareStep == ASSUME StudioInv, NEW d \in Devices, Prepare(d) PROVE StudioStep
<1>1. /\ dev[d].pc = "saved" /\ PrepareComponents(dev[d].expected)
      /\ dev' = dev \/ GiveUp(d)
      /\ local' = local /\ link' = link /\ edits' = edits
  BY DEF Prepare
<1>2. ServerFits /\ draft # None
  BY <1>1 DEF StudioInv, PrepareComponents
<1>3. /\ ServerFits' /\ draft' \in DraftTable /\ Kept(draft, content, draft', content')
      /\ draft'.doc = draft.doc /\ draft'.revision = draft.revision
  BY <1>1, <1>2, PrepareFits
<1> QED BY <1>1, <1>2, <1>3, RequestStep

\* publish_studio, answered or not.
LEMMA PublishStep == ASSUME StudioInv, NEW d \in Devices, Publish(d) PROVE StudioStep
<1>1. /\ dev[d].pc = "saved" /\ GiveUp(d)
      /\ local' = local /\ link' = link /\ edits' = edits
  BY DEF Publish
<1>2. PICK model \in Models : PublishStudio(dev[d].expected, model)
  BY DEF Publish
<1>3. ServerFits /\ draft # None
  BY <1>2 DEF StudioInv, PublishStudio
<1>4. /\ ServerFits' /\ draft' \in DraftTable /\ Kept(draft, content, draft', content')
      /\ draft'.doc = draft.doc /\ draft'.revision = draft.revision
  BY <1>2, <1>3, PublishFits
<1> QED BY <1>1, <1>3, <1>4, RequestStep

\* A save that is not followed by a publication.
LEMMA SaveOnlyStep == ASSUME StudioInv, NEW d \in Devices, SaveOnly(d) PROVE StudioStep
<1>1. /\ draft' = draft /\ content' = content /\ docs' = docs /\ edits' = edits
      /\ local' = local /\ link' = link /\ GiveUp(d)
  BY DEF SaveOnly
<1>2. /\ local \in [Devices -> Works \cup {None}] /\ dev \in [Devices -> Progresses]
      /\ link \in [Devices -> Links]
  BY DEF StudioInv, DevicesFit
<1>3. /\ dev' = [dev EXCEPT ![d] = Resting] /\ dev'[d].pc # "put"
      /\ link' = [link EXCEPT ![d] = link[d]] /\ link[d] \in Links
      /\ local' \in [Devices -> Works \cup {None}]
  BY <1>1, <1>2, RestingFits DEF GiveUp
<1>4. PutFits(d)'
  BY <1>3, IdleFits
<1>5. ServerFits' /\ RevisionsGrow /\ NamesKept /\ EditSeen
  BY <1>1, ServerRests
<1>6. StudioInv'
  BY <1>1, <1>3, <1>4, <1>5, RestingFits, DeviceMoves
<1> QED BY <1>5, <1>6 DEF StudioStep

\* Loading the server's draft into a browser.
LEMMA LoadStep == ASSUME StudioInv, NEW d \in Devices, Load(d) PROVE StudioStep
<1>1. /\ draft' = draft /\ content' = content /\ docs' = docs /\ edits' = edits
      /\ dev' = dev /\ dev[d].pc = "idle" /\ draft # None
      /\ local' = [local EXCEPT ![d] = draft.doc]
      /\ link' = [link EXCEPT ![d] = [revision |-> draft.revision, base |-> draft.doc]]
  BY DEF Load
<1>2. /\ local \in [Devices -> Works \cup {None}] /\ dev \in [Devices -> Progresses]
      /\ link \in [Devices -> Links]
  BY DEF StudioInv, DevicesFit
<1>3. draft.revision \in Nat /\ draft.doc \in Works
  BY <1>1, DraftIsTyped DEF StudioInv
<1> DEFINE k == [revision |-> draft.revision, base |-> draft.doc]
<1>4. k \in Links /\ link' = [link EXCEPT ![d] = k]
  BY <1>1, <1>3 DEF Links
<1> HIDE DEF k
<1>5. /\ dev' = [dev EXCEPT ![d] = dev[d]] /\ dev[d] \in Progresses
      /\ local' \in [Devices -> Works \cup {None}]
  BY <1>1, <1>2, <1>3
<1>6. PutFits(d)'
  BY <1>1, IdleFits
<1>7. ServerFits' /\ RevisionsGrow /\ NamesKept /\ EditSeen
  BY <1>1, ServerRests
<1>8. StudioInv'
  BY <1>1, <1>4, <1>5, <1>6, <1>7, DeviceMoves
<1> QED BY <1>7, <1>8 DEF StudioStep

\* The owner's other editors leave the draft alone and only end rows.
LEMMA DirectStep == ASSUME StudioInv, EditDirectly PROVE StudioStep
<1>1. /\ draft # None /\ edits' = edits + 1
      /\ EditCopy \/ DeleteCopy \/ DeleteEntryDirectly
         \/ Recompose \/ Reconfigure \/ PublishDirectly
      /\ draft' = draft /\ local' = local /\ link' = link /\ dev' = dev /\ docs' = docs
  BY DEF EditDirectly
<1>2. DraftFits(draft, content, docs) /\ edits \in Nat
  BY <1>1 DEF StudioInv, ServerFits, DevicesFit
<1>3. content \in Contents /\ Composes(content) /\ Len(content.snaps) <= MaxSnapshots
  BY <1>2 DEF DraftFits, ReleaseHolds
<1>4. /\ content' \in Contents /\ Composes(content')
      /\ Len(content'.snaps) <= MaxSnapshots
      /\ RowsOnlyGo(content, content') /\ SnapshotsStay(content, content')
  BY <1>1, <1>3, DirectEditsFit
<1>5. DraftFits(draft, content', docs)
  BY <1>2, <1>4, DraftStays
<1>6. ServerFits'
  BY <1>1, <1>5 DEF ServerFits
<1>7. DevicesFit'
  BY <1>1, <1>2 DEF StudioInv, DevicesFit
<1>8. \A d \in Devices : PutFits(d)'
  BY <1>1 DEF StudioInv, PutFits
<1>9. NamesKept /\ EditSeen
  BY <1>1, <1>2 DEF NamesKept, EditSeen
<1> QED BY <1>6, <1>7, <1>8, <1>9 DEF StudioStep, StudioInv

\* Every step keeps the invariant, the names and the order of edits.
LEMMA StudioSteps == StudioInv /\ [Next]_vars => StudioStep
<1> SUFFICES ASSUME StudioInv, [Next]_vars PROVE StudioStep
  OBVIOUS
<1>1. ASSUME NEW d \in Devices,
             \/ Edit(d) \/ StartSave(d) \/ ReadRemote(d) \/ PutDraft(d)
             \/ Prepare(d) \/ Publish(d) \/ SaveOnly(d) \/ Load(d)
      PROVE  StudioStep
  BY <1>1, EditStep, StartSaveStep, ReadStep, PutStep, PrepareStep, PublishStep,
     SaveOnlyStep, LoadStep
<1>2. CASE EditDirectly
  BY <1>2, DirectStep
<1>3. CASE UNCHANGED vars
  <2>1. /\ draft' = draft /\ content' = content /\ local' = local /\ link' = link
        /\ dev' = dev /\ edits' = edits /\ docs' = docs
    BY <1>3 DEF vars
  <2>2. ServerFits' /\ NamesKept /\ EditSeen
    BY <2>1, ServerRests
  <2>3. DevicesFit'
    BY <2>1 DEF StudioInv, DevicesFit
  <2>4. \A d \in Devices : PutFits(d)'
    BY <2>1 DEF StudioInv, PutFits
  <2> QED BY <2>2, <2>3, <2>4 DEF StudioStep, StudioInv
<1> QED BY <1>1, <1>2, <1>3 DEF Next

\* The invariant holds in every state.
LEMMA StudioAlways == Spec => []StudioInv
<1>1. StudioInv /\ [Next]_vars => StudioInv'
  BY StudioSteps DEF StudioStep
<1> QED BY <1>1, StudioInit, PTL DEF Spec

\* Rows are as the tables declare them, and the release of every revision published
\* shows the document of that revision, with the model asked for (publish_studio and
\* mark_studio_publication): also after a release was found to be the same, after an
\* old release was adopted, and whatever the owner did to the copies.
THEOREM ReleasesShowRevisions == Spec => []ReleasesAreTrue
<1>1. StudioInv => ReleasesAreTrue
  <2> SUFFICES ASSUME StudioInv PROVE ReleasesAreTrue
    OBVIOUS
  <2>1. CASE draft = None
    BY <2>1 DEF ReleasesAreTrue, TypeOK, ReleaseShowsItsRevision
  <2>2. CASE draft # None
    <3>1. /\ draft \in DraftTable /\ content \in Contents /\ Composes(content)
          /\ Len(docs) = draft.revision /\ draft.doc = docs[draft.revision]
          /\ ReleaseHolds(draft, content) /\ MappingHolds(draft, content, docs)
      BY <2>2 DEF StudioInv, ServerFits, DraftFits
    <3>2. TypeOK
      <4>1. Len(content.snaps) \in Nat /\ draft.release \in Nat
        BY <3>1, LenProperties, RowsAreSome DEF Contents
      <4>2. draft.published \in Documents \cup {None}
        BY <3>1 DEF DraftTable
      <4> QED BY <3>1, <4>1, <4>2 DEF TypeOK, ReleaseHolds, Composes
    <3>3. ReleaseShowsItsRevision
      BY <3>1 DEF ReleaseShowsItsRevision, MappingHolds, ReceiptsHold
    <3> QED BY <3>2, <3>3 DEF ReleasesAreTrue
  <2> QED BY <2>1, <2>2
<1> QED BY <1>1, StudioAlways, PTL

\* Whatever the studio does, a request once answered keeps its answer, a character
\* keeps its copy and a snapshot is never edited (component_mapping, _write_characters,
\* _record_publication_receipt).
THEOREM StudioKeepsIdentities == Spec => IdentitiesStay
<1>1. StudioInv /\ [Next]_vars =>
         [ draft # None /\ edits' = edits /\ HasMapping(draft, content) =>
             LET before == ComponentMapping(draft, content)
                 after  == ComponentMapping(draft', content')
             IN /\ HasMapping(draft', content')
                /\ \A l \in Locals : before.chars[l] # None => after.chars[l] = before.chars[l]
                /\ \A r \in DOMAIN before.receipts :
                       before.receipts[r] # None => ReceiptAt(after, r) = before.receipts[r]
                /\ IsPrefix(content.snaps, content'.snaps) ]_vars
  BY StudioSteps DEF StudioStep, NamesKept, Kept, Extends
<1> QED BY <1>1, StudioAlways, PTL DEF Spec, IdentitiesStay

\* No device overwrites a document it has neither loaded nor saved (save_studio_draft
\* and the base kept by saveDocument), whichever answers were lost.
THEOREM EditsAreSeen == Spec => EditsBuildOnSeen
<1>1. StudioInv /\ [Next]_vars =>
         [ draft # None /\ draft' # None /\ draft'.doc # draft.doc
           => \E d \in Devices : /\ dev[d].pc = "put" /\ dev'[d] # dev[d]
                                 /\ link[d].base = draft.doc ]_vars
  BY StudioSteps DEF StudioStep, EditSeen
<1> QED BY <1>1, StudioAlways, PTL DEF Spec, EditsBuildOnSeen
=============================================================================
