---------------------------- MODULE ChatHistory ----------------------------
(***************************************************************************)
(* One conversation as a browser page shows it and as the server keeps it. *)
(*                                                                         *)
(* On the server a message is a row [id, rev]: ids are handed out in the   *)
(* order of the conversation, a replacement raises the row's revision, and *)
(* a replacement or a rewind raises the revision of the history. Everyone  *)
(* who writes holds the conversation's lock until the commit, so a write   *)
(* is one step. A page of messages is read in two statements, each of      *)
(* which sees what is committed then: the history revision, then the rows. *)
(*                                                                         *)
(* The page caches what it has read, reads on from its last checkpoint,    *)
(* starts over when the revision has moved, and adds the message it has    *)
(* just saved without reading. Other tabs and devices write at any time.   *)
(***************************************************************************)
EXTENDS Naturals, FiniteSets, FiniteSetsExt

CONSTANTS
    Reads,         \* reads of the history that may be under way at once
    PageSize,      \* rows of one page
    MaxId,         \* bound: rows ever stored
    MaxRevision,   \* bound: revisions of the history
    MaxSubmitted,  \* bound: messages this browser submits
    NoRow

ASSUME HistoryAssumption ==
    /\ {PageSize, MaxId, MaxRevision, MaxSubmitted} \subseteq Nat \ {0}
    /\ IsFiniteSet(Reads) /\ NoRow \notin Nat

VARIABLES
    rows,       \* messages of the conversation
    newest,     \* the last id handed out
    revision,   \* conversations.history_revision
    receipts,   \* of each request key: 0, or the id of the row it created
    answering,  \* 0, or the input whose answer is being generated
    view,       \* what the page shows: None, or rows, their revision, checkpoint
    reads,      \* reads under way
    page,       \* what the page is waiting for, and the submission it keeps
    sent        \* request keys whose creation the server has yet to handle

historyVars == <<rows, newest, revision, receipts, answering, view, reads, page, sent>>
server == <<rows, newest, revision, receipts, answering>>

SubmissionKeys == 1..MaxSubmitted
NoReply == [kind |-> "none", row |-> NoRow]
Refusal == [kind |-> "refused", row |-> NoRow]
Saved(m) == [kind |-> "saved", row |-> m]
NoSubmission == [at |-> "idle", key |-> 0, message |-> NoRow, reply |-> NoReply]

HistoryInit ==
    /\ rows = {} /\ newest = 0 /\ revision = 1
    /\ receipts = [k \in SubmissionKeys |-> 0]
    /\ answering = 0
    /\ view = NoRow
    /\ reads = [r \in Reads |-> NoRow]
    /\ page = NoSubmission
    /\ sent = {}

-----------------------------------------------------------------------------
(* Rows, pages and merging                                                 *)

LastId(set, otherwise) == IF set = {} THEN otherwise ELSE Max({m.id : m \in set})

After(cursor) == {m \in rows : m.id > cursor}

Page(cursor) ==
    {m \in After(cursor) : Cardinality({k \in After(cursor) : k.id < m.id}) < PageSize}

HasMore(cursor) == Cardinality(After(cursor)) > PageSize

\* By id, the greater revision wins.
Merged(known, incoming) ==
    LET all == known \cup incoming
    IN  {m \in all : \A k \in all : k.id = m.id => k.rev <= m.rev}

Stale(all) == [r \in Reads |-> IF all[r] = NoRow THEN NoRow ELSE [all[r] EXCEPT !.quiet = FALSE]]

-----------------------------------------------------------------------------
(* The server                                                               *)

\* has_pending_generation refuses every other write while an answer is made.
PageIdle == answering = 0

Store ==
    /\ newest < MaxId
    /\ newest' = newest + 1
    /\ rows' = rows \cup {[id |-> newest + 1, rev |-> 1]}

RaiseRevision == revision < MaxRevision /\ revision' = revision + 1

\* Another tab or device writes a message.
OtherCreates ==
    /\ PageIdle /\ Store
    /\ reads' = Stale(reads)
    /\ UNCHANGED <<revision, receipts, answering, view, page, sent>>

\* Only the last message can be replaced; its id and place stay.
OtherReplaces ==
    /\ PageIdle /\ RaiseRevision
    /\ \E m \in rows :
        /\ m.id = LastId(rows, 0)
        /\ rows' = (rows \ {m}) \cup {[m EXCEPT !.rev = @ + 1]}
    /\ reads' = Stale(reads)
    /\ UNCHANGED <<newest, receipts, answering, view, page, sent>>

\* A rewind removes a message and all that follow it.
OtherRewinds ==
    /\ PageIdle /\ RaiseRevision
    /\ \E m \in rows : rows' = {k \in rows : k.id < m.id}
    /\ reads' = Stale(reads)
    /\ UNCHANGED <<newest, receipts, answering, view, page, sent>>

\* The row a repeated request answers with, if it is still what was saved.
Receipt(k) == {m \in rows : m.id = receipts[k] /\ m.rev = 1}

Replied(k, reply) ==
    page' = IF page.at = "creating" /\ page.key = k THEN [page EXCEPT !.reply = reply] ELSE page

\* The server handles the creation of a message for request key k.
ServeCreate(k) ==
    /\ k \in sent /\ sent' = sent \ {k}
    /\ \/ /\ receipts[k] # 0
          /\ IF Receipt(k) = {} THEN Replied(k, Refusal)
             ELSE \E m \in Receipt(k) : Replied(k, Saved(m))
          /\ UNCHANGED <<rows, newest, receipts, reads>>
       \/ /\ receipts[k] = 0 /\ ~PageIdle
          /\ Replied(k, Refusal)
          /\ UNCHANGED <<rows, newest, receipts, reads>>
       \/ /\ receipts[k] = 0 /\ PageIdle
          /\ Store
          /\ receipts' = [receipts EXCEPT ![k] = newest + 1]
          /\ reads' = Stale(reads)
          /\ Replied(k, Saved([id |-> newest + 1, rev |-> 1]))
    /\ UNCHANGED <<revision, answering, view>>

\* The answer is generated for the page's message while that is the last one.
StartAnswer ==
    /\ PageIdle
    /\ page.at = "answering" /\ page.reply = NoReply
    /\ page.message \in rows /\ page.message.id = LastId(rows, 0)
    /\ answering' = page.message.id
    /\ UNCHANGED <<rows, newest, revision, receipts, view, reads, page, sent>>

AnswerRefused ==
    /\ PageIdle
    /\ page.at = "answering" /\ page.reply = NoReply
    /\ ~(page.message \in rows /\ page.message.id = LastId(rows, 0))
    /\ page' = [page EXCEPT !.reply = Refusal]
    /\ UNCHANGED <<server, view, reads, sent>>

\* The answer is stored as the next message, or the generation ends without one.
FinishAnswer ==
    /\ ~PageIdle /\ answering' = 0
    /\ \/ Store /\ reads' = Stale(reads)
       \/ UNCHANGED <<rows, newest, reads>>
    /\ page' = IF page.at = "answering" /\ page.message.id = answering
               THEN [page EXCEPT !.reply.kind = "answered"] ELSE page
    /\ UNCHANGED <<revision, receipts, view, sent>>

-----------------------------------------------------------------------------
(* Reading the history                                                      *)

FullRead(again, quiet) ==
    [at |-> "label", current |-> TRUE, again |-> again, quiet |-> quiet,
     onward |-> FALSE, shown |-> {}, seen |-> {}, cursor |-> 0, label |-> 0, fresh |-> 0]

\* Reads on from the checkpoint when the revision of the cache is known.
NewRead(reset) ==
    IF reset \/ view = NoRow THEN FullRead(FALSE, TRUE)
    ELSE IF view.label = 0 THEN FullRead(FALSE, TRUE)
    ELSE [FullRead(FALSE, TRUE) EXCEPT
            !.onward = TRUE, !.shown = view.rows, !.seen = view.rows,
            !.cursor = view.cursor, !.label = view.label]

\* Faulty: older reads are aborted, but one that has its answer still counts.
AbortedOnly ==
    [r \in Reads |-> IF reads[r] = NoRow THEN NoRow
                     ELSE IF reads[r].at = "done" THEN reads[r] ELSE NoRow]

\* A newer read or a confirmed save: the reads under way are aborted, and one
\* that has its last answer already may not show it.
Superseded ==
    [r \in Reads |-> IF reads[r] = NoRow THEN NoRow
                     ELSE IF reads[r].at = "done" THEN [reads[r] EXCEPT !.current = FALSE]
                     ELSE NoRow]

StartRead(r, reset) ==
    /\ reads[r] = NoRow
    /\ reads' = [Superseded EXCEPT ![r] = NewRead(reset)]

ReadLabel(r) ==
    /\ reads[r] # NoRow /\ reads[r].at = "label"
    /\ reads' = [reads EXCEPT ![r].at = "rows", ![r].fresh = revision]
    /\ UNCHANGED <<server, view, page, sent>>

\* Faulty: only the labels of the pages of one read are compared.
ChangedWithinRead(read, got) ==
    ~read.onward /\ read.label # 0 /\ read.label # read.fresh

\* The history was edited since the read, or the cache it goes on from, began.
Changed(read, got) ==
    \/ read.label # 0 /\ read.label # read.fresh
    \/ read.onward /\ \E m \in got, k \in read.shown : m.id = k.id /\ m.rev # k.rev

\* A page joins the read; a changed history is read over once, then given up.
ReadRows(r) ==
    LET read == reads[r]
        got == Page(read.cursor)
    IN  /\ read # NoRow /\ read.at = "rows"
        /\ reads' = [reads EXCEPT ![r] =
              IF Changed(read, got)
              THEN IF read.again THEN NoRow
                   ELSE FullRead(TRUE, read.quiet)
              ELSE [read EXCEPT !.seen = Merged(@, got),
                                !.cursor = LastId(got, @),
                                !.label = read.fresh, !.fresh = 0,
                                !.at = IF HasMore(read.cursor) THEN "label" ELSE "done"]]
        /\ UNCHANGED <<server, view, page, sent>>

ReadFails(r) ==
    /\ reads[r] # NoRow /\ reads[r].at # "done"
    /\ reads' = [reads EXCEPT ![r] = NoRow]
    /\ UNCHANGED <<server, view, page, sent>>

\* Only the newest read shows what it found.
Publish(r) ==
    /\ reads[r] # NoRow /\ reads[r].at = "done"
    /\ view' = IF reads[r].current
               THEN [rows |-> reads[r].seen, label |-> reads[r].label, cursor |-> reads[r].cursor]
               ELSE view
    /\ reads' = [reads EXCEPT ![r] = NoRow]
    /\ UNCHANGED <<server, page, sent>>

-----------------------------------------------------------------------------
(* The page                                                                 *)

\* Opening the room, or coming back to it: the cache is new, the submission
\* kept in the session storage is found again.
Enter(r) ==
    /\ view' = NoRow
    /\ reads[r] = NoRow
    /\ reads' = [Superseded EXCEPT ![r] = FullRead(FALSE, TRUE)]
    /\ page' = [page EXCEPT !.at = "idle", !.reply = NoReply]
    /\ UNCHANGED <<server, sent>>

Focus(r) ==
    /\ page.at = "idle" /\ view # NoRow
    /\ StartRead(r, FALSE)
    /\ UNCHANGED <<server, view, page, sent>>

Submit(k) ==
    /\ page.at = "idle" /\ page.key = 0 /\ view # NoRow
    /\ receipts[k] = 0 /\ k \notin sent
    /\ page' = [at |-> "creating", key |-> k, message |-> NoRow, reply |-> NoReply]
    /\ sent' = sent \cup {k}
    /\ UNCHANGED <<server, view, reads>>

\* The reader presses "check with the same request".
ResumeWaiting ==
    /\ page.at = "idle" /\ page.key # 0 /\ view # NoRow
    /\ IF page.message = NoRow
       THEN page' = [page EXCEPT !.at = "creating"] /\ sent' = sent \cup {page.key}
       ELSE page' = [page EXCEPT !.at = "answering"] /\ sent' = sent
    /\ UNCHANGED <<server, view, reads>>

\* Faulty: the checkpoint moves on to the saved message.
AppendedWithCheckpoint(m) ==
    [view EXCEPT !.rows = Merged(@, {m}), !.cursor = m.id]

\* A saved message that the cache has in another revision makes the cache's
\* revision unknown; the checkpoint stays where it was.
Appended(m) ==
    [view EXCEPT !.rows = Merged(@, {m}),
                 !.label = IF \E k \in view.rows : k.id = m.id /\ k.rev # m.rev THEN 0 ELSE @]

\* The saved message is shown at once.
AppendReply ==
    /\ page.at = "creating" /\ page.reply.kind = "saved"
    /\ page' = [page EXCEPT !.at = "answering", !.message = page.reply.row, !.reply = NoReply]
    /\ view' = IF view = NoRow THEN NoRow ELSE Appended(page.reply.row)
    /\ reads' = IF view = NoRow THEN reads ELSE Superseded
    /\ UNCHANGED <<server, sent>>

\* No answer from the server, or one that leaves the outcome open.
GiveUpWaiting ==
    /\ page.at \in {"creating", "answering"}
    /\ page' = [page EXCEPT !.at = "idle", !.reply = NoReply]
    /\ UNCHANGED <<server, view, reads, sent>>

\* A definite refusal drops the submission and reads everything again.
Refused(r) ==
    /\ page.at \in {"creating", "answering"} /\ page.reply.kind = "refused"
    /\ page' = [NoSubmission EXCEPT !.at = "syncing"]
    /\ StartRead(r, TRUE)
    /\ UNCHANGED <<server, view, sent>>

\* The outcome of the answer is known: what it added is read.
Answered(r) ==
    /\ page.at = "answering" /\ page.reply.kind = "answered"
    /\ page' = [page EXCEPT !.at = "syncing", !.reply = NoReply]
    /\ StartRead(r, FALSE)
    /\ UNCHANGED <<server, view, sent>>

\* The submission is done with, or kept for another attempt.
SettleWaiting ==
    /\ page.at = "syncing"
    /\ ~ \E r \in Reads : IF reads[r] = NoRow THEN FALSE ELSE reads[r].current
    /\ \/ page' = NoSubmission
       \/ page' = [page EXCEPT !.at = "idle"]
    /\ UNCHANGED <<server, view, reads, sent>>

HistoryNext ==
    \/ OtherCreates \/ OtherReplaces \/ OtherRewinds
    \/ \E k \in SubmissionKeys : ServeCreate(k) \/ Submit(k)
    \/ StartAnswer \/ AnswerRefused \/ FinishAnswer
    \/ \E r \in Reads :
        \/ ReadLabel(r) \/ ReadRows(r) \/ ReadFails(r) \/ Publish(r)
        \/ Enter(r) \/ Focus(r) \/ Refused(r) \/ Answered(r)
    \/ ResumeWaiting \/ AppendReply \/ GiveUpWaiting \/ SettleWaiting

HistorySpec == HistoryInit /\ [][HistoryNext]_historyVars

-----------------------------------------------------------------------------
(* Properties                                                               *)

Shows(r) == reads[r] # NoRow /\ reads[r].at = "done" /\ reads[r].current /\ reads'[r] = NoRow

\* A read that began after the last change of the history, whatever cache it
\* goes on from and however that cache came to be, leaves out no message and
\* shows none in an old revision (readHistory, ConversationHistorySession).
QuietReadsMissNothing ==
    [][\A r \in Reads : Publish(r) /\ Shows(r) /\ reads[r].quiet
         => /\ rows \subseteq view'.rows
            /\ \A m \in view'.rows : \A k \in rows : m.id = k.id => m = k]_historyVars

\* A message on the screen that the server still has stays on the screen: a
\* late answer to an older read takes no confirmed save back.
ShownMessagesStay ==
    [][view # NoRow /\ view' # NoRow => view.rows \cap rows \subseteq view'.rows]_historyVars

\* "The next synchronisation can detect the change": a read that began after
\* the last change shows exactly the history (chat/ARCHITECTURE.md).
NextSyncShowsTheHistory ==
    [][\A r \in Reads : Publish(r) /\ Shows(r) /\ reads[r].quiet => view'.rows = rows]_historyVars

Row == [id : 1..MaxId, rev : 1..MaxRevision]

HistoryTypeOK ==
    /\ rows \subseteq Row /\ newest \in 0..MaxId /\ revision \in 1..MaxRevision
    /\ receipts \in [SubmissionKeys -> 0..MaxId] /\ answering \in 0..MaxId
    /\ view = NoRow \/ view \in [rows : SUBSET Row, label : 0..MaxRevision, cursor : 0..MaxId]
    /\ sent \subseteq SubmissionKeys

(* What holds of the rows of the page and of the steps that change them.    *)
DisplayIsWhole == []HistoryTypeOK /\ QuietReadsMissNothing /\ ShownMessagesStay
=============================================================================
