---------------------------- MODULE StudioDrafts ----------------------------
(***************************************************************************)
(* The studio: devices of one owner edit the same work, each with its own  *)
(* copy in the browser, and save and publish it through a server that      *)
(* keeps one draft per product.                                            *)
(*                                                                         *)
(* A handler of the server begins by locking the draft's key, the product  *)
(* and the draft, and is one transaction, so it is one action. A device    *)
(* goes through the requests of publishServerWork one by one; any request  *)
(* may take effect and lose its answer, and the device then starts again   *)
(* from what its local storage holds. The owner also edits the server's    *)
(* copies directly, in the editors of characters and lorebooks.            *)
(***************************************************************************)
EXTENDS ContentStore

CONSTANTS
    Devices,       \* browsers of the owner
    Works,         \* the documents the owner writes
    MaxRevision,   \* bound on the revisions of the draft
    MaxSnapshots,  \* bound on releases
    MaxEdits       \* bound on direct edits of the copies

ASSUME StudioAssumption ==
    /\ MaxRevision \in Nat \ {0} /\ MaxSnapshots \in Nat \ {0} /\ MaxEdits \in Nat
    /\ IsFiniteSet(Devices) /\ Models # {}
    /\ \A doc \in Works : doc \in Documents /\ Publishable(doc)
    /\ \E doc \in Works : doc.lore = LoreKeys

VARIABLES
    draft,    \* the row of product_studio_drafts, or None
    content,  \* the owner's content on the server
    local,    \* local[d]: the document in the browser of d, or None
    link,     \* link[d]: what local storage says of the server's draft
    dev,      \* dev[d]: the request d is at, and its locals
    edits,    \* direct edits so far
    docs      \* docs[r]: the document of revision r; for the properties only

vars == <<draft, content, local, link, dev, edits, docs>>

(* product_studio_drafts: digests are the documents themselves; release is  *)
(* the number of a snapshot, 0 for none; mapping the "_studio" member.      *)
Mappings ==
    [chars: [Locals -> CharacterIds \cup {None}], book: BOOLEAN,
     entries: [LoreKeys \cup {SceneKey} -> EntryIds \cup {None}],
     receipts: Seq({None} \cup [model: Models, release: 1 .. MaxSnapshots])]

DraftRows ==
    [revision: 1 .. MaxRevision, doc: Documents,
     published: Documents \cup {None}, release: 0 .. MaxSnapshots,
     mapping: {None} \cup Mappings]

ASSUME NoneAssumption == None \notin Documents \cup Mappings \cup Nat \cup DraftRows

NoLink == [revision |-> None, base |-> None]
Resting == [pc |-> "idle", work |-> None, expected |-> None]
Progress(pc, work, expected) == [pc |-> pc, work |-> work, expected |-> expected]

FirstDocument == CHOOSE doc \in Works : doc.lore = LoreKeys

(* A work published by the version of the studio that kept no mapping.      *)
LegacyContent ==
    AfterStudioPublication(EmptyContent(FirstDocument.text), NoMapping,
                           FirstDocument, CHOOSE m \in Models : TRUE).c
LegacyDraft ==
    [revision |-> 1, doc |-> FirstDocument, published |-> FirstDocument,
     release |-> 1, mapping |-> None]

Init ==
    /\ \/ draft = None /\ content = None /\ docs = <<>>
       \/ /\ draft = LegacyDraft /\ content = LegacyContent
          /\ docs = <<FirstDocument>>
    /\ \E author \in Devices :
           /\ local = [d \in Devices |-> IF d = author THEN FirstDocument ELSE None]
           /\ link = [d \in Devices |->
                        IF d = author /\ draft # None
                        THEN [revision |-> 1, base |-> FirstDocument] ELSE NoLink]
    /\ dev = [d \in Devices |-> Resting]
    /\ edits = 0

-----------------------------------------------------------------------------
(* The server *)

ReceiptAt(m, r) == IF r \in DOMAIN m.receipts THEN m.receipts[r] ELSE None
WithReceipt(m, r, receipt) ==
    [m EXCEPT !.receipts =
        [i \in 1 .. IF r > Len(@) THEN r ELSE Len(@) |->
            IF i = r THEN receipt ELSE ReceiptAt(m, i)]]

(* The entry of a title, when the title names exactly one of its kind.      *)
EntriesNamed(c, k) == {id \in EntryIds : Live(c.entries[id]) /\ c.entries[id].key = k}

(* component_mapping: the mapping of the row, or one adopted from what an   *)
(* old release left: characters by position, entries by title.              *)
CanAdopt(row, c) ==
    /\ Len(row.doc.cast) = Len(c.product.links) /\ c.product.book
    /\ \A k \in EntryKeys(row.doc) : Cardinality(EntriesNamed(c, k)) = 1
AdoptedMapping(row, c) ==
    [chars    |-> [l \in Locals |->
                      IF l \in ToSet(row.doc.cast)
                      THEN c.product.links[CHOOSE i \in DOMAIN row.doc.cast :
                                               row.doc.cast[i] = l]
                      ELSE None],
     book     |-> TRUE,
     entries  |-> [k \in LoreKeys \cup {SceneKey} |->
                      IF k \in EntryKeys(row.doc)
                      THEN CHOOSE id \in EntriesNamed(c, k) : TRUE ELSE None],
     receipts |-> <<>>]

HasMapping(row, c) == row.mapping # None \/ row.release = 0 \/ CanAdopt(row, c)
ComponentMapping(row, c) ==
    IF row.mapping # None THEN row.mapping
    ELSE IF row.release = 0 THEN NoMapping
    ELSE AdoptedMapping(row, c)

(* Faulty: the old release is recognised when it is published again, with   *)
(* the document as it has become.                                           *)
MappingAdoptedLater(row, expected, c) == row.mapping

(* The mapping a save keeps: one is adopted only before an edit of a draft  *)
(* whose release has none.                                                  *)
MappingKept(row, expected, c) ==
    IF expected # None /\ row.release # 0 THEN ComponentMapping(row, c) ELSE row.mapping

CanKeepMapping(row, expected, c) ==
    expected # None /\ row.release # 0 => HasMapping(row, c)

NewDraft(doc) ==
    [revision |-> 1, doc |-> doc, published |-> None, release |-> 0, mapping |-> None]
EditedDraft(row, doc, mapping) ==
    [row EXCEPT !.revision = @ + 1, !.doc = doc, !.mapping = mapping]

(* Faulty: a save without an expected revision overwrites.                  *)
AnyRevisionMatches(row, expected) == TRUE

(* save_studio_draft refuses a revision the client did not expect.          *)
RevisionMatches(row, expected) ==
    (IF row = None THEN None ELSE row.revision) = expected

SaveCreates(doc, expected) ==
    /\ draft = None /\ expected = None
    /\ draft' = NewDraft(doc)
    /\ content' = EmptyContent(doc.text)
    /\ docs' = <<doc>>

(* The same document again is answered with the row as it is.               *)
SaveRepeats(doc, expected) ==
    /\ draft # None /\ draft.doc = doc
    /\ CanKeepMapping(draft, expected, content)
    /\ draft' = [draft EXCEPT !.mapping = MappingKept(draft, expected, content)]
    /\ UNCHANGED <<content, docs>>

SaveEdits(doc, expected) ==
    /\ draft # None /\ draft.doc # doc /\ RevisionMatches(draft, expected)
    /\ draft.revision < MaxRevision
    /\ CanKeepMapping(draft, expected, content)
    /\ draft' = EditedDraft(draft, doc, MappingKept(draft, expected, content))
    /\ content' = IF content.product.latest = 0 THEN Profiled(content, doc.text)
                  ELSE content
    /\ docs' = Append(docs, doc)

SaveStudio(doc, expected) ==
    SaveCreates(doc, expected) \/ SaveRepeats(doc, expected) \/ SaveEdits(doc, expected)

(* prepare_components: copies of the characters, for uploads.               *)
PrepareComponents(expected) ==
    LET mapping == ComponentMapping(draft, content)
        missing == {l \in ToSet(draft.doc.cast) : mapping.chars[l] = None}
        written == WriteCharacters([c |-> content, m |-> mapping], draft.doc, missing)
    IN /\ draft # None /\ draft.revision = expected
       /\ HasMapping(draft, content) /\ EnoughIds(content)
       /\ draft' = [draft EXCEPT !.mapping = written.m]
       /\ content' = written.c
       /\ UNCHANGED docs

(* _record_publication_receipt with mark_studio_publication.                *)
Marked(row, mapping, expected, model, release) ==
    [row EXCEPT !.published = row.doc, !.release = release,
                !.mapping = WithReceipt(mapping, expected,
                                        [model |-> model, release |-> release])]

(* A stored receipt answers the same request, and refuses another one.      *)
PublicationReplays(expected, model) ==
    /\ ReceiptAt(ComponentMapping(draft, content), expected) # None
    /\ ReceiptAt(ComponentMapping(draft, content), expected).model = model
    /\ UNCHANGED <<draft, content, docs>>

(* Faulty: only the document is compared.                                   *)
SameDocumentAsReleased(row, c, model) ==
    row.release # 0 /\ row.published = row.doc

(* Nothing changed since the last release, and its snapshot has the model.  *)
SameAsReleased(row, c, model) ==
    /\ row.release # 0 /\ row.published = row.doc
    /\ c.snaps[row.release].content.model = model

IsNewRequest(expected) ==
    /\ ReceiptAt(ComponentMapping(draft, content), expected) = None
    /\ draft.revision = expected

PublicationRepeats(expected, model) ==
    /\ IsNewRequest(expected) /\ SameAsReleased(draft, content, model)
    /\ draft' = Marked(draft, ComponentMapping(draft, content), expected, model,
                       draft.release)
    /\ UNCHANGED <<content, docs>>

PublicationReleases(expected, model) ==
    LET mapping == ComponentMapping(draft, content)
        after   == AfterStudioPublication(content, mapping, draft.doc, model)
    IN /\ IsNewRequest(expected) /\ ~SameAsReleased(draft, content, model)
       /\ Publishable(draft.doc) /\ MappedRowsExist(content, mapping, draft.doc)
       /\ EnoughIds(content) /\ Len(content.snaps) < MaxSnapshots
       /\ content' = after.c
       /\ draft' = Marked(draft, after.m, expected, model, Len(after.c.snaps))
       /\ UNCHANGED docs

PublishStudio(expected, model) ==
    /\ draft # None /\ HasMapping(draft, content)
    /\ \/ PublicationReplays(expected, model)
       \/ PublicationRepeats(expected, model)
       \/ PublicationReleases(expected, model)

-----------------------------------------------------------------------------
(* The devices *)

Edit(d) ==
    /\ \E doc \in Works \ {local[d]} : local' = [local EXCEPT ![d] = doc]
    /\ dev[d].pc = "idle" /\ local[d] # None
    /\ UNCHANGED <<draft, content, link, dev, edits, docs>>

(* saveDocument captures the work; a first save stores its product's id     *)
(* before anything is sent.                                                 *)
StartSave(d) ==
    /\ dev[d].pc = "idle" /\ local[d] # None
    /\ dev' = [dev EXCEPT ![d] = Progress("read", local[d], None)]
    /\ UNCHANGED <<draft, content, local, link, edits, docs>>

(* The request is refused, or its answer is lost: the caller sees an error. *)
GiveUp(d) == dev' = [dev EXCEPT ![d] = Resting]

(* Faulty: the revision just read is trusted to be the one it started from. *)
BaseIgnored(d) == TRUE

(* The device may overwrite only what it has loaded or saved.               *)
BaseMatches(d) == link[d].base = draft.doc

ReadFinds(d) ==
    /\ draft # None
    /\ \/ /\ draft.doc = dev[d].work
          /\ link' = [link EXCEPT ![d] = [revision |-> draft.revision, base |-> draft.doc]]
          /\ dev' = [dev EXCEPT ![d] = Progress("saved", dev[d].work, draft.revision)]
       \/ /\ draft.doc # dev[d].work /\ BaseMatches(d)
          /\ dev' = [dev EXCEPT ![d] = Progress("put", dev[d].work, draft.revision)]
          /\ UNCHANGED link
       \/ /\ draft.doc # dev[d].work /\ ~BaseMatches(d)
          /\ GiveUp(d) /\ UNCHANGED link

ReadMisses(d) ==
    /\ draft = None /\ link[d].revision = None
    /\ dev' = [dev EXCEPT ![d] = Progress("put", dev[d].work, None)]
    /\ UNCHANGED link

ReadRemote(d) ==
    /\ dev[d].pc = "read"
    /\ ReadFinds(d) \/ ReadMisses(d) \/ (GiveUp(d) /\ UNCHANGED link)
    /\ UNCHANGED <<draft, content, local, edits, docs>>

PutDraft(d) ==
    /\ dev[d].pc = "put"
    /\ \/ /\ SaveStudio(dev[d].work, dev[d].expected)
          /\ \/ /\ dev' = [dev EXCEPT ![d] =
                               Progress("saved", dev[d].work, draft'.revision)]
                /\ link' = [link EXCEPT ![d] = [revision |-> draft'.revision,
                                                base |-> dev[d].work]]
             \/ (GiveUp(d) /\ UNCHANGED link)
       \/ (GiveUp(d) /\ UNCHANGED <<draft, content, docs, link>>)
    /\ UNCHANGED <<local, edits>>

Prepare(d) ==
    /\ dev[d].pc = "saved"
    /\ PrepareComponents(dev[d].expected)
    /\ UNCHANGED dev \/ GiveUp(d)
    /\ UNCHANGED <<local, link, edits>>

Publish(d) ==
    /\ dev[d].pc = "saved"
    /\ \E model \in Models : PublishStudio(dev[d].expected, model)
    /\ GiveUp(d)
    /\ UNCHANGED <<local, link, edits>>

SaveOnly(d) ==
    /\ dev[d].pc = "saved" /\ GiveUp(d)
    /\ UNCHANGED <<draft, content, local, link, edits, docs>>

(* loadServerWorks: a browser without the work takes the server's draft, and *)
(* one that holds the same document takes its revision.                      *)
Load(d) ==
    /\ dev[d].pc = "idle" /\ draft # None
    /\ local[d] \in {None, draft.doc}
    /\ local' = [local EXCEPT ![d] = draft.doc]
    /\ link' = [link EXCEPT ![d] = [revision |-> draft.revision, base |-> draft.doc]]
    /\ UNCHANGED <<draft, content, dev, edits, docs>>

-----------------------------------------------------------------------------
(* The owner's other editors *)

EditCopy ==
    \E id \in CharacterIds :
        /\ Live(content.chars[id])
        /\ content' = UpdatedCharacter(content, id, [content.chars[id] EXCEPT !.text = 0])

DeleteCopy ==
    \E id \in CharacterIds :
        Live(content.chars[id]) /\ content' = DeletedCharacter(content, id)

DeleteEntryDirectly ==
    \E id \in EntryIds :
        Live(content.entries[id]) /\ content' = DeletedEntry(content, id)

(* replace_composition and set_settings on the product's own pages.         *)
Recompose ==
    \E id \in CharacterIds :
        CanCompose(content, <<id>>) /\ content' = Composed(content, <<id>>, id)

Reconfigure ==
    \E model \in Models, id \in EntryIds :
        CanConfigure(content, {id}) /\ content' = Configured(content, model, {id})

(* publish_product, of the composition as it stands.                        *)
PublishDirectly ==
    /\ CanPublish(content) /\ Len(content.snaps) < MaxSnapshots
    /\ content' = Published(content)

EditDirectly ==
    /\ draft # None /\ edits < MaxEdits /\ edits' = edits + 1
    /\ EditCopy \/ DeleteCopy \/ DeleteEntryDirectly
       \/ Recompose \/ Reconfigure \/ PublishDirectly
    /\ UNCHANGED <<draft, local, link, dev, docs>>

Next ==
    \/ \E d \in Devices :
           \/ Edit(d) \/ StartSave(d) \/ ReadRemote(d) \/ PutDraft(d)
           \/ Prepare(d) \/ Publish(d) \/ SaveOnly(d) \/ Load(d)
    \/ EditDirectly

Spec == Init /\ [][Next]_vars

-----------------------------------------------------------------------------
(* Properties *)

(* No device ever overwrites a document it has neither loaded nor saved:    *)
(* edits made on another device are not lost, whatever answers were.        *)
EditsBuildOnSeen ==
    [][ draft # None /\ draft' # None /\ draft'.doc # draft.doc
        => \E d \in Devices : /\ dev[d].pc = "put" /\ dev'[d] # dev[d]
                              /\ link[d].base = draft.doc ]_vars

ExpectedContent(doc, model) ==
    [text |-> doc.text, model |-> model,
     cast |-> [i \in DOMAIN doc.cast |-> CharacterValue(doc, doc.cast[i])],
     lore |-> {EntryValue(doc, k) : k \in EntryKeys(doc)},
     starts |-> {EntryValue(doc, SceneKey)}]

(* The release recorded for a revision shows exactly the document saved as  *)
(* that revision, with the model asked for, whether it was made for it or   *)
(* an older one was found to be the same, and whatever was done to the      *)
(* copies before.                                                           *)
ReleaseShowsItsRevision ==
    draft # None /\ draft.mapping # None =>
        \A r \in DOMAIN draft.mapping.receipts :
            LET receipt == draft.mapping.receipts[r] IN
            receipt # None =>
                content.snaps[receipt.release].content
                    = ExpectedContent(docs[r], receipt.model)

(* Whatever the studio does, a request once answered keeps its answer, a    *)
(* character of the document keeps its copy on the server, and a snapshot   *)
(* is never edited: also for works published before there was a mapping,    *)
(* whose copies are recognised by their position alone.                     *)
IdentitiesStay ==
    [][ draft # None /\ edits' = edits /\ HasMapping(draft, content) =>
        LET before == ComponentMapping(draft, content)
            after  == ComponentMapping(draft', content')
        IN /\ HasMapping(draft', content')
           /\ \A l \in Locals : before.chars[l] # None => after.chars[l] = before.chars[l]
           /\ \A r \in DOMAIN before.receipts :
                  before.receipts[r] # None => ReceiptAt(after, r) = before.receipts[r]
           /\ IsPrefix(content.snaps, content'.snaps) ]_vars

(* Every row has the shape its table declares.                              *)
TypeOK ==
    /\ draft # None => /\ draft.revision = Len(docs)
                       /\ draft.doc = docs[draft.revision]
                       /\ draft.published \in Documents \cup {None}
                       /\ draft.release \in 0 .. Len(content.snaps)
    /\ draft # None => content.product.latest = Len(content.snaps)

(* The invariants of a draft and its releases.                              *)
ReleasesAreTrue == TypeOK /\ ReleaseShowsItsRevision
=============================================================================
