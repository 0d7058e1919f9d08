---------------------------- MODULE ContentStore ----------------------------
(***************************************************************************)
(* What the studio's publication does to the tables of content, as         *)
(* functions on the content of one owner: the product with its composition *)
(* and settings, the server's copies of characters, the copy of the        *)
(* lorebook with its entries, and the snapshots published so far.          *)
(*                                                                         *)
(* A text is a value of Texts; every field of a component that an editor   *)
(* writes stands for one text. Rows are never reused: an id is Unused,     *)
(* holds a value, or is Gone.                                              *)
(***************************************************************************)
EXTENDS Naturals, Sequences, FiniteSets, SequencesExt

CONSTANTS Texts, Locals, LoreKeys, Models, CharacterIds, EntryIds,
          SceneKey, Unused, Gone, None

CharacterRows == [who: Locals, text: Texts \cup {0}]
EntryRows == [key: LoreKeys \cup {SceneKey}, text: Texts]

(* Every key of a document can be given a row of its own, and what stands   *)
(* for the absence of something is nothing that there may be.               *)
ASSUME ContentAssumption ==
    /\ IsFiniteSet(Locals) /\ IsFiniteSet(CharacterIds)
    /\ IsFiniteSet(LoreKeys) /\ IsFiniteSet(EntryIds)
    /\ Cardinality(Locals) <= Cardinality(CharacterIds)
    /\ Cardinality(LoreKeys) + 1 <= Cardinality(EntryIds)
    /\ Unused # Gone /\ {Unused, Gone} \cap (CharacterRows \cup EntryRows) = {}
    /\ None \notin CharacterIds \cup EntryIds \cup Models

(* The JSON document of an editor: its characters in order, its lore. *)
Documents == [text: Texts, cast: BoundedSeq(Locals, Cardinality(Locals)),
              lore: SUBSET LoreKeys]

Distinct(s) == IsInjective(s)

(* _publication_content: what a document needs before it may be published. *)
Publishable(doc) == doc.cast # <<>> /\ Distinct(doc.cast)

EmptyProduct(text) ==
    [text |-> text, links |-> <<>>, primary |-> None, book |-> FALSE,
     model |-> None, starts |-> {}, latest |-> 0]

EmptyContent(text) ==
    [product |-> EmptyProduct(text),
     chars   |-> [i \in CharacterIds |-> Unused],
     book    |-> Unused,
     entries |-> [i \in EntryIds |-> Unused],
     snaps   |-> <<>>]

Live(v) == v \notin {Unused, Gone}
FreeIn(f) == {i \in DOMAIN f : f[i] = Unused}

(* The ids of new rows: each has its own, which no row had before.         *)
NewIds(keys, free) == CHOOSE ids \in [keys -> free] : IsInjective(ids)

(* The keys of ids that have none get a new one.                           *)
WithIds(ids, keys, rows) ==
    LET missing == {k \in keys : ids[k] = None}
        new     == NewIds(missing, FreeIn(rows))
    IN  [k \in DOMAIN ids |-> IF k \in missing THEN new[k] ELSE ids[k]]

(* The rows that ids names for the keys of values are created or updated.  *)
WithRows(rows, ids, values) ==
    [id \in DOMAIN rows |->
        IF \E k \in DOMAIN values : ids[k] = id
        THEN values[CHOOSE k \in DOMAIN values : ids[k] = id] ELSE rows[id]]

-----------------------------------------------------------------------------
(* Characters and lorebook entries *)

UpdatedCharacter(c, id, value) == [c EXCEPT !.chars[id] = value]

(* The row goes, and with it its place in the composition. *)
DeletedCharacter(c, id) ==
    [c EXCEPT !.chars[id] = Gone,
              !.product.links = RemoveFirst(@, id),
              !.product.primary = IF @ = id THEN None ELSE @]

(* Start options that name the entries go with them (ON DELETE CASCADE). *)
WithoutEntries(c, ids) ==
    [c EXCEPT !.entries = [id \in EntryIds |-> IF id \in ids THEN Gone ELSE c.entries[id]],
              !.product.starts = @ \ ids]

DeletedEntry(c, id) == WithoutEntries(c, {id})

-----------------------------------------------------------------------------
(* The product *)

OwnsCharacters(c, ids) == \A id \in ids : Live(c.chars[id])

(* replace_composition: the rows of the old composition go, and with a     *)
(* lorebook taken off a product its start options.                         *)
Composed(c, ids, primary) ==
    [c EXCEPT !.product.links = ids, !.product.primary = primary,
              !.product.book = TRUE]
CanCompose(c, ids) == Distinct(ids) /\ OwnsCharacters(c, ToSet(ids)) /\ c.book = "live"

(* get_start_entries: enabled start_set entries of the product's lorebooks. *)
StartEntries(c) ==
    {id \in EntryIds : /\ Live(c.entries[id])
                       /\ c.entries[id].key = SceneKey
                       /\ c.product.book}

CanConfigure(c, starts) == starts # {} /\ starts \subseteq StartEntries(c)
Configured(c, model, starts) ==
    [c EXCEPT !.product.model = model, !.product.starts = starts]

Profiled(c, text) == [c EXCEPT !.product.text = text]

-----------------------------------------------------------------------------
(* Publication *)

(* _validate_publication, _build_publication: what has to hold. *)
CanPublish(c) ==
    /\ c.product.links # <<>> /\ c.product.primary # None
    /\ c.product.model # None
    /\ c.product.starts # {} /\ c.product.starts \subseteq StartEntries(c)
    /\ OwnsCharacters(c, ToSet(c.product.links))
    /\ c.book = "live"

FrozenCharacters(c) == [i \in DOMAIN c.product.links |-> c.chars[c.product.links[i]]]
FrozenLorebook(c) == {c.entries[id] : id \in {e \in EntryIds : Live(c.entries[e])}}
FrozenStarts(c) == {c.entries[id] : id \in c.product.starts}

Canonical(c) ==
    [text |-> c.product.text, model |-> c.product.model,
     cast |-> FrozenCharacters(c), lore |-> FrozenLorebook(c),
     starts |-> FrozenStarts(c)]

(* The first release, a change of content, or one of images only. *)
ChangeKind(c) ==
    CASE c.product.latest = 0 -> "initial"
      [] c.snaps[c.product.latest].content # Canonical(c) -> "content"
      [] OTHER -> "media"

Published(c) ==
    [c EXCEPT !.snaps = Append(@, [content |-> Canonical(c), kind |-> ChangeKind(c)]),
              !.product.latest = Len(c.snaps) + 1]

-----------------------------------------------------------------------------
(* A document written over the copies a mapping names *)

NoMapping == [chars |-> [l \in Locals |-> None], book |-> FALSE,
              entries |-> [k \in LoreKeys \cup {SceneKey} |-> None],
              receipts |-> <<>>]

CharacterValue(doc, l) == [who |-> l, text |-> doc.text]
EntryKeys(doc) == doc.lore \cup {SceneKey}
EntryValue(doc, k) == [key |-> k, text |-> doc.text]

WriteCharacters(acc, doc, cast) ==
    LET ids == WithIds(acc.m.chars, cast, acc.c.chars)
    IN  [m |-> [acc.m EXCEPT !.chars = ids],
         c |-> [acc.c EXCEPT !.chars =
                  WithRows(@, ids, [l \in cast |-> CharacterValue(doc, l)])]]

WriteBook(acc) ==
    [m |-> [acc.m EXCEPT !.book = TRUE], c |-> [acc.c EXCEPT !.book = "live"]]

WriteEntries(acc, doc) ==
    LET ids == WithIds(acc.m.entries, EntryKeys(doc), acc.c.entries)
    IN  [m |-> [acc.m EXCEPT !.entries = ids],
         c |-> [acc.c EXCEPT !.entries =
                  WithRows(@, ids, [k \in EntryKeys(doc) |-> EntryValue(doc, k)])]]

RemovedKeys(m, doc) == {k \in DOMAIN m.entries : m.entries[k] # None} \ EntryKeys(doc)

DropEntries(acc, doc) ==
    LET removed == RemovedKeys(acc.m, doc)
    IN  [m |-> [acc.m EXCEPT !.entries =
                  [k \in DOMAIN @ |-> IF k \in removed THEN None ELSE acc.m.entries[k]]],
         c |-> WithoutEntries(acc.c, {acc.m.entries[k] : k \in removed})]

(* The services refuse an id they do not find: one missing row refuses all. *)
MappedRowsExist(c, m, doc) ==
    /\ \A l \in ToSet(doc.cast) : m.chars[l] # None => Live(c.chars[m.chars[l]])
    /\ m.book => c.book = "live"
    /\ \A k \in DOMAIN m.entries : m.entries[k] # None => Live(c.entries[m.entries[k]])

EnoughIds(c) ==
    /\ Cardinality(FreeIn(c.chars)) >= Cardinality(Locals)
    /\ Cardinality(FreeIn(c.entries)) >= Cardinality(LoreKeys) + 1

LinkIds(m, doc) == [i \in DOMAIN doc.cast |-> m.chars[doc.cast[i]]]

(* publish_studio from its first domain write to the release: characters,   *)
(* lorebook, entries, composition and settings, then the entries removed    *)
(* from the document, the profile and the release.                          *)
AfterStudioPublication(c, m, doc, model) ==
    LET cast     == WriteCharacters([c |-> c, m |-> m], doc, ToSet(doc.cast))
        written  == WriteEntries(WriteBook(cast), doc)
        ids      == LinkIds(written.m, doc)
        composed == Composed(written.c, ids, ids[1])
        settled  == Configured(composed, model, {written.m.entries[SceneKey]})
        dropped  == DropEntries([written EXCEPT !.c = settled], doc)
    IN [dropped EXCEPT !.c = Published(Profiled(@, doc.text))]
=============================================================================
