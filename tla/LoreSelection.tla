----------------------------- MODULE LoreSelection -----------------------------
(***************************************************************************)
(* Which lore a prompt carries, and where: the selector of snapshot       *)
(* entries (content/lorebook/service/activation.py), its two callers - the *)
(* answer preparation (chatting/conversation/service/command/context.py)   *)
(* and the studio's diagnosis of a draft (use_cases/studio_diagnostics.py) *)
(* - and the renderer (chatting/prompt/service.py).                        *)
(*                                                                         *)
(* A message is its speaker and the words in it.  An entry of a published  *)
(* book has the id its copy got; in the draft it has the editor's.         *)
(***************************************************************************)
EXTENDS Integers, Sequences, FiniteSets

CONSTANTS
    Books,        \* lists of entries authors may publish
    LoreWords,    \* words of messages and triggers
    Opening,      \* words of the scene's opening line
    RecentLimit,  \* messages an answer reads for activation, the deepest scan
    MaxSaid,      \* bound: messages of the conversation
    NoLore        \* "no value"

ASSUME LoreAssumption ==
    /\ RecentLimit \in Nat \ {0}
    /\ \A book \in Books :
         /\ Len(book) \in Nat
         /\ DOMAIN book = 1..Len(book)
         /\ \A i \in DOMAIN book :
              /\ book[i].priority \in Int
              /\ book[i].options # NoLore =>
                   /\ book[i].options.depth \in 1..RecentLimit
                   /\ book[i].options.order \in Nat

VARIABLES
    book,    \* the entries of the pinned snapshot, in stored order
    ids,     \* ids[i]: place of the published id of entry i among the ids
    said,    \* the conversation's messages
    picked,  \* manual entries the next answer asks for
    prompt   \* the prompt of the answer just asked for

loreVars == <<book, ids, said, picked, prompt>>

-----------------------------------------------------------------------------
(* The selector *)

HasOptions(entries) == \E i \in DOMAIN entries : entries[i].options # NoLore

OrderOf(e) == IF e.options = NoLore THEN 100 ELSE e.options.order

\* Faulty: entries of one priority and order stay as they are stored.
RanksBeforeStored(entries, place, i, j) ==
    \/ entries[i].priority > entries[j].priority
    \/ entries[i].priority = entries[j].priority /\ OrderOf(entries[i]) < OrderOf(entries[j])
    \/ entries[i].priority = entries[j].priority /\ OrderOf(entries[i]) = OrderOf(entries[j])
         /\ i < j

\* Priority, then order, then id; a book without options keeps its stored order.
RanksBefore(entries, place, i, j) ==
    LET e == entries[i]
        f == entries[j]
    IN  IF ~HasOptions(entries) THEN i < j
        ELSE \/ e.priority > f.priority
             \/ e.priority = f.priority /\ OrderOf(e) < OrderOf(f)
             \/ e.priority = f.priority /\ OrderOf(e) = OrderOf(f) /\ place[i] < place[j]

Ranked(entries, place) ==
    CHOOSE ranked \in [DOMAIN entries -> DOMAIN entries] :
        \A m, n \in DOMAIN entries : m < n => RanksBefore(entries, place, ranked[m], ranked[n])

LastOf(messages, n) ==
    SubSeq(messages, IF Len(messages) > n THEN Len(messages) - n + 1 ELSE 1, Len(messages))

\* The messages of the speakers an entry listens to.
Heard(e, messages) == SelectSeq(messages, LAMBDA m : ~e.options.userOnly \/ m.by = "user")

\* Faulty: the depth counts the messages that are left after the filter.
ScannedAfterFilter(e, messages) == LastOf(Heard(e, messages), e.options.depth)

\* Depth counts the last messages, whoever spoke; then others' words are dropped.
Scanned(e, messages) == Heard(e, LastOf(messages, e.options.depth))

\* Without options, or without messages, only the given text is searched.
HistoryFor(e, text, messages) ==
    LET alone == IF text = {} THEN <<>> ELSE <<[by |-> "user", words |-> text]>>
    IN  IF e.options = NoLore THEN alone
        ELSE Scanned(e, IF messages = <<>> THEN alone ELSE messages)

\* "exact" takes the whole message, "contains" and "regex" a part of it.
Hit(e, trigger, m) == IF e.mode = "exact" THEN m.words = {trigger} ELSE trigger \in m.words

HitIn(e, trigger, history) == \E i \in DOMAIN history : Hit(e, trigger, history[i])

KeywordsHit(e, history) ==
    IF e.options # NoLore /\ e.options.all
    THEN e.triggers # {} /\ \A w \in e.triggers : HitIn(e, w, history)
    ELSE \E w \in e.triggers : HitIn(e, w, history)

Activated(e, i, text, messages, manual) ==
    CASE ~e.enabled -> "disabled"
      [] e.enabled /\ e.kind = "start_set" -> "start_scene"
      [] e.enabled /\ e.kind # "start_set" /\ e.when = "manual" ->
           IF i \in manual THEN "included" ELSE "manual_not_selected"
      [] e.enabled /\ e.kind # "start_set" /\ e.when = "semantic" -> "semantic_not_supported"
      [] e.enabled /\ e.kind # "start_set" /\ e.when = "keyword" ->
           IF KeywordsHit(e, HistoryFor(e, text, messages)) THEN "included"
           ELSE "keyword_mismatch"
      [] e.enabled /\ e.kind # "start_set" /\ e.when = "always" -> "included"

Oversized(e) == e.options # NoLore /\ e.budget # NoLore /\ e.size > e.budget

GroupOf(e) == IF e.options = NoLore THEN NoLore ELSE e.options.group

Nothing == [active |-> <<>>, groups |-> {}, reasons |-> <<>>]

\* Faulty: an entry takes its group before its size is looked at.
JudgedGroupFirst(entries, i, reason, so) ==
    LET e == entries[i]
        verdict == IF reason = "included" /\ GroupOf(e) \in so.groups THEN "exclusive_group"
                   ELSE IF reason = "included" /\ Oversized(e) THEN "entry_budget_exceeded"
                   ELSE reason
    IN  [active |-> IF verdict = "included" THEN Append(so.active, i) ELSE so.active,
         groups |-> IF reason = "included" /\ GroupOf(e) # NoLore
                    THEN so.groups \cup {GroupOf(e)} ELSE so.groups,
         reasons |-> Append(so.reasons, <<i, verdict>>)]

\* One entry is judged after those that rank before it: only an entry that is
\* included takes its group.
Judged(entries, i, reason, so) ==
    LET e == entries[i]
        verdict == IF reason = "included" /\ Oversized(e) THEN "entry_budget_exceeded"
                   ELSE IF reason = "included" /\ GroupOf(e) \in so.groups THEN "exclusive_group"
                   ELSE reason
    IN  [active |-> IF verdict = "included" THEN Append(so.active, i) ELSE so.active,
         groups |-> IF verdict = "included" /\ GroupOf(e) # NoLore
                    THEN so.groups \cup {GroupOf(e)} ELSE so.groups,
         reasons |-> Append(so.reasons, <<i, verdict>>)]

\* The entries are judged one by one, in the order of their rank.
JudgedInTurn(entries, ranked, reasons) ==
    LET so[n \in 0..Len(entries)] ==
            IF n = 0 THEN Nothing
            ELSE Judged(entries, ranked[n], reasons[ranked[n]], so[n - 1])
    IN  so[Len(entries)]

\* diagnose_entries, with entries named by their place in the stored list.
Diagnosed(entries, place, text, messages, manual) ==
    JudgedInTurn(entries, Ranked(entries, place),
                 [i \in DOMAIN entries |-> Activated(entries[i], i, text, messages, manual)])

\* Ids of entries that a caller may ask for.
KnownEntries(entries) == {i \in DOMAIN entries : entries[i].kind # "start_set"}

-----------------------------------------------------------------------------
(* The callers *)

Drafted(entries) == [i \in DOMAIN entries |-> i]

\* _read_preparation and prepare_runtime_context: the last messages and the input.
ActiveLore ==
    Diagnosed(book, ids, said[Len(said)].words, LastOf(said, RecentLimit), picked)

\* The studio's diagnosis of the same entries: the editor's ids, no text beside the
\* messages, and the opening line before them.
DraftLore ==
    Diagnosed(book, Drafted(book), {},
              LastOf(<<[by |-> "character", words |-> Opening]>> \o said, RecentLimit), picked)

Positioned(e) == e.options # NoLore

Near(e) == e.place = "near_user_message"

\* The line of a message of the history.
Line(i) == [is |-> "said", of |-> {i}]

\* Faulty: the saved input is both history and input.
HistoryLinesWhole(recent) == [i \in DOMAIN recent |-> Line(recent[i])]

\* The history without the input, which the caller may have read with it: a history
\* that is out of order or goes on after its input is refused, so that it ends there.
HistoryLines(recent) ==
    LET withInput == recent # <<>> /\ recent[Len(recent)] = Len(said)
        before == IF withInput THEN Len(recent) - 1 ELSE Len(recent)
    IN  [i \in 1..before |-> Line(recent[i])]

Block(is, entries) == IF entries = {} THEN <<>> ELSE <<[is |-> is, of |-> entries]>>

\* build_prompt: rules, references with the plain lore, the opening, positioned
\* lore before the history, the history, lore near the input, the input.
Rendered(active, recent) ==
    LET lore == {active[i] : i \in DOMAIN active}
        placed == {i \in lore : Positioned(book[i])}
    IN  <<[is |-> "rules", of |-> {}], [is |-> "references", of |-> lore \ placed],
          [is |-> "opening", of |-> {}]>>
        \o Block("before", {i \in placed : ~Near(book[i])})
        \o HistoryLines(recent)
        \o Block("after", {i \in placed : Near(book[i])})
        \o <<Line(Len(said))>>

-----------------------------------------------------------------------------
PlacesOf(entries) == {p \in [DOMAIN entries -> DOMAIN entries] :
    \A i, j \in DOMAIN entries : p[i] = p[j] => i = j}

LoreInit ==
    /\ book \in Books
    /\ ids \in PlacesOf(book)
    /\ said = <<>>
    /\ picked = {}
    /\ prompt = NoLore

Say ==
    /\ Len(said) < MaxSaid
    /\ \E by \in {"user", "character"}, words \in SUBSET LoreWords \ {{}} :
         said' = Append(said, [by |-> by, words |-> words])
    /\ prompt' = NoLore
    /\ UNCHANGED <<book, ids, picked>>

\* The client names entries for the next answer, whichever it likes.
Pick ==
    /\ picked' \in (SUBSET DOMAIN book) \ {picked}
    /\ prompt' = NoLore
    /\ UNCHANGED <<book, ids, said>>

\* The messages that fit the prompt are a suffix of the history.  A choice outside
\* the snapshot is refused.
Answer ==
    /\ said # <<>>
    /\ said[Len(said)].by = "user"
    /\ picked \subseteq KnownEntries(book)
    /\ \E first \in DOMAIN said :
         prompt' = [lines |-> Rendered(ActiveLore.active,
                                       [i \in 1..(Len(said) - first + 1) |-> first + i - 1]),
                    lore |-> ActiveLore.active,
                    history |-> first..Len(said)]
    /\ UNCHANGED <<book, ids, said, picked>>

LoreNext == Say \/ Pick \/ Answer

LoreSpec == LoreInit /\ [][LoreNext]_loreVars

-----------------------------------------------------------------------------
(* Properties *)

Included(i) == \E n \in DOMAIN ActiveLore.active : ActiveLore.active[n] = i

Wanted(i) ==
    /\ Activated(book[i], i, said[Len(said)].words, LastOf(said, RecentLimit), picked) = "included"
    /\ ~Oversized(book[i])

\* Of the entries whose conditions hold and that fit their budgets, exactly one of
\* every exclusive group is used, the one that ranks first, and all without a group:
\* an entry that is left out never keeps another one out.
OneOfEveryGroup ==
    said # <<>> => \A i \in DOMAIN book :
        Included(i) <=>
            /\ Wanted(i)
            /\ \A j \in DOMAIN book \ {i} :
                 Wanted(j) /\ GroupOf(book[j]) = GroupOf(book[i]) /\ GroupOf(book[i]) # NoLore
                    => RanksBefore(book, ids, i, j)

\* The messages an answer reads are enough: whatever was said before them, no entry
\* is chosen or left out for it.
OldMessagesDoNotMatter ==
    said # <<>> =>
        ActiveLore = Diagnosed(book, ids, said[Len(said)].words, said, picked)

\* The same entries stored in another order are used alike, once one of them has
\* options: what ranks first does not depend on how the copy was written.
SelectionIgnoresStorage ==
    said # <<>> /\ HasOptions(book) =>
        LET turned == [i \in DOMAIN book |-> Len(book) + 1 - i]
            other == Diagnosed([i \in DOMAIN book |-> book[turned[i]]],
                               [i \in DOMAIN book |-> ids[turned[i]]],
                               said[Len(said)].words, LastOf(said, RecentLimit),
                               {turned[i] : i \in picked \cap DOMAIN book})
        IN  [n \in DOMAIN other.active |-> turned[other.active[n]]] = ActiveLore.active

\* Every chosen entry, every message of the history, its input last and not before,
\* and lore at the side of the history it is meant for.
SaysAllOnce(asked) ==
    LET lines == asked.lines
        OfKind(is) == {n \in DOMAIN lines : lines[n].is = is}
        TextOf(n) == CHOOSE i \in lines[n].of : TRUE
        lore == UNION {lines[n].of : n \in OfKind("references") \cup OfKind("before")
                                             \cup OfKind("after")}
    IN  /\ lore = {asked.lore[i] : i \in DOMAIN asked.lore}
        /\ \A m, n \in DOMAIN lines : m # n /\ lines[m].is # "said" =>
             lines[m].of \cap lines[n].of = {} \/ lines[n].is = "said"
        /\ {TextOf(n) : n \in OfKind("said")} = asked.history
        /\ \A m, n \in OfKind("said") : m < n => TextOf(m) < TextOf(n)
        /\ \A n \in OfKind("before"), m \in OfKind("said") : n < m
        /\ \A n \in OfKind("after"), m \in OfKind("said") : m > n <=> m = Len(lines)

\* A prompt says everything once, at its place: no entry or message of build_prompt's
\* input is lost or said twice between the rules and the input.
PromptSaysAllOnce == prompt # NoLore => SaysAllOnce(prompt)

\* What the studio writes: entries with options that contain their triggers.
Authored(entries) == \A i \in DOMAIN entries :
    entries[i].kind = "lore" => entries[i].options # NoLore /\ entries[i].mode = "contains"

\* The diagnosis shown beside a draft is the selection an answer would make of the
\* same entries and messages, once they are published.
DiagnosisIsActual ==
    said # <<>> /\ Authored(book) /\ picked \subseteq KnownEntries(book) =>
        DraftLore.active = ActiveLore.active

\* The entries of an answer follow from what the book and the conversation say.
LoreIsWellChosen == OneOfEveryGroup /\ OldMessagesDoNotMatter /\ SelectionIgnoresStorage
===============================================================================
