---------------------------- MODULE ContentTags ----------------------------
(***************************************************************************)
(* Tags on products, characters and lorebooks. The dictionary gives every  *)
(* name one row; owners write public links, administrators and the system  *)
(* write internal links; a publication locks all its components and then   *)
(* all its names; administrators rename and deactivate rows.               *)
(*                                                                         *)
(* A request is a transaction that takes its locks one at a time: a        *)
(* component's row exclusively, a tag's row shared, a name it inserts      *)
(* exclusively. Batches of 500 names are one after the other in the order  *)
(* of names, as the names of one batch are. The services and tables of the *)
(* three kinds of component are alike; one definition stands for all.      *)
(***************************************************************************)
EXTENDS Naturals, Sequences, FiniteSets, SequencesExt

CONSTANTS
    Sessions,
    Rows,      \* components: <<"product" | "character" | "lorebook", id>>
    Tags,      \* ids of dictionary rows
    Names,     \* tag names, ordered
    Requests,  \* what owners, administrators and the system ask for
    NoTag

ASSUME TagAssumption ==
    /\ Names \subseteq Nat /\ IsFiniteSet(Names)
    /\ Rows \subseteq {"product", "character", "lorebook"} \X Nat /\ IsFiniteSet(Rows)
    /\ NoTag \notin Tags /\ NoTag \notin Requests /\ NoTag \notin {"admin", "system"}
    /\ NoTag \notin [name: Names, active: BOOLEAN]

\* A request names components and tags that there are.
ASSUME RequestAssumption ==
    \A req \in Requests :
        /\ req.kind \in {"publish", "public", "internal", "unlink", "remove", "create"}
        /\ req.kind = "publish" =>
              /\ req.rows \subseteq Rows /\ DOMAIN req.names \subseteq req.rows
              /\ \A r \in DOMAIN req.names : req.names[r] \in Seq(Names)
        /\ req.kind \in {"public", "internal", "create"} => req.names \in Seq(Names)
        /\ req.kind \in {"public", "internal", "unlink", "remove"} => req.row \in Rows
        /\ req.kind \in {"internal", "remove"} => req.source \in {"admin", "system"}
        /\ req.kind \in {"unlink", "remove"} => req.tag \in Tags

VARIABLES
    dict,   \* rows of the dictionary: None or a name and whether it is active
    links,  \* of each component: public tags in order, source of internal ones
    tagTx   \* open transactions

tagVars == <<dict, links, tagTx>>

Unlinked == [public |-> <<>>, internal |-> [t \in Tags |-> NoTag]]
NoTx == [req |-> NoTag, todo |-> <<>>, held |-> {}, ids |-> <<>>, new |-> {}, seen |-> <<>>]

TagInit ==
    /\ dict = [t \in Tags |-> NoTag]
    /\ links = [r \in Rows |-> Unlinked]
    /\ tagTx = [s \in Sessions |-> NoTx]

-----------------------------------------------------------------------------
(* Which locks a request takes, and in which order                          *)

RowStep(r) == <<"row", r>>
NameStep(n) == <<"name", n>>

\* Faulty: the request reads the links of a row that it does not lock.
LookAt(r) == <<"look", r>>

AsLocks(rows) == [i \in DOMAIN rows |-> RowStep(rows[i])]

Ascending(ids) == CHOOSE q \in [1 .. Cardinality(ids) -> ids] :
                      \A i, j \in 1 .. Cardinality(ids) : i < j => q[i] < q[j]

\* sorted(set(names)).
NameLocks(names) == [i \in 1 .. Cardinality(names) |-> NameStep(Ascending(names)[i])]

OfKind(rows, kind) ==
    LET ids == {id \in {r[2] : r \in rows} : <<kind, id>> \in rows}
    IN  [i \in 1 .. Cardinality(ids) |-> <<kind, Ascending(ids)[i]>>]

\* The product, then existing copies by id: characters before the lorebook.
InLockOrder(rows) ==
    OfKind(rows, "product") \o OfKind(rows, "character") \o OfKind(rows, "lorebook")

AllNames(req) == UNION {ToSet(req.names[r]) : r \in DOMAIN req.names}

\* Faulty: every component takes the locks of its own tags when it is written.
PublishOneByOne(req) ==
    FlattenSeq([i \in DOMAIN InLockOrder(req.rows) |->
        LET r == InLockOrder(req.rows)[i]
        IN  <<RowStep(r)>> \o IF r \in DOMAIN req.names THEN NameLocks(ToSet(req.names[r])) ELSE <<>>])

PublishLocks(req) == AsLocks(InLockOrder(req.rows)) \o NameLocks(AllNames(req))

\* Faulty: the links are read before the component is locked.
StepsWithoutRow(req) ==
    IF req.kind \in {"internal", "remove"}
    THEN <<LookAt(req.row)>> \o IF req.kind = "internal" THEN NameLocks(ToSet(req.names)) ELSE <<>>
    ELSE CASE req.kind = "publish" -> PublishLocks(req)
           [] req.kind = "unlink"  -> <<RowStep(req.row)>>
           [] req.kind = "create"  -> NameLocks(ToSet(req.names))
           [] OTHER                -> <<RowStep(req.row)>> \o NameLocks(ToSet(req.names))

TagStepsOf(req) ==
    CASE req.kind = "publish"             -> PublishLocks(req)
      [] req.kind \in {"unlink", "remove"} -> <<RowStep(req.row)>>
      [] req.kind = "create"              -> NameLocks(ToSet(req.names))
      [] OTHER                            -> <<RowStep(req.row)>> \o NameLocks(ToSet(req.names))

-----------------------------------------------------------------------------
(* Transactions                                                             *)

BeginTagWork(s, req) ==
    /\ tagTx[s] = NoTx
    /\ tagTx' = [tagTx EXCEPT ![s].req = req, ![s].todo = TagStepsOf(req)]
    /\ UNCHANGED <<dict, links>>

Taken(s, step) == \E o \in Sessions \ {s} : step[1] = "row" /\ step \in tagTx[o].held

\* Only a name that another transaction has inserted makes one wait: shared locks
\* do not exclude each other.
Inserted(s, step) == \E o \in Sessions \ {s} : step[1] = "name" /\ step[2] \in tagTx[o].new

UnusedTag == {t \in Tags : dict[t] = NoTag /\ \A o \in Sessions : t \notin Range(tagTx[o].ids)}
Named(n) == {t \in Tags : dict[t] # NoTag /\ dict[t].name = n}

\* What was read first is kept.
Noted(known, key, value) ==
    [k \in DOMAIN known \cup {key} |-> IF k \in DOMAIN known THEN known[k] ELSE value]

ReadRow(s, step) ==
    /\ step[1] \in {"row", "look"}
    /\ tagTx' = [tagTx EXCEPT ![s].todo = Tail(@), ![s].held = @ \cup {step},
                        ![s].seen = Noted(@, step[2], links[step[2]])]

\* INSERT ... ON CONFLICT DO NOTHING, then SELECT ... FOR SHARE.
ResolveName(s, step) ==
    /\ step[1] = "name"
    /\ \E t \in IF Named(step[2]) # {} THEN Named(step[2]) ELSE UnusedTag :
         tagTx' = [tagTx EXCEPT ![s].todo = Tail(@), ![s].held = @ \cup {step},
                          ![s].ids = Noted(@, step[2], t),
                          ![s].new = IF Named(step[2]) # {} THEN @ ELSE @ \cup {step[2]}]

AcquireTagLock(s) ==
    /\ tagTx[s].todo # <<>>
    /\ LET step == Head(tagTx[s].todo)
       IN  /\ ~Taken(s, step) /\ ~Inserted(s, step)
           /\ ReadRow(s, step) \/ ResolveName(s, step)
    /\ UNCHANGED <<dict, links>>

Abort(s) ==
    /\ tagTx[s] # NoTx
    /\ tagTx' = [tagTx EXCEPT ![s] = NoTx]
    /\ UNCHANGED <<dict, links>>

-----------------------------------------------------------------------------
(* What is written at the end                                               *)

\* The dictionary with the rows the transaction has inserted.
WithNew(s) ==
    [t \in Tags |-> IF \E n \in tagTx[s].new : tagTx[s].ids[n] = t
                    THEN [name |-> CHOOSE n \in tagTx[s].new : tagTx[s].ids[n] = t, active |-> TRUE]
                    ELSE dict[t]]

IdsOf(s, names) == [i \in DOMAIN names |-> tagTx[s].ids[names[i]]]

\* Faulty: tags the link has already are not told apart.
AnyActiveOrNot(s, ids, retained) == TRUE

\* An inactive tag stays where it is linked and is linked nowhere else.
Assignable(s, ids, retained) == \A t \in ToSet(ids) : WithNew(s)[t].active \/ t \in retained

\* The tags of a list that are not among some others, in the same order.
Without(ids, others) ==
    LET kept == {i \in DOMAIN ids : ids[i] \notin others}
    IN  [i \in 1 .. Cardinality(kept) |-> ids[Ascending(kept)[i]]]

SelectPublic(old, ids, append) ==
    IF append THEN old \o Without(ids, ToSet(old)) ELSE ids

\* Faulty: the system takes over what an administrator has assigned.
SystemTakesOver(old, ids, source, replace) ==
    [t \in Tags |-> IF t \in ToSet(ids) THEN source ELSE IF replace THEN NoTag ELSE old[t]]

\* plan_internal_tag_changes and set_internal_tag_link: what an administrator has
\* assigned is never changed by the system.
PlanInternal(old, ids, source, replace) ==
    [t \in Tags |-> IF source = "system" /\ old[t] = "admin" THEN "admin"
                    ELSE IF t \in ToSet(ids) THEN source
                    ELSE IF replace THEN NoTag ELSE old[t]]

InternalTags(old) == {t \in Tags : old[t] # NoTag}

WritePublish(s, req) ==
    /\ \A r \in DOMAIN req.names :
         Assignable(s, IdsOf(s, req.names[r]), ToSet(tagTx[s].seen[r].public))
    /\ links' = [r \in Rows |-> IF r \in DOMAIN req.names
                                THEN [links[r] EXCEPT !.public = IdsOf(s, req.names[r])]
                                ELSE links[r]]

WritePublic(s, req) ==
    LET old == tagTx[s].seen[req.row].public
        ids == IdsOf(s, req.names)
    IN  /\ Assignable(s, ids, ToSet(old))
        /\ links' = [links EXCEPT ![req.row].public = SelectPublic(old, ids, req.append)]

WriteInternal(s, req) ==
    LET old == tagTx[s].seen[req.row].internal
        ids == IdsOf(s, req.names)
    IN  /\ Assignable(s, ids, InternalTags(old))
        /\ links' = [links EXCEPT ![req.row].internal =
                        PlanInternal(old, ids, req.source, req.replace)]

Unlink(s, req) ==
    links' = [links EXCEPT ![req.row].public = Without(@, {req.tag})]

RemoveInternal(s, req) ==
    /\ ~(req.source = "system" /\ tagTx[s].seen[req.row].internal[req.tag] = "admin")
    /\ links' = [links EXCEPT ![req.row].internal[req.tag] = NoTag]

Write(s, req) ==
    \/ req.kind = "publish" /\ WritePublish(s, req)
    \/ req.kind = "public" /\ WritePublic(s, req)
    \/ req.kind = "internal" /\ WriteInternal(s, req)
    \/ req.kind = "unlink" /\ Unlink(s, req)
    \/ req.kind = "remove" /\ RemoveInternal(s, req)
    \/ req.kind = "create" /\ UNCHANGED links

CommitTags(s) ==
    /\ tagTx[s].req # NoTag /\ tagTx[s].todo = <<>>
    /\ Write(s, tagTx[s].req)
    /\ dict' = WithNew(s)
    /\ tagTx' = [tagTx EXCEPT ![s] = NoTx]

-----------------------------------------------------------------------------
(* The dictionary's administrators                                          *)

\* Faulty: rows are changed while others hold them.
DictionaryAlways == TRUE

\* LOCK TABLE ... NOWAIT: refused while any transaction has resolved a name.
DictionaryIdle == \A s \in Sessions : tagTx[s].ids = <<>>

Rename(t, n) ==
    /\ DictionaryIdle
    /\ dict[t] # NoTag
    /\ Named(n) \subseteq {t}
    /\ dict' = [dict EXCEPT ![t].name = n]
    /\ UNCHANGED <<links, tagTx>>

Deactivate(t) ==
    /\ DictionaryIdle
    /\ dict[t] # NoTag
    /\ dict' = [dict EXCEPT ![t].active = FALSE]
    /\ UNCHANGED <<links, tagTx>>

TagNext ==
    \/ \E s \in Sessions :
         \/ \E req \in Requests : BeginTagWork(s, req)
         \/ AcquireTagLock(s) \/ CommitTags(s) \/ Abort(s)
    \/ \E t \in Tags : Deactivate(t) \/ \E n \in Names : Rename(t, n)

TagSpec == TagInit /\ [][TagNext]_tagVars

-----------------------------------------------------------------------------
(* Properties *)

TagTypeOK ==
    /\ \A t \in Tags : dict[t] # NoTag => dict[t] \in [name: Names, active: BOOLEAN]
    /\ \A r \in Rows : /\ links[r].public \in Seq(Tags)
                       /\ links[r].internal \in [Tags -> {NoTag, "admin", "system"}]
    /\ \A s \in Sessions : tagTx[s].new \subseteq DOMAIN tagTx[s].ids

TagWaitsFor(s, o) ==
    /\ s # o /\ tagTx[s].todo # <<>>
    /\ LET step == Head(tagTx[s].todo)
       IN  \/ step[1] = "row" /\ step \in tagTx[o].held
           \/ step[1] = "name" /\ step[2] \in tagTx[o].new

\* No set of publications and edits wait for each other: components are locked
\* before names, and each in one order, whatever they share.
NoTagDeadlock ==
    \A S \in (SUBSET Sessions) \ {{}} : \E s \in S : \A o \in S : ~TagWaitsFor(s, o)

LinkedTags(r) == ToSet(links[r].public) \cup InternalTags(links[r].internal)
NamesFor(req, r) ==
    CASE req.kind = "publish"              -> ToSet(req.names[r])
      [] req.kind \in {"unlink", "remove"} -> {}
      [] OTHER                             -> ToSet(req.names)

\* A component is linked only to a tag that is active and has the name that was
\* asked for when the link is committed, whatever administrators rename or
\* deactivate between the request's statements.
LinksAreMeant ==
    [][\A s \in Sessions, r \in Rows : links[r] # links'[r] /\ tagTx[s] # tagTx'[s] =>
         \A t \in LinkedTags(r)' \ LinkedTags(r) :
           dict'[t].active /\ dict'[t].name \in NamesFor(tagTx[s].req, r)]_tagVars

\* Only an administrator removes or downgrades what an administrator has assigned.
AdminLinksStay ==
    [][\A s \in Sessions, r \in Rows, t \in Tags :
         /\ tagTx[s] # tagTx'[s]
         /\ links[r].internal[t] = "admin" /\ links'[r].internal[t] # "admin"
         => tagTx[s].req.source = "admin"]_tagVars

\* What holds of the links of content to tags, and of the steps that change them.
LinksAreSound == []TagTypeOK /\ LinksAreMeant /\ AdminLinksStay
=============================================================================
