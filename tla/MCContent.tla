----------------------------- MODULE MCContent -----------------------------
(* The studio's drafts and releases, the media of a character, the tags of   *)
(* content and the review of what was reported, each explored from its own   *)
(* start: "part" says which one runs.                                        *)
EXTENDS StudioDrafts, MediaUpload, ContentTags, ReviewCases, TLC

CONSTANTS a, b, lore, novel, author, e1, e2, e3, x1, x2, x3

VARIABLE part

\* Two works are published: the cast is reordered and the lorebook dropped between
\* them.  A third one takes part where drafts are only saved.
MCThirdWork == [text |-> 1, cast |-> <<b, a>>, lore |-> {}]
MCWorks == {[text |-> 1, cast |-> <<a, b>>, lore |-> {lore}],
            [text |-> 2, cast |-> <<b, a>>, lore |-> {}], MCThirdWork}

\* Two products share their characters; publications name tags in either order.
product == <<"product", 1>>
sequel == <<"product", 2>>
hero == <<"character", 1>>
rival == <<"character", 2>>
manual == <<"lorebook", 1>>
MCRows == {product, sequel, hero, rival, manual}
AskPublish(rs, names) == [kind |-> "publish", rows |-> rs, names |-> names]
AskPublic(r, names, append) == [kind |-> "public", row |-> r, names |-> names, append |-> append]
AskInternal(names, source, replace) ==
    [kind |-> "internal", row |-> hero, names |-> names, source |-> source, replace |-> replace]
MCRequests ==
    {AskPublish({product, hero, rival, manual}, (hero :> <<2>>) @@ (manual :> <<1>>)),
     AskPublish({sequel, hero, rival}, <<>>),
     AskPublic(manual, <<1, 2>>, FALSE), AskPublic(manual, <<2, 1>>, TRUE),
     AskInternal(<<1>>, "system", FALSE), AskInternal(<<1>>, "admin", TRUE),
     [kind |-> "create", names |-> <<2>>]}
    \cup {[kind |-> "remove", row |-> hero, tag |-> 1, source |-> s] : s \in {"admin", "system"}}
    \cup {[kind |-> "unlink", row |-> hero, tag |-> 1]}

\* Three reports of one work, which may be called duplicates in a circle, and a report
\* of its author; two judgements that replace one, of which the second finds nothing and
\* carries no suspension; two reversals of one action, one resting on the judgement of
\* the work and one on that of the author, so that they hold different target locks.  A
\* judgement of the author on reports of the work is always refused.
MCTargetOf == [r \in Reports |-> IF r = 4 THEN author ELSE novel]
MCOwnerOf == [w \in ReviewWorks |-> author]
AskIntake(r, dup) == [kind |-> "intake", id |-> r, dup |-> dup,
                      status |-> IF dup = NoCase THEN "rejected" ELSE "duplicate"]
AskAssess(e, target, rs, outcome, previous) ==
    [kind |-> "assess", id |-> e, target |-> target, reports |-> rs,
     outcome |-> outcome, previous |-> previous, acknowledged |-> TRUE]
AskAct(x, e, type, reverses) ==
    [kind |-> "act", id |-> x, assessment |-> e, target |-> author, type |-> type,
     reverses |-> reverses]
MCCommands ==
    {[kind |-> "report", id |-> 1]}
    \cup {AskIntake(1, 3), AskIntake(3, 2), AskIntake(2, 1), AskIntake(2, NoCase)}
    \cup {AskAssess(e1, novel, {2, 3}, "violation", NoCase),
          AskAssess(e2, author, {4}, "violation", NoCase),
          AskAssess(e2, author, {2, 3}, "violation", NoCase),
          AskAssess(e2, novel, {2}, "violation", e1),
          AskAssess(e3, novel, {3}, "no_violation", e1)}
    \cup {AskAct(x1, e1, "suspend", NoCase), AskAct(x1, e3, "suspend", NoCase),
          AskAct(x2, e1, "revoke", x1), AskAct(x3, e2, "revoke", x1)}
    \cup {[kind |-> "cancel", id |-> x] : x \in {x1, x2}}

ContentVars == <<vars, mediaVars, tagVars, reviewVars, part>>

\* No device has a document: where the other parts start, whatever device is which.
StudioAtRest ==
    /\ draft = None /\ content = None /\ docs = <<>> /\ edits = 0
    /\ local = [d \in Devices |-> None] /\ link = [d \in Devices |-> NoLink]
    /\ dev = [d \in Devices |-> Resting]

ContentInit ==
    /\ part \in {"releases", "drafts", "media", "tags", "review"}
    /\ IF part \in {"releases", "drafts"} THEN Init ELSE StudioAtRest
    /\ MediaInit /\ TagInit /\ ReviewInit

ContentNext ==
    /\ UNCHANGED part
    /\ \/ /\ part = "releases" /\ Next /\ \A d \in Devices : local'[d] # MCThirdWork
          /\ UNCHANGED <<mediaVars, tagVars, reviewVars>>
       \/ /\ part = "drafts" /\ Next /\ (draft' # None => content'.snaps = <<>>)
          /\ UNCHANGED <<mediaVars, tagVars, reviewVars>>
       \/ part = "media" /\ MediaNext /\ UNCHANGED <<vars, tagVars, reviewVars>>
       \/ part = "tags" /\ TagNext /\ UNCHANGED <<vars, mediaVars, reviewVars>>
       \/ part = "review" /\ ReviewNext /\ UNCHANGED <<vars, mediaVars, tagVars>>

ContentSpec == ContentInit /\ [][ContentNext]_ContentVars

ContentSymmetry == Permutations(Media) \cup Permutations(Clients)
=============================================================================
