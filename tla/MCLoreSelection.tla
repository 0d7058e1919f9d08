--------------------------- MODULE MCLoreSelection ---------------------------
(* A small instance of LoreSelection: a book with two rivals of one group and *)
(* a start scene, one whose first rival is over its budget, one with manual   *)
(* and deep entries, and one without options.                                 *)
EXTENDS LoreSelection

MCEntry == [enabled |-> TRUE, kind |-> "lore", when |-> "always", triggers |-> {},
            mode |-> "contains", priority |-> 50, size |-> 1, budget |-> NoLore,
            place |-> "before_history", options |-> NoLore]

MCOptions == [all |-> FALSE, depth |-> 2, userOnly |-> FALSE, order |-> 150, group |-> NoLore]

MCGrouped == [MCEntry EXCEPT !.options = [MCOptions EXCEPT !.group = "g"]]

MCKeyed(e, words) == [e EXCEPT !.when = "keyword", !.triggers = words]

MCRivals == <<MCKeyed([MCGrouped EXCEPT !.place = "near_user_message"], {"a"}), MCGrouped,
              [MCEntry EXCEPT !.kind = "start_set"]>>

MCOversized == <<[MCGrouped EXCEPT !.size = 2, !.budget = 1, !.options.order = 0],
                 MCKeyed(MCGrouped, {"a", "b"}), [MCEntry EXCEPT !.priority = 75]>>

MCManual == <<[MCGrouped EXCEPT !.when = "manual", !.priority = 25],
              MCKeyed([MCEntry EXCEPT !.options = [MCOptions EXCEPT !.userOnly = TRUE,
                                                   !.all = TRUE]], {"a", "b"}),
              [MCGrouped EXCEPT !.when = "semantic", !.priority = 100]>>

MCPlain == <<MCKeyed([MCEntry EXCEPT !.mode = "exact"], {"a"}),
             [MCEntry EXCEPT !.enabled = FALSE, !.priority = 100],
             [MCEntry EXCEPT !.when = "manual", !.priority = 100]>>

MCBooks == {MCRivals, MCOversized, MCManual, MCPlain}
==============================================================================
