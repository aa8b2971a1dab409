----------------------------- MODULE MCKnowledge ----------------------------
(* Small instances of KnowledgeScreen for TLC.                             *)
EXTENDS KnowledgeScreen

SameKey == [n \in Names |-> IF n = "Tea" THEN "tea" ELSE n]
TeaAndMilk == <<"tea", "milk">>
FirstSaysNote == [a \in ArticleIds |-> IF a = 1 THEN "note" ELSE ""]

Bound(mode, work, edit, pick, list, search, visit, other, fault) ==
    [mode |-> mode, work |-> work, edit |-> edit, pick |-> pick,
     list |-> list, search |-> search, visit |-> visit, other |-> other,
     fault |-> fault, saving |-> FALSE, names |-> Names,
     works |-> {"save", "latest", "delete", "unlink", "link", "members"},
     theirs |-> {}]

With(bound, works, theirs) == [bound EXCEPT !.works = works, !.theirs = theirs]

(* What happens in a behaviour: how often each, with which calls of the    *)
(* other device.  Editing against it; every work with a fault; picking     *)
(* articles; reading an article and coming back; choosing topics; lists    *)
(* that move; saves and removals on three devices at once.                 *)
Editing ==
    {[With(Bound("browse", 3, 1, 0, 0, 0, 0, 1, 0), {"save", "latest"},
           {"update"}) EXCEPT !.names = {"Tea", "rice"}],
     With(Bound("browse", 1, 1, 0, 0, 0, 0, 1, 0), {"save"},
          {"delete"}),
     With(Bound("browse", 1, 0, 0, 0, 0, 0, 1, 0), {"delete"},
          {"link", "delete"})}
Working ==
    {With(Bound("browse", 2, 1, 0, 0, 0, 0, 0, 1), {"save"}, {}),
     With(Bound("browse", 2, 0, 0, 0, 0, 0, 0, 1), {"delete", "unlink"}, {}),
     Bound("browse", 1, 1, 0, 0, 0, 0, 0, 1)}
Picking ==
    {With(Bound("browse", 2, 0, 2, 0, 0, 0, 0, 1), {"link"}, {}),
     With(Bound("browse", 1, 0, 2, 1, 0, 0, 0, 1), {"link"}, {}),
     With(Bound("browse", 1, 0, 1, 0, 0, 0, 1, 0), {"link"}, {"remove"})}
Visiting ==
    {[With(Bound("browse", 1, 0, 0, 0, 0, 1, 1, 0), {"unlink"}, {"update"})
         EXCEPT !.names = {"rice"}],
     With(Bound("browse", 1, 1, 0, 0, 0, 1, 0, 0), {"unlink", "save"}, {}),
     With(Bound("browse", 0, 0, 0, 0, 0, 1, 1, 1), {}, {"update", "delete"}),
     Bound("browse", 0, 0, 0, 0, 0, 2, 0, 1)}
ChoosingTopics ==
    {Bound("choose", 2, 1, 2, 1, 0, 0, 0, 1),
     With(Bound("choose", 2, 0, 2, 1, 0, 0, 1, 0), {"members"},
          {"delete", "link", "unlink"})}
Listing ==
    {With(Bound("browse", 0, 0, 0, 1, 1, 0, 1, 0), {}, {"create", "delete"}),
     With(Bound("browse", 0, 0, 0, 2, 0, 0, 1, 0), {}, {"create", "delete"}),
     With(Bound("browse", 1, 1, 0, 1, 0, 0, 0, 0), {"save"}, {})}
Saving ==
    {[With(Bound("choose", 0, 0, 0, 0, 0, 0, 2, 0), {}, {"save", "remove"})
         EXCEPT !.saving = TRUE]}
AllUses ==
    Editing \cup Working \cup Picking \cup Visiting \cup ChoosingTopics
    \cup Listing \cup Saving
=============================================================================
