-------------------------- MODULE MCArticleLibrary --------------------------
(* Small instances of ArticleLibrary for TLC.                              *)
EXTENDS ArticleLibrary

Bound(read, make, remove, save, list, leave, fault) ==
    [read |-> read, make |-> make, remove |-> remove, save |-> save,
     list |-> list, session |-> leave, fault |-> fault]

(* What the user does in a behaviour: one kind of use is repeated, or      *)
(* several meet once, with or without a fault.                             *)
Reading == {Bound(3, 0, 0, 0, 0, 0, 1), Bound(2, 1, 0, 0, 0, 0, 0),
            Bound(2, 0, 1, 0, 0, 0, 0), Bound(1, 0, 1, 0, 0, 0, 1)}
Making == {Bound(1, 2, 0, 0, 0, 0, 0), Bound(1, 1, 0, 0, 0, 0, 1),
           Bound(1, 1, 0, 0, 1, 0, 0)}
Browsing == {Bound(0, 0, 0, 1, 3, 0, 0), Bound(0, 0, 0, 0, 3, 0, 1),
             Bound(1, 0, 0, 1, 0, 0, 1), Bound(1, 0, 1, 1, 0, 0, 0)}
Leaving == {Bound(1, 1, 0, 0, 0, 1, 0), Bound(1, 0, 0, 1, 0, 1, 0),
            Bound(1, 0, 0, 0, 1, 1, 1), Bound(1, 0, 0, 0, 0, 2, 0),
            Bound(0, 0, 0, 0, 0, 2, 1)}
AllUses == Reading \cup Making \cup Browsing \cup Leaving

(* Reading one article in another density, no fault.                       *)
OneReader == {Bound(2, 1, 0, 0, 0, 0, 0)}
=============================================================================
