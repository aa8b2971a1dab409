--------------------------- MODULE MCExploreScreen ---------------------------
(* An instance of ExploreScreen: three articles and pages of two, so that  *)
(* there is a further page; the newest is being classified, the next one   *)
(* can be classified anew, and the oldest has had all its revisions and is *)
(* being summarised anew.                                                  *)
EXTENDS ExploreScreen

CONSTANT Topic

MCArticles == 1 .. 3
Filed == [revision |-> MaxRevision, state |-> "SUCCEEDED", edited |-> FALSE,
          content |-> [kind |-> "ARTICLE", categories |-> {Topic}]]
MCFirst ==
    <<Filed,
      [Filed EXCEPT !.revision = MaxRevision - 1, !.state = "FAILED",
                    !.content = Unclassified],
      [NoRow EXCEPT !.revision = 1, !.state = "RUNNING"]>>
MCFirstPhase == <<"summarizing", "done", "done">>

Use(write, fault, more, task, edit, begin) ==
    [use \in Uses |->
        CASE use = "write" -> write [] use = "fault" -> fault
          [] use = "more" -> more [] use = "task" -> task
          [] use = "edit" -> edit [] OTHER -> begin]
MCBounds ==
    {Use(1, 0, 2, 0, 0, 1), Use(0, 1, 1, 0, 0, 2), Use(1, 0, 0, 1, 1, 1),
     Use(1, 1, 0, 1, 1, 0), Use(1, 0, 0, 2, 1, 0), Use(1, 0, 1, 1, 1, 0),
     Use(1, 0, 0, 1, 3, 0)}
=============================================================================
