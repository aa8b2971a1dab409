--------------------------- MODULE KnowledgeScreen --------------------------
(***************************************************************************)
(* The screen of the knowledge topics (readnest-mobile                     *)
(* KnowledgeScreen.tsx) over the store it edits, with another device that  *)
(* edits it too.  The screen browses: a list of topics, a topic with its   *)
(* articles, a picker of articles, an editor of a topic; or it chooses:    *)
(* the topics of the one article it was opened for, Picked.                *)
(*                                                                         *)
(* Every change is one work (mutate): calls of the API one after another,  *)
(* each of which succeeds, fails, or is given up after 20 s and may have   *)
(* been served or be served later ("late").                                *)
(***************************************************************************)
EXTENDS KnowledgePages

CONSTANTS
    Picked,       \* initialArticle
    Searches,     \* what the user searches for, "" included
    Initially,    \* the names of the topics there are at first
    Saved,        \* how many articles are saved at first
    Bounds        \* bounds: how often who does what, the faults, and the
                  \* names that are typed

(* The tables at first are those of a database with its unique index.      *)
ASSUME ScreenAssumption ==
    /\ Initially \in Seq(Names) /\ Len(Initially) \in 1 .. MaxTopic
    /\ \A i, j \in 1 .. Len(Initially) :
          Key[Initially[i]] = Key[Initially[j]] => i = j
    /\ Saved \in 1 .. MaxArticle /\ Picked \in 1 .. Saved
    /\ Sessions = {"app", "late", "other"}
    /\ "" \in Searches
    /\ "" \in Texts /\ "" \notin Names

ASSUME BoundsAssumption ==
    Bounds \subseteq [mode : {"browse", "choose"}, work : Nat, edit : Nat,
                      pick : Nat, list : Nat, search : Nat, visit : Nat,
                      other : Nat, fault : Nat, saving : BOOLEAN,
                      names : SUBSET Names, theirs : SUBSET Kinds,
                      works : SUBSET {"save", "latest", "delete", "unlink",
                                      "link", "members"}]

VARIABLES
    ui,           \* the screen
    granted,      \* what the API has done of the work under way
    left          \* what is left of the bounds

vars == <<store, ui, granted, left>>

NoWork == [kind |-> "none", todo |-> {}, failed |-> {}, item |-> NoItem]
NoEditor == [open |-> FALSE, base |-> NoItem, name |-> "", text |-> "",
             name0 |-> "", text0 |-> ""]
NoLoad == [on |-> "no", got |-> {}, cursor |-> 0, items |-> <<>>, next |-> 0]

(* The screen as it is mounted: its first effects load the topics and, to  *)
(* choose, the topics that the article is in.                              *)
Mounted(mode) ==
    [mode |-> mode, open |-> TRUE, active |-> TRUE,
     topic |-> NoItem, picker |-> FALSE, selected |-> {},
     editor |-> NoEditor, deleting |-> FALSE, leaving |-> FALSE,
     conflict |-> FALSE, work |-> NoWork,
     kept |-> {}, chosen |-> {},
     member |-> IF mode = "choose" THEN "loading" ELSE "ready",
     load |-> IF mode = "choose" THEN [NoLoad EXCEPT !.on = "sent"] ELSE NoLoad,
     refreshes |-> {},
     topicTyped |-> "", topicQuery |-> "",
     articleTyped |-> "", articleQuery |-> "",
     topics |-> Follow(NoPage, Scope("topics", 0, "")),
     articles |-> NoPage]

Busy(u) == u.work.kind # "none"
Open(u) == u.topic # NoItem
Choosing(u) == u.mode = "choose"

-----------------------------------------------------------------------------
(* The screen's calculations.                                              *)

TopicScope(u) == Scope("topics", 0, u.topicQuery)

ArticleScope(u) ==
    CASE ~u.open \/ ~Open(u) \/ Choosing(u) \/ u.editor.open -> NoScope
      [] u.open /\ Open(u) /\ ~Choosing(u) /\ ~u.editor.open /\ u.picker ->
            Scope("articles", u.topic.id, u.articleQuery)
      [] OTHER -> Scope("topic", u.topic.id, u.articleQuery)

(* The effects of both lists on what they are lists of.                    *)
Rendered(u) ==
    [u EXCEPT !.topics = Follow(@, TopicScope(u)),
              !.articles = Follow(@, ArticleScope(u))]

(* refreshSequence.current++.                                              *)
Bump(u) == [u EXCEPT !.refreshes = {[r EXCEPT !.fresh = FALSE] : r \in @}]

EditorDirty(u) ==
    /\ u.editor.open
    /\ u.editor.name # u.editor.name0 \/ u.editor.text # u.editor.text0

MembershipDirty(u) == u.kept # u.chosen

(* What of the screen is shown.                                            *)
Shown(u) == u.open /\ u.active
Plain(u) == Shown(u) /\ ~u.leaving
ShowsEditor(u) == Plain(u) /\ u.editor.open
ShowsDelete(u) == Plain(u) /\ ~u.editor.open /\ u.deleting /\ Open(u)
ShowsTopics(u) ==
    /\ Plain(u) /\ ~u.editor.open /\ ~(u.deleting /\ Open(u))
    /\ ~Open(u) \/ Choosing(u)
ShowsTopic(u) ==
    /\ Plain(u) /\ ~u.editor.open /\ ~u.deleting /\ Open(u) /\ ~Choosing(u)

MembersReady(u) == u.member = "ready"

(* The calls a work makes.                                                 *)
LinkOp(kind, t, a) == Op(kind, [NoItem EXCEPT !.id = t], a, AnyName, AnyText)

SaveOp(e) ==
    Op(IF e.base = NoItem THEN "create" ELSE "update", e.base, 0, e.name, e.text)

AddOps(u) == {LinkOp("link", u.topic.id, a) : a \in u.selected}
MemberOps(u) == {LinkOp("link", t, Picked) : t \in u.chosen \ u.kept}
                \cup {LinkOp("unlink", t, Picked) : t \in u.kept \ u.chosen}

(* saveMemberships adds before it removes.                                 *)
Next1(todo) ==
    IF \E op \in todo : op.kind = "link"
    THEN {op \in todo : op.kind = "link"} ELSE todo

-----------------------------------------------------------------------------
(* Leaving: requestBack and goBack.                                        *)

GoBack(u) ==
    LET clear == [Bump(u) EXCEPT !.leaving = FALSE, !.conflict = FALSE]
    IN  CASE u.editor.open -> [clear EXCEPT !.editor = NoEditor]
          [] ~u.editor.open /\ u.deleting -> [clear EXCEPT !.deleting = FALSE]
          [] ~u.editor.open /\ ~u.deleting /\ u.picker ->
                [clear EXCEPT !.picker = FALSE, !.selected = {},
                              !.articleTyped = ""]
          [] ~u.editor.open /\ ~u.deleting /\ ~u.picker /\ Open(u) ->
                [clear EXCEPT !.topic = NoItem, !.articleTyped = ""]
          [] OTHER -> [clear EXCEPT !.open = FALSE, !.load = NoLoad,
                                    !.refreshes = {}]

AsksFirst(u) ==
    \/ EditorDirty(u)
    \/ u.picker /\ u.selected # {}
    \/ ~u.editor.open /\ Choosing(u) /\ MembershipDirty(u)

RequestBack(u) ==
    CASE u.leaving -> [u EXCEPT !.leaving = FALSE]
      [] ~u.leaving /\ u.deleting -> [u EXCEPT !.deleting = FALSE]
      [] ~u.leaving /\ ~u.deleting /\ AsksFirst(u) -> [u EXCEPT !.leaving = TRUE]
      [] OTHER -> GoBack(u)

-----------------------------------------------------------------------------
(* The end of a work: what each does with the answers.                     *)

Done(u, failed) ==
    [u EXCEPT !.work = NoWork,
              !.topics = IF \/ u.work.kind \in {"link", "members"}
                            \/ failed = {} /\ u.work.kind # "latest"
                         THEN Reload(@) ELSE @]

(* saveTopic: a new topic is chosen, or the saved one is shown.            *)
SavedTopic(u, item) ==
    IF Choosing(u)
    THEN [u EXCEPT !.editor = NoEditor, !.chosen = @ \cup {item.id},
                   !.topicTyped = ""]
    ELSE [u EXCEPT !.editor = NoEditor, !.topic = item, !.topicTyped = ""]

(* saveMemberships: what succeeded is the new baseline.                    *)
SavedMembers(u, failed) ==
    LET lost(kind) == {op.base.id : op \in {f \in failed : f.kind = kind}}
        adds == (u.chosen \ u.kept) \ lost("link")
        removes == (u.kept \ u.chosen) \ lost("unlink")
    IN  [u EXCEPT !.kept = (@ \cup adds) \ removes]

(* Mutant of AddedArticles: the picker closes whatever failed.             *)
AddedAll(u, failed, item) ==
    [u EXCEPT !.topic = item, !.selected = {}, !.picker = FALSE,
              !.articleTyped = ""]

(* addSelectedArticles: what failed stays selected.                        *)
AddedArticles(u, failed, item) ==
    LET remaining == {op.article : op \in failed}
    IN  IF remaining # {}
        THEN [u EXCEPT !.topic = item, !.selected = remaining]
        ELSE [u EXCEPT !.topic = item, !.selected = {}, !.picker = FALSE,
                       !.articleTyped = ""]

(* The catch of mutate: only the refusal of a revision is a conflict.      *)
Refused(u, how) ==
    [u EXCEPT !.conflict = how = "conflict" /\ u.editor.open
                           /\ u.editor.base # NoItem]

Concluded(u, failed, how, item) ==
    CASE u.work.kind = "link" -> AddedArticles(u, failed, item)
      [] u.work.kind = "members" -> SavedMembers(u, failed)
      [] u.work.kind \notin {"link", "members"} /\ failed # {} -> Refused(u, how)
      [] u.work.kind = "save" /\ failed = {} -> SavedTopic(u, item)
      [] u.work.kind = "delete" /\ failed = {} ->
            [u EXCEPT !.topic = NoItem, !.deleting = FALSE]
      [] u.work.kind = "unlink" /\ failed = {} ->
            [u EXCEPT !.topic = item, !.articles = Reload(@)]
      [] u.work.kind = "latest" /\ failed = {} -> [u EXCEPT !.editor.base = item]

(* An answer, or none, to the call under way: the next one or the end.     *)
Answered(how, item, others) ==
    LET op == calls["app"].op
        failed == IF how = "ok" THEN ui.work.failed ELSE ui.work.failed \cup {op}
        newest == IF how = "ok" THEN item ELSE ui.work.item
    IN  IF ui.work.todo # {}
        THEN \E next \in Next1(ui.work.todo) :
               /\ ui' = [ui EXCEPT !.work.todo = @ \ {next},
                                   !.work.failed = failed,
                                   !.work.item = newest]
               /\ calls' = [others EXCEPT !["app"] = Sent(next)]
        ELSE /\ ui' = Rendered(Done(Concluded(ui, failed, how, newest), failed))
             /\ calls' = [others EXCEPT !["app"] = Idle]

-----------------------------------------------------------------------------
(* What the user does.                                                     *)

Spend(what) == left[what] > 0 /\ left' = [left EXCEPT ![what] = @ - 1]

Turns(u) == ui' = Rendered(u) /\ UNCHANGED <<store, granted, left>>

(* mutate: one work at a time.                                             *)
Start(u, kind, ops, item) ==
    /\ ~Busy(ui) /\ kind \in left.works /\ Spend("work")
    /\ \E first \in Next1(ops) :
         /\ ui' = [Bump(u) EXCEPT !.conflict = FALSE,
                                  !.work = [kind |-> kind, todo |-> ops \ {first},
                                            failed |-> {}, item |-> item]]
         /\ calls' = [calls EXCEPT !["app"] = Sent(first)]
    /\ granted' = {}
    /\ UNCHANGED <<tables, lock>>

PressBack ==
    /\ Shown(ui) /\ ~Busy(ui)
    /\ Turns(RequestBack(ui))

(* The panel that asks whether to leave.                                   *)
KeepWriting ==
    /\ Shown(ui) /\ ui.leaving
    /\ Turns([ui EXCEPT !.leaving = FALSE])

Discard ==
    /\ Shown(ui) /\ ui.leaving
    /\ Turns(GoBack(ui))

(* openEditor, of no topic or of the one shown.                            *)
OpenEditor(item) ==
    Turns([Bump(ui) EXCEPT
              !.conflict = FALSE,
              !.editor = IF item = NoItem THEN [NoEditor EXCEPT !.open = TRUE]
                         ELSE [open |-> TRUE, base |-> item,
                               name |-> item.name, text |-> item.text,
                               name0 |-> item.name, text0 |-> item.text]])

NewTopic ==
    /\ ShowsTopics(ui) /\ ~Busy(ui) /\ ui.member # "loading"
    /\ OpenEditor(NoItem)

EditTopic ==
    /\ ShowsTopic(ui) /\ ~ui.picker /\ ~Busy(ui)
    /\ OpenEditor(ui.topic)

TypeInEditor ==
    /\ ShowsEditor(ui) /\ ~Busy(ui) /\ Spend("edit")
    /\ \/ \E n \in left.names \ {ui.editor.name} : ui' = [ui EXCEPT !.editor.name = n]
       \/ \E x \in Texts \ {ui.editor.text} : ui' = [ui EXCEPT !.editor.text = x]
    /\ UNCHANGED <<store, granted>>

(* validateTopicInput refuses a topic without a name.                      *)
SaveTopic ==
    /\ ShowsEditor(ui) /\ ~ui.conflict /\ ui.editor.name \in Names
    /\ Start(ui, "save", {SaveOp(ui.editor)}, NoItem)

ReadLatest ==
    /\ ShowsEditor(ui) /\ ui.conflict
    /\ Start(ui, "latest", {Op("get", ui.editor.base, 0, AnyName, AnyText)},
             NoItem)

AskDelete ==
    /\ ShowsTopic(ui) /\ ~ui.picker /\ ~Busy(ui)
    /\ Turns([ui EXCEPT !.deleting = TRUE, !.conflict = FALSE])

CancelDelete ==
    /\ ShowsDelete(ui) /\ ~Busy(ui)
    /\ Turns([ui EXCEPT !.deleting = FALSE])

ConfirmDelete ==
    /\ ShowsDelete(ui)
    /\ Start(ui, "delete", {Op("delete", ui.topic, 0, AnyName, AnyText)}, NoItem)

(* A row of the topics opens the topic, or chooses it for the article.     *)
OpenTopic ==
    /\ ShowsTopics(ui) /\ ~Busy(ui) /\ ~Choosing(ui)
    /\ \E item \in Range(ui.topics.items) :
         Turns([Bump(ui) EXCEPT !.topic = item, !.conflict = FALSE,
                                !.articleTyped = ""])

Toggled(set, x) == IF x \in set THEN set \ {x} ELSE set \cup {x}

ToggleTopic ==
    /\ ShowsTopics(ui) /\ ~Busy(ui) /\ Choosing(ui) /\ MembersReady(ui)
    /\ Spend("pick")
    /\ \E item \in Range(ui.topics.items) :
         ui' = [ui EXCEPT !.chosen = Toggled(@, item.id)]
    /\ UNCHANGED <<store, granted>>

SaveMemberships ==
    /\ ShowsTopics(ui) /\ Choosing(ui) /\ MembersReady(ui)
    /\ MembershipDirty(ui)
    /\ Start(ui, "members", MemberOps(ui), NoItem)

RetryMemberships ==
    /\ ShowsTopics(ui) /\ Choosing(ui) /\ ui.member = "failed"
    /\ Turns([ui EXCEPT !.member = "loading", !.load = [NoLoad EXCEPT !.on = "sent"]])

OpenPicker ==
    /\ ShowsTopic(ui) /\ ~ui.picker /\ ~Busy(ui)
    /\ Turns([ui EXCEPT !.picker = TRUE, !.articleTyped = "", !.conflict = FALSE])

ToggleArticle ==
    /\ ShowsTopic(ui) /\ ui.picker /\ ~Busy(ui) /\ Spend("pick")
    /\ \E item \in Range(ui.articles.items) :
         ui' = [ui EXCEPT !.selected = Toggled(@, item.id)]
    /\ UNCHANGED <<store, granted>>

AddSelectedArticles ==
    /\ ShowsTopic(ui) /\ ui.picker /\ ui.selected # {}
    /\ Start(ui, "link", AddOps(ui), ui.topic)

UnlinkArticle ==
    /\ ShowsTopic(ui) /\ ~ui.picker
    /\ \E item \in Range(ui.articles.items) :
         Start(ui, "unlink", {LinkOp("unlink", ui.topic.id, item.id)}, NoItem)

(* The searches, which wait for 250 ms without typing.                     *)
TypeSearch ==
    /\ Spend("search")
    /\ \E q \in Searches :
         \/ /\ ShowsTopics(ui) /\ q # ui.topicTyped
            /\ ui' = [ui EXCEPT !.topicTyped = q]
         \/ /\ ShowsTopic(ui) /\ q # ui.articleTyped
            /\ ui' = [ui EXCEPT !.articleTyped = q]
    /\ UNCHANGED <<store, granted>>

Debounced ==
    /\ ui.open
    /\ \/ /\ ui.topicTyped # ui.topicQuery
          /\ Turns([ui EXCEPT !.topicQuery = ui.topicTyped])
       \/ /\ ui.articleTyped # ui.articleQuery
          /\ Turns([ui EXCEPT !.articleQuery = ui.articleTyped])

(* "더 불러오기" and "다시 불러오기" of the list that is shown.                 *)
PressMore(list, shows) ==
    /\ shows /\ CanLoadMore(ui[list]) /\ Spend("list")
    /\ ui' = [ui EXCEPT ![list] = Load(@, @.scope, @.cursor)]
    /\ UNCHANGED <<store, granted>>

PressRetry(list, shows) ==
    /\ shows /\ CanRetry(ui[list])
    /\ Turns([ui EXCEPT ![list] = Load(@, @.scope, @.cursor)])

AskList ==
    \/ PressMore("topics", ShowsTopics(ui)) \/ PressRetry("topics", ShowsTopics(ui))
    \/ PressMore("articles", ShowsTopic(ui)) \/ PressRetry("articles", ShowsTopic(ui))

(* An article is read in front of the screen, which stays mounted.         *)
ReadArticle ==
    /\ ShowsTopic(ui) /\ ~ui.picker /\ ~Busy(ui) /\ ui.articles.items # <<>>
    /\ Spend("visit")
    /\ ui' = [Bump(ui) EXCEPT !.active = FALSE]
    /\ UNCHANGED <<store, granted>>

(* The effect on active: lists and the topic are read again.               *)
Return ==
    /\ ui.open /\ ~ui.active
    /\ LET back == [Bump(ui) EXCEPT !.active = TRUE]
           again == [back EXCEPT
                        !.topics = Reload(@), !.articles = Reload(@),
                        !.refreshes = @ \cup {[fresh |-> TRUE, id |-> ui.topic.id,
                                               on |-> "sent", item |-> NoItem]}]
       IN  Turns(IF ui.editor.open \/ ui.picker \/ Choosing(ui) THEN back
                 ELSE IF Open(ui) THEN again
                 ELSE [back EXCEPT !.topics = Reload(@)])

-----------------------------------------------------------------------------
(* Requests of the screen that only read, and their answers.               *)

Answers(u) == ui' = u /\ UNCHANGED <<store, granted, left>>

ServeList(list) ==
    \E r \in ui[list].reqs :
        /\ r.on = "sent"
        /\ Answers([ui EXCEPT ![list].reqs = (@ \ {r}) \cup {Reply(r)}])

HearList(list) ==
    \E r \in ui[list].reqs :
        r.on # "sent" /\ Answers([ui EXCEPT ![list] = Take(@, r)])

LoseList(list) ==
    \E r \in ui[list].reqs :
        /\ r.fresh /\ Spend("fault")
        /\ ui' = [ui EXCEPT ![list] = Take(@, r)]
        /\ UNCHANGED <<store, granted>>

(* articleTopics, a page after the other.                                  *)
ServeMembers ==
    /\ ui.load.on = "sent"
    /\ LET rows == PageOf(TopicsOf(Picked), ui.load.cursor)
           next == NextOf(TopicsOf(Picked), ui.load.cursor)
       IN  Answers([ui EXCEPT !.load =
                       IF Picked \in articles
                       THEN [@ EXCEPT !.on = "ok", !.items = rows, !.next = next]
                       ELSE [@ EXCEPT !.on = "missing"]])

HearMembers ==
    /\ ui.load.on \in {"ok", "missing"}
    /\ LET got == ui.load.got \cup Range(ui.load.items)
       IN  Answers(CASE ui.load.on = "missing" ->
                          [ui EXCEPT !.load = NoLoad, !.member = "failed"]
                     [] ui.load.on = "ok" /\ ui.load.next # 0 ->
                          [ui EXCEPT !.load = [NoLoad EXCEPT
                              !.on = "sent", !.got = got, !.cursor = ui.load.next]]
                     [] OTHER -> [ui EXCEPT !.load = NoLoad, !.member = "ready",
                                            !.kept = got, !.chosen = got])

LoseMembers ==
    /\ ui.load.on # "no" /\ Spend("fault")
    /\ ui' = [ui EXCEPT !.load = NoLoad, !.member = "failed"]
    /\ UNCHANGED <<store, granted>>

(* The getTopic of Return.                                                 *)
ServeRefresh ==
    \E r \in ui.refreshes :
        /\ r.on = "sent"
        /\ Answers([ui EXCEPT !.refreshes = (@ \ {r}) \cup
                       {IF r.id \in Live
                        THEN [r EXCEPT !.on = "ok", !.item = TopicDto(r.id)]
                        ELSE [r EXCEPT !.on = "missing"]}])

HearRefresh ==
    \E r \in ui.refreshes :
        /\ r.on # "sent"
        /\ Answers([ui EXCEPT
              !.refreshes = @ \ {r},
              !.topic = IF /\ r.on = "ok" /\ r.fresh
                           /\ @.id = r.id /\ r.item.rev >= @.rev
                        THEN r.item ELSE @])

LoseRefresh ==
    \E r \in ui.refreshes :
        /\ Spend("fault")
        /\ ui' = [ui EXCEPT !.refreshes = @ \ {r}]
        /\ UNCHANGED <<store, granted>>

-----------------------------------------------------------------------------
(* The calls of a work.                                                    *)

Hear ==
    /\ calls["app"].at = "done" /\ Busy(ui)
    /\ Answered(calls["app"].how, calls["app"].item, calls)
    /\ UNCHANGED <<tables, lock, granted, left>>

(* No answer in 20 s: the call never arrived, or its answer was lost.      *)
Lose ==
    /\ Busy(ui) /\ calls["app"].at \in {"sent", "done"} /\ Spend("fault")
    /\ Answered("lost", NoItem, calls)
    /\ UNCHANGED <<tables, lock, granted>>

(* ... or it is served all the same, when nobody waits for it.             *)
LoseLate ==
    /\ Busy(ui) /\ calls["app"].at \in {"sent", "locked"}
    /\ calls["late"].at \in {"idle", "done"} /\ Spend("fault")
    /\ Answered("lost", NoItem, [calls EXCEPT !["late"] = calls["app"]])
    /\ lock' = IF lock = "app" THEN "late" ELSE lock
    /\ UNCHANGED <<tables, granted>>

Piece(op) == [kind |-> op.kind, id |-> op.base.id, article |-> op.article,
              name |-> op.name, text |-> op.text]

(* The API at work for one of the sessions.                                *)
Serve(s) ==
    /\ Execute(s)
    /\ granted' = IF /\ s = "app" /\ calls'["app"].at = "done"
                     /\ calls'["app"].how = "ok"
                  THEN granted \cup {Piece(calls["app"].op)} ELSE granted
    /\ UNCHANGED <<ui, left>>

ServerFails(s) == RollBack(s) /\ Spend("fault") /\ UNCHANGED <<ui, granted>>

Midnight == NewDay /\ Spend("other") /\ UNCHANGED <<ui, granted>>

(* Another device, which has just read what it changes.                    *)
OtherOps ==
    {op \in {Op("update", TopicDto(t), 0, n, topics[t].text) :
                  t \in Live, n \in left.names} :
         op.name # op.base.name /\ ~Taken(op.name, op.base.id)}
    \cup {Op("delete", TopicDto(t), 0, AnyName, AnyText) : t \in Live}
    \cup {Op("create", NoItem, 0, n, AnyText) :
              n \in {n \in left.names : ~Taken(n, 0)}}
    \cup {LinkOp(k, t, a) : k \in {"link", "unlink"}, t \in Live, a \in articles}
    \cup {Op("remove", NoItem, a, AnyName, AnyText) : a \in articles}
    \cup {Op("save", NoItem, 0, AnyName, AnyText)}

OtherDevice ==
    /\ calls["other"].at \in {"idle", "done"} /\ Spend("other")
    /\ \E op \in {o \in OtherOps : o.kind \in left.theirs} :
         calls' = [calls EXCEPT !["other"] = Sent(op)]
    /\ UNCHANGED <<tables, lock, ui, granted>>

-----------------------------------------------------------------------------
(* A behaviour begins with the screen mounted over a store in use, and may *)
(* begin with a save that this device sent before.                         *)
Init ==
    /\ left \in Bounds
    /\ ui = Mounted(left.mode)
    /\ granted = {}
    /\ topics = [t \in TopicIds |->
                    IF t <= Len(Initially)
                    THEN [rev |-> 1, name |-> Initially[t], text |-> ""]
                    ELSE NoTopic]
    /\ issued = Len(Initially)
    /\ links = {<<Len(Initially), Picked>>}
    /\ articles = 1 .. Saved /\ arrived = Saved /\ today = {Saved}
    /\ lock = NoOne
    /\ calls = [s \in Sessions |->
                   IF s = "late" /\ left.saving
                   THEN Sent(Op("save", NoItem, 0, AnyName, AnyText)) ELSE Idle]

User ==
    \/ PressBack \/ KeepWriting \/ Discard
    \/ NewTopic \/ EditTopic \/ TypeInEditor \/ SaveTopic \/ ReadLatest
    \/ AskDelete \/ CancelDelete \/ ConfirmDelete
    \/ OpenTopic \/ ToggleTopic \/ SaveMemberships \/ RetryMemberships
    \/ OpenPicker \/ ToggleArticle \/ AddSelectedArticles \/ UnlinkArticle
    \/ TypeSearch \/ AskList \/ ReadArticle \/ Return

Requests ==
    \/ \E list \in {"topics", "articles"} :
          ServeList(list) \/ HearList(list) \/ LoseList(list)
    \/ ServeMembers \/ HearMembers \/ LoseMembers
    \/ ServeRefresh \/ HearRefresh \/ LoseRefresh
    \/ Debounced \/ Hear \/ Lose \/ LoseLate

Api ==
    \/ \E s \in Sessions : Serve(s) \/ ServerFails(s)
    \/ Midnight \/ OtherDevice

Next == User \/ Requests \/ Api

Spec == Init /\ [][Next]_vars

-----------------------------------------------------------------------------
(* What the user has typed or picked and the API has not done yet: the     *)
(* changed text of the editor, the articles picked for a topic, the topics *)
(* chosen or no longer chosen for the article.                             *)
Unsaved(u) ==
    IF ~u.open THEN {}
    ELSE {Piece(op) : op \in
            (IF EditorDirty(u) THEN {SaveOp(u.editor)} ELSE {})
            \cup (IF u.picker THEN AddOps(u) ELSE {})
            \cup MemberOps(u)}

(* Nothing the user has typed or picked gets lost, whatever calls fail or  *)
(* are answered late: it leaves the screen when the API has done it, when  *)
(* the user takes it back, or when the user was asked and leaves.  A       *)
(* choice made before the article's topics could be read is not kept: the  *)
(* answer to RetryMemberships replaces it (KnowledgeScreen.tsx:274).       *)
WorkIsKept ==
    [][ TypeInEditor \/ ToggleTopic \/ ToggleArticle \/ Discard \/ HearMembers
        \/ Unsaved(ui) \ Unsaved(ui') \subseteq granted' ]_vars

(* A list that is shown has no gap: all that exists between its first row  *)
(* and where the next page begins is in it, newest first, however answers  *)
(* to reloads, further pages and former searches overtake each other.      *)
Whole(p, ids) ==
    /\ \A i, j \in DOMAIN p.items : i < j => p.items[i].id > p.items[j].id
    /\ p.items # <<>> =>
         \A x \in ids : x <= p.items[1].id /\ x >= p.cursor =>
             \E i \in DOMAIN p.items : p.items[i].id = x

ListsAreWhole ==
    /\ ui.topics.scope.query = "" => Whole(ui.topics, Live)
    /\ ui.articles.scope.of = "articles" /\ ui.articles.scope.query = "" =>
          Whole(ui.articles, articles)
=============================================================================
