--------------------------- MODULE ExploreScreen ---------------------------
(***************************************************************************)
(* The screen of the classified articles (readnest-mobile ExploreScreen.   *)
(* tsx, classificationApi.ts) and what it asks of classification.service.  *)
(* ts: a list of a filter that is read again while classification goes on, *)
(* its further pages, and an editor on one of its articles.                *)
(*                                                                         *)
(* Articles are numbers in the order they were saved in.  A list is the    *)
(* set of its items, which is always shown the newest first.  The number   *)
(* of an effect (epoch) is kept as what its comparison says: fresh.  What  *)
(* a row may become by itself is what Classification lets it become.       *)
(***************************************************************************)
EXTENDS Integers, FiniteSets

CONSTANTS
    Articles,      \* articles of the user
    Categories,    \* the catalogue of a kind
    PageSize,      \* articles of an answer
    First,         \* the rows at first
    FirstPhase,    \* where their summaries are at first
    MaxRevision,   \* bound: revisions that workers and other devices reach
    Bounds         \* bounds: how often which kind of thing happens

Kinds == {"ARTICLE", "OPEN_SOURCE", "UNCLASSIFIED"}
States == {"none", "PENDING", "RUNNING", "SUCCEEDED", "FAILED"}
Phases == {"summarizing", "done", "failed", "removed"}

(* A draft may lack its category; a content does not.                      *)
Drafts == [kind : Kinds, categories : SUBSET Categories]
Complete(draft) ==
    /\ draft.kind # "UNCLASSIFIED" => draft.categories # {}
    /\ draft.kind = "UNCLASSIFIED" => draft.categories = {}
Contents == {draft \in Drafts : Complete(draft)}
Unclassified == [kind |-> "UNCLASSIFIED", categories |-> {}]

(* Rows of article_classifications; revision 0 is no row.                  *)
Row == [revision : Nat, content : Contents, state : States, edited : BOOLEAN]
NoRow == [revision |-> 0, content |-> Unclassified, state |-> "none",
          edited |-> FALSE]

All == "all"
Filters == [kind : Kinds, category : Categories \cup {All}]
FirstFilter == [kind |-> "ARTICLE", category |-> All]

(* What is bounded: writes by others, faults, further pages, tasks, taps   *)
(* of the editor, and ways to begin the list anew.                         *)
Uses == {"write", "fault", "more", "task", "edit", "begin"}

ASSUME ExploreAssumption ==
    /\ Articles \subseteq Nat \ {0} /\ IsFiniteSet(Articles)
    /\ PageSize \in Nat \ {0}
    /\ All \notin Categories
    /\ First \in [Articles -> Row]
    /\ \A a \in Articles : First[a].revision = 0 => First[a] = NoRow
    /\ FirstPhase \in [Articles -> Phases]
    /\ MaxRevision \in Nat
    /\ Bounds \subseteq [Uses -> Nat]

VARIABLES
    row,      \* article_classifications
    phase,    \* processStatus of saved_articles; "removed" is no row
    ui,       \* the screen and its requests
    strays,   \* edits that nobody waits for any more
    moved,    \* history: moved between filters since the last effect
    left      \* what is left of the bounds

vars == <<row, phase, ui, strays, moved, left>>
server == <<row, phase, moved>>

-----------------------------------------------------------------------------
(* The API.                                                                *)

Spend(use) == left[use] > 0 /\ left' = [left EXCEPT ![use] = @ - 1]

Exists(a) == phase[a] # "removed"

(* list: the where clause of a filter.  An article without a row is listed *)
(* as an unclassified one, and those among the articles of no category.    *)
InFilter(a, filter) ==
    LET content == row[a].content
    IN  /\ Exists(a)
        /\ \/ content.kind = filter.kind
           \/ /\ filter = FirstFilter
              /\ content.kind = "UNCLASSIFIED"
        /\ filter.category # All /\ filter.kind # "UNCLASSIFIED"
             => filter.category \in content.categories

Found(filter, cursor) ==
    {a \in Articles : InFilter(a, filter) /\ (cursor # 0 => a < cursor)}

(* The newest of them, as many as a page holds.                            *)
Newest(found) ==
    {a \in found : Cardinality({b \in found : b > a}) < PageSize}

Item(a) == [id |-> a, row |-> row[a], phase |-> phase[a]]

(* nextCursor is the last article of the page if there is one more.        *)
PageOf(filter, cursor) ==
    LET found == Found(filter, cursor)
    IN  [items |-> {Item(a) : a \in Newest(found)},
         cursor |-> IF Cardinality(found) > PageSize
                    THEN CHOOSE a \in Newest(found) :
                            \A b \in Newest(found) : a <= b
                    ELSE 0]
NoPage == [items |-> {}, cursor |-> -1]

(* Rows as workers, polls and other devices write them (Classification).   *)
NextRows(a) ==
    LET r == row[a]
        next == r.revision + 1
    IN  {s \in {[revision |-> next, content |-> Unclassified,
                 state |-> "PENDING", edited |-> FALSE]} :
            phase[a] = "done" /\ ~r.edited}
        \cup {s \in {[r EXCEPT !.state = "RUNNING"]} :
                r.state = "PENDING" /\ ~r.edited}
        \cup {s \in {[r EXCEPT !.state = "FAILED", !.revision = next]} :
                r.state = "RUNNING" /\ ~r.edited}
        \cup {s \in [revision : {next}, content : Contents,
                     state : {"SUCCEEDED"}, edited : {FALSE}] :
                r.state = "RUNNING" /\ ~r.edited}
        \cup [revision : {next}, content : Contents,
              state : {"SUCCEEDED"}, edited : {TRUE}]

Write(a, new) ==
    /\ row' = [row EXCEPT ![a] = new]
    /\ moved' = IF new.content = row[a].content THEN moved ELSE moved \cup {a}

Classify(a) ==
    /\ Spend("write")
    /\ Exists(a)
    /\ \E new \in NextRows(a) : new.revision <= MaxRevision /\ Write(a, new)
    /\ UNCHANGED <<phase, ui, strays>>

Summarize(a) ==
    /\ Spend("write")
    /\ phase[a] = "summarizing"
    /\ \E p \in {"done", "failed"} : phase' = [phase EXCEPT ![a] = p]
    /\ UNCHANGED <<row, ui, strays, moved>>

Remove(a) ==
    /\ Spend("write")
    /\ Exists(a)
    /\ phase' = [phase EXCEPT ![a] = "removed"]
    /\ row' = [row EXCEPT ![a] = NoRow]
    /\ moved' = moved \cup {a}
    /\ UNCHANGED <<ui, strays>>

-----------------------------------------------------------------------------
(* The screen.                                                             *)

NoEditor == [article |-> 0, revision |-> 0, seen |-> Unclassified,
             draft |-> Unclassified]
NoWork == [kind |-> "none", fresh |-> FALSE, on |-> "no", edit |-> NoEditor]

NewLoad(filter) ==
    [fresh |-> TRUE, filter |-> filter, on |-> "scan", pending |-> FALSE,
     page |-> NoPage]

Fresh == [active |-> TRUE, filter |-> FirstFilter, page |-> NoPage,
          error |-> FALSE, scanning |-> FALSE, editor |-> NoEditor,
          paged |-> FALSE, moreBusy |-> FALSE, timer |-> FALSE,
          loads |-> {NewLoad(FirstFilter)}, mores |-> {}, work |-> NoWork]

Init ==
    /\ row = First /\ phase = FirstPhase
    /\ ui = Fresh
    /\ strays = {} /\ moved = {}
    /\ left \in Bounds

Loading(u) == \E l \in u.loads : l.fresh

(* load, up to its first await: not after a further page was read, and     *)
(* while an editor is open only later.                                     *)
Start(u, editing) ==
    CASE u.paged -> u
      [] ~u.paged /\ editing -> [u EXCEPT !.timer = TRUE]
      [] OTHER -> [u EXCEPT !.loads = @ \cup {NewLoad(u.filter)}]

(* The effect's cleanup: what it waits for is aborted or out of date.  A   *)
(* load that still scans goes on to a list that is aborted.                *)
Stop(u) ==
    [u EXCEPT !.timer = FALSE,
              !.loads = {[l EXCEPT !.fresh = FALSE] :
                            l \in {k \in @ : k.on \in {"ok", "failed"}}},
              !.mores = {[m EXCEPT !.fresh = FALSE] : m \in @},
              !.work.fresh = FALSE]

(* The effect.  An editor that it closes is still open when it loads.      *)
Restart(u, filter) ==
    Start([Stop(u) EXCEPT !.active = TRUE, !.filter = filter, !.page = NoPage,
                          !.error = FALSE, !.editor = NoEditor,
                          !.paged = FALSE, !.moreBusy = FALSE],
          u.editor # NoEditor)

Restarts(filter) ==
    ui' = Restart(ui, filter) /\ moved' = {}

Leave(u) == [Stop(u) EXCEPT !.active = FALSE]

EditorShown(u) == \E i \in u.page.items : i.id = u.editor.article

-----------------------------------------------------------------------------
(* load: scan, then list, then perhaps once more after 8 seconds.          *)

(* Mutant of TimerFires: whether an editor is open is what it was when the *)
(* effect began, as without the ref.  An effect that has closed one arms   *)
(* its timer before it has a list, and again and again.                    *)
TimerFiresOfEffect ==
    /\ ui.timer
    /\ ui' = Start([ui EXCEPT !.timer = FALSE], ui.page = NoPage)
    /\ UNCHANGED <<server, strays, left>>
TimerFires ==
    /\ ui.timer
    /\ ui' = Start([ui EXCEPT !.timer = FALSE], ui.editor # NoEditor)
    /\ UNCHANGED <<server, strays, left>>

(* What the scan answers may be out of date when it is heard.              *)
HearScan ==
    \E l \in ui.loads, pending \in BOOLEAN :
        /\ l.on = "scan"
        /\ ui' = [ui EXCEPT !.loads = (@ \ {l}) \cup
                     {[l EXCEPT !.on = "list", !.pending = pending]}]
        /\ UNCHANGED <<server, strays, left>>

(* The list is read all the same.                                          *)
LoseScan ==
    \E l \in ui.loads :
        /\ Spend("fault") /\ l.on = "scan"
        /\ ui' = [ui EXCEPT !.error = TRUE,
                            !.loads = (@ \ {l}) \cup {[l EXCEPT !.on = "list"]}]
        /\ UNCHANGED <<server, strays>>

ServeList ==
    \E l \in ui.loads :
        /\ l.on = "list"
        /\ ui' = [ui EXCEPT !.loads = (@ \ {l}) \cup
                     {[l EXCEPT !.on = "ok", !.page = PageOf(l.filter, 0)]}]
        /\ UNCHANGED <<server, strays, left>>

LoseList ==
    \E l \in ui.loads :
        /\ Spend("fault") /\ l.on = "list"
        /\ ui' = [ui EXCEPT !.loads = (@ \ {l}) \cup
                                          {[l EXCEPT !.on = "failed"]}]
        /\ UNCHANGED <<server, strays>>

InProgress(i) ==
    i.row.state \in {"PENDING", "RUNNING"} \/ i.phase = "summarizing"

ListAnswer(l) ==
    LET rest == [ui EXCEPT !.loads = @ \ {l}]
        pending == l.pending \/ \E i \in l.page.items : InProgress(i)
    IN  CASE ~l.fresh -> rest
          [] l.fresh /\ l.on = "failed" -> [rest EXCEPT !.error = TRUE]
          [] l.fresh /\ l.on = "ok" /\ ui.paged -> rest
          [] OTHER -> [rest EXCEPT !.page = l.page, !.scanning = pending,
                                   !.timer = @ \/ pending]

HearList ==
    \E l \in ui.loads :
        /\ l.on \in {"ok", "failed"}
        /\ ui' = ListAnswer(l)
        /\ UNCHANGED <<server, strays, left>>

-----------------------------------------------------------------------------
(* loadMore.                                                               *)

LoadMore ==
    /\ Spend("more")
    /\ ui.active /\ ui.page # NoPage
    /\ ui.page.cursor # 0 /\ ~ui.moreBusy
    /\ ui' = [ui EXCEPT !.paged = TRUE, !.moreBusy = TRUE,
                        !.mores = @ \cup
                           {[fresh |-> TRUE, filter |-> ui.filter,
                             cursor |-> ui.page.cursor, on |-> "sent",
                             page |-> NoPage]}]
    /\ UNCHANGED <<server, strays>>

(* A cursor whose article is gone is refused.                              *)
ServeMore ==
    \E m \in ui.mores :
        /\ m.on = "sent"
        /\ ui' = [ui EXCEPT !.mores = (@ \ {m}) \cup
                     {IF Exists(m.cursor)
                      THEN [m EXCEPT !.on = "ok",
                                     !.page = PageOf(m.filter, m.cursor)]
                      ELSE [m EXCEPT !.on = "failed"]}]
        /\ UNCHANGED <<server, strays, left>>

LoseMore ==
    \E m \in ui.mores :
        /\ Spend("fault") /\ m.on = "sent"
        /\ ui' = [ui EXCEPT !.mores = (@ \ {m}) \cup
                                          {[m EXCEPT !.on = "failed"]}]
        /\ UNCHANGED <<server, strays>>

Appended(page, next) ==
    [items |-> page.items \cup
                  {i \in next.items : \A k \in page.items : k.id # i.id},
     cursor |-> next.cursor]

(* Mutant of MoreAnswer: the effect's number is not compared.              *)
MoreAnswerOfAny(m) ==
    LET ended == [ui EXCEPT !.mores = @ \ {m}, !.moreBusy = FALSE]
    IN  IF m.on = "failed" THEN [ended EXCEPT !.error = TRUE]
        ELSE [ended EXCEPT !.page = IF @ = NoPage THEN m.page
                                    ELSE Appended(@, m.page)]
MoreAnswer(m) ==
    LET ended == [ui EXCEPT !.mores = @ \ {m}, !.moreBusy = FALSE]
    IN  CASE ~m.fresh -> [ui EXCEPT !.mores = @ \ {m}]
          [] m.fresh /\ m.on = "failed" -> [ended EXCEPT !.error = TRUE]
          [] OTHER -> [ended EXCEPT !.page = Appended(@, m.page)]

HearMore ==
    \E m \in ui.mores :
        /\ m.on # "sent"
        /\ ui' = MoreAnswer(m)
        /\ UNCHANGED <<server, strays, left>>

-----------------------------------------------------------------------------
(* run: one task at a time.                                                *)

Idle == ui.work = NoWork

Run(kind, edit) ==
    ui' = [ui EXCEPT !.error = FALSE,
                     !.work = [kind |-> kind, fresh |-> TRUE, on |-> "sent",
                               edit |-> edit]]

(* A tap on an article of the list, or on its button to try again.         *)
OpenArticle ==
    /\ Spend("task")
    /\ ui.active /\ Idle
    /\ \E i \in ui.page.items : Run("open", [NoEditor EXCEPT !.article = i.id])
    /\ UNCHANGED <<server, strays>>

RetryArticle ==
    /\ Spend("task")
    /\ ui.active /\ Idle
    /\ \E i \in ui.page.items :
          /\ i.row.state = "FAILED" /\ ~i.row.edited
          /\ Run("retry", [NoEditor EXCEPT !.article = i.id])
    /\ UNCHANGED <<server, strays>>

SaveEdit ==
    /\ Spend("task")
    /\ ui.active /\ Idle
    /\ ui.editor # NoEditor /\ EditorShown(ui) /\ Complete(ui.editor.draft)
    /\ Run("save", ui.editor)
    /\ UNCHANGED <<server, strays>>

(* edit: the revision that was seen, or no row and none was seen.          *)
Accepts(e) == Exists(e.article) /\ row[e.article].revision = e.revision
EditedRow(e) == [revision |-> e.revision + 1, content |-> e.draft,
                 state |-> "SUCCEEDED", edited |-> TRUE]

Answered(how) == ui' = [ui EXCEPT !.work.on = how]

ServeEdit ==
    /\ ui.work.kind = "save" /\ ui.work.on = "sent"
    /\ \/ /\ Accepts(ui.work.edit)
          /\ Write(ui.work.edit.article, EditedRow(ui.work.edit))
          /\ Answered("ok")
       \/ /\ ~Accepts(ui.work.edit)
          /\ Answered("failed")
          /\ UNCHANGED <<row, moved>>
    /\ UNCHANGED <<phase, strays, left>>

(* retry: schedule, or nothing to do; a failure of the last 30 seconds is  *)
(* refused.                                                                *)
ServeRetry ==
    /\ ui.work.kind = "retry" /\ ui.work.on = "sent"
    /\ LET a == ui.work.edit.article
       IN  \/ /\ Exists(a) /\ phase[a] = "done"
              /\ row[a].state = "FAILED" /\ ~row[a].edited
              /\ Write(a, [revision |-> row[a].revision + 1, edited |-> FALSE,
                           content |-> Unclassified, state |-> "PENDING"])
              /\ Answered("ok")
           \/ /\ Exists(a)
              /\ phase[a] # "done" \/ row[a].state # "FAILED" \/ row[a].edited
              /\ Answered("ok")
              /\ UNCHANGED <<row, moved>>
           \/ /\ ~Exists(a) \/ row[a].state = "FAILED"
              /\ Answered("failed")
              /\ UNCHANGED <<row, moved>>
    /\ UNCHANGED <<phase, strays, left>>

ServeOpen ==
    /\ ui.work.kind = "open" /\ ui.work.on = "sent"
    /\ Answered(IF Exists(ui.work.edit.article) THEN "ok" ELSE "failed")
    /\ UNCHANGED <<server, strays, left>>

(* No answer comes; an edit may be served later.                           *)
LoseWork ==
    /\ Spend("fault")
    /\ ui.work.on \in {"sent", "ok"}
    /\ Answered("failed")
    /\ \/ UNCHANGED strays
       \/ /\ ui.work.kind = "save" /\ ui.work.on = "sent"
          /\ strays' = strays \cup {ui.work.edit}
    /\ UNCHANGED server

ServeStray ==
    \E e \in strays :
        /\ strays' = strays \ {e}
        /\ \/ Accepts(e) /\ Write(e.article, EditedRow(e))
           \/ ~Accepts(e) /\ UNCHANGED <<row, moved>>
        /\ UNCHANGED <<phase, ui, left>>

(* The task after its await, then run's own end.  An article is opened     *)
(* over the screen unless that was left or filtered anew meanwhile.        *)
HearWork ==
    /\ ui.work.on \in {"ok", "failed"}
    /\ LET w == ui.work
           rest == [ui EXCEPT !.work = NoWork]
           closed == IF w.kind = "save" THEN [rest EXCEPT !.editor = NoEditor]
                     ELSE rest
       IN  \/ /\ w.on = "failed"
              /\ ui' = [rest EXCEPT !.error = @ \/ w.fresh]
              /\ UNCHANGED moved
           \/ /\ w.on = "ok" /\ w.kind = "open"
              /\ ui' = IF w.fresh THEN Leave(rest) ELSE rest
              /\ UNCHANGED moved
           \/ /\ w.on = "ok" /\ w.kind \in {"retry", "save"}
              /\ IF ui.active
                 THEN ui' = Restart(closed, ui.filter) /\ moved' = {}
                 ELSE ui' = closed /\ UNCHANGED moved
    /\ UNCHANGED <<row, phase, strays, left>>

-----------------------------------------------------------------------------
(* What else the user does.                                                *)

(* Mutant of Editable: the button works while a task is under way.         *)
EditableAlways == ui.active
(* The button to edit an article is disabled while a task is under way.    *)
Editable == ui.active /\ Idle

OpenEditor ==
    /\ Spend("edit")
    /\ Editable
    /\ \E i \in ui.page.items :
          ui' = [ui EXCEPT !.editor =
                    [article |-> i.id, revision |-> i.row.revision,
                     seen |-> i.row.content, draft |-> i.row.content]]
    /\ UNCHANGED <<server, strays>>

Editing ==
    /\ ui.active /\ Idle
    /\ ui.editor # NoEditor /\ EditorShown(ui)

ChooseKind ==
    /\ Spend("edit")
    /\ Editing
    /\ \E kind \in Kinds :
          ui' = [ui EXCEPT !.editor.draft = [kind |-> kind, categories |-> {}]]
    /\ UNCHANGED <<server, strays>>

ToggleCategory ==
    /\ Spend("edit")
    /\ Editing /\ ui.editor.draft.kind # "UNCLASSIFIED"
    /\ \E c \in Categories :
          ui' = [ui EXCEPT !.editor.draft.categories =
                    IF c \in @ THEN @ \ {c} ELSE @ \cup {c}]
    /\ UNCHANGED <<server, strays>>

CancelEdit ==
    /\ Spend("edit")
    /\ Editing
    /\ ui' = [ui EXCEPT !.editor = NoEditor]
    /\ UNCHANGED <<server, strays>>

(* The two sections, and the categories of the one that is chosen, which   *)
(* come with its list.                                                     *)
Section(filter) ==
    IF filter.kind = "UNCLASSIFIED" THEN "ARTICLE" ELSE filter.kind

Offered(filter) ==
    \/ filter.category = All /\ filter.kind # "UNCLASSIFIED"
    \/ /\ filter.category = All /\ filter.kind = "UNCLASSIFIED"
       /\ Section(ui.filter) = "ARTICLE"
    \/ /\ filter.category # All /\ filter.kind = Section(ui.filter)
       /\ ui.page # NoPage

ChooseFilter ==
    /\ Spend("begin")
    /\ ui.active
    /\ \E filter \in Filters \ {ui.filter} :
          Offered(filter) /\ Restarts(filter)
    /\ UNCHANGED <<row, phase, strays>>

Reload ==
    /\ Spend("begin")
    /\ ui.active /\ ui.error
    /\ Restarts(ui.filter)
    /\ UNCHANGED <<row, phase, strays>>

(* An article, the collections or a picker come over the screen; then it   *)
(* is shown again.                                                         *)
Hide ==
    /\ Spend("begin")
    /\ ui.active
    /\ ui' = Leave(ui)
    /\ UNCHANGED <<server, strays>>

Show ==
    /\ ~ui.active
    /\ Restarts(ui.filter)
    /\ UNCHANGED <<row, phase, strays, left>>

(* Another tab: the screen is mounted anew when it is chosen again.        *)
Remount ==
    /\ Spend("begin")
    /\ ui' = Fresh /\ moved' = {}
    /\ \/ UNCHANGED strays
       \/ /\ ui.work.kind = "save" /\ ui.work.on = "sent"
          /\ strays' = strays \cup {ui.work.edit}
    /\ UNCHANGED <<row, phase>>

-----------------------------------------------------------------------------
System ==
    \/ TimerFires \/ HearScan \/ ServeList \/ HearList \/ ServeMore \/ HearMore
    \/ ServeEdit \/ ServeRetry \/ ServeOpen \/ HearWork

Next ==
    \/ \E a \in Articles : Classify(a) \/ Summarize(a) \/ Remove(a)
    \/ System
    \/ LoseScan \/ LoseList \/ LoseMore \/ LoseWork \/ ServeStray
    \/ LoadMore \/ OpenArticle \/ RetryArticle \/ SaveEdit
    \/ OpenEditor \/ ChooseKind \/ ToggleCategory \/ CancelEdit
    \/ ChooseFilter \/ Reload \/ Hide \/ Show \/ Remount

Spec == Init /\ [][Next]_vars

(* Timers fire, and a task ends, since every call has a time limit.  Calls *)
(* of load need not end for it, and users owe nothing.                     *)
Fairness ==
    WF_vars(TimerFires \/ ServeEdit \/ ServeRetry \/ ServeOpen \/ HearWork)
FairSpec == Spec /\ Fairness

-----------------------------------------------------------------------------
(* Properties.                                                             *)

Items == [id : Articles, row : Row, phase : Phases]
Pages == {NoPage} \cup [items : SUBSET Items, cursor : Articles \cup {0}]
Loads == [fresh : BOOLEAN, filter : Filters, pending : BOOLEAN, page : Pages,
          on : {"scan", "list", "ok", "failed"}]
Mores == [fresh : BOOLEAN, filter : Filters, cursor : Articles, page : Pages,
          on : {"sent", "ok", "failed"}]
Edits == [article : Articles \cup {0}, revision : Nat, seen : Drafts,
          draft : Drafts]
Works == [kind : {"none", "open", "retry", "save"}, fresh : BOOLEAN,
          on : {"no", "sent", "ok", "failed"}, edit : Edits]
Screens == [active : BOOLEAN, filter : Filters, page : Pages, error : BOOLEAN,
            scanning : BOOLEAN, editor : Edits, paged : BOOLEAN,
            moreBusy : BOOLEAN, timer : BOOLEAN, loads : SUBSET Loads,
            mores : SUBSET Mores, work : Works]

(* The rows, and what the screen holds, have the columns and fields that   *)
(* the code declares.                                                      *)
TypeOK ==
    /\ row \in [Articles -> Row] /\ phase \in [Articles -> Phases]
    /\ ui \in Screens
    /\ strays \subseteq Edits
    /\ moved \subseteq Articles
    /\ left \in [Uses -> Nat]

(* What is listed is of the filter that is chosen, and down to the cursor  *)
(* there is no hole in it, whichever polls, further pages and answers to   *)
(* earlier filters come in which order.  Articles that have moved between  *)
(* filters since the list was begun are left out.                          *)
PageIsWhole ==
    ui.active /\ ui.page # NoPage
    => \A a \in Articles \ moved :
          (\E i \in ui.page.items : i.id = a)
             <=> InFilter(a, ui.filter) /\ a >= ui.page.cursor

(* The screen says that classification goes on, offers no button to load   *)
(* again, and has no editor set: load owes another look.                   *)
LookOwed ==
    /\ ui.active /\ ui.scanning /\ ~ui.paged
    /\ ~ui.error /\ ui.editor = NoEditor

(* As long as the screen says that classification goes on, the list is     *)
(* asked for again: an armed timer is not enough, it must lead to a call,  *)
(* also when editors were open, tasks ended and filters changed before it  *)
(* fired.  An editor that is set puts the call off, shown or not; for one  *)
(* that is not shown the code has no way to end that (see the README).     *)
LooksAgain == LookOwed ~> (Loading(ui) \/ ~LookOwed)

(* An edit that is accepted replaces what its author was shown, also when  *)
(* a poll has replaced the list under the editor, or when it is served     *)
(* late; and the answer to a save closes no editor but the one it saved.   *)
EditorIsSafe ==
    /\ \A e \in {ui.editor} \cup {w \in {ui.work.edit} : ui.work.kind = "save"}
                           \cup strays :
          e # NoEditor /\ e.article \in Articles /\ Accepts(e)
          => e.seen = row[e.article].content
    /\ ui.work.kind = "save" /\ ui.editor # NoEditor
          => ui.editor = ui.work.edit
=============================================================================
