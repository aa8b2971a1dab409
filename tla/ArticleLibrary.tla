--------------------------- MODULE ArticleLibrary ---------------------------
(***************************************************************************)
(* The article library of one device and the API it talks to: articles.    *)
(* service.ts at one end, useArticleLibrary.ts, App.tsx and                *)
(* ThreadDetailScreen.tsx at the other, requests between them that are     *)
(* answered in any order, lost, or given up and served afterwards.         *)
(*                                                                         *)
(* owner is the account the articles belong to; another user of the device *)
(* has none.  Rows are numbers in the order they were saved in.            *)
(***************************************************************************)
EXTENDS ArticleClient

CONSTANTS
    owner,
    MaxRow,       \* bound: rows saved, the initial ones included
    PageSize,     \* rows of a page of a list
    Bounds        \* bounds: how often the user does what, and the faults

(* What is bounded.                                                        *)
Uses == {"read", "make", "remove", "save", "list", "session", "fault"}

ASSUME LibraryAssumption ==
    /\ owner \in Users
    /\ MaxRow \in Nat /\ Focus < MaxRow
    /\ PageSize \in Nat \ {0}
    /\ Bounds \subseteq [Uses -> Nat]

VARIABLES
    row,          \* the row of Focus
    present,      \* rows of owner in saved_articles
    saved,        \* rows ever saved
    client,       \* the hook and the screens
    session,      \* the app's start and the token it keeps
    strays,       \* writes the app has given up and the server may serve
    left,         \* what is left of the bounds
    seen          \* a page was mixed in; a late write was served

vars == <<row, present, saved, client, session, strays, left, seen>>
server == <<row, present, saved>>

Init ==
    /\ row \in {[gen |-> 1, res |-> 0, phase |-> "processing", at |-> 1,
                 read |-> "UNREAD", variant |-> NoVariant],
                [gen |-> 1, res |-> 1, phase |-> "done", at |-> 1,
                 read |-> "UNREAD", variant |-> NoVariant]}
    /\ saved = MaxRow - 1
    /\ present = 1 .. saved
    /\ client = Begin(owner, "home", "all")
    /\ session = [boot |-> "ready", token |-> owner]
    /\ strays = {}
    /\ left \in Bounds
    /\ seen = [mixed |-> FALSE, late |-> FALSE]

-----------------------------------------------------------------------------
(* The server.                                                             *)

Exists == Focus \in present

(* The summary workers, as SummaryTasks and SummaryVariants have them.     *)
Summarize(phase) ==
    /\ Exists /\ IsProcessing(row)
    /\ row' = [row EXCEPT !.phase = phase, !.at = @ + 1,
                          !.res = IF phase = "done" THEN row.gen ELSE @]
    /\ UNCHANGED <<present, saved, client, session, strays, left, seen>>

FinishVariant ==
    /\ Exists /\ row.variant.state = "pending"
    /\ row' = [row EXCEPT !.variant.state = "done"]
    /\ UNCHANGED <<present, saved, client, session, strays, left, seen>>

(* findAll with pagination=cursor: the newest rows of the query below the  *)
(* cursor, and where the next page begins if there is one.                 *)
Matches(r, query) ==
    query = "all" \/ (r = Focus => row.read = "UNREAD")

OwnRows(user) == IF user = owner THEN present ELSE {}

Found(user, query, cursor) ==
    Newest({r \in OwnRows(user) : /\ Matches(r, query)
                                  /\ cursor.row # 0 => r < cursor.row})

Page(user, query, cursor) ==
    LET found == Found(user, query, cursor)
    IN  SubSeq(found, 1, IF Len(found) < PageSize THEN Len(found) ELSE PageSize)

NextCursor(user, query, cursor) ==
    IF Len(Found(user, query, cursor)) > PageSize
    THEN [row |-> Page(user, query, cursor)[PageSize], query |-> query]
    ELSE NoCursor

ItemIn(rows) == IF Contains(rows, Focus) THEN ListItem(row) ELSE NoThread

ServeHome ==
    \E h \in client.homes :
        /\ h.on = "sent"
        /\ LET rows == Page(client.account, "all", NoCursor)
           IN  client' = [client EXCEPT !.homes = (@ \ {h}) \cup
                             {[h EXCEPT !.on = "ok", !.rows = rows,
                                        !.item = ItemIn(rows)]}]
        /\ UNCHANGED <<server, session, strays, left, seen>>

(* A cursor of another query is refused.                                   *)
ServePage ==
    \E p \in client.pages :
        /\ p.on = "sent"
        /\ LET rows == Page(client.account, p.query, p.cursor)
               answer ==
                 IF p.cursor # NoCursor /\ p.cursor.query # p.query
                 THEN [p EXCEPT !.on = "refused"]
                 ELSE [p EXCEPT !.on = "ok", !.rows = rows,
                                !.item = ItemIn(rows),
                                !.next = NextCursor(client.account, p.query,
                                                    p.cursor)]
           IN  client' = [client EXCEPT !.pages = (@ \ {p}) \cup {answer}]
        /\ UNCHANGED <<server, session, strays, left, seen>>

(* findOne and getArticleSummaryStatus.                                    *)
ServeDetail ==
    \E d \in client.details :
        /\ d.on = "sent"
        /\ client' = [client EXCEPT !.details = (@ \ {d}) \cup
                         {IF Exists
                          THEN [d EXCEPT !.on = "ok", !.item = DetailItem(row)]
                          ELSE [d EXCEPT !.on = "missing"]}]
        /\ UNCHANGED <<server, session, strays, left, seen>>

ServeStatus ==
    /\ client.status.on = "sent"
    /\ client' = [client EXCEPT !.status =
                     IF Exists THEN [on |-> "ok", item |-> ListItem(row)]
                     ELSE [on |-> "missing", item |-> NoThread]]
    /\ UNCHANGED <<server, session, strays, left, seen>>

(* updateReadStatus.                                                       *)
WriteRead(status) == row' = [row EXCEPT !.read = status, !.at = @ + 1]

ServeRead ==
    /\ client.writes # <<>> /\ client.writes[1].on = "sent"
    /\ IF Exists
       THEN /\ WriteRead(client.writes[1].status)
            /\ client' = [client EXCEPT !.writes[1].on = "ok",
                                        !.writes[1].item = RowItem(row')]
       ELSE /\ client' = [client EXCEPT !.writes[1].on = "missing"]
            /\ UNCHANGED row
    /\ UNCHANGED <<present, saved, session, strays, left, seen>>

(* retryArticleSummary: a known key and a summary that is being made are   *)
(* answered with the row; the quota and the cooldown refuse (429).         *)
StartsGeneration(key) ==
    Exists /\ key # "known" /\ ~IsProcessing(row) /\ row.gen < MaxGeneration

StartGeneration ==
    row' = [row EXCEPT !.gen = @ + 1, !.phase = "processing", !.at = @ + 1]

ServeRetry ==
    /\ client.retry.on = "sent"
    /\ \/ /\ StartsGeneration(client.retryKey)
          /\ StartGeneration
          /\ client' = [client EXCEPT !.retryKey = "known", !.retry =
                           [on |-> "ok", item |-> RowItem(row')]]
       \/ /\ Exists
          /\ client.retryKey = "known" \/ IsProcessing(row)
          /\ client' = [client EXCEPT !.retry =
                           [on |-> "ok", item |-> RowItem(row)]]
          /\ UNCHANGED row
       \/ /\ Exists => client.retryKey # "known" /\ ~IsProcessing(row)
          /\ client' = [client EXCEPT !.retry.on = "refused"]
          /\ UNCHANGED row
    /\ UNCHANGED <<present, saved, session, strays, left, seen>>

(* The variants' request: what there is of this document, or a new task.   *)
MakeVariant ==
    row' = [row EXCEPT !.variant = IF @.src = row.res THEN @
                                   ELSE [src |-> row.res, state |-> "pending"]]

ServeVariant ==
    /\ client.variant.on = "sent"
    /\ IF Exists /\ row.res # 0
       THEN /\ MakeVariant
            /\ client' = [client EXCEPT !.variant =
                             [on |-> "ok", item |-> DetailItem(row')]]
       ELSE /\ client' = [client EXCEPT !.variant.on = "refused"]
            /\ UNCHANGED row
    /\ UNCHANGED <<present, saved, session, strays, left, seen>>

(* create: a new row, or the one that has the link already.                *)
AddRow ==
    /\ saved < MaxRow
    /\ saved' = saved + 1
    /\ present' = present \cup {saved + 1}

ServeSave ==
    /\ client.save.on = "sent"
    /\ \/ /\ client.account = owner
          /\ AddRow
          /\ client' = [client EXCEPT !.save = [on |-> "new", row |-> saved + 1,
                                                item |-> NoThread]]
       \/ /\ client.account = owner /\ Exists
          /\ client' = [client EXCEPT !.save = [on |-> "known", row |-> Focus,
                                                item |-> RowItem(row)]]
          /\ UNCHANGED <<present, saved>>
    /\ UNCHANGED <<row, session, strays, left, seen>>

ServeRemoval ==
    /\ client.removal.on = "sent"
    /\ present' = present \ {Focus}
    /\ client' = [client EXCEPT !.removal.on = IF Exists THEN "ok" ELSE "missing"]
    /\ UNCHANGED <<row, saved, session, strays, left, seen>>

(* A write the app no longer waits for is served all the same.             *)
ServeStray ==
    \E s \in strays :
        /\ strays' = strays \ {s}
        /\ CASE s = "removal" ->
                  present' = present \ {Focus} /\ UNCHANGED <<row, saved>>
             [] s = "save" -> AddRow /\ UNCHANGED row
             [] s = "retry" -> /\ StartsGeneration(client.retryKey)
                               /\ StartGeneration
                               /\ UNCHANGED <<present, saved>>
             [] s = "variant" -> /\ Exists /\ row.res # 0
                                 /\ MakeVariant
                                 /\ UNCHANGED <<present, saved>>
             [] OTHER -> /\ Exists
                         /\ WriteRead(s)
                         /\ UNCHANGED <<present, saved>>
        /\ client' = IF s = "retry" /\ client.retryKey = "unknown"
                     THEN [client EXCEPT !.retryKey = "known"] ELSE client
        /\ seen' = [seen EXCEPT !.late = @ \/ s \in ReadStatus \cup {"retry"}]
        /\ UNCHANGED <<session, left>>

-----------------------------------------------------------------------------
(* The app hears an answer.                                                *)

(* A home list that was refreshed meanwhile is ignored.                    *)
HomeAnswer(h) ==
    LET rest == [client EXCEPT !.homes = @ \ {h}]
    IN  IF ~h.fresh \/ h.on # "ok" THEN rest
        ELSE LET heard == Receive(rest, h.item, h.same)
             IN  Effects([heard EXCEPT !.home = WithoutRemoved(heard, h.rows)])

HearHome ==
    \E h \in client.homes :
        /\ h.on # "sent"
        /\ client' = HomeAnswer(h)
        /\ UNCHANGED <<server, session, strays, left, seen>>

(* Mutant of PageAnswer: the number of the request is not compared.        *)
PageAnswerOfAny(p) ==
    LET heard == Receive([client EXCEPT !.pages = @ \ {p}], p.item, p.same)
        rows == WithoutRemoved(heard, p.rows)
    IN  IF p.on # "ok" THEN heard
        ELSE [heard EXCEPT
                 !.archive = IF p.more THEN AppendUnique(@, rows) ELSE rows,
                 !.cursor = p.next, !.moreBusy = FALSE]
(* So is a page of the archive whose number is not the current one.        *)
PageAnswer(p) ==
    LET rest == [client EXCEPT !.pages = @ \ {p}]
        ended == [rest EXCEPT !.moreBusy = FALSE]
        heard == Receive(ended, p.item, p.same)
        rows == WithoutRemoved(heard, p.rows)
    IN  CASE ~p.fresh -> rest
          [] p.fresh /\ p.on # "ok" -> [ended EXCEPT !.archiveError = TRUE]
          [] OTHER -> Effects([heard EXCEPT
                 !.archive = IF p.more THEN AppendUnique(@, rows) ELSE rows,
                 !.cursor = p.next,
                 !.archiveError = FALSE])

HearPage ==
    \E p \in client.pages :
        /\ p.on # "sent"
        /\ client' = PageAnswer(p)
        /\ seen' = IF p.fresh /\ ~p.more
                   THEN [seen EXCEPT !.mixed = \E q \in client.pages :
                                                  q.fresh /\ q.more]
                   ELSE seen
        /\ UNCHANGED <<server, session, strays, left>>

(* fetchDetail after its await.                                            *)
DetailAnswer(d) ==
    LET rest == [client EXCEPT !.details = @ \ {d}]
    IN  IF d.on = "ok"
        THEN Effects([Receive(rest, d.item, d.same) EXCEPT
                         !.detailError = @ /\ ~client.open])
        ELSE [rest EXCEPT !.removed = @ \/ d.on = "missing",
                          !.detailError = @ \/ client.open]

HearDetail ==
    \E d \in client.details :
        /\ d.on # "sent"
        /\ client' = DetailAnswer(d)
        /\ UNCHANGED <<server, session, strays, left, seen>>

(* fetchStatus after its await: a summary that has ended, or a newer       *)
(* document, is fetched; the poll waits for that too.                      *)
StatusAnswer ==
    LET rest == [client EXCEPT !.status = NoRequest]
        status == client.status.item
        merged == Merge(client.thread, StatusItem(client.thread, status))
        told == [rest EXCEPT !.thread = merged]
    IN  CASE client.status.on = "missing" -> [rest EXCEPT !.removed = TRUE]
          [] client.status.on = "ok" /\ (client.removed \/ ~Known(client.thread))
                -> rest
          [] OTHER -> IF \/ ~IsProcessing(merged)
                         \/ status.res # client.thread.res
                      THEN Effects(FetchDetail(told, FALSE, {"poll"}))
                      ELSE Effects(told)

HearStatus ==
    /\ client.status.on \in {"ok", "missing"}
    /\ client' = StatusAnswer
    /\ UNCHANGED <<server, session, strays, left, seen>>

(* Mutant of ReadAnswer: any answer settles the choice.                    *)
ReadAnswerOfAny(w) ==
    LET next == StartWrite([client EXCEPT !.writes = Tail(@)])
        settled == BumpRead([next EXCEPT !.intent.pending = FALSE])
    IN  IF w.on = "ok" THEN Effects(Receive(settled, w.item, TRUE))
        ELSE FetchDetail(settled, TRUE, {})
(* changeRead after its await.  Only the last choice is settled by its     *)
(* answer; an article that is gone is looked up again.                     *)
ReadAnswer(w) ==
    LET next == StartWrite([client EXCEPT !.writes = Tail(@)])
        settled == BumpRead([next EXCEPT !.intent.pending = FALSE])
    IN  CASE ~w.last -> next
          [] w.last /\ w.on = "ok" -> Effects(Receive(settled, w.item, TRUE))
          [] OTHER -> FetchDetail(settled, TRUE, {})

HearRead ==
    /\ client.writes # <<>> /\ client.writes[1].on \in {"ok", "missing"}
    /\ client' = ReadAnswer(client.writes[1])
    /\ UNCHANGED <<server, session, strays, left, seen>>

(* retry after its await: an answer, good or bad, lets go of the key.      *)
HearRetry ==
    /\ client.retry.on \in {"ok", "refused"}
    /\ client' = Effects(Receive([client EXCEPT !.retry = NoRequest,
                                                !.retryKey = None],
                                 client.retry.item, TRUE))
    /\ strays' = IF client.retry.on = "ok" THEN strays \ {"retry"} ELSE strays
    /\ UNCHANGED <<server, session, left, seen>>

(* requestSummaryDensity after its await.                                  *)
VariantAnswer ==
    LET rest == [client EXCEPT !.variant = NoRequest]
    IN  CASE client.variant.on = "refused" ->
                [rest EXCEPT !.densityError = client.open /\ client.density]
          [] client.variant.on = "ok" /\ ~Known(client.thread) -> rest
          [] OTHER -> Effects([rest EXCEPT
                                 !.thread.variant = client.variant.item.variant])

HearVariant ==
    /\ client.variant.on \in {"ok", "refused"}
    /\ client' = VariantAnswer
    /\ UNCHANGED <<server, session, strays, left, seen>>

(* Mutant of SaveAnswer: the saved article is put on top of a list it may  *)
(* be in.                                                                  *)
SaveAnswerTwice ==
    [Receive([client EXCEPT !.save = NoSave], client.save.item, TRUE)
        EXCEPT !.home = <<client.save.row>> \o @]
(* saveThreadUrl after its await, with acceptCreated.  It can only be      *)
(* asked from the home screen, whose acceptCreated does not refresh the    *)
(* archive.                                                                *)
SaveAnswer ==
    LET heard == Receive([client EXCEPT !.save = NoSave],
                         client.save.item, TRUE)
        top == client.save.row
    IN  Effects([heard EXCEPT
            !.home = <<top>> \o Without(@, {top})])

HearSave ==
    /\ client.save.on \in {"new", "known"}
    /\ client' = SaveAnswer
    /\ UNCHANGED <<server, session, strays, left, seen>>

(* remove after its await.                                                 *)
HearRemoval ==
    /\ client.removal.on \in {"ok", "missing"}
    /\ LET rest == [client EXCEPT !.removal = NoRequest]
           gone == [rest EXCEPT !.removed = TRUE,
                                !.home = Without(@, {Focus}),
                                !.archive = Without(@, {Focus})]
       IN  client' = CASE client.removal.on = "missing" -> rest
                       [] client.removal.on = "ok" /\ client.open -> Close(gone)
                       [] OTHER -> gone
    /\ UNCHANGED <<server, session, strays, left, seen>>

-----------------------------------------------------------------------------
(* No answer comes: the connection fails, or 20 seconds have passed.  The  *)
(* server has served the request, or never will, or, when it is a write,   *)
(* serves it later.                                                        *)

Spend(kind) == left[kind] > 0 /\ left' = [left EXCEPT ![kind] = @ - 1]

Fault == Spend("fault")

MayStray(request, name) ==
    \/ UNCHANGED strays
    \/ request.on = "sent" /\ strays' = strays \cup {name}

LoseHome ==
    /\ Fault
    /\ \E h \in client.homes : client' = [client EXCEPT !.homes = @ \ {h}]
    /\ UNCHANGED <<server, session, strays, seen>>

LosePage ==
    /\ Fault
    /\ \E p \in client.pages :
          client' = IF p.fresh
                    THEN [client EXCEPT !.pages = @ \ {p}, !.moreBusy = FALSE,
                                        !.archiveError = TRUE]
                    ELSE [client EXCEPT !.pages = @ \ {p}]
    /\ UNCHANGED <<server, session, strays, seen>>

LoseDetail ==
    /\ Fault
    /\ \E d \in client.details :
          client' = [client EXCEPT !.details = @ \ {d},
                                   !.detailError = @ \/ client.open]
    /\ UNCHANGED <<server, session, strays, seen>>

LoseStatus ==
    /\ Fault
    /\ client.status.on # "no"
    /\ client' = [client EXCEPT !.status = NoRequest]
    /\ UNCHANGED <<server, session, strays, seen>>

(* The choice stays pending: reconcile will repeat it.                     *)
LoseRead ==
    /\ Fault
    /\ client.writes # <<>>
    /\ client' = StartWrite([client EXCEPT !.writes = Tail(@)])
    /\ MayStray(client.writes[1], client.writes[1].status)
    /\ UNCHANGED <<server, session, seen>>

(* The key is kept for the next attempt.                                   *)
LoseRetry ==
    /\ Fault
    /\ client.retry.on # "no"
    /\ client' = [client EXCEPT !.retry = NoRequest]
    /\ MayStray(client.retry, "retry")
    /\ UNCHANGED <<server, session, seen>>

LoseVariant ==
    /\ Fault
    /\ client.variant.on # "no"
    /\ client' = [client EXCEPT !.variant = NoRequest,
                                !.densityError = client.open /\ client.density]
    /\ MayStray(client.variant, "variant")
    /\ UNCHANGED <<server, session, seen>>

LoseSave ==
    /\ Fault
    /\ client.save.on # "no"
    /\ client' = [client EXCEPT !.save = NoSave]
    /\ MayStray(client.save, "save")
    /\ UNCHANGED <<server, session, seen>>

LoseRemoval ==
    /\ Fault
    /\ client.removal.on # "no"
    /\ client' = [client EXCEPT !.removal = NoRequest]
    /\ MayStray(client.removal, "removal")
    /\ UNCHANGED <<server, session, seen>>

-----------------------------------------------------------------------------
(* What runs by itself.                                                    *)

(* The debounce of the archive's filters.                                  *)
TimerFires ==
    /\ client.timer
    /\ client' = RefreshArchive([client EXCEPT !.timer = FALSE])
    /\ UNCHANGED <<server, session, strays, left, seen>>

(* poll, every 2.5 seconds in the foreground, once the one before it has   *)
(* ended.                                                                  *)
HasPendingVariant == client.thread.variant.state = "pending"

Polled ==
    /\ client.account # None /\ client.active
    /\ Known(client.thread) /\ ~client.removed
    /\ IsProcessing(client.thread) \/ client.thread.stale \/ HasPendingVariant

Poll ==
    /\ Polled
    /\ client.status.on = "no"
    /\ \A d \in client.details : "poll" \notin d.waits
    /\ client' = IF client.thread.stale \/ HasPendingVariant
                 THEN FetchDetail(client, FALSE, {"poll"})
                 ELSE [client EXCEPT !.status.on = "sent"]
    /\ UNCHANGED <<server, session, strays, left, seen>>

(* reconcile, every 15 seconds and on return to the foreground: a choice   *)
(* no write settled is written again.                                      *)
Unsettled ==
    /\ client.account # None /\ client.active
    /\ client.intent.pending /\ client.writes = <<>>
    /\ Known(client.thread) /\ ~client.removed

Reconcile ==
    /\ Unsettled
    /\ client' = Effects(ChangeRead(client, client.intent.status))
    /\ UNCHANGED <<server, session, strays, left, seen>>

-----------------------------------------------------------------------------
(* What the user does.                                                     *)

Tap(kind) == Spend(kind) /\ client.account # None /\ client.active
Quietly == UNCHANGED <<server, session, strays, seen>>

OnScreen(screen) == ~client.open /\ client.screen = screen

(* archiveThreads: the list keeps what the filter on its side admits.      *)
InArchive ==
    /\ Contains(client.archive, Focus)
    /\ client.query = "unread" => client.thread.read = "UNREAD"

OpenFocus ==
    /\ Tap("read")
    /\ Known(client.thread)
    /\ \/ OnScreen("home") /\ Contains(client.home, Focus)
       \/ OnScreen("archive") /\ InArchive
    /\ client' = Open(client)
    /\ Quietly

CloseFocus ==
    /\ client.open /\ client.active
    /\ client' = Close(client)
    /\ UNCHANGED <<server, session, strays, left, seen>>

(* The menu of the detail screen: the other of READ and UNREAD, or later.  *)
MarkRead ==
    /\ Tap("read") /\ client.open /\ Known(client.thread)
    /\ \E status \in {IF client.thread.read = "READ" THEN "UNREAD" ELSE "READ",
                       "READ_LATER"} :
          client' = Effects(ChangeRead([client EXCEPT !.entry = TRUE], status))
    /\ Quietly

RetrySummary ==
    /\ Tap("make") /\ client.open /\ CanRetry(client)
    /\ client' = Retry(client)
    /\ Quietly

ChooseDensity ==
    /\ Tap("make") /\ client.open /\ client.thread.doc # 0
    /\ \/ ~client.density /\ client' = SelectDensity(client)
       \/ client.density /\ client.densityError
          /\ client' = RequestVariant([client EXCEPT !.densityError = FALSE])
    /\ Quietly

ReloadDetail ==
    /\ Tap("read") /\ client.open /\ client.detailError
    /\ client' = FetchDetail(client, TRUE, {})
    /\ Quietly

RemoveFocus ==
    /\ Tap("remove") /\ client.open /\ client.removal.on = "no"
    /\ client' = [client EXCEPT !.removal.on = "sent"]
    /\ Quietly

SaveUrl ==
    /\ Tap("save") /\ OnScreen("home") /\ client.save.on = "no"
    /\ client' = [client EXCEPT !.save.on = "sent"]
    /\ Quietly

PullHome ==
    /\ Tap("list") /\ OnScreen("home")
    /\ client' = RefreshHome(client)
    /\ Quietly

ShowScreen ==
    /\ Tap("list") /\ ~client.open
    /\ \E screen \in {"home", "archive"} \ {client.screen} :
          client' = ResetArchive([client EXCEPT !.screen = screen])
    /\ UNCHANGED <<server, session, strays>>
    /\ seen' = [seen EXCEPT !.mixed = FALSE]

ChangeQuery ==
    /\ Tap("list") /\ OnScreen("archive")
    /\ \E query \in Queries \ {client.query} :
          client' = ResetArchive([client EXCEPT !.query = query])
    /\ UNCHANGED <<server, session, strays>>
    /\ seen' = [seen EXCEPT !.mixed = FALSE]

PullArchive ==
    /\ Tap("list") /\ OnScreen("archive")
    /\ client' = RefreshArchive(client)
    /\ Quietly

(* Both the end of the list and its button ask for more; the button does   *)
(* so while the list is being refreshed.                                   *)
PullMore ==
    /\ Tap("list") /\ OnScreen("archive") /\ CanLoadMore(client)
    /\ client.archiveError => client.archive # <<>>
    /\ client' = LoadMore(client)
    /\ Quietly

Leave ==
    /\ Tap("session")
    /\ client' = Abort(client)
    /\ Quietly

Return ==
    /\ client.account # None /\ ~client.active
    /\ client' = Resume(client)
    /\ UNCHANGED <<server, session, strays, left, seen>>

-----------------------------------------------------------------------------
(* Sessions.  What a session has sent goes on without it.                  *)

Orphans ==
    {w[2] : w \in {v \in {<<client.retry, "retry">>, <<client.variant, "variant">>,
                          <<client.save, "save">>, <<client.removal, "removal">>} :
                   v[1].on = "sent"} \ IF client.retryKey = "known"
                                       THEN {<<client.retry, "retry">>} ELSE {}}
    \cup {client.writes[i].status : i \in {j \in DOMAIN client.writes :
                                            client.writes[j].on = "sent"}}

(* Mutant of StartSession: details in flight are still listened to.        *)
StartSessionListening(user, screen) ==
    /\ client' = [Begin(user, screen, client.query) EXCEPT
                      !.details = client.details]
    /\ strays' = strays \cup Orphans
    /\ seen' = [seen EXCEPT !.mixed = FALSE]
StartSession(user, screen) ==
    /\ client' = Begin(user, screen, client.query)
    /\ strays' = strays \cup Orphans
    /\ seen' = [seen EXCEPT !.mixed = FALSE]

Logout ==
    /\ Tap("session") /\ ~client.open
    /\ StartSession(None, "home")
    /\ session' = [session EXCEPT !.token = None]
    /\ UNCHANGED server

Login ==
    /\ Spend("session")
    /\ client.account = None /\ session.boot = "ready"
    /\ \E user \in Users :
          /\ StartSession(user, "home")
          /\ session' = [session EXCEPT !.token = user]
    /\ UNCHANGED server

(* The process is killed and started again: only the token is kept.        *)
Restart ==
    /\ Spend("session")
    /\ session.boot = "ready"
    /\ session' = [session EXCEPT !.boot = "restoring"]
    /\ client' = Begin(None, "home", "all")
    /\ strays' = strays \cup Orphans
    /\ seen' = [seen EXCEPT !.mixed = FALSE]
    /\ UNCHANGED server

(* restoreSession: the token is good, refused, or could not be asked       *)
(* about; then it is kept for another attempt.                             *)
RestoreSession ==
    /\ session.boot = "restoring"
    /\ \/ /\ session' = [session EXCEPT !.boot = "ready"]
          /\ client' = Begin(session.token, client.screen, client.query)
          /\ UNCHANGED left
       \/ /\ session.token # None /\ Fault
          /\ session' = [boot |-> "ready", token |-> None]
          /\ UNCHANGED client
       \/ /\ session.token # None /\ Fault
          /\ session' = [session EXCEPT !.boot = "failed"]
          /\ UNCHANGED client
    /\ UNCHANGED <<server, strays, seen>>

Reconnect ==
    /\ session.boot = "failed"
    /\ session' = [session EXCEPT !.boot = "restoring"]
    /\ UNCHANGED <<server, client, strays, left, seen>>

-----------------------------------------------------------------------------
Serve ==
    \/ ServeHome \/ ServePage \/ ServeDetail \/ ServeStatus \/ ServeRead
    \/ ServeRetry \/ ServeVariant \/ ServeSave \/ ServeRemoval \/ ServeStray

Hear ==
    \/ HearHome \/ HearPage \/ HearDetail \/ HearStatus \/ HearRead
    \/ HearRetry \/ HearVariant \/ HearSave \/ HearRemoval

Lose ==
    \/ LoseHome \/ LosePage \/ LoseDetail \/ LoseStatus \/ LoseRead
    \/ LoseRetry \/ LoseVariant \/ LoseSave \/ LoseRemoval

User ==
    \/ OpenFocus \/ CloseFocus \/ MarkRead \/ RetrySummary \/ ChooseDensity
    \/ ReloadDetail \/ RemoveFocus \/ SaveUrl \/ PullHome \/ ShowScreen
    \/ ChangeQuery \/ PullArchive \/ PullMore \/ Leave \/ Logout \/ Login
    \/ Restart

Next ==
    \/ \E phase \in {"done", "failed"} : Summarize(phase)
    \/ FinishVariant
    \/ Serve \/ Hear \/ Lose \/ User
    \/ TimerFires \/ Poll \/ Reconcile \/ Return
    \/ RestoreSession \/ Reconnect

Spec == Init /\ [][Next]_vars

-----------------------------------------------------------------------------
(* Properties.                                                             *)

(* The values are in range, and a list shows no article twice.             *)
TypeOK ==
    /\ row \in Rows
    /\ saved \in 0 .. MaxRow /\ present \subseteq 1 .. saved
    /\ client.thread \in Threads
    /\ client.intent.status \in ReadStatus \cup {None}
    /\ client.retryKey \in {None, "unknown", "known"}
    /\ \A d \in client.details : d.waits \subseteq {"open", "poll"}
    /\ Range(client.home) \cup Range(client.archive) \subseteq 1 .. saved
    /\ IsInjective(client.home) /\ IsInjective(client.archive)
    /\ session.token \in Users \cup {None}
    /\ left \in [Uses -> Nat]

(* Nothing of the article is in flight, and nothing will be unless the     *)
(* user asks for it: neither poll nor reconcile has anything to do.        *)
AtRest ==
    /\ client.account = owner /\ client.active
    /\ client.homes = {} /\ client.details = {} /\ client.status.on = "no"
    /\ client.writes = <<>> /\ client.retry.on = "no" /\ client.variant.on = "no"
    /\ client.save.on = "no" /\ client.removal.on = "no"
    /\ strays = {}
    /\ ~Polled /\ ~Unsettled
    /\ Exists /\ Known(client.thread) /\ ~client.removed

(* However taps, the automatic mark, lists, details and failed writes of a *)
(* read status overtake one another, when all is answered the app shows    *)
(* what the database has.  Left out is every history in which a write that *)
(* the app had given up was served all the same, before or after others.   *)
ReadFlagSettles ==
    AtRest /\ ~seen.late => client.thread.read = row.read

(* A document is the one its label, resultGeneration, says; and when all   *)
(* is answered a thread that has been loaded shows the server's last       *)
(* generation, in its state and with its document.  The exceptions are a   *)
(* retry whose outcome the app does not know and one served after it was   *)
(* given up.                                                               *)
DocumentSettles ==
    /\ client.thread.loaded \/ client.thread.doc # 0
         => client.thread.doc = client.thread.res
    /\ AtRest /\ ~seen.late /\ client.thread.loaded /\ client.retryKey = None
         => /\ client.thread.gen = row.gen
            /\ client.thread.phase = row.phase
            /\ client.thread.doc = row.res

(* No late answer takes the app back: within a session neither the         *)
(* generation nor the document shown, nor the row it was read from, is     *)
(* ever replaced by an older one.                                          *)
CacheMovesForward ==
    [][ Known(client.thread) /\ client'.account = client.account
          => /\ client'.thread.gen >= client.thread.gen
             /\ client'.thread.doc >= client.thread.doc
             /\ client'.thread.gen = client.thread.gen
                  => client'.thread.at >= client.thread.at ]_vars

(* Another account, or none, sees nothing of the owner's, whatever was in  *)
(* flight when the owner left.                                             *)
SessionsDoNotMix ==
    client.account # owner
        => /\ ~Known(client.thread)
           /\ client.home = <<>> /\ client.archive = <<>>

(* The archive has no hole: from its first row down to where the next page *)
(* begins, every saved article of the filter that is chosen now is listed. *)
(* Focus, which may come into the filter of the unread while it is listed, *)
(* is left out there.  The exception is a page that was asked for while    *)
(* the list was being refreshed.                                           *)
ArchiveIsContiguous ==
    ~seen.mixed /\ client.archive # <<>>
        => \A r \in present :
             /\ Matches(r, client.query)
             /\ client.query = "unread" => r # Focus
             /\ r <= client.archive[1]
             /\ client.cursor # NoCursor => r >= client.cursor.row
             => Contains(client.archive, r)

(* What the plan of the densities promises: once the chosen density of the *)
(* document on the screen has been made, it is shown by itself.  It is not *)
(* when the answer to a read status, which has no densities, replaces the  *)
(* thread that was waiting for one.                                        *)
ChosenDensityAppears ==
    /\ AtRest
    /\ client.open /\ client.density /\ ~client.densityError
    /\ client.thread.res = row.res
    /\ row.variant = [src |-> row.res, state |-> "done"]
    => client.thread.variant = row.variant
=============================================================================
