---------------------------- MODULE ArticleClient ---------------------------
(***************************************************************************)
(* The app's side of the article library (readnest-mobile                  *)
(* useArticleLibrary.ts, with the parts of App.tsx and                     *)
(* ThreadDetailScreen.tsx that call it) as functions of one record, the    *)
(* state of the hook and of the screens.  ArticleLibrary turns them into   *)
(* steps.  One article, Focus, is followed in full; of the others the      *)
(* library keeps their place in the lists.                                 *)
(*                                                                         *)
(* The numbers the hook compares are kept as what the comparison says.     *)
(* An epoch or a session that is over has no requests: GETs are aborted,   *)
(* other answers find isActive false.  fresh on a list request says its    *)
(* number is the current one, last on a write that no later write of the   *)
(* article was asked for, same on a GET that readRevision did not change   *)
(* since it was sent.  A request is "sent" until the server has served it, *)
(* then "ok" or "missing" (404).                                           *)
(***************************************************************************)
EXTENDS ArticleItems, Listing, SequencesExt

CONSTANTS
    Focus,      \* the article followed
    Queries,    \* the archive's filters; "all" and "unread"
    Users       \* accounts of this device

ASSUME FocusAssumption == Focus \in Nat \ {0}
ASSUME QueriesAssumption == Queries \subseteq {"all", "unread"}

None == "none"

ASSUME UsersAssumption == None \notin Users

NoCursor == [row |-> 0, query |-> "all"]
NoRequest == [on |-> "no", item |-> NoThread]
NoSave == [on |-> "no", row |-> 0, item |-> NoThread]
NoIntent == [status |-> None, pending |-> FALSE]

(* The hook after its reset: no session's data, no request.                *)
Fresh(user, screen, query) ==
    [account |-> user, active |-> TRUE, screen |-> screen, query |-> query,
     \* the cache, removed and readIntents
     thread |-> NoThread, removed |-> FALSE, intent |-> NoIntent,
     \* the lists
     home |-> <<>>, archive |-> <<>>, cursor |-> NoCursor, moreBusy |-> FALSE,
     archiveError |-> FALSE, timer |-> FALSE,
     \* the detail screen
     open |-> FALSE, detailError |-> FALSE, entry |-> FALSE,
     density |-> FALSE, densityError |-> FALSE,
     \* retryKeys: none, unknown to the server, or known to it
     retryKey |-> None,
     \* requests in flight
     homes |-> {}, pages |-> {}, details |-> {}, status |-> NoRequest,
     writes |-> <<>>, retry |-> NoRequest, variant |-> NoRequest,
     save |-> NoSave, removal |-> NoRequest]

-----------------------------------------------------------------------------
(* receive: one article of an answer.  The user's choice overrides what    *)
(* the answer says when it is not saved yet or was made since the request. *)
Receive(c, item, same) ==
    IF c.removed \/ ~Known(item) THEN c
    ELSE LET merged == Merge(c.thread, item)
             override == c.intent # NoIntent /\ (c.intent.pending \/ ~same)
         IN  [c EXCEPT !.thread = IF override
                                  THEN [merged EXCEPT !.read = c.intent.status]
                                  ELSE merged]

(* fetchDetail: joins the request that is in the map unless forced; waits  *)
(* is who awaits the task.                                                 *)
FetchDetail(c, force, waits) ==
    LET mapped == {d \in c.details : d.mapped}
    IN  CASE c.account = None \/ c.removed -> c
          [] c.account # None /\ ~c.removed /\ ~force /\ mapped # {} ->
                [c EXCEPT !.details =
                    (@ \ mapped) \cup
                    {[d EXCEPT !.waits = @ \cup waits] : d \in mapped}]
          [] OTHER ->
                [c EXCEPT !.details =
                    {[d EXCEPT !.mapped = FALSE] : d \in @} \cup
                    {[mapped |-> TRUE, waits |-> waits, same |-> TRUE,
                      on |-> "sent", item |-> NoThread]}]

(* bumpRead: what was asked before is no longer of the current revision.   *)
BumpRead(c) ==
    [c EXCEPT !.homes = {[h EXCEPT !.same = FALSE] : h \in @},
              !.pages = {[p EXCEPT !.same = FALSE] : p \in @},
              !.details = {[d EXCEPT !.same = FALSE] : d \in @}]

(* createReadWriteQueue: the next write starts when the one before it has  *)
(* settled.  Those of a removed article end without being sent.            *)
StartWrite(c) ==
    CASE c.writes = <<>> -> c
      [] c.writes # <<>> /\ c.removed -> [c EXCEPT !.writes = <<>>]
      [] OTHER -> IF c.writes[1].on = "queued"
                  THEN [c EXCEPT !.writes[1].on = "sent"] ELSE c

(* changeRead, up to its await: the choice is shown at once and queued.    *)
ChangeRead(c, status) ==
    IF c.account = None THEN c
    ELSE StartWrite(
        [BumpRead(c) EXCEPT
            !.intent = [status |-> status, pending |-> TRUE],
            !.thread.read = IF Known(c.thread) THEN status ELSE @,
            !.writes = Append([i \in DOMAIN @ |-> [@[i] EXCEPT !.last = FALSE]],
                              [status |-> status, last |-> TRUE,
                               on |-> "queued", item |-> NoThread])])

(* The first text of a visit marks an unread article read, once, unless    *)
(* the user has marked it.                                                 *)
AutoRead(c) ==
    IF c.open /\ c.thread.doc # 0 /\ ~c.entry
    THEN LET seen == [c EXCEPT !.entry = TRUE]
         IN  IF c.thread.read = "UNREAD" THEN ChangeRead(seen, "READ") ELSE seen
    ELSE c

(* The effect on the selected thread: a stale document is fetched.         *)
FetchStale(c) ==
    IF c.open /\ c.thread.stale THEN FetchDetail(c, FALSE, {}) ELSE c

(* What runs by itself when the cache or the selection has changed.        *)
Effects(c) == FetchStale(AutoRead(c))

-----------------------------------------------------------------------------
(* refreshHome and refreshArchive, up to their awaits.                     *)
RefreshHome(c) ==
    IF c.account = None THEN c
    ELSE [c EXCEPT !.homes =
            {[h EXCEPT !.fresh = FALSE] : h \in @} \cup
            {[fresh |-> TRUE, same |-> TRUE, on |-> "sent",
              rows |-> <<>>, item |-> NoThread]}]

PageRequest(c, more) ==
    [fresh |-> TRUE, more |-> more, query |-> c.query,
     cursor |-> IF more THEN c.cursor ELSE NoCursor,
     same |-> TRUE, on |-> "sent", rows |-> <<>>, item |-> NoThread,
     next |-> NoCursor]

RefreshArchive(c) ==
    IF c.account = None THEN c
    ELSE [c EXCEPT !.archiveError = FALSE,
                   !.pages = {[p EXCEPT !.fresh = FALSE] : p \in @}
                             \cup {PageRequest(c, FALSE)}]

CanLoadMore(c) ==
    c.account # None /\ ~c.moreBusy /\ c.cursor # NoCursor

(* The next page has the number of the refresh before it.                  *)
LoadMore(c) ==
    [c EXCEPT !.moreBusy = TRUE, !.pages = @ \cup {PageRequest(c, TRUE)}]

(* The effect on the screen, the filters and the token: the list is        *)
(* emptied, what is in flight is out of date and, on the archive, a first  *)
(* page is asked for when typing has paused.                               *)
ResetArchive(c) ==
    [c EXCEPT !.pages = {[p EXCEPT !.fresh = FALSE] : p \in @},
              !.cursor = NoCursor, !.moreBusy = FALSE, !.archive = <<>>,
              !.archiveError = FALSE,
              !.timer = c.account # None /\ c.screen = "archive"]

(* The effect on the token.  App keeps its screen, except at a new login.  *)
Begin(user, screen, query) ==
    RefreshHome(ResetArchive(Fresh(user, screen, query)))

-----------------------------------------------------------------------------
(* Every controller is aborted when the app leaves the foreground: the     *)
(* requests that have one end without an answer.                           *)
Abort(c) ==
    [c EXCEPT !.active = FALSE, !.homes = {}, !.details = {},
              !.status = NoRequest, !.pages = {},
              !.moreBusy = IF \E p \in c.pages : p.fresh THEN FALSE ELSE @]

(* Back in the foreground: the lists and the open article are read again.  *)
(* (poll and reconcile run too: they are steps of their own, enabled from  *)
(* here on.)                                                               *)
Resume(c) ==
    LET lists == IF c.screen = "archive"
                 THEN RefreshArchive(RefreshHome(c)) ELSE RefreshHome(c)
        shown == [lists EXCEPT !.active = TRUE]
    IN  IF c.open THEN FetchDetail(shown, FALSE, {}) ELSE shown

(* open: a new visit.  The detail screen is mounted anew.                  *)
Open(c) ==
    LET visit == [c EXCEPT !.open = TRUE, !.entry = FALSE, !.detailError = FALSE,
                           !.density = FALSE, !.densityError = FALSE]
        asked == FetchDetail(visit, FALSE,
                             IF c.thread.loaded THEN {} ELSE {"open"})
    IN  Effects(asked)

Close(c) ==
    [c EXCEPT !.open = FALSE, !.density = FALSE, !.densityError = FALSE,
              !.details = {[d EXCEPT !.waits = @ \ {"open"}] : d \in @}]

(* detailLoading: open still awaits the first document.                    *)
DetailLoading(c) == \E d \in c.details : "open" \in d.waits

(* retryDisabled of the detail screen and the guard of retry.              *)
CanRetry(c) ==
    /\ c.account # None
    /\ c.retry.on = "no"
    /\ ~IsProcessing(c.thread)
    /\ ~DetailLoading(c)
    /\ ~c.detailError

(* retry, up to its await: an uncertain request is repeated under its key. *)
Retry(c) ==
    [c EXCEPT !.retry.on = "sent",
              !.retryKey = IF @ = None THEN "unknown" ELSE @]

(* requestSummaryDensity, up to its await.  Any pending or finished        *)
(* variant in the cache answers for it.                                    *)
RequestVariant(c) ==
    IF c.account = None \/ c.variant.on # "no" \/ c.thread.variant # NoVariant
    THEN c
    ELSE [c EXCEPT !.variant.on = "sent", !.densityError = FALSE]

(* selectDensity: a density this document does not have is asked for.      *)
SelectDensity(c) ==
    LET chosen == [c EXCEPT !.density = TRUE, !.densityError = FALSE]
    IN  IF c.thread.variant.src = c.thread.res /\ c.thread.res # 0
        THEN chosen ELSE RequestVariant(chosen)

(* appendUniqueIds.                                                        *)
AppendUnique(current, rows) ==
    current \o Without(rows, Range(current))

WithoutRemoved(c, rows) ==
    IF c.removed THEN Without(rows, {Focus}) ELSE rows
=============================================================================
