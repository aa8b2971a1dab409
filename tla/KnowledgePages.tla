--------------------------- MODULE KnowledgePages ---------------------------
(***************************************************************************)
(* The lists of topics and of their articles: what the API answers         *)
(* (listTopics, listArticleTopics and listTopicArticles of knowledge.      *)
(* service.ts, findAll of articles.service.ts) and what the app makes of   *)
(* the answers (useKnowledgePage of useKnowledgeLibrary.ts), as functions  *)
(* of one record, the state of a list.                                     *)
(*                                                                         *)
(* The number a request has is kept as fresh: it is the last one of its    *)
(* list, and was not aborted.  Of those that were, the latest is kept (a   *)
(* bound).  A cursor is the id of the last row before it, 0 is none.       *)
(***************************************************************************)
EXTENDS TopicStore, Listing, SequencesExt

CONSTANTS
    Says,         \* what the title and the summary of an article say
    PageSize      \* rows of an answer

ASSUME PagesAssumption ==
    /\ Says \in [ArticleIds -> Texts]
    /\ PageSize \in Nat \ {0}

(* What a list is a list of: topics, saved articles, or a topic's; and the *)
(* search.  NoScope is a list that is not shown.                           *)
Scope(of, topic, query) == [of |-> of, topic |-> topic, query |-> query]
NoScope == Scope("nothing", 0, "")

-----------------------------------------------------------------------------
(* The API.                                                                *)

TopicSays(t, query) ==
    query \in {"", topics[t].name, topics[t].text}

(* The search, of topics by name and description, of articles by title,    *)
(* summary and URL.                                                        *)
Rows(scope) ==
    CASE scope.of = "topics" -> {t \in Live : TopicSays(t, scope.query)}
      [] scope.of = "articles" ->
            {a \in articles : scope.query \in {"", Says[a]}}
      [] scope.of = "topic" ->
            {a \in articles : /\ <<scope.topic, a>> \in links
                              /\ scope.query \in {"", Says[a]}}
      [] OTHER -> {}

TopicsOf(a) == {t \in Live : <<t, a>> \in links}

(* The rows below the cursor, the newest first.                            *)
Below(ids, cursor) ==
    Newest({x \in ids : cursor # 0 => x < cursor})

PageOf(ids, cursor) ==
    LET found == Below(ids, cursor)
    IN  SubSeq(found, 1, IF Len(found) < PageSize THEN Len(found) ELSE PageSize)

(* nextCursor: the row after the page was read to know if there is one.    *)
NextOf(ids, cursor) ==
    IF Len(Below(ids, cursor)) > PageSize
    THEN PageOf(ids, cursor)[PageSize] ELSE 0

(* topicDto, or the public fields of an article, of which the id is kept.  *)
ItemOf(scope, x) ==
    IF scope.of = "topics" THEN TopicDto(x) ELSE [NoItem EXCEPT !.id = x]

Reply(r) ==
    IF r.scope.of = "topic" /\ r.scope.topic \notin Live
    THEN [r EXCEPT !.on = "missing"]
    ELSE LET rows == PageOf(Rows(r.scope), r.cursor)
         IN  [r EXCEPT !.on = "ok",
                       !.items = [i \in DOMAIN rows |-> ItemOf(r.scope, rows[i])],
                       !.next = NextOf(Rows(r.scope), r.cursor)]

-----------------------------------------------------------------------------
(* useKnowledgePage.                                                       *)

NoPage == [scope |-> NoScope, items |-> <<>>, cursor |-> 0, failed |-> FALSE,
           reqs |-> {}]

Running(p) == \E r \in p.reqs : r.fresh

(* The request before, aborted, and its number out of date.                *)
Superseded(p) ==
    IF Running(p) THEN {[r EXCEPT !.fresh = FALSE] : r \in {q \in p.reqs : q.fresh}}
    ELSE p.reqs

Ask(scope, cursor) ==
    [fresh |-> TRUE, scope |-> scope, cursor |-> cursor, on |-> "sent",
     items |-> <<>>, next |-> 0]

(* load, up to its await.                                                  *)
Load(p, scope, cursor) ==
    IF cursor # 0 /\ Running(p) THEN p
    ELSE [scope |-> scope,
          items |-> IF cursor # 0 /\ p.scope = scope THEN p.items ELSE <<>>,
          cursor |-> cursor,
          failed |-> FALSE,
          reqs |-> Superseded(p) \cup {Ask(scope, cursor)}]

Reload(p) == IF p.scope = NoScope THEN p ELSE Load(p, p.scope, 0)

(* The effect: its cleanup stops the list it was for, then it loads the    *)
(* new one, if that is enabled.                                            *)
Follow(p, scope) ==
    CASE p.scope = scope -> p
      [] p.scope # scope /\ scope = NoScope ->
            [NoPage EXCEPT !.reqs = Superseded(p)]
      [] OTHER -> Load(p, scope, 0)

(* ListStatus: what can be asked of the list.                              *)
CanLoadMore(p) == ~Running(p) /\ ~p.failed /\ p.cursor # 0
CanRetry(p) == p.failed

(* The items of both by their ids: the place of the first, the value of    *)
(* the last.                                                               *)
MergeItems(old, new) ==
    LET of(id) == CHOOSE n \in Range(new) : n.id = id
        in(s, id) == \E x \in Range(s) : x.id = id
    IN  [i \in DOMAIN old |-> IF in(new, old[i].id) THEN of(old[i].id) ELSE old[i]]
        \o Without(new, {x \in Range(new) : in(old, x.id)})

(* Mutant of Counts: only the scope is compared.                           *)
CountsIfSameScope(p, r) == r.scope = p.scope

(* An answer counts for the last request and the list it was for.          *)
Counts(p, r) == r.fresh /\ r.scope = p.scope

Take(p, r) ==
    LET rest == [p EXCEPT !.reqs = @ \ {r}]
    IN  CASE ~Counts(p, r) -> rest
          [] Counts(p, r) /\ r.on = "ok" ->
                [rest EXCEPT !.items = IF r.cursor # 0
                                       THEN MergeItems(p.items, r.items)
                                       ELSE r.items,
                             !.cursor = r.next,
                             !.failed = FALSE]
          [] OTHER -> [rest EXCEPT !.failed = TRUE]
=============================================================================
