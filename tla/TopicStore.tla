----------------------------- MODULE TopicStore -----------------------------
(***************************************************************************)
(* The knowledge topics of one user and the articles in them               *)
(* (readnest-api knowledge.service.ts, and create and remove of            *)
(* articles.service.ts): transactions of several sessions, each of which   *)
(* locks the user's row, reads and decides, writes, and commits.           *)
(*                                                                         *)
(* A topic is [rev, name, text]; rev is its revision, 0 when it does not   *)
(* exist.  Ids of topics and articles are numbers in the order they were   *)
(* created in.  An item is a topic as a client was told of it; it is what  *)
(* a call refers to, by its id and, in an update, its revision.            *)
(***************************************************************************)
EXTENDS Naturals, FiniteSets

CONSTANTS
    Sessions,     \* who calls: devices, and calls given up by them
    NoOne,        \* none of them
    Names,        \* names of topics, as the client sends them
    Key,          \* their keys: names that differ in case have one key
    Texts,        \* descriptions
    MaxTopic,     \* bound: topics ever created
    MaxArticle,   \* bound: articles ever saved
    DailyLimit    \* DAILY_SAVE_LIMIT; 0 is no limit

ASSUME StoreAssumption ==
    /\ DOMAIN Key = Names
    /\ MaxTopic \in Nat /\ MaxArticle \in Nat /\ DailyLimit \in Nat
    /\ Names # {} /\ Texts # {} /\ NoOne \notin Sessions

VARIABLES
    topics,       \* knowledge_topics
    issued,       \* how many topics have been created
    links,        \* topic_articles
    articles,     \* saved_articles
    arrived,      \* how many articles have been saved
    today,        \* those saved since midnight
    lock,         \* the session that holds the user's row, or NoOne
    calls         \* the request of each session

store == <<topics, issued, links, articles, arrived, today, lock, calls>>
tables == <<topics, issued, links, articles, arrived, today>>

TopicIds == 1 .. MaxTopic
ArticleIds == 1 .. MaxArticle

AnyName == CHOOSE n \in Names : TRUE
AnyText == CHOOSE t \in Texts : TRUE

Topics == [rev : Nat, name : Names, text : Texts]
Items == [id : 0 .. MaxTopic, rev : Nat, name : Names, text : Texts]

NoTopic == [rev |-> 0, name |-> AnyName, text |-> AnyText]
NoItem == [id |-> 0, rev |-> 0, name |-> AnyName, text |-> AnyText]

Kinds == {"get", "create", "update", "delete", "link", "unlink", "save", "remove"}
Ops == [kind : Kinds, base : Items, article : 0 .. MaxArticle,
        name : Names, text : Texts]
Hows == {"ok", "missing", "exists", "conflict", "limit", "error"}

Op(kind, base, article, name, text) ==
    [kind |-> kind, base |-> base, article |-> article, name |-> name,
     text |-> text]

NoOp == Op("get", NoItem, 0, AnyName, AnyText)
Idle == [at |-> "idle", op |-> NoOp, writes |-> FALSE, how |-> "ok",
         item |-> NoItem]
Sent(op) == [Idle EXCEPT !.at = "sent", !.op = op]

Calls == [at : {"idle", "sent", "locked", "done"}, op : Ops, writes : BOOLEAN,
          how : Hows, item : Items]

-----------------------------------------------------------------------------
Live == {t \in TopicIds : topics[t].rev # 0}

TopicDto(t) == [id |-> t, rev |-> topics[t].rev, name |-> topics[t].name,
                text |-> topics[t].text]

(* ensureUniqueName, and the unique index of (userId, nameKey).            *)
Taken(name, except) ==
    \E t \in Live \ {except} : Key[topics[t].name] = Key[name]

(* Mutant of IsCurrent: any revision will do.                              *)
IsCurrentOrNot(base) == base.rev <= topics[base.id].rev

(* The revision the client repeats, in the check and in the update's where.*)
IsCurrent(base) == topics[base.id].rev = base.rev

Linked(op) == <<op.base.id, op.article>> \in links

(* ensureDailySaveLimit.                                                   *)
LimitReached == DailyLimit > 0 /\ Cardinality(today) >= DailyLimit

(* What the transaction decides with what it has read: how it ends.        *)
Verdict(op) ==
    CASE op.kind = "create" -> IF Taken(op.name, 0) THEN "exists" ELSE "ok"
      [] op.kind = "save" ->
            IF op.article \notin articles /\ LimitReached THEN "limit" ELSE "ok"
      [] op.kind = "remove" -> IF op.article \in articles THEN "ok" ELSE "missing"
      [] op.kind \in {"delete", "get"} ->
            IF op.base.id \in Live THEN "ok" ELSE "missing"
      [] op.kind \in {"link", "unlink"} ->
            IF op.base.id \in Live /\ op.article \in articles
            THEN "ok" ELSE "missing"
      [] op.kind = "update" ->
            IF op.base.id \notin Live THEN "missing"
            ELSE IF ~IsCurrent(op.base) THEN "conflict"
            ELSE IF Taken(op.name, op.base.id) THEN "exists" ELSE "ok"

(* ... and whether there is anything to write: a repeated link, an update  *)
(* that changes nothing and the save of a known URL change nothing.        *)
Writes(op) ==
    CASE op.kind = "link" -> ~Linked(op)
      [] op.kind = "unlink" -> Linked(op)
      [] op.kind = "save" -> op.article \notin articles
      [] op.kind = "update" -> \/ op.name # topics[op.base.id].name
                               \/ op.text # topics[op.base.id].text
      [] OTHER -> op.kind # "get"

-----------------------------------------------------------------------------
(* A transaction.                                                          *)

(* Mutant of MayLock: nobody waits for the user's row.                     *)
MayLockAtOnce(s) == calls[s].at = "sent"

(* requireUser: SELECT ... FOR UPDATE of the user's row.                   *)
MayLock(s) == calls[s].at = "sent" /\ lock = NoOne

Lock(s) ==
    /\ MayLock(s) /\ calls[s].op.kind # "get"
    /\ lock' = s
    /\ calls' = [calls EXCEPT
                    ![s].at = "locked",
                    ![s].how = Verdict(calls[s].op),
                    ![s].writes = /\ Verdict(calls[s].op) = "ok"
                                  /\ Writes(calls[s].op)]
    /\ UNCHANGED tables

(* The answer.  The row's lock goes with the transaction.                  *)
Answer(s, how, item) ==
    /\ calls' = [calls EXCEPT ![s].at = "done", ![s].how = how,
                              ![s].writes = FALSE, ![s].item = item]
    /\ lock' = NoOne

Writing(s, kinds) ==
    /\ calls[s].at = "locked" /\ calls[s].writes
    /\ calls[s].op.kind \in kinds

CreateTopic(s) ==
    /\ Writing(s, {"create"}) /\ issued < MaxTopic
    /\ LET op == calls[s].op
           new == [rev |-> 1, name |-> op.name, text |-> op.text]
       IN  IF Taken(op.name, 0)
           THEN Answer(s, "error", NoItem) /\ UNCHANGED <<topics, issued>>
           ELSE /\ issued' = issued + 1
                /\ topics' = [topics EXCEPT ![issued + 1] = new]
                /\ Answer(s, "ok", [id |-> issued + 1, rev |-> 1,
                                    name |-> op.name, text |-> op.text])
    /\ UNCHANGED <<links, articles, arrived, today>>

UpdateTopic(s) ==
    /\ Writing(s, {"update"})
    /\ LET op == calls[s].op
           id == op.base.id
           new == [rev |-> topics[id].rev + 1, name |-> op.name,
                   text |-> op.text]
       IN  CASE id \notin Live \/ ~IsCurrent(op.base) ->
                   Answer(s, "conflict", NoItem) /\ UNCHANGED topics
             [] id \in Live /\ IsCurrent(op.base) /\ Taken(op.name, id) ->
                   Answer(s, "error", NoItem) /\ UNCHANGED topics
             [] OTHER -> /\ topics' = [topics EXCEPT ![id] = new]
                         /\ Answer(s, "ok", [id |-> id, rev |-> new.rev,
                                             name |-> new.name,
                                             text |-> new.text])
    /\ UNCHANGED <<issued, links, articles, arrived, today>>

(* The memberships of the topic go with it, its articles stay.             *)
DeleteTopic(s) ==
    /\ Writing(s, {"delete"})
    /\ topics' = [topics EXCEPT ![calls[s].op.base.id] = NoTopic]
    /\ links' = {l \in links : l[1] # calls[s].op.base.id}
    /\ Answer(s, "ok", NoItem)
    /\ UNCHANGED <<issued, articles, arrived, today>>

(* setMembership, when it changes something.                               *)
SetMembership(s) ==
    /\ Writing(s, {"link", "unlink"})
    /\ LET op == calls[s].op
           id == op.base.id
           pair == <<id, op.article>>
       IN  IF id \in Live /\ op.article \in articles
           THEN /\ links' = IF op.kind = "link" THEN links \cup {pair}
                            ELSE links \ {pair}
                /\ topics' = [topics EXCEPT ![id].rev = @ + 1]
                /\ Answer(s, "ok", [TopicDto(id) EXCEPT !.rev = @ + 1])
           ELSE Answer(s, "error", NoItem) /\ UNCHANGED <<links, topics>>
    /\ UNCHANGED <<issued, articles, arrived, today>>

(* ArticlesService.create of a new URL.                                    *)
SaveArticle(s) ==
    /\ Writing(s, {"save"}) /\ arrived < MaxArticle
    /\ arrived' = arrived + 1
    /\ articles' = articles \cup {arrived + 1}
    /\ today' = today \cup {arrived + 1}
    /\ Answer(s, "ok", NoItem)
    /\ UNCHANGED <<topics, issued, links>>

(* ArticlesService.remove: the topics that had the article get a new       *)
(* revision, their memberships of it are deleted.                          *)
RemoveArticle(s) ==
    /\ Writing(s, {"remove"})
    /\ LET a == calls[s].op.article
       IN  /\ topics' = [t \in TopicIds |->
                            IF <<t, a>> \in links
                            THEN [topics[t] EXCEPT !.rev = @ + 1]
                            ELSE topics[t]]
           /\ links' = {l \in links : l[2] # a}
           /\ articles' = articles \ {a}
           /\ today' = today \ {a}
    /\ Answer(s, "ok", NoItem)
    /\ UNCHANGED <<issued, arrived>>

(* A transaction that was refused, or has nothing to write.                *)
CommitNothing(s) ==
    /\ calls[s].at = "locked" /\ ~calls[s].writes
    /\ Answer(s, calls[s].how,
              IF calls[s].how = "ok" /\ calls[s].op.base.id \in Live
              THEN TopicDto(calls[s].op.base.id) ELSE NoItem)
    /\ UNCHANGED tables

(* The database or the process fails: the transaction is rolled back.      *)
RollBack(s) ==
    /\ calls[s].at = "locked"
    /\ Answer(s, "error", NoItem)
    /\ UNCHANGED tables

(* getTopic takes no lock.                                                 *)
GetTopic(s) ==
    /\ calls[s].at = "sent" /\ calls[s].op.kind = "get"
    /\ LET id == calls[s].op.base.id
       IN  calls' = [calls EXCEPT
                        ![s].at = "done",
                        ![s].how = IF id \in Live THEN "ok" ELSE "missing",
                        ![s].item = IF id \in Live THEN TopicDto(id) ELSE NoItem]
    /\ UNCHANGED <<tables, lock>>

(* Midnight, in the calendar of the product.                               *)
NewDay ==
    /\ today # {}
    /\ today' = {}
    /\ UNCHANGED <<topics, issued, links, articles, arrived, lock, calls>>

Commit(s) ==
    \/ CreateTopic(s) \/ UpdateTopic(s) \/ DeleteTopic(s) \/ SetMembership(s)
    \/ SaveArticle(s) \/ RemoveArticle(s) \/ CommitNothing(s)

Execute(s) == Lock(s) \/ Commit(s) \/ GetTopic(s)

-----------------------------------------------------------------------------
(* Any clients: what a session sends refers to a topic as it was answered  *)
(* once.  The store alone, for the proofs.                                 *)

Genuine(item) ==
    /\ item.id <= issued
    /\ item.id \in Live =>
         /\ item.rev <= topics[item.id].rev
         /\ topics[item.id].rev = item.rev =>
              topics[item.id].name = item.name /\ topics[item.id].text = item.text

(* However transactions interleave, the tables stay sound: names differ by *)
(* their keys, memberships have both their rows, and no more articles were *)
(* saved today than the limit allows.                                      *)
StoreIsSound ==
    /\ topics \in [TopicIds -> Topics] /\ issued \in 0 .. MaxTopic
    /\ links \subseteq Live \X articles
    /\ articles \subseteq 1 .. arrived /\ arrived \in 0 .. MaxArticle
    /\ today \subseteq articles
    /\ calls \in [Sessions -> Calls]
    /\ Live \subseteq 1 .. issued
    /\ \A t, u \in Live : Key[topics[t].name] = Key[topics[u].name] => t = u
    /\ DailyLimit > 0 => Cardinality(today) <= DailyLimit

(* What a client turns to: nothing, or a call about such a topic.          *)
NewCalls == {Idle} \cup {Sent(op) : op \in {o \in Ops : Genuine(o.base)}}

(* The store is new or has been in use.                                    *)
StoreInit == StoreIsSound /\ lock = NoOne /\ \A s \in Sessions : calls[s] \in NewCalls

(* A call that was answered, or never arrives, is followed by another.     *)
Send(s) ==
    /\ calls[s].at # "locked"
    /\ \E call \in NewCalls : calls' = [calls EXCEPT ![s] = call]
    /\ UNCHANGED <<tables, lock>>

(* A client gives its call up, which goes on as the call of r.             *)
GiveUp(s, r) ==
    /\ calls[s].at \in {"sent", "locked"}
    /\ calls[r].at \in {"idle", "done"}
    /\ \E call \in NewCalls :
         calls' = [calls EXCEPT ![r] = calls[s], ![s] = call]
    /\ lock' = IF lock = s THEN r ELSE lock
    /\ UNCHANGED tables

StoreNext ==
    \/ \E s \in Sessions : Send(s) \/ Execute(s) \/ RollBack(s)
    \/ \E s, r \in Sessions : GiveUp(s, r)
    \/ NewDay

StoreSpec == StoreInit /\ [][StoreNext]_store

-----------------------------------------------------------------------------
(* No update is lost: whoever renames or describes a topic replaces the    *)
(* name and the description that the editor showed, whatever other devices *)
(* did meanwhile.                                                          *)
EditsReplaceWhatWasSeen ==
    [][ \A t \in TopicIds :
          /\ topics[t].rev # 0 /\ topics'[t].rev # 0
          /\ <<topics[t].name, topics[t].text>>
               # <<topics'[t].name, topics'[t].text>>
          => \E s \in Sessions :
               /\ calls[s].op.kind = "update" /\ calls[s].op.base.id = t
               /\ calls'[s] # calls[s]
               /\ calls[s].op.base.name = topics[t].name
               /\ calls[s].op.base.text = topics[t].text ]_store
=============================================================================
