---------------------------- MODULE ArticleItems ----------------------------
(***************************************************************************)
(* What the API says of one saved article and how the app combines what it *)
(* hears (readnest-api articles.service.ts, summary.service.ts;            *)
(* readnest-mobile articleMapper.ts, articleState.ts).                     *)
(*                                                                         *)
(* A row of the database is                                                *)
(*   gen      generation of the summary asked for last                     *)
(*   res      generation of the document it has, 0 for none                *)
(*   phase    processStatus: "processing", "done" or "failed"              *)
(*   at       updatedAt; every update of the row moves it                  *)
(*   read     readStatus                                                   *)
(*   variant  the alternative density: the document it was made from and   *)
(*            its state; src = 0 when there is none                        *)
(* A thread is what the app keeps of the row.  doc is the document in it   *)
(* (0 when it has none), loaded is detailLoaded, stale is documentStale.   *)
(***************************************************************************)
EXTENDS Naturals

CONSTANT MaxGeneration    \* bound: summaries asked for, the first included

ASSUME GenerationAssumption == MaxGeneration \in Nat \ {0}

ReadStatus == {"UNREAD", "READ", "READ_LATER"}
Phases == {"processing", "done", "failed"}
Generations == 1 .. MaxGeneration
Documents == 0 .. MaxGeneration

NoVariant == [src |-> 0, state |-> "none"]
Variants == {NoVariant} \cup [src : Generations, state : {"pending", "done"}]

Rows == [gen : Generations, res : Documents, phase : Phases, at : Nat,
         read : ReadStatus, variant : Variants]

Threads == [gen : Documents, res : Documents, phase : Phases, at : Nat,
            read : ReadStatus, loaded : BOOLEAN, doc : Documents,
            stale : BOOLEAN, variant : Variants]

(* No entry in the cache.  Generations begin with 1.                       *)
NoThread == [gen |-> 0, res |-> 0, phase |-> "processing", at |-> 0,
             read |-> "UNREAD", loaded |-> FALSE, doc |-> 0, stale |-> FALSE,
             variant |-> NoVariant]
Known(t) == t.gen # 0

IsProcessing(t) == t.phase = "processing"

-----------------------------------------------------------------------------
(* The answers of the API, as mapArticleToThread turns them into threads.  *)

(* An item of a list: articleListSelect has no document.                   *)
ListItem(r) ==
    [gen |-> r.gen, res |-> r.res, phase |-> r.phase, at |-> r.at,
     read |-> r.read, loaded |-> FALSE, doc |-> 0, stale |-> FALSE,
     variant |-> NoVariant]

(* The answer to a write is the row itself: it has the document and not    *)
(* the other densities, which are in a table of their own.                 *)
RowItem(r) == [ListItem(r) EXCEPT !.loaded = TRUE, !.doc = r.res]

(* findOne adds the variants made from the document it returns.            *)
DetailItem(r) ==
    [RowItem(r) EXCEPT
        !.variant = IF r.res # 0 /\ r.variant.src = r.res
                    THEN r.variant ELSE NoVariant]

-----------------------------------------------------------------------------
(* Mutant of IsOlder: generations are compared, rows of one are not.       *)
IsOlderGeneration(incoming, current) == incoming.gen < current.gen

(* mergeThread: an older generation, or an older row of the generation,    *)
(* changes nothing; what came without a document keeps the document that   *)
(* is there, and marks it stale when there is a newer one to fetch.        *)
IsOlder(incoming, current) ==
    \/ incoming.gen < current.gen
    \/ incoming.gen = current.gen /\ incoming.at < current.at

(* Mutant of KeepDocument: a newer document is not noticed.                *)
KeepDocumentFresh(current, incoming) ==
    [incoming EXCEPT
        !.loaded = TRUE,
        !.res = current.res,
        !.doc = current.doc,
        !.variant = current.variant,
        !.stale = current.stale]

KeepDocument(current, incoming) ==
    [incoming EXCEPT
        !.loaded = TRUE,
        !.res = current.res,
        !.doc = current.doc,
        !.variant = current.variant,
        !.stale = current.stale \/ incoming.res > current.res]

Merge(current, incoming) ==
    CASE ~Known(current) -> incoming
      [] Known(current) /\ IsOlder(incoming, current) -> current
      [] OTHER -> IF ~incoming.loaded /\ (current.loaded \/ current.doc # 0)
                  THEN KeepDocument(current, incoming)
                  ELSE incoming

(* fetchStatus: the fields of the status over those of the thread, not     *)
(* loaded.  readStatus is not among them.                                  *)
StatusItem(current, status) ==
    [current EXCEPT !.gen = status.gen, !.res = status.res,
                    !.phase = status.phase, !.at = status.at,
                    !.loaded = FALSE]
=============================================================================
