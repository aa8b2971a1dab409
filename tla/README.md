# ReadNest, specified in TLA+

ReadNest saves web articles for a user, summarises them in the background with
an AI provider, classifies them into topics, and shows them in a mobile client.
The API is a NestJS program over MySQL (Prisma) and Redis (BullMQ); several
processes of it may run at once. The client is a React Native program that
polls. This directory models the parts of both whose correctness depends on the
order in which things happen. Paths below are relative to `src/`; `api/` stands
for `readnest-api/src/` and `mobile/` for `readnest-mobile/src/`.

## 1. Inventory

### 1.1 Components, state and operations

| component | code | state it keeps | operations that change it |
| --- | --- | --- | --- |
| SummaryTasks | `api/summary/summary-job.service.ts`, `summary.processor.ts`, `summary-errors.ts` | `summary_tasks` rows (state, attempts, notBefore, leaseToken, leaseExpiresAt, result), the processing columns of `saved_articles`, BullMQ jobs named after tasks, `pendingEnqueue` | dispatch (reclaim lapsed leases, enqueue due tasks), claim, heartbeat, stage, checkpoint, complete, fail |
| SummaryRequests | `api/summary/summary.service.ts` | retryCount, retryWindowStartedAt, retryAt, generation of an article; requestKey of a task | retryArticleSummary |
| ArticleSaving | `api/articles/articles.service.ts`, `utils/*.ts` | `saved_articles` rows | create (deduplicate, daily limit, restore), remove, updateReadStatus; findAll and getHome only read |
| SummaryVariants | `api/summary/summary-variant*.ts` | `summary_variants`, `summary_variant_tasks` | request, dispatch, claim, heartbeat, checkpoint, complete, fail |
| QueueSafety | `api/queue/queue-safety.service.ts`, `quota-aware-worker.host.ts` | stopped and demand flags, idle timers, sleeping and active workers, a version per worker | watchQueue, startWorker, wakeWorker, withProcessing, enqueue, reportError, shutdown |
| Classification | `api/knowledge/classification.service.ts` | `article_classifications` rows with their lease and attempts, topic memberships | schedule, scan, dispatch, process, edit, retry, reclaimInterrupted |
| KnowledgeTopics | `api/knowledge/knowledge.service.ts` | topics with a revision, memberships | createTopic, updateTopic, deleteTopic, setMembership |
| ThreadDetection | `api/summary/thread-detection.service.ts` | none at present | linkThread, which links nothing |
| ContentExtraction, AiSummary | `api/summary/content-extractor.service.ts`, `safe-source-http.ts`, `ai-summary.service.ts` | none | calls to the network |
| Auth, RuntimeConfig | `api/auth`, `api/config`, `api/prisma` | user rows; the environment | single inserts and reads |
| MobileArticleLibrary | `mobile/hooks/useArticleLibrary.ts`, `articleState.ts` | the client's list, home, details, paging cursor, read-write queues | receive, fetchDetail, fetchStatus, refreshHome, refreshArchive, changeRead, reconcile, retry, remove |
| MobileKnowledge | `mobile/hooks/useKnowledgeLibrary.ts`, `mobile/screens/KnowledgeScreen.tsx` | paged lists with a request version; the open topic, the editor's draft and its base, articles and topics picked, the baseline of the memberships | load, loadMore; saveTopic, deleteTopic, saveMemberships, addSelectedArticles, unlinkArticle, readLatest, requestBack |
| MobileScreens | `mobile/App.tsx`, `mobile/screens/ThreadDetailScreen.tsx`, `ExploreScreen.tsx`, `mobile/api` | the token and the start of the app, the open article, the chosen density, searches | restoring a session, signing in and out, opening, the automatic mark as read; rendering, request shaping |

### 1.2 How they interact

* Saving an article writes the article and its first task in one transaction.
  Retrying a summary writes the next generation and its task in one transaction.
  Both lock the user's row; workers do not.
* Every process polls `dispatch` every five seconds: it reads lapsed leases,
  puts their tasks back into the outbox or ends them, then adds a BullMQ job for
  every due task. The job's name is the task's, so BullMQ drops duplicates for
  as long as it still holds the former one.
* BullMQ delivers a job to a worker slot, at least once. The handler claims the
  task with a compare-and-set that draws a fresh lease token, and repeats that
  token in the `where` clause of everything it writes.
* A completed summary is handed to Classification and ThreadDetection. Variants
  are derived from a completed summary and carry its generation as their source.
* QueueSafety stands between all of these services and BullMQ: it pauses idle
  workers, wakes them when something is enqueued, and stops everything when
  Redis reports that its quota is used up.
* The client learns of all this only by polling, and its requests may be
  answered late or out of order, or fail after they took effect.

### 1.3 What is hard

Several processes execute one outbox without a leader; leases lapse under
workers that are slow and not dead; answers of committed transactions get lost;
Redis may lose, repeat or hold back a job; users retry and delete in the middle
of it. `PROJECT.json` lists these hazards, each at the line where it bites and
with the properties that would catch it.

### 1.4 What makes each component correct

* SummaryTasks and SummaryRequests: only the owner of the current generation
  publishes; a document is replaced only by one of a newer generation; an
  article that says SUMMARIZING has a task that will end it; the stage agrees
  with the status; a paid answer is neither lost to a retry nor kept for ever;
  every accepted generation ends.
* SummaryVariants: a variant is shown only for the source it was made from; a
  requested variant ends.
* QueueSafety: work in a queue whose worker sleeps wakes it; nothing starts
  after the stop; an idle worker does sleep.
* Classification: a user's edit is never overwritten by a late answer; each
  summarised article is eventually classified or refused.
* KnowledgeTopics: names are unique, memberships have both their rows, and a
  stale revision never overwrites a newer one, under concurrent requests.
* ArticleSaving: the daily limit holds for concurrent saves; the pages of the
  archive are complete and disjoint.
* MobileArticleLibrary: an older answer never replaces newer state; the read
  flag and the document shown at rest are the server's; nothing of one account
  is shown to another.
* MobileKnowledge: what the user has typed or picked leaves the screen only when
  it is saved, taken back or given up on purpose; a list that is shown has no
  gap.
* MobileScreens, of them ExploreScreen: the list of classified articles has no
  gap, is asked for again while it says that classification goes on and nothing
  is being edited, and a correction replaces only what its author has seen.

## 2. Plan

Modules, most important first. An abstract contract comes with every component
that has one worth stating.

| order | module | contract | instances | theorems |
| --- | --- | --- | --- | --- |
| 1 (done) | `SummaryTasks` | `SummaryContract` | two processes with one worker each; one process with two slots | type, invariants, document safety, refinement |
| 2 (done) | `SummaryVariants` | one document per source and mode | one density, two sources, two generations, repeated keys | type, source safety, states, one task per source, keys, ownership |
| 3 (done) | `QueueSafety` | work is served or everything is stopped | two queues of a process | type, demand, idle timer, stop |
| 4 (done) | `Classification` | edits win | one article, two workers | type, content, ownership, edit safety |
| 5 (done) | `TopicStore` | names, memberships and revisions of a user's topics; the daily limit | three sessions, three topics, four articles | tables, edits |
| 6 (done) | `KnowledgePages`, `KnowledgeScreen` | lists without gaps; no work is lost | one device, another one, and calls given up | a client of the store, lists, work |
| 7 (done) | `ArticleItems`, `ArticleClient`, `ArticleLibrary` | the app's copy follows the server | one article followed in full, four rows, two accounts | type, sessions, cache, documents, read status, archive |
| 8 (done) | `ExploreScreen` | a list without gaps, asked for again while articles are being classified | one screen, three articles, pages of two | type, list, polling, edits |
| 9 | pure algorithms (retry window, topic names, classification input) | a reference definition | bounded inputs | bounds |

What composes: `SummaryTasks` contains the writes of SummaryRequests and
ArticleSaving that race with workers. `SummaryVariants` and `Classification`
each have an article whose source moves as `SummaryContract` allows its `shown`
to move, so that they compose with any implementation of that contract; what
they leave out of it they do not read. `QueueSafety` is below all three: they
assume of it what its properties say, that what is enqueued is delivered for as
long as nothing is stopped. `KnowledgeScreen` contains `TopicStore` and
`KnowledgePages`: the app's calls, another device's, and those the app has given
up are transactions of one store. `ArticleLibrary` contains the app, the part of the API it calls, and what the workers do to one row, in two actions
(`Summarize`, `FinishVariant`) that only do what SummaryTasks and SummaryVariants
let a row do. `ExploreScreen` has the rows of Classification as the screen's
calls and its workers change them, in one action for each outcome that can be
seen (`Classify`).

## 3. Modules

### 3.1 `SummaryContract`

What a reader can rely on, with tasks, leases, jobs and workers hidden. Each
article has a `phase`, a `generation` (the last one accepted) and `shown` (the
generation of the visible document). A generation is accepted only when the
former has ended, ends by `Publish` or `GiveUp`, and only `Publish` changes
`shown`. `Settles` is the liveness half.

### 3.2 `SummaryTasks`

State and code:

| variable | code |
| --- | --- |
| `article` | rows of `saved_articles`: generation, resultGeneration, processStatus, processingStage, processingErrorCode, retryAt, retryCount, and whether retryWindowStartedAt is less than the window ago |
| `task` | rows of `summary_tasks`, by (article, generation) |
| `redis` | the BullMQ job of a task: none, waiting, or active in a worker |
| `worker` | the local variables and place in `SummaryProcessor.processJob` of each slot |
| `reclaiming` | the lapsed leases that a running `dispatch` has read and not yet handled |
| `adding` | `pendingEnqueue` and the `queue.add` calls behind it |
| `request` | what `retryArticleSummary` has read under the user's row lock |
| `faults` | a count, bounded by `MaxFaults` |

Every database transaction is one action; what happens between two transactions
of one function is a step boundary, so everything else may happen there.
`retryArticleSummary` is two actions, because the row it reads is not locked and
is written back later in the transaction; `create` and `remove` need only one.
`dispatch` is an action that reads the lapsed leases, one per reclaiming
transaction, and one that reads the outbox. The handler has an action for each
of its transactions and each outcome of its external calls.

Abstractions, and why they lose nothing the properties speak of:

* Instants are abstracted to whether they have passed (`lapsed`, `due`,
  `retryAt`, `inWindow`); when they pass is up to TLC. This assumes that the
  processes agree on the time well enough that one does not see a lease as
  lapsed which another still sees running (90 s against clock drift).
* A lease token is the ordinal of the claim. A UUID is only compared.
* `Owns` is evaluated with the write it guards. The code reads `new Date()` just
  before; if the lease ends in between and nobody has acted on that, the same
  write is allowed had it come first.
* The reclaiming transaction compares leaseExpiresAt with the instant at which
  `dispatch` started, so a lease drawn later never qualifies. The snapshot
  carries the lease it saw lapse to say so.
* A pass of `dispatch` reads at most 50 tasks of each kind; the model has fewer.
* The pass awaits its `queue.add` calls one at a time under a timeout; the model
  has all of them pending at once, which allows every order.
* `SUMMARY_DONE` stands for `CONTEXT_INSUFFICIENT` as well, which no part of the
  pipeline tells apart.
* Extraction and the AI are external: they succeed, or fail in each way that
  `summaryFailure` tells apart (retryable or not, with a delay or not).
* Answers that change nothing (an idempotent repetition, a refusal) are not
  steps.
* The QueueSafety service is taken as it is when nothing is blocked or asleep.

### 3.3 `MCSummaryTasks`, `SummaryTasksProofs`

`MCSummaryTasks` has the values TLC needs and two narrower initial conditions:
`FreshInit` (nothing saved before tasks were durable) and `IdleInit` (nothing in
progress at that time, and no document yet).
`SummaryTasksProofs` has the proofs.

### 3.4 `SummaryVariants`

| variable | code |
| --- | --- |
| `article` | existence and resultGeneration of the `saved_articles` row; `PublishSource` is what `SummaryJobService.complete` does to it |
| `variant` | rows of `summary_variants`; generation 0 is no row, `markdown` is the source whose text it was made from |
| `task` | rows of `summary_variant_tasks`, by (density, generation) |
| `queued` | BullMQ jobs that may be delivered, again and again until a handler has returned |
| `reclaiming` | lapsed leases that some `dispatch` has read and not handled |
| `worker` | place and local variables of `SummaryVariantProcessor.processJob` |

`request` is one action: it locks the article's row and is the only one to
change a variant's generation or source, so that nothing it has read changes
before it writes. `claim` is two, because it reads variant and article without a
lock before its compare-and-set; everything else may happen in between. The
`!article.resultGeneration` of `summary-variant.service.ts:109` refuses articles
without a document and those of generation 0 alike, hence `NoSource == 0`. The
reclaim of a last attempt, and the retirement of a stale task, leave the
checkpoint in the task's row; nothing reads it after that. A task's row carries
its source. Markdown and text are represented by the source they stem from,
which is all that the properties ask about them.

### 3.5 `QueueSafety`

One process. `state` is the `ManagedWorker` of each queue together with the mode
of its BullMQ worker, which is external; `demand`, `stopped`, `shuttingDown` are
the fields of the service, `producer` is the Queue object, and `pending` counts
the operations that `enqueue` awaits. JavaScript runs callbacks one at a time,
so an action is a callback, or a stretch of code between awaits; a private
method is an operator on the record it leaves behind.

Abstractions: a queue has one worker, as the modules of the code register them.
Time is `fresh` (`demandUntil` has not passed) and the timer's being armed; it
fires only once demand has lapsed, because each wake arms it anew. `version`
matters only in comparisons before and after a pause, which is `woken`. `fetched`
bounds the jobs that start while `pause(false)` waits. A rejection of pause is
taken to come with the end of the worker's main loop. `Symbol('processor')` is a
token. Of BullMQ it is used that `resume` and `run` do nothing to a worker that
runs, that `pause(false)` waits for the jobs in progress, and that `close` is
final.

### 3.6 `Classification`

| variable | code |
| --- | --- |
| `article` | processStatus, as far as schedule asks, and resultGeneration of `saved_articles` |
| `row` | rows of `article_classifications`; revision 0 is no row, `lease` is the ordinal of the claim, `waited` says that updatedAt is 5 minutes ago (RUNNING) or 30 s (FAILED) |
| `expired` | what `reclaimInterrupted` has read and not handled |
| `call` | calls of `schedule`, and what they have read |
| `queued` | BullMQ jobs, named after article, revision and source |
| `worker` | place and local variables of `process` |
| `shown` | what the user's client has of each classification |

The service uses no transactions, so every statement is an action, and its
`where` clause the guard of its write (`StillExpired`, `Unchanged`, `Matches`,
`Owns`, `Publishes`). Prisma answers `include` with two queries, so `schedule`
reads the article and then its classification: a call that was overtaken may put
a row back to an older source, which the next poll repairs. An `updateMany`
whose `where` names the article's resultGeneration is taken as one statement.
Sources are numbered in the order of publication; `complete` of SummaryTasks
writes text and resultGeneration together. Kind and categories are `content`:
what was found in a source, what the user chose, or nothing. A worker that is
behind its claim by five minutes counts as a fault, since `generate` gives up
after one. The list's paging, the parsing of the AI's answer and the validation
of categories are left out; so is the read of the row that follows an accepted
retry, which only shapes the answer.

`MCClassification`, `MCSummaryVariants` and `MCQueueSafety` hold what TLC needs,
`ClassificationProofs` and `QueueSafetyProofs` the proofs.

### 3.7 `TopicStore`

The tables of one user and the requests under way, one per session.

| variable | code |
| --- | --- |
| `topics`, `issued` | rows of `knowledge_topics`: revision (0 is no row), name, description; ids in the order of creation |
| `links` | rows of `topic_articles` |
| `articles`, `arrived`, `today` | rows of `saved_articles`, how many there ever were, and those whose savedAt is of today |
| `lock` | the row of `users` locked `FOR UPDATE` |
| `calls` | the request of each session: sent, in its transaction, or answered, with what was decided and what was answered |

A transaction is two actions. `Lock` takes the user's row, reads and decides
(`Verdict`, `Writes`); the action of its kind writes and commits, checking once
more what the statement itself checks: the `where` with the revision, the unique
index of (userId, nameKey), the foreign keys of a membership. So the order
"locked, read, decided, written" of the code is there for other sessions to
break, were the lock not taken. `RollBack` ends a transaction at any time,
`CommitNothing` ends one that was refused or has nothing to write; `getTopic`
takes no lock. `create` and `remove` of articles.service.ts lock the same row,
in the same way. Names are compared by `Key`, the normalised name. The validation
of what is sent is left out: the app sends nothing that fails it.

`GiveUp` and `Send` are what clients may do to a session. What they turn to
(`NewCalls`) is nothing, or any call whose topic, if it names one, is as it was
once answered (`Genuine`); a call that is not in its transaction may be replaced,
as one that never arrives, and one that is given up may be served all the same.
`StoreSpec` is the store with any such clients, from any sound tables with nobody
in a transaction. No run has it as its specification: `knowledge` checks the store
with the screen, and that the screen is such a client is proved (5.4).

### 3.8 `KnowledgePages` and `KnowledgeScreen`

`KnowledgePages` has the answers of the list endpoints and `useKnowledgePage` as
functions of a record: the scope of the list (what it is of, and the search),
items, cursor, and the requests in flight. The sequence number of a request is
kept as `fresh`, "it is the last one". Of the requests that were superseded the
latest is kept: an older one differs from it only in its items, and both are
dropped for the same reason.

`ui` of `KnowledgeScreen` is the state of the screen: `topic`, `picker`,
`selected`, `editor` (with the topic it edits, the draft, and the draft's
beginning), `deleting`, `leaving` (the question before leaving), `conflict`,
`work` (what `mutate` is doing), `kept` and `chosen` (memberships read and
chosen), `member` and `load` (their loading page by page), `refreshes`, the two
searches as typed and as debounced, and the two lists. What a tap can do is what
the screen shows (`ShowsEditor`, `ShowsTopic`, ...). Every change is one work:
calls one after another, in any order among those of a kind, each of which is
answered, or given up after its timeout; then it is the call of session "late",
which may be served at any later time. The app sends nothing else while a work
is under way, as the code's `busy` has it. `granted` is a history: what the API
has done of the work under way. `OtherDevice` reads and changes in one go what
any client may; `Midnight` is the calendar.

Two behaviours of the code that the properties make room for, each named at the
property. Memberships that are read again after a failure replace a choice made
meanwhile, such as the topic that was created on the screen
(`KnowledgeScreen.tsx:274`, `:711-716`). And a link whose answer was lost but
which was served is not in the baseline: unchecking it then leaves nothing to
save, and the topic stays linked until the screen is opened anew
(`saveMemberships`); `WorkIsKept` does not speak of it, since nothing that is
still chosen is lost.

### 3.9 `ArticleItems`, `ArticleClient` and `ArticleLibrary`

One article, `Focus`, is followed in full; of the others there is the place in
the lists. `ArticleItems` has a row, the shapes in which the API answers
(`ListItem`, `RowItem`, `DetailItem`) and how the app combines what it hears
(`Merge`, articleState.ts). `ArticleClient` has the hook and the screens as
functions of one record; `ArticleLibrary` the steps.

| variable | code |
| --- | --- |
| `row`, `present`, `saved` | the row of Focus, and which rows exist |
| `client` | the refs and the state of `useArticleLibrary`: the thread of Focus, home, archive and cursor, `readIntents`, the write queue, `retryKeys`, the requests in flight; and of the screens what calls the hook |
| `session` | the token kept on the device, and whether it was restored |
| `strays` | writes the app has given up, or sent in a session that is over, and the API may still serve |
| `left`, `seen` | bounds; two histories, below |

The numbers that the hook compares are kept as what the comparison says: `fresh`
(the request is the last of its list), `last` (no later write was asked for),
`same` (`readRevision` has not changed since the request was sent). A session or
epoch that is over has no requests: its reads are aborted, its other answers
find `isActive` false. JavaScript runs one callback at a time, so an action is
what runs between awaits, with the effects that React runs after it
(`Effects`): stale details fetched, an opened unread article marked read.

Premises of the properties, each a behaviour of the code that a reader should
know:

* `seen.late`: a write that timed out (`readnestApi.ts:183`) may be applied after
  a later one, and nothing tells (`articleState.ts:49`). The history is set when any
  read status or retry that was given up is served, also before a later one;
  `ReadFlagSettles` and `DocumentSettles` leave all such behaviours out, a little
  more than they must.
* `at`, the updatedAt of a row, is taken to grow with every write. The code has it
  from Prisma, in each API process, to the millisecond; of two writes in one
  millisecond, or by processes whose clocks differ, the later need not have the
  later instant. `mergeThread` (`articleState.ts:18-23`) then takes an equal row
  in any order, and drops a newer row with an earlier instant until a later one
  comes. The properties of the library hold for clocks that tell writes of one row
  apart.
* `seen.mixed`: the button for more (`App.tsx:1026-1033`) also works while the
  list is refreshed; its page takes the number of the refresh
  (`useArticleLibrary.ts:323`), so both are heard, and the list may have a gap.
* `loaded`: a detail that was read before the summary was completed and arrives
  after a poll has told so has an older row, and is dropped whole
  (`useArticleLibrary.ts:137`, `articleState.ts:18-23`); a thread that never had
  a document then has none until the user asks again
  (`ThreadDetailScreen.tsx:585-586`).
* `retryKey`: after a retry was accepted and its answer lost, the key is kept, so
  that the next tap repeats it and learns the outcome; until then the thread may
  be of the former generation.

`Listing` has what is done to lists on both sides of the network: the order of
the API, and the filters of the app.

### 3.10 `ExploreScreen`

The screen of classified articles and the part of the API it calls.

| variable | code |
| --- | --- |
| `row`, `phase` | rows of `article_classifications`, and the processStatus of their articles; ids in the order of the list |
| `ui` | filter, page, error, `scanning`, editor, `paginationUsed` and the armed timer; the loads of the effect and the further pages under way; `work`, what `run` is doing |
| `strays` | saves of a screen that was unmounted, which the API may still serve |
| `moved` | a history: articles that have changed section since the list was begun |
| `left` | bounds |

A load or a further page has `fresh`, "the effect that asked is the last one".
A load that was superseded while it scanned asks for its list all the same and
then drops it, which nothing can tell from its ending there. The list is kept as
a set, since its ids are ordered and nothing but the API orders it. What a tap
can do is what the screen shows: an editor is there only with its article
(`EditorShown`), and a draft is complete before it can be saved. A classification
that is made anew passes through a row that was reset, as `Classify` has it.

Behaviours of the code that a reader should know:

* an effect that closes an open editor still finds `editing` set, as the editor's
  own effect runs after it, and its first load puts itself off by 8 seconds
  (`ExploreScreen.tsx:113`);
* `load` puts itself off for as long as an editor is open, but an editor is
  rendered only with its article (`:386`). A list that was asked for before the
  editor was opened and answered after it may lack the article, which has been
  classified into the other section or removed. Nothing on the screen can close
  such an editor, and the timer is armed again every 8 seconds without a call
  until the user changes the filter or leaves, although
  `docs/KNOWLEDGE_WIKI_PLAN.md:12` has the list checked every 8 seconds ("진행
  중에는 8초 간격으로 확인한다"). This is a divergence of the code from its plan.
  `LooksAgain` is about a call that is made, not about an armed timer, and it owes
  none while an editor is set (`LookOwed`): it says that nothing but an editor
  holds a look up, and that a look held up is made once the editor is closed. It
  does not say that the editor can be closed, which here it cannot;
* the reload after a classification is asked for again drops the draft that is
  open for another article.

`MCArticleLibrary`, `MCKnowledge` and `MCExploreScreen` hold the bounds,
`KnowledgeProofs`, `SummaryVariantsProofs` and `ExploreScreenProofs` the proofs.

## 4. Runs

| run | instance | question |
| --- | --- | --- |
| `summary_leases` | two processes, a worker each, one new article, two attempts, one fault | do leases, stages and checkpoints stay right when workers of different processes overlap and any one thing fails? |
| `summary_retries` | one process with two slots, one attempt, rows left by the migration, a user who retries and deletes | do retries and deletions race safely with workers, and does the whole implement the contract? |
| `summary_liveness` | one process with two slots, two attempts, one fault, an article that is new or failed before the migration, fairness | does each accepted generation end? (without keys, which only refuse) |
| `variants` | one density, one worker slot, one key, two attempts, two generations, two sources, one fault, fairness | is a document shown only for its source, does a row agree with its task, do repeated keys clash, and does every task end, whatever moves meanwhile? |
| `variants_overwrite` | two workers, one attempt, no fault | expected violation, see below |
| `queues` | two queues, a job and an awaited enqueue each, fairness | does anything start after a stop, or sleep with demand; does an idle worker sleep? |
| `classification_workers` | one caller, two workers, two sources, edits up to revision 2, one fault | do edits survive, and is a row written by one worker at a time? |
| `classification_liveness` | one caller, one worker, two sources, one fault, fairness | does every summarised article get classified, or refused? |
| `library` | one article in full, four rows, pages of two, two accounts, two generations; sixteen mixtures of uses | does what the app shows ever go back, belong to another account, have a hole, or disagree with the server when all is answered? |
| `library_density` | reading one article in another density, no fault | expected violation, see below |
| `knowledge` | one screen, another device, a session for calls given up; two topics and two articles at first, pages of one; nineteen mixtures of uses | do tables stay sound, edits replace what was seen, lists stay whole, and work stay on the screen until it is saved? |
| `explore` | one screen, three articles, pages of two, others' revisions up to 2; seven mixtures of uses, fairness | is the list whole, does an edit replace only what was seen, and does a screen that says it waits, with no editor set, ask for the list again? |

Bounds. In the runs of the API, one article and one density are enough because no transaction touches
two, and jobs of different tasks meet only in a worker, which forgets the
former. Two workers are needed for handlers to overlap; a third would do what
one of the two can do after its own return. `variants` has one worker slot, which
keeps its liveness within reach: handlers of one task then follow each other, and
a lease that lapses is reclaimed under a handler that still works; that handlers
overlap is covered by the theorems of 5.5, which hold for any number of workers,
and by `variants_overwrite`. Two attempts give a first and a last
one, and a checkpoint that a later attempt uses; one attempt makes the first the
last. One fault includes each crash, lost answer, lost job, duplicated job and
failed call, at every point; leases may lapse and jobs may be redelivered after
a crash without being counted, so overlapping workers need no fault at all.
`MaxGeneration = 1` of SummaryTasks lets a row of the migration (generation 0)
be retried once, and a deletion or a late worker of generation 0 race with
generation 1; in SummaryVariants two generations and two sources let a request
for the new source overtake a worker of the old. The initial rows of
SummaryTasks are those that the migration `20260929000000_durable_summary_tasks`
leaves behind. Two queues show that the latch reaches them all. Two sources let
a classification be overtaken by a new summary; revisions up to 2 let the user
edit or retry before, while and after jobs write. One call of `schedule` races
with workers, edits and new sources; that calls race with each other is covered
by the proofs, which hold for any number of them, as they do for more jobs,
queues and workers.

The app's runs bound what the user does by a record, `left`: how often each kind
of use happens in a behaviour. The initial states have one such record each, so
a run is the union of its mixtures. `library`: reading (three marks with a
fault, two with a density or a removal), making (a density or a summary asked
for twice; once with a fault or with lists), listing (three refreshes or
pages with a save or a fault; a save and a mark with a fault or a removal),
leaving (signing out or in, restarting, going to the background, once or twice,
with each of the others). `knowledge`: editing against the other device, up to
save, conflict, reading the latest and saving again; saving, deleting and
unlinking with a fault; picking two articles with a fault, with further pages,
and with a removal; reading an article and coming back, after works of the
screen and of others; choosing topics with a fault and against the other device;
lists that move under a search or a further page; three devices that save and
remove under a daily limit of two. Where a mixture would grow, the names that
are typed in it are fewer. Page sizes of two and one make
every list have a further page. `explore`: rows that change, faults, further
pages, tasks, edits and new beginnings (a filter, a reload, a hidden or a new
screen) in seven mixtures, so that each meets each other; the three articles are
one that only the user can still change and is being summarised anew, one that can be
classified anew, and one that is being classified. Names are two that have one key, one that is
taken, and one that is free. A third refresh, mark or request of one kind is
enough to overtake two others; what a device does beyond that begins again from
a state of the same shape. Faults are calls that fail or whose answers are lost.

Deadlock is checked in the summary and variant runs: reading the outbox is always
possible while no reclaiming is under way. It is not checked where the system
may stop: a process that has shut down has nothing left to do, and neither has
anyone when the article has been removed, nor an app that is at rest.

Type invariants. Those of the components with proofs are theorems; only `library`
checks its own again, whose mutant (a saved article put on top of a list that has
it) breaks it.

Symmetry is used in safety runs only, over worker slots and processes, which are
told apart by nothing.

Fairness. In SummaryTasks and SummaryVariants: `dispatch` is polled for as long
as a process is up, and a crashed process is started again. BullMQ delivers
waiting jobs and recovers those whose worker is gone; where several jobs compete
for slots, each gets one again and again (strong fairness), since no handler
keeps a slot. A handler ends: extraction and AI calls have timeouts, and
transactions have one. Time passes. In Classification the same holds for its own
poll, of which it is used that what is due is scheduled although calls, workers
and the user intervene (strong fairness of a call for each due article): the
poll comes every five seconds whatever else is under way. In QueueSafety timers
fire, promises settle, jobs end and demand lapses; nothing is assumed of
enqueuers and events. In ExploreScreen a timer fires and a task ends, as every call
has a time limit (`readnestApi.ts:183`); one condition on all of these steps is
enough, as a timer that fires first leads to a call by itself. Loads need not end
for it. Nothing is assumed of users anywhere, and no fault is
assumed to happen or not, but only `MaxFaults` of them do. `SettlesEventually`,
`TasksEnd` and `ClassifiedEventually` also need that QueueSafety has not latched
its stop, after which no work is done until an operator restarts the processes.

`variants_overwrite` is a finding. `claim` of a variant
(`api/summary/summary-variant-job.service.ts:225`) updates the variant by its id
alone, after unlocked reads and a compare-and-set of the task only. A claim that
read its variant before the base summary was published anew, and writes after
the variant has been requested for the new source and finished, puts it from
SUCCEEDED back to RUNNING; no task is left that would end this, and requests
refuse a variant that says RUNNING. `docs/SUMMARY_DENSITY_MODES_PLAN.md:83` says
that (variantId, generation) keeps an old worker from overwriting a new result.
The other writes of the service compare the generation, and the properties of
`variants` hold.

`library_density` is a finding too. The answer to a read-status write is the row,
which has no densities; `receive` (`mobile/hooks/useArticleLibrary.ts:591`) takes
it for a loaded detail and puts it in place of the thread that was waiting for
one. `hasPendingVariant` is then false and nothing is fetched any more: a density
that the reader has asked for and the server has made does not appear, though
`docs/SUMMARY_DENSITY_MODES_PLAN.md:12` says that the screen switches to it by
itself. One reader who opens an unread article (which marks it read) and chooses
a density is enough.

## 5. Theorems

They hold for every value of the constants, and are proved from the named
assumptions of the modules only.

### 5.1 `SummaryTasksProofs`

For every number of articles, processes, slots, keys, attempts, retries,
generations and faults. `ConfigAssumption`: the limits are natural numbers,
positive where the code has them positive, each slot belongs to a process, and
`NoKey` is not a key.

* `Inductive`: `Spec => []IInv`. The parts of `IInv` beyond the properties are
  there because the properties alone are not inductive:
  `LeaseCountsClaims` ties the token to the attempts, so that a token can never
  be drawn twice; `HandlersMatch` says that handlers of one task remember
  different claims, hence at most one remembers the row's; `SnapshotsMatch` says
  that a snapshot of `dispatch` carries the attempts of the very lease it saw,
  hence the decision taken from it fits the row it is applied to;
  `NoOrphanTask` and `AbsentIsUnclaimed` say that no task is ahead of its
  article or survives it, hence a new generation starts from an unused row;
  `CooldownIsDelay` ties the article's retryAt to the task's own delay, hence
  nothing is cooling down when a lease is reclaimed; `RetryReadHolds` says that
  what an open retry has read is still so when it writes, although it holds no
  lock of the article: workers change only an article that is in progress, and
  no retry starts from one.
* `IInv` is not an invariant of a run; those of its parts that are properties
  are, and the proof covers the rest.
* `TypeCorrect`, `LiveTaskCorrect`, `ProcessingCorrect`, `LeaseCorrect`,
  `StageCorrect`, `CheckpointCorrect`, `InterruptionCorrect`: the invariants the
  runs check, each implied by `IInv`.
* `DocumentCorrect`: `DocumentOnlyFromOwner`, an action property, from `IInv`.
* `Refinement`: `Spec => Contract!Spec`. Initial states map to initial states;
  a step of one article maps to the contract's step of that article, and all
  others map to a stutter.

Proofs go by one lemma per handler or transaction, over generic lemmas that say
what a write of one row preserves.

### 5.2 `QueueSafetyProofs`

For every set of queues and jobs and any number of awaited calls
(`PendingAssumption`: the bound is a natural number). The inductive invariant is
`Sound` of each worker and that no producer is open after the stop. `Placed` ties
the mode to the phase, the pause and the flags: the properties alone do not say
that a sleeping worker is not running, or that one which is being paused has its
promise pending, and without that a replayed wake could not be shown to reach
the worker. `Timed` says when the timer is and may be armed. There is one lemma
per private method about the record it leaves, and one that carries a record to
the state.

* `QueueInductive`, `QueueTypeCorrect`.
* `DemandCorrect`, `IdleCorrect`, `StopCorrect`: `DemandIsServed`,
  `IdleHasTimer`, `QuietAfterStop`.
* `StopIsFinal`: the action property `NothingStartsAfterStop`.

### 5.3 `ClassificationProofs`

For every set of articles, calls and workers, and all bounds
(`BoundsAssumption`: natural numbers, at least one source, at least one
article). Every statement that writes a row leaves one that is `RowSound` and
`Follows` the former: revision and claims do not decrease, and as long as the
revision is the same, so are source, content and an old failure. This is why
what others have concluded from a row stays true, and it makes up the rest of
the inductive invariant: a call that is about to reset still has a reason as
long as the revision it read is there (`CallSound`); a worker's lease is one of
the claims so far, and its text is that of its job's source (`WorkerSound`); no
two workers of one article have the same lease (`LeasesDiffer`); what was shown
is no newer than the row; a removed article has no row, nor will it have one.

* `Inductive`, `TypeCorrect`.
* `ContentCorrect`, `EditCorrect`, `OwnerCorrect`: `ContentFitsSource`,
  `EditsWhatWasSeen`, `OneOwner`.
* `EditSafety`, `RepeatSafety`: the action properties `EditsSurvive` and
  `OnlyWaitedIsRepeated`, from one lemma on what each action does to a row.

### 5.4 `KnowledgeProofs`

The store, for every set of sessions, names and descriptions, any number of
topics and articles and any daily limit (`StoreAssumption`: the bounds are natural
numbers, every name has a key, `NoOne` is no session). The first theorems are
about `StoreSpec`, the store with any clients.

* `StoreInductive`: `StoreSpec => []IInv`. `TablesSound` is not inductive alone:
  a write is only sound because of what its transaction has read. `LocksSound`
  says that whoever is in a transaction holds the lock and that what it found is
  still so (`Ready`), which holds because nobody else writes meanwhile.
  `BasesSound` says of what each client refers to that its revision is no newer
  than the topic's and, if it is the topic's, that its name and description are.
  Every transaction leaves topics that `Follows` the former: it raises the
  revision when it changes the content.
* `StoreCorrect`: `StoreIsSound`, the tables, unique keys, memberships with both
  rows, and the daily limit. That it holds at first is part of `StoreInit`, which
  begins with tables in use; `EmptyStore` says that tables without a row are such,
  and `StoreAtFirst` that those the screen finds are.
* `EditCorrect`: the action property `EditsReplaceWhatWasSeen`.

There is one lemma per transaction, over `AnswerSound` (its end), `RevisionsKeep`
(topics that only get new revisions) and `OneCallKeeps` (steps that touch no
table).

The screen over the store, for any page size, what articles say, searches, rows
at first, and any bounds (`PagesAssumption`, `BoundsAssumption`, and
`ScreenAssumption`: the names there are at first have different keys, as the
unique index has it, and the article the screen was opened for is saved).

* `ScreenInductive`: `Spec => []SInv`. Beside `IInv` it has three parts.
  `AnswersSound`: what a call was answered, or a screen was told, of a topic is a
  revision that is no newer than the topic's and, if it is the topic's, has its
  content (`Told`); an answer to a read, update or membership is about the topic
  that was asked for. `Fit`: all that the screen shows, edits or has in flight was
  told, and both lists are sound (`ListSound`). That a list has no gap is not
  inductive, for the answer that will be put behind it is still on its way: so
  `PageSound` says that only one request of a list counts, and that it begins
  where the list ends, and `Filled` that its answer, once it has one, has all that
  `Reaches` from there to where the next page begins. Rows are only created above
  (`ListGrows`), so it stays so until it is heard. `WorkFits`: what the panels of
  the screen exclude (`Apart`), and of the work under way, that every call which
  what is picked or chosen still asks for is to be made, under way, has failed, or
  was granted (`Handled`), that a save is of the draft as it is shown, and that a
  call answered with success was granted.
* `ScreenIsAClient`: `Spec => StoreSpec`. The app with its given-up calls and the
  other device implement the clients of the store: each of their steps is one of
  the store's or none. It needs `SInv`: only what a screen was told makes the calls
  it sends `Genuine`. `ScreenKeepsStoreSound` (`StoreIsSound`) and
  `ScreenReplacesWhatWasSeen` (`EditsReplaceWhatWasSeen`) follow, for the store
  under the screen.
* `ScreenListsAreWhole`: `ListsAreWhole`, from `ListSound`.
* `ScreenKeepsWork`: the action property `WorkIsKept`.

There is one lemma for each action of the screen (`SaveTopicFits`,
`HearListFits` ...). It says that the action `Steps`, that is, it is a step of the
store or none and leaves a screen that fits what it was told before, and that it
`Keeps` the work; `StepsSound` then carries `SInv` over, since the store only adds
to what was told. That it keeps the work is not said of the steps in `Wanted`, which
`WorkIsKept` allows to drop something. TLC had checked the parts of `SInv`
about the screen on the instance of `knowledge` before they were proved.

### 5.5 `SummaryVariantsProofs`

For every set of densities, workers and keys, any number of attempts,
generations, sources and faults (`VariantAssumption`: natural numbers, attempts
and generations positive, `NoKey` is no key).

* `VariantsInductive`: `Spec => []IInv`. The properties are about what several
  handlers write from what they read at another time, so the rest of `IInv` says
  what a reading is still worth when it is used. `HistorySound`: the tasks of a
  variant are one per generation, the last of them has the variant's source, and
  sources never go back. `LastLives`: of the tasks of one source only the last can
  be live. `LeasesSound`: a lease is the number of its attempt, so that what
  `dispatch` or a handler remembers of an attempt is true for as long as its lease
  is there, and a checkpoint is of its task's source. `WorkersSound`: the text a
  handler carries is of its task's source, and what its unlocked reads found is
  still true in the direction its writes depend on, so a stale view stays stale.
  The claim that writes by id alone (section 4) may leave RUNNING on a finished
  generation: no property of `variants` says otherwise, and that one does not
  hold is the run `variants_overwrite`.
* `VariantsTyped`: `TypeOK`.
* `DocumentsFit`, `StatesFit`, `OneGenerates`, `KeysUnique`: `ShownFitsSource`,
  `StateFitsTask`, `OneTaskPerSource`, `KeysAreUnique`.
* `DocumentsFromOwner`: the action property `MarkdownOnlyFromOwner`.

### 5.6 `ExploreScreenProofs`

For every finite set of articles and any classifications they have at first, any
page size, categories, revisions and bounds of use (`ExploreAssumption`).

* `ScreenInductive`: `Spec => []IInv`. A list that is shown is whole because every
  answer that will be heard is so when it is heard: the invariant speaks of
  answers under way. `Wholes` are the pages without a hole, from a place in a
  filter's list down to their cursor, but for what has moved since the list was
  begun. `Facts` are what a row once was: a revision that is still the row's names
  the content it had. `Sound` says of the screen that what it lists, was answered,
  drafts or sends are facts (`ItemsKnown`, `EditsKnown`); that a load or a further
  page which is fresh is of the filter and the cursor that are shown, that at most
  one further page is, and that their answers are whole (`LoadsFit`, `MoresFit`,
  `PageFits`); and what stands for the next look (`PollFits`: a timer, a load, a
  notice, or a task that will be heard). `StraysKnown` says of saves that were
  given up that they are of facts. A step of the API only adds to `Facts` and
  `Wholes` and leaves the screen alone; a step of the screen leaves those alone. So there is a lemma about each step
  of the screen that is a fact about records, for any `facts` and `wholes`.
* `ScreenTyped`, `PagesWhole`, `EditorsSafe`: `TypeOK`, `PageIsWhole`,
  `EditorIsSafe`.
* `LooksPrepared`: what `LooksAgain` rests on besides fairness. While a look is owed
  there is an armed timer, a call of load, or a task that will be heard
  (`LookIsDue`); no step takes an armed timer away without a call, and a timer that
  fires makes one (`LookIsKept`). The leads-to itself is left to `explore`.

### 5.7 `ListingProofs`

What the two functions on lists return, for every finite set of numbers and every
list: `NewestFirst` (each member once, the newer before the older) and
`WithoutKeeps` (what was there and is not left out, nothing twice if nothing was
there twice). `Listing` defines both by counting, because a sort that recurs, or
one that takes the order as an argument, could not be proved about.

### 5.8 `ArticleLibraryProofs`

For any accounts, number of rows, page size, bounds of use and generations
(`FocusAssumption`, `UsersAssumption`: "none" is no account; `QueriesAssumption`:
the archive is filtered by "all" or "unread"; `GenerationAssumption`; `LibraryAssumption`: the bounds are natural numbers, the
page is not empty, `Focus` is one of the rows saved at first).

The first part follows the code. There is a lemma for every function of the hook
(`ReceiveFits`, `FetchDetailFits`, `ChangeReadFits` ...) and one for every step.
Each says that the state stays `LibraryTyped` and that the step has an `Outcome`:
the hook hears at most one of the answers in flight (`Heard`), a request is
answered with the row as it is (`Served`), or a session begins (`Begun`); the row
does not go back (`RowMoves`); and only the steps of a retry touch a retry or the
generation (`RetryKept`). `Alike` leaves out of this what the user chooses.

The second part forgets the steps and uses `Outcome` alone.

* `LibraryInductive`: `Spec => []LibraryTyped`. It includes `Empty`: the hook of
  another account has nothing and hears nothing, because what is in flight belongs
  to the hook's record and is dropped with it; from this `SessionsApart`
  (`SessionsDoNotMix`) follows, and from the types `LibraryTypeOK` (`TypeOK`).
* `LibraryOrdered`: `Spec => []LibraryInvariant`. That the cache moves forward is
  not inductive: an answer in flight is safe to merge only for what it once was.
  `AnswersOrdered` says that all answers in flight are moments of one history of
  the row, so of any two the one with the later updatedAt has no older generation
  and no older document. `ThreadOrdered` says that the thread was read at one of
  those moments and its document at that or an earlier one, which `IsOlder` and
  `KeepDocument` keep true (`MergeForward`); and that a thread that has ended at the row's
  generation has ended as the row has, and is stale if it lacks the row's
  document. `RetryAnswered` says that the app knows the row's generation unless a
  retry's outcome is unknown to it: its key is then known to the server.
* `CacheForward`: the action property `CacheMovesForward`.
* `DocumentsSettle`: `DocumentSettles`.

The third part follows the steps once more, for the read status, which unlike the
rest of the thread is written by the app before the server has it.

* `LibraryReadsOrdered`: `Spec => []ReadsOrdered`, inductive with
  `LibraryInvariant`. While the app is `Watching` (the owner's session, the row is
  there, the app has not heard that it is gone, and no write it gave up was served
  after another), `ReadsSound` says three things. `QueueOrdered`: a queue of writes
  that is not empty ends with the last choice, only its last write counts as last,
  only its first is under way, and none has found the row gone. `ReadsAgree`: the
  thread shows the last choice, which the row has once the choice is settled; with
  no choice made, the thread and all that is in flight have the row's status; and
  once a choice is settled, an answer asked for since then has the row's status or
  is older than the thread, so `IsOlder` drops it. `WriteServed`: a write that was
  served and not yet heard of is what the row has, and so is every answer read from
  the row after it. The second is why `changeRead` counts a choice both when
  one is made and when one is settled (`same`): an answer asked for before that may
  have either status. It is inductive only with the order of the answers:
  `AnswersOrdered` makes what was read before the write older than the write's own
  answer, by generation too, and so dropped once that answer is merged.
* `ReadsSettle`: `ReadFlagSettles`. Nothing is queued and `reconcile` has nothing to
  do, so no choice is pending, and `ReadsAgree` leaves only the row's status.

The fourth part follows the steps for the archive, a list put together from pages
while rows are saved and removed.

* `LibraryArchiveOrdered`: `Spec => []ArchiveOrdered`, inductive with `LibraryTyped`.
  That the list has no hole down to its cursor is not inductive: a page in flight
  was asked for at a cursor which may have moved since. `Filled` therefore speaks of
  all the `Places` where a page still to be added begins, the cursor and those of
  the requests that count: from each of them up to the first row, or to any other
  place, nothing is left out. `PageSound` says that an answered page has all there
  is between its cursor and the next one's (`PageFilled`), whatever was saved since,
  which is above, or removed, which is no hole; so a page that is heard joins
  without a hole (`PageHeard`). `Gone` is needed because the app removes the article
  from the list by itself: it may only do so when the row has gone. A page asked for
  while the list was being refreshed is excepted (`seen.mixed`), and begins anew
  with the next list that is whole.
* `ArchiveContiguous`: `ArchiveIsContiguous`. The article followed is left out under
  the filter of the unread, since it may come into it while it is listed.

### 5.9 Only model-checked

The liveness properties, since fairness and `ENABLED` are out of reach of the
prover: `SettlesEventually` of `summary_liveness`, `TasksEnd` of `variants`,
`SleepsWhenIdle` and `PausedDemandRuns` of `queues`, `ClassifiedEventually` of
`classification_liveness`, `LooksAgain` of `explore`. Every other property of a passing run is stated by a
theorem.

## 6. Not modelled, and why

* `ContentExtraction`, `AiSummary`: network and parsing; modelled by outcomes.
* `Auth`, `RuntimeConfig`: library calls and validation of the environment.
* `ThreadDetection`: links nothing at present.
* `MobileScreens` in part: rendering, navigation, and the wording of notices and
  errors. Of ExploreScreen: the topics offered as categories, counts, and opening
  an article beyond its being a task.
* Of the knowledge screen: a change of the session's token, which unmounts it and
  drops everything; the signature of cursors.
* Of the library: the sections and counts of the home page, searches and periods
  of the archive (the filter of read status stands for them), the URL that is
  typed, a summary that fails in more than one way, and several alternative
  densities of one document.
* Of the library also: other devices that change the same article.
* The rest of section 2 that is not marked done.
