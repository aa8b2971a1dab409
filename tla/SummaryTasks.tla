----------------------------- MODULE SummaryTasks -----------------------------
(***************************************************************************)
(* The durable summary pipeline of one user: article and task rows in      *)
(* MySQL, the job queue in Redis, and the API processes that dispatch,     *)
(* claim and execute tasks (SummaryJobService, SummaryProcessor, and the   *)
(* writes of SummaryService.retryArticleSummary, ArticlesService.create    *)
(* and ArticlesService.remove that they race with).                        *)
(*                                                                         *)
(* Every database transaction is one action.  A transaction that fails has *)
(* no effect; one whose answer is lost has its effect, and the caller sees *)
(* an error.  Both count against MaxFaults, as do crashes, Redis losses    *)
(* and timeouts, so that "finitely many faults" can be said.               *)
(*                                                                         *)
(* Deadlines are abstracted to whether they have passed: "lapsed" is       *)
(* leaseExpiresAt <= now, "due" is notBefore <= now, and so on.  A lease   *)
(* token is the ordinal of the claim that drew it, 0 standing for NULL: a  *)
(* task draws one per attempt, and a UUID is only compared for equality.   *)
(***************************************************************************)
EXTENDS Integers, FiniteSets

CONSTANTS
    Articles,       \* saved articles of one user
    Procs,          \* API processes, each with its dispatcher
    Workers,        \* worker slots (concurrency) of all the processes
    Home,           \* the process of each worker slot
    Keys,           \* Idempotency-Key values sent by clients
    NoKey,          \* a request without the header; requestKey IS NULL
    MaxAttempts,    \* MAX_TASK_ATTEMPTS
    RetryLimit,     \* SUMMARY_RETRY_LIMIT
    MaxGeneration,  \* bound on generations per article
    MaxFaults       \* bound on faults in a behaviour

ASSUME ConfigAssumption ==
    /\ Home \in [Workers -> Procs]
    /\ {"none", "waiting"} \cap Workers = {}
    /\ NoKey \notin Keys
    /\ MaxAttempts \in Nat \ {0}
    /\ RetryLimit \in Nat \ {0}
    /\ MaxGeneration \in Nat \ {0}
    /\ MaxFaults \in Nat

NoResult == -1                              \* resultGeneration IS NULL
Generations == 0..MaxGeneration
TaskIds == Articles \X Generations          \* unique (articleId, generation)
Attempts == 0..MaxAttempts
NoId == <<0, 0>>                            \* an idle worker has no task

VARIABLES
    article,        \* saved_articles rows
    task,           \* summary_tasks rows
    redis,          \* BullMQ job of a task: "none", "waiting" or its worker
    worker,         \* SummaryProcessor.processJob in each slot
    reclaiming,     \* lapsed leases each process's dispatch has yet to handle
    adding,         \* pendingEnqueue: queue.add calls not yet answered
    request,        \* the retry transaction that holds the user's row lock
    faults          \* faults so far

vars == <<article, task, redis, worker, reclaiming, adding, request, faults>>

-------------------------------------------------------------------------------
(* Rows and local states.                                                  *)

ArticleRow ==
    [row              : {"never", "saved", "removed"},
     generation       : Generations,
     resultGeneration : Generations \cup {NoResult},
     processStatus    : {"SUMMARIZING", "SUMMARY_DONE", "SUMMARY_FAILED"},
     stage            : {"QUEUED", "EXTRACTING", "GENERATING", "PERSISTING",
                         "DONE", "FAILED"},
     errorCode        : {"null", "WORKER_INTERRUPTED", "TASK_FAILURE"},
     retryAt          : {"null", "ahead", "passed"},
     retryCount       : 0..RetryLimit,
     inWindow         : BOOLEAN]

TaskRow ==
    [state      : {"ABSENT", "PENDING", "RUNNING", "SUCCEEDED", "FAILED"},
     requestKey : Keys \cup {NoKey},
     attempts   : Attempts,
     due        : BOOLEAN,
     lease      : Attempts,
     lapsed     : BOOLEAN,
     result     : BOOLEAN]

Failure == [retryable : BOOLEAN, wait : BOOLEAN]

WorkerState ==
    [pc       : {"idle", "claim", "begin", "extracting", "generating",
                 "persist", "complete", "failing", "finish"},
     task     : TaskIds \cup {NoId},
     lease    : Attempts,
     attempts : Attempts,
     lost     : BOOLEAN,
     failure  : Failure]

Snapshot == [id : TaskIds, attempts : Attempts, lease : Attempts]

(* What a retry transaction read under the user's lock and will write from. *)
RetryRequest ==
    [id : Articles, key : Keys \cup {NoKey}, generation : Generations,
     count : 0..RetryLimit, opens : BOOLEAN]

TaskWith(state, key, due) ==
    [state |-> state, requestKey |-> key, attempts |-> 0, due |-> due,
     lease |-> 0, lapsed |-> FALSE, result |-> FALSE]
NoTask == TaskWith("ABSENT", NoKey, FALSE)
NewTask(key) == TaskWith("PENDING", key, TRUE)

ArticleWith(row, generation, result, status, stage) ==
    [row |-> row, generation |-> generation, resultGeneration |-> result,
     processStatus |-> status, stage |-> stage, errorCode |-> "null",
     retryAt |-> "null", retryCount |-> 0, inWindow |-> FALSE]
NewArticle == ArticleWith("saved", 1, NoResult, "SUMMARIZING", "QUEUED")
BlankArticle(row) == ArticleWith(row, 0, NoResult, "SUMMARIZING", "QUEUED")
NoArticle == BlankArticle("never")

(* Rows the migration leaves behind, at generation 0: in progress, failed, *)
(* done, or done with no Markdown document to keep as a result.            *)
MigratedArticles ==
    {ArticleWith("saved", 0, r, "SUMMARIZING", "QUEUED") : r \in {NoResult, 0}}
    \cup {ArticleWith("saved", 0, r, "SUMMARY_FAILED", "FAILED") : r \in {NoResult, 0}}
    \cup {ArticleWith("saved", 0, 0, "SUMMARY_DONE", "DONE"),
          ArticleWith("saved", 0, NoResult, "SUMMARY_DONE", "QUEUED")}

IdleWorker == [pc |-> "idle", task |-> NoId, lease |-> 0, attempts |-> 0,
               lost |-> FALSE,
               failure |-> [retryable |-> TRUE, wait |-> FALSE]]

Processing(a) == article[a].row = "saved" /\ article[a].processStatus = "SUMMARIZING"
Live(id) == task[id].state \in {"PENDING", "RUNNING"}
(* attempts >= MAX_TASK_ATTEMPTS                                           *)
Exhausted(attempts) == attempts >= MaxAttempts
(* where: { id: articleId, generation }                                    *)
CurrentFor(id) ==
    article[id[1]].row = "saved" /\ article[id[1]].generation = id[2]

Init ==
    /\ article \in [Articles -> MigratedArticles \cup {NoArticle}]
    /\ task = [id \in TaskIds |->
                 IF id[2] = 0 /\ Processing(id[1]) THEN NewTask(NoKey) ELSE NoTask]
    /\ redis = [id \in TaskIds |-> "none"]
    /\ worker = [w \in Workers |-> IdleWorker]
    /\ reclaiming = [p \in Procs |-> {}]
    /\ adding = [p \in Procs |-> {}]
    /\ request = {}
    /\ faults = 0

Fault == faults < MaxFaults /\ faults' = faults + 1
NoFault == UNCHANGED faults

-------------------------------------------------------------------------------
(* Requests of the user.  create, retry and remove lock the user's row, so *)
(* they exclude each other; the workers take no such lock.                 *)

(* ArticlesService.create, of a URL that is not saved yet.                 *)
Create(a) ==
    /\ request = {} /\ article[a].row = "never"
    /\ article' = [article EXCEPT ![a] = NewArticle]
    /\ task' = [task EXCEPT ![<<a, 1>>] = NewTask(NoKey)]
    /\ UNCHANGED <<redis, worker, reclaiming, adding, request, faults>>

KeyUsed(a, key) ==
    key # NoKey /\ \E g \in Generations : task[<<a, g>>].state # "ABSENT"
                                          /\ task[<<a, g>>].requestKey = key

RetryCount(row) == IF row.inWindow THEN row.retryCount ELSE 0

(* Mutant of RetryAllowed: a retry supersedes a generation in progress.    *)
RetryAllowedAnyTime(a, key) ==
    /\ article[a].row = "saved" /\ ~KeyUsed(a, key)
    /\ article[a].retryAt # "ahead"
    /\ RetryCount(article[a]) < RetryLimit
(* None of the early returns and 429 answers of retryArticleSummary.       *)
RetryAllowed(a, key) ==
    /\ article[a].row = "saved" /\ ~KeyUsed(a, key)
    /\ article[a].processStatus # "SUMMARIZING"
    /\ article[a].retryAt # "ahead"
    /\ RetryCount(article[a]) < RetryLimit

(* retryArticleSummary up to its last early return; the others change      *)
(* nothing and are not steps.  The article row is read without a lock of   *)
(* its own, so the write below uses what may no longer be there.           *)
RetryRead(a, key) ==
    /\ request = {} /\ RetryAllowed(a, key)
    /\ article[a].generation < MaxGeneration
    /\ request' = {[id |-> a, key |-> key, generation |-> article[a].generation + 1,
                    count |-> RetryCount(article[a]) + 1, opens |-> ~article[a].inWindow]}
    /\ UNCHANGED <<article, task, redis, worker, reclaiming, adding, faults>>

(* Mutant of Requeued: the retry clears the document it will replace.      *)
RequeuedWithoutDocument(row, r) ==
    [row EXCEPT !.generation = r.generation, !.resultGeneration = NoResult,
                !.processStatus = "SUMMARIZING", !.stage = "QUEUED",
                !.retryCount = r.count, !.inWindow = IF r.opens THEN TRUE ELSE @,
                !.errorCode = "null", !.retryAt = "null"]
(* The row after an accepted retry: the last good document is kept.        *)
Requeued(row, r) ==
    [row EXCEPT !.generation = r.generation, !.processStatus = "SUMMARIZING",
                !.stage = "QUEUED", !.retryCount = r.count,
                !.inWindow = IF r.opens THEN TRUE ELSE @,
                !.errorCode = "null", !.retryAt = "null"]

(* The write from that snapshot; the unique index guards the task's row.   *)
RetryWrite(r) ==
    /\ task[<<r.id, r.generation>>].state = "ABSENT"
    /\ article' = [article EXCEPT ![r.id] = Requeued(@, r)]
    /\ task' = [task EXCEPT ![<<r.id, r.generation>>] = NewTask(r.key)]
    /\ request' = {}
    /\ UNCHANGED <<redis, worker, reclaiming, adding, faults>>

(* Rolled back: a database error, or the process died with it open.        *)
RetryAborts ==
    /\ request # {} /\ Fault
    /\ request' = {}
    /\ UNCHANGED <<article, task, redis, worker, reclaiming, adding>>

(* Mutant of TasksWithout: the foreign key does not cascade.               *)
TasksKept(a) == task
(* onDelete: Cascade                                                       *)
TasksWithout(a) == [id \in TaskIds |-> IF id[1] = a THEN NoTask ELSE task[id]]

(* ArticlesService.remove; the foreign key deletes the tasks with the row. *)
Remove(a) ==
    /\ request = {} /\ article[a].row = "saved"
    /\ article' = [article EXCEPT ![a] = BlankArticle("removed")]
    /\ task' = TasksWithout(a)
    /\ UNCHANGED <<redis, worker, reclaiming, adding, request, faults>>

-------------------------------------------------------------------------------
(* SummaryJobService.dispatch, in process p.                               *)

(* Mutant of LapsedTasks: only tasks with an attempt left are looked for.  *)
LapsedRetryableTasks ==
    {id \in TaskIds : task[id].state = "RUNNING" /\ task[id].lapsed
                      /\ task[id].attempts < MaxAttempts}
LapsedTasks == {id \in TaskIds : task[id].state = "RUNNING" /\ task[id].lapsed}

(* The lapsed leases are read; each snapshot keeps the lease it saw lapse. *)
(* A pass that finds none goes straight on to DispatchSelect.              *)
DispatchStart(p) ==
    /\ reclaiming[p] = {}
    /\ reclaiming' = [reclaiming EXCEPT ![p] =
         {[id |-> id, attempts |-> task[id].attempts, lease |-> task[id].lease] :
            id \in LapsedTasks}]
    /\ UNCHANGED <<article, task, redis, worker, adding, request, faults>>

(* Mutant of StillExpired: the transaction reads the clock again, and so   *)
(* takes a later lease for the one whose attempts dispatch has read.       *)
StillExpiredByNow(e) == task[e.id].state = "RUNNING" /\ task[e.id].lapsed
(* leaseExpiresAt <= now for dispatch's own, older now: only a lease that  *)
(* had lapsed when dispatch started qualifies.                             *)
StillExpired(e) == task[e.id].state = "RUNNING" /\ task[e.id].lease = e.lease

ReclaimedTask(t, terminal) ==
    [t EXCEPT !.state = IF terminal THEN "FAILED" ELSE "PENDING", !.lease = 0,
              !.lapsed = FALSE, !.due = TRUE,
              !.result = IF terminal THEN FALSE ELSE @]
InterruptedArticle(row, terminal) ==
    [row EXCEPT !.stage = IF terminal THEN "FAILED" ELSE "QUEUED",
                !.processStatus = IF terminal THEN "SUMMARY_FAILED" ELSE "SUMMARIZING",
                !.errorCode = "WORKER_INTERRUPTED"]

(* updateMany of the article in a task's transaction: no row, no write.    *)
WriteCurrent(id, row) ==
    article' = IF CurrentFor(id) THEN [article EXCEPT ![id[1]] = row] ELSE article

(* One reclaiming transaction; terminal is decided by the snapshot.        *)
Reclaim(p, e) ==
    LET terminal == Exhausted(e.attempts)
    IN /\ e \in reclaiming[p]
       /\ reclaiming' = [reclaiming EXCEPT ![p] = @ \ {e}]
       /\ IF ~StillExpired(e) THEN UNCHANGED <<article, task>>
          ELSE /\ task' = [task EXCEPT ![e.id] = ReclaimedTask(@, terminal)]
               /\ WriteCurrent(e.id, InterruptedArticle(article[e.id[1]], terminal))
       /\ UNCHANGED <<redis, worker, adding, request, faults>>

(* The due outbox is read once every snapshot is handled, and a queue.add  *)
(* is started for each task that has none pending.  The code awaits them   *)
(* one by one, up to a timeout that ends the pass; here all are pending at *)
(* once, which gives Redis every order the awaits allow and more.          *)
DispatchSelect(p) ==
    /\ reclaiming[p] = {}
    /\ adding' = [adding EXCEPT ![p] =
         @ \cup {id \in TaskIds : task[id].state = "PENDING" /\ task[id].due}]
    /\ UNCHANGED <<article, task, redis, worker, reclaiming, request, faults>>

(* Redis answers queue.add: a job with that jobId is kept if there is one. *)
JobAdded(p, id) ==
    /\ id \in adding[p]
    /\ redis' = [redis EXCEPT ![id] = IF @ = "none" THEN "waiting" ELSE @]
    /\ adding' = [adding EXCEPT ![p] = @ \ {id}]
    /\ UNCHANGED <<article, task, worker, reclaiming, request, faults>>

(* queue.add rejects, or the pass timed out before it was made.            *)
AddFails(p, id) ==
    /\ id \in adding[p] /\ Fault
    /\ adding' = [adding EXCEPT ![p] = @ \ {id}]
    /\ UNCHANGED <<article, task, redis, worker, reclaiming, request>>

(* A database error leaves the reclaiming loop.                            *)
DispatchAborts(p) ==
    /\ reclaiming[p] # {} /\ Fault
    /\ reclaiming' = [reclaiming EXCEPT ![p] = {}]
    /\ UNCHANGED <<article, task, redis, worker, adding, request>>

-------------------------------------------------------------------------------
(* SummaryProcessor.processJob, in worker slot w.                          *)

Goto(w, pc) == worker' = [worker EXCEPT ![w] = [@ EXCEPT !.pc = pc]]
Throw(w, f) ==
    worker' = [worker EXCEPT ![w] = [@ EXCEPT !.pc = "failing", !.failure = f]]
(* summaryFailure of an error that is not the generator's own.             *)
PersistenceFailed == [retryable |-> TRUE, wait |-> FALSE]

(* Mutant of Owns: where(lease) without the lease token.                   *)
OwnsAnyLease(w) ==
    task[worker[w].task].state = "RUNNING" /\ ~task[worker[w].task].lapsed
(* where(lease): the row is RUNNING under this worker's token, unlapsed.   *)
(* Its new Date() is read just before the row is locked; a lease that ends *)
(* in between is taken to end after the write, as nobody has acted on it.  *)
Owns(w) ==
    LET t == task[worker[w].task]
    IN t.state = "RUNNING" /\ t.lease = worker[w].lease /\ ~t.lapsed

(* The handler is in its try block, with a lease in hand.                  *)
Holds(w) == worker[w].pc \notin {"idle", "claim", "finish"}

(* BullMQ hands the job to a free slot.                                    *)
Fetch(w, id) ==
    /\ worker[w].pc = "idle" /\ redis[id] = "waiting"
    /\ redis' = [redis EXCEPT ![id] = w]
    /\ worker' = [worker EXCEPT ![w] = [IdleWorker EXCEPT !.pc = "claim", !.task = id]]
    /\ UNCHANGED <<article, task, reclaiming, adding, request, faults>>

(* Mutant of Claimable: a redelivered job ignores notBefore.               *)
ClaimableEarly(id) ==
    task[id].state = "PENDING" /\ ~Exhausted(task[id].attempts)
Claimable(id) ==
    /\ task[id].state = "PENDING" /\ task[id].due
    /\ ~Exhausted(task[id].attempts)

(* Mutant of FirstStep: the checkpoint is never read back.                 *)
FirstStepAfresh(id) == "begin"
(* A valid checkpoint of an earlier attempt replaces extraction and AI call.*)
FirstStep(id) == IF task[id].result THEN "persist" ELSE "begin"

ClaimedTask(t) ==
    [t EXCEPT !.state = "RUNNING", !.attempts = @ + 1, !.lease = t.attempts + 1,
              !.lapsed = FALSE]

(* claim, when the compare-and-set wins.  If its answer is lost the row is *)
(* RUNNING under a token that no worker holds.                             *)
ClaimWins(w) ==
    LET id == worker[w].task
        n == task[id].attempts + 1
    IN /\ worker[w].pc = "claim" /\ CurrentFor(id) /\ Claimable(id)
       /\ task' = [task EXCEPT ![id] = ClaimedTask(@)]
       /\ \/ /\ worker' = [worker EXCEPT ![w] =
                  [@ EXCEPT !.pc = FirstStep(id), !.attempts = n, !.lease = n]]
             /\ NoFault
          \/ Goto(w, "finish") /\ Fault
       /\ UNCHANGED <<article, redis, reclaiming, adding, request>>

RetiredTask(t) == [t EXCEPT !.state = "FAILED", !.result = FALSE]

(* claim, otherwise: a superseded task still in the outbox is retired.     *)
ClaimMisses(w) ==
    LET id == worker[w].task
    IN /\ worker[w].pc = "claim" /\ ~(CurrentFor(id) /\ Claimable(id))
       /\ task' = IF ~CurrentFor(id) /\ task[id].state = "PENDING"
                  THEN [task EXCEPT ![id] = RetiredTask(@)]
                  ELSE task
       /\ Goto(w, "finish")
       /\ UNCHANGED <<article, redis, reclaiming, adding, request, faults>>

(* Mutant of StageTx: only the generation is checked, not the lease.       *)
StageTxUnowned(w, stage, next) ==
    LET id == worker[w].task
    IN IF CurrentFor(id)
       THEN /\ WriteCurrent(id, [article[id[1]] EXCEPT !.stage = stage])
            /\ Goto(w, next)
       ELSE Goto(w, "finish") /\ UNCHANGED article

(* stage: renew the lease and show the stage, or neither (STALE_JOB).      *)
StageTx(w, stage, next) ==
    LET id == worker[w].task
    IN IF Owns(w) /\ CurrentFor(id)
       THEN /\ WriteCurrent(id, [article[id[1]] EXCEPT !.stage = stage])
            /\ Goto(w, next)
       ELSE Goto(w, "finish") /\ UNCHANGED article

StageExtracting(w) ==
    /\ worker[w].pc = "begin" /\ StageTx(w, "EXTRACTING", "extracting")
    /\ UNCHANGED <<task, redis, reclaiming, adding, request, faults>>

(* The source was extracted; the AI is called once this stage is shown.    *)
StageGenerating(w) ==
    /\ worker[w].pc = "extracting" /\ StageTx(w, "GENERATING", "generating")
    /\ UNCHANGED <<task, redis, reclaiming, adding, request, faults>>

ExtractFails(w) ==
    /\ worker[w].pc = "extracting"
    /\ Throw(w, [retryable |-> TRUE, wait |-> FALSE])
    /\ UNCHANGED <<article, task, redis, reclaiming, adding, request, faults>>

(* AI_RATE_LIMIT, AI_UNAVAILABLE, AI_CONFIGURATION or INVALID_MARKDOWN.    *)
SummarizeFails(w, f) ==
    /\ worker[w].pc = "generating" /\ Throw(w, f)
    /\ UNCHANGED <<article, task, redis, reclaiming, adding, request, faults>>

(* The answer of the AI is kept in the task before it is published.        *)
Checkpoint(w) ==
    LET id == worker[w].task
    IN /\ worker[w].pc = "generating"
       /\ \/ /\ Owns(w)
             /\ task' = [task EXCEPT ![id] = [@ EXCEPT !.result = TRUE]]
             /\ \/ Goto(w, "persist") /\ NoFault
                \/ Throw(w, PersistenceFailed) /\ Fault
          \/ /\ ~Owns(w) /\ Goto(w, "finish")
             /\ UNCHANGED <<task, faults>>
       /\ UNCHANGED <<article, redis, reclaiming, adding, request>>

(* if (leaseLost) return, then the last stage.                             *)
StagePersisting(w) ==
    /\ worker[w].pc = "persist"
    /\ IF worker[w].lost THEN Goto(w, "finish") /\ UNCHANGED article
       ELSE StageTx(w, "PERSISTING", "complete")
    /\ UNCHANGED <<task, redis, reclaiming, adding, request, faults>>

SucceededTask(t) ==
    [t EXCEPT !.state = "SUCCEEDED", !.lease = 0, !.lapsed = FALSE, !.result = FALSE]
PublishedArticle(row, generation) ==
    [row EXCEPT !.processStatus = "SUMMARY_DONE", !.resultGeneration = generation,
                !.stage = "DONE", !.errorCode = "null", !.retryAt = "null"]

(* SUMMARY_DONE stands for CONTEXT_INSUFFICIENT too: it is as final.        *)
(* complete: the task succeeds and its document replaces the article's.    *)
Complete(w) ==
    LET id == worker[w].task
    IN /\ worker[w].pc = "complete" /\ Owns(w)
       /\ task' = [task EXCEPT ![id] = SucceededTask(@)]
       /\ WriteCurrent(id, PublishedArticle(article[id[1]], id[2]))
       /\ \/ Goto(w, "finish") /\ NoFault
          \/ Throw(w, PersistenceFailed) /\ Fault
       /\ UNCHANGED <<redis, reclaiming, adding, request>>

CompleteMisses(w) ==
    /\ worker[w].pc = "complete" /\ ~Owns(w) /\ Goto(w, "finish")
    /\ UNCHANGED <<article, task, redis, reclaiming, adding, request, faults>>

(* Any other transaction of the try block fails with no effect.            *)
StepFails(w) ==
    /\ \/ worker[w].pc \in {"begin", "extracting", "generating", "complete"}
       \/ worker[w].pc = "persist" /\ ~worker[w].lost
    /\ Throw(w, PersistenceFailed) /\ Fault
    /\ UNCHANGED <<article, task, redis, reclaiming, adding, request>>

FailedTask(t, retry) ==
    [t EXCEPT !.state = IF retry THEN "PENDING" ELSE "FAILED", !.lease = 0,
              !.lapsed = FALSE, !.due = FALSE, !.result = IF retry THEN @ ELSE FALSE]
FailedArticle(row, retry, wait) ==
    [row EXCEPT !.processStatus = IF retry THEN "SUMMARIZING" ELSE "SUMMARY_FAILED",
                !.stage = IF retry THEN "QUEUED" ELSE "FAILED",
                !.errorCode = "TASK_FAILURE",
                !.retryAt = IF retry \/ wait THEN "ahead" ELSE "null"]

(* fail, unless leaseLost: back to the outbox after a delay, or the end.   *)
Fail(w) ==
    LET id == worker[w].task
        f == worker[w].failure
        retry == f.retryable /\ ~Exhausted(worker[w].attempts)
    IN /\ worker[w].pc = "failing" /\ Goto(w, "finish")
       /\ IF worker[w].lost \/ ~Owns(w) THEN UNCHANGED <<article, task>>
          ELSE /\ task' = [task EXCEPT ![id] = FailedTask(@, retry)]
               /\ WriteCurrent(id, FailedArticle(article[id[1]], retry, f.wait))
       /\ UNCHANGED <<redis, reclaiming, adding, request, faults>>

(* claim or fail throws out of processJob: BullMQ fails the job.           *)
JobThrows(w) ==
    /\ worker[w].pc \in {"claim", "failing"} /\ Goto(w, "finish") /\ Fault
    /\ UNCHANGED <<article, task, redis, reclaiming, adding, request>>

(* A heartbeat finds the lease gone, or fails.  One that succeeds renews   *)
(* an unlapsed lease, which leaves it unlapsed.                            *)
Heartbeat(w) ==
    /\ Holds(w) /\ ~worker[w].lost
    /\ worker' = [worker EXCEPT ![w] = [@ EXCEPT !.lost = TRUE]]
    /\ IF Owns(w) THEN Fault ELSE NoFault
    /\ UNCHANGED <<article, task, redis, reclaiming, adding, request>>

(* The handler has returned: BullMQ removes the job if still w's.          *)
Finish(w) ==
    /\ worker[w].pc = "finish"
    /\ redis' = [id \in TaskIds |->
                   IF id = worker[w].task /\ redis[id] = w THEN "none" ELSE redis[id]]
    /\ worker' = [worker EXCEPT ![w] = IdleWorker]
    /\ UNCHANGED <<article, task, reclaiming, adding, request, faults>>

-------------------------------------------------------------------------------
(* Time, Redis and crashes.                                                *)

LeaseLapses(id) ==
    /\ task[id].state = "RUNNING" /\ ~task[id].lapsed
    /\ task' = [task EXCEPT ![id] = [@ EXCEPT !.lapsed = TRUE]]
    /\ UNCHANGED <<article, redis, worker, reclaiming, adding, request, faults>>

(* notBefore and retryAt are the same instant, so they pass together.      *)
DelayPasses(id) ==
    /\ task[id].state \in {"PENDING", "FAILED"} /\ ~task[id].due
    /\ task' = [task EXCEPT ![id] = [@ EXCEPT !.due = TRUE]]
    /\ WriteCurrent(id, [article[id[1]] EXCEPT !.retryAt =
                           IF @ = "ahead" THEN "passed" ELSE @])
    /\ UNCHANGED <<redis, worker, reclaiming, adding, request, faults>>

WindowPasses(a) ==
    /\ article[a].inWindow
    /\ article' = [article EXCEPT ![a] = [@ EXCEPT !.inWindow = FALSE]]
    /\ UNCHANGED <<task, redis, worker, reclaiming, adding, request, faults>>

(* BullMQ requeues or fails a job whose lock was not renewed: its worker   *)
(* is gone, or is still at it, which then is a fault.                      *)
JobStalls(id) ==
    /\ redis[id] \in Workers
    /\ redis' \in {[redis EXCEPT ![id] = s] : s \in {"waiting", "none"}}
    /\ UNCHANGED <<article, task, worker, reclaiming, adding, request>>
JobRecovered(id) ==
    JobStalls(id) /\ worker[redis[id]].task # id /\ NoFault
JobTaken(id) ==
    JobStalls(id) /\ worker[redis[id]].task = id /\ Fault

JobLost(id) ==
    /\ redis[id] = "waiting" /\ Fault
    /\ redis' = [redis EXCEPT ![id] = "none"]
    /\ UNCHANGED <<article, task, worker, reclaiming, adding, request>>

(* A process dies and starts again with nothing in memory.                 *)
Crash(p) ==
    /\ Fault
    /\ worker' = [w \in Workers |-> IF Home[w] = p THEN IdleWorker ELSE worker[w]]
    /\ reclaiming' = [reclaiming EXCEPT ![p] = {}]
    /\ adding' = [adding EXCEPT ![p] = {}]
    /\ UNCHANGED <<article, task, redis, request>>

-------------------------------------------------------------------------------
RequestStep ==
    \/ \E a \in Articles : Create(a) \/ Remove(a)
    \/ \E a \in Articles, key \in Keys \cup {NoKey} : RetryRead(a, key)
    \/ \E r \in request : RetryWrite(r)
    \/ RetryAborts

(* The steps dispatch takes when nothing fails.                            *)
DispatchStep(p) ==
    \/ DispatchStart(p) \/ DispatchSelect(p)
    \/ \E e \in reclaiming[p] : Reclaim(p, e)

(* The steps a handler takes when nothing fails but what it calls.         *)
WorkerStep(w) ==
    \/ ClaimWins(w) \/ ClaimMisses(w)
    \/ StageExtracting(w) \/ StageGenerating(w) \/ ExtractFails(w)
    \/ \E f \in Failure : SummarizeFails(w, f)
    \/ Checkpoint(w) \/ StagePersisting(w) \/ Complete(w) \/ CompleteMisses(w)
    \/ Fail(w) \/ Finish(w)

FaultStep ==
    \/ \E p \in Procs : DispatchAborts(p) \/ Crash(p)
    \/ \E p \in Procs, id \in TaskIds : AddFails(p, id)
    \/ \E w \in Workers : StepFails(w) \/ JobThrows(w)
    \/ \E id \in TaskIds : JobLost(id) \/ JobTaken(id)

Next ==
    \/ RequestStep \/ FaultStep
    \/ \E p \in Procs : DispatchStep(p) \/ \E id \in TaskIds : JobAdded(p, id)
    \/ \E w \in Workers : WorkerStep(w) \/ Heartbeat(w)
    \/ \E w \in Workers, id \in TaskIds : Fetch(w, id)
    \/ \E id \in TaskIds : LeaseLapses(id) \/ DelayPasses(id) \/ JobRecovered(id)
    \/ \E a \in Articles : WindowPasses(a)

Spec == Init /\ [][Next]_vars

(* Fairness: dispatch is polled every 5 s for as long as a process is up,  *)
(* BullMQ delivers what it holds and checks for stalled jobs, handlers and *)
(* pending calls end, and time passes.  Users owe nothing, and faults stop *)
(* after MaxFaults.                                                        *)
Fairness ==
    /\ \A p \in Procs : WF_vars(DispatchStep(p))
    /\ \A p \in Procs, id \in TaskIds : WF_vars(JobAdded(p, id))
    /\ \A w \in Workers : WF_vars(WorkerStep(w))
    /\ \A id \in TaskIds :
         /\ WF_vars(\E w \in Workers : Fetch(w, id))
         /\ WF_vars(LeaseLapses(id)) /\ WF_vars(DelayPasses(id))
         /\ WF_vars(JobRecovered(id))
    /\ WF_vars(\E r \in request : RetryWrite(r))

FairSpec == Spec /\ Fairness

-------------------------------------------------------------------------------
(* Properties.                                                             *)

TypeOK ==
    /\ article \in [Articles -> ArticleRow]
    /\ task \in [TaskIds -> TaskRow]
    /\ redis \in [TaskIds -> {"none", "waiting"} \cup Workers]
    /\ worker \in [Workers -> WorkerState]
    /\ reclaiming \in [Procs -> SUBSET Snapshot]
    /\ adding \in [Procs -> SUBSET TaskIds]
    /\ request \in SUBSET RetryRequest
    /\ faults \in 0..MaxFaults

(* A task that a worker may still execute is that of the article's current *)
(* generation, and the article says it is being summarised.  Were it to    *)
(* fail, an old worker could overwrite or resurrect newer state.           *)
LiveTaskIsCurrent ==
    \A id \in TaskIds : Live(id) => CurrentFor(id) /\ Processing(id[1])

(* An article that says SUMMARIZING, which refuses every retry, has a task *)
(* that will end it: running, or pending with an attempt left to claim.    *)
ProcessingIsBacked ==
    \A a \in Articles : Processing(a) =>
        LET t == task[<<a, article[a].generation>>]
        IN \/ t.state = "RUNNING"
           \/ t.state = "PENDING" /\ t.attempts < MaxAttempts

(* Two workers never both own one task, however late the first wakes up.   *)
LeaseIsExclusive ==
    \A w1, w2 \in Workers :
        /\ Holds(w1) /\ Holds(w2)
        /\ worker[w1].task = worker[w2].task /\ Owns(w1) /\ Owns(w2)
        => w1 = w2

StageFits(row) ==
    /\ row.processStatus = "SUMMARY_DONE" <=> row.stage = "DONE"
    /\ row.processStatus = "SUMMARY_FAILED" <=> row.stage = "FAILED"

(* The stage a reader is shown agrees with the status of the generation,   *)
(* whatever a worker that lost its lease still tries to write.             *)
StageMatchesStatus ==
    \A a \in Articles :
        article[a].row = "saved" /\ article[a].generation > 0 => StageFits(article[a])

(* A paid answer kept as a checkpoint is used by later attempts, and is    *)
(* not left behind as a second stored summary when the task has ended.     *)
CheckpointIsUsed ==
    /\ \A id \in TaskIds : task[id].result => Live(id)
    /\ \A w \in Workers : worker[w].pc \in {"begin", "extracting", "generating"}
                          /\ Owns(w) => ~task[worker[w].task].result

(* A task interrupted for good leaves no cooldown that a retry must wait   *)
(* for, although the attempt before it may have set one.                   *)
InterruptionCanBeRetried ==
    \A a \in Articles :
        /\ article[a].row = "saved"
        /\ article[a].processStatus = "SUMMARY_FAILED"
        /\ article[a].errorCode = "WORKER_INTERRUPTED"
        => article[a].retryAt # "ahead"

(* The document changes only when the worker that owns the task of the     *)
(* current generation publishes it, always for a newer generation; no      *)
(* failure, retry, reclaim or late worker touches the last good document.  *)
DocumentOnlyFromOwner ==
    [][\A a \in Articles :
         article[a]'.row = "saved"
         /\ article[a]'.resultGeneration # article[a].resultGeneration =>
           /\ article[a]'.resultGeneration = article[a].generation
           /\ article[a].row = "saved"
           /\ \E w \in Workers : /\ worker[w].task = <<a, article[a].generation>>
                                 /\ worker[w].pc = "complete" /\ Owns(w)]_vars

(* The subsystem implements its contract.                                  *)
PhaseOf(row) ==
    IF row.row # "saved" THEN row.row
    ELSE IF row.processStatus = "SUMMARIZING" THEN "processing" ELSE "settled"

Contract == INSTANCE SummaryContract WITH
    phase <- [a \in Articles |-> PhaseOf(article[a])],
    generation <- [a \in Articles |-> article[a].generation],
    shown <- [a \in Articles |-> article[a].resultGeneration]

ImplementsContract == Contract!Spec

(* Under Fairness, an article stuck in SUMMARIZING is impossible: the task *)
(* outlives crashes, lost jobs and lost answers until it ends.             *)
SettlesEventually == Contract!Settles

-------------------------------------------------------------------------------
(* The inductive invariant behind them.                                    *)

(* A lease token is held exactly while RUNNING and counts the claims, a    *)
(* pending task has an attempt left, and only a live task has a checkpoint.*)
LeaseCountsClaims ==
    \A id \in TaskIds :
        /\ task[id].state = "RUNNING" => task[id].lease = task[id].attempts
                                         /\ task[id].attempts > 0
        /\ task[id].state # "RUNNING" => task[id].lease = 0
        /\ task[id].state = "PENDING" => ~Exhausted(task[id].attempts)
        /\ task[id].result => Live(id)

(* No task is ahead of its article, or outlives it.                        *)
NoOrphanTask ==
    /\ \A a \in Articles : article[a].row = "never" => article[a] = NoArticle
    /\ \A id \in TaskIds : task[id].state # "ABSENT" =>
         article[id[1]].row = "saved" /\ id[2] <= article[id[1]].generation

(* A row that is not there, or no longer, starts from no attempt.          *)
AbsentIsUnclaimed ==
    \A id \in TaskIds : task[id].state = "ABSENT" => task[id].attempts = 0

(* A cooldown shown to the user is the task's own delay, still running.    *)
CooldownIsDelay ==
    \A a \in Articles : article[a].row = "saved" /\ article[a].retryAt = "ahead" =>
        /\ task[<<a, article[a].generation>>].state \in {"PENDING", "FAILED"}
        /\ ~task[<<a, article[a].generation>>].due
        /\ article[a].errorCode = "TASK_FAILURE"

(* A dispatch snapshot remembers the attempts of the lease it saw lapse.   *)
SnapshotsMatch ==
    \A p \in Procs : \A e \in reclaiming[p] : e.lease = e.attempts /\ e.lease > 0

(* Handlers remember distinct claims of tasks, none newer than the row's.  *)
HandlersMatch ==
    /\ \A w \in Workers :
         /\ worker[w].pc # "idle" => worker[w].task \in TaskIds
         /\ Holds(w) => /\ worker[w].lease = worker[w].attempts
                        /\ worker[w].lease > 0
                        /\ \/ article[worker[w].task[1]].row = "removed"
                           \/ worker[w].lease <= task[worker[w].task].attempts
    /\ \A w1, w2 \in Workers :
         /\ Holds(w1) /\ Holds(w2) /\ w1 # w2 /\ worker[w1].task = worker[w2].task
         => worker[w1].lease # worker[w2].lease

(* What an open retry has read still holds: nothing but the user's own     *)
(* requests, which its lock keeps out, moves an article that is settled.   *)
RetryReadHolds ==
    \A r \in request : /\ article[r.id].row = "saved"
                       /\ article[r.id].processStatus # "SUMMARIZING"
                       /\ r.generation = article[r.id].generation + 1

IInv ==
    /\ TypeOK /\ LiveTaskIsCurrent /\ ProcessingIsBacked
    /\ LeaseCountsClaims /\ NoOrphanTask /\ AbsentIsUnclaimed /\ CooldownIsDelay
    /\ SnapshotsMatch /\ HandlersMatch /\ RetryReadHolds
    /\ StageMatchesStatus /\ CheckpointIsUsed
=============================================================================
