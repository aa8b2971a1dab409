---------------------------- MODULE SummaryVariants ----------------------------
(***************************************************************************)
(* Summaries of one article in other densities (SummaryVariantService,     *)
(* SummaryVariantJobService, SummaryVariantProcessor).  A variant is made  *)
(* from the text that the base summary of some generation was made from,   *)
(* its source; it is listed for as long as that is the article's.          *)
(*                                                                         *)
(* Time, leases and faults are abstracted as in SummaryTasks.  The queue   *)
(* is abstracted further: "queued" jobs may be delivered at any time and   *)
(* again while they are being executed, until a handler has returned.      *)
(***************************************************************************)
EXTENDS Integers, FiniteSets

CONSTANTS
    Densities,      \* densities that can be requested
    Workers,        \* worker slots of all the processes
    Keys,           \* Idempotency-Key values sent by clients
    NoKey,          \* a request without the header; requestKey IS NULL
    MaxAttempts,    \* MAX_TASK_ATTEMPTS
    MaxGeneration,  \* bound on the generations of one variant
    MaxSource,      \* bound on the generations of the article's document
    MaxFaults       \* bound on faults in a behaviour

ASSUME VariantAssumption ==
    /\ NoKey \notin Keys
    /\ MaxAttempts \in Nat \ {0}
    /\ MaxGeneration \in Nat \ {0}
    /\ MaxSource \in Nat
    /\ MaxFaults \in Nat

NoSource == 0               \* no document, or one that no variant is made of
Sources == 0..MaxSource
Attempts == 0..MaxAttempts
TaskIds == Densities \X (1..MaxGeneration)  \* unique (variantId, generation)

VARIABLES
    article,        \* whether the row exists, and its resultGeneration
    variant,        \* summary_variants rows; generation 0 stands for no row
    task,           \* summary_variant_tasks rows
    queued,         \* tasks of which BullMQ holds a job
    reclaiming,     \* lapsed leases read by some dispatch and not handled yet
    worker,         \* SummaryVariantProcessor.processJob in each slot
    faults          \* faults so far

vars == <<article, variant, task, queued, reclaiming, worker, faults>>

-------------------------------------------------------------------------------
VariantRow ==
    [generation : 0..MaxGeneration, source : Sources,
     state : {"NONE", "PENDING", "RUNNING", "SUCCEEDED", "FAILED"},
     markdown : Sources,            \* the source it was made from, 0 for NULL
     retryAt : {"null", "ahead", "passed"}]
TaskRow ==
    [state : {"ABSENT", "PENDING", "RUNNING", "SUCCEEDED", "FAILED"},
     source : Sources, requestKey : Keys \cup {NoKey}, attempts : Attempts,
     due : BOOLEAN, lease : Attempts, lapsed : BOOLEAN, result : Sources]
Failure == [retryable : BOOLEAN, wait : BOOLEAN]
Snapshot == [id : TaskIds, attempts : Attempts, lease : Attempts]
WorkerState ==
    [pc : {"idle", "read", "claim", "generating", "complete", "failing", "finish"},
     task : TaskIds \cup {<<>>}, source : Sources,
     view : {"none", "fresh", "stale", "gone"},  \* what claim's reads found
     text : Sources,                             \* the source of the text read
     markdown : Sources, lease : Attempts, attempts : Attempts,
     lost : BOOLEAN, failure : Failure]

NoVariant == [generation |-> 0, source |-> NoSource, state |-> "NONE",
              markdown |-> NoSource, retryAt |-> "null"]
NoTask == [state |-> "ABSENT", source |-> NoSource, requestKey |-> NoKey,
           attempts |-> 0, due |-> FALSE, lease |-> 0, lapsed |-> FALSE,
           result |-> NoSource]
NewTask(source, key) ==
    [NoTask EXCEPT !.state = "PENDING", !.source = source, !.requestKey = key,
                   !.due = TRUE]
IdleWorker ==
    [pc |-> "idle", task |-> <<>>, source |-> NoSource, view |-> "none",
     text |-> NoSource, markdown |-> NoSource, lease |-> 0, attempts |-> 0,
     lost |-> FALSE, failure |-> [retryable |-> TRUE, wait |-> FALSE]]

Live(id) == task[id].state \in {"PENDING", "RUNNING"}
(* attempts >= MAX_TASK_ATTEMPTS                                           *)
Exhausted(attempts) == attempts >= MaxAttempts

Init ==
    /\ article = [saved |-> TRUE, source |-> NoSource]
    /\ variant = [d \in Densities |-> NoVariant]
    /\ task = [id \in TaskIds |-> NoTask]
    /\ queued = {}
    /\ reclaiming = {}
    /\ worker = [w \in Workers |-> IdleWorker]
    /\ faults = 0

Fault == faults < MaxFaults /\ faults' = faults + 1
NoFault == UNCHANGED faults

-------------------------------------------------------------------------------
(* The article: what SummaryContract lets its document and its row do.     *)

PublishSource ==
    /\ article.saved /\ article.source < MaxSource
    /\ article' = [article EXCEPT !.source = @ + 1]
    /\ UNCHANGED <<variant, task, queued, reclaiming, worker, faults>>

(* onDelete: Cascade, from the article to its variants and their tasks.    *)
Remove ==
    /\ article.saved
    /\ article' = [saved |-> FALSE, source |-> NoSource]
    /\ variant' = [d \in Densities |-> NoVariant]
    /\ task' = [id \in TaskIds |-> NoTask]
    /\ UNCHANGED <<queued, reclaiming, worker, faults>>

-------------------------------------------------------------------------------
(* SummaryVariantService.request.  The article's row is locked, so two     *)
(* requests and a publication exclude each other.  Only requests change a  *)
(* variant's generation or source, and the row is written whole, so what   *)
(* workers do to it in the meantime does not matter: one action.           *)

Current(d) == variant[d].generation > 0 /\ variant[d].source = article.source

KeyKnown(d, key) ==
    key # NoKey /\ \E g \in 1..MaxGeneration : task[<<d, g>>].state # "ABSENT"
                                               /\ task[<<d, g>>].requestKey = key

(* Mutant of Refused: a variant that is RUNNING may be requested again.    *)
RefusedUnlessPending(d, key) ==
    /\ Current(d)
    /\ \/ variant[d].state \in {"SUCCEEDED", "PENDING"}
       \/ variant[d].retryAt = "ahead"
       \/ KeyKnown(d, key)
(* The current variant is returned as it is, or the answer is 429.         *)
Refused(d, key) ==
    /\ Current(d)
    /\ \/ variant[d].state \in {"SUCCEEDED", "PENDING", "RUNNING"}
       \/ variant[d].retryAt = "ahead"
       \/ KeyKnown(d, key)

(* Mutant of TaskKey: a known key is stored again.                         *)
TaskKeyAsSent(d, key) == key
(* A key already used for an older source is not stored a second time.     *)
TaskKey(d, key) == IF KeyKnown(d, key) THEN NoKey ELSE key

Request(d, key) ==
    LET next == variant[d].generation + 1
    IN /\ article.saved /\ article.source # NoSource
       /\ ~Refused(d, key) /\ next <= MaxGeneration
       /\ variant' = [variant EXCEPT ![d] =
            [generation |-> next, source |-> article.source, state |-> "PENDING",
             markdown |-> NoSource, retryAt |-> "null"]]
       /\ task' = [task EXCEPT ![<<d, next>>] =
            NewTask(article.source, TaskKey(d, key))]
       /\ UNCHANGED <<article, queued, reclaiming, worker, faults>>

-------------------------------------------------------------------------------
(* SummaryVariantJobService.dispatch, of any process.                      *)

(* where: { id: variantId, generation, sourceGeneration }                  *)
Named(id, source) ==
    variant[id[1]].generation = id[2] /\ variant[id[1]].source = source
(* Mutant of WriteNamed: the variant is written by its id.                 *)
WriteById(id, source, row) == variant' = [variant EXCEPT ![id[1]] = row]
(* updateMany of the variant in a task's transaction: no row, no write.    *)
WriteNamed(id, source, row) ==
    variant' = IF Named(id, source) THEN [variant EXCEPT ![id[1]] = row] ELSE variant

(* Mutant of LapsedTasks: only tasks with an attempt left are looked for.  *)
LapsedRetryableTasks ==
    {id \in TaskIds : task[id].state = "RUNNING" /\ task[id].lapsed
                      /\ task[id].attempts < MaxAttempts}
LapsedTasks == {id \in TaskIds : task[id].state = "RUNNING" /\ task[id].lapsed}

DispatchRead ==
    /\ reclaiming' = reclaiming \cup
         {[id |-> id, attempts |-> task[id].attempts, lease |-> task[id].lease] :
            id \in LapsedTasks}
    /\ UNCHANGED <<article, variant, task, queued, worker, faults>>

ReclaimedTask(t, terminal) ==
    [t EXCEPT !.state = IF terminal THEN "FAILED" ELSE "PENDING",
              !.lease = 0, !.lapsed = FALSE, !.due = TRUE]
(* Mutant of InterruptedVariant: the last interruption is not told apart.  *)
InterruptedVariantAgain(row, terminal) ==
    [row EXCEPT !.state = "PENDING", !.retryAt = "passed"]
(* retryAt is now, which no longer refuses a request, or null.             *)
InterruptedVariant(row, terminal) ==
    [row EXCEPT !.state = IF terminal THEN "FAILED" ELSE "PENDING",
                !.retryAt = IF terminal THEN "null" ELSE "passed"]

(* One reclaiming transaction; terminal is decided by the snapshot, and    *)
(* only the lease that it saw lapse qualifies (leaseExpiresAt <= its now). *)
Reclaim(e) ==
    LET t == task[e.id]
        terminal == Exhausted(e.attempts)
    IN /\ e \in reclaiming
       /\ reclaiming' = reclaiming \ {e}
       /\ IF t.state = "RUNNING" /\ t.lease = e.lease
          THEN /\ task' = [task EXCEPT ![e.id] = ReclaimedTask(@, terminal)]
               /\ WriteNamed(e.id, t.source,
                             InterruptedVariant(variant[e.id[1]], terminal))
          ELSE UNCHANGED <<variant, task>>
       /\ UNCHANGED <<article, queued, worker, faults>>

(* The pass ends early: a database error, or the process died.             *)
DispatchAborts(e) ==
    /\ e \in reclaiming /\ Fault
    /\ reclaiming' = reclaiming \ {e}
    /\ UNCHANGED <<article, variant, task, queued, worker>>

(* A due task is read from the outbox and queue.add is answered.           *)
Enqueue(id) ==
    /\ task[id].state = "PENDING" /\ task[id].due
    /\ queued' = queued \cup {id}
    /\ UNCHANGED <<article, variant, task, reclaiming, worker, faults>>

-------------------------------------------------------------------------------
(* SummaryVariantProcessor.processJob, in worker slot w.                   *)

Goto(w, pc) == worker' = [worker EXCEPT ![w] = [@ EXCEPT !.pc = pc]]
Throw(w, f) ==
    worker' = [worker EXCEPT ![w] = [@ EXCEPT !.pc = "failing", !.failure = f]]
(* summaryFailure of an error that is not the generator's own.             *)
PersistenceFailed == [retryable |-> TRUE, wait |-> FALSE]

(* where(lease): the row is RUNNING under this worker's token, unlapsed.   *)
Owns(w) ==
    LET t == task[worker[w].task]
    IN t.state = "RUNNING" /\ t.lease = worker[w].lease /\ ~t.lapsed

Holds(w) == worker[w].pc \in {"generating", "complete", "failing"}

(* BullMQ hands a job to a free slot.                                      *)
Fetch(w, id) ==
    /\ worker[w].pc = "idle" /\ id \in queued
    /\ worker' = [worker EXCEPT ![w] =
         [IdleWorker EXCEPT !.pc = "read", !.task = id, !.source = task[id].source]]
    /\ UNCHANGED <<article, variant, task, queued, reclaiming, faults>>

(* Mutant of View: the variant's source is not compared with the article's.*)
ViewOfVariant(id, source) == IF Named(id, source) THEN "fresh" ELSE "gone"
View(id, source) ==
    IF ~Named(id, source) THEN "gone"
    ELSE IF article.source = source THEN "fresh" ELSE "stale"

(* claim reads the variant and the article, without locks.                 *)
ClaimRead(w) ==
    /\ worker[w].pc = "read"
    /\ worker' = [worker EXCEPT ![w] =
         [@ EXCEPT !.pc = "claim", !.text = article.source,
                   !.view = View(worker[w].task, worker[w].source)]]
    /\ UNCHANGED <<article, variant, task, queued, reclaiming, faults>>

Claimable(id) ==
    /\ task[id].state = "PENDING" /\ task[id].due
    /\ ~Exhausted(task[id].attempts)

(* A valid checkpoint of an earlier attempt replaces the call of the AI.   *)
FirstStep(id) == IF task[id].result # NoSource THEN "complete" ELSE "generating"

ClaimedTask(t) ==
    [t EXCEPT !.state = "RUNNING", !.attempts = @ + 1, !.lease = t.attempts + 1,
              !.lapsed = FALSE]

(* The compare-and-set wins, and the variant is written by its id alone:   *)
(* whatever generation it has by now.                                      *)
ClaimWins(w) ==
    LET id == worker[w].task
        n == task[id].attempts + 1
    IN /\ worker[w].pc = "claim" /\ worker[w].view = "fresh" /\ Claimable(id)
       /\ task' = [task EXCEPT ![id] = ClaimedTask(@)]
       /\ variant' = [variant EXCEPT ![id[1]] =
                        [@ EXCEPT !.state = "RUNNING", !.retryAt = "null"]]
       /\ \/ /\ worker' = [worker EXCEPT ![w] =
                  [@ EXCEPT !.pc = FirstStep(id), !.markdown = task[id].result,
                            !.attempts = n, !.lease = n]]
             /\ NoFault
          \/ Goto(w, "finish") /\ Fault
       /\ UNCHANGED <<article, queued, reclaiming>>

ClaimMisses(w) ==
    /\ worker[w].pc = "claim" /\ worker[w].view = "fresh"
    /\ ~Claimable(worker[w].task) /\ Goto(w, "finish")
    /\ UNCHANGED <<article, variant, task, queued, reclaiming, faults>>

RetiredTask(t) == IF t.state = "PENDING" THEN [t EXCEPT !.state = "FAILED"] ELSE t

(* STALE_SOURCE: the task is retired if it is still in the outbox, and the *)
(* variant fails if it is still that of the job.                           *)
ClaimRetires(w) ==
    LET id == worker[w].task
    IN /\ worker[w].pc = "claim" /\ worker[w].view \in {"stale", "gone"}
       /\ task' = [task EXCEPT ![id] = RetiredTask(@)]
       /\ IF worker[w].view = "gone" THEN UNCHANGED variant
          ELSE WriteNamed(id, worker[w].source,
                          [variant[id[1]] EXCEPT !.state = "FAILED"])
       /\ Goto(w, "finish")
       /\ UNCHANGED <<article, queued, reclaiming, faults>>

(* The AI's answer is kept in the task before it is published.             *)
Checkpoint(w) ==
    LET text == worker[w].text
    IN /\ worker[w].pc = "generating"
       /\ \/ /\ Owns(w)
             /\ task' = [task EXCEPT ![worker[w].task] = [@ EXCEPT !.result = text]]
             /\ \/ /\ worker' = [worker EXCEPT ![w] =
                        [@ EXCEPT !.pc = "complete", !.markdown = text]]
                   /\ NoFault
                \/ Throw(w, PersistenceFailed) /\ Fault
          \/ ~Owns(w) /\ Goto(w, "finish") /\ UNCHANGED <<task, faults>>
       /\ UNCHANGED <<article, variant, queued, reclaiming>>

(* summarize throws, or its answer is INVALID_MARKDOWN.                    *)
SummarizeFails(w, f) ==
    /\ worker[w].pc = "generating" /\ Throw(w, f)
    /\ UNCHANGED <<article, variant, task, queued, reclaiming, faults>>

SucceededTask(t) ==
    [t EXCEPT !.state = "SUCCEEDED", !.lease = 0, !.lapsed = FALSE,
              !.result = NoSource]

(* complete: the task succeeds, and its document is the variant's if the   *)
(* variant is still that of the task.                                      *)
Complete(w) ==
    LET id == worker[w].task
    IN /\ worker[w].pc = "complete" /\ ~worker[w].lost /\ Owns(w)
       /\ task' = [task EXCEPT ![id] = SucceededTask(@)]
       /\ WriteNamed(id, worker[w].source,
            [variant[id[1]] EXCEPT !.state = "SUCCEEDED", !.retryAt = "null",
                                   !.markdown = worker[w].markdown])
       /\ \/ Goto(w, "finish") /\ NoFault
          \/ Throw(w, PersistenceFailed) /\ Fault
       /\ UNCHANGED <<article, queued, reclaiming>>

(* if (leaseLost) return; or no row is the worker's any more.              *)
CompleteMisses(w) ==
    /\ worker[w].pc = "complete" /\ (worker[w].lost \/ ~Owns(w))
    /\ Goto(w, "finish")
    /\ UNCHANGED <<article, variant, task, queued, reclaiming, faults>>

(* A transaction of the try block fails with no effect.                    *)
StepFails(w) ==
    /\ worker[w].pc \in {"generating", "complete"} /\ ~worker[w].lost
    /\ Throw(w, PersistenceFailed) /\ Fault
    /\ UNCHANGED <<article, variant, task, queued, reclaiming>>

FailedTask(t, retry) ==
    [t EXCEPT !.state = IF retry THEN "PENDING" ELSE "FAILED", !.lease = 0,
              !.lapsed = FALSE, !.due = FALSE,
              !.result = IF retry THEN @ ELSE NoSource]
FailedVariant(row, retry, wait) ==
    [row EXCEPT !.state = IF retry THEN "PENDING" ELSE "FAILED",
                !.retryAt = IF retry \/ wait THEN "ahead" ELSE "null"]

(* fail, unless leaseLost: back to the outbox after a delay, or the end.   *)
Fail(w) ==
    LET id == worker[w].task
        f == worker[w].failure
        retry == f.retryable /\ ~Exhausted(worker[w].attempts)
    IN /\ worker[w].pc = "failing" /\ Goto(w, "finish")
       /\ IF worker[w].lost \/ ~Owns(w) THEN UNCHANGED <<variant, task>>
          ELSE /\ task' = [task EXCEPT ![id] = FailedTask(@, retry)]
               /\ WriteNamed(id, worker[w].source,
                             FailedVariant(variant[id[1]], retry, f.wait))
       /\ UNCHANGED <<article, queued, reclaiming, faults>>

(* claim or fail throws out of processJob: BullMQ fails the job.           *)
JobThrows(w) ==
    /\ worker[w].pc \in {"read", "claim", "failing"} /\ Goto(w, "finish") /\ Fault
    /\ UNCHANGED <<article, variant, task, queued, reclaiming>>

(* A heartbeat finds the lease gone, or fails; if it does neither, it      *)
(* renews an unlapsed lease, which leaves it unlapsed.                     *)
Heartbeat(w) ==
    /\ Holds(w) /\ ~worker[w].lost
    /\ worker' = [worker EXCEPT ![w] = [@ EXCEPT !.lost = TRUE]]
    /\ IF Owns(w) THEN Fault ELSE NoFault
    /\ UNCHANGED <<article, variant, task, queued, reclaiming>>

(* The handler has returned: its job is removed.                           *)
Finish(w) ==
    /\ worker[w].pc = "finish"
    /\ queued' = queued \ {worker[w].task}
    /\ worker' = [worker EXCEPT ![w] = IdleWorker]
    /\ UNCHANGED <<article, variant, task, reclaiming, faults>>

-------------------------------------------------------------------------------
(* Time, Redis and crashes.                                                *)

LeaseLapses(id) ==
    /\ task[id].state = "RUNNING" /\ ~task[id].lapsed
    /\ task' = [task EXCEPT ![id] = [@ EXCEPT !.lapsed = TRUE]]
    /\ UNCHANGED <<article, variant, queued, reclaiming, worker, faults>>

(* notBefore and retryAt are the same instant, so they pass together.      *)
DelayPasses(id) ==
    /\ task[id].state \in {"PENDING", "FAILED"} /\ ~task[id].due
    /\ task' = [task EXCEPT ![id] = [@ EXCEPT !.due = TRUE]]
    /\ WriteNamed(id, task[id].source, [variant[id[1]] EXCEPT !.retryAt =
                                          IF @ = "ahead" THEN "passed" ELSE @])
    /\ UNCHANGED <<article, queued, reclaiming, worker, faults>>

JobLost(id) ==
    /\ id \in queued /\ Fault
    /\ queued' = queued \ {id}
    /\ UNCHANGED <<article, variant, task, reclaiming, worker>>

WorkerDies(w) ==
    /\ worker[w].pc # "idle" /\ Fault
    /\ worker' = [worker EXCEPT ![w] = IdleWorker]
    /\ UNCHANGED <<article, variant, task, queued, reclaiming>>

-------------------------------------------------------------------------------
WorkerStep(w) ==
    \/ ClaimRead(w) \/ ClaimWins(w) \/ ClaimMisses(w) \/ ClaimRetires(w)
    \/ Checkpoint(w) \/ \E f \in Failure : SummarizeFails(w, f)
    \/ Complete(w) \/ CompleteMisses(w) \/ Fail(w) \/ Finish(w)

FaultStep ==
    \/ \E w \in Workers : StepFails(w) \/ JobThrows(w) \/ WorkerDies(w)
    \/ \E id \in TaskIds : JobLost(id)
    \/ \E e \in reclaiming : DispatchAborts(e)

Next ==
    \/ PublishSource \/ Remove \/ DispatchRead \/ FaultStep
    \/ \E d \in Densities, key \in Keys \cup {NoKey} : Request(d, key)
    \/ \E e \in reclaiming : Reclaim(e)
    \/ \E w \in Workers : WorkerStep(w) \/ Heartbeat(w)
    \/ \E w \in Workers, id \in TaskIds : Fetch(w, id)
    \/ \E id \in TaskIds : Enqueue(id) \/ LeaseLapses(id) \/ DelayPasses(id)

Spec == Init /\ [][Next]_vars

(* As in SummaryTasks: processes poll, BullMQ delivers, handlers end, time *)
(* passes.  A handler that is done does not keep its slot for ever, so     *)
(* every queued job gets one again and again.                              *)
Fairness ==
    /\ WF_vars(DispatchRead)
    /\ WF_vars(\E e \in reclaiming : Reclaim(e))
    /\ \A w \in Workers : WF_vars(WorkerStep(w))
    /\ \A id \in TaskIds :
         /\ WF_vars(Enqueue(id)) /\ WF_vars(LeaseLapses(id)) /\ WF_vars(DelayPasses(id))
         /\ SF_vars(\E w \in Workers : Fetch(w, id))

FairSpec == Spec /\ Fairness

-------------------------------------------------------------------------------
(* Properties.                                                             *)

TypeOK ==
    /\ article \in [saved : BOOLEAN, source : Sources]
    /\ variant \in [Densities -> VariantRow]
    /\ task \in [TaskIds -> TaskRow]
    /\ queued \in SUBSET TaskIds
    /\ reclaiming \in SUBSET Snapshot
    /\ worker \in [Workers -> WorkerState]
    /\ faults \in 0..MaxFaults

(* A listed document was made from the text of the source it is listed     *)
(* under, although that text is replaced while workers are at it, and a    *)
(* retry may find the checkpoint of an earlier attempt.                    *)
ShownFitsSource ==
    \A d \in Densities :
        /\ variant[d].markdown # NoSource => variant[d].markdown = variant[d].source
        /\ variant[d].state = "SUCCEEDED" => variant[d].markdown # NoSource

(* What is shown as waiting will be claimed: its task is in the outbox and *)
(* has an attempt left.  What has ended has no task that could change it.  *)
StateFitsTask ==
    \A d \in Densities :
        LET row == variant[d]
            t == task[<<d, row.generation>>]
        IN /\ row.state = "PENDING" => /\ t.state = "PENDING" /\ t.source = row.source
                                       /\ ~Exhausted(t.attempts)
           /\ row.state \in {"SUCCEEDED", "FAILED"} /\ row.source = article.source
              => t.state \in {"SUCCEEDED", "FAILED"}

(* However requests, failures and late workers interleave, one density of  *)
(* one source is never generated by two tasks at a time.                   *)
OneTaskPerSource ==
    \A id1, id2 \in TaskIds :
        id1[1] = id2[1] /\ Live(id1) /\ Live(id2) /\ task[id1].source = task[id2].source
        => id1 = id2

(* A request is never refused by the unique index on (variantId,           *)
(* requestKey), although a key may come again after the source has moved.  *)
KeysAreUnique ==
    \A id1, id2 \in TaskIds :
        /\ id1[1] = id2[1] /\ task[id1].state # "ABSENT" /\ task[id2].state # "ABSENT"
        /\ task[id1].requestKey = task[id2].requestKey /\ task[id1].requestKey # NoKey
        => id1 = id2

(* Only the worker that owns the task of the variant's own generation puts *)
(* a document in it.                                                       *)
MarkdownOnlyFromOwner ==
    [][\A d \in Densities :
         variant'[d].markdown \notin {variant[d].markdown, NoSource} =>
           \E w \in Workers : /\ worker[w].task = <<d, variant[d].generation>>
                              /\ worker[w].pc = "complete" /\ Owns(w)]_vars

(* Every task ends, whatever happened to its variant, its workers and its  *)
(* jobs: no provider is called for it for ever.                            *)
TasksEnd == \A id \in TaskIds : Live(id) ~> ~Live(id)

(* "An old worker does not overwrite a new result": a document of the      *)
(* current source stays SUCCEEDED unless it is requested again.            *)
OldWorkerCannotOverwrite ==
    [][\A d \in Densities :
         /\ variant[d].state = "SUCCEEDED" /\ Current(d)
         /\ variant'[d].generation = variant[d].generation
         => variant'[d].state = "SUCCEEDED"]_vars
=============================================================================
