-------------------------- MODULE SummaryTasksProofs --------------------------
(***************************************************************************)
(* Proofs about SummaryTasks, for any number of articles, processes and    *)
(* worker slots, any attempt and retry limits, and any number of faults.   *)
(***************************************************************************)
EXTENDS SummaryTasks, TLAPS

(* A task id is the pair of its article and its generation.                *)
LEMMA TaskIdPair ==
    ASSUME NEW id \in TaskIds
    PROVE  id = <<id[1], id[2]>> /\ id[1] \in Articles /\ id[2] \in Generations
BY DEF TaskIds

(* The rows that requests and the migration write are well formed.         *)
LEMMA TaskRows ==
    /\ NoTask \in TaskRow
    /\ \A key \in Keys \cup {NoKey} : NewTask(key) \in TaskRow
BY ConfigAssumption DEF NoTask, NewTask, TaskWith, TaskRow, Attempts

LEMMA ArticleRows ==
    /\ NewArticle \in ArticleRow /\ NoArticle \in ArticleRow
    /\ BlankArticle("removed") \in ArticleRow
    /\ MigratedArticles \subseteq ArticleRow
<1>1. ASSUME NEW row \in {"never", "saved", "removed"}, NEW g \in {0, 1},
             NEW r \in {NoResult, 0},
             NEW status \in {"SUMMARIZING", "SUMMARY_DONE", "SUMMARY_FAILED"},
             NEW stage \in {"QUEUED", "DONE", "FAILED"}
      PROVE  ArticleWith(row, g, r, status, stage) \in ArticleRow
  BY ConfigAssumption DEF ArticleWith, ArticleRow, Generations, NoResult
<1>2. QED BY <1>1 DEF NewArticle, NoArticle, BlankArticle, MigratedArticles

LEMMA IdleWorkerType == IdleWorker \in WorkerState
BY ConfigAssumption DEF IdleWorker, WorkerState, Failure, Attempts

LEMMA InitType == Init => TypeOK
BY ConfigAssumption, TaskRows, ArticleRows, IdleWorkerType DEF Init, TypeOK

LEMMA RequestType ==
    ASSUME TypeOK, RequestStep PROVE TypeOK'
<1>1. ASSUME NEW a \in Articles, Create(a) PROVE TypeOK'
  BY <1>1, TaskRows, ArticleRows, ConfigAssumption DEF Create, TypeOK, TaskIds, Generations
<1>2. ASSUME NEW a \in Articles, Remove(a) PROVE TypeOK'
  BY <1>2, TaskRows, ArticleRows DEF Remove, TypeOK, TasksWithout
<1>3. ASSUME NEW a \in Articles, NEW key \in Keys \cup {NoKey}, RetryRead(a, key)
      PROVE TypeOK'
  BY <1>3, ConfigAssumption DEF RetryRead, RetryAllowed, RetryCount, RetryRequest,
     TypeOK, ArticleRow, Generations
<1>4. ASSUME NEW r \in request, RetryWrite(r) PROVE TypeOK'
  <2>1. r \in RetryRequest /\ article[r.id] \in ArticleRow
    BY DEF TypeOK, RetryRequest
  <2>2. Requeued(article[r.id], r) \in ArticleRow
    BY <2>1 DEF Requeued, RetryRequest, ArticleRow
  <2>3. article' \in [Articles -> ArticleRow] /\ task' \in [TaskIds -> TaskRow]
    BY <1>4, <2>1, <2>2, TaskRows DEF RetryWrite, TypeOK, RetryRequest
  <2>4. QED BY <1>4, <2>3 DEF RetryWrite, TypeOK
<1>5. CASE RetryAborts
  BY <1>5, ConfigAssumption DEF RetryAborts, TypeOK, Fault
<1>6. QED BY <1>1, <1>2, <1>3, <1>4, <1>5 DEF RequestStep

(* Every write of a task or article row gives a well-formed row.           *)
LEMMA TaskWrites ==
    ASSUME NEW t \in TaskRow
    PROVE  /\ \A b \in BOOLEAN : ReclaimedTask(t, b) \in TaskRow
                                 /\ FailedTask(t, b) \in TaskRow
           /\ ~Exhausted(t.attempts) => ClaimedTask(t) \in TaskRow
           /\ RetiredTask(t) \in TaskRow /\ SucceededTask(t) \in TaskRow
           /\ [t EXCEPT !.result = TRUE] \in TaskRow
           /\ [t EXCEPT !.lapsed = TRUE] \in TaskRow
           /\ [t EXCEPT !.due = TRUE] \in TaskRow
<1> DEFINE n == t.attempts + 1
<1>0. 0 \in Attempts
  BY ConfigAssumption DEF Attempts
<1>1. ASSUME NEW b \in BOOLEAN PROVE ReclaimedTask(t, b) \in TaskRow
  BY <1>0 DEF ReclaimedTask, TaskRow
<1>2. ASSUME NEW b \in BOOLEAN PROVE FailedTask(t, b) \in TaskRow
  BY <1>0 DEF FailedTask, TaskRow
<1>3. ASSUME ~Exhausted(t.attempts) PROVE ClaimedTask(t) \in TaskRow
  <2>1. n \in Attempts
    BY <1>3, ConfigAssumption DEF Exhausted, TaskRow, Attempts
  <2>2. [t EXCEPT !.state = "RUNNING", !.attempts = n, !.lease = n, !.lapsed = FALSE]
        \in TaskRow
    <3> HIDE DEF n
    <3>1. QED BY <2>1 DEF TaskRow
  <2>3. QED BY <2>2 DEF ClaimedTask, TaskRow
<1>4. RetiredTask(t) \in TaskRow
  BY DEF RetiredTask, TaskRow
<1>5. SucceededTask(t) \in TaskRow
  BY <1>0 DEF SucceededTask, TaskRow
<1>6. /\ [t EXCEPT !.result = TRUE] \in TaskRow
      /\ [t EXCEPT !.lapsed = TRUE] \in TaskRow
      /\ [t EXCEPT !.due = TRUE] \in TaskRow
  BY DEF TaskRow
<1>7. QED BY <1>1, <1>2, <1>3, <1>4, <1>5, <1>6

LEMMA ArticleWrites ==
    ASSUME NEW row \in ArticleRow
    PROVE  /\ \A b, c \in BOOLEAN : InterruptedArticle(row, b) \in ArticleRow
                                    /\ FailedArticle(row, b, c) \in ArticleRow
           /\ \A g \in Generations : PublishedArticle(row, g) \in ArticleRow
           /\ \A s \in {"EXTRACTING", "GENERATING", "PERSISTING"} :
                [row EXCEPT !.stage = s] \in ArticleRow
           /\ [row EXCEPT !.retryAt = IF @ = "ahead" THEN "passed" ELSE @] \in ArticleRow
           /\ [row EXCEPT !.inWindow = FALSE] \in ArticleRow
<1>1. ASSUME NEW b \in BOOLEAN PROVE InterruptedArticle(row, b) \in ArticleRow
  BY DEF InterruptedArticle, ArticleRow
<1>2. ASSUME NEW b \in BOOLEAN, NEW c \in BOOLEAN
      PROVE FailedArticle(row, b, c) \in ArticleRow
  BY <1>2, ZenonT(60) DEF FailedArticle, ArticleRow
<1>3. ASSUME NEW g \in Generations PROVE PublishedArticle(row, g) \in ArticleRow
  BY <1>3 DEF PublishedArticle, ArticleRow
<1>4. /\ \A s \in {"EXTRACTING", "GENERATING", "PERSISTING"} :
           [row EXCEPT !.stage = s] \in ArticleRow
      /\ [row EXCEPT !.retryAt = IF @ = "ahead" THEN "passed" ELSE @] \in ArticleRow
      /\ [row EXCEPT !.inWindow = FALSE] \in ArticleRow
  BY ZenonT(60) DEF ArticleRow
<1>5. QED BY <1>1, <1>2, <1>3, <1>4

LEMMA WriteCurrentType ==
    ASSUME article \in [Articles -> ArticleRow], NEW id \in TaskIds,
           NEW row \in ArticleRow, WriteCurrent(id, row)
    PROVE  article' \in [Articles -> ArticleRow]
BY TaskIdPair DEF WriteCurrent

LEMMA DispatchType ==
    ASSUME TypeOK, NEW p \in Procs, DispatchStep(p) PROVE TypeOK'
<1>1. CASE DispatchStart(p)
  <2>1. \A id \in TaskIds : [id |-> id, attempts |-> task[id].attempts,
                             lease |-> task[id].lease] \in Snapshot
    BY DEF TypeOK, TaskRow, Snapshot
  <2>2. QED BY <1>1, <2>1 DEF DispatchStart, LapsedTasks, TypeOK
<1>2. CASE DispatchSelect(p)
  BY <1>2 DEF DispatchSelect, TypeOK
<1>3. ASSUME NEW e \in reclaiming[p], Reclaim(p, e) PROVE TypeOK'
  <2> DEFINE terminal == Exhausted(e.attempts)
  <2>1. e.id \in TaskIds /\ task[e.id] \in TaskRow /\ article[e.id[1]] \in ArticleRow
        /\ terminal \in BOOLEAN
    BY TaskIdPair DEF TypeOK, Snapshot, Exhausted
  <2>2. /\ ReclaimedTask(task[e.id], terminal) \in TaskRow
        /\ InterruptedArticle(article[e.id[1]], terminal) \in ArticleRow
    BY <2>1, TaskWrites, ArticleWrites
  <2>3. task' \in [TaskIds -> TaskRow]
    BY <1>3, <2>1, <2>2 DEF Reclaim, TypeOK
  <2>4. article' \in [Articles -> ArticleRow]
    BY <1>3, <2>1, <2>2, WriteCurrentType DEF Reclaim, TypeOK
  <2>5. QED BY <1>3, <2>3, <2>4 DEF Reclaim, TypeOK
<1>4. QED BY <1>1, <1>2, <1>3 DEF DispatchStep

(* A handler with a task to work on has well-formed rows to write to.      *)
LEMMA HandlerRows ==
    ASSUME TypeOK, HandlersMatch, NEW w \in Workers, worker[w].pc # "idle"
    PROVE  /\ worker[w] \in WorkerState /\ worker[w].task \in TaskIds
           /\ worker[w].task[1] \in Articles /\ worker[w].task[2] \in Generations
           /\ task[worker[w].task] \in TaskRow
           /\ article[worker[w].task[1]] \in ArticleRow
BY TaskIdPair DEF TypeOK, HandlersMatch

LEMMA GotoType ==
    ASSUME TypeOK, NEW w \in Workers,
           NEW pc \in {"extracting", "generating", "persist", "complete", "finish"},
           Goto(w, pc)
    PROVE  worker' \in [Workers -> WorkerState]
<1>1. worker[w] \in WorkerState
  BY DEF TypeOK
<1>2. [worker[w] EXCEPT !.pc = pc] \in WorkerState
  BY <1>1, ZenonT(60) DEF WorkerState
<1>3. QED BY <1>2 DEF Goto, TypeOK

LEMMA ThrowType ==
    ASSUME TypeOK, NEW w \in Workers, NEW f \in Failure, Throw(w, f)
    PROVE  worker' \in [Workers -> WorkerState]
<1>1. worker[w] \in WorkerState
  BY DEF TypeOK
<1>2. [worker[w] EXCEPT !.pc = "failing", !.failure = f] \in WorkerState
  BY <1>1, ZenonT(60) DEF WorkerState
<1>3. QED BY <1>2 DEF Throw, TypeOK

LEMMA PersistenceFailedType == PersistenceFailed \in Failure
BY DEF PersistenceFailed, Failure

LEMMA StageTxType ==
    ASSUME TypeOK, HandlersMatch, NEW w \in Workers, worker[w].pc # "idle",
           NEW s \in {"EXTRACTING", "GENERATING", "PERSISTING"},
           NEW next \in {"extracting", "generating", "complete"}, StageTx(w, s, next)
    PROVE  article' \in [Articles -> ArticleRow] /\ worker' \in [Workers -> WorkerState]
<1>1. [article[worker[w].task[1]] EXCEPT !.stage = s] \in ArticleRow
  BY HandlerRows, ArticleWrites
<1>2. QED BY <1>1, HandlerRows, WriteCurrentType, GotoType DEF StageTx, TypeOK

LEMMA WorkerType ==
    ASSUME TypeOK, HandlersMatch, NEW w \in Workers, WorkerStep(w) PROVE TypeOK'
<1> DEFINE id == worker[w].task
<1>a. CASE ClaimWins(w)
  <2>1. /\ id \in TaskIds /\ ~Exhausted(task[id].attempts) /\ ClaimedTask(task[id]) \in TaskRow
        /\ task[id] \in TaskRow
    BY <1>a, HandlerRows, TaskWrites DEF ClaimWins, Claimable
  <2>2. [worker[w] EXCEPT !.pc = FirstStep(id), !.attempts = task[id].attempts + 1,
                          !.lease = task[id].attempts + 1] \in WorkerState
    <3>1. task[id].attempts + 1 \in Attempts
      BY <2>1, ConfigAssumption DEF Exhausted, TaskRow, Attempts
    <3>2. FirstStep(id) \in {"persist", "begin"}
      BY DEF FirstStep
    <3>3. worker[w] \in WorkerState
      BY DEF TypeOK
    <3>4. FirstStep(id) \in {"idle", "claim", "begin", "extracting", "generating", "persist",
                            "complete", "failing", "finish"}
      BY <3>2
    <3>5. QED BY <3>1, <3>3, <3>4 DEF WorkerState
  <2>3. worker' \in [Workers -> WorkerState]
    BY <1>a, <2>2, GotoType DEF ClaimWins, TypeOK
  <2>4. QED BY <1>a, <2>1, <2>3, ConfigAssumption DEF ClaimWins, TypeOK, Fault, NoFault
<1>b. CASE ClaimMisses(w)
  <2>1. id \in TaskIds /\ RetiredTask(task[id]) \in TaskRow
    BY <1>b, HandlerRows, TaskWrites DEF ClaimMisses
  <2>2. QED BY <1>b, <2>1, GotoType DEF ClaimMisses, TypeOK
<1>c. CASE StageExtracting(w)
  BY <1>c, StageTxType DEF StageExtracting, TypeOK
<1>d. CASE StageGenerating(w)
  BY <1>d, StageTxType DEF StageGenerating, TypeOK
<1>e. CASE ExtractFails(w)
  <2>1. [retryable |-> TRUE, wait |-> FALSE] \in Failure
    BY DEF Failure
  <2>2. QED BY <1>e, <2>1, ThrowType DEF ExtractFails, TypeOK
<1>f. ASSUME NEW f \in Failure, SummarizeFails(w, f) PROVE TypeOK'
  BY <1>f, ThrowType DEF SummarizeFails, TypeOK
<1>g. CASE Checkpoint(w)
  <2>1. id \in TaskIds /\ [task[id] EXCEPT !.result = TRUE] \in TaskRow
    BY <1>g, HandlerRows, TaskWrites DEF Checkpoint
  <2>2. worker' \in [Workers -> WorkerState]
    BY <1>g, GotoType, ThrowType, PersistenceFailedType DEF Checkpoint
  <2>3. QED BY <1>g, <2>1, <2>2, ConfigAssumption DEF Checkpoint, Fault, NoFault, TypeOK
<1>h. CASE StagePersisting(w)
  BY <1>h, StageTxType, GotoType DEF StagePersisting, TypeOK
<1>i. CASE Complete(w)
  <2>1. /\ id \in TaskIds /\ SucceededTask(task[id]) \in TaskRow
        /\ PublishedArticle(article[id[1]], id[2]) \in ArticleRow
    BY <1>i, HandlerRows, TaskWrites, ArticleWrites DEF Complete
  <2>2. article' \in [Articles -> ArticleRow]
    BY <1>i, <2>1, WriteCurrentType DEF Complete, TypeOK
  <2>3. worker' \in [Workers -> WorkerState]
    BY <1>i, GotoType, ThrowType, PersistenceFailedType DEF Complete
  <2>4. QED
    BY <1>i, <2>1, <2>2, <2>3, ConfigAssumption DEF Complete, TypeOK, Fault, NoFault
<1>j. CASE CompleteMisses(w)
  BY <1>j, GotoType DEF CompleteMisses, TypeOK
<1>k. CASE Fail(w)
  <2> DEFINE f == worker[w].failure
             retry == f.retryable /\ ~Exhausted(worker[w].attempts)
  <2>1. retry \in BOOLEAN /\ f.wait \in BOOLEAN
    BY DEF TypeOK, WorkerState, Failure
  <2>2. /\ id \in TaskIds /\ FailedTask(task[id], retry) \in TaskRow
        /\ FailedArticle(article[id[1]], retry, f.wait) \in ArticleRow
    BY <1>k, <2>1, HandlerRows, TaskWrites, ArticleWrites DEF Fail
  <2>3. task' \in [TaskIds -> TaskRow]
    BY <1>k, <2>2 DEF Fail, TypeOK
  <2>4. article' \in [Articles -> ArticleRow]
    BY <1>k, <2>2, WriteCurrentType DEF Fail, TypeOK
  <2>5. QED BY <1>k, <2>3, <2>4, GotoType DEF Fail, TypeOK
<1>l. CASE Finish(w)
  BY <1>l, IdleWorkerType DEF Finish, TypeOK
<1>m. QED
  BY <1>a, <1>b, <1>c, <1>d, <1>e, <1>f, <1>g, <1>h, <1>i, <1>j, <1>k, <1>l
  DEF WorkerStep

LEMMA OtherType ==
    ASSUME TypeOK, HandlersMatch,
           \/ FaultStep
           \/ \E p \in Procs, id \in TaskIds : JobAdded(p, id)
           \/ \E w \in Workers : Heartbeat(w)
           \/ \E w \in Workers, id \in TaskIds : Fetch(w, id)
           \/ \E id \in TaskIds : LeaseLapses(id) \/ DelayPasses(id) \/ JobRecovered(id)
           \/ \E a \in Articles : WindowPasses(a)
    PROVE  TypeOK'
<1> USE ConfigAssumption
<1>1. ASSUME NEW p \in Procs, DispatchAborts(p) \/ Crash(p) PROVE TypeOK'
  BY <1>1, IdleWorkerType DEF DispatchAborts, Crash, Fault, TypeOK
<1>2. ASSUME NEW p \in Procs, NEW id \in TaskIds, AddFails(p, id) \/ JobAdded(p, id)
      PROVE TypeOK'
  BY <1>2 DEF AddFails, JobAdded, Fault, TypeOK
<1>3. ASSUME NEW w \in Workers, StepFails(w) \/ JobThrows(w) PROVE TypeOK'
  <2>1. PersistenceFailed \in Failure
    BY DEF PersistenceFailed, Failure
  <2>2. QED BY <1>3, <2>1, GotoType, ThrowType DEF StepFails, JobThrows, Fault, TypeOK
<1>4. ASSUME NEW id \in TaskIds, JobLost(id) \/ JobTaken(id) \/ JobRecovered(id)
      PROVE TypeOK'
  BY <1>4 DEF JobLost, JobTaken, JobRecovered, JobStalls, Fault, NoFault, TypeOK
<1>5. ASSUME NEW w \in Workers, Heartbeat(w) PROVE TypeOK'
  <2>1. worker[w] \in WorkerState
    BY DEF TypeOK
  <2>2. [worker[w] EXCEPT !.lost = TRUE] \in WorkerState
    BY <2>1, ZenonT(60) DEF WorkerState
  <2>3. QED BY <1>5, <2>2 DEF Heartbeat, Fault, NoFault, TypeOK
<1>6. ASSUME NEW w \in Workers, NEW id \in TaskIds, Fetch(w, id) PROVE TypeOK'
  <2>1. [IdleWorker EXCEPT !.pc = "claim", !.task = id] \in WorkerState
    BY IdleWorkerType DEF WorkerState
  <2>2. QED BY <1>6, <2>1 DEF Fetch, TypeOK
<1>7. ASSUME NEW id \in TaskIds, LeaseLapses(id) \/ DelayPasses(id) PROVE TypeOK'
  <2>1. task[id] \in TaskRow /\ article[id[1]] \in ArticleRow
    BY TaskIdPair DEF TypeOK
  <2>2. task' \in [TaskIds -> TaskRow]
    BY <1>7, <2>1, TaskWrites, ZenonT(60) DEF LeaseLapses, DelayPasses, TypeOK
  <2>3. article' \in [Articles -> ArticleRow]
    BY <1>7, <2>1, ArticleWrites, WriteCurrentType, ZenonT(60)
       DEF LeaseLapses, DelayPasses, TypeOK
  <2>4. QED BY <1>7, <2>2, <2>3 DEF LeaseLapses, DelayPasses, TypeOK
<1>8. ASSUME NEW a \in Articles, WindowPasses(a) PROVE TypeOK'
  <2>1. [article[a] EXCEPT !.inWindow = FALSE] \in ArticleRow
    BY ArticleWrites DEF TypeOK
  <2>2. QED BY <1>8, <2>1 DEF WindowPasses, TypeOK
<1>9. QED
  BY <1>1, <1>2, <1>3, <1>4, <1>5, <1>6, <1>7, <1>8 DEF FaultStep

LEMMA NextType ==
    ASSUME TypeOK, HandlersMatch, [Next]_vars PROVE TypeOK'
<1>1. CASE UNCHANGED vars
  BY <1>1 DEF vars, TypeOK
<1>2. CASE Next
  BY <1>2, RequestType, DispatchType, WorkerType, OtherType DEF Next
<1>3. QED BY <1>1, <1>2

-------------------------------------------------------------------------------
(* The rows of an article and of its current task, taken together.         *)
RowsAgree(id, t, row) ==
    /\ row.row = "saved" /\ row.generation = id[2]
    /\ t.state \in {"PENDING", "RUNNING"} <=> row.processStatus = "SUMMARIZING"
    /\ t.state = "RUNNING" => t.lease = t.attempts /\ t.attempts > 0
    /\ t.state # "RUNNING" => t.lease = 0
    /\ t.state = "PENDING" => ~Exhausted(t.attempts)
    /\ t.result => t.state \in {"PENDING", "RUNNING"}
    /\ row.retryAt = "ahead" => /\ t.state \in {"PENDING", "FAILED"} /\ ~t.due
                                /\ row.errorCode = "TASK_FAILURE"
    /\ id[2] > 0 => StageFits(row)

(* The parts of IInv that speak of rows and of the open retry only.        *)
RowsInv ==
    /\ LiveTaskIsCurrent /\ ProcessingIsBacked /\ LeaseCountsClaims
    /\ NoOrphanTask /\ CooldownIsDelay /\ RetryReadHolds /\ StageMatchesStatus
    /\ \A id \in TaskIds : task[id].result => Live(id)

LEMMA IInvRows == IInv => RowsInv
BY DEF IInv, RowsInv, CheckpointIsUsed

LEMMA CurrentRows ==
    ASSUME TypeOK, RowsInv, NEW id \in TaskIds, CurrentFor(id)
    PROVE  RowsAgree(id, task[id], article[id[1]])
<1>1. id = <<id[1], id[2]>> /\ id[1] \in Articles /\ task[id] \in TaskRow
      /\ article[id[1]] \in ArticleRow
  BY TaskIdPair DEF TypeOK
<1>2. task[id].state \in {"PENDING", "RUNNING"} <=>
        article[id[1]].processStatus = "SUMMARIZING"
  BY <1>1 DEF RowsInv, CurrentFor, LiveTaskIsCurrent, ProcessingIsBacked, Live, Processing
<1>3. article[id[1]].retryAt = "ahead" =>
        /\ task[id].state \in {"PENDING", "FAILED"} /\ ~task[id].due
        /\ article[id[1]].errorCode = "TASK_FAILURE"
  BY <1>1 DEF RowsInv, CurrentFor, CooldownIsDelay
<1>4. QED
  BY <1>1, <1>2, <1>3
  DEF RowsAgree, RowsInv, CurrentFor, LeaseCountsClaims, StageMatchesStatus, Live

(* A step that rewrites an article and its current task, both consistently *)
(* and without reviving a settled article, keeps every row in order.       *)
LEMMA CurrentStep ==
    ASSUME TypeOK, RowsInv, NEW id \in TaskIds, CurrentFor(id),
           NEW t \in TaskRow, NEW row \in ArticleRow,
           task' = [task EXCEPT ![id] = t], article' = [article EXCEPT ![id[1]] = row],
           request' \subseteq request, RowsAgree(id, t, row), task[id].state # "ABSENT",
           \/ Live(id)
           \/ row.processStatus # "SUMMARIZING"
    PROVE  RowsInv'
<1> DEFINE a == id[1]
<1>1. id = <<a, id[2]>> /\ a \in Articles /\ id[2] \in Generations
  BY TaskIdPair
<1>2. article[a].row = "saved" /\ article[a].generation = id[2]
  BY DEF CurrentFor
<1>3. /\ task'[id] = t /\ article'[a] = row
      /\ \A i \in TaskIds : i # id => task'[i] = task[i]
      /\ \A b \in Articles : b # a => article'[b] = article[b]
  BY <1>1 DEF TypeOK
<1>4. \A i \in TaskIds : /\ i[1] \in Articles /\ i[2] \in Generations
                         /\ i = <<i[1], i[2]>>
  BY TaskIdPair
<1>5. \A i \in TaskIds : i # id /\ i[1] = a => ~Live(i)
  BY <1>1, <1>2, <1>4 DEF RowsInv, LiveTaskIsCurrent, CurrentFor
<1>6. row.row = "saved" /\ row.generation = id[2]
  BY DEF RowsAgree
<1>7. LiveTaskIsCurrent'
  BY <1>1, <1>3, <1>4, <1>5, <1>6
  DEF LiveTaskIsCurrent, Live, CurrentFor, Processing, RowsAgree, RowsInv
<1>8. ProcessingIsBacked'
  <2> SUFFICES ASSUME NEW b \in Articles, Processing(b)'
               PROVE  LET u == task'[<<b, article'[b].generation>>]
                      IN u.state = "RUNNING" \/ (u.state = "PENDING" /\ u.attempts < MaxAttempts)
    BY DEF ProcessingIsBacked
  <2>1. CASE b = a
    BY <2>1, <1>1, <1>3, <1>6, ConfigAssumption
    DEF RowsAgree, Processing, Exhausted, TaskRow, Attempts
  <2>2. CASE b # a
    BY <2>2, <1>1, <1>3 DEF ProcessingIsBacked, Processing, RowsInv, TypeOK, ArticleRow, TaskIds
  <2>3. QED BY <2>1, <2>2
<1>9. LeaseCountsClaims'
  BY <1>3 DEF LeaseCountsClaims, RowsAgree, RowsInv, Live
<1>10. NoOrphanTask'
  <2>1. \A b \in Articles : article'[b].row = "never" => article'[b] = NoArticle
    BY <1>3, <1>6 DEF NoOrphanTask, RowsInv
  <2>2. ASSUME NEW i \in TaskIds, task'[i].state # "ABSENT"
        PROVE  article'[i[1]].row = "saved" /\ i[2] <= article'[i[1]].generation
    <3>1. task[i].state # "ABSENT"
      BY <2>2, <1>3
    <3>2. article[i[1]].row = "saved" /\ i[2] <= article[i[1]].generation
      BY <3>1 DEF NoOrphanTask, RowsInv
    <3>3. QED BY <3>2, <1>2, <1>3, <1>4, <1>6
  <2>3. QED BY <2>1, <2>2 DEF NoOrphanTask
<1>11. CooldownIsDelay'
  BY <1>1, <1>3, <1>6 DEF CooldownIsDelay, RowsAgree, RowsInv, TypeOK, ArticleRow, TaskIds
<1>12. RetryReadHolds'
  <2>1. \A r \in request : r.id \in Articles
    BY DEF TypeOK, RetryRequest
  <2>2. \A r \in request : r.id = a => row.processStatus # "SUMMARIZING"
    BY <1>1 DEF RowsInv, RetryReadHolds, LiveTaskIsCurrent, Processing
  <2>3. QED BY <1>2, <1>3, <1>6, <2>1, <2>2 DEF RetryReadHolds, RowsInv
<1>13. StageMatchesStatus'
  BY <1>1, <1>3, <1>6 DEF StageMatchesStatus, RowsAgree, RowsInv
<1>14. \A i \in TaskIds : task'[i].result => Live(i)'
  BY <1>3 DEF RowsInv, RowsAgree, Live
<1>15. QED
  BY <1>7, <1>8, <1>9, <1>10, <1>11, <1>12, <1>13, <1>14 DEF RowsInv

LEMMA RowsUnchanged ==
    ASSUME RowsInv, UNCHANGED <<article, task>>, request' \subseteq request
    PROVE  RowsInv'
BY DEF RowsInv, LiveTaskIsCurrent, ProcessingIsBacked, LeaseCountsClaims, NoOrphanTask,
   CooldownIsDelay, RetryReadHolds, StageMatchesStatus, Live, CurrentFor, Processing

(* What a transaction finds in the rows of a task it may still execute.    *)
LEMMA LiveRows ==
    ASSUME TypeOK, RowsInv, NEW id \in TaskIds, Live(id)
    PROVE  /\ id[1] \in Articles /\ id[2] \in Generations
           /\ task[id] \in TaskRow /\ article[id[1]] \in ArticleRow
           /\ CurrentFor(id) /\ task[id].state # "ABSENT"
           /\ RowsAgree(id, task[id], article[id[1]])
<1>1. CurrentFor(id)
  BY DEF RowsInv, LiveTaskIsCurrent
<1>2. QED BY <1>1, CurrentRows, TaskIdPair DEF TypeOK, Live

LEMMA ReclaimRows ==
    ASSUME IInv, NEW p \in Procs, NEW e \in reclaiming[p], Reclaim(p, e)
    PROVE  RowsInv'
<1> DEFINE b == Exhausted(e.attempts)
           id == e.id
<1>1. TypeOK /\ RowsInv /\ id \in TaskIds /\ b \in BOOLEAN /\ request' \subseteq request
  BY IInvRows DEF IInv, TypeOK, Snapshot, Exhausted, Reclaim
<1>2. CASE ~StillExpired(e)
  BY <1>1, <1>2, RowsUnchanged DEF Reclaim
<1>3. CASE StillExpired(e)
  <2>1. Live(id) /\ e.attempts = task[id].attempts
    BY <1>1, <1>3 DEF StillExpired, Live, IInv, SnapshotsMatch, LeaseCountsClaims
  <2>2. /\ ReclaimedTask(task[id], b) \in TaskRow
        /\ InterruptedArticle(article[id[1]], b) \in ArticleRow
    BY <1>1, <2>1, LiveRows, TaskWrites, ArticleWrites
  <2>3. RowsAgree(id, ReclaimedTask(task[id], b), InterruptedArticle(article[id[1]], b))
    BY <1>1, <1>3, <2>1, LiveRows
    DEF RowsAgree, ReclaimedTask, InterruptedArticle, StageFits, TaskRow, ArticleRow, StillExpired
  <2>4. QED
    BY <1>1, <1>3, <2>1, <2>2, <2>3, LiveRows, CurrentStep DEF Reclaim, WriteCurrent
<1>4. QED BY <1>2, <1>3

LEMMA ClaimRows ==
    ASSUME IInv, NEW w \in Workers, ClaimWins(w) \/ ClaimMisses(w)
    PROVE  RowsInv'
<1> DEFINE id == worker[w].task
<1>1. TypeOK /\ RowsInv /\ id \in TaskIds /\ request' \subseteq request
  BY IInvRows DEF IInv, HandlersMatch, ClaimWins, ClaimMisses
<1>2. CASE ClaimMisses(w)
  <2>1. ~(~CurrentFor(id) /\ task[id].state = "PENDING")
    BY <1>1 DEF RowsInv, LiveTaskIsCurrent, Live
  <2>2. QED BY <1>1, <1>2, <2>1, RowsUnchanged DEF ClaimMisses
<1>3. CASE ClaimWins(w)
  <2>1. Live(id) /\ task[id].state = "PENDING" /\ task[id].due /\ ~Exhausted(task[id].attempts)
    BY <1>3 DEF ClaimWins, Claimable, Live
  <2>2. ClaimedTask(task[id]) \in TaskRow
    BY <1>1, <2>1, LiveRows, TaskWrites
  <2>3. RowsAgree(id, ClaimedTask(task[id]), article[id[1]])
    BY <1>1, <2>1, LiveRows DEF RowsAgree, ClaimedTask, TaskRow, Attempts
  <2>4. article' = [article EXCEPT ![id[1]] = article[id[1]]]
    BY <1>1, <1>3 DEF ClaimWins, TypeOK
  <2>5. QED BY <1>1, <1>3, <2>1, <2>2, <2>3, <2>4, LiveRows, CurrentStep DEF ClaimWins
<1>4. QED BY <1>2, <1>3

LEMMA StageRows ==
    ASSUME IInv, NEW w \in Workers, worker[w].pc # "idle",
           NEW s \in {"EXTRACTING", "GENERATING", "PERSISTING"}, NEW next,
           StageTx(w, s, next), UNCHANGED <<task, request>>
    PROVE  RowsInv'
<1> DEFINE id == worker[w].task
           row == [article[id[1]] EXCEPT !.stage = s]
<1>1. TypeOK /\ RowsInv /\ id \in TaskIds
  BY IInvRows DEF IInv, HandlersMatch
<1>2. CASE ~(Owns(w) /\ CurrentFor(id))
  BY <1>1, <1>2, RowsUnchanged DEF StageTx
<1>3. CASE Owns(w) /\ CurrentFor(id)
  <2>1. Live(id) /\ task[id].state = "RUNNING"
    BY <1>3 DEF Owns, Live
  <2>2. row \in ArticleRow
    BY <1>1, <2>1, LiveRows, ArticleWrites
  <2>3. RowsAgree(id, task[id], row)
    BY <1>1, <2>1, LiveRows DEF RowsAgree, StageFits, ArticleRow
  <2>4. task' = [task EXCEPT ![id] = task[id]] /\ article' = [article EXCEPT ![id[1]] = row]
    BY <1>1, <1>3 DEF TypeOK, StageTx, WriteCurrent
  <2>5. QED BY <1>1, <2>1, <2>2, <2>3, <2>4, LiveRows, CurrentStep
<1>4. QED BY <1>2, <1>3

LEMMA CheckpointRows ==
    ASSUME IInv, NEW w \in Workers, Checkpoint(w)
    PROVE  RowsInv'
<1> DEFINE id == worker[w].task
           t == [task[id] EXCEPT !.result = TRUE]
<1>1. TypeOK /\ RowsInv /\ id \in TaskIds /\ request' \subseteq request
  BY IInvRows DEF IInv, HandlersMatch, Checkpoint
<1>2. CASE ~Owns(w)
  BY <1>1, <1>2, RowsUnchanged DEF Checkpoint
<1>3. CASE Owns(w)
  <2>1. Live(id)
    BY <1>3 DEF Owns, Live
  <2>2. t \in TaskRow
    BY <1>1, <2>1, LiveRows, TaskWrites
  <2>3. RowsAgree(id, t, article[id[1]])
    BY <1>1, <1>3, <2>1, LiveRows DEF RowsAgree, TaskRow, Owns
  <2>4. task' = [task EXCEPT ![id] = t] /\ article' = [article EXCEPT ![id[1]] = article[id[1]]]
    BY <1>1, <1>3 DEF TypeOK, Checkpoint
  <2>5. QED BY <1>1, <2>1, <2>2, <2>3, <2>4, LiveRows, CurrentStep
<1>4. QED BY <1>2, <1>3

LEMMA CompleteRows ==
    ASSUME IInv, NEW w \in Workers, Complete(w)
    PROVE  RowsInv'
<1> DEFINE id == worker[w].task
           t == SucceededTask(task[id])
           row == PublishedArticle(article[id[1]], id[2])
<1>1. TypeOK /\ RowsInv /\ id \in TaskIds /\ request' \subseteq request /\ Owns(w)
  BY IInvRows DEF IInv, HandlersMatch, Complete
<1>2. Live(id)
  BY <1>1 DEF Owns, Live
<1>3. t \in TaskRow /\ row \in ArticleRow
  BY <1>1, <1>2, LiveRows, TaskWrites, ArticleWrites
<1>4. RowsAgree(id, t, row)
  BY <1>1, <1>2, LiveRows
  DEF RowsAgree, StageFits, SucceededTask, PublishedArticle, TaskRow, ArticleRow
<1>5. task' = [task EXCEPT ![id] = t] /\ article' = [article EXCEPT ![id[1]] = row]
  BY <1>1, <1>2, LiveRows DEF TypeOK, Complete, WriteCurrent
<1>6. QED BY <1>1, <1>2, <1>3, <1>4, <1>5, LiveRows, CurrentStep

LEMMA FailRows ==
    ASSUME IInv, NEW w \in Workers, Fail(w)
    PROVE  RowsInv'
<1> DEFINE id == worker[w].task
           f == worker[w].failure
           retry == f.retryable /\ ~Exhausted(worker[w].attempts)
           t == FailedTask(task[id], retry)
           row == FailedArticle(article[id[1]], retry, f.wait)
<1>1. TypeOK /\ RowsInv /\ id \in TaskIds /\ request' \subseteq request
      /\ worker[w].attempts = worker[w].lease
  BY IInvRows DEF IInv, HandlersMatch, Fail, Holds
<1>2. CASE worker[w].lost \/ ~Owns(w)
  BY <1>1, <1>2, RowsUnchanged DEF Fail
<1>3. CASE ~(worker[w].lost \/ ~Owns(w))
  <2>1. Live(id) /\ task[id].state = "RUNNING" /\ task[id].attempts = worker[w].attempts
    BY <1>1, <1>3 DEF Owns, Live, IInv, LeaseCountsClaims
  <2>2. retry \in BOOLEAN /\ f.wait \in BOOLEAN
    BY DEF IInv, TypeOK, WorkerState, Failure
  <2>3. t \in TaskRow /\ row \in ArticleRow
    BY <1>1, <2>1, <2>2, LiveRows, TaskWrites, ArticleWrites
  <2>4. RowsAgree(id, t, row)
    <3>1. retry => ~Exhausted(task[id].attempts)
      BY <2>1
    <3> HIDE DEF retry, f
    <3>2. QED
      BY <1>1, <2>1, <2>2, <3>1, LiveRows
      DEF RowsAgree, StageFits, FailedTask, FailedArticle, TaskRow, ArticleRow
  <2>5. task' = [task EXCEPT ![id] = t] /\ article' = [article EXCEPT ![id[1]] = row]
    BY <1>1, <1>3, <2>1, LiveRows DEF TypeOK, Fail, WriteCurrent
  <2>6. QED BY <1>1, <2>1, <2>3, <2>4, <2>5, LiveRows, CurrentStep
<1>4. QED BY <1>2, <1>3

LEMMA TimeRows ==
    ASSUME IInv, NEW id \in TaskIds, LeaseLapses(id) \/ DelayPasses(id)
    PROVE  RowsInv'
<1>1. TypeOK /\ RowsInv /\ request' \subseteq request /\ task[id] \in TaskRow
      /\ id[1] \in Articles /\ id[2] \in Generations /\ article[id[1]] \in ArticleRow
  BY IInvRows, TaskIdPair DEF IInv, TypeOK, LeaseLapses, DelayPasses
<1>2. CASE LeaseLapses(id)
  <2> DEFINE t == [task[id] EXCEPT !.lapsed = TRUE]
  <2>1. Live(id)
    BY <1>2 DEF LeaseLapses, Live
  <2>4. t \in TaskRow
    BY <1>1, TaskWrites
  <2>5. RowsAgree(id, task[id], article[id[1]])
    BY <1>1, <2>1, LiveRows
  <2>2. t \in TaskRow /\ RowsAgree(id, t, article[id[1]])
    BY <1>1, <2>4, <2>5 DEF RowsAgree, TaskRow
  <2>3. article' = [article EXCEPT ![id[1]] = article[id[1]]]
    BY <1>1, <1>2 DEF LeaseLapses, TypeOK
  <2>6. QED BY <1>1, <1>2, <2>1, <2>2, <2>3, LiveRows, CurrentStep DEF LeaseLapses
<1>3. CASE DelayPasses(id) /\ CurrentFor(id)
  <2> DEFINE t == [task[id] EXCEPT !.due = TRUE]
             row == [article[id[1]] EXCEPT !.retryAt = IF @ = "ahead" THEN "passed" ELSE @]
  <2>1. t \in TaskRow /\ row \in ArticleRow
    BY <1>1, TaskWrites, ArticleWrites
  <2>2. RowsAgree(id, task[id], article[id[1]])
    BY <1>1, <1>3, CurrentRows
  <2>3. RowsAgree(id, t, row)
    BY <1>1, <2>2 DEF RowsAgree, StageFits, TaskRow, ArticleRow
  <2>4. task[id].state # "ABSENT" /\ (Live(id) \/ row.processStatus # "SUMMARIZING")
    BY <1>1, <1>3, <2>2 DEF DelayPasses, Live, RowsAgree, ArticleRow
  <2>5. QED
    BY <1>1, <1>3, <2>1, <2>3, <2>4, CurrentStep DEF DelayPasses, WriteCurrent
<1>4. CASE DelayPasses(id) /\ ~CurrentFor(id)
  <2> DEFINE t == [task[id] EXCEPT !.due = TRUE]
  <2>1. article' = article /\ request' = request
    BY <1>4 DEF DelayPasses, WriteCurrent
  <2>2. /\ \A i \in TaskIds : i # id => task'[i] = task[i]
        /\ task'[id].state = task[id].state /\ task'[id].lease = task[id].lease
        /\ task'[id].result = task[id].result /\ task'[id].attempts = task[id].attempts
    <3>1. task' = [task EXCEPT ![id] = t]
      BY <1>4 DEF DelayPasses
    <3>2. /\ t.state = task[id].state /\ t.lease = task[id].lease
          /\ t.result = task[id].result /\ t.attempts = task[id].attempts
      BY <1>1 DEF TaskRow
    <3> HIDE DEF t
    <3>3. QED BY <1>1, <3>1, <3>2 DEF TypeOK
  <2>3. \A a \in Articles : article[a].row = "saved" =>
          <<a, article[a].generation>> # id /\ <<a, article[a].generation>> \in TaskIds
    BY <1>4, <1>1 DEF CurrentFor, TypeOK, ArticleRow, TaskIds
  <2>4. \A i \in TaskIds : Live(i)' <=> Live(i)
    BY <2>2 DEF Live
  <2>5. LiveTaskIsCurrent' /\ NoOrphanTask'
    BY <1>1, <2>1, <2>2, <2>4 DEF RowsInv, LiveTaskIsCurrent, NoOrphanTask, CurrentFor, Processing
  <2>6. LeaseCountsClaims' /\ \A i \in TaskIds : task'[i].result => Live(i)'
    <3> SUFFICES ASSUME NEW i \in TaskIds
                 PROVE  /\ task'[i].state = "RUNNING" =>
                             task'[i].lease = task'[i].attempts /\ task'[i].attempts > 0
                        /\ task'[i].state # "RUNNING" => task'[i].lease = 0
                        /\ task'[i].state = "PENDING" => ~Exhausted(task'[i].attempts)
                        /\ task'[i].result => Live(i)'
      BY DEF LeaseCountsClaims
    <3>1. QED BY <1>1, <2>2, <2>4 DEF RowsInv, LeaseCountsClaims
  <2>8. ProcessingIsBacked'
    BY <1>1, <2>1, <2>2, <2>3 DEF RowsInv, ProcessingIsBacked, Processing
  <2>9. CooldownIsDelay'
    BY <1>1, <2>1, <2>2, <2>3 DEF RowsInv, CooldownIsDelay
  <2>10. RetryReadHolds'
    BY <1>1, <2>1 DEF RowsInv, RetryReadHolds
  <2>11. StageMatchesStatus'
    BY <1>1, <2>1 DEF RowsInv, StageMatchesStatus
  <2>12. QED BY <2>5, <2>6, <2>8, <2>9, <2>10, <2>11 DEF RowsInv
<1>5. QED BY <1>2, <1>3, <1>4

LEMMA WindowRows ==
    ASSUME IInv, NEW a \in Articles, WindowPasses(a)
    PROVE  RowsInv'
<1> DEFINE row == [article[a] EXCEPT !.inWindow = FALSE]
<1>1. RowsInv /\ TypeOK /\ article[a] \in ArticleRow
  BY IInvRows DEF IInv, TypeOK
<1>2. /\ row.row = article[a].row /\ row.generation = article[a].generation
      /\ row.processStatus = article[a].processStatus /\ row.stage = article[a].stage
      /\ row.retryAt = article[a].retryAt /\ row.errorCode = article[a].errorCode
  BY <1>1 DEF ArticleRow
<1>3. /\ task' = task /\ request' = request /\ article' = [article EXCEPT ![a] = row]
      /\ article[a].row # "never"
  BY <1>1 DEF WindowPasses, RowsInv, NoOrphanTask, NoArticle, BlankArticle, ArticleWith
<1> HIDE DEF row
<1>4. \A b \in Articles :
        /\ article'[b].row = article[b].row /\ article'[b].stage = article[b].stage
        /\ article'[b].generation = article[b].generation
        /\ article'[b].processStatus = article[b].processStatus
        /\ article'[b].retryAt = article[b].retryAt
        /\ article'[b].errorCode = article[b].errorCode
        /\ article'[b].row = "never" => article'[b] = article[b]
  BY <1>1, <1>2, <1>3 DEF TypeOK
<1>5. \A id \in TaskIds : id[1] \in Articles
  BY TaskIdPair
<1>6. LiveTaskIsCurrent'
  BY <1>1, <1>3, <1>4, <1>5 DEF RowsInv, LiveTaskIsCurrent, Live, CurrentFor, Processing
<1>7. ProcessingIsBacked'
  BY <1>1, <1>3, <1>4 DEF RowsInv, ProcessingIsBacked, Processing
<1>8. LeaseCountsClaims' /\ \A id \in TaskIds : task'[id].result => Live(id)'
  BY <1>1, <1>3 DEF RowsInv, LeaseCountsClaims, Live
<1>9. NoOrphanTask'
  BY <1>1, <1>3, <1>4, <1>5 DEF RowsInv, NoOrphanTask
<1>10. CooldownIsDelay'
  BY <1>1, <1>3, <1>4 DEF RowsInv, CooldownIsDelay
<1>11. RetryReadHolds'
  BY <1>1, <1>3, <1>4 DEF RowsInv, RetryReadHolds, TypeOK, RetryRequest
<1>12. StageMatchesStatus'
  BY <1>1, <1>4 DEF RowsInv, StageMatchesStatus, StageFits
<1>13. QED
  BY <1>6, <1>7, <1>8, <1>9, <1>10, <1>11, <1>12 DEF RowsInv

(* Deleting a row takes its tasks with it, and so cannot strand one.       *)
LEMMA RemoveRows ==
    ASSUME IInv, NEW a \in Articles, Remove(a)
    PROVE  RowsInv'
<1>1. RowsInv /\ TypeOK /\ request' = {}
  BY IInvRows DEF IInv, Remove
<1>2. article'[a].row = "removed"
      /\ \A b \in Articles : b # a => article'[b] = article[b]
  BY <1>1 DEF Remove, TypeOK, BlankArticle, ArticleWith
<1>3. \A id \in TaskIds : /\ id[1] \in Articles
                          /\ id[1] = a => task'[id] = NoTask
                          /\ id[1] # a => task'[id] = task[id]
  BY <1>1, TaskIdPair DEF Remove, TasksWithout
<1>4. NoTask.state = "ABSENT" /\ NoTask.lease = 0 /\ NoTask.result = FALSE
  BY DEF NoTask, TaskWith
<1>5. LiveTaskIsCurrent'
  BY <1>1, <1>2, <1>3, <1>4 DEF RowsInv, LiveTaskIsCurrent, Live, CurrentFor, Processing
<1>6. \A b \in Articles : article'[b].row = "saved" =>
        b # a /\ <<b, article[b].generation>> \in TaskIds
        /\ task'[<<b, article[b].generation>>] = task[<<b, article[b].generation>>]
  <2>1. \A b \in Articles : article[b].generation \in Generations
    BY <1>1 DEF TypeOK, ArticleRow
  <2>2. QED BY <1>2, <1>3, <2>1 DEF TaskIds
<1>7. ProcessingIsBacked'
  BY <1>1, <1>2, <1>6 DEF RowsInv, ProcessingIsBacked, Processing
<1>8. LeaseCountsClaims' /\ \A id \in TaskIds : task'[id].result => Live(id)'
  BY <1>1, <1>3, <1>4 DEF RowsInv, LeaseCountsClaims, Live
<1>9. NoOrphanTask'
  BY <1>1, <1>2, <1>3, <1>4 DEF RowsInv, NoOrphanTask
<1>10. CooldownIsDelay'
  BY <1>1, <1>2, <1>6 DEF RowsInv, CooldownIsDelay
<1>11. RetryReadHolds' /\ StageMatchesStatus'
  BY <1>1, <1>2 DEF RowsInv, RetryReadHolds, StageMatchesStatus
<1>12. QED
  BY <1>5, <1>7, <1>8, <1>9, <1>10, <1>11 DEF RowsInv

(* A new generation, of a new article or of one that has settled: its task *)
(* is the article's only live one.                                         *)
LEMMA NewGenerationRows ==
    ASSUME IInv, NEW a \in Articles, NEW g \in Generations, NEW key, NEW row \in ArticleRow,
           task' = [task EXCEPT ![<<a, g>>] = NewTask(key)],
           article' = [article EXCEPT ![a] = row], request' = {},
           row.row = "saved", row.generation = g, row.processStatus = "SUMMARIZING",
           row.stage = "QUEUED", row.retryAt = "null",
           article[a].generation <= g, ~Processing(a)
    PROVE  RowsInv'
<1> DEFINE new == <<a, g>>
<1>1. RowsInv /\ TypeOK /\ new \in TaskIds
  BY IInvRows DEF IInv, TaskIds
<1>2. article'[a] = row /\ \A b \in Articles : b # a => article'[b] = article[b]
  BY <1>1 DEF TypeOK
<1>3. /\ task'[new] = NewTask(key)
      /\ \A id \in TaskIds : id # new => task'[id] = task[id]
  BY <1>1 DEF TypeOK
<1>4. \A id \in TaskIds : /\ id = <<id[1], id[2]>>
                          /\ id[1] \in Articles /\ id[2] \in Generations
  BY TaskIdPair
<1>5. /\ NewTask(key).state = "PENDING" /\ NewTask(key).lease = 0
      /\ NewTask(key).result = FALSE /\ NewTask(key).attempts = 0
  BY DEF NewTask, TaskWith
<1>6. \A id \in TaskIds : id[1] = a => ~Live(id)
  BY <1>1 DEF RowsInv, LiveTaskIsCurrent
<1>7. LiveTaskIsCurrent'
  BY <1>1, <1>2, <1>3, <1>4, <1>6
  DEF RowsInv, LiveTaskIsCurrent, Live, CurrentFor, Processing
<1>8. ProcessingIsBacked'
  <2> SUFFICES ASSUME NEW b \in Articles, Processing(b)'
               PROVE  LET u == task'[<<b, article'[b].generation>>]
                      IN u.state = "RUNNING" \/ (u.state = "PENDING" /\ u.attempts < MaxAttempts)
    BY DEF ProcessingIsBacked
  <2>1. CASE b = a
    BY <2>1, <1>2, <1>3, <1>5, ConfigAssumption
  <2>2. CASE b # a
    BY <2>2, <1>1, <1>2, <1>3 DEF ProcessingIsBacked, Processing, RowsInv, TypeOK, ArticleRow, TaskIds
  <2>3. QED BY <2>1, <2>2
<1>9. LeaseCountsClaims' /\ \A id \in TaskIds : task'[id].result => Live(id)'
  <2>1. ~Exhausted(0)
    BY ConfigAssumption DEF Exhausted
  <2>2. QED BY <1>1, <1>3, <1>5, <2>1 DEF RowsInv, LeaseCountsClaims, Live
<1>10. NoOrphanTask'
  <2>1. \A b \in Articles : article'[b].row = "never" => article'[b] = NoArticle
    BY <1>1, <1>2 DEF RowsInv, NoOrphanTask
  <2>2. ASSUME NEW id \in TaskIds, task'[id].state # "ABSENT"
        PROVE  article'[id[1]].row = "saved" /\ id[2] <= article'[id[1]].generation
    <3>1. CASE id = new
      BY <3>1, <1>2 DEF Generations
    <3>2. CASE id # new
      <4>1. article[id[1]].row = "saved" /\ id[2] <= article[id[1]].generation
        BY <3>2, <2>2, <1>1, <1>3 DEF RowsInv, NoOrphanTask
      <4>2. article[a].generation \in Generations
        BY <1>1 DEF TypeOK, ArticleRow
      <4>3. QED BY <4>1, <4>2, <1>2, <1>4, ConfigAssumption DEF Generations
    <3>3. QED BY <3>1, <3>2
  <2>3. QED BY <2>1, <2>2 DEF NoOrphanTask
<1>11. CooldownIsDelay'
  BY <1>1, <1>2, <1>3 DEF RowsInv, CooldownIsDelay, TypeOK, ArticleRow, TaskIds
<1>12. RetryReadHolds'
  BY DEF RetryReadHolds
<1>13. StageMatchesStatus'
  BY <1>1, <1>2 DEF RowsInv, StageMatchesStatus, StageFits
<1>14. QED
  BY <1>7, <1>8, <1>9, <1>10, <1>11, <1>12, <1>13 DEF RowsInv

LEMMA RequestRows ==
    ASSUME IInv, RequestStep
    PROVE  RowsInv'
<1>0. RowsInv /\ TypeOK
  BY IInvRows DEF IInv
<1>1. ASSUME NEW a \in Articles, Create(a) PROVE RowsInv'
  <2>1. /\ NewArticle \in ArticleRow /\ 1 \in Generations
        /\ article[a] = NoArticle
    BY <1>0, <1>1, ArticleRows, ConfigAssumption DEF Create, RowsInv, NoOrphanTask, Generations
  <2>2. /\ NewArticle.row = "saved" /\ NewArticle.generation = 1
        /\ NewArticle.processStatus = "SUMMARIZING" /\ NewArticle.stage = "QUEUED"
        /\ NewArticle.retryAt = "null" /\ NoArticle.row = "never" /\ NoArticle.generation = 0
    BY DEF NewArticle, NoArticle, BlankArticle, ArticleWith
  <2>3. article[a].generation <= 1 /\ ~Processing(a)
    BY <2>1, <2>2 DEF Processing
  <2>4. QED BY <1>1, <2>1, <2>2, <2>3, NewGenerationRows DEF Create
<1>2. ASSUME NEW a \in Articles, Remove(a) PROVE RowsInv'
  BY <1>2, RemoveRows
<1>3. ASSUME NEW a \in Articles, NEW key \in Keys \cup {NoKey}, RetryRead(a, key)
      PROVE  RowsInv'
  <2>1. RowsInv /\ UNCHANGED <<article, task>>
    BY <1>0, <1>3 DEF RetryRead
  <2>2. RetryReadHolds'
    BY <1>3 DEF RetryRead, RetryAllowed, RetryReadHolds
  <2>3. QED
    BY <2>1, <2>2 DEF RowsInv, LiveTaskIsCurrent, ProcessingIsBacked, LeaseCountsClaims,
       NoOrphanTask, CooldownIsDelay, StageMatchesStatus, Live, CurrentFor, Processing
<1>4. ASSUME NEW r \in request, RetryWrite(r) PROVE RowsInv'
  <2> DEFINE row == Requeued(article[r.id], r)
  <2>1. r \in RetryRequest /\ r.id \in Articles /\ r.generation \in Generations
        /\ article[r.id] \in ArticleRow /\ article[r.id].generation \in Int
    BY <1>0 DEF TypeOK, RetryRequest, ArticleRow, Generations
  <2>2. article[r.id].row = "saved" /\ ~Processing(r.id)
        /\ r.generation = article[r.id].generation + 1
    BY <1>0 DEF RowsInv, RetryReadHolds, Processing
  <2>3. /\ row \in ArticleRow /\ row.row = "saved" /\ row.generation = r.generation
        /\ row.processStatus = "SUMMARIZING" /\ row.stage = "QUEUED" /\ row.retryAt = "null"
    BY <2>1, <2>2 DEF Requeued, RetryRequest, ArticleRow
  <2>4. article[r.id].generation <= r.generation
    BY <2>1, <2>2
  <2>5. article' = [article EXCEPT ![r.id] = row] /\ request' = {}
        /\ task' = [task EXCEPT ![<<r.id, r.generation>>] = NewTask(r.key)]
    BY <1>4, <2>1 DEF RetryWrite
  <2> HIDE DEF row
  <2>6. QED BY <2>1, <2>2, <2>3, <2>4, <2>5, NewGenerationRows
<1>5. CASE RetryAborts
  BY <1>0, <1>5, RowsUnchanged DEF RetryAborts
<1>6. QED BY <1>1, <1>2, <1>3, <1>4, <1>5 DEF RequestStep

(* The rows stay in order whatever step is taken.                          *)
LEMMA NextRows ==
    ASSUME IInv, [Next]_vars PROVE RowsInv'
<1>0. RowsInv /\ TypeOK
  BY IInvRows DEF IInv
<1>1. CASE UNCHANGED vars
  BY <1>0, <1>1, RowsUnchanged DEF vars
<1>2. CASE RequestStep
  BY <1>2, RequestRows
<1>3. CASE FaultStep
  <2>1. UNCHANGED <<article, task>> /\ request' \subseteq request
    BY <1>3 DEF FaultStep, DispatchAborts, Crash, AddFails, StepFails, JobThrows, JobLost,
       JobTaken, JobStalls
  <2>2. QED BY <1>0, <2>1, RowsUnchanged
<1>4. ASSUME NEW p \in Procs, DispatchStep(p) PROVE RowsInv'
  <2>1. CASE DispatchStart(p) \/ DispatchSelect(p)
    BY <1>0, <2>1, RowsUnchanged DEF DispatchStart, DispatchSelect
  <2>2. QED BY <1>4, <2>1, ReclaimRows DEF DispatchStep
<1>5. ASSUME NEW w \in Workers, WorkerStep(w) PROVE RowsInv'
  <2>1. CASE StageExtracting(w) \/ StageGenerating(w)
    BY <2>1, StageRows DEF StageExtracting, StageGenerating
  <2>2. CASE StagePersisting(w)
    <3>1. CASE worker[w].lost
      BY <1>0, <2>2, <3>1, RowsUnchanged DEF StagePersisting
    <3>2. QED BY <2>2, <3>1, StageRows DEF StagePersisting
  <2>3. ASSUME NEW f \in Failure,
               ExtractFails(w) \/ SummarizeFails(w, f) \/ CompleteMisses(w) \/ Finish(w)
        PROVE  RowsInv'
    BY <1>0, <2>3, RowsUnchanged DEF ExtractFails, SummarizeFails, CompleteMisses, Finish
  <2>4. PersistenceFailed \in Failure
    BY PersistenceFailedType
  <2>5. QED
    BY <1>5, <2>1, <2>2, <2>3, <2>4, ClaimRows, CheckpointRows, CompleteRows, FailRows
    DEF WorkerStep
<1>7. ASSUME NEW w \in Workers, Heartbeat(w) PROVE RowsInv'
  BY <1>0, <1>7, RowsUnchanged DEF Heartbeat
<1>8. ASSUME NEW w \in Workers, NEW id \in TaskIds, Fetch(w, id) PROVE RowsInv'
  BY <1>0, <1>8, RowsUnchanged DEF Fetch
<1>9. ASSUME NEW p \in Procs, NEW id \in TaskIds, JobAdded(p, id) PROVE RowsInv'
  BY <1>0, <1>9, RowsUnchanged DEF JobAdded
<1>10. ASSUME NEW id \in TaskIds, JobRecovered(id) PROVE RowsInv'
  BY <1>0, <1>10, RowsUnchanged DEF JobRecovered, JobStalls
<1>11. QED
  BY <1>1, <1>2, <1>3, <1>4, <1>5, <1>7, <1>8, <1>9, <1>10, TimeRows, WindowRows DEF Next

-------------------------------------------------------------------------------
(* Handlers, and the rows they may come back to.                           *)

(* Nobody saves a deleted row again: its id is gone with it.               *)
LEMMA RemovedStays ==
    ASSUME IInv, [Next]_vars, NEW a \in Articles, article[a].row = "removed"
    PROVE  article'[a].row = "removed"
<1>1. TypeOK /\ RetryReadHolds /\ NoOrphanTask
  BY DEF IInv
<1>2. ASSUME NEW id, NEW row, WriteCurrent(id, row) PROVE article'[a] = article[a]
  BY <1>1, <1>2 DEF WriteCurrent, CurrentFor, TypeOK
<1>3. CASE RequestStep
  <2>1. ASSUME NEW b \in Articles, Create(b) \/ Remove(b) PROVE article'[a] = article[a]
    BY <1>1, <2>1 DEF Create, Remove, TypeOK
  <2>2. ASSUME NEW r \in request, RetryWrite(r) PROVE article'[a] = article[a]
    BY <1>1, <2>2 DEF RetryWrite, RetryReadHolds, TypeOK
  <2>3. QED BY <1>3, <2>1, <2>2 DEF RequestStep, RetryRead, RetryAborts
<1>4. CASE FaultStep
  BY <1>4 DEF FaultStep, DispatchAborts, Crash, AddFails, StepFails, JobThrows, JobLost,
     JobTaken, JobStalls
<1>5. ASSUME NEW p \in Procs, DispatchStep(p) PROVE article'[a] = article[a]
  BY <1>2, <1>5 DEF DispatchStep, DispatchStart, DispatchSelect, Reclaim
<1>6. ASSUME NEW w \in Workers, WorkerStep(w) PROVE article'[a] = article[a]
  <2>1. CASE StageExtracting(w) \/ StageGenerating(w) \/ StagePersisting(w)
    BY <1>2, <2>1 DEF StageExtracting, StageGenerating, StagePersisting, StageTx
  <2>2. CASE Complete(w) \/ Fail(w)
    BY <1>2, <2>2 DEF Complete, Fail
  <2>3. QED
    BY <1>6, <2>1, <2>2
    DEF WorkerStep, ClaimWins, ClaimMisses, ExtractFails, SummarizeFails, Checkpoint,
        CompleteMisses, Finish
<1>7. ASSUME NEW id \in TaskIds, LeaseLapses(id) \/ DelayPasses(id) \/ JobRecovered(id)
      PROVE  article'[a] = article[a]
  BY <1>2, <1>7 DEF LeaseLapses, DelayPasses, JobRecovered, JobStalls
<1>8. ASSUME NEW b \in Articles, WindowPasses(b) PROVE article'[a].row = "removed"
  <2>1. [article[b] EXCEPT !.inWindow = FALSE].row = article[b].row
    BY <1>1 DEF TypeOK, ArticleRow
  <2>2. QED BY <1>1, <1>8, <2>1 DEF WindowPasses, TypeOK
<1>9. QED
  BY <1>3, <1>4, <1>5, <1>6, <1>7, <1>8 DEF Next, vars, JobAdded, Heartbeat, Fetch

(* A task row is not started over while a handler may come back to it, and *)
(* only a claim or a checkpoint gives it anything a handler could mistake. *)
TaskKeeps(id) ==
    /\ task'[id].state = "ABSENT" => task'[id].attempts = 0
    /\ task'[id].attempts >= task[id].attempts \/ article'[id[1]].row = "removed"
    /\ task'[id].state = "RUNNING" =>
         /\ task[id].state = "RUNNING" /\ task'[id].lease = task[id].lease
         /\ ~task'[id].lapsed => ~task[id].lapsed
         /\ task'[id].result => task[id].result

LEMMA TasksUnchanged ==
    ASSUME TypeOK, AbsentIsUnclaimed, task' = task
    PROVE  \A id \in TaskIds : TaskKeeps(id)
<1>1. \A id \in TaskIds : task[id].attempts \in Int
  BY DEF TypeOK, TaskRow, Attempts
<1>2. QED BY <1>1 DEF TaskKeeps, AbsentIsUnclaimed

LEMMA OneTaskKeeps ==
    ASSUME TypeOK, AbsentIsUnclaimed, NEW id \in TaskIds, NEW t \in TaskRow,
           task' = [task EXCEPT ![id] = t], t.state # "ABSENT",
           t.attempts = task[id].attempts,
           t.state = "RUNNING" => /\ task[id].state = "RUNNING" /\ t.lease = task[id].lease
                                  /\ ~t.lapsed => ~task[id].lapsed
                                  /\ t.result => task[id].result
    PROVE  \A i \in TaskIds : TaskKeeps(i)
<1>1. \A i \in TaskIds : task[i].attempts \in Int
  BY DEF TypeOK, TaskRow, Attempts
<1>2. task'[id] = t /\ \A i \in TaskIds : i # id => task'[i] = task[i]
  BY DEF TypeOK
<1>3. QED BY <1>1, <1>2 DEF TaskKeeps, AbsentIsUnclaimed

LEMMA RequestKeeps ==
    ASSUME IInv, RequestStep PROVE \A id \in TaskIds : TaskKeeps(id)
<1>1. TypeOK /\ AbsentIsUnclaimed /\ NoOrphanTask /\ RetryReadHolds
      /\ \A id \in TaskIds : task[id].attempts \in Int
  BY DEF IInv, TypeOK, TaskRow, Attempts
<1>2. NoTask.state = "ABSENT" /\ NoTask.attempts = 0
      /\ \A k : NewTask(k).state = "PENDING" /\ NewTask(k).attempts = 0
  BY DEF NoTask, NewTask, TaskWith
<1>3. ASSUME NEW a \in Articles, Remove(a) PROVE \A id \in TaskIds : TaskKeeps(id)
  <2>1. article'[a].row = "removed"
    BY <1>1, <1>3 DEF Remove, TypeOK, BlankArticle, ArticleWith
  <2>2. QED BY <1>1, <1>2, <1>3, <2>1 DEF Remove, TasksWithout, TaskKeeps, AbsentIsUnclaimed
<1>4. ASSUME NEW id \in TaskIds, NEW k, task[id].state = "ABSENT",
             task' = [task EXCEPT ![id] = NewTask(k)]
      PROVE  \A i \in TaskIds : TaskKeeps(i)
  <2>1. task'[id] = NewTask(k) /\ \A i \in TaskIds : i # id => task'[i] = task[i]
    BY <1>1, <1>4 DEF TypeOK
  <2>2. QED BY <1>1, <1>2, <1>4, <2>1 DEF TaskKeeps, AbsentIsUnclaimed
<1>5. ASSUME NEW a \in Articles, Create(a) PROVE \A id \in TaskIds : TaskKeeps(id)
  <2>1. <<a, 1>> \in TaskIds
    BY ConfigAssumption DEF TaskIds, Generations
  <2>2. task[<<a, 1>>].state = "ABSENT"
    BY <1>1, <1>5, <2>1 DEF NoOrphanTask, Create
  <2>3. QED BY <1>4, <1>5, <2>1, <2>2 DEF Create
<1>6. ASSUME NEW r \in request, RetryWrite(r) PROVE \A id \in TaskIds : TaskKeeps(id)
  <2>1. <<r.id, r.generation>> \in TaskIds
    BY <1>1 DEF TaskIds, TypeOK, RetryRequest
  <2>2. QED BY <1>4, <1>6, <2>1 DEF RetryWrite
<1>7. QED
  BY <1>1, <1>3, <1>5, <1>6, TasksUnchanged DEF RequestStep, RetryRead, RetryAborts

LEMMA StepKeeps ==
    ASSUME IInv, Next, \A w \in Workers : ~ClaimWins(w) /\ ~Checkpoint(w)
    PROVE  \A id \in TaskIds : TaskKeeps(id)
<1>1. TypeOK /\ AbsentIsUnclaimed /\ RowsInv /\ HandlersMatch
  BY IInvRows DEF IInv
<1>2. CASE RequestStep
  BY <1>2, RequestKeeps
<1>3. CASE FaultStep
  BY <1>1, <1>3, TasksUnchanged
  DEF FaultStep, DispatchAborts, Crash, AddFails, StepFails, JobThrows, JobLost, JobTaken,
      JobStalls
<1>4. ASSUME NEW p \in Procs, DispatchStep(p) PROVE \A id \in TaskIds : TaskKeeps(id)
  <2>1. ASSUME NEW e \in reclaiming[p], Reclaim(p, e) PROVE \A id \in TaskIds : TaskKeeps(id)
    <3> DEFINE b == Exhausted(e.attempts)
               t == ReclaimedTask(task[e.id], b)
    <3>1. e.id \in TaskIds /\ b \in BOOLEAN /\ task[e.id] \in TaskRow
      BY <1>1 DEF TypeOK, Snapshot, Exhausted
    <3>2. t \in TaskRow
      BY <3>1, TaskWrites
    <3>5. t.state \in {"PENDING", "FAILED"} /\ t.attempts = task[e.id].attempts
      <4> HIDE DEF b
      <4>1. QED BY <3>1 DEF ReclaimedTask, TaskRow
    <3>3. task' = task \/ task' = [task EXCEPT ![e.id] = t]
      BY <2>1 DEF Reclaim
    <3> HIDE DEF t
    <3>4. QED BY <1>1, <3>1, <3>2, <3>3, <3>5, TasksUnchanged, OneTaskKeeps
  <2>2. QED
    BY <1>1, <1>4, <2>1, TasksUnchanged DEF DispatchStep, DispatchStart, DispatchSelect
<1>5. ASSUME NEW w \in Workers, WorkerStep(w) PROVE \A id \in TaskIds : TaskKeeps(id)
  <2> DEFINE id == worker[w].task
  <2>1. CASE ClaimMisses(w)
    <3>1. id \in TaskIds
      BY <1>1, <2>1 DEF HandlersMatch, ClaimMisses
    <3>2. task' = task
      BY <1>1, <2>1, <3>1 DEF ClaimMisses, RowsInv, LiveTaskIsCurrent, Live
    <3>3. QED BY <1>1, <3>2, TasksUnchanged
  <2>2. CASE Complete(w)
    <3> DEFINE t == SucceededTask(task[id])
    <3>1. id \in TaskIds /\ t \in TaskRow /\ task[id] \in TaskRow
      BY <1>1, <2>2, HandlerRows, TaskWrites DEF Complete
    <3>2. t.state = "SUCCEEDED" /\ t.attempts = task[id].attempts
      BY <3>1 DEF SucceededTask, TaskRow
    <3>3. task' = [task EXCEPT ![id] = t]
      BY <2>2 DEF Complete
    <3> HIDE DEF t
    <3>4. QED BY <1>1, <3>1, <3>2, <3>3, OneTaskKeeps
  <2>3. CASE Fail(w)
    <3> DEFINE retry == worker[w].failure.retryable /\ ~Exhausted(worker[w].attempts)
               t == FailedTask(task[id], retry)
    <3>1. retry \in BOOLEAN
      BY <1>1 DEF TypeOK, WorkerState, Failure
    <3>2. id \in TaskIds /\ t \in TaskRow /\ task[id] \in TaskRow
      BY <1>1, <2>3, <3>1, HandlerRows, TaskWrites DEF Fail
    <3>3. t.state \in {"PENDING", "FAILED"} /\ t.attempts = task[id].attempts
      BY <3>1, <3>2 DEF FailedTask, TaskRow
    <3>4. task' = task \/ task' = [task EXCEPT ![id] = t]
      BY <2>3 DEF Fail
    <3> HIDE DEF t
    <3>5. QED BY <1>1, <3>2, <3>3, <3>4, OneTaskKeeps, TasksUnchanged
  <2>4. QED
    BY <1>1, <1>5, <2>1, <2>2, <2>3, TasksUnchanged
    DEF WorkerStep, ExtractFails, SummarizeFails, CompleteMisses, Finish, StageExtracting,
        StageGenerating, StagePersisting
<1>6. ASSUME NEW id \in TaskIds, LeaseLapses(id) \/ DelayPasses(id)
      PROVE  \A i \in TaskIds : TaskKeeps(i)
  <2>1. task[id] \in TaskRow
    BY <1>1 DEF TypeOK
  <2>2. CASE LeaseLapses(id)
    <3> DEFINE t == [task[id] EXCEPT !.lapsed = TRUE]
    <3>1. t \in TaskRow /\ task' = [task EXCEPT ![id] = t] /\ task[id].state = "RUNNING"
      BY <2>1, <2>2, TaskWrites DEF LeaseLapses
    <3>2. /\ t.state = task[id].state /\ t.attempts = task[id].attempts
          /\ t.lease = task[id].lease /\ t.result = task[id].result /\ t.lapsed
      BY <2>1 DEF TaskRow
    <3> HIDE DEF t
    <3>3. QED BY <1>1, <3>1, <3>2, OneTaskKeeps
  <2>3. CASE DelayPasses(id)
    <3> DEFINE t == [task[id] EXCEPT !.due = TRUE]
    <3>1. t \in TaskRow /\ task' = [task EXCEPT ![id] = t]
          /\ task[id].state \in {"PENDING", "FAILED"}
      BY <2>1, <2>3, TaskWrites DEF DelayPasses
    <3>2. t.state = task[id].state /\ t.attempts = task[id].attempts
      BY <2>1 DEF TaskRow
    <3> HIDE DEF t
    <3>3. QED BY <1>1, <3>1, <3>2, OneTaskKeeps
  <2>4. QED BY <1>6, <2>2, <2>3
<1>7. QED
  BY <1>1, <1>2, <1>3, <1>4, <1>5, <1>6, TasksUnchanged
  DEF Next, JobAdded, Heartbeat, Fetch, JobRecovered, JobStalls, WindowPasses

(* A handler that is still at work has kept its task and its lease.        *)
Early == {"begin", "extracting", "generating"}
HandlerKeeps(w) ==
    /\ worker'[w].pc # "idle" => worker'[w].task \in TaskIds
    /\ Holds(w)' =>
         /\ Holds(w) /\ worker'[w].task = worker[w].task
         /\ worker'[w].lease = worker[w].lease /\ worker'[w].attempts = worker[w].attempts
    /\ worker'[w].pc \in Early => worker[w].pc \in Early

LEMMA HandlersUnchanged ==
    ASSUME HandlersMatch, worker' = worker
    PROVE  \A v \in Workers : HandlerKeeps(v)
BY DEF HandlersMatch, HandlerKeeps, Holds

LEMMA OneHandlerKeeps ==
    ASSUME TypeOK, HandlersMatch, NEW w \in Workers, NEW state,
           worker' = [worker EXCEPT ![w] = state], worker[w].pc # "idle",
           state.task = worker[w].task,
           \/ state.pc = "finish"
           \/ /\ Holds(w) /\ state.lease = worker[w].lease
              /\ state.attempts = worker[w].attempts
              /\ state.pc \in Early => worker[w].pc \in Early
    PROVE  \A v \in Workers : HandlerKeeps(v)
<1>1. worker'[w] = state /\ \A v \in Workers : v # w => worker'[v] = worker[v]
  BY DEF TypeOK
<1>2. QED BY <1>1 DEF HandlersMatch, HandlerKeeps, Holds, Early

LEMMA GotoKeeps ==
    ASSUME TypeOK, HandlersMatch, NEW w \in Workers, NEW pc, Goto(w, pc),
           worker[w].pc # "idle",
           pc = "finish" \/ (Holds(w) /\ (pc \in Early => worker[w].pc \in Early))
    PROVE  \A v \in Workers : HandlerKeeps(v)
<1> DEFINE state == [worker[w] EXCEPT !.pc = pc]
<1>1. /\ state.pc = pc /\ state.task = worker[w].task /\ state.lease = worker[w].lease
      /\ state.attempts = worker[w].attempts
  BY DEF TypeOK, WorkerState
<1>2. worker' = [worker EXCEPT ![w] = state]
  BY DEF Goto
<1> HIDE DEF state
<1>3. QED BY <1>1, <1>2, OneHandlerKeeps

LEMMA ThrowKeeps ==
    ASSUME TypeOK, HandlersMatch, NEW w \in Workers, NEW f, Throw(w, f), Holds(w)
    PROVE  \A v \in Workers : HandlerKeeps(v)
<1> DEFINE state == [worker[w] EXCEPT !.pc = "failing", !.failure = f]
<1>1. /\ state.pc = "failing" /\ state.task = worker[w].task
      /\ state.lease = worker[w].lease /\ state.attempts = worker[w].attempts
  BY DEF TypeOK, WorkerState
<1>2. worker' = [worker EXCEPT ![w] = state]
  BY DEF Throw
<1> HIDE DEF state
<1>3. QED BY <1>1, <1>2, OneHandlerKeeps DEF Early, Holds

LEMMA StepKeepsHandlers ==
    ASSUME IInv, Next, \A w \in Workers : ~ClaimWins(w)
    PROVE  \A v \in Workers : HandlerKeeps(v)
<1>1. TypeOK /\ HandlersMatch
  BY DEF IInv
<1>2. CASE RequestStep
  BY <1>1, <1>2, HandlersUnchanged
  DEF RequestStep, Create, Remove, RetryRead, RetryWrite, RetryAborts
<1>3. ASSUME NEW p \in Procs, Crash(p) PROVE \A v \in Workers : HandlerKeeps(v)
  BY <1>1, <1>3 DEF Crash, IdleWorker, HandlersMatch, HandlerKeeps, Holds, Early
<1>4. ASSUME NEW w \in Workers, StepFails(w) \/ JobThrows(w)
      PROVE  \A v \in Workers : HandlerKeeps(v)
  BY <1>1, <1>4, GotoKeeps, ThrowKeeps DEF StepFails, JobThrows, Holds
<1>5. CASE FaultStep
  BY <1>1, <1>3, <1>4, <1>5, HandlersUnchanged
  DEF FaultStep, DispatchAborts, AddFails, JobLost, JobTaken, JobStalls
<1>6. ASSUME NEW p \in Procs, DispatchStep(p) PROVE \A v \in Workers : HandlerKeeps(v)
  BY <1>1, <1>6, HandlersUnchanged DEF DispatchStep, DispatchStart, DispatchSelect, Reclaim
<1>7. ASSUME NEW w \in Workers, WorkerStep(w) PROVE \A v \in Workers : HandlerKeeps(v)
  <2>1. CASE ClaimMisses(w)
    BY <1>1, <2>1, GotoKeeps DEF ClaimMisses
  <2>2. CASE StageExtracting(w)
    BY <1>1, <2>2, GotoKeeps DEF StageExtracting, StageTx, Holds, Early
  <2>3. CASE StageGenerating(w)
    BY <1>1, <2>3, GotoKeeps DEF StageGenerating, StageTx, Holds, Early
  <2>4. ASSUME NEW f \in Failure, ExtractFails(w) \/ SummarizeFails(w, f)
        PROVE  \A v \in Workers : HandlerKeeps(v)
    BY <1>1, <2>4, ThrowKeeps DEF ExtractFails, SummarizeFails, Holds
  <2>5. CASE Checkpoint(w)
    BY <1>1, <2>5, GotoKeeps, ThrowKeeps DEF Checkpoint, Holds, Early
  <2>6. CASE StagePersisting(w)
    BY <1>1, <2>6, GotoKeeps DEF StagePersisting, StageTx, Holds, Early
  <2>7. CASE Complete(w)
    BY <1>1, <2>7, GotoKeeps, ThrowKeeps DEF Complete, Holds, Early
  <2>8. CASE CompleteMisses(w)
    BY <1>1, <2>8, GotoKeeps DEF CompleteMisses
  <2>9. CASE Fail(w)
    BY <1>1, <2>9, GotoKeeps DEF Fail
  <2>10. CASE Finish(w)
    BY <1>1, <2>10
    DEF Finish, IdleWorker, TypeOK, HandlersMatch, HandlerKeeps, Holds, Early
  <2>11. PersistenceFailed \in Failure
    BY PersistenceFailedType
  <2>12. QED
    BY <1>7, <2>1, <2>2, <2>3, <2>4, <2>5, <2>6, <2>7, <2>8, <2>9, <2>10, <2>11
    DEF WorkerStep
<1>8. ASSUME NEW w \in Workers, Heartbeat(w) PROVE \A v \in Workers : HandlerKeeps(v)
  <2> DEFINE state == [worker[w] EXCEPT !.lost = TRUE]
  <2>1. /\ state.pc = worker[w].pc /\ state.task = worker[w].task
        /\ state.lease = worker[w].lease /\ state.attempts = worker[w].attempts
    BY <1>1 DEF TypeOK, WorkerState
  <2>2. worker' = [worker EXCEPT ![w] = state] /\ Holds(w)
    BY <1>8 DEF Heartbeat
  <2> HIDE DEF state
  <2>3. QED BY <1>1, <2>1, <2>2, OneHandlerKeeps DEF Holds
<1>9. ASSUME NEW w \in Workers, NEW id \in TaskIds, Fetch(w, id)
      PROVE  \A v \in Workers : HandlerKeeps(v)
  <2>1. worker'[w].pc = "claim" /\ worker'[w].task = id
        /\ \A v \in Workers : v # w => worker'[v] = worker[v]
    BY <1>1, <1>9 DEF Fetch, IdleWorker, TypeOK
  <2>2. QED BY <1>1, <2>1 DEF HandlersMatch, HandlerKeeps, Holds, Early
<1>10. QED
  BY <1>1, <1>2, <1>5, <1>6, <1>7, <1>8, <1>9, HandlersUnchanged
  DEF Next, JobAdded, LeaseLapses, DelayPasses, JobRecovered, JobStalls, WindowPasses

(* What is left of the inductive invariant once the rows are in order.     *)
ActorsInv ==
    AbsentIsUnclaimed /\ SnapshotsMatch /\ HandlersMatch /\ CheckpointIsUsed

LEMMA RowsAndActors == TypeOK /\ RowsInv /\ ActorsInv => IInv
BY DEF IInv, RowsInv, ActorsInv

(* Handlers that keep their leases still hold claims of the kept tasks.    *)
LEMMA KeptHandlersMatch ==
    ASSUME IInv, [Next]_vars, TypeOK', \A v \in Workers : HandlerKeeps(v),
           \A id \in TaskIds : \/ task'[id].attempts >= task[id].attempts
                               \/ article'[id[1]].row = "removed"
    PROVE  HandlersMatch'
<1>1. TypeOK /\ HandlersMatch
  BY DEF IInv
<1>2. ASSUME NEW v \in Workers, Holds(v)'
      PROVE  /\ worker'[v].lease = worker'[v].attempts /\ worker'[v].lease > 0
             /\ \/ article'[worker'[v].task[1]].row = "removed"
                \/ worker'[v].lease <= task'[worker'[v].task].attempts
  <2> DEFINE id == worker[v].task
  <2>1. /\ Holds(v) /\ worker'[v].task = id /\ worker'[v].lease = worker[v].lease
        /\ worker'[v].attempts = worker[v].attempts /\ worker[v].pc # "idle"
    BY <1>2 DEF HandlerKeeps, Holds
  <2>2. /\ id \in TaskIds /\ id[1] \in Articles /\ worker[v].lease \in Int
        /\ task[id].attempts \in Int /\ task'[id].attempts \in Int
    BY <1>1, <2>1, HandlerRows DEF TypeOK, WorkerState, TaskRow, Attempts
  <2>3. worker[v].lease = worker[v].attempts /\ worker[v].lease > 0
        /\ (article[id[1]].row = "removed" \/ worker[v].lease <= task[id].attempts)
    BY <1>1, <2>1 DEF HandlersMatch
  <2>4. article[id[1]].row = "removed" => article'[id[1]].row = "removed"
    BY <2>2, RemovedStays
  <2>5. QED BY <2>1, <2>2, <2>3, <2>4
<1>3. ASSUME NEW v1 \in Workers, NEW v2 \in Workers, Holds(v1)', Holds(v2)', v1 # v2,
             worker'[v1].task = worker'[v2].task
      PROVE  worker'[v1].lease # worker'[v2].lease
  BY <1>1, <1>3 DEF HandlerKeeps, HandlersMatch
<1>4. \A v \in Workers : worker'[v].pc # "idle" => worker'[v].task \in TaskIds
  BY DEF HandlerKeeps
<1>5. QED BY <1>2, <1>3, <1>4 DEF HandlersMatch

(* A claim draws a lease that no handler of the task has had before.       *)
LEMMA ClaimKeeps ==
    ASSUME IInv, NEW w \in Workers, ClaimWins(w), TypeOK'
    PROVE  HandlersMatch' /\ AbsentIsUnclaimed'
           /\ \A v \in Workers : worker'[v].pc \in Early /\ Owns(v)' =>
                ~task'[worker'[v].task].result
<1> DEFINE id == worker[w].task
           n == task[id].attempts + 1
<1>1. TypeOK /\ HandlersMatch /\ AbsentIsUnclaimed /\ CheckpointIsUsed /\ LeaseCountsClaims
  BY DEF IInv
<1>2. /\ id \in TaskIds /\ task[id] \in TaskRow /\ worker[w].pc = "claim"
      /\ task[id].state = "PENDING" /\ article[id[1]].row = "saved"
      /\ task[id].attempts \in Int /\ worker[w] \in WorkerState
  BY <1>1, HandlerRows, SMTT(30) DEF ClaimWins, Claimable, CurrentFor, TaskRow, Attempts
<1>3. /\ task'[id].state = "RUNNING" /\ task'[id].attempts = n /\ task'[id].lease = n
      /\ task'[id].result = task[id].result
      /\ \A i \in TaskIds : i # id => task'[i] = task[i]
  <2>1. /\ ClaimedTask(task[id]).state = "RUNNING" /\ ClaimedTask(task[id]).attempts = n
        /\ ClaimedTask(task[id]).lease = n /\ ClaimedTask(task[id]).result = task[id].result
    BY <1>2 DEF ClaimedTask, TaskRow
  <2>2. task' = [task EXCEPT ![id] = ClaimedTask(task[id])]
    BY DEF ClaimWins
  <2>3. QED BY <1>1, <1>2, <2>1, <2>2 DEF TypeOK
<1>4. article' = article /\ \A v \in Workers : v # w => worker'[v] = worker[v]
  BY <1>1 DEF ClaimWins, Goto, TypeOK
<1>5. /\ worker'[w].task = id
      /\ \/ worker'[w].pc = "finish"
         \/ /\ worker'[w].pc = FirstStep(id)
            /\ worker'[w].attempts = n /\ worker'[w].lease = n
  <2>1. CASE Goto(w, "finish")
    BY <1>1, <1>2, <2>1 DEF Goto, TypeOK, WorkerState
  <2>2. CASE worker' = [worker EXCEPT ![w] =
                  [@ EXCEPT !.pc = FirstStep(id), !.attempts = n, !.lease = n]]
    <3> HIDE DEF n
    <3>1. QED BY <1>1, <1>2, <2>2 DEF TypeOK, WorkerState
  <2>3. QED BY <2>1, <2>2 DEF ClaimWins
<1>6. AbsentIsUnclaimed'
  BY <1>1, <1>3 DEF AbsentIsUnclaimed
<1>7. ASSUME NEW v \in Workers, v # w, Holds(v)
      PROVE  /\ worker[v].task \in TaskIds /\ worker[v].lease \in Int
             /\ task[worker[v].task].attempts \in Int
             /\ worker[v].lease = worker[v].attempts /\ worker[v].lease > 0
             /\ worker[v].task = id => worker[v].lease < n
             /\ \/ article[worker[v].task[1]].row = "removed"
                \/ worker[v].lease <= task[worker[v].task].attempts
  <2>1. worker[v].pc # "idle"
    BY <1>7 DEF Holds
  <2>2. worker[v].task \in TaskIds /\ worker[v].lease \in Int
        /\ task[worker[v].task].attempts \in Int
    BY <1>1, <2>1, HandlerRows DEF WorkerState, TaskRow, Attempts
  <2>3. worker[v].lease = worker[v].attempts /\ worker[v].lease > 0
        /\ (article[worker[v].task[1]].row = "removed"
            \/ worker[v].lease <= task[worker[v].task].attempts)
    BY <1>1, <1>7 DEF HandlersMatch
  <2>4. QED BY <1>2, <2>2, <2>3
<1>8. \A v \in Workers : worker'[v].pc # "idle" => worker'[v].task \in TaskIds
  BY <1>1, <1>2, <1>4, <1>5 DEF HandlersMatch
<1>9. \A v \in Workers : v # w => (Holds(v)' <=> Holds(v))
  BY <1>4 DEF Holds
<1>10. Holds(w)' => worker'[w].attempts = n /\ worker'[w].lease = n
  BY <1>5 DEF Holds
<1>11. ASSUME NEW v \in Workers, Holds(v)'
       PROVE  /\ worker'[v].lease = worker'[v].attempts /\ worker'[v].lease > 0
              /\ \/ article'[worker'[v].task[1]].row = "removed"
                 \/ worker'[v].lease <= task'[worker'[v].task].attempts
  <2>1. CASE v = w
    <3>1. n > 0
      BY <1>2 DEF TaskRow, Attempts
    <3>2. QED BY <1>2, <1>3, <1>5, <1>10, <1>11, <2>1, <3>1
  <2>2. CASE v # w
    BY <1>3, <1>4, <1>7, <1>9, <1>11, <2>2
  <2>3. QED BY <2>1, <2>2
<1>12. ASSUME NEW v1 \in Workers, NEW v2 \in Workers, Holds(v1)', Holds(v2)', v1 # v2,
              worker'[v1].task = worker'[v2].task
       PROVE  worker'[v1].lease # worker'[v2].lease
  <2>1. CASE v1 # w /\ v2 # w
    BY <1>1, <1>4, <1>9, <1>12, <2>1 DEF HandlersMatch
  <2>2. CASE v1 = w
    BY <1>2, <1>4, <1>5, <1>7, <1>9, <1>10, <1>12, <2>2
  <2>3. CASE v2 = w
    BY <1>2, <1>4, <1>5, <1>7, <1>9, <1>10, <1>12, <2>3
  <2>4. QED BY <2>1, <2>2, <2>3
<1>13. ASSUME NEW v \in Workers, worker'[v].pc \in Early, Owns(v)'
       PROVE  ~task'[worker'[v].task].result
  <2>1. CASE v = w
    BY <1>3, <1>5, <1>13, <2>1 DEF FirstStep, Early
  <2>2. CASE v # w
    <3>1. Holds(v) /\ worker'[v] = worker[v] /\ worker[v].pc \in Early
      BY <1>4, <1>13, <2>2 DEF Holds, Early
    <3>2. worker[v].task # id
      BY <1>2, <1>3, <1>7, <1>13, <2>2, <3>1 DEF Owns
    <3>3. task'[worker[v].task] = task[worker[v].task]
      BY <1>3, <1>7, <2>2, <3>1, <3>2
    <3>4. Owns(v)
      BY <1>13, <3>1, <3>3 DEF Owns
    <3>5. QED BY <1>1, <3>1, <3>3, <3>4 DEF CheckpointIsUsed, Early
  <2>3. QED BY <2>1, <2>2
<1>14. HandlersMatch'
  BY <1>8, <1>11, <1>12 DEF HandlersMatch
<1>15. QED BY <1>6, <1>13, <1>14

(* A checkpoint is written under the one lease its handler holds.          *)
LEMMA CheckpointKeeps ==
    ASSUME IInv, NEW w \in Workers, Checkpoint(w), TypeOK', Next,
           \A v \in Workers : HandlerKeeps(v)
    PROVE  HandlersMatch' /\ AbsentIsUnclaimed'
           /\ \A v \in Workers : worker'[v].pc \in Early /\ Owns(v)' =>
                ~task'[worker'[v].task].result
<1> DEFINE id == worker[w].task
           t == [task[id] EXCEPT !.result = TRUE]
<1>1. TypeOK /\ HandlersMatch /\ AbsentIsUnclaimed /\ CheckpointIsUsed
  BY DEF IInv
<1>2. /\ id \in TaskIds /\ task[id] \in TaskRow /\ worker[w].pc = "generating"
      /\ Holds(w) /\ worker'[w].pc \notin Early
  <2>1. ASSUME NEW pc, Goto(w, pc) PROVE worker'[w].pc = pc
    BY <1>1, <2>1 DEF Goto, TypeOK, WorkerState
  <2>2. ASSUME NEW f, Throw(w, f) PROVE worker'[w].pc = "failing"
    BY <1>1, <2>2 DEF Throw, TypeOK, WorkerState
  <2>3. worker'[w].pc \in {"persist", "failing", "finish"}
    BY <2>1, <2>2 DEF Checkpoint
  <2>4. QED BY <1>1, <2>3, HandlerRows DEF Checkpoint, Holds, Early
<1>3. \A i \in TaskIds : /\ task'[i].state = task[i].state
                         /\ task'[i].attempts = task[i].attempts
                         /\ task'[i].lease = task[i].lease
                         /\ task'[i].lapsed = task[i].lapsed
                         /\ i # id => task'[i] = task[i]
                         /\ i = id /\ task' # task => Owns(w)
  <2>1. /\ t.state = task[id].state /\ t.attempts = task[id].attempts
        /\ t.lease = task[id].lease /\ t.lapsed = task[id].lapsed
    BY <1>2 DEF TaskRow
  <2>2. task' = task \/ (Owns(w) /\ task' = [task EXCEPT ![id] = t])
    BY DEF Checkpoint
  <2> HIDE DEF t
  <2>3. QED BY <1>1, <1>2, <2>1, <2>2 DEF TypeOK
<1>4. AbsentIsUnclaimed'
  BY <1>1, <1>3 DEF AbsentIsUnclaimed
<1>5. HandlersMatch'
  <2>1. \A i \in TaskIds : task'[i].attempts >= task[i].attempts
    BY <1>1, <1>3 DEF TypeOK, TaskRow, Attempts
  <2>2. QED BY <2>1, KeptHandlersMatch
<1>6. ASSUME NEW v \in Workers, worker'[v].pc \in Early, Owns(v)'
      PROVE  ~task'[worker'[v].task].result
  <2>1. /\ Holds(v) /\ worker[v].pc \in Early /\ worker'[v].task = worker[v].task
        /\ worker'[v].lease = worker[v].lease /\ v # w
    BY <1>2, <1>6 DEF HandlerKeeps, Holds, Early
  <2>2. worker[v].task \in TaskIds
    BY <1>1, <2>1 DEF HandlersMatch, Holds
  <2>3. Owns(v)
    BY <1>3, <1>6, <2>1, <2>2 DEF Owns
  <2>4. worker[v].task # id \/ task' = task
    <3>1. CASE worker[v].task = id /\ task' # task
      <4>1. Owns(w)
        BY <1>2, <1>3, <3>1
      <4>2. worker[v].lease # worker[w].lease
        BY <1>1, <1>2, <2>1, <3>1 DEF HandlersMatch
      <4>3. QED BY <2>3, <3>1, <4>1, <4>2 DEF Owns
    <3>2. QED BY <3>1
  <2>5. task'[worker[v].task] = task[worker[v].task]
    BY <1>3, <2>2, <2>4
  <2>6. QED BY <1>1, <2>1, <2>3, <2>5 DEF CheckpointIsUsed, Early
<1>7. QED BY <1>4, <1>5, <1>6

LEMMA NextSnapshots ==
    ASSUME IInv, [Next]_vars PROVE SnapshotsMatch'
<1>1. TypeOK /\ SnapshotsMatch /\ LeaseCountsClaims
  BY DEF IInv
<1>2. ASSUME NEW p \in Procs, NEW S, reclaiming' = [reclaiming EXCEPT ![p] = S],
             \A e \in S : e.lease = e.attempts /\ e.lease > 0
      PROVE  SnapshotsMatch'
  BY <1>1, <1>2 DEF SnapshotsMatch, TypeOK
<1>3. ASSUME reclaiming' = reclaiming PROVE SnapshotsMatch'
  BY <1>1, <1>3 DEF SnapshotsMatch
<1>4. ASSUME NEW p \in Procs, DispatchStart(p) PROVE SnapshotsMatch'
  <2> DEFINE S == {[id |-> id, attempts |-> task[id].attempts, lease |-> task[id].lease] :
                     id \in LapsedTasks}
  <2>1. \A e \in S : e.lease = e.attempts /\ e.lease > 0
    BY <1>1 DEF LapsedTasks, LeaseCountsClaims
  <2>2. reclaiming' = [reclaiming EXCEPT ![p] = S]
    BY <1>4 DEF DispatchStart
  <2> HIDE DEF S
  <2>3. QED BY <1>2, <2>1, <2>2
<1>5. ASSUME NEW p \in Procs, NEW e \in reclaiming[p], Reclaim(p, e) PROVE SnapshotsMatch'
  BY <1>1, <1>2, <1>5 DEF Reclaim, SnapshotsMatch
<1>6. ASSUME NEW p \in Procs, Crash(p) \/ DispatchAborts(p) PROVE SnapshotsMatch'
  <2>1. \A e \in {} : e.lease = e.attempts /\ e.lease > 0
    OBVIOUS
  <2>2. reclaiming' = [reclaiming EXCEPT ![p] = {}]
    BY <1>6 DEF Crash, DispatchAborts
  <2>3. QED BY <1>2, <2>1, <2>2
<1>7. CASE RequestStep
  BY <1>3, <1>7 DEF RequestStep, Create, Remove, RetryRead, RetryWrite, RetryAborts
<1>8. CASE FaultStep
  BY <1>3, <1>6, <1>8
  DEF FaultStep, AddFails, StepFails, JobThrows, JobLost, JobTaken, JobStalls
<1>9. ASSUME NEW w \in Workers, WorkerStep(w) PROVE SnapshotsMatch'
  BY <1>3, <1>9
  DEF WorkerStep, ClaimWins, ClaimMisses, StageExtracting, StageGenerating, ExtractFails,
      SummarizeFails, Checkpoint, StagePersisting, Complete, CompleteMisses, Fail, Finish
<1>10. QED
  BY <1>3, <1>4, <1>5, <1>7, <1>8, <1>9
  DEF Next, vars, DispatchStep, DispatchSelect, JobAdded, Heartbeat, Fetch, LeaseLapses,
      DelayPasses, JobRecovered, JobStalls, WindowPasses

LEMMA NextActors ==
    ASSUME IInv, [Next]_vars PROVE ActorsInv'
<1>1. TypeOK /\ HandlersMatch /\ AbsentIsUnclaimed /\ CheckpointIsUsed
  BY DEF IInv
<1>2. TypeOK' /\ RowsInv' /\ SnapshotsMatch'
  BY <1>1, NextType, NextRows, NextSnapshots
<1>3. SUFFICES HandlersMatch' /\ AbsentIsUnclaimed'
               /\ \A v \in Workers : worker'[v].pc \in Early /\ Owns(v)' =>
                    ~task'[worker'[v].task].result
  BY <1>2 DEF ActorsInv, RowsInv, CheckpointIsUsed, Early
<1>4. CASE UNCHANGED vars
  BY <1>1, <1>4 DEF vars, HandlersMatch, AbsentIsUnclaimed, CheckpointIsUsed, Holds, Owns, Early
<1>5. CASE Next /\ \E w \in Workers : ClaimWins(w)
  BY <1>2, <1>5, ClaimKeeps
<1>6. CASE Next /\ (\A w \in Workers : ~ClaimWins(w)) /\ \E w \in Workers : Checkpoint(w)
  BY <1>2, <1>6, CheckpointKeeps, StepKeepsHandlers
<1>7. CASE Next /\ \A w \in Workers : ~ClaimWins(w) /\ ~Checkpoint(w)
  <2>1. (\A id \in TaskIds : TaskKeeps(id)) /\ \A v \in Workers : HandlerKeeps(v)
    BY <1>7, StepKeeps, StepKeepsHandlers
  <2>2. HandlersMatch'
    BY <1>2, <1>7, <2>1, KeptHandlersMatch DEF TaskKeeps
  <2>3. AbsentIsUnclaimed'
    BY <2>1 DEF TaskKeeps, AbsentIsUnclaimed
  <2>4. ASSUME NEW v \in Workers, worker'[v].pc \in Early, Owns(v)'
        PROVE  ~task'[worker'[v].task].result
    <3>1. /\ Holds(v) /\ worker[v].pc \in Early /\ worker'[v].task = worker[v].task
          /\ worker'[v].lease = worker[v].lease
      BY <2>1, <2>4 DEF HandlerKeeps, Holds, Early
    <3>2. worker[v].task \in TaskIds
      BY <1>1, <3>1 DEF HandlersMatch, Holds
    <3>3. Owns(v) /\ (task'[worker[v].task].result => task[worker[v].task].result)
      BY <2>1, <2>4, <3>1, <3>2 DEF Owns, TaskKeeps
    <3>4. QED BY <1>1, <3>1, <3>3 DEF CheckpointIsUsed, Early
  <2>5. QED BY <2>2, <2>3, <2>4
<1>8. QED BY <1>4, <1>5, <1>6, <1>7

-------------------------------------------------------------------------------
(* The inductive invariant.                                                *)

LEMMA InitIInv == Init => IInv
<1> SUFFICES ASSUME Init PROVE IInv
  OBVIOUS
<1>1. TypeOK
  BY InitType
<1>2. /\ NoTask.state = "ABSENT" /\ NoTask.attempts = 0 /\ NoTask.lease = 0
      /\ ~NoTask.result
      /\ NewTask(NoKey).state = "PENDING" /\ NewTask(NoKey).attempts = 0
      /\ NewTask(NoKey).lease = 0 /\ ~NewTask(NoKey).result
  BY DEF NoTask, NewTask, TaskWith
<1>3. /\ ~Exhausted(0) /\ 0 < MaxAttempts /\ 0 \in Generations
  BY ConfigAssumption DEF Exhausted, Generations
<1>4. \A a \in Articles :
        /\ article[a].generation = 0 /\ article[a].retryAt = "null"
        /\ article[a].row = "never" => article[a] = NoArticle
        /\ article[a].row \in {"never", "saved"}
  <2>1. \A row \in MigratedArticles \cup {NoArticle} :
          /\ row.generation = 0 /\ row.retryAt = "null"
          /\ row.row = "never" => row = NoArticle
          /\ row.row \in {"never", "saved"}
    BY DEF MigratedArticles, NoArticle, BlankArticle, ArticleWith
  <2>2. QED BY <2>1 DEF Init
<1>5. \A id \in TaskIds : /\ id[1] \in Articles /\ id[2] \in Int /\ id = <<id[1], id[2]>>
                          /\ IF id[2] = 0 /\ Processing(id[1])
                             THEN task[id] = NewTask(NoKey) ELSE task[id] = NoTask
  BY TaskIdPair DEF Init, Generations
<1>6. \A a \in Articles : Processing(a) => <<a, 0>> \in TaskIds /\ task[<<a, 0>>] = NewTask(NoKey)
  BY <1>3, <1>5 DEF TaskIds
<1>7. LiveTaskIsCurrent
  BY <1>2, <1>4, <1>5 DEF LiveTaskIsCurrent, Live, CurrentFor, Processing
<1>8. ProcessingIsBacked
  BY <1>2, <1>3, <1>4, <1>6 DEF ProcessingIsBacked
<1>9. LeaseCountsClaims /\ AbsentIsUnclaimed
  BY <1>2, <1>3, <1>5 DEF LeaseCountsClaims, AbsentIsUnclaimed, Live
<1>10. NoOrphanTask
  BY <1>2, <1>4, <1>5 DEF NoOrphanTask, Processing
<1>11. CooldownIsDelay /\ StageMatchesStatus
  BY <1>4 DEF CooldownIsDelay, StageMatchesStatus
<1>12. SnapshotsMatch /\ RetryReadHolds
  BY DEF Init, SnapshotsMatch, RetryReadHolds
<1>13. \A w \in Workers : worker[w].pc = "idle"
  BY DEF Init, IdleWorker
<1>14. HandlersMatch /\ CheckpointIsUsed
  BY <1>2, <1>5, <1>13 DEF HandlersMatch, CheckpointIsUsed, Holds, Live
<1>15. QED
  BY <1>1, <1>7, <1>8, <1>9, <1>10, <1>11, <1>12, <1>14 DEF IInv

LEMMA NextIInv == IInv /\ [Next]_vars => IInv'
<1> SUFFICES ASSUME IInv, [Next]_vars PROVE IInv'
  OBVIOUS
<1>1. TypeOK'
  BY NextType DEF IInv
<1>2. RowsInv' /\ ActorsInv'
  BY NextRows, NextActors
<1>3. QED BY <1>1, <1>2 DEF IInv, RowsInv, ActorsInv

(* The inductive invariant holds in every reachable state: rows, leases,   *)
(* snapshots and handlers of the whole subsystem stay consistent.          *)
THEOREM Inductive == Spec => []IInv
<1>1. Init => IInv
  BY InitIInv
<1>2. IInv /\ [Next]_vars => IInv'
  BY NextIInv
<1>3. QED BY <1>1, <1>2, PTL DEF Spec

(* Every row, handler and snapshot keeps its type.                         *)
THEOREM TypeCorrect == Spec => []TypeOK
<1>1. IInv => TypeOK
  BY DEF IInv
<1>2. QED BY <1>1, Inductive, PTL

(* A task that may still be executed is always the one of its article's    *)
(* current generation, whose status says it is being summarised.           *)
THEOREM LiveTaskCorrect == Spec => []LiveTaskIsCurrent
<1>1. IInv => LiveTaskIsCurrent
  BY DEF IInv
<1>2. QED BY <1>1, Inductive, PTL

(* An article in SUMMARIZING always has a task that will end it: no        *)
(* interleaving of reclaim, claim, retry and crash strands one.            *)
THEOREM ProcessingCorrect == Spec => []ProcessingIsBacked
<1>1. IInv => ProcessingIsBacked
  BY DEF IInv
<1>2. QED BY <1>1, Inductive, PTL

(* Two handlers never own one task at the same time.                       *)
THEOREM LeaseCorrect == Spec => []LeaseIsExclusive
<1>1. IInv => LeaseIsExclusive
  BY DEF IInv, HandlersMatch, LeaseIsExclusive, Owns
<1>2. QED BY <1>1, Inductive, PTL

(* The stage of an article always agrees with its status.                  *)
THEOREM StageCorrect == Spec => []StageMatchesStatus
<1>1. IInv => StageMatchesStatus
  BY DEF IInv
<1>2. QED BY <1>1, Inductive, PTL

(* A checkpoint is reused by the owner, and gone once its task has ended.  *)
THEOREM CheckpointCorrect == Spec => []CheckpointIsUsed
<1>1. IInv => CheckpointIsUsed
  BY DEF IInv
<1>2. QED BY <1>1, Inductive, PTL

(* No task that was interrupted for good leaves a cooldown behind.         *)
THEOREM InterruptionCorrect == Spec => []InterruptionCanBeRetried
<1>1. IInv => InterruptionCanBeRetried
  BY DEF IInv, CooldownIsDelay, InterruptionCanBeRetried
<1>2. QED BY <1>1, Inductive, PTL

-------------------------------------------------------------------------------
(* What a step may do to an article row.                                   *)

SameFor(a, row) ==
    /\ PhaseOf(row) = PhaseOf(article[a]) /\ row.generation = article[a].generation
    /\ row.resultGeneration = article[a].resultGeneration
Accepts(a, row) ==
    /\ PhaseOf(article[a]) \in {"never", "settled"} /\ PhaseOf(row) = "processing"
    /\ row.generation = article[a].generation + 1 /\ row.generation <= MaxGeneration
    /\ row.resultGeneration = article[a].resultGeneration
GivesUp(a, row) ==
    /\ PhaseOf(article[a]) = "processing" /\ PhaseOf(row) = "settled"
    /\ row.generation = article[a].generation
    /\ row.resultGeneration = article[a].resultGeneration
Publishes(a, row) ==
    /\ article[a].row = "saved" /\ PhaseOf(article[a]) = "processing"
    /\ PhaseOf(row) = "settled"
    /\ row.generation = article[a].generation
    /\ row.resultGeneration = article[a].generation
    /\ \E w \in Workers : /\ worker[w].task = <<a, article[a].generation>>
                          /\ worker[w].pc = "complete" /\ Owns(w)
Deletes(a, row) ==
    /\ PhaseOf(article[a]) \in {"processing", "settled"} /\ PhaseOf(row) = "removed"
    /\ row.row = "removed" /\ row.generation = 0 /\ row.resultGeneration = NoResult

Moves(a, row) ==
    SameFor(a, row) \/ Accepts(a, row) \/ GivesUp(a, row) \/ Publishes(a, row) \/ Deletes(a, row)

OneRowMoves ==
    \/ article' = article
    \/ \E a \in Articles, row \in ArticleRow :
         article' = [article EXCEPT ![a] = row] /\ Moves(a, row)

(* A worker or dispatch writes only while the article is processing.       *)
LEMMA WriteMoves ==
    ASSUME TypeOK, NEW id \in TaskIds, NEW row \in ArticleRow, WriteCurrent(id, row),
           CurrentFor(id) => Moves(id[1], row)
    PROVE  OneRowMoves
BY TaskIdPair DEF WriteCurrent, OneRowMoves

LEMMA StageMoves ==
    ASSUME IInv, NEW w \in Workers, worker[w].pc # "idle",
           NEW s \in {"EXTRACTING", "GENERATING", "PERSISTING"}, NEW next,
           StageTx(w, s, next)
    PROVE  OneRowMoves
<1> DEFINE id == worker[w].task
           row == [article[id[1]] EXCEPT !.stage = s]
<1>1. TypeOK /\ id \in TaskIds /\ article[id[1]] \in ArticleRow /\ row \in ArticleRow
  BY HandlerRows, ArticleWrites DEF IInv
<1>2. SameFor(id[1], row)
  BY <1>1 DEF SameFor, PhaseOf, ArticleRow
<1>3. article' = article \/ WriteCurrent(id, row)
  BY DEF StageTx
<1> HIDE DEF row
<1>4. QED BY <1>1, <1>2, <1>3, WriteMoves DEF OneRowMoves, Moves

LEMMA RequestMoves ==
    ASSUME IInv, RequestStep PROVE OneRowMoves
<1>1. TypeOK /\ NoOrphanTask /\ RetryReadHolds
  BY DEF IInv
<1>2. ASSUME NEW a \in Articles, Create(a) PROVE OneRowMoves
  <2>1. article[a] = NoArticle
    BY <1>1, <1>2 DEF Create, NoOrphanTask
  <2>2. Accepts(a, NewArticle)
    BY <2>1, ConfigAssumption
    DEF Accepts, PhaseOf, NewArticle, NoArticle, BlankArticle, ArticleWith
  <2>3. QED BY <1>2, <2>2, ArticleRows DEF Create, OneRowMoves, Moves
<1>3. ASSUME NEW a \in Articles, Remove(a) PROVE OneRowMoves
  <2>1. Deletes(a, BlankArticle("removed"))
    BY <1>3 DEF Remove, Deletes, PhaseOf, BlankArticle, ArticleWith
  <2>2. QED BY <1>3, <2>1, ArticleRows DEF Remove, OneRowMoves, Moves
<1>4. ASSUME NEW r \in request, RetryWrite(r) PROVE OneRowMoves
  <2> DEFINE row == Requeued(article[r.id], r)
  <2>1. r \in RetryRequest /\ r.id \in Articles /\ article[r.id] \in ArticleRow
        /\ r.generation <= MaxGeneration
    BY <1>1, ConfigAssumption DEF TypeOK, RetryRequest, Generations
  <2>2. /\ row \in ArticleRow /\ row.row = article[r.id].row
        /\ row.processStatus = "SUMMARIZING" /\ row.generation = r.generation
        /\ row.resultGeneration = article[r.id].resultGeneration
    BY <2>1, ZenonT(60) DEF Requeued, RetryRequest, ArticleRow
  <2>3. article[r.id].row = "saved" /\ article[r.id].processStatus # "SUMMARIZING"
        /\ r.generation = article[r.id].generation + 1
    BY <1>1 DEF RetryReadHolds
  <2>4. article' = [article EXCEPT ![r.id] = row]
    BY <1>4 DEF RetryWrite
  <2> HIDE DEF row
  <2>5. Accepts(r.id, row)
    BY <2>1, <2>2, <2>3 DEF Accepts, PhaseOf
  <2>6. QED BY <2>1, <2>2, <2>4, <2>5 DEF OneRowMoves, Moves
<1>5. QED
  BY <1>2, <1>3, <1>4 DEF RequestStep, RetryRead, RetryAborts, OneRowMoves

LEMMA NextMoves ==
    ASSUME IInv, [Next]_vars PROVE OneRowMoves
<1>1. TypeOK /\ RowsInv
  BY IInvRows DEF IInv
<1>2. ASSUME article' = article PROVE OneRowMoves
  BY <1>2 DEF OneRowMoves
<1>3. ASSUME NEW p \in Procs, NEW e \in reclaiming[p], Reclaim(p, e) PROVE OneRowMoves
  <2> DEFINE b == Exhausted(e.attempts)
             row == InterruptedArticle(article[e.id[1]], b)
  <2>1. /\ e.id \in TaskIds /\ b \in BOOLEAN /\ article[e.id[1]] \in ArticleRow
    BY <1>1, TaskIdPair DEF TypeOK, Snapshot, Exhausted
  <2>2. row \in ArticleRow
    BY <2>1, ArticleWrites
  <2>3. CASE ~StillExpired(e)
    BY <1>2, <1>3, <2>3 DEF Reclaim
  <2>4. CASE StillExpired(e)
    <3>1. Processing(e.id[1])
      BY <1>1, <2>1, <2>4 DEF StillExpired, RowsInv, LiveTaskIsCurrent, Live
    <3>2. WriteCurrent(e.id, row)
      BY <1>3, <2>4 DEF Reclaim
    <3>3. SameFor(e.id[1], row) \/ GivesUp(e.id[1], row)
      <4> HIDE DEF b
      <4>1. QED
        BY <2>1, <3>1 DEF SameFor, GivesUp, PhaseOf, InterruptedArticle, ArticleRow, Processing
    <3> HIDE DEF row
    <3>4. QED BY <1>1, <2>1, <2>2, <3>2, <3>3, WriteMoves DEF Moves
  <2>5. QED BY <2>3, <2>4
<1>4. ASSUME NEW w \in Workers, Complete(w) PROVE OneRowMoves
  <2> DEFINE id == worker[w].task
             row == PublishedArticle(article[id[1]], id[2])
  <2>1. /\ id \in TaskIds /\ id = <<id[1], id[2]>> /\ article[id[1]] \in ArticleRow
        /\ row \in ArticleRow /\ Owns(w)
    BY <1>1, <1>4, HandlerRows, ArticleWrites, TaskIdPair DEF Complete, IInv
  <2>2. Processing(id[1]) /\ CurrentFor(id)
    BY <1>1, <2>1 DEF Owns, RowsInv, LiveTaskIsCurrent, Live
  <2>3. Publishes(id[1], row)
    <3>1. row.row = article[id[1]].row /\ row.processStatus = "SUMMARY_DONE"
          /\ row.generation = article[id[1]].generation /\ row.resultGeneration = id[2]
      BY <2>1 DEF PublishedArticle, ArticleRow
    <3>2. worker[w].pc = "complete" /\ id = <<id[1], article[id[1]].generation>>
      BY <1>4, <2>1, <2>2 DEF Complete, CurrentFor
    <3> HIDE DEF row
    <3>3. QED BY <2>1, <2>2, <3>1, <3>2 DEF Publishes, PhaseOf, Processing, CurrentFor
  <2>4. QED BY <1>1, <1>4, <2>1, <2>3, WriteMoves DEF Complete, Moves
<1>5. ASSUME NEW w \in Workers, Fail(w) PROVE OneRowMoves
  <2> DEFINE id == worker[w].task
             f == worker[w].failure
             retry == f.retryable /\ ~Exhausted(worker[w].attempts)
             row == FailedArticle(article[id[1]], retry, f.wait)
  <2>1. retry \in BOOLEAN /\ f.wait \in BOOLEAN
    BY <1>1 DEF TypeOK, WorkerState, Failure
  <2>2. id \in TaskIds /\ article[id[1]] \in ArticleRow /\ row \in ArticleRow
    BY <1>1, <1>5, <2>1, HandlerRows, ArticleWrites DEF Fail, IInv
  <2>3. CASE article' = article
    BY <1>2, <2>3
  <2>4. CASE Owns(w) /\ WriteCurrent(id, row)
    <3>1. Processing(id[1])
      BY <1>1, <2>2, <2>4 DEF Owns, RowsInv, LiveTaskIsCurrent, Live
    <3>2. SameFor(id[1], row) \/ GivesUp(id[1], row)
      <4> HIDE DEF retry, f
      <4>1. QED
        BY <2>1, <2>2, <3>1, SMTT(30)
        DEF SameFor, GivesUp, PhaseOf, FailedArticle, ArticleRow, Processing
    <3> HIDE DEF row
    <3>3. QED BY <1>1, <2>2, <2>4, <3>2, WriteMoves DEF Moves
  <2>5. QED BY <1>5, <2>3, <2>4 DEF Fail
<1>6. ASSUME NEW w \in Workers,
             StageExtracting(w) \/ StageGenerating(w) \/ StagePersisting(w)
      PROVE  OneRowMoves
  <2>1. CASE StageExtracting(w)
    BY <2>1, StageMoves DEF StageExtracting
  <2>2. CASE StageGenerating(w)
    BY <2>2, StageMoves DEF StageGenerating
  <2>3. CASE StagePersisting(w)
    <3>1. article' = article \/ StageTx(w, "PERSISTING", "complete")
      BY <2>3 DEF StagePersisting
    <3>2. QED BY <1>2, <2>3, <3>1, StageMoves DEF StagePersisting
  <2>4. QED BY <1>6, <2>1, <2>2, <2>3
<1>7. ASSUME NEW id \in TaskIds, DelayPasses(id) PROVE OneRowMoves
  <2> DEFINE row == [article[id[1]] EXCEPT !.retryAt = IF @ = "ahead" THEN "passed" ELSE @]
  <2>1. article[id[1]] \in ArticleRow /\ row \in ArticleRow
    BY <1>1, TaskIdPair, ArticleWrites DEF TypeOK
  <2>2. SameFor(id[1], row)
    BY <2>1 DEF SameFor, PhaseOf, ArticleRow
  <2>3. WriteCurrent(id, row)
    BY <1>7 DEF DelayPasses
  <2> HIDE DEF row
  <2>4. QED BY <1>1, <2>1, <2>2, <2>3, WriteMoves DEF Moves
<1>8. ASSUME NEW a \in Articles, WindowPasses(a) PROVE OneRowMoves
  <2> DEFINE row == [article[a] EXCEPT !.inWindow = FALSE]
  <2>1. article[a] \in ArticleRow /\ row \in ArticleRow
    BY <1>1, ArticleWrites DEF TypeOK
  <2>2. SameFor(a, row)
    BY <2>1 DEF SameFor, PhaseOf, ArticleRow
  <2>3. article' = [article EXCEPT ![a] = row]
    BY <1>8 DEF WindowPasses
  <2> HIDE DEF row
  <2>4. QED BY <2>1, <2>2, <2>3 DEF OneRowMoves, Moves
<1>9. CASE UNCHANGED vars
  BY <1>2, <1>9 DEF vars
<1>10. CASE RequestStep
  BY <1>10, RequestMoves
<1>11. CASE FaultStep
  BY <1>2, <1>11
  DEF FaultStep, DispatchAborts, Crash, AddFails, StepFails, JobThrows, JobLost, JobTaken,
      JobStalls
<1>12. ASSUME NEW p \in Procs, DispatchStep(p) PROVE OneRowMoves
  BY <1>2, <1>3, <1>12 DEF DispatchStep, DispatchStart, DispatchSelect
<1>13. ASSUME NEW w \in Workers, WorkerStep(w) PROVE OneRowMoves
  BY <1>2, <1>4, <1>5, <1>6, <1>13
  DEF WorkerStep, ClaimWins, ClaimMisses, ExtractFails, SummarizeFails, Checkpoint,
      CompleteMisses, Finish
<1>14. QED
  BY <1>2, <1>7, <1>8, <1>9, <1>10, <1>11, <1>12, <1>13
  DEF Next, JobAdded, Heartbeat, Fetch, LeaseLapses, JobRecovered, JobStalls

(* The document of an article is replaced by nothing but the publication   *)
(* of the task that its current generation's owner has just executed.      *)
THEOREM DocumentCorrect == Spec => DocumentOnlyFromOwner
<1> DEFINE Step == \A a \in Articles :
         article[a]'.row = "saved"
         /\ article[a]'.resultGeneration # article[a].resultGeneration =>
           /\ article[a]'.resultGeneration = article[a].generation
           /\ article[a].row = "saved"
           /\ \E w \in Workers : /\ worker[w].task = <<a, article[a].generation>>
                                 /\ worker[w].pc = "complete" /\ Owns(w)
<1>1. IInv /\ [Next]_vars => [Step]_vars
  <2> SUFFICES ASSUME IInv, [Next]_vars, NEW a \in Articles, article'[a].row = "saved",
                      article'[a].resultGeneration # article[a].resultGeneration
               PROVE  /\ article'[a].resultGeneration = article[a].generation
                      /\ article[a].row = "saved"
                      /\ \E w \in Workers : /\ worker[w].task = <<a, article[a].generation>>
                                            /\ worker[w].pc = "complete" /\ Owns(w)
    OBVIOUS
  <2>1. article \in [Articles -> ArticleRow]
    BY DEF IInv, TypeOK
  <2>2. PICK b \in Articles, row \in ArticleRow :
          article' = [article EXCEPT ![b] = row] /\ Moves(b, row)
    BY NextMoves DEF OneRowMoves
  <2>3. b = a /\ article'[a] = row
    BY <2>1, <2>2
  <2>4. Publishes(a, row)
    BY <2>2, <2>3 DEF Moves, SameFor, Accepts, GivesUp, Deletes
  <2>5. QED BY <2>3, <2>4 DEF Publishes
<1>2. QED BY <1>1, Inductive, PTL DEF Spec, DocumentOnlyFromOwner

(* The detailed subsystem implements its contract: what a reader sees of an*)
(* article only moves as SummaryContract allows.                           *)
THEOREM Refinement == Spec => ImplementsContract
<1>1. Init => Contract!Init
  <2>1. ASSUME Init, NEW a \in Articles
        PROVE  /\ PhaseOf(article[a]) \in {"never", "processing", "settled"}
               /\ article[a].generation = 0 /\ article[a].resultGeneration \in {NoResult, 0}
    <3>1. \A row \in MigratedArticles \cup {NoArticle} :
            /\ PhaseOf(row) \in {"never", "processing", "settled"}
            /\ row.generation = 0 /\ row.resultGeneration \in {NoResult, 0}
      BY DEF MigratedArticles, NoArticle, BlankArticle, ArticleWith, PhaseOf
    <3>2. QED BY <2>1, <3>1 DEF Init
  <2>2. QED BY <2>1 DEF Contract!Init, Contract!NoResult, NoResult
<1>2. IInv /\ [Next]_vars => [Contract!Next]_(Contract!vars)
  <2> SUFFICES ASSUME IInv, [Next]_vars, article' # article
               PROVE  [Contract!Next]_(Contract!vars)
    BY DEF Contract!vars
  <2>1. article \in [Articles -> ArticleRow]
    BY DEF IInv, TypeOK
  <2>2. PICK b \in Articles, row \in ArticleRow :
          article' = [article EXCEPT ![b] = row] /\ Moves(b, row)
    BY NextMoves DEF OneRowMoves
  <2> DEFINE ph == [a \in Articles |-> PhaseOf(article[a])]
             gn == [a \in Articles |-> article[a].generation]
             sh == [a \in Articles |-> article[a].resultGeneration]
  <2>3. /\ ph' = [ph EXCEPT ![b] = PhaseOf(row)]
        /\ gn' = [gn EXCEPT ![b] = row.generation]
        /\ sh' = [sh EXCEPT ![b] = row.resultGeneration]
    <3>1. article'[b] = row /\ \A a \in Articles : a # b => article'[a] = article[a]
      BY <2>1, <2>2
    <3>2. ph' = [a \in Articles |-> PhaseOf(article'[a])]
      BY DEF PhaseOf
    <3>3. QED BY <3>1, <3>2
  <2>4. ph[b] = PhaseOf(article[b]) /\ gn[b] = article[b].generation
        /\ sh[b] = article[b].resultGeneration
    OBVIOUS
  <2>5. Contract!vars = <<ph, gn, sh>> /\ Contract!vars' = <<ph', gn', sh'>>
    BY DEF Contract!vars
  <2>6. CASE SameFor(b, row)
    BY <2>3, <2>4, <2>5, <2>6 DEF SameFor
  <2>7. CASE Accepts(b, row)
    <3>1. article[b].generation \in Int /\ MaxGeneration \in Int
      BY <2>1, ConfigAssumption DEF ArticleRow, Generations
    <3>2. article[b].generation < MaxGeneration
      BY <2>7, <3>1 DEF Accepts
    <3>3. sh' = sh
      BY <2>3, <2>4, <2>7 DEF Accepts
    <3>4. Contract!Accept(b)
      BY <2>3, <2>4, <2>7, <3>2, <3>3 DEF Accepts, Contract!Accept
    <3>5. QED BY <3>4 DEF Contract!Next
  <2>8. CASE GivesUp(b, row)
    <3>1. Contract!GiveUp(b)
      BY <2>3, <2>4, <2>8 DEF GivesUp, Contract!GiveUp
    <3>2. QED BY <3>1 DEF Contract!Next, Contract!Settle
  <2>9. CASE Publishes(b, row)
    <3>1. Contract!Publish(b)
      BY <2>3, <2>4, <2>9 DEF Publishes, Contract!Publish
    <3>2. QED BY <3>1 DEF Contract!Next, Contract!Settle
  <2>10. CASE Deletes(b, row)
    <3>1. Contract!Remove(b)
      BY <2>3, <2>4, <2>10 DEF Deletes, Contract!Remove, Contract!NoResult, NoResult
    <3>2. QED BY <3>1 DEF Contract!Next
  <2>11. QED BY <2>2, <2>6, <2>7, <2>8, <2>9, <2>10 DEF Moves
<1>3. QED BY <1>1, <1>2, Inductive, PTL DEF Spec, ImplementsContract, Contract!Spec
===============================================================================
