---------------------------- MODULE Classification ----------------------------
(***************************************************************************)
(* ClassificationService: each summarised article is classified once per   *)
(* source by an AI provider, in jobs of a queue of their own, while the    *)
(* user may correct the classification and the article may be summarised   *)
(* anew.  There are no transactions: every statement is an action, and     *)
(* what is compared in its where clause is what keeps order.               *)
(*                                                                         *)
(* The sources of an article, values of resultGeneration, are numbered in  *)
(* the order of publication.  How they come about is external here, and    *)
(* specified in SummaryTasks.                                              *)
(***************************************************************************)
EXTENDS Integers, FiniteSets

CONSTANTS
    Articles,
    Callers,        \* calls of schedule that can be under way, of any process
    Workers,        \* worker slots, one in each process
    MaxSource,      \* bound on the sources of an article
    MaxRevision,    \* bound on revisions that users may cause
    MaxFaults       \* bound on crashes, errors, lost answers and lost jobs

ASSUME BoundsAssumption ==
    /\ Articles # {}
    /\ MaxSource \in Nat \ {0} /\ MaxRevision \in Nat /\ MaxFaults \in Nat

VARIABLES
    article,        \* columns of saved_articles
    row,            \* rows of article_classifications
    expired,        \* lapsed rows that reclaimInterrupted has read
    call,           \* calls of schedule
    queued,         \* jobs in Redis, also those active in a worker
    worker,         \* calls of process
    shown,          \* what the user has seen of each classification
    faults

vars == <<article, row, expired, call, queued, worker, shown, faults>>

NoSource == 0                       \* resultGeneration is null
Sources == 0..MaxSource
Unclassified == NoSource            \* kind UNCLASSIFIED, no categories
ByUser == MaxSource + 1             \* a kind and categories the user chose
Contents == 0..ByUser               \* otherwise those found in that source

(* "saved": not summarised, or being summarised anew; "done": SUMMARY_DONE *)
(* or CONTEXT_INSUFFICIENT.                                                *)
Article == [status : {"saved", "done", "removed"}, result : Sources]

Row ==
    [revision : Nat,                \* 0: there is no row
     source   : Sources,
     state    : {"PENDING", "RUNNING", "SUCCEEDED", "FAILED"},
     edited   : BOOLEAN,
     content  : Contents,
     lease    : Nat,                \* 0: null; else the ordinal of the claim
     claims   : Nat,
     waited   : BOOLEAN]            \* updatedAt: 5 min ago if RUNNING, or 30 s

NoRow ==
    [revision |-> 0, source |-> NoSource, state |-> "PENDING", edited |-> FALSE,
     content |-> Unclassified, lease |-> 0, claims |-> 0, waited |-> FALSE]

Job == [id : Articles, revision : Nat, source : Sources]
NoJob == [id |-> CHOOSE a \in Articles : TRUE, revision |-> 0, source |-> NoSource]

Snapshot == [id : Articles, revision : Nat, source : Sources, lease : Nat]

Call ==
    [pc     : {"idle", "article", "create", "reset", "rescan", "add"},
     job    : Job,                  \* what it has read of its article
     retry  : BOOLEAN]
NoCall == [pc |-> "idle", job |-> NoJob, retry |-> FALSE]

Worker ==
    [pc    : {"idle", "reading", "generating", "failing"},
     job   : Job,
     lease : Nat,
     text  : Sources]
IdleWorker == [pc |-> "idle", job |-> NoJob, lease |-> 0, text |-> NoSource]

Init ==
    /\ article = [a \in Articles |-> [status |-> "saved", result |-> NoSource]]
    /\ row = [a \in Articles |-> NoRow]
    /\ expired = {} /\ queued = {}
    /\ call = [c \in Callers |-> NoCall]
    /\ worker = [w \in Workers |-> IdleWorker]
    /\ shown = [a \in Articles |-> [revision |-> 0, content |-> Unclassified]]
    /\ faults = 0

Fault == faults < MaxFaults /\ faults' = faults + 1
NoFault == UNCHANGED faults

-------------------------------------------------------------------------------
(* The summary of the article, and the article itself.                     *)

Publish(a) ==
    /\ article[a].status = "saved" /\ article[a].result < MaxSource
    /\ article' = [article EXCEPT ![a] =
         [status |-> "done", result |-> article[a].result + 1]]
    /\ UNCHANGED <<row, expired, call, queued, worker, shown, faults>>

(* A retry of the summary was accepted; it may fail.                       *)
SummarizeAgain(a) ==
    /\ article[a].status = "done"
    /\ article' = [article EXCEPT ![a].status = "saved"]
    /\ UNCHANGED <<row, expired, call, queued, worker, shown, faults>>

(* The row goes with its article.                                          *)
Remove(a) ==
    /\ article[a].status # "removed"
    /\ article' = [article EXCEPT ![a].status = "removed"]
    /\ row' = [row EXCEPT ![a] = NoRow]
    /\ shown' = [shown EXCEPT ![a] = [revision |-> 0, content |-> Unclassified]]
    /\ UNCHANGED <<expired, call, queued, worker, faults>>

-------------------------------------------------------------------------------
(* The user.                                                               *)

(* list                                                                    *)
Look(a) ==
    /\ article[a].status # "removed"
    /\ shown' = [shown EXCEPT ![a] =
         [revision |-> row[a].revision, content |-> row[a].content]]
    /\ UNCHANGED <<article, row, expired, call, queued, worker, faults>>

EditedRow(r) ==
    [r EXCEPT !.revision = @ + 1, !.edited = TRUE, !.state = "SUCCEEDED",
              !.content = ByUser, !.lease = 0, !.waited = FALSE]

(* edit with the revision that was shown: 0 creates the row, and any other *)
(* must still be the row's.                                                *)
Edit(a) ==
    /\ article[a].status # "removed"
    /\ row[a].revision = shown[a].revision /\ row[a].revision < MaxRevision
    /\ row' = [row EXCEPT ![a] =
         EditedRow(IF @.revision = 0 THEN [@ EXCEPT !.source = article[a].result]
                   ELSE @)]
    /\ UNCHANGED <<article, expired, call, queued, worker, shown, faults>>

-------------------------------------------------------------------------------
(* reclaimInterrupted, of dispatch or scan.                                *)

Lapsed ==
    {[id |-> a, revision |-> row[a].revision, source |-> row[a].source,
      lease |-> row[a].lease] :
       a \in {b \in Articles : row[b].state = "RUNNING" /\ row[b].waited
                               /\ ~row[b].edited}}

ReclaimRead ==
    /\ ~(Lapsed \subseteq expired)
    /\ expired' = expired \cup Lapsed
    /\ UNCHANGED <<article, row, call, queued, worker, shown, faults>>

(* Mutant of StillExpired: the row is found by its id and state alone.     *)
StillRunning(s) == row[s.id].state = "RUNNING"
StillExpired(s) ==
    LET r == row[s.id]
    IN /\ r.state = "RUNNING" /\ r.waited /\ ~r.edited
       /\ r.revision = s.revision /\ r.source = s.source /\ r.lease = s.lease

PendingAgain(r) ==
    [r EXCEPT !.state = "PENDING", !.lease = 0, !.revision = @ + 1, !.waited = FALSE]

Reclaim(s) ==
    /\ s \in expired /\ expired' = expired \ {s}
    /\ row' = IF StillExpired(s) THEN [row EXCEPT ![s.id] = PendingAgain(@)] ELSE row
    /\ UNCHANGED <<article, call, queued, worker, shown, faults>>

ReclaimAborts ==
    /\ expired # {} /\ expired' = {} /\ Fault
    /\ UNCHANGED <<article, row, call, queued, worker, shown>>

-------------------------------------------------------------------------------
(* schedule, called by dispatch for what it finds Due, by scan likewise,   *)
(* after a summary has been completed, and by the user's retry.  Prisma    *)
(* reads the article and then its classification.                          *)

(* Mutant of Due: a row that was created is left to its job.               *)
DueIfMissing(a) ==
    article[a].status = "done" /\ ~row[a].edited /\ row[a].source # article[a].result
(* What dispatch looks for: a row that is PENDING, or none for the source. *)
Due(a) ==
    /\ article[a].status = "done" /\ ~row[a].edited
    /\ \/ row[a].state = "PENDING"
       \/ row[a].source # article[a].result

Schedule(c, a, retry) ==
    /\ call[c].pc = "idle" /\ article[a].status = "done"
    /\ retry => row[a].revision < MaxRevision
    /\ call' = [call EXCEPT ![c] =
         [pc |-> "article", retry |-> retry,
          job |-> [id |-> a, revision |-> 0, source |-> article[a].result]]]
    /\ UNCHANGED <<article, row, expired, queued, worker, shown, faults>>

Proceed(c, pc, revision) ==
    call' = [call EXCEPT ![c].pc = pc, ![c].job.revision = revision]
Return(c) == call' = [call EXCEPT ![c] = NoCall]

(* A failure is repeated when the user asks for it after 30 seconds.       *)
Repeats(r, c) == r.state = "FAILED" /\ call[c].retry /\ r.waited

ReadRow(c) ==
    LET job == call[c].job
        r == row[job.id]
    IN /\ call[c].pc = "article"
       /\ \/ r.edited /\ Return(c)
          \/ r.revision = 0 /\ Proceed(c, "create", 0)
          \/ /\ ~r.edited /\ r.revision # 0
             /\ r.source # job.source \/ Repeats(r, c)
             /\ Proceed(c, "reset", r.revision)
          \/ /\ ~r.edited /\ r.revision # 0
             /\ r.source = job.source /\ ~Repeats(r, c)
             /\ IF r.state = "FAILED" /\ call[c].retry THEN Return(c)
                ELSE Proceed(c, "rescan", 0)
       /\ UNCHANGED <<article, row, expired, queued, worker, shown, faults>>

FirstRow(source) == [NoRow EXCEPT !.revision = 1, !.source = source]
Free(id) == row[id].revision = 0

(* P2002, somebody was faster, is caught; a missing article is an error.   *)
Create(c) ==
    LET job == call[c].job
        there == article[job.id].status # "removed"
    IN /\ call[c].pc = "create"
       /\ row' = IF there /\ Free(job.id)
                 THEN [row EXCEPT ![job.id] = FirstRow(job.source)] ELSE row
       /\ IF there THEN Proceed(c, "rescan", 0) ELSE Return(c)
       /\ UNCHANGED <<article, expired, queued, worker, shown, faults>>

(* Mutant of Unchanged: the row is found by its id alone.                  *)
UnchangedOrNot(job) == row[job.id].revision # 0
Unchanged(job) == row[job.id].revision = job.revision /\ ~row[job.id].edited

(* Mutant of ResetRow: kind and categories stay.                           *)
ResetRowKeepingContent(r, source) ==
    [r EXCEPT !.source = source, !.state = "PENDING",
              !.lease = 0, !.revision = @ + 1, !.waited = FALSE]
ResetRow(r, source) ==
    [r EXCEPT !.source = source, !.state = "PENDING", !.content = Unclassified,
              !.lease = 0, !.revision = @ + 1, !.waited = FALSE]
Reset(c) ==
    LET job == call[c].job
    IN /\ call[c].pc = "reset"
       /\ row' = IF Unchanged(job) THEN [row EXCEPT ![job.id] = ResetRow(@, job.source)]
                 ELSE row
       /\ Proceed(c, "rescan", 0)
       /\ UNCHANGED <<article, expired, queued, worker, shown, faults>>

(* The row is read again, whoever wrote it.                                *)
Rescan(c) ==
    LET job == call[c].job
        r == row[job.id]
    IN /\ call[c].pc = "rescan"
       /\ IF r.revision # 0 /\ ~r.edited /\ r.state = "PENDING" /\ r.source = job.source
          THEN Proceed(c, "add", r.revision) ELSE Return(c)
       /\ UNCHANGED <<article, row, expired, queued, worker, shown, faults>>

(* queue.add, also after QUEUE_TIMEOUT; the job is named after article and *)
(* revision.                                                               *)
Add(c) ==
    /\ call[c].pc = "add" /\ Return(c)
    /\ queued' = queued \cup {call[c].job}
    /\ UNCHANGED <<article, row, expired, worker, shown, faults>>

(* A database or Redis error, or the end of the process.                   *)
CallFails(c) ==
    /\ call[c].pc # "idle" /\ Return(c) /\ Fault
    /\ UNCHANGED <<article, row, expired, queued, worker, shown>>

-------------------------------------------------------------------------------
(* process, in worker slot w.  A job stays in Redis until the worker       *)
(* returns, and may be delivered again if its worker seems to be gone.     *)

Matches(job) ==
    LET r == row[job.id]
    IN r.revision = job.revision /\ r.source = job.source /\ ~r.edited

Claimable(job) == Matches(job) /\ row[job.id].state = "PENDING"

ClaimedRow(r) ==
    [r EXCEPT !.state = "RUNNING", !.lease = r.claims + 1, !.claims = @ + 1,
              !.waited = FALSE]
Leave(w) == worker' = [worker EXCEPT ![w] = IdleWorker]

(* The claim; if its answer is lost, the job fails.                        *)
Claim(w, job) ==
    /\ worker[w].pc = "idle" /\ job \in queued /\ Claimable(job)
    /\ row' = [row EXCEPT ![job.id] = ClaimedRow(@)]
    /\ \/ /\ worker' = [worker EXCEPT ![w] =
               [IdleWorker EXCEPT !.pc = "reading", !.job = job,
                                  !.lease = row[job.id].claims + 1]]
          /\ UNCHANGED queued /\ NoFault
       \/ queued' = queued \ {job} /\ UNCHANGED worker /\ Fault
    /\ UNCHANGED <<article, expired, call, shown>>

ClaimMisses(w, job) ==
    /\ worker[w].pc = "idle" /\ job \in queued /\ ~Claimable(job)
    /\ queued' = queued \ {job}
    /\ UNCHANGED <<article, row, expired, call, worker, shown, faults>>

(* The text is that of the article's source, which may have moved on.      *)
ReadSource(w) ==
    LET job == worker[w].job
        a == article[job.id]
    IN /\ worker[w].pc = "reading"
       /\ worker' = IF a.status # "removed" /\ a.result = job.source
                    THEN [worker EXCEPT ![w].pc = "generating", ![w].text = a.result]
                    ELSE [worker EXCEPT ![w].pc = "failing"]
       /\ UNCHANGED <<article, row, expired, call, queued, shown, faults>>

(* Mutant of Owns: the row is found by its id alone.                       *)
OwnsById(w) == row[worker[w].job.id].revision # 0
(* where, with the lease token.                                            *)
Owns(w) == Matches(worker[w].job) /\ row[worker[w].job.id].lease = worker[w].lease

(* Mutant of SucceededRow: the revision stays.                             *)
SucceededRowAsRead(r, text) ==
    [r EXCEPT !.state = "SUCCEEDED", !.content = text, !.lease = 0, !.waited = FALSE]
SucceededRow(r, text) ==
    [r EXCEPT !.state = "SUCCEEDED", !.content = text, !.lease = 0,
              !.revision = @ + 1, !.waited = FALSE]

Publishes(w) == Owns(w) /\ article[worker[w].job.id].result = worker[w].job.source

(* The AI has answered.  If the answer of the update is lost, or it fails, *)
(* the worker goes on to record a failure.                                 *)
Complete(w) ==
    LET job == worker[w].job
        next == IF Publishes(w)
                THEN [row EXCEPT ![job.id] = SucceededRow(@, worker[w].text)] ELSE row
        throws == worker' = [worker EXCEPT ![w].pc = "failing"] /\ UNCHANGED queued
    IN /\ worker[w].pc = "generating"
       /\ \/ row' = next /\ Leave(w) /\ queued' = queued \ {job} /\ NoFault
          \/ row' \in {row, next} /\ throws /\ Fault
       /\ UNCHANGED <<article, expired, call, shown>>

(* generate throws.                                                        *)
GenerateFails(w) ==
    /\ worker[w].pc = "generating"
    /\ worker' = [worker EXCEPT ![w].pc = "failing"]
    /\ UNCHANGED <<article, row, expired, call, queued, shown, faults>>

FailedRow(r) ==
    [r EXCEPT !.state = "FAILED", !.lease = 0, !.revision = @ + 1, !.waited = FALSE]
(* The catch block; the job ends with it, also if its update fails.        *)
Fail(w) ==
    LET job == worker[w].job
        next == IF Owns(w) THEN [row EXCEPT ![job.id] = FailedRow(@)] ELSE row
    IN /\ worker[w].pc = "failing" /\ Leave(w) /\ queued' = queued \ {job}
       /\ (row' = next /\ NoFault) \/ (row' = row /\ Fault)
       /\ UNCHANGED <<article, expired, call, shown>>

Dies(w) ==
    /\ worker[w].pc # "idle" /\ Leave(w) /\ Fault
    /\ UNCHANGED <<article, row, expired, call, queued, shown>>

JobLost(job) ==
    /\ job \in queued /\ queued' = queued \ {job} /\ Fault
    /\ UNCHANGED <<article, row, expired, call, worker, shown>>

(* Time passes; a worker that is five minutes behind its claim is one of   *)
(* the faults, for generate times out after one.                           *)
Waits(a) ==
    /\ row[a].state \in {"RUNNING", "FAILED"} /\ ~row[a].waited
    /\ row' = [row EXCEPT ![a].waited = TRUE]
    /\ \/ ~(\E w \in Workers : worker[w].pc # "idle" /\ worker[w].job.id = a /\ Owns(w))
          /\ NoFault
       \/ Fault
    /\ UNCHANGED <<article, expired, call, queued, worker, shown>>

-------------------------------------------------------------------------------

CallStep(c) == ReadRow(c) \/ Create(c) \/ Reset(c) \/ Rescan(c) \/ Add(c)
WorkerStep(w) == ReadSource(w) \/ Complete(w) \/ GenerateFails(w) \/ Fail(w)
Deliver(w, job) == Claim(w, job) \/ ClaimMisses(w, job)

Next ==
    \/ \E a \in Articles :
         \/ Publish(a) \/ SummarizeAgain(a) \/ Remove(a) \/ Look(a) \/ Edit(a) \/ Waits(a)
         \/ \E c \in Callers, retry \in BOOLEAN : Schedule(c, a, retry)
    \/ ReclaimRead \/ ReclaimAborts \/ \E s \in expired : Reclaim(s)
    \/ \E c \in Callers : CallStep(c) \/ CallFails(c)
    \/ \E job \in queued : JobLost(job) \/ \E w \in Workers : Deliver(w, job)
    \/ \E w \in Workers : WorkerStep(w) \/ Dies(w)

Spec == Init /\ [][Next]_vars

(* dispatch is polled every five seconds, whatever else is under way;      *)
(* calls, workers and BullMQ go on; time passes.                           *)
Fairness ==
    /\ WF_vars(ReclaimRead) /\ WF_vars(\E s \in expired : Reclaim(s))
    /\ \A a \in Articles :
         /\ SF_vars(Due(a) /\ \E c \in Callers : Schedule(c, a, FALSE))
         /\ WF_vars(Waits(a) /\ NoFault)
         /\ SF_vars(\E job \in queued : job.id = a /\ \E w \in Workers : Deliver(w, job))
    /\ \A c \in Callers : WF_vars(CallStep(c))
    /\ \A w \in Workers : WF_vars(WorkerStep(w))

FairSpec == Spec /\ Fairness

-------------------------------------------------------------------------------
(* Properties.                                                             *)

TypeOK ==
    /\ article \in [Articles -> Article]
    /\ row \in [Articles -> Row]
    /\ \A a \in Articles : row[a].lease # 0 <=> row[a].state = "RUNNING"
    /\ expired \in SUBSET Snapshot
    /\ call \in [Callers -> Call]
    /\ queued \in SUBSET Job
    /\ worker \in [Workers -> Worker]
    /\ shown \in [Articles -> [revision : Nat, content : Contents]]
    /\ faults \in 0..MaxFaults

(* A classification that was found, and not chosen, fits the source that   *)
(* the row names, and none is shown while another is being made.           *)
ContentFitsSource ==
    \A a \in Articles :
        ~row[a].edited => row[a].content = IF row[a].state = "SUCCEEDED"
                                           THEN row[a].source ELSE Unclassified

(* An edit that is accepted replaces what its author has seen, although    *)
(* jobs and other devices of the user write the row.                       *)
EditsWhatWasSeen ==
    \A a \in Articles :
        shown[a].revision = row[a].revision => shown[a].content = row[a].content

(* At most one worker can still write the row: neither a repeated delivery *)
(* nor a reclaimed lease leaves two.                                       *)
OneOwner ==
    \A v, w \in Workers :
        /\ worker[v].pc # "idle" /\ worker[w].pc # "idle"
        /\ worker[v].job.id = worker[w].job.id /\ Owns(v) /\ Owns(w)
        => v = w

(* Nothing but an edit or the removal of the article changes what the user *)
(* has edited: no late worker, call, scan or retry.                        *)
EditsSurvive ==
    [][\A a \in Articles :
         row[a].edited /\ article'[a].status # "removed"
         => \/ row'[a] = row[a]
            \/ row'[a] = [row[a] EXCEPT !.revision = @ + 1]]_vars

(* A row goes back to PENDING for the same source only when its lease has  *)
(* lapsed, or its failure is old enough: a late scan reclaims no newer     *)
(* lease, and a failure is not repeated by itself.                         *)
OnlyWaitedIsRepeated ==
    [][\A a \in Articles :
         row[a].revision # 0 /\ row[a].state # "PENDING"
         /\ row'[a].state = "PENDING" /\ row'[a].revision # 0
         /\ row'[a].source = row[a].source
         => row[a].waited]_vars

(* Summarised articles are classified, or the attempt fails, for their     *)
(* current source, unless the user has done it.                            *)
Unsettled(a) ==
    /\ article[a].status = "done" /\ ~row[a].edited
    /\ ~(row[a].source = article[a].result /\ row[a].state \in {"SUCCEEDED", "FAILED"})
ClassifiedEventually == \A a \in Articles : Unsettled(a) ~> ~Unsettled(a)
=============================================================================
