------------------------- MODULE ClassificationProofs -------------------------
(***************************************************************************)
(* Proofs about Classification, for any number of articles, calls, workers,*)
(* sources, revisions and faults.                                          *)
(*                                                                         *)
(* Every statement that writes a row leaves one that is RowSound, and that *)
(* Follows the former: revision and claims do not decrease, and while the  *)
(* revision is the same, so is whatever calls, workers and the user may    *)
(* have concluded from the row.  What they know therefore stays true.      *)
(***************************************************************************)
EXTENDS Classification, TLAPS

(* What is always so of a row by itself.                                   *)
RowSound(r) ==
    /\ r.lease # 0 <=> r.state = "RUNNING"
    /\ ~r.edited => r.content = IF r.state = "SUCCEEDED" THEN r.source ELSE Unclassified
    /\ r.edited => r.state = "SUCCEEDED" /\ r.content = ByUser /\ ~r.waited
    /\ r.revision = 0 => r = NoRow

(* A row that t may become in one statement, short of removal.             *)
Follows(r, t) ==
    /\ t.revision >= r.revision /\ t.claims >= r.claims
    /\ t.revision = r.revision =>
         /\ t.content = r.content /\ t.source = r.source /\ t.edited = r.edited
         /\ r.state = "FAILED" /\ r.waited => t.state = "FAILED" /\ t.waited

Gone(a) == article[a].status = "removed"

(* What a call that is about to reset row r knows of it.                   *)
Knows(job, r) ==
    /\ job.revision <= r.revision
    /\ job.revision = r.revision /\ ~r.edited
       => r.source # job.source \/ (r.state = "FAILED" /\ r.waited)

CallSound(k) ==
    /\ k.pc \in {"reset", "add"} => k.job.revision # 0
    /\ k.pc = "reset" => Gone(k.job.id) \/ Knows(k.job, row[k.job.id])

WorkerSound(s) ==
    s.pc # "idle" =>
        /\ s.lease # 0
        /\ Gone(s.job.id) \/ s.lease <= row[s.job.id].claims
        /\ s.pc = "generating" => s.text = s.job.source

ArticleSound(a) ==
    /\ RowSound(row[a])
    /\ Gone(a) => row[a] = NoRow
    /\ shown[a].revision <= row[a].revision
    /\ shown[a].revision = row[a].revision => shown[a].content = row[a].content

LeasesDiffer ==
    \A v, w \in Workers :
        /\ worker[v].pc # "idle" /\ worker[w].pc # "idle"
        /\ worker[v].job.id = worker[w].job.id /\ worker[v].lease = worker[w].lease
        => v = w

RowsInv ==
    /\ article \in [Articles -> Article]
    /\ row \in [Articles -> Row]
    /\ shown \in [Articles -> [revision : Nat, content : Contents]]
    /\ expired \in SUBSET Snapshot
    /\ \A a \in Articles : ArticleSound(a)
CallsInv == call \in [Callers -> Call] /\ \A c \in Callers : CallSound(call[c])
WorkersInv ==
    /\ worker \in [Workers -> Worker]
    /\ \A w \in Workers : WorkerSound(worker[w])
    /\ LeasesDiffer
QueueInv == queued \in SUBSET Job /\ \A job \in queued : job.revision # 0

IInv == RowsInv /\ CallsInv /\ WorkersInv /\ QueueInv /\ faults \in 0..MaxFaults

-------------------------------------------------------------------------------
(* The statements, on one row.                                             *)

LEMMA ContentsContain == ByUser \in Contents /\ Sources \subseteq Contents
                         /\ Unclassified \in Contents /\ NoSource \in Sources
  BY BoundsAssumption, SMT DEF ByUser, Contents, Sources, Unclassified, NoSource

LEMMA NoRowSound == NoRow \in Row /\ RowSound(NoRow)
<1>1. 0 \in Nat /\ NoSource \in Sources /\ Unclassified \in Contents
  BY ContentsContain
<1>2. NoRow \in Row
  BY <1>1, ZenonT(60) DEF NoRow, Row
<1>3. QED BY <1>2, SMT DEF NoRow, RowSound

LEMMA FollowsItself == ASSUME NEW r \in Row PROVE Follows(r, r)
  BY SMT DEF Follows, Row

LEMMA EditedRowSound ==
    ASSUME NEW r \in Row, RowSound(r), NEW u \in Row,
           u.revision = r.revision, u.claims = r.claims
    PROVE  EditedRow(u) \in Row /\ RowSound(EditedRow(u)) /\ Follows(r, EditedRow(u))
<1> DEFINE t == EditedRow(u)
<1>1. u.revision \in Nat /\ u.revision + 1 \in Nat /\ 0 \in Nat /\ ByUser \in Contents
  BY ContentsContain, SMT DEF Row
<1>2. t \in Row
  BY <1>1, ZenonT(60) DEF EditedRow, Row
<1>3. /\ t.revision = u.revision + 1 /\ t.claims = u.claims /\ t.lease = 0
      /\ t.state = "SUCCEEDED" /\ t.edited = TRUE /\ t.content = ByUser /\ t.waited = FALSE
  BY DEF EditedRow, Row
<1>4. r.revision \in Nat /\ r.claims \in Nat
  BY DEF Row
<1> HIDE DEF t
<1>5. t \in Row /\ RowSound(t) /\ Follows(r, t)
  BY <1>1, <1>2, <1>3, <1>4, SMT DEF RowSound, Follows
<1>6. QED BY <1>3, <1>5 DEF t

LEMMA PendingAgainSound ==
    ASSUME NEW r \in Row, RowSound(r), r.state = "RUNNING"
    PROVE  /\ PendingAgain(r) \in Row /\ RowSound(PendingAgain(r))
           /\ Follows(r, PendingAgain(r))
<1> DEFINE t == PendingAgain(r)
<1>1. r.revision \in Nat /\ r.revision + 1 \in Nat /\ 0 \in Nat /\ r.claims \in Nat
  BY SMT DEF Row
<1>2. t \in Row
  BY <1>1, ZenonT(60) DEF PendingAgain, Row
<1>3. /\ t.revision = r.revision + 1 /\ t.claims = r.claims /\ t.lease = 0
      /\ t.state = "PENDING" /\ t.edited = r.edited /\ t.content = r.content
      /\ t.source = r.source
  BY DEF PendingAgain, Row
<1> HIDE DEF t
<1>4. t \in Row /\ RowSound(t) /\ Follows(r, t)
  BY <1>1, <1>2, <1>3, SMT DEF RowSound, Follows
<1>5. QED BY <1>3, <1>4 DEF t

LEMMA FirstRowSound ==
    ASSUME NEW r \in Row, RowSound(r), r.revision = 0, NEW source \in Sources
    PROVE  FirstRow(source) \in Row /\ RowSound(FirstRow(source))
           /\ Follows(r, FirstRow(source))
<1> DEFINE t == FirstRow(source)
<1>1. t \in Row
  BY NoRowSound, ZenonT(60) DEF FirstRow, Row
<1>2. /\ t.revision = 1 /\ t.claims = 0 /\ t.lease = 0 /\ t.state = "PENDING"
      /\ t.edited = FALSE /\ t.content = Unclassified
  BY SMT DEF FirstRow, NoRow
<1>3. r.claims = 0
  BY DEF RowSound, NoRow
<1> HIDE DEF t
<1>4. t \in Row /\ RowSound(t) /\ Follows(r, t)
  BY <1>1, <1>2, <1>3, SMT DEF RowSound, Follows
<1>5. QED BY <1>4 DEF t

LEMMA ResetRowSound ==
    ASSUME NEW r \in Row, RowSound(r), ~r.edited, NEW source \in Sources
    PROVE  /\ ResetRow(r, source) \in Row /\ RowSound(ResetRow(r, source))
           /\ Follows(r, ResetRow(r, source))
<1> DEFINE t == ResetRow(r, source)
<1>1. r.revision \in Nat /\ r.revision + 1 \in Nat /\ 0 \in Nat /\ r.claims \in Nat
      /\ Unclassified \in Contents
  BY ContentsContain, SMT DEF Row
<1>2. t \in Row
  BY <1>1, ZenonT(60) DEF ResetRow, Row
<1>3. /\ t.revision = r.revision + 1 /\ t.claims = r.claims /\ t.lease = 0
      /\ t.state = "PENDING" /\ t.edited = r.edited /\ t.content = Unclassified
  BY DEF ResetRow, Row
<1> HIDE DEF t
<1>4. t \in Row /\ RowSound(t) /\ Follows(r, t)
  BY <1>1, <1>2, <1>3, SMT DEF RowSound, Follows
<1>5. QED BY <1>3, <1>4 DEF t

LEMMA ClaimedRowSound ==
    ASSUME NEW r \in Row, RowSound(r), ~r.edited, r.state = "PENDING", r.revision # 0
    PROVE  /\ ClaimedRow(r) \in Row /\ RowSound(ClaimedRow(r))
           /\ Follows(r, ClaimedRow(r)) /\ ClaimedRow(r).claims = r.claims + 1
<1> DEFINE t == ClaimedRow(r)
<1>1. r.revision \in Nat /\ r.claims \in Nat /\ r.claims + 1 \in Nat
  BY SMT DEF Row
<1>2. t \in Row
  BY <1>1, ZenonT(60) DEF ClaimedRow, Row
<1>3. /\ t.revision = r.revision /\ t.claims = r.claims + 1 /\ t.lease = r.claims + 1
      /\ t.state = "RUNNING" /\ t.edited = r.edited /\ t.content = r.content
      /\ t.source = r.source
  BY DEF ClaimedRow, Row
<1> HIDE DEF t
<1>4. t \in Row /\ RowSound(t) /\ Follows(r, t)
  BY <1>1, <1>2, <1>3, SMT DEF RowSound, Follows
<1>5. QED BY <1>3, <1>4 DEF t

LEMMA SucceededRowSound ==
    ASSUME NEW r \in Row, RowSound(r), ~r.edited
    PROVE  /\ SucceededRow(r, r.source) \in Row /\ RowSound(SucceededRow(r, r.source))
           /\ Follows(r, SucceededRow(r, r.source))
<1> DEFINE t == SucceededRow(r, r.source)
<1>1. r.revision \in Nat /\ r.revision + 1 \in Nat /\ 0 \in Nat /\ r.claims \in Nat
      /\ r.source \in Contents
  BY ContentsContain, SMT DEF Row
<1>2. t \in Row
  BY <1>1, ZenonT(60) DEF SucceededRow, Row
<1>3. /\ t.revision = r.revision + 1 /\ t.claims = r.claims /\ t.lease = 0
      /\ t.state = "SUCCEEDED" /\ t.edited = r.edited /\ t.content = r.source
      /\ t.source = r.source
  BY DEF SucceededRow, Row
<1> HIDE DEF t
<1>4. t \in Row /\ RowSound(t) /\ Follows(r, t)
  BY <1>1, <1>2, <1>3, SMT DEF RowSound, Follows
<1>5. QED BY <1>3, <1>4 DEF t

LEMMA FailedRowSound ==
    ASSUME NEW r \in Row, RowSound(r), ~r.edited, r.state = "RUNNING"
    PROVE  /\ FailedRow(r) \in Row /\ RowSound(FailedRow(r)) /\ Follows(r, FailedRow(r))
<1> DEFINE t == FailedRow(r)
<1>1. r.revision \in Nat /\ r.revision + 1 \in Nat /\ 0 \in Nat /\ r.claims \in Nat
  BY SMT DEF Row
<1>2. t \in Row
  BY <1>1, ZenonT(60) DEF FailedRow, Row
<1>3. /\ t.revision = r.revision + 1 /\ t.claims = r.claims /\ t.lease = 0
      /\ t.state = "FAILED" /\ t.edited = r.edited /\ t.content = r.content
  BY DEF FailedRow, Row
<1> HIDE DEF t
<1>4. t \in Row /\ RowSound(t) /\ Follows(r, t)
  BY <1>1, <1>2, <1>3, SMT DEF RowSound, Follows
<1>5. QED BY <1>3, <1>4 DEF t

LEMMA WaitedRowSound ==
    ASSUME NEW r \in Row, RowSound(r), r.state \in {"RUNNING", "FAILED"}
    PROVE  LET t == [r EXCEPT !.waited = TRUE]
           IN t \in Row /\ RowSound(t) /\ Follows(r, t)
<1> DEFINE t == [r EXCEPT !.waited = TRUE]
<1>1. r.revision \in Nat /\ r.claims \in Nat
  BY DEF Row
<1>2. t \in Row
  BY ZenonT(60) DEF Row
<1>3. /\ t.revision = r.revision /\ t.claims = r.claims /\ t.lease = r.lease
      /\ t.state = r.state /\ t.edited = r.edited /\ t.content = r.content
      /\ t.source = r.source /\ t.waited = TRUE
  BY DEF Row
<1>4. r.revision # 0
  BY SMT DEF RowSound, NoRow
<1> HIDE DEF t
<1>5. t \in Row /\ RowSound(t) /\ Follows(r, t)
  BY <1>1, <1>2, <1>3, <1>4, SMT DEF RowSound, Follows
<1>6. QED BY <1>5 DEF t

-------------------------------------------------------------------------------
(* What a step does to the rows, and what others know of them.             *)

RowsMove ==
    /\ row' \in [Articles -> Row]
    /\ \A a \in Articles : /\ Gone(a) => Gone(a)'
                           /\ Gone(a)' \/ Follows(row[a], row'[a])

LEMMA StillMoves ==
    ASSUME RowsInv, UNCHANGED <<article, row>> PROVE RowsMove
<1>1. \A a \in Articles : row[a] \in Row BY DEF RowsInv
<1>2. QED BY <1>1, FollowsItself DEF RowsInv, RowsMove, Gone

LEMMA RowWritten ==
    ASSUME RowsInv, NEW a \in Articles, ~Gone(a),
           NEW t \in Row, RowSound(t), Follows(row[a], t),
           row' = [row EXCEPT ![a] = t], UNCHANGED <<article, shown>>,
           expired' \in SUBSET Snapshot
    PROVE  RowsMove /\ RowsInv'
<1>1. /\ row' \in [Articles -> Row] /\ row'[a] = t
      /\ \A b \in Articles \ {a} : row'[b] = row[b]
  BY DEF RowsInv
<1>2. RowsMove
  <2>1. \A b \in Articles : row[b] \in Row BY DEF RowsInv
  <2>2. QED BY <1>1, <2>1, FollowsItself DEF RowsMove, Gone
<1>3. \A b \in Articles : ArticleSound(b)'
  <2>1. ASSUME NEW b \in Articles, b # a PROVE ArticleSound(b)'
    BY <1>1, <2>1 DEF RowsInv, ArticleSound, Gone
  <2>2. ArticleSound(a)'
    <3>1. /\ shown[a].revision <= row[a].revision
          /\ shown[a].revision = row[a].revision => shown[a].content = row[a].content
          /\ shown[a].revision \in Nat /\ row[a].revision \in Nat /\ t.revision \in Nat
      BY DEF RowsInv, ArticleSound, Row
    <3>2. /\ shown[a].revision <= t.revision
          /\ shown[a].revision = t.revision => shown[a].content = t.content
      BY <3>1, SMT DEF Follows
    <3>3. QED BY <1>1, <3>2 DEF ArticleSound, Gone
  <2>3. QED BY <2>1, <2>2
<1>4. QED BY <1>1, <1>2, <1>3 DEF RowsInv

LEMMA NothingWritten ==
    ASSUME RowsInv, UNCHANGED <<article, row, shown>>, expired' \in SUBSET Snapshot
    PROVE  RowsMove /\ RowsInv'
<1>1. RowsMove BY StillMoves
<1>2. \A b \in Articles : ArticleSound(b)'
  BY DEF RowsInv, ArticleSound, Gone
<1>3. QED BY <1>1, <1>2 DEF RowsInv

(* What a call or a worker knows stays true when rows move.                *)
LEMMA CallKnowsOn ==
    ASSUME RowsInv, RowsMove, NEW k \in Call, CallSound(k)
    PROVE  CallSound(k)'
<1>1. k.job.id \in Articles /\ k.job.revision \in Nat BY DEF Call, Job
<1>2. row[k.job.id] \in Row /\ row'[k.job.id] \in Row
  BY <1>1 DEF RowsInv, RowsMove
<1> DEFINE r == row[k.job.id]
<1> DEFINE t == row'[k.job.id]
<1>3. r.revision \in Nat /\ t.revision \in Nat BY <1>2 DEF Row
<1>4. ASSUME Knows(k.job, r), Follows(r, t) PROVE Knows(k.job, t)
  <2> HIDE DEF r, t
  <2>1. QED BY <1>1, <1>3, <1>4, SMT DEF Knows, Follows
<1>5. k.pc = "reset" => Gone(k.job.id)' \/ Knows(k.job, t)
  BY <1>1, <1>4 DEF CallSound, RowsMove
<1>6. QED BY <1>5 DEF CallSound, Gone

LEMMA WorkerKnowsOn ==
    ASSUME RowsInv, RowsMove, NEW s \in Worker, WorkerSound(s)
    PROVE  WorkerSound(s)'
<1>1. s.job.id \in Articles /\ s.lease \in Nat BY DEF Worker, Job
<1>2. row[s.job.id] \in Row /\ row'[s.job.id] \in Row
  BY <1>1 DEF RowsInv, RowsMove
<1>3. row[s.job.id].claims \in Nat /\ row'[s.job.id].claims \in Nat BY <1>2 DEF Row
<1>4. ASSUME s.lease <= row[s.job.id].claims, Follows(row[s.job.id], row'[s.job.id])
      PROVE  s.lease <= row'[s.job.id].claims
  BY <1>1, <1>3, <1>4, SMT DEF Follows
<1>5. QED BY <1>1, <1>4 DEF WorkerSound, RowsMove, Gone

LEMMA CallsKept ==
    ASSUME RowsInv, RowsMove, CallsInv, UNCHANGED call PROVE CallsInv'
  BY CallKnowsOn DEF CallsInv

LEMMA CallMoves ==
    ASSUME RowsInv, RowsMove, CallsInv, NEW c \in Callers, NEW k \in Call,
           CallSound(k)', call' = [call EXCEPT ![c] = k]
    PROVE  CallsInv'
<1>1. /\ call' \in [Callers -> Call] /\ call'[c] = k
      /\ \A d \in Callers \ {c} : call'[d] = call[d]
  BY DEF CallsInv
<1>2. ASSUME NEW d \in Callers PROVE CallSound(call[d])' \/ d = c
  <2>1. call[d] \in Call /\ CallSound(call[d]) BY DEF CallsInv
  <2>2. QED BY <1>1, <2>1, CallKnowsOn
<1>3. QED BY <1>1, <1>2 DEF CallsInv

LEMMA WorkersKept ==
    ASSUME RowsInv, RowsMove, WorkersInv, UNCHANGED worker PROVE WorkersInv'
  BY WorkerKnowsOn DEF WorkersInv, LeasesDiffer

(* A worker moves on with its job and lease, or becomes idle.              *)
LEMMA WorkerMoves ==
    ASSUME RowsInv, RowsMove, WorkersInv, NEW w \in Workers, NEW s \in Worker,
           WorkerSound(s)', worker' = [worker EXCEPT ![w] = s],
           \/ s.pc = "idle"
           \/ worker[w].pc # "idle" /\ s.job = worker[w].job /\ s.lease = worker[w].lease
    PROVE  WorkersInv'
<1>1. /\ worker' \in [Workers -> Worker] /\ worker'[w] = s
      /\ \A v \in Workers \ {w} : worker'[v] = worker[v]
  BY DEF WorkersInv
<1>2. ASSUME NEW v \in Workers PROVE WorkerSound(worker[v])'
  BY <1>1, WorkerKnowsOn DEF WorkersInv
<1>3. LeasesDiffer'
  BY <1>1 DEF WorkersInv, LeasesDiffer
<1>4. QED BY <1>1, <1>2, <1>3 DEF WorkersInv

LEMMA FaultsCounted ==
    ASSUME faults \in 0..MaxFaults, Fault \/ NoFault PROVE faults' \in 0..MaxFaults
  BY BoundsAssumption, SMT DEF Fault, NoFault

LEMMA IdleCallSound == NoCall \in Call /\ CallSound(NoCall) /\ CallSound(NoCall)'
<1>1. 0 \in Nat /\ NoSource \in Sources BY ContentsContain
<1>2. NoJob \in Job
  BY <1>1, BoundsAssumption, ZenonT(60) DEF NoJob, Job
<1>3. NoCall \in Call
  BY <1>2, ZenonT(60) DEF NoCall, Call
<1>4. QED BY <1>3 DEF NoCall, CallSound

LEMMA IdleWorkerSound == IdleWorker \in Worker /\ WorkerSound(IdleWorker)
                         /\ WorkerSound(IdleWorker)' /\ IdleWorker.pc = "idle"
<1>1. 0 \in Nat /\ NoSource \in Sources BY ContentsContain
<1>2. NoJob \in Job
  BY <1>1, BoundsAssumption, ZenonT(60) DEF NoJob, Job
<1>3. IdleWorker \in Worker
  BY <1>1, <1>2, ZenonT(60) DEF IdleWorker, Worker
<1>4. QED BY <1>3 DEF IdleWorker, WorkerSound

-------------------------------------------------------------------------------
(* The actions: articles and users.                                        *)

LEMMA OthersKept ==
    ASSUME IInv, RowsMove, RowsInv', UNCHANGED <<call, worker, queued>>,
           Fault \/ NoFault
    PROVE  IInv'
<1>1. CallsInv' BY CallsKept DEF IInv
<1>2. WorkersInv' BY WorkersKept DEF IInv
<1>3. faults' \in 0..MaxFaults BY FaultsCounted DEF IInv
<1>4. QED BY <1>1, <1>2, <1>3 DEF IInv, QueueInv

LEMMA ArticleStep ==
    ASSUME IInv, NEW a \in Articles, Publish(a) \/ SummarizeAgain(a)
    PROVE  IInv'
<1>1. article[a] \in Article /\ MaxSource \in Nat
  BY BoundsAssumption DEF IInv, RowsInv
<1>2. PICK x \in Article : /\ article' = [article EXCEPT ![a] = x]
                           /\ x.status # "removed" /\ article[a].status # "removed"
  <2>1. CASE Publish(a)
    <3>1. article[a].result + 1 \in Sources
      BY <1>1, <2>1, SMT DEF Publish, Article, Sources
    <3>2. [status |-> "done", result |-> article[a].result + 1] \in Article
      BY <3>1 DEF Article
    <3>3. QED BY <2>1, <3>2 DEF Publish
  <2>2. CASE SummarizeAgain(a)
    <3> DEFINE x == [article[a] EXCEPT !.status = "saved"]
    <3>1. x \in Article /\ x.status = "saved" BY <1>1 DEF Article
    <3>2. article' = [article EXCEPT ![a] = x] BY <1>1, <2>2 DEF SummarizeAgain
    <3>3. QED BY <2>2, <3>1, <3>2 DEF SummarizeAgain
  <2>3. QED BY <2>1, <2>2
<1>3. UNCHANGED <<row, expired, call, queued, worker, shown, faults>>
  BY DEF Publish, SummarizeAgain
<1>4. /\ article' \in [Articles -> Article]
      /\ \A b \in Articles : Gone(b)' <=> Gone(b)
  BY <1>2 DEF IInv, RowsInv, Gone
<1>5. RowsMove
  BY <1>3, <1>4, FollowsItself DEF IInv, RowsInv, RowsMove
<1>6. RowsInv'
  BY <1>3, <1>4 DEF IInv, RowsInv, ArticleSound
<1>7. QED BY <1>3, <1>5, <1>6, OthersKept DEF NoFault

LEMMA RemoveStep == ASSUME IInv, NEW a \in Articles, Remove(a) PROVE IInv'
<1>1. UNCHANGED <<expired, call, queued, worker, faults>> BY DEF Remove
<1>2. article[a] \in Article BY DEF IInv, RowsInv
<1> DEFINE x == [article[a] EXCEPT !.status = "removed"]
<1> DEFINE y == [revision |-> 0, content |-> Unclassified]
<1>3. x \in Article /\ x.status = "removed" BY <1>2 DEF Article
<1>4. y \in [revision : Nat, content : Contents]
  BY ContentsContain DEF Contents
<1>5. /\ article' = [article EXCEPT ![a] = x]
      /\ row' = [row EXCEPT ![a] = NoRow] /\ shown' = [shown EXCEPT ![a] = y]
  BY <1>2 DEF Remove
<1> HIDE DEF x
<1>6. /\ article' \in [Articles -> Article] /\ row' \in [Articles -> Row]
      /\ shown' \in [Articles -> [revision : Nat, content : Contents]]
      /\ article'[a] = x /\ row'[a] = NoRow /\ shown'[a] = y
      /\ \A b \in Articles \ {a} : /\ article'[b] = article[b] /\ row'[b] = row[b]
                                   /\ shown'[b] = shown[b]
  BY <1>3, <1>4, <1>5, NoRowSound DEF IInv, RowsInv
<1>7. RowsMove
  BY <1>3, <1>6, FollowsItself DEF IInv, RowsInv, RowsMove, Gone
<1>8. ASSUME NEW b \in Articles PROVE ArticleSound(b)'
  <2>1. CASE b = a
    <3>1. NoRow.revision = 0 /\ NoRow.content = Unclassified BY DEF NoRow
    <3>2. QED BY <1>6, <2>1, <3>1, NoRowSound, SMT DEF ArticleSound
  <2>2. CASE b # a
    BY <1>6, <2>2 DEF IInv, RowsInv, ArticleSound, Gone
  <2>3. QED BY <2>1, <2>2
<1>9. RowsInv' BY <1>1, <1>6, <1>8 DEF IInv, RowsInv
<1>10. QED BY <1>1, <1>7, <1>9, OthersKept DEF NoFault

LEMMA LookStep == ASSUME IInv, NEW a \in Articles, Look(a) PROVE IInv'
<1>1. UNCHANGED <<article, row, expired, call, queued, worker, faults>> BY DEF Look
<1> DEFINE y == [revision |-> row[a].revision, content |-> row[a].content]
<1>2. row[a] \in Row BY DEF IInv, RowsInv
<1>3. y \in [revision : Nat, content : Contents] /\ row[a].revision \in Nat
  BY <1>2 DEF Row
<1>4. shown' = [shown EXCEPT ![a] = y] BY DEF Look
<1>5. y.revision = row[a].revision /\ y.content = row[a].content OBVIOUS
<1> HIDE DEF y
<1>6. /\ shown' \in [Articles -> [revision : Nat, content : Contents]]
      /\ shown'[a] = y /\ \A b \in Articles \ {a} : shown'[b] = shown[b]
  BY <1>3, <1>4 DEF IInv, RowsInv
<1>7. ASSUME NEW b \in Articles PROVE ArticleSound(b)'
  <2>1. CASE b = a
    BY <1>1, <1>3, <1>5, <1>6, <2>1, SMT DEF IInv, RowsInv, ArticleSound, Gone
  <2>2. CASE b # a
    BY <1>1, <1>6, <2>2 DEF IInv, RowsInv, ArticleSound, Gone
  <2>3. QED BY <2>1, <2>2
<1>8. RowsInv' BY <1>1, <1>6, <1>7 DEF IInv, RowsInv
<1>9. RowsMove BY <1>1, StillMoves DEF IInv
<1>10. QED BY <1>1, <1>8, <1>9, OthersKept DEF NoFault

LEMMA EditStep == ASSUME IInv, NEW a \in Articles, Edit(a) PROVE IInv'
<1>1. UNCHANGED <<article, expired, call, queued, worker, shown, faults>>
      /\ ~Gone(a)
  BY DEF Edit, Gone
<1> DEFINE r == row[a]
<1> DEFINE u == IF r.revision = 0 THEN [r EXCEPT !.source = article[a].result] ELSE r
<1>2. r \in Row /\ RowSound(r) /\ article[a].result \in Sources
  BY DEF IInv, RowsInv, ArticleSound, Article
<1>3. row' = [row EXCEPT ![a] = EditedRow(u)]
  BY DEF Edit, IInv, RowsInv
<1> HIDE DEF r
<1>4. [r EXCEPT !.source = article[a].result] \in Row
  BY <1>2, ZenonT(60) DEF Row
<1>5. u \in Row /\ u.revision = r.revision /\ u.claims = r.claims
  BY <1>2, <1>4 DEF Row
<1> HIDE DEF u
<1>6. EditedRow(u) \in Row /\ RowSound(EditedRow(u)) /\ Follows(r, EditedRow(u))
  BY <1>2, <1>5, EditedRowSound
<1>7. RowsMove /\ RowsInv'
  BY <1>1, <1>3, <1>6, RowWritten DEF IInv, RowsInv, r
<1>8. QED BY <1>1, <1>7, OthersKept DEF NoFault

LEMMA WaitsStep == ASSUME IInv, NEW a \in Articles, Waits(a) PROVE IInv'
<1>1. UNCHANGED <<article, expired, call, queued, worker, shown>>
      /\ (Fault \/ NoFault)
  BY DEF Waits
<1> DEFINE r == row[a]
<1> DEFINE t == [r EXCEPT !.waited = TRUE]
<1>2. r \in Row /\ RowSound(r) /\ r.state \in {"RUNNING", "FAILED"}
      /\ (Gone(a) => r = NoRow)
  BY DEF IInv, RowsInv, ArticleSound, Waits
<1>3. row' = [row EXCEPT ![a] = t]
  BY DEF Waits, IInv, RowsInv
<1>4. ~Gone(a) BY <1>2 DEF NoRow
<1> HIDE DEF r
<1>5. t \in Row /\ RowSound(t) /\ Follows(r, t)
  BY <1>2, WaitedRowSound
<1> HIDE DEF t
<1>6. RowsMove /\ RowsInv'
  BY <1>1, <1>3, <1>4, <1>5, RowWritten DEF IInv, RowsInv, r
<1>7. QED BY <1>1, <1>6, OthersKept

-------------------------------------------------------------------------------
(* The actions: reclaimInterrupted.                                        *)

LEMMA LapsedTyped == ASSUME RowsInv PROVE Lapsed \in SUBSET Snapshot
<1>1. ASSUME NEW a \in Articles
      PROVE  [id |-> a, revision |-> row[a].revision, source |-> row[a].source,
              lease |-> row[a].lease] \in Snapshot
  <2>1. row[a] \in Row BY DEF RowsInv
  <2>2. QED BY <2>1 DEF Row, Snapshot
<1>2. QED BY <1>1 DEF Lapsed

LEMMA ReclaimReadStep == ASSUME IInv, ReclaimRead \/ ReclaimAborts PROVE IInv'
<1>1. UNCHANGED <<article, row, call, queued, worker, shown>>
      /\ (Fault \/ NoFault) /\ expired' \in SUBSET Snapshot
  BY LapsedTyped DEF ReclaimRead, ReclaimAborts, IInv, RowsInv, NoFault
<1>2. QED BY <1>1, NothingWritten, OthersKept DEF IInv

LEMMA ReclaimStep == ASSUME IInv, NEW s \in expired, Reclaim(s) PROVE IInv'
<1>1. UNCHANGED <<article, call, queued, worker, shown, faults>>
      /\ expired' \in SUBSET Snapshot /\ s.id \in Articles
  BY DEF Reclaim, IInv, RowsInv, Snapshot
<1>2. CASE StillExpired(s)
  <2> DEFINE r == row[s.id]
  <2>1. r \in Row /\ RowSound(r) /\ r.state = "RUNNING" /\ (Gone(s.id) => r = NoRow)
    BY <1>1, <1>2 DEF IInv, RowsInv, ArticleSound, StillExpired
  <2>2. ~Gone(s.id) BY <2>1 DEF NoRow
  <2>3. row' = [row EXCEPT ![s.id] = PendingAgain(r)]
    BY <1>1, <1>2 DEF Reclaim, IInv, RowsInv
  <2> HIDE DEF r
  <2>4. PendingAgain(r) \in Row /\ RowSound(PendingAgain(r))
        /\ Follows(r, PendingAgain(r))
    BY <2>1, PendingAgainSound
  <2>5. RowsMove /\ RowsInv'
    BY <1>1, <2>2, <2>3, <2>4, RowWritten DEF IInv, RowsInv, r
  <2>6. QED BY <1>1, <2>5, OthersKept DEF NoFault
<1>3. CASE ~StillExpired(s)
  <2>1. UNCHANGED row BY <1>3 DEF Reclaim
  <2>2. QED BY <1>1, <2>1, NothingWritten, OthersKept DEF IInv, NoFault
<1>4. QED BY <1>2, <1>3

-------------------------------------------------------------------------------
(* The actions: schedule.                                                  *)

LEMMA Returns ==
    ASSUME RowsInv, RowsMove, CallsInv, NEW c \in Callers, Return(c) PROVE CallsInv'
  BY CallMoves, IdleCallSound DEF Return

LEMMA Proceeds ==
    ASSUME RowsInv, RowsMove, CallsInv, NEW c \in Callers,
           NEW pc \in {"create", "reset", "rescan", "add"}, NEW n \in Nat,
           Proceed(c, pc, n), pc \in {"reset", "add"} => n # 0,
           NEW job, job = [call[c].job EXCEPT !.revision = n],
           pc = "reset" => Knows(job, row[job.id]) /\ UNCHANGED <<article, row>>
    PROVE  CallsInv'
<1>1. call[c] \in Call /\ call[c].job \in Job BY DEF CallsInv, Call
<1>2. job \in Job /\ job.revision = n
  BY <1>1 DEF Job
<1>3. [call[c] EXCEPT !.pc = pc, !.job = job] \in Call
  BY <1>1, <1>2, ZenonT(60) DEF Call
<1>4. PICK k \in Call : k = [call[c] EXCEPT !.pc = pc, !.job = job]
  BY <1>3
<1>5. k.pc = pc /\ k.job = job BY <1>1, <1>4 DEF Call
<1>6. call' = [call EXCEPT ![c] = k]
  BY <1>1, <1>4 DEF Proceed, CallsInv, Call, Job
<1>7. CallSound(k)'
  BY <1>2, <1>5 DEF CallSound, Gone
<1>8. QED BY <1>6, <1>7, CallMoves

LEMMA CallEnds ==
    ASSUME IInv, RowsMove, RowsInv', CallsInv', UNCHANGED worker,
           queued' \in SUBSET Job, \A job \in queued' : job.revision # 0,
           Fault \/ NoFault
    PROVE  IInv'
<1>1. WorkersInv' BY WorkersKept DEF IInv
<1>2. faults' \in 0..MaxFaults BY FaultsCounted DEF IInv
<1>3. QED BY <1>1, <1>2 DEF IInv, QueueInv

(* A call that writes nothing.                                             *)
LEMMA CallReads ==
    ASSUME IInv, UNCHANGED <<article, row, expired, worker, shown>>,
           RowsMove => CallsInv', UNCHANGED queued, Fault \/ NoFault
    PROVE  IInv'
<1>1. RowsMove /\ RowsInv' BY NothingWritten DEF IInv, RowsInv
<1>2. QED BY <1>1, CallEnds DEF IInv, QueueInv

LEMMA ScheduleStep ==
    ASSUME IInv, NEW c \in Callers, NEW a \in Articles, NEW retry \in BOOLEAN,
           Schedule(c, a, retry)
    PROVE  IInv'
<1> DEFINE job == [id |-> a, revision |-> 0, source |-> article[a].result]
<1> DEFINE k == [pc |-> "article", retry |-> retry, job |-> job]
<1>1. article[a].result \in Sources BY DEF IInv, RowsInv, Article
<1>2. job \in Job BY <1>1 DEF Job
<1>3. k \in Call BY <1>2 DEF Call
<1>4. CallSound(k)' BY DEF CallSound
<1>5. RowsMove => CallsInv'
  BY <1>3, <1>4, CallMoves DEF Schedule, IInv
<1>6. QED BY <1>5, CallReads DEF Schedule, NoFault

LEMMA ReadRowStep == ASSUME IInv, NEW c \in Callers, ReadRow(c) PROVE IInv'
<1> DEFINE job == call[c].job
<1> DEFINE r == row[job.id]
<1>1. UNCHANGED <<article, row, expired, queued, worker, shown, faults>>
  BY DEF ReadRow
<1>2. job \in Job /\ job.id \in Articles BY DEF IInv, CallsInv, Call, Job
<1>3. r \in Row /\ r.revision \in Nat BY <1>2 DEF IInv, RowsInv, Row
<1>4. ASSUME RowsMove, Return(c) PROVE CallsInv'
  BY <1>4, Returns DEF IInv
<1>5. ASSUME RowsMove, r.revision # 0, Proceed(c, "reset", r.revision),
             r.source # job.source \/ Repeats(r, c)
      PROVE  CallsInv'
  <2> DEFINE j == [job EXCEPT !.revision = r.revision]
  <2>1. j.id = job.id /\ j.source = job.source /\ j.revision = r.revision
    BY <1>2 DEF Job
  <2>2. Knows(j, r)
    BY <1>3, <1>5, <2>1, SMT DEF Knows, Repeats
  <2>3. QED BY <1>1, <1>3, <1>5, <2>1, <2>2, Proceeds DEF IInv
<1>6. ASSUME RowsMove, NEW pc \in {"create", "rescan"}, Proceed(c, pc, 0)
      PROVE  CallsInv'
  BY <1>6, Proceeds DEF IInv
<1>7. RowsMove => CallsInv'
  BY <1>4, <1>5, <1>6 DEF ReadRow
<1>8. QED BY <1>1, <1>7, CallReads DEF NoFault

LEMMA RescanStep == ASSUME IInv, NEW c \in Callers, Rescan(c) PROVE IInv'
<1>1. UNCHANGED <<article, row, expired, queued, worker, shown, faults>>
  BY DEF Rescan
<1> DEFINE r == row[call[c].job.id]
<1>2. call[c].job.id \in Articles BY DEF IInv, CallsInv, Call, Job
<1>3. r.revision \in Nat BY <1>2 DEF IInv, RowsInv, Row
<1>4. ASSUME RowsMove, r.revision # 0, Proceed(c, "add", r.revision) PROVE CallsInv'
  BY <1>3, <1>4, Proceeds DEF IInv
<1>5. ASSUME RowsMove, Return(c) PROVE CallsInv'
  BY <1>5, Returns DEF IInv
<1>6. RowsMove => CallsInv' BY <1>4, <1>5 DEF Rescan
<1>7. QED BY <1>1, <1>6, CallReads DEF NoFault

LEMMA CallFailsStep == ASSUME IInv, NEW c \in Callers, CallFails(c) PROVE IInv'
  BY Returns, CallReads DEF CallFails, IInv

LEMMA AddStep == ASSUME IInv, NEW c \in Callers, Add(c) PROVE IInv'
<1>1. UNCHANGED <<article, row, expired, worker, shown, faults>> BY DEF Add
<1>2. call[c] \in Call /\ CallSound(call[c]) /\ call[c].pc = "add"
  BY DEF Add, IInv, CallsInv
<1>3. call[c].job \in Job /\ call[c].job.revision # 0
  BY <1>2 DEF Call, CallSound
<1>4. queued' \in SUBSET Job /\ \A job \in queued' : job.revision # 0
  BY <1>3 DEF Add, IInv, QueueInv
<1>5. RowsMove /\ RowsInv' BY <1>1, NothingWritten DEF IInv, RowsInv
<1>6. CallsInv' BY <1>5, Returns DEF Add, IInv
<1>7. QED BY <1>1, <1>4, <1>5, <1>6, CallEnds DEF NoFault

LEMMA CreateStep == ASSUME IInv, NEW c \in Callers, Create(c) PROVE IInv'
<1> DEFINE job == call[c].job
<1>1. UNCHANGED <<article, expired, queued, worker, shown, faults>> BY DEF Create
<1>2. job.id \in Articles /\ job.source \in Sources
  BY DEF IInv, CallsInv, Call, Job
<1>3. RowsMove /\ RowsInv'
  <2>1. CASE ~Gone(job.id) /\ Free(job.id)
    <3>1. row' = [row EXCEPT ![job.id] = FirstRow(job.source)]
      BY <2>1 DEF Create, Gone
    <3>2. row[job.id] \in Row /\ RowSound(row[job.id]) /\ row[job.id].revision = 0
      BY <1>2, <2>1 DEF IInv, RowsInv, ArticleSound, Free
    <3>3. FirstRow(job.source) \in Row /\ RowSound(FirstRow(job.source))
          /\ Follows(row[job.id], FirstRow(job.source))
      BY <1>2, <3>2, FirstRowSound
    <3>4. QED BY <1>1, <1>2, <2>1, <3>1, <3>3, RowWritten DEF IInv, RowsInv
  <2>2. CASE Gone(job.id) \/ ~Free(job.id)
    <3>1. UNCHANGED row BY <2>2 DEF Create, Gone
    <3>2. QED BY <1>1, <3>1, NothingWritten DEF IInv, RowsInv
  <2>3. QED BY <2>1, <2>2
<1>4. CallsInv'
  <2>1. CASE Return(c) BY <1>3, <2>1, Returns DEF IInv
  <2>2. CASE Proceed(c, "rescan", 0) BY <1>3, <2>2, Proceeds DEF IInv
  <2>3. QED BY <2>1, <2>2 DEF Create
<1>5. QED BY <1>1, <1>3, <1>4, CallEnds DEF IInv, QueueInv, NoFault

(* What reset finds unchanged is a row, and not edited.                    *)
LEMMA ResetFinds ==
    ASSUME IInv, NEW c \in Callers, call[c].pc = "reset", Unchanged(call[c].job)
    PROVE  LET r == row[call[c].job.id]
           IN /\ call[c].job.id \in Articles /\ call[c].job.source \in Sources
              /\ r \in Row /\ RowSound(r) /\ ~r.edited /\ ~Gone(call[c].job.id)
              /\ r.source # call[c].job.source \/ r.waited
<1> DEFINE job == call[c].job
<1>1. job.id \in Articles /\ job.source \in Sources /\ CallSound(call[c])
  BY DEF IInv, CallsInv, Call, Job
<1>2. row[job.id].revision = job.revision /\ ~row[job.id].edited
  BY DEF Unchanged
<1>3. job.revision # 0 BY <1>1 DEF CallSound
<1>4. ~Gone(job.id)
  BY <1>1, <1>2, <1>3 DEF IInv, RowsInv, ArticleSound, NoRow
<1>5. Knows(job, row[job.id]) BY <1>1, <1>4 DEF CallSound
<1>6. QED BY <1>1, <1>2, <1>4, <1>5 DEF IInv, RowsInv, ArticleSound, Knows

LEMMA ResetStep == ASSUME IInv, NEW c \in Callers, Reset(c) PROVE IInv'
<1> DEFINE job == call[c].job
<1>1. UNCHANGED <<article, expired, queued, worker, shown, faults>>
      /\ call[c].pc = "reset" /\ Proceed(c, "rescan", 0)
  BY DEF Reset
<1>2. RowsMove /\ RowsInv'
  <2>1. CASE Unchanged(job)
    <3> DEFINE t == ResetRow(row[job.id], job.source)
    <3>1. job.id \in Articles /\ ~Gone(job.id) BY <1>1, <2>1, ResetFinds
    <3>2. t \in Row /\ RowSound(t) /\ Follows(row[job.id], t)
      BY <1>1, <2>1, ResetFinds, ResetRowSound
    <3>3. row' = [row EXCEPT ![job.id] = t]
      BY <2>1, <3>1 DEF Reset, IInv, RowsInv
    <3> HIDE DEF t
    <3>4. QED BY <1>1, <3>1, <3>2, <3>3, RowWritten DEF IInv, RowsInv
  <2>2. CASE ~Unchanged(job)
    <3>1. UNCHANGED row BY <2>2 DEF Reset
    <3>2. QED BY <1>1, <3>1, NothingWritten DEF IInv, RowsInv
  <2>3. QED BY <2>1, <2>2
<1>3. CallsInv' BY <1>1, <1>2, Proceeds DEF IInv
<1>4. QED BY <1>1, <1>2, <1>3, CallEnds DEF IInv, QueueInv, NoFault

-------------------------------------------------------------------------------
(* The actions: process.                                                   *)

LEMMA WorkerEnds ==
    ASSUME IInv, RowsMove, RowsInv', WorkersInv', UNCHANGED call,
           queued' \subseteq queued, Fault \/ NoFault
    PROVE  IInv'
<1>1. CallsInv' BY CallsKept DEF IInv
<1>2. faults' \in 0..MaxFaults BY FaultsCounted DEF IInv
<1>3. QED BY <1>1, <1>2 DEF IInv, QueueInv

LEMMA WorkerLeaves ==
    ASSUME RowsInv, RowsMove, WorkersInv, NEW w \in Workers, Leave(w)
    PROVE  WorkersInv'
  BY WorkerMoves, IdleWorkerSound DEF Leave

(* To another step of process, with job and lease.                         *)
LEMMA WorkerGoesOn ==
    ASSUME RowsInv, RowsMove, WorkersInv, NEW w \in Workers, worker[w].pc # "idle",
           NEW pc \in {"generating", "failing"}, NEW text \in Sources,
           worker' = [worker EXCEPT ![w] = [worker[w] EXCEPT !.pc = pc, !.text = text]],
           pc = "generating" => text = worker[w].job.source
    PROVE  WorkersInv'
<1>1. worker[w] \in Worker /\ WorkerSound(worker[w]) BY DEF WorkersInv
<1>2. [worker[w] EXCEPT !.pc = pc, !.text = text] \in Worker
  BY <1>1, ZenonT(60) DEF Worker
<1>3. PICK s \in Worker : s = [worker[w] EXCEPT !.pc = pc, !.text = text]
  BY <1>2
<1>4. s.pc = pc /\ s.text = text /\ s.job = worker[w].job /\ s.lease = worker[w].lease
  BY <1>1, <1>3 DEF Worker
<1>5. WorkerSound(s)
  BY <1>1, <1>4 DEF WorkerSound
<1>6. WorkerSound(s)' BY <1>5, WorkerKnowsOn
<1>7. QED BY <1>3, <1>4, <1>6, WorkerMoves

LEMMA WorkerFails ==
    ASSUME RowsInv, RowsMove, WorkersInv, NEW w \in Workers, worker[w].pc # "idle",
           worker' = [worker EXCEPT ![w].pc = "failing"]
    PROVE  WorkersInv'
<1>1. worker[w] \in Worker /\ worker[w].text \in Sources BY DEF WorkersInv, Worker
<1>2. worker' = [worker EXCEPT ![w] = [worker[w] EXCEPT !.pc = "failing",
                                                        !.text = worker[w].text]]
  BY <1>1 DEF WorkersInv, Worker
<1>3. QED BY <1>1, <1>2, WorkerGoesOn

LEMMA ClaimStep ==
    ASSUME IInv, NEW w \in Workers, NEW job \in queued, Claim(w, job) PROVE IInv'
<1> DEFINE r == row[job.id]
<1>1. UNCHANGED <<article, expired, call, shown>> /\ Claimable(job)
      /\ row' = [row EXCEPT ![job.id] = ClaimedRow(r)]
      /\ queued' \subseteq queued /\ (Fault \/ NoFault)
  BY DEF Claim
<1>2. job \in Job /\ job.id \in Articles /\ job.revision # 0
  BY DEF IInv, QueueInv, Job
<1>3. r \in Row /\ RowSound(r) /\ ~r.edited /\ r.state = "PENDING" /\ r.revision # 0
      /\ (Gone(job.id) => r = NoRow)
  BY <1>1, <1>2 DEF IInv, RowsInv, ArticleSound, Claimable, Matches
<1>4. ~Gone(job.id) BY <1>3 DEF NoRow
<1>5. ClaimedRow(r) \in Row /\ RowSound(ClaimedRow(r)) /\ Follows(r, ClaimedRow(r))
      /\ ClaimedRow(r).claims = r.claims + 1
  BY <1>3, ClaimedRowSound
<1>6. RowsMove /\ RowsInv'
  BY <1>1, <1>2, <1>4, <1>5, RowWritten DEF IInv, RowsInv
<1>7. WorkersInv'
  <2>1. CASE UNCHANGED worker BY <1>6, <2>1, WorkersKept DEF IInv
  <2>2. CASE worker' = [worker EXCEPT ![w] = [IdleWorker EXCEPT
                          !.pc = "reading", !.job = job, !.lease = r.claims + 1]]
    <3>1. r.claims \in Nat /\ r.claims + 1 \in Nat /\ r.claims + 1 # 0
      BY <1>3, SMT DEF Row
    <3>2. [IdleWorker EXCEPT !.pc = "reading", !.job = job, !.lease = r.claims + 1]
            \in Worker
      BY <1>2, <3>1, IdleWorkerSound, ZenonT(60) DEF Worker
    <3>3. PICK s \in Worker :
            s = [IdleWorker EXCEPT !.pc = "reading", !.job = job, !.lease = r.claims + 1]
      BY <3>2
    <3>4. s.pc = "reading" /\ s.job = job /\ s.lease = r.claims + 1
      BY <3>3, IdleWorkerSound DEF Worker
    <3>5. row'[job.id] = ClaimedRow(r)
      BY <1>1, <1>2 DEF IInv, RowsInv
    <3>6. WorkerSound(s)'
      BY <1>5, <3>1, <3>4, <3>5, SMT DEF WorkerSound
    <3>7. /\ worker' \in [Workers -> Worker] /\ worker'[w] = s
          /\ \A v \in Workers \ {w} : worker'[v] = worker[v]
      BY <2>2, <3>3 DEF IInv, WorkersInv
    <3>8. ASSUME NEW v \in Workers PROVE WorkerSound(worker[v])'
      BY <1>6, <3>6, <3>7, WorkerKnowsOn DEF IInv, WorkersInv
    <3>9. ASSUME NEW v \in Workers, v # w, worker[v].pc # "idle",
                 worker[v].job.id = job.id
          PROVE  worker[v].lease # s.lease
      <4>1. worker[v].lease <= r.claims /\ worker[v].lease \in Nat
        BY <1>4, <3>9 DEF IInv, WorkersInv, WorkerSound, Worker
      <4>2. QED BY <3>1, <3>4, <4>1, SMT
    <3>10. LeasesDiffer'
      BY <3>4, <3>7, <3>9 DEF IInv, WorkersInv, LeasesDiffer
    <3>11. QED BY <3>7, <3>8, <3>10 DEF WorkersInv
  <2>3. QED BY <2>1, <2>2 DEF Claim
<1>8. QED BY <1>1, <1>6, <1>7, WorkerEnds

LEMMA ClaimMissesStep ==
    ASSUME IInv, NEW w \in Workers, NEW job \in queued, ClaimMisses(w, job) PROVE IInv'
<1>1. UNCHANGED <<article, row, expired, call, worker, shown, faults>>
      /\ queued' \subseteq queued
  BY DEF ClaimMisses
<1>2. RowsMove /\ RowsInv' BY <1>1, NothingWritten DEF IInv, RowsInv
<1>3. WorkersInv' BY <1>1, <1>2, WorkersKept DEF IInv
<1>4. QED BY <1>1, <1>2, <1>3, WorkerEnds DEF NoFault

LEMMA ReadSourceStep == ASSUME IInv, NEW w \in Workers, ReadSource(w) PROVE IInv'
<1>1. UNCHANGED <<article, row, expired, call, queued, shown, faults>>
      /\ worker[w].pc = "reading"
  BY DEF ReadSource
<1>2. RowsMove /\ RowsInv' BY <1>1, NothingWritten DEF IInv, RowsInv
<1> DEFINE a == article[worker[w].job.id]
<1>3. CASE worker' = [worker EXCEPT ![w].pc = "generating", ![w].text = a.result]
           /\ a.result = worker[w].job.source
  <2>1. worker[w] \in Worker /\ worker[w].job.source \in Sources
    BY DEF IInv, WorkersInv, Worker, Job
  <2>2. worker' = [worker EXCEPT ![w] = [worker[w] EXCEPT !.pc = "generating",
                                                          !.text = a.result]]
    BY <1>3, <2>1 DEF IInv, WorkersInv, Worker
  <2>3. WorkersInv' BY <1>1, <1>2, <1>3, <2>1, <2>2, WorkerGoesOn DEF IInv
  <2>4. QED BY <1>1, <1>2, <2>3, WorkerEnds DEF NoFault
<1>4. CASE worker' = [worker EXCEPT ![w].pc = "failing"]
  BY <1>1, <1>2, <1>4, WorkerFails, WorkerEnds DEF IInv, NoFault
<1>5. QED BY <1>3, <1>4 DEF ReadSource

(* The row of a worker that owns it.                                       *)
LEMMA OwnedRow ==
    ASSUME IInv, NEW w \in Workers, worker[w].pc # "idle", Owns(w)
    PROVE  LET r == row[worker[w].job.id]
           IN /\ worker[w].job.id \in Articles /\ ~Gone(worker[w].job.id)
              /\ r \in Row /\ RowSound(r) /\ ~r.edited /\ r.state = "RUNNING"
              /\ r.source = worker[w].job.source
<1> DEFINE r == row[worker[w].job.id]
<1>1. worker[w].job.id \in Articles /\ worker[w].lease # 0
  BY DEF IInv, WorkersInv, Worker, Job, WorkerSound
<1>2. r \in Row /\ RowSound(r) /\ (Gone(worker[w].job.id) => r = NoRow)
  BY <1>1 DEF IInv, RowsInv, ArticleSound
<1>3. r.lease # 0 /\ ~r.edited /\ r.source = worker[w].job.source
  BY <1>1 DEF Owns, Matches
<1>4. r.state = "RUNNING" BY <1>2, <1>3 DEF RowSound
<1>5. ~Gone(worker[w].job.id) BY <1>2, <1>3 DEF NoRow
<1>6. QED BY <1>1, <1>2, <1>3, <1>4, <1>5

LEMMA CompleteStep == ASSUME IInv, NEW w \in Workers, Complete(w) PROVE IInv'
<1> DEFINE job == worker[w].job
<1> DEFINE t == SucceededRow(row[job.id], worker[w].text)
<1>1. UNCHANGED <<article, expired, call, shown>> /\ worker[w].pc = "generating"
      /\ queued' \subseteq queued /\ (Fault \/ NoFault)
      /\ (Leave(w) \/ worker' = [worker EXCEPT ![w].pc = "failing"])
  BY DEF Complete
<1>2. RowsMove /\ RowsInv'
  <2>1. CASE UNCHANGED row BY <1>1, <2>1, NothingWritten DEF IInv, RowsInv
  <2>2. CASE Publishes(w) /\ row' = [row EXCEPT ![job.id] = t]
    <3>1. /\ job.id \in Articles /\ ~Gone(job.id)
          /\ row[job.id] \in Row /\ RowSound(row[job.id]) /\ ~row[job.id].edited
          /\ row[job.id].source = job.source
      BY <1>1, <2>2, OwnedRow DEF Publishes
    <3>2. worker[w].text = job.source
      BY <1>1 DEF IInv, WorkersInv, WorkerSound
    <3>3. t \in Row /\ RowSound(t) /\ Follows(row[job.id], t)
      BY <3>1, <3>2, SucceededRowSound
    <3> HIDE DEF t
    <3>4. QED BY <1>1, <2>2, <3>1, <3>3, RowWritten DEF IInv, RowsInv
  <2>3. QED BY <2>1, <2>2 DEF Complete
<1>3. WorkersInv'
  BY <1>1, <1>2, WorkerLeaves, WorkerFails DEF IInv
<1>4. QED BY <1>1, <1>2, <1>3, WorkerEnds

LEMMA GenerateFailsStep ==
    ASSUME IInv, NEW w \in Workers, GenerateFails(w) PROVE IInv'
<1>1. UNCHANGED <<article, row, expired, call, queued, shown, faults>>
      /\ worker[w].pc = "generating" /\ worker' = [worker EXCEPT ![w].pc = "failing"]
  BY DEF GenerateFails
<1>2. RowsMove /\ RowsInv' BY <1>1, NothingWritten DEF IInv, RowsInv
<1>3. QED BY <1>1, <1>2, WorkerFails, WorkerEnds DEF IInv, NoFault

LEMMA FailStep == ASSUME IInv, NEW w \in Workers, Fail(w) PROVE IInv'
<1> DEFINE job == worker[w].job
<1>1. UNCHANGED <<article, expired, call, shown>> /\ worker[w].pc = "failing"
      /\ queued' \subseteq queued /\ (Fault \/ NoFault) /\ Leave(w)
  BY DEF Fail
<1>2. RowsMove /\ RowsInv'
  <2>1. CASE UNCHANGED row BY <1>1, <2>1, NothingWritten DEF IInv, RowsInv
  <2>2. CASE Owns(w) /\ row' = [row EXCEPT ![job.id] = FailedRow(row[job.id])]
    <3>1. /\ job.id \in Articles /\ ~Gone(job.id)
          /\ row[job.id] \in Row /\ RowSound(row[job.id]) /\ ~row[job.id].edited
          /\ row[job.id].state = "RUNNING"
      BY <1>1, <2>2, OwnedRow
    <3> DEFINE t == FailedRow(row[job.id])
    <3>2. t \in Row /\ RowSound(t) /\ Follows(row[job.id], t)
      BY <3>1, FailedRowSound
    <3> HIDE DEF t
    <3>3. row' = [row EXCEPT ![job.id] = t] BY <2>2 DEF t
    <3>4. QED BY <1>1, <3>1, <3>2, <3>3, RowWritten DEF IInv, RowsInv
  <2>3. QED BY <2>1, <2>2 DEF Fail
<1>3. WorkersInv' BY <1>1, <1>2, WorkerLeaves DEF IInv
<1>4. QED BY <1>1, <1>2, <1>3, WorkerEnds

LEMMA DiesStep == ASSUME IInv, NEW w \in Workers, Dies(w) PROVE IInv'
<1>1. UNCHANGED <<article, row, expired, call, queued, shown>> /\ Leave(w) /\ Fault
  BY DEF Dies
<1>2. RowsMove /\ RowsInv' BY <1>1, NothingWritten DEF IInv, RowsInv
<1>3. QED BY <1>1, <1>2, WorkerLeaves, WorkerEnds DEF IInv

LEMMA JobLostStep == ASSUME IInv, NEW job \in queued, JobLost(job) PROVE IInv'
<1>1. UNCHANGED <<article, row, expired, call, worker, shown>>
      /\ queued' \subseteq queued /\ Fault
  BY DEF JobLost
<1>2. RowsMove /\ RowsInv' BY <1>1, NothingWritten DEF IInv, RowsInv
<1>3. QED BY <1>1, <1>2, WorkersKept, WorkerEnds DEF IInv

-------------------------------------------------------------------------------
(* Theorems.                                                               *)

LEMMA InitHolds == Init => IInv
<1> SUFFICES ASSUME Init PROVE IInv OBVIOUS
<1>1. [status |-> "saved", result |-> NoSource] \in Article
      /\ [revision |-> 0, content |-> Unclassified] \in [revision : Nat, content : Contents]
  BY ContentsContain DEF Article
<1>2. RowsInv
  <2>1. NoRow.revision = 0 /\ NoRow.content = Unclassified BY DEF NoRow
  <2>2. QED BY <1>1, <2>1, NoRowSound, SMT DEF Init, RowsInv, ArticleSound
<1>3. CallsInv BY IdleCallSound DEF Init, CallsInv
<1>4. WorkersInv BY IdleWorkerSound DEF Init, WorkersInv, LeasesDiffer
<1>5. faults \in 0..MaxFaults BY BoundsAssumption, SMT DEF Init
<1>6. QED BY <1>2, <1>3, <1>4, <1>5 DEF Init, IInv, QueueInv

LEMMA StutterKeeps == ASSUME IInv, UNCHANGED vars PROVE IInv'
<1>1. UNCHANGED <<article, row, expired, call, queued, worker, shown, faults>>
  BY DEF vars
<1>2. RowsMove /\ RowsInv' BY <1>1, NothingWritten DEF IInv, RowsInv
<1>3. QED BY <1>1, <1>2, OthersKept DEF NoFault

(* The inductive invariant: rows are sound, and what calls, workers and    *)
(* the user know of them is so.                                            *)
THEOREM Inductive == Spec => []IInv
<1>1. ASSUME IInv, Next PROVE IInv'
  <2>1. ASSUME NEW a \in Articles, NEW c \in Callers, NEW retry \in BOOLEAN,
               Schedule(c, a, retry)
        PROVE  IInv'
    BY <1>1, <2>1, ScheduleStep
  <2>2. ASSUME NEW c \in Callers, CallStep(c) \/ CallFails(c) PROVE IInv'
    BY <1>1, <2>2, ReadRowStep, CreateStep, ResetStep, RescanStep, AddStep, CallFailsStep
    DEF CallStep
  <2>3. ASSUME NEW w \in Workers, WorkerStep(w) \/ Dies(w) PROVE IInv'
    BY <1>1, <2>3, ReadSourceStep, CompleteStep, GenerateFailsStep, FailStep, DiesStep
    DEF WorkerStep
  <2>4. ASSUME NEW w \in Workers, NEW job \in queued, Deliver(w, job) PROVE IInv'
    BY <1>1, <2>4, ClaimStep, ClaimMissesStep DEF Deliver
  <2>5. QED
    BY <1>1, <2>1, <2>2, <2>3, <2>4, ArticleStep, RemoveStep, LookStep, EditStep,
       WaitsStep, ReclaimReadStep, ReclaimStep, JobLostStep
    DEF Next
<1>2. IInv /\ [Next]_vars => IInv' BY <1>1, StutterKeeps
<1>3. QED BY InitHolds, <1>2, PTL DEF Spec

(* A row has a lease exactly while it is RUNNING, and all have their types.*)
THEOREM TypeCorrect == Spec => []TypeOK
<1>1. IInv => TypeOK
  BY DEF IInv, RowsInv, CallsInv, WorkersInv, QueueInv, TypeOK, ArticleSound, RowSound
<1>2. QED BY Inductive, <1>1, PTL

(* What was found fits the source that the row names.                      *)
THEOREM ContentCorrect == Spec => []ContentFitsSource
<1>1. IInv => ContentFitsSource
  BY DEF IInv, RowsInv, ContentFitsSource, ArticleSound, RowSound
<1>2. QED BY Inductive, <1>1, PTL

(* An edit that is accepted replaces what its author has seen.             *)
THEOREM EditCorrect == Spec => []EditsWhatWasSeen
<1>1. IInv => EditsWhatWasSeen
  BY DEF IInv, RowsInv, EditsWhatWasSeen, ArticleSound
<1>2. QED BY Inductive, <1>1, PTL

(* No two workers can still write one row.                                 *)
THEOREM OwnerCorrect == Spec => []OneOwner
<1>1. IInv => OneOwner
  BY DEF IInv, WorkersInv, LeasesDiffer, OneOwner, Owns
<1>2. QED BY Inductive, <1>1, PTL

-------------------------------------------------------------------------------
(* What a step may do to one row.                                          *)

Survives(r, t) == r.edited => t = r \/ t = [r EXCEPT !.revision = @ + 1]
RepeatsWaited(r, t) ==
    /\ r.revision # 0 /\ r.state # "PENDING"
    /\ t.state = "PENDING" /\ t.revision # 0 /\ t.source = r.source
    => r.waited
RowsChange ==
    \A a \in Articles :
        \/ Gone(a)' /\ row'[a] = NoRow
        \/ Survives(row[a], row'[a]) /\ RepeatsWaited(row[a], row'[a])

LEMMA NoneChanges == ASSUME UNCHANGED row PROVE RowsChange
  BY DEF RowsChange, Survives, RepeatsWaited

LEMMA OneChanges ==
    ASSUME RowsInv, NEW a \in Articles, NEW t, row' = [row EXCEPT ![a] = t],
           Survives(row[a], t), RepeatsWaited(row[a], t)
    PROVE  RowsChange
<1>1. row'[a] = t /\ \A b \in Articles \ {a} : row'[b] = row[b] BY DEF RowsInv
<1>2. ASSUME NEW b \in Articles, b # a
      PROVE  Survives(row[b], row'[b]) /\ RepeatsWaited(row[b], row'[b])
  BY <1>1, <1>2 DEF Survives, RepeatsWaited
<1>3. QED BY <1>1, <1>2 DEF RowsChange

LEMMA UserChanges ==
    ASSUME IInv, NEW a \in Articles, Edit(a) \/ Waits(a) \/ Remove(a)
    PROVE  RowsChange
<1> DEFINE r == row[a]
<1>1. r \in Row /\ RowSound(r) BY DEF IInv, RowsInv, ArticleSound
<1>2. CASE Edit(a)
  <2> DEFINE u == IF r.revision = 0 THEN [r EXCEPT !.source = article[a].result] ELSE r
  <2>1. row' = [row EXCEPT ![a] = EditedRow(u)]
    BY <1>2 DEF Edit, IInv, RowsInv
  <2>2. EditedRow(u).state = "SUCCEEDED" BY <1>1 DEF EditedRow, Row
  <2>3. ASSUME r.edited PROVE EditedRow(u) = [r EXCEPT !.revision = @ + 1]
    <3> HIDE DEF r
    <3>1. r.revision # 0 BY <1>1, <2>3 DEF RowSound, NoRow
    <3>2. u = r BY <3>1
    <3>3. /\ r.state = "SUCCEEDED" /\ r.content = ByUser /\ r.lease = 0
          /\ r.edited = TRUE /\ r.waited = FALSE
      BY <1>1, <2>3 DEF RowSound, Row
    <3>4. EditedRow(r) = [r EXCEPT !.revision = @ + 1]
      BY <1>1, <3>3 DEF EditedRow, Row
    <3>5. QED BY <3>2, <3>4
  <2>4. Survives(r, EditedRow(u)) BY <2>3 DEF Survives
  <2>5. RepeatsWaited(r, EditedRow(u)) BY <2>2 DEF RepeatsWaited
  <2>6. QED BY <2>1, <2>4, <2>5, OneChanges DEF IInv
<1>3. CASE Waits(a)
  <2> DEFINE t == [r EXCEPT !.waited = TRUE]
  <2>1. row' = [row EXCEPT ![a] = t] /\ r.state \in {"RUNNING", "FAILED"}
    BY <1>3 DEF Waits, IInv, RowsInv
  <2>2. t.state = r.state BY <1>1 DEF Row
  <2>3. ~r.edited BY <1>1, <2>1 DEF RowSound
  <2>4. Survives(r, t) /\ RepeatsWaited(r, t)
    BY <2>1, <2>2, <2>3 DEF Survives, RepeatsWaited
  <2>5. QED BY <2>1, <2>4, OneChanges DEF IInv
<1>4. CASE Remove(a)
  <2>1. article[a] \in Article BY DEF IInv, RowsInv
  <2>2. Gone(a)' /\ row'[a] = NoRow /\ \A b \in Articles \ {a} : row'[b] = row[b]
    BY <1>4, <2>1 DEF Remove, IInv, RowsInv, Gone, Article
  <2>3. QED BY <2>2 DEF RowsChange, Survives, RepeatsWaited
<1>5. QED BY <1>2, <1>3, <1>4

LEMMA ReclaimChanges == ASSUME IInv, NEW s \in expired, Reclaim(s) PROVE RowsChange
<1> DEFINE r == row[s.id]
<1>1. CASE StillExpired(s)
  <2>1. s.id \in Articles /\ ~r.edited /\ r.waited
    BY <1>1 DEF StillExpired, IInv, RowsInv, Snapshot
  <2>2. row' = [row EXCEPT ![s.id] = PendingAgain(r)]
    BY <1>1, <2>1 DEF Reclaim, IInv, RowsInv
  <2>3. Survives(r, PendingAgain(r)) /\ RepeatsWaited(r, PendingAgain(r))
    BY <2>1 DEF Survives, RepeatsWaited
  <2>4. QED BY <2>1, <2>2, <2>3, OneChanges DEF IInv
<1>2. CASE ~StillExpired(s)
  BY <1>2, NoneChanges DEF Reclaim
<1>3. QED BY <1>1, <1>2

LEMMA CallChanges == ASSUME IInv, NEW c \in Callers, CallStep(c) PROVE RowsChange
<1> DEFINE job == call[c].job
<1> DEFINE r == row[job.id]
<1>1. job.id \in Articles /\ job.source \in Sources
  BY DEF IInv, CallsInv, Call, Job
<1>2. r \in Row /\ RowSound(r) BY <1>1 DEF IInv, RowsInv, ArticleSound
<1>3. CASE Create(c) /\ ~Gone(job.id) /\ Free(job.id)
  <2> DEFINE t == FirstRow(job.source)
  <2>1. row' = [row EXCEPT ![job.id] = t] BY <1>3 DEF Create, Gone
  <2>2. r.revision = 0 /\ ~r.edited
    BY <1>2, <1>3 DEF Free, RowSound, NoRow
  <2>3. Survives(r, t) /\ RepeatsWaited(r, t) BY <2>2 DEF Survives, RepeatsWaited
  <2>4. QED BY <1>1, <2>1, <2>3, OneChanges DEF IInv
<1>4. CASE Create(c) /\ (Gone(job.id) \/ ~Free(job.id))
  BY <1>4, NoneChanges DEF Create, Gone
<1>5. CASE Reset(c) /\ Unchanged(job)
  <2> DEFINE t == ResetRow(r, job.source)
  <2>1. call[c].pc = "reset" BY <1>5 DEF Reset
  <2>2. ~r.edited /\ (r.source # job.source \/ r.waited)
    BY <1>5, <2>1, ResetFinds
  <2>3. t.source = job.source BY <1>2 DEF ResetRow, Row
  <2>4. Survives(r, t) /\ RepeatsWaited(r, t)
    BY <2>2, <2>3 DEF Survives, RepeatsWaited
  <2>5. row' = [row EXCEPT ![job.id] = t]
    BY <1>1, <1>5 DEF Reset, IInv, RowsInv
  <2> HIDE DEF t
  <2>6. QED BY <1>1, <2>4, <2>5, OneChanges DEF IInv
<1>6. CASE Reset(c) /\ ~Unchanged(job)
  BY <1>6, NoneChanges DEF Reset
<1>7. CASE ReadRow(c) \/ Rescan(c) \/ Add(c)
  BY <1>7, NoneChanges DEF ReadRow, Rescan, Add
<1>8. QED BY <1>3, <1>4, <1>5, <1>6, <1>7 DEF CallStep

LEMMA WorkerChanges ==
    ASSUME IInv, NEW w \in Workers, WorkerStep(w) PROVE RowsChange
<1> DEFINE job == worker[w].job
<1> DEFINE r == row[job.id]
<1>1. CASE UNCHANGED row BY <1>1, NoneChanges
<1>2. ASSUME NEW t, row' = [row EXCEPT ![job.id] = t], worker[w].pc # "idle", Owns(w),
             t \in {SucceededRow(r, worker[w].text), FailedRow(r)}
      PROVE  RowsChange
  <2>1. job.id \in Articles /\ r \in Row /\ ~r.edited BY <1>2, OwnedRow
  <2>2. t.state # "PENDING" BY <1>2, <2>1 DEF SucceededRow, FailedRow, Row
  <2>3. Survives(r, t) /\ RepeatsWaited(r, t)
    BY <2>1, <2>2 DEF Survives, RepeatsWaited
  <2>4. QED BY <1>2, <2>1, <2>3, OneChanges DEF IInv
<1>3. CASE Complete(w)
  <2>1. CASE Publishes(w)
             /\ row' = [row EXCEPT ![job.id] = SucceededRow(r, worker[w].text)]
    BY <1>2, <1>3, <2>1 DEF Complete, Publishes
  <2>2. QED BY <1>1, <1>3, <2>1 DEF Complete
<1>4. CASE Fail(w)
  <2>1. CASE Owns(w) /\ row' = [row EXCEPT ![job.id] = FailedRow(r)]
    BY <1>2, <1>4, <2>1 DEF Fail
  <2>2. QED BY <1>1, <1>4, <2>1 DEF Fail
<1>5. CASE ReadSource(w) \/ GenerateFails(w)
  BY <1>1, <1>5 DEF ReadSource, GenerateFails
<1>6. QED BY <1>3, <1>4, <1>5 DEF WorkerStep

LEMMA DeliverChanges ==
    ASSUME IInv, NEW w \in Workers, NEW job \in queued, Deliver(w, job)
    PROVE  RowsChange
<1>1. CASE ClaimMisses(w, job) BY <1>1, NoneChanges DEF ClaimMisses
<1>2. CASE Claim(w, job)
  <2> DEFINE r == row[job.id]
  <2>1. job.id \in Articles /\ ~r.edited
    BY <1>2 DEF IInv, QueueInv, Job, Claim, Claimable, Matches
  <2>2. r \in Row BY <2>1 DEF IInv, RowsInv
  <2>3. ClaimedRow(r).state = "RUNNING" BY <2>2 DEF ClaimedRow, Row
  <2>4. Survives(r, ClaimedRow(r)) /\ RepeatsWaited(r, ClaimedRow(r))
    BY <2>1, <2>3 DEF Survives, RepeatsWaited
  <2>5. row' = [row EXCEPT ![job.id] = ClaimedRow(r)] BY <1>2 DEF Claim
  <2>6. QED BY <2>1, <2>4, <2>5, OneChanges DEF IInv
<1>3. QED BY <1>1, <1>2 DEF Deliver

LEMMA NextChanges == ASSUME IInv, [Next]_vars PROVE RowsChange
<1>1. CASE UNCHANGED vars BY <1>1, NoneChanges DEF vars
<1>2. CASE Next
  <2>1. ASSUME NEW a \in Articles, Publish(a) \/ SummarizeAgain(a) \/ Look(a)
        PROVE  RowsChange
    BY <2>1, NoneChanges DEF Publish, SummarizeAgain, Look
  <2>2. ASSUME NEW c \in Callers, NEW a \in Articles, NEW retry \in BOOLEAN,
               Schedule(c, a, retry)
        PROVE  RowsChange
    BY <2>2, NoneChanges DEF Schedule
  <2>3. CASE ReclaimRead \/ ReclaimAborts
    BY <2>3, NoneChanges DEF ReclaimRead, ReclaimAborts
  <2>4. ASSUME NEW c \in Callers, CallFails(c) PROVE RowsChange
    BY <2>4, NoneChanges DEF CallFails
  <2>5. ASSUME NEW job \in queued, JobLost(job) PROVE RowsChange
    BY <2>5, NoneChanges DEF JobLost
  <2>6. ASSUME NEW w \in Workers, Dies(w) PROVE RowsChange
    BY <2>6, NoneChanges DEF Dies
  <2>7. QED
    BY <1>2, <2>1, <2>2, <2>3, <2>4, <2>5, <2>6, UserChanges, ReclaimChanges,
       CallChanges, WorkerChanges, DeliverChanges
    DEF Next
<1>3. QED BY <1>1, <1>2

(* No late worker, call, scan or retry changes what the user has edited.   *)
THEOREM EditSafety == Spec => EditsSurvive
<1>1. IInv /\ [Next]_vars =>
        [\A a \in Articles :
           row[a].edited /\ article'[a].status # "removed"
           => \/ row'[a] = row[a]
              \/ row'[a] = [row[a] EXCEPT !.revision = @ + 1]]_vars
  BY NextChanges DEF RowsChange, Survives, Gone
<1>2. QED BY Inductive, <1>1, PTL DEF Spec, EditsSurvive

(* Only a lapsed lease or an old failure is repeated for the same source.  *)
THEOREM RepeatSafety == Spec => OnlyWaitedIsRepeated
<1>1. NoRow.revision = 0 BY DEF NoRow
<1>2. IInv /\ [Next]_vars =>
        [\A a \in Articles :
           row[a].revision # 0 /\ row[a].state # "PENDING"
           /\ row'[a].state = "PENDING" /\ row'[a].revision # 0
           /\ row'[a].source = row[a].source
           => row[a].waited]_vars
  BY <1>1, NextChanges DEF RowsChange, RepeatsWaited
<1>3. QED BY Inductive, <1>2, PTL DEF Spec, OnlyWaitedIsRepeated
=============================================================================
