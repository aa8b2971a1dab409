------------------------- MODULE SummaryVariantsProofs -------------------------
(***************************************************************************)
(* Proofs about SummaryVariants, for any number of densities, workers,     *)
(* keys, attempts, generations and sources, and any number of faults.      *)
(*                                                                         *)
(* Three things carry the argument.  The tasks of a variant are one per    *)
(* generation, and their sources never go back (HistorySound).  A lease is *)
(* the number of its attempt, so what a dispatch or a worker remembers of  *)
(* an attempt is true for as long as its lease is there (LeasesSound).     *)
(* What a worker's unlocked reads found is still true in the direction     *)
(* that its writes depend on (WorkersSound).                               *)
(***************************************************************************)
EXTENDS SummaryVariants, TLAPS

Present(id) == task[id].state # "ABSENT"

HistorySound ==
    /\ \A d \in Densities :
          /\ variant[d].source <= article.source
          /\ variant[d].generation = 0 => variant[d] = NoVariant
          /\ variant[d].generation # 0 => variant[d].state # "NONE"
    /\ \A id \in TaskIds :
          /\ Present(id) <=> id[2] <= variant[id[1]].generation
          /\ Present(id) => task[id].source # NoSource
          /\ id[2] = variant[id[1]].generation =>
               task[id].source = variant[id[1]].source
    /\ \A id1, id2 \in TaskIds :
          id1[1] = id2[1] /\ id1[2] <= id2[2] /\ Present(id2) =>
            task[id1].source <= task[id2].source

(* Of the tasks of one source only the last can be live.                   *)
LastLives ==
    \A id1, id2 \in TaskIds :
        id1[1] = id2[1] /\ id1[2] < id2[2] /\ Present(id2) /\ Live(id1) =>
          task[id1].source # task[id2].source

LeasesSound ==
    /\ \A id \in TaskIds :
          /\ task[id].state = "RUNNING" => task[id].lease = task[id].attempts
          /\ task[id].result \in {NoSource, task[id].source}
    /\ \A e \in reclaiming : e.lease = e.attempts
    /\ article.saved => \A id \in queued : Present(id)

WorkerSound(w) ==
    LET me == worker[w]
    IN /\ me.pc # "idle" =>
            /\ me.task \in TaskIds
            /\ article.saved => Present(me.task)
            /\ Present(me.task) => me.source = task[me.task].source
       /\ Holds(w) => me.view = "fresh" /\ me.lease = me.attempts
       /\ me.pc = "complete" => me.markdown = me.source
       /\ me.view = "fresh" => me.source # NoSource /\ me.text = me.source
       /\ me.pc = "claim" /\ me.view = "stale" /\ Present(me.task) =>
            me.source < article.source
       /\ me.pc = "claim" /\ me.view = "gone" /\ Present(me.task) =>
            me.task[2] < variant[me.task[1]].generation

WorkersSound == \A w \in Workers : WorkerSound(w)

IInv ==
    /\ TypeOK /\ HistorySound /\ LastLives /\ LeasesSound /\ WorkersSound
    /\ ShownFitsSource /\ StateFitsTask /\ KeysAreUnique

(* What StateFitsTask says of a row and the task of its generation.        *)
Fits(row, t, source) ==
    /\ row.state = "PENDING" =>
          t.state = "PENDING" /\ t.source = row.source /\ ~Exhausted(t.attempts)
    /\ row.state \in {"SUCCEEDED", "FAILED"} /\ row.source = source =>
          t.state \in {"SUCCEEDED", "FAILED"}

(* What every step but a request, a publication and a removal does.        *)
Frame ==
    /\ article' = article
    /\ \A id \in TaskIds :
          /\ task'[id].source = task[id].source
          /\ task'[id].requestKey = task[id].requestKey
          /\ Present(id)' <=> Present(id)
          /\ Live(id)' => Live(id)
          /\ task'[id].state = "RUNNING" => task'[id].lease = task'[id].attempts
          /\ task'[id].result \in {NoSource, task[id].source}
    /\ \A d \in Densities :
          /\ variant'[d].generation = variant[d].generation
          /\ variant'[d].source = variant[d].source
          /\ variant[d].generation = 0 => variant'[d] = variant[d]
          /\ variant[d].generation # 0 => variant'[d].state # "NONE"
          /\ variant'[d].markdown # NoSource =>
               variant'[d].markdown = variant'[d].source
          /\ variant'[d].state = "SUCCEEDED" => variant'[d].markdown # NoSource

-------------------------------------------------------------------------------
LEMMA Ids ==
    /\ \A id \in TaskIds :
          /\ id[1] \in Densities /\ id[2] \in 1..MaxGeneration
          /\ id[2] \in Nat /\ id = <<id[1], id[2]>>
    /\ \A d \in Densities, g \in 1..MaxGeneration : <<d, g>> \in TaskIds
    /\ \A id1, id2 \in TaskIds : id1[1] = id2[1] /\ id1[2] = id2[2] => id1 = id2
  BY VariantAssumption, SMT DEF TaskIds

LEMMA Typed ==
    ASSUME TypeOK
    PROVE  /\ article.source \in Nat
           /\ \A d \in Densities :
                 /\ variant[d] \in VariantRow
                 /\ variant[d].generation \in 0..MaxGeneration
                 /\ variant[d].generation \in Nat /\ variant[d].source \in Nat
           /\ \A id \in TaskIds :
                 /\ task[id] \in TaskRow
                 /\ task[id].source \in Nat /\ task[id].attempts \in Nat
<1>1. /\ article \in [saved : BOOLEAN, source : Sources]
      /\ \A d \in Densities : variant[d] \in VariantRow
      /\ \A id \in TaskIds : task[id] \in TaskRow
  BY DEF TypeOK
<1>2. \A n \in Sources : n \in Nat
  BY VariantAssumption, SMT DEF Sources
<1>3. \A n \in Attempts : n \in Nat
  BY VariantAssumption, SMT DEF Attempts
<1>4. \A row \in VariantRow : row.generation \in 0..MaxGeneration /\ row.source \in Sources
  BY DEF VariantRow
<1>5. \A t \in TaskRow : t.source \in Sources /\ t.attempts \in Attempts
  BY DEF TaskRow
<1>6. \A n \in 0..MaxGeneration : n \in Nat
  BY VariantAssumption, SMT
<1>7. article.source \in Sources
  BY <1>1
<1>8. QED BY <1>1, <1>2, <1>3, <1>4, <1>5, <1>6, <1>7

LEMMA Defaults ==
    /\ NoSource \in Sources /\ 0 \in Attempts
    /\ NoVariant \in VariantRow /\ NoTask \in TaskRow /\ IdleWorker \in WorkerState
<1>1. 0 \in Sources /\ 0 \in Attempts /\ 0 \in 0..MaxGeneration
  BY VariantAssumption, SMT DEF Sources, Attempts
<1>2. NoVariant \in VariantRow
  BY <1>1, Zenon DEF NoVariant, VariantRow, NoSource
<1>3. NoTask \in TaskRow
  BY <1>1, Zenon DEF NoTask, TaskRow, NoSource
<1>4. IdleWorker \in WorkerState
  BY <1>1, Zenon DEF IdleWorker, WorkerState, NoSource, Failure
<1>5. QED BY <1>1, <1>2, <1>3, <1>4 DEF NoSource

(* The task of the variant's generation is the one whose writes reach it.  *)
LEMMA NamedIsLast ==
    ASSUME IInv, NEW id \in TaskIds, Present(id)
    PROVE  /\ Named(id, task[id].source) <=> id[2] = variant[id[1]].generation
           /\ variant[id[1]].generation > 0
           /\ id[2] <= variant[id[1]].generation
  BY Ids, Typed, SMT DEF IInv, HistorySound, Named

-------------------------------------------------------------------------------
(* Frames.                                                                 *)

LEMMA FrameKeepsHistory ==
    ASSUME IInv, Frame
    PROVE  HistorySound' /\ LastLives'
<1>1. /\ \A d \in Densities :
            /\ variant'[d].source <= article'.source
            /\ variant'[d].generation = 0 => variant'[d] = NoVariant
            /\ variant'[d].generation # 0 => variant'[d].state # "NONE"
      /\ \A id \in TaskIds :
            /\ Present(id)' <=> id[2] <= variant'[id[1]].generation
            /\ Present(id)' => task'[id].source # NoSource
            /\ id[2] = variant'[id[1]].generation =>
                 task'[id].source = variant'[id[1]].source
  BY Ids DEF IInv, HistorySound, Frame
<1>2. \A id1, id2 \in TaskIds :
          id1[1] = id2[1] /\ id1[2] <= id2[2] /\ Present(id2)' =>
            task'[id1].source <= task'[id2].source
  BY DEF IInv, HistorySound, Frame
<1>3. HistorySound'
  BY <1>1, <1>2 DEF HistorySound
<1>4. LastLives'
  BY DEF IInv, LastLives, Frame
<1>5. QED BY <1>3, <1>4

LEMMA FrameKeepsRest ==
    ASSUME IInv, Frame
    PROVE  /\ KeysAreUnique' /\ ShownFitsSource'
           /\ \A id \in TaskIds :
                 /\ task'[id].state = "RUNNING" => task'[id].lease = task'[id].attempts
                 /\ task'[id].result \in {NoSource, task'[id].source}
<1>1. KeysAreUnique'
  BY DEF IInv, KeysAreUnique, Frame, Present
<1>2. ShownFitsSource'
  BY DEF ShownFitsSource, Frame
<1>3. \A id \in TaskIds :
         /\ task'[id].state = "RUNNING" => task'[id].lease = task'[id].attempts
         /\ task'[id].result \in {NoSource, task'[id].source}
  BY DEF Frame
<1>4. QED BY <1>1, <1>2, <1>3

LEMMA FrameFits ==
    ASSUME IInv, Frame,
           \A d \in Densities : variant[d].generation > 0 =>
              Fits(variant'[d], task'[<<d, variant[d].generation>>], article.source)
    PROVE  StateFitsTask'
<1> SUFFICES ASSUME NEW d \in Densities
             PROVE  Fits(variant'[d], task'[<<d, variant'[d].generation>>], article'.source)
  BY DEF StateFitsTask, Fits
<1>1. variant'[d].generation = variant[d].generation /\ article' = article
  BY DEF Frame
<1>2. CASE variant[d].generation > 0
  BY <1>1, <1>2 DEF Fits
<1>3. CASE ~(variant[d].generation > 0)
  <2>1. variant[d].generation = 0
    BY <1>3, Typed, SMT DEF IInv
  <2>2. variant'[d].state = "NONE"
    BY <2>1 DEF IInv, HistorySound, Frame, NoVariant
  <2>3. QED BY <2>2 DEF Fits
<1>4. QED BY <1>2, <1>3

LEMMA NothingWritten ==
    ASSUME IInv, UNCHANGED <<article, variant, task>>
    PROVE  Frame /\ StateFitsTask'
<1>1. Frame
  BY DEF Frame, IInv, HistorySound, LeasesSound, ShownFitsSource, Present, Live
<1>2. StateFitsTask'
  BY DEF IInv, StateFitsTask
<1>3. QED BY <1>1, <1>2

LEMMA WorkerKept ==
    ASSUME IInv, Frame, NEW w \in Workers, worker'[w] = worker[w]
    PROVE  WorkerSound(w)'
<1> DEFINE me == worker[w]
<1>1. WorkerSound(w)
  BY DEF IInv, WorkersSound
<1>2. me.pc # "idle" => me.task[1] \in Densities
  BY <1>1, Ids DEF WorkerSound
<1>3. Holds(w)' <=> Holds(w)
  BY DEF Holds
<1>4. me.pc # "idle" => /\ Present(me.task)' <=> Present(me.task)
                        /\ task'[me.task].source = task[me.task].source
                        /\ variant'[me.task[1]].generation
                              = variant[me.task[1]].generation
  BY <1>1, <1>2 DEF WorkerSound, Frame
<1>5. article' = article
  BY DEF Frame
<1> HIDE DEF me
<1>6. worker'[w] = me
  BY DEF me
<1>7. me.pc = "claim" => me.pc # "idle"
  OBVIOUS
<1>8. QED BY <1>1, <1>3, <1>4, <1>5, <1>6, <1>7 DEF WorkerSound, me, Present

(* One worker moves within a frame.                                        *)
LEMMA OneMoves ==
    ASSUME IInv, Frame, NEW w \in Workers, WorkerSound(w)',
           \A v \in Workers : v # w => worker'[v] = worker[v]
    PROVE  WorkersSound'
<1> SUFFICES ASSUME NEW v \in Workers PROVE WorkerSound(v)'
  BY DEF WorkersSound
<1>1. CASE v = w
  BY <1>1
<1>2. CASE v # w
  BY <1>2, WorkerKept
<1>3. QED BY <1>1, <1>2

(* A worker goes on with the same job, reads and lease, or ends.           *)
LEMMA StaysSound ==
    ASSUME IInv, Frame, NEW w \in Workers, worker[w].pc # "idle",
           NEW me \in WorkerState, worker' = [worker EXCEPT ![w] = me],
           /\ me.task = worker[w].task /\ me.source = worker[w].source
           /\ me.view = worker[w].view /\ me.text = worker[w].text
           /\ me.lease = worker[w].lease /\ me.attempts = worker[w].attempts,
           /\ me.pc # "claim"
           /\ me.pc \in {"generating", "complete", "failing"} => Holds(w)
           /\ me.pc = "complete" => me.markdown = me.source
    PROVE  WorkersSound' /\ worker' \in [Workers -> WorkerState]
<1>1. WorkerSound(w)
  BY DEF IInv, WorkersSound
<1>2. worker'[w] = me /\ worker' \in [Workers -> WorkerState]
  BY DEF IInv, TypeOK
<1>3. me.task \in TaskIds /\ me.task[1] \in Densities
  BY <1>1, Ids DEF WorkerSound
<1>4. /\ task'[me.task].state # "ABSENT" <=> Present(me.task)
      /\ task'[me.task].source = task[me.task].source
      /\ article' = article
  BY <1>3 DEF Frame, Present
<1>5. /\ article'.saved => task'[me.task].state # "ABSENT"
      /\ task'[me.task].state # "ABSENT" => me.source = task'[me.task].source
      /\ me.view = "fresh" => me.source # NoSource /\ me.text = me.source
      /\ me.pc \in {"generating", "complete", "failing"} =>
           me.view = "fresh" /\ me.lease = me.attempts
  BY <1>1, <1>4 DEF WorkerSound
<1>6. WorkerSound(w)'
  BY <1>2, <1>3, <1>5 DEF WorkerSound, Present, Holds
<1>7. \A v \in Workers : v # w => worker'[v] = worker[v]
  BY DEF IInv, TypeOK
<1>8. QED BY <1>2, <1>6, <1>7, OneMoves

LEMMA LeavesSound ==
    ASSUME IInv, Frame, NEW w \in Workers, worker[w].pc # "idle", Goto(w, "finish")
    PROVE  WorkersSound' /\ worker' \in [Workers -> WorkerState]
<1> DEFINE me == [worker[w] EXCEPT !.pc = "finish"]
<1>1. worker[w] \in WorkerState
  BY DEF IInv, TypeOK
<1>2. /\ me \in WorkerState /\ me.pc = "finish"
      /\ me.task = worker[w].task /\ me.source = worker[w].source
      /\ me.view = worker[w].view /\ me.text = worker[w].text
      /\ me.lease = worker[w].lease /\ me.attempts = worker[w].attempts
  BY <1>1 DEF WorkerState
<1>3. worker' = [worker EXCEPT ![w] = me]
  BY DEF Goto
<1> HIDE DEF me
<1>4. QED BY <1>2, <1>3, StaysSound

LEMMA ThrowsSound ==
    ASSUME IInv, Frame, NEW w \in Workers, Holds(w), NEW f \in Failure, Throw(w, f)
    PROVE  WorkersSound' /\ worker' \in [Workers -> WorkerState]
<1> DEFINE me == [worker[w] EXCEPT !.pc = "failing", !.failure = f]
<1>1. worker[w] \in WorkerState
  BY DEF IInv, TypeOK
<1>2. /\ me \in WorkerState /\ me.pc = "failing"
      /\ me.task = worker[w].task /\ me.source = worker[w].source
      /\ me.view = worker[w].view /\ me.text = worker[w].text
      /\ me.lease = worker[w].lease /\ me.attempts = worker[w].attempts
  BY <1>1 DEF WorkerState
<1>3. worker' = [worker EXCEPT ![w] = me] /\ worker[w].pc # "idle"
  BY DEF Throw, Holds
<1> HIDE DEF me
<1>4. QED BY <1>2, <1>3, StaysSound

LEMMA IdleSound ==
    ASSUME IInv, Frame, NEW w \in Workers, worker' = [worker EXCEPT ![w] = IdleWorker]
    PROVE  WorkersSound' /\ worker' \in [Workers -> WorkerState]
<1>1. worker'[w] = IdleWorker /\ worker' \in [Workers -> WorkerState]
  BY Defaults DEF IInv, TypeOK
<1>2. WorkerSound(w)'
  BY <1>1 DEF WorkerSound, Holds, IdleWorker
<1>3. \A v \in Workers : v # w => worker'[v] = worker[v]
  BY DEF IInv, TypeOK
<1>4. QED BY <1>1, <1>2, <1>3, OneMoves

LEMMA NobodyMoves ==
    ASSUME IInv, Frame, UNCHANGED worker
    PROVE  WorkersSound' /\ worker' \in [Workers -> WorkerState]
<1>1. \A w \in Workers : WorkerSound(w)'
  BY WorkerKept
<1>2. QED BY <1>1 DEF WorkersSound, IInv, TypeOK

(* A transaction writes one task and, if it names it, its variant.         *)
LEMMA OneTaskChanges ==
    ASSUME IInv, NEW id \in TaskIds, Present(id), UNCHANGED article,
           NEW t \in TaskRow, task' = [task EXCEPT ![id] = t],
           NEW row \in VariantRow, variant' = [variant EXCEPT ![id[1]] = row],
           /\ t.source = task[id].source /\ t.requestKey = task[id].requestKey
           /\ t.state # "ABSENT"
           /\ t.state \in {"PENDING", "RUNNING"} => Live(id)
           /\ t.state = "RUNNING" => t.lease = t.attempts
           /\ t.result \in {NoSource, t.source},
           /\ row.generation = variant[id[1]].generation
           /\ row.source = variant[id[1]].source
           /\ row.markdown # NoSource => row.markdown = row.source
           /\ row.state = "SUCCEEDED" => row.markdown # NoSource
           /\ row.state # "NONE",
           id[2] = row.generation => Fits(row, t, article.source),
           id[2] # row.generation => row.state \in {variant[id[1]].state, "RUNNING"}
    PROVE  /\ Frame /\ StateFitsTask'
           /\ task' \in [TaskIds -> TaskRow] /\ variant' \in [Densities -> VariantRow]
<1> DEFINE dens == id[1]
<1>1. dens \in Densities /\ variant[dens].generation > 0
  BY Ids, NamedIsLast
<1>2. variant' = [variant EXCEPT ![dens] = row]
  OBVIOUS
<1>a. /\ row.generation = variant[dens].generation
      /\ row.source = variant[dens].source
      /\ id[2] # row.generation => row.state \in {variant[dens].state, "RUNNING"}
  OBVIOUS
<1> HIDE DEF dens
<1>3. /\ task' \in [TaskIds -> TaskRow] /\ variant' \in [Densities -> VariantRow]
      /\ \A i \in TaskIds : task'[i] = IF i = id THEN t ELSE task[i]
      /\ \A d \in Densities : variant'[d] = IF d = dens THEN row ELSE variant[d]
  BY <1>1, <1>2 DEF IInv, TypeOK
<1>4. Frame
  <2>1. \A i \in TaskIds :
          /\ task'[i].source = task[i].source
          /\ task'[i].requestKey = task[i].requestKey
          /\ Present(i)' <=> Present(i)
          /\ Live(i)' => Live(i)
          /\ task'[i].state = "RUNNING" => task'[i].lease = task'[i].attempts
          /\ task'[i].result \in {NoSource, task[i].source}
    BY <1>3 DEF IInv, LeasesSound, Present, Live
  <2>2. \A d \in Densities :
          /\ variant'[d].generation = variant[d].generation
          /\ variant'[d].source = variant[d].source
          /\ variant[d].generation = 0 => variant'[d] = variant[d]
          /\ variant[d].generation # 0 => variant'[d].state # "NONE"
          /\ variant'[d].markdown # NoSource => variant'[d].markdown = variant'[d].source
          /\ variant'[d].state = "SUCCEEDED" => variant'[d].markdown # NoSource
    <3>1. ~(variant[dens].generation = 0)
      BY <1>1, SMT
    <3>2. QED BY <1>3, <1>a, <3>1 DEF IInv, HistorySound, ShownFitsSource
  <2>3. QED BY <2>1, <2>2 DEF Frame
<1>5. ASSUME NEW d \in Densities, variant[d].generation > 0
      PROVE  Fits(variant'[d], task'[<<d, variant[d].generation>>], article.source)
  <2> DEFINE last == <<d, variant[d].generation>>
  <2>1. last \in TaskIds /\ last[1] = d /\ last[2] = variant[d].generation
    <3>1. variant[d].generation \in 1..MaxGeneration
      BY <1>5, Typed, SMT DEF IInv
    <3>2. QED BY <3>1, Ids
  <2>2. Fits(variant[d], task[last], article.source)
    BY DEF IInv, StateFitsTask, Fits
  <2> HIDE DEF last
  <2>3. CASE d # dens
    <3>1. last # id
      BY <2>1, <2>3 DEF dens
    <3>2. variant'[d] = variant[d] /\ task'[last] = task[last]
      BY <1>3, <2>1, <2>3, <3>1
    <3>3. QED BY <2>2, <3>2 DEF last
  <2>4. CASE d = dens /\ id[2] = row.generation
    <3>1. id = last
      BY <1>a, <2>1, <2>4, Ids DEF dens
    <3>2. variant'[d] = row /\ task'[last] = t
      BY <1>3, <2>1, <2>4, <3>1
    <3>3. QED BY <2>4, <3>2 DEF last
  <2>5. CASE d = dens /\ id[2] # row.generation
    <3>1. last # id
      BY <1>a, <2>1, <2>5
    <3>2. variant'[d] = row /\ task'[last] = task[last]
      BY <1>3, <2>1, <2>5, <3>1
    <3>3. row.state \in {variant[d].state, "RUNNING"} /\ row.source = variant[d].source
      BY <1>a, <2>5
    <3>4. Fits(row, task[last], article.source)
      BY <2>2, <3>3 DEF Fits
    <3>5. QED BY <3>2, <3>4 DEF last
  <2>6. QED BY <2>3, <2>4, <2>5
<1>6. StateFitsTask'
  BY <1>4, <1>5, FrameFits
<1>7. QED BY <1>3, <1>4, <1>6

(* What is left to show of a step within a frame.                          *)
LEMMA FrameKeeps ==
    ASSUME IInv, Frame, StateFitsTask', WorkersSound',
           task' \in [TaskIds -> TaskRow], variant' \in [Densities -> VariantRow],
           worker' \in [Workers -> WorkerState], faults' \in 0..MaxFaults,
           queued' \in SUBSET TaskIds, reclaiming' \in SUBSET Snapshot,
           \A e \in reclaiming' : e.lease = e.attempts,
           article.saved => \A id \in queued' : Present(id)
    PROVE  IInv'
<1>1. TypeOK'
  BY DEF IInv, TypeOK, Frame
<1>2. LeasesSound'
  <2>1. article.saved => \A id \in queued' : Present(id)'
    BY DEF Frame
  <2>2. article' = article
    BY DEF Frame
  <2>3. QED BY <2>1, <2>2, FrameKeepsRest DEF LeasesSound
<1>3. QED BY <1>1, <1>2, FrameKeepsHistory, FrameKeepsRest DEF IInv

(* The rest of the state, if neither Redis nor a dispatch is concerned.    *)
LEMMA QueuesKept ==
    ASSUME IInv, UNCHANGED <<queued, reclaiming>>
    PROVE  /\ queued' \in SUBSET TaskIds /\ reclaiming' \in SUBSET Snapshot
           /\ \A e \in reclaiming' : e.lease = e.attempts
           /\ article.saved => \A id \in queued' : Present(id)
  BY DEF IInv, TypeOK, LeasesSound

LEMMA FaultsCounted ==
    ASSUME IInv, Fault \/ NoFault PROVE faults' \in 0..MaxFaults
  BY VariantAssumption, SMT DEF IInv, TypeOK, Fault, NoFault

LEMMA TablesKept ==
    ASSUME IInv, UNCHANGED <<variant, task>>
    PROVE  task' \in [TaskIds -> TaskRow] /\ variant' \in [Densities -> VariantRow]
  BY DEF IInv, TypeOK

(* What a worker's lease tells it.                                         *)
LEMMA OwnerSound ==
    ASSUME IInv, NEW w \in Workers, Holds(w)
    PROVE  /\ worker[w] \in WorkerState /\ worker[w].pc # "idle"
           /\ worker[w].task \in TaskIds
           /\ worker[w].text = worker[w].source /\ worker[w].source # NoSource
           /\ Owns(w) =>
                LET t == task[worker[w].task]
                IN /\ Present(worker[w].task) /\ t.state = "RUNNING"
                   /\ t.source = worker[w].source
                   /\ t.attempts = worker[w].attempts
<1>1. worker[w] \in WorkerState /\ WorkerSound(w) /\ worker[w].pc # "idle"
  BY DEF IInv, TypeOK, WorkersSound, Holds
<1>2. worker[w].task \in TaskIds
  BY <1>1 DEF WorkerSound
<1>3. worker[w].text = worker[w].source /\ worker[w].source # NoSource
  BY <1>1 DEF WorkerSound
<1>4. ASSUME Owns(w)
      PROVE  LET t == task[worker[w].task]
             IN /\ Present(worker[w].task) /\ t.state = "RUNNING"
                /\ t.source = worker[w].source /\ t.attempts = worker[w].attempts
  <2>1. /\ task[worker[w].task].state = "RUNNING" /\ Present(worker[w].task)
        /\ task[worker[w].task].lease = worker[w].lease
    BY <1>4 DEF Owns, Present
  <2>2. task[worker[w].task].lease = task[worker[w].task].attempts
    BY <1>2, <2>1 DEF IInv, LeasesSound
  <2>3. QED BY <1>1, <2>1, <2>2 DEF WorkerSound
<1>5. QED BY <1>1, <1>2, <1>3, <1>4

(* Every row and task has an outcome that fits.                            *)
LEMMA RowsFit ==
    ASSUME IInv, NEW id \in TaskIds, Present(id)
    PROVE  /\ task[id] \in TaskRow /\ variant[id[1]] \in VariantRow
           /\ task[id].result \in {NoSource, task[id].source}
           /\ LET row == variant[id[1]]
              IN /\ row.markdown # NoSource => row.markdown = row.source
                 /\ row.state = "SUCCEEDED" => row.markdown # NoSource
                 /\ row.state # "NONE"
                 /\ id[2] = row.generation =>
                      /\ Fits(row, task[id], article.source)
                      /\ row.source = task[id].source
<1>1. id[1] \in Densities /\ id = <<id[1], id[2]>>
  BY Ids
<1>2. task[id] \in TaskRow /\ variant[id[1]] \in VariantRow
  BY <1>1 DEF IInv, TypeOK
<1>3. task[id].result \in {NoSource, task[id].source}
  BY DEF IInv, LeasesSound
<1>4. /\ variant[id[1]].markdown # NoSource =>
           variant[id[1]].markdown = variant[id[1]].source
      /\ variant[id[1]].state = "SUCCEEDED" => variant[id[1]].markdown # NoSource
      /\ variant[id[1]].state # "NONE"
  <2>1. variant[id[1]].generation # 0
    BY <1>1, NamedIsLast, SMT
  <2>2. QED BY <1>1, <2>1 DEF IInv, HistorySound, ShownFitsSource
<1>5. ASSUME id[2] = variant[id[1]].generation
      PROVE  /\ Fits(variant[id[1]], task[id], article.source)
             /\ variant[id[1]].source = task[id].source
  <2>1. id = <<id[1], variant[id[1]].generation>>
    BY <1>1, <1>5
  <2>2. Fits(variant[id[1]], task[<<id[1], variant[id[1]].generation>>], article.source)
    BY <1>1 DEF IInv, StateFitsTask, Fits
  <2>3. variant[id[1]].source = task[id].source
    BY <1>5 DEF IInv, HistorySound
  <2>4. QED BY <2>1, <2>2, <2>3
<1>6. QED BY <1>2, <1>3, <1>4, <1>5

-------------------------------------------------------------------------------
(* Steps that write no table.                                              *)

LEMMA DispatchReadKeeps == ASSUME IInv, DispatchRead PROVE IInv'
<1>1. UNCHANGED <<article, variant, task, queued, worker, faults>>
  BY DEF DispatchRead
<1>2. Frame /\ StateFitsTask'
  BY <1>1, NothingWritten
<1>3. ASSUME NEW id \in LapsedTasks
      PROVE  LET e == [id |-> id, attempts |-> task[id].attempts, lease |-> task[id].lease]
             IN e \in Snapshot /\ e.lease = e.attempts
  <2>1. id \in TaskIds /\ task[id].state = "RUNNING" /\ task[id] \in TaskRow
    BY <1>3 DEF LapsedTasks, IInv, TypeOK
  <2>2. task[id].lease = task[id].attempts
    BY <2>1 DEF IInv, LeasesSound
  <2>3. QED BY <2>1, <2>2 DEF Snapshot, TaskRow
<1>4. reclaiming' \in SUBSET Snapshot /\ \A e \in reclaiming' : e.lease = e.attempts
  BY <1>3 DEF DispatchRead, IInv, TypeOK, LeasesSound
<1>5. queued' \in SUBSET TaskIds /\ (article.saved => \A id \in queued' : Present(id))
  BY <1>1 DEF IInv, TypeOK, LeasesSound
<1>6. faults' \in 0..MaxFaults
  BY <1>1 DEF IInv, TypeOK
<1>7. QED BY <1>1, <1>2, <1>4, <1>5, <1>6, TablesKept, NobodyMoves, FrameKeeps

LEMMA DispatchAbortsKeeps ==
    ASSUME IInv, NEW e \in reclaiming, DispatchAborts(e) PROVE IInv'
<1>1. UNCHANGED <<article, variant, task, queued, worker>> /\ Fault
      /\ reclaiming' \subseteq reclaiming
  BY DEF DispatchAborts
<1>2. Frame /\ StateFitsTask'
  BY <1>1, NothingWritten
<1>3. /\ queued' \in SUBSET TaskIds /\ (article.saved => \A id \in queued' : Present(id))
      /\ reclaiming' \in SUBSET Snapshot /\ \A s \in reclaiming' : s.lease = s.attempts
  BY <1>1 DEF IInv, TypeOK, LeasesSound
<1>4. QED BY <1>1, <1>2, <1>3, FaultsCounted, TablesKept, NobodyMoves, FrameKeeps

LEMMA EnqueueKeeps ==
    ASSUME IInv, NEW id \in TaskIds, Enqueue(id) PROVE IInv'
<1>1. UNCHANGED <<article, variant, task, reclaiming, worker, faults>>
      /\ queued' = queued \cup {id} /\ Present(id)
  BY DEF Enqueue, Present
<1>2. Frame /\ StateFitsTask'
  BY <1>1, NothingWritten
<1>3. /\ queued' \in SUBSET TaskIds /\ (article.saved => \A i \in queued' : Present(i))
      /\ reclaiming' \in SUBSET Snapshot /\ \A s \in reclaiming' : s.lease = s.attempts
      /\ faults' \in 0..MaxFaults
  BY <1>1 DEF IInv, TypeOK, LeasesSound
<1>4. QED BY <1>1, <1>2, <1>3, TablesKept, NobodyMoves, FrameKeeps

LEMMA JobLostKeeps ==
    ASSUME IInv, NEW id \in TaskIds, JobLost(id) PROVE IInv'
<1>1. UNCHANGED <<article, variant, task, reclaiming, worker>> /\ Fault
      /\ queued' \subseteq queued
  BY DEF JobLost
<1>2. Frame /\ StateFitsTask'
  BY <1>1, NothingWritten
<1>3. /\ queued' \in SUBSET TaskIds /\ (article.saved => \A i \in queued' : Present(i))
      /\ reclaiming' \in SUBSET Snapshot /\ \A s \in reclaiming' : s.lease = s.attempts
  BY <1>1 DEF IInv, TypeOK, LeasesSound
<1>4. QED BY <1>1, <1>2, <1>3, FaultsCounted, TablesKept, NobodyMoves, FrameKeeps

LEMMA FetchKeeps ==
    ASSUME IInv, NEW w \in Workers, NEW id \in TaskIds, Fetch(w, id) PROVE IInv'
<1> DEFINE me == [IdleWorker EXCEPT !.pc = "read", !.task = id, !.source = task[id].source]
<1>1. UNCHANGED <<article, variant, task, queued, reclaiming, faults>>
      /\ worker' = [worker EXCEPT ![w] = me] /\ id \in queued
  BY DEF Fetch
<1>2. Frame /\ StateFitsTask'
  BY <1>1, NothingWritten
<1>3. task[id].source \in Sources
  BY DEF IInv, TypeOK, TaskRow
<1>4. /\ me \in WorkerState /\ me.pc = "read" /\ me.task = id
      /\ me.source = task[id].source /\ me.view = "none"
  BY <1>3, Defaults DEF IdleWorker, WorkerState
<1>5. article.saved => Present(id)
  BY <1>1 DEF IInv, LeasesSound
<1> HIDE DEF me
<1>6. worker'[w] = me /\ worker' \in [Workers -> WorkerState]
  BY <1>1, <1>4 DEF IInv, TypeOK
<1>7. WorkerSound(w)'
  BY <1>1, <1>4, <1>5, <1>6 DEF WorkerSound, Holds, Present
<1>8. \A v \in Workers : v # w => worker'[v] = worker[v]
  BY <1>1 DEF IInv, TypeOK
<1>9. WorkersSound'
  BY <1>2, <1>7, <1>8, OneMoves
<1>10. faults' \in 0..MaxFaults
  BY <1>1 DEF IInv, TypeOK
<1>11. QED BY <1>1, <1>2, <1>6, <1>9, <1>10, TablesKept, QueuesKept, FrameKeeps

LEMMA ClaimReadKeeps ==
    ASSUME IInv, NEW w \in Workers, ClaimRead(w) PROVE IInv'
<1> DEFINE id == worker[w].task
           view == View(id, worker[w].source)
           me == [worker[w] EXCEPT !.pc = "claim", !.text = article.source, !.view = view]
<1>1. UNCHANGED <<article, variant, task, queued, reclaiming, faults>>
      /\ worker' = [worker EXCEPT ![w] = me]
  BY DEF ClaimRead
<1>2. Frame /\ StateFitsTask'
  BY <1>1, NothingWritten
<1>3. worker[w] \in WorkerState /\ WorkerSound(w) /\ worker[w].pc = "read"
  BY DEF ClaimRead, IInv, TypeOK, WorkersSound
<1>4. /\ id \in TaskIds /\ (article.saved => Present(id))
      /\ Present(id) => worker[w].source = task[id].source
      /\ worker[w].source \in Nat
  BY <1>3, VariantAssumption, SMT DEF WorkerSound, WorkerState, Sources
<1>5. article.source \in Sources /\ view \in {"none", "fresh", "stale", "gone"}
  BY DEF IInv, TypeOK, View
<1>6. /\ me \in WorkerState /\ me.pc = "claim" /\ me.task = id
      /\ me.source = worker[w].source /\ me.view = view /\ me.text = article.source
  BY <1>3, <1>5 DEF WorkerState
<1>7. view = "fresh" => worker[w].source # NoSource /\ article.source = worker[w].source
  <2>1. ASSUME view = "fresh" PROVE worker[w].source # NoSource
    <3>1. Named(id, worker[w].source)
      BY <2>1 DEF View
    <3>2. Present(id) /\ worker[w].source = task[id].source
      BY <1>4, <3>1, Ids, Typed, SMT DEF Named, IInv, HistorySound
    <3>3. QED BY <1>4, <3>2 DEF IInv, HistorySound
  <2>2. QED BY <2>1 DEF View
<1>8. view = "stale" => worker[w].source < article.source
  <2>1. ASSUME view = "stale" PROVE worker[w].source < article.source
    <3>1. variant[id[1]].source = worker[w].source /\ article.source # worker[w].source
      BY <2>1 DEF View, Named
    <3>2. variant[id[1]].source <= article.source /\ article.source \in Nat
      BY <1>4, Ids, Typed DEF IInv, HistorySound
    <3>3. QED BY <1>4, <3>1, <3>2, SMT
  <2>2. QED BY <2>1
<1>9. view = "gone" /\ Present(id) => id[2] < variant[id[1]].generation
  <2>1. ASSUME view = "gone", Present(id) PROVE id[2] < variant[id[1]].generation
    <3>1. ~Named(id, task[id].source)
      BY <1>4, <2>1 DEF View
    <3>2. id[2] # variant[id[1]].generation /\ id[2] <= variant[id[1]].generation
      BY <1>4, <2>1, <3>1, NamedIsLast
    <3>3. id[2] \in Nat /\ variant[id[1]].generation \in Nat
      BY <1>4, Ids, Typed DEF IInv
    <3>4. QED BY <3>2, <3>3, SMT
  <2>2. QED BY <2>1
<1> HIDE DEF me, view, id
<1>10. worker'[w] = me /\ worker' \in [Workers -> WorkerState]
  BY <1>1, <1>6 DEF IInv, TypeOK
<1>11. WorkerSound(w)'
  BY <1>1, <1>4, <1>6, <1>7, <1>8, <1>9, <1>10 DEF WorkerSound, Holds, Present
<1>12. \A v \in Workers : v # w => worker'[v] = worker[v]
  BY <1>1 DEF IInv, TypeOK
<1>13. WorkersSound'
  BY <1>2, <1>11, <1>12, OneMoves
<1>14. faults' \in 0..MaxFaults
  BY <1>1 DEF IInv, TypeOK
<1>15. QED BY <1>1, <1>2, <1>10, <1>13, <1>14, TablesKept, QueuesKept, FrameKeeps

(* A worker leaves without a write, or has failed.                         *)
LEMMA LeavesKeeps ==
    ASSUME IInv, NEW w \in Workers, worker[w].pc # "idle", Goto(w, "finish"),
           UNCHANGED <<article, variant, task, queued, reclaiming>>, Fault \/ NoFault
    PROVE  IInv'
<1>1. Frame /\ StateFitsTask'
  BY NothingWritten
<1>2. QED BY <1>1, LeavesSound, FaultsCounted, TablesKept, QueuesKept, FrameKeeps

LEMMA ThrowsKeeps ==
    ASSUME IInv, NEW w \in Workers, Holds(w), NEW f \in Failure, Throw(w, f),
           UNCHANGED <<article, variant, task, queued, reclaiming>>, Fault \/ NoFault
    PROVE  IInv'
<1>1. Frame /\ StateFitsTask'
  BY NothingWritten
<1>2. QED BY <1>1, ThrowsSound, FaultsCounted, TablesKept, QueuesKept, FrameKeeps

LEMMA HeartbeatKeeps ==
    ASSUME IInv, NEW w \in Workers, Heartbeat(w) PROVE IInv'
<1> DEFINE me == [worker[w] EXCEPT !.lost = TRUE]
<1>1. /\ UNCHANGED <<article, variant, task, queued, reclaiming>>
      /\ Holds(w) /\ worker' = [worker EXCEPT ![w] = me] /\ (Fault \/ NoFault)
  BY DEF Heartbeat
<1>2. Frame /\ StateFitsTask'
  BY <1>1, NothingWritten
<1>3. worker[w] \in WorkerState /\ WorkerSound(w)
  BY DEF IInv, TypeOK, WorkersSound
<1>4. /\ me \in WorkerState /\ me.pc = worker[w].pc
      /\ me.task = worker[w].task /\ me.source = worker[w].source
      /\ me.view = worker[w].view /\ me.text = worker[w].text
      /\ me.lease = worker[w].lease /\ me.attempts = worker[w].attempts
      /\ me.markdown = worker[w].markdown
  BY <1>3 DEF WorkerState
<1>5. /\ worker[w].pc # "idle" /\ me.pc # "claim"
      /\ me.pc = "complete" => me.markdown = me.source
  BY <1>1, <1>3, <1>4 DEF Holds, WorkerSound
<1> HIDE DEF me
<1>6. WorkersSound' /\ worker' \in [Workers -> WorkerState]
  BY <1>1, <1>2, <1>4, <1>5, StaysSound
<1>7. QED BY <1>1, <1>2, <1>6, FaultsCounted, TablesKept, QueuesKept, FrameKeeps

LEMMA FinishKeeps ==
    ASSUME IInv, NEW w \in Workers, Finish(w) PROVE IInv'
<1>1. /\ UNCHANGED <<article, variant, task, reclaiming, faults>>
      /\ worker' = [worker EXCEPT ![w] = IdleWorker] /\ queued' \subseteq queued
  BY DEF Finish
<1>2. Frame /\ StateFitsTask'
  BY <1>1, NothingWritten
<1>3. /\ queued' \in SUBSET TaskIds /\ (article.saved => \A i \in queued' : Present(i))
      /\ reclaiming' \in SUBSET Snapshot /\ \A s \in reclaiming' : s.lease = s.attempts
      /\ faults' \in 0..MaxFaults
  BY <1>1 DEF IInv, TypeOK, LeasesSound
<1>4. QED BY <1>1, <1>2, <1>3, IdleSound, TablesKept, FrameKeeps

LEMMA WorkerDiesKeeps ==
    ASSUME IInv, NEW w \in Workers, WorkerDies(w) PROVE IInv'
<1>1. /\ UNCHANGED <<article, variant, task, queued, reclaiming>> /\ Fault
      /\ worker' = [worker EXCEPT ![w] = IdleWorker]
  BY DEF WorkerDies
<1>2. Frame /\ StateFitsTask'
  BY <1>1, NothingWritten
<1>3. QED BY <1>1, <1>2, IdleSound, FaultsCounted, TablesKept, QueuesKept, FrameKeeps

-------------------------------------------------------------------------------
(* Steps that write a task and, if it is named, its variant.               *)

LEMMA NamedWrite ==
    ASSUME IInv, NEW id \in TaskIds, Present(id), NEW row,
           WriteNamed(id, task[id].source, row)
    PROVE  variant' = [variant EXCEPT ![id[1]] =
             IF id[2] = variant[id[1]].generation THEN row ELSE variant[id[1]]]
<1>1. variant = [d \in Densities |-> variant[d]]
  BY DEF IInv, TypeOK
<1>2. variant = [variant EXCEPT ![id[1]] = variant[id[1]]]
  BY <1>1
<1>3. CASE id[2] = variant[id[1]].generation
  BY <1>3, NamedIsLast DEF WriteNamed
<1>4. CASE id[2] # variant[id[1]].generation
  <2>1. variant' = variant
    BY <1>4, NamedIsLast DEF WriteNamed
  <2>2. QED BY <1>2, <1>4, <2>1
<1>5. QED BY <1>3, <1>4

(* OneTaskChanges, for a row that only a task of its generation writes.    *)
LEMMA TaskAndItsVariant ==
    ASSUME IInv, NEW id \in TaskIds, Present(id), UNCHANGED article,
           NEW t \in TaskRow, task' = [task EXCEPT ![id] = t],
           NEW row \in VariantRow, WriteNamed(id, task[id].source, row),
           /\ t.source = task[id].source /\ t.requestKey = task[id].requestKey
           /\ t.state # "ABSENT"
           /\ t.state \in {"PENDING", "RUNNING"} => Live(id)
           /\ t.state = "RUNNING" => t.lease = t.attempts
           /\ t.result \in {NoSource, t.source},
           id[2] = variant[id[1]].generation =>
             /\ row.generation = variant[id[1]].generation
             /\ row.source = variant[id[1]].source
             /\ row.markdown # NoSource => row.markdown = row.source
             /\ row.state = "SUCCEEDED" => row.markdown # NoSource
             /\ row.state # "NONE" /\ Fits(row, t, article.source)
    PROVE  /\ Frame /\ StateFitsTask'
           /\ task' \in [TaskIds -> TaskRow] /\ variant' \in [Densities -> VariantRow]
<1> DEFINE new == IF id[2] = variant[id[1]].generation THEN row ELSE variant[id[1]]
<1>1. variant' = [variant EXCEPT ![id[1]] = new]
  BY NamedWrite
<1>2. /\ new \in VariantRow
      /\ new.generation = variant[id[1]].generation
      /\ new.source = variant[id[1]].source
      /\ new.markdown # NoSource => new.markdown = new.source
      /\ new.state = "SUCCEEDED" => new.markdown # NoSource
      /\ new.state # "NONE"
      /\ id[2] = new.generation => Fits(new, t, article.source)
      /\ id[2] # new.generation => new.state \in {variant[id[1]].state, "RUNNING"}
  <2>1. CASE id[2] = variant[id[1]].generation
    BY <2>1
  <2>2. CASE id[2] # variant[id[1]].generation
    BY <2>2, RowsFit
  <2>3. QED BY <2>1, <2>2
<1> HIDE DEF new
<1>3. QED BY <1>1, <1>2, OneTaskChanges

(* A task that is written alone and stays in its state.                    *)
LEMMA TaskAlone ==
    ASSUME IInv, NEW id \in TaskIds, Present(id), UNCHANGED <<article, variant>>,
           NEW t \in TaskRow, task' = [task EXCEPT ![id] = t],
           /\ t.source = task[id].source /\ t.requestKey = task[id].requestKey
           /\ t.state = task[id].state /\ t.attempts = task[id].attempts
           /\ t.lease = task[id].lease
           /\ t.result \in {NoSource, t.source}
    PROVE  /\ Frame /\ StateFitsTask'
           /\ task' \in [TaskIds -> TaskRow] /\ variant' \in [Densities -> VariantRow]
<1>1. /\ t.state # "ABSENT" /\ (t.state \in {"PENDING", "RUNNING"} => Live(id))
      /\ t.state = "RUNNING" => t.lease = t.attempts
  BY DEF Present, Live, IInv, LeasesSound
<1> DEFINE row == variant[id[1]]
<1>2. /\ row \in VariantRow
      /\ row.markdown # NoSource => row.markdown = row.source
      /\ row.state = "SUCCEEDED" => row.markdown # NoSource
      /\ row.state # "NONE"
      /\ id[2] = row.generation => Fits(row, t, article.source)
  BY RowsFit DEF Fits
<1>3. WriteNamed(id, task[id].source, row)
  <2>1. variant = [d \in Densities |-> variant[d]]
    BY DEF IInv, TypeOK
  <2>2. variant' = [variant EXCEPT ![id[1]] = row]
    BY <2>1
  <2>3. QED BY <2>2 DEF WriteNamed
<1>4. QED BY <1>1, <1>2, <1>3, TaskAndItsVariant

LEMMA ReclaimKeeps ==
    ASSUME IInv, NEW e \in reclaiming, Reclaim(e) PROVE IInv'
<1> DEFINE id == e.id
           terminal == Exhausted(e.attempts)
           t == ReclaimedTask(task[id], terminal)
           row == InterruptedVariant(variant[id[1]], terminal)
<1>1. /\ reclaiming' = reclaiming \ {e} /\ UNCHANGED <<article, queued, worker, faults>>
      /\ e \in Snapshot /\ id \in TaskIds /\ e.lease = e.attempts
  BY DEF Reclaim, IInv, TypeOK, LeasesSound, Snapshot
<1>2. /\ queued' \in SUBSET TaskIds /\ (article.saved => \A i \in queued' : Present(i))
      /\ reclaiming' \in SUBSET Snapshot /\ \A s \in reclaiming' : s.lease = s.attempts
      /\ faults' \in 0..MaxFaults
  BY <1>1 DEF IInv, TypeOK, LeasesSound
<1>3. /\ Frame /\ StateFitsTask'
      /\ task' \in [TaskIds -> TaskRow] /\ variant' \in [Densities -> VariantRow]
  <2>1. CASE task[id].state = "RUNNING" /\ task[id].lease = e.lease
    <3>1. task' = [task EXCEPT ![id] = t] /\ WriteNamed(id, task[id].source, row)
      BY <2>1 DEF Reclaim
    <3>2. Present(id) /\ task[id].attempts = e.attempts
      BY <1>1, <2>1 DEF Present, IInv, LeasesSound
    <3>3. /\ task[id] \in TaskRow /\ variant[id[1]] \in VariantRow
          /\ task[id].result \in {NoSource, task[id].source}
          /\ variant[id[1]].markdown # NoSource =>
               variant[id[1]].markdown = variant[id[1]].source
          /\ id[2] = variant[id[1]].generation =>
               variant[id[1]].source = task[id].source
      BY <1>1, <3>2, RowsFit
    <3>4. /\ t \in TaskRow /\ t.source = task[id].source
          /\ t.requestKey = task[id].requestKey /\ t.attempts = task[id].attempts
          /\ t.state = (IF terminal THEN "FAILED" ELSE "PENDING")
          /\ t.result = task[id].result
      BY <3>3, Defaults DEF ReclaimedTask, TaskRow
    <3>5. /\ row \in VariantRow /\ row.generation = variant[id[1]].generation
          /\ row.source = variant[id[1]].source
          /\ row.markdown = variant[id[1]].markdown
          /\ row.state = (IF terminal THEN "FAILED" ELSE "PENDING")
      BY <3>3 DEF InterruptedVariant, VariantRow
    <3>6. terminal <=> Exhausted(t.attempts)
      BY <3>2, <3>4
    <3> HIDE DEF t, row, terminal, id
    <3>7. id[2] = variant[id[1]].generation => Fits(row, t, article.source)
      BY <3>3, <3>4, <3>5, <3>6 DEF Fits
    <3>8. Live(id)
      BY <2>1 DEF Live
    <3>9. QED BY <1>1, <3>1, <3>2, <3>3, <3>4, <3>5, <3>7, <3>8, TaskAndItsVariant
  <2>2. CASE ~(task[id].state = "RUNNING" /\ task[id].lease = e.lease)
    <3>1. UNCHANGED <<variant, task>>
      BY <2>2 DEF Reclaim
    <3>2. QED BY <1>1, <3>1, NothingWritten, TablesKept
  <2>3. QED BY <2>1, <2>2
<1>4. QED BY <1>1, <1>2, <1>3, NobodyMoves, FrameKeeps

LEMMA ClaimWinsKeeps ==
    ASSUME IInv, NEW w \in Workers, ClaimWins(w) PROVE IInv'
<1> DEFINE id == worker[w].task
           n == task[id].attempts + 1
           t == ClaimedTask(task[id])
           row == [variant[id[1]] EXCEPT !.state = "RUNNING", !.retryAt = "null"]
           me == [worker[w] EXCEPT !.pc = FirstStep(id), !.markdown = task[id].result,
                                   !.attempts = n, !.lease = n]
<1>1. /\ UNCHANGED <<article, queued, reclaiming>>
      /\ worker[w].pc = "claim" /\ worker[w].view = "fresh" /\ Claimable(id)
      /\ task' = [task EXCEPT ![id] = t] /\ variant' = [variant EXCEPT ![id[1]] = row]
      /\ \/ worker' = [worker EXCEPT ![w] = me] /\ NoFault
         \/ Goto(w, "finish") /\ Fault
  BY DEF ClaimWins
<1>2. worker[w] \in WorkerState /\ WorkerSound(w) /\ worker[w].pc # "idle"
  BY <1>1 DEF IInv, TypeOK, WorkersSound
<1>3. id \in TaskIds /\ Present(id) /\ task[id].state = "PENDING"
  BY <1>1, <1>2 DEF WorkerSound, Claimable, Present
<1>4. /\ task[id] \in TaskRow /\ variant[id[1]] \in VariantRow
      /\ task[id].result \in {NoSource, task[id].source}
      /\ variant[id[1]].markdown # NoSource =>
           variant[id[1]].markdown = variant[id[1]].source
  BY <1>3, RowsFit
<1>5. n \in Attempts /\ task[id].attempts \in Nat
  BY <1>1, <1>3, <1>4, VariantAssumption, SMT DEF Claimable, Exhausted, Attempts, TaskRow
<1>6. /\ t \in TaskRow /\ t.source = task[id].source
      /\ t.requestKey = task[id].requestKey /\ t.attempts = n /\ t.lease = n
      /\ t.state = "RUNNING" /\ t.result = task[id].result
  BY <1>4, <1>5 DEF ClaimedTask, TaskRow
<1>7. /\ row \in VariantRow /\ row.generation = variant[id[1]].generation
      /\ row.source = variant[id[1]].source
      /\ row.markdown = variant[id[1]].markdown /\ row.state = "RUNNING"
  BY <1>4 DEF VariantRow
<1>8. /\ me \in WorkerState /\ me.task = id /\ me.source = worker[w].source
      /\ me.view = "fresh" /\ me.text = worker[w].text
      /\ me.lease = n /\ me.attempts = n /\ me.markdown = task[id].result
      /\ me.pc = FirstStep(id) /\ me.pc \in {"generating", "complete"}
  BY <1>1, <1>2, <1>4, <1>5 DEF WorkerState, FirstStep, TaskRow
<1>9. me.pc = "complete" => me.markdown = worker[w].source
  BY <1>2, <1>3, <1>4, <1>8 DEF FirstStep, WorkerSound
<1> HIDE DEF t, row, me, id, n
<1>10. /\ Frame /\ StateFitsTask'
       /\ task' \in [TaskIds -> TaskRow] /\ variant' \in [Densities -> VariantRow]
  <2>1. Live(id) /\ Fits(row, t, article.source)
    BY <1>3, <1>7 DEF Live, Fits
  <2>2. QED BY <1>1, <1>3, <1>4, <1>6, <1>7, <2>1, OneTaskChanges
<1>11. CASE worker' = [worker EXCEPT ![w] = me] /\ NoFault
  <2>1. worker'[w] = me /\ worker' \in [Workers -> WorkerState]
    BY <1>8, <1>11 DEF IInv, TypeOK
  <2>2. /\ article' = article /\ (task'[id].state # "ABSENT" <=> Present(id))
        /\ task'[id].source = task[id].source
    BY <1>3, <1>10 DEF Frame, Present
  <2>3. WorkerSound(w)'
    BY <1>1, <1>2, <1>3, <1>8, <1>9, <2>1, <2>2 DEF WorkerSound, Holds, Present, id
  <2>4. \A v \in Workers : v # w => worker'[v] = worker[v]
    BY <1>11 DEF IInv, TypeOK
  <2>5. WorkersSound'
    BY <1>10, <2>3, <2>4, OneMoves
  <2>6. QED BY <1>1, <1>10, <1>11, <2>1, <2>5, FaultsCounted, QueuesKept, FrameKeeps
<1>12. CASE Goto(w, "finish") /\ Fault
  <2>1. WorkersSound' /\ worker' \in [Workers -> WorkerState]
    BY <1>2, <1>10, <1>12, LeavesSound
  <2>2. QED BY <1>1, <1>10, <1>12, <2>1, FaultsCounted, QueuesKept, FrameKeeps
<1>13. QED BY <1>1, <1>11, <1>12

(* A stale job retires its task; if it still names the variant, its source *)
(* is no longer the article's, and if it does not, neither does the task.  *)
LEMMA ClaimRetiresKeeps ==
    ASSUME IInv, NEW w \in Workers, ClaimRetires(w) PROVE IInv'
<1> DEFINE id == worker[w].task
           view == worker[w].view
           t == RetiredTask(task[id])
           row == IF view = "gone" THEN variant[id[1]]
                  ELSE [variant[id[1]] EXCEPT !.state = "FAILED"]
<1>1. /\ UNCHANGED <<article, queued, reclaiming, faults>>
      /\ worker[w].pc = "claim" /\ view \in {"stale", "gone"}
      /\ task' = [task EXCEPT ![id] = t] /\ Goto(w, "finish")
      /\ view = "gone" => UNCHANGED variant
      /\ view # "gone" => WriteNamed(id, worker[w].source, row)
  BY DEF ClaimRetires
<1>2. worker[w] \in WorkerState /\ WorkerSound(w) /\ worker[w].pc # "idle"
  BY <1>1 DEF IInv, TypeOK, WorkersSound
<1>3. id \in TaskIds /\ id[1] \in Densities
  BY <1>2, Ids DEF WorkerSound
<1>4. CASE ~Present(id)
  <2>1. task' = task
    <3>1. t = task[id]
      BY <1>4 DEF RetiredTask, Present
    <3>2. task = [i \in TaskIds |-> task[i]]
      BY DEF IInv, TypeOK
    <3>3. QED BY <1>1, <3>1, <3>2
  <2>2. variant' = variant
    <3>1. CASE view = "gone"
      BY <1>1, <3>1
    <3>2. CASE view # "gone"
      <4>1. ~Named(id, worker[w].source)
        BY <1>3, <1>4, Ids, Typed, SMT DEF Named, IInv, HistorySound
      <4>2. QED BY <1>1, <3>2, <4>1 DEF WriteNamed
    <3>3. QED BY <3>1, <3>2
  <2>3. NoFault
    BY <1>1 DEF NoFault
  <2>4. QED BY <1>1, <1>2, <2>1, <2>2, <2>3, LeavesKeeps
<1>5. CASE Present(id)
  <2>1. /\ task[id] \in TaskRow /\ variant[id[1]] \in VariantRow
        /\ task[id].result \in {NoSource, task[id].source}
        /\ variant[id[1]].markdown # NoSource =>
             variant[id[1]].markdown = variant[id[1]].source
        /\ variant[id[1]].state = "SUCCEEDED" => variant[id[1]].markdown # NoSource
        /\ variant[id[1]].state # "NONE"
        /\ id[2] = variant[id[1]].generation =>
             /\ variant[id[1]].source = task[id].source
             /\ Fits(variant[id[1]], task[id], article.source)
    BY <1>3, <1>5, RowsFit
  <2>2. /\ t \in TaskRow /\ t.source = task[id].source
        /\ t.requestKey = task[id].requestKey /\ t.attempts = task[id].attempts
        /\ t.lease = task[id].lease /\ t.result = task[id].result
        /\ t.state = (IF task[id].state = "PENDING" THEN "FAILED" ELSE task[id].state)
    BY <2>1 DEF RetiredTask, TaskRow
  <2>3. /\ row \in VariantRow /\ row.generation = variant[id[1]].generation
        /\ row.source = variant[id[1]].source
        /\ row.markdown = variant[id[1]].markdown
        /\ row.state = (IF view = "gone" THEN variant[id[1]].state ELSE "FAILED")
    BY <2>1 DEF VariantRow
  <2>4. worker[w].source = task[id].source
    BY <1>1, <1>2, <1>5 DEF WorkerSound
  <2>5. view # "gone" => task[id].source < article.source
    BY <1>1, <1>2, <1>5, <2>4 DEF WorkerSound
  <2>6. view = "gone" => id[2] # variant[id[1]].generation
    <3>1. id[2] \in Nat
      BY <1>3, Ids
    <3>2. QED BY <1>1, <1>2, <1>5, <3>1, SMT DEF WorkerSound
  <2>7. id[2] = variant[id[1]].generation => Fits(row, t, article.source)
    <3>1. task[id].source \in Nat /\ article.source \in Nat
      BY <1>3, Typed DEF IInv
    <3>2. task[id].source < article.source => task[id].source # article.source
      BY <3>1, SMT
    <3>3. QED BY <2>1, <2>3, <2>5, <2>6, <3>2 DEF Fits
  <2>8. WriteNamed(id, task[id].source, row)
    <3>1. CASE view = "gone"
      <4>1. row = variant[id[1]] /\ variant' = variant
        BY <1>1, <3>1
      <4>2. variant = [variant EXCEPT ![id[1]] = variant[id[1]]]
        BY DEF IInv, TypeOK
      <4>3. QED BY <4>1, <4>2 DEF WriteNamed
    <3>2. CASE view # "gone"
      BY <1>1, <2>4, <3>2
    <3>3. QED BY <3>1, <3>2
  <2>9. /\ t.state # "ABSENT" /\ (t.state \in {"PENDING", "RUNNING"} => Live(id))
        /\ t.state = "RUNNING" => t.lease = t.attempts
    BY <1>3, <1>5, <2>2 DEF Present, Live, IInv, LeasesSound
  <2> HIDE DEF t, row, id, view
  <2>10. /\ Frame /\ StateFitsTask'
         /\ task' \in [TaskIds -> TaskRow] /\ variant' \in [Densities -> VariantRow]
    <3>1. row.state # "SUCCEEDED" \/ row.state = variant[id[1]].state
      BY <2>3
    <3>2. QED BY <1>1, <1>3, <1>5, <2>1, <2>2, <2>3, <2>7, <2>8, <2>9, <3>1,
                 TaskAndItsVariant
  <2>11. Fault \/ NoFault
    BY <1>1 DEF NoFault
  <2>12. WorkersSound' /\ worker' \in [Workers -> WorkerState]
    BY <1>1, <1>2, <2>10, LeavesSound
  <2>13. QED BY <1>1, <2>10, <2>11, <2>12, FaultsCounted, QueuesKept, FrameKeeps
<1>6. QED BY <1>4, <1>5

LEMMA CheckpointKeeps ==
    ASSUME IInv, NEW w \in Workers, Checkpoint(w) PROVE IInv'
<1> DEFINE id == worker[w].task
           text == worker[w].text
           t == [task[id] EXCEPT !.result = text]
           me == [worker[w] EXCEPT !.pc = "complete", !.markdown = text]
<1>1. /\ UNCHANGED <<article, variant, queued, reclaiming>> /\ worker[w].pc = "generating"
      /\ \/ /\ Owns(w) /\ task' = [task EXCEPT ![id] = t]
            /\ \/ worker' = [worker EXCEPT ![w] = me] /\ NoFault
               \/ Throw(w, PersistenceFailed) /\ Fault
         \/ ~Owns(w) /\ Goto(w, "finish") /\ UNCHANGED <<task, faults>>
  BY DEF Checkpoint
<1>2. Holds(w)
  BY <1>1 DEF Holds
<1>3. /\ worker[w] \in WorkerState /\ worker[w].pc # "idle" /\ id \in TaskIds
      /\ text = worker[w].source
      /\ Owns(w) => Present(id) /\ task[id].source = worker[w].source
  BY <1>2, OwnerSound
<1>4. CASE ~Owns(w)
  BY <1>1, <1>3, <1>4, LeavesKeeps DEF NoFault
<1>5. CASE Owns(w)
  <2>1. /\ task[id] \in TaskRow /\ text \in Sources
    BY <1>3 DEF IInv, TypeOK, WorkerState
  <2>2. /\ t \in TaskRow /\ t.source = task[id].source
        /\ t.requestKey = task[id].requestKey /\ t.attempts = task[id].attempts
        /\ t.lease = task[id].lease /\ t.state = task[id].state /\ t.result = text
    BY <2>1 DEF TaskRow
  <2>3. /\ me \in WorkerState /\ me.task = id /\ me.source = worker[w].source
        /\ me.view = worker[w].view /\ me.text = worker[w].text
        /\ me.lease = worker[w].lease /\ me.attempts = worker[w].attempts
        /\ me.markdown = me.source /\ me.pc = "complete"
    BY <1>3, <2>1 DEF WorkerState
  <2> HIDE DEF t, me, id, text
  <2>4. /\ Frame /\ StateFitsTask'
        /\ task' \in [TaskIds -> TaskRow] /\ variant' \in [Densities -> VariantRow]
    BY <1>1, <1>3, <1>5, <2>2, TaskAlone
  <2>5. PersistenceFailed \in Failure
    BY DEF PersistenceFailed, Failure
  <2>6. WorkersSound' /\ worker' \in [Workers -> WorkerState]
    <3>1. CASE worker' = [worker EXCEPT ![w] = me]
      BY <1>2, <1>3, <2>3, <2>4, <3>1, StaysSound DEF id
    <3>2. CASE Throw(w, PersistenceFailed)
      BY <1>2, <2>4, <2>5, <3>2, ThrowsSound
    <3>3. QED BY <1>1, <1>5, <3>1, <3>2
  <2>7. QED BY <1>1, <1>5, <2>4, <2>6, FaultsCounted, QueuesKept, FrameKeeps
<1>6. QED BY <1>4, <1>5

LEMMA CompleteKeeps ==
    ASSUME IInv, NEW w \in Workers, Complete(w) PROVE IInv'
<1> DEFINE id == worker[w].task
           t == SucceededTask(task[id])
           row == [variant[id[1]] EXCEPT !.state = "SUCCEEDED", !.retryAt = "null",
                                         !.markdown = worker[w].markdown]
<1>1. /\ UNCHANGED <<article, queued, reclaiming>> /\ worker[w].pc = "complete" /\ Owns(w)
      /\ task' = [task EXCEPT ![id] = t] /\ WriteNamed(id, worker[w].source, row)
      /\ \/ Goto(w, "finish") /\ NoFault
         \/ Throw(w, PersistenceFailed) /\ Fault
  BY DEF Complete
<1>2. Holds(w) /\ WorkerSound(w)
  BY <1>1 DEF Holds, IInv, WorkersSound
<1>3. /\ worker[w] \in WorkerState /\ worker[w].pc # "idle" /\ id \in TaskIds
      /\ worker[w].source # NoSource
      /\ Present(id) /\ task[id].source = worker[w].source
  BY <1>1, <1>2, OwnerSound
<1>4. worker[w].markdown = worker[w].source /\ worker[w].markdown \in Sources
  BY <1>1, <1>2, <1>3 DEF WorkerSound, WorkerState
<1>5. /\ task[id] \in TaskRow /\ variant[id[1]] \in VariantRow
      /\ id[2] = variant[id[1]].generation => variant[id[1]].source = task[id].source
  BY <1>3, RowsFit
<1>6. /\ t \in TaskRow /\ t.source = task[id].source
      /\ t.requestKey = task[id].requestKey /\ t.state = "SUCCEEDED"
      /\ t.result = NoSource
  BY <1>5, Defaults DEF SucceededTask, TaskRow
<1>7. /\ row \in VariantRow /\ row.generation = variant[id[1]].generation
      /\ row.source = variant[id[1]].source
      /\ row.markdown = worker[w].markdown /\ row.state = "SUCCEEDED"
  BY <1>4, <1>5 DEF VariantRow
<1> HIDE DEF t, row, id
<1>8. /\ Frame /\ StateFitsTask'
      /\ task' \in [TaskIds -> TaskRow] /\ variant' \in [Densities -> VariantRow]
  <2>1. Fits(row, t, article.source)
    BY <1>6, <1>7 DEF Fits
  <2>2. id[2] = variant[id[1]].generation => row.markdown = row.source
    BY <1>3, <1>4, <1>5, <1>7
  <2>3. QED BY <1>1, <1>3, <1>4, <1>6, <1>7, <2>1, <2>2, TaskAndItsVariant
<1>9. PersistenceFailed \in Failure
  BY DEF PersistenceFailed, Failure
<1>10. WorkersSound' /\ worker' \in [Workers -> WorkerState]
  BY <1>1, <1>2, <1>3, <1>8, <1>9, LeavesSound, ThrowsSound
<1>11. QED BY <1>1, <1>8, <1>10, FaultsCounted, QueuesKept, FrameKeeps

LEMMA FailKeeps ==
    ASSUME IInv, NEW w \in Workers, Fail(w) PROVE IInv'
<1> DEFINE id == worker[w].task
           wait == worker[w].failure.wait
           retry == worker[w].failure.retryable /\ ~Exhausted(worker[w].attempts)
           t == FailedTask(task[id], retry)
           row == FailedVariant(variant[id[1]], retry, wait)
<1>1. /\ UNCHANGED <<article, queued, reclaiming, faults>> /\ worker[w].pc = "failing"
      /\ Goto(w, "finish")
      /\ \/ UNCHANGED <<variant, task>>
         \/ /\ Owns(w) /\ task' = [task EXCEPT ![id] = t]
            /\ WriteNamed(id, worker[w].source, row)
  BY DEF Fail
<1>2. Holds(w)
  BY <1>1 DEF Holds
<1>3. /\ worker[w] \in WorkerState /\ worker[w].pc # "idle" /\ id \in TaskIds
      /\ Owns(w) => /\ Present(id) /\ task[id].source = worker[w].source
                    /\ task[id].attempts = worker[w].attempts
                    /\ task[id].state = "RUNNING"
  BY <1>2, OwnerSound
<1>4. NoFault
  BY <1>1 DEF NoFault
<1>5. CASE UNCHANGED <<variant, task>>
  BY <1>1, <1>3, <1>4, <1>5, LeavesKeeps
<1>6. CASE Owns(w) /\ task' = [task EXCEPT ![id] = t] /\ WriteNamed(id, worker[w].source, row)
  <2>1. /\ task[id] \in TaskRow /\ variant[id[1]] \in VariantRow
        /\ task[id].result \in {NoSource, task[id].source}
        /\ variant[id[1]].markdown # NoSource =>
             variant[id[1]].markdown = variant[id[1]].source
        /\ id[2] = variant[id[1]].generation => variant[id[1]].source = task[id].source
    BY <1>3, <1>6, RowsFit
  <2>2. /\ t \in TaskRow /\ t.source = task[id].source
        /\ t.requestKey = task[id].requestKey /\ t.attempts = task[id].attempts
        /\ t.state = (IF retry THEN "PENDING" ELSE "FAILED")
        /\ t.result \in {NoSource, task[id].source}
    BY <2>1, Defaults DEF FailedTask, TaskRow
  <2>3. /\ row \in VariantRow /\ row.generation = variant[id[1]].generation
        /\ row.source = variant[id[1]].source
        /\ row.markdown = variant[id[1]].markdown
        /\ row.state = (IF retry THEN "PENDING" ELSE "FAILED")
    BY <2>1 DEF FailedVariant, VariantRow
  <2>4. retry => ~Exhausted(t.attempts)
    BY <1>3, <1>6, <2>2
  <2> HIDE DEF t, row, retry, wait, id
  <2>5. id[2] = variant[id[1]].generation => Fits(row, t, article.source)
    BY <2>1, <2>2, <2>3, <2>4 DEF Fits
  <2>6. /\ Frame /\ StateFitsTask'
        /\ task' \in [TaskIds -> TaskRow] /\ variant' \in [Densities -> VariantRow]
    <3>1. Live(id)
      BY <1>3, <1>6 DEF Live
    <3>2. QED BY <1>1, <1>3, <1>6, <2>1, <2>2, <2>3, <2>5, <3>1, TaskAndItsVariant
  <2>7. WorkersSound' /\ worker' \in [Workers -> WorkerState]
    BY <1>1, <1>3, <2>6, LeavesSound
  <2>8. QED BY <1>1, <1>4, <2>6, <2>7, FaultsCounted, QueuesKept, FrameKeeps
<1>7. QED BY <1>1, <1>5, <1>6

LEMMA LeaseLapsesKeeps ==
    ASSUME IInv, NEW id \in TaskIds, LeaseLapses(id) PROVE IInv'
<1> DEFINE t == [task[id] EXCEPT !.lapsed = TRUE]
<1>1. /\ UNCHANGED <<article, variant, queued, reclaiming, worker, faults>>
      /\ task' = [task EXCEPT ![id] = t] /\ Present(id)
  BY DEF LeaseLapses, Present
<1>2. task[id] \in TaskRow /\ task[id].result \in {NoSource, task[id].source}
  BY DEF IInv, TypeOK, LeasesSound
<1>3. /\ t \in TaskRow /\ t.source = task[id].source
      /\ t.requestKey = task[id].requestKey /\ t.attempts = task[id].attempts
      /\ t.lease = task[id].lease /\ t.state = task[id].state
      /\ t.result = task[id].result
  BY <1>2 DEF TaskRow
<1> HIDE DEF t
<1>4. /\ Frame /\ StateFitsTask'
      /\ task' \in [TaskIds -> TaskRow] /\ variant' \in [Densities -> VariantRow]
  BY <1>1, <1>2, <1>3, TaskAlone
<1>5. Fault \/ NoFault
  BY <1>1 DEF NoFault
<1>6. QED BY <1>1, <1>4, <1>5, NobodyMoves, FaultsCounted, QueuesKept, FrameKeeps

LEMMA DelayPassesKeeps ==
    ASSUME IInv, NEW id \in TaskIds, DelayPasses(id) PROVE IInv'
<1> DEFINE t == [task[id] EXCEPT !.due = TRUE]
           row == [variant[id[1]] EXCEPT !.retryAt = IF @ = "ahead" THEN "passed" ELSE @]
<1>1. /\ UNCHANGED <<article, queued, reclaiming, worker, faults>>
      /\ task' = [task EXCEPT ![id] = t] /\ Present(id)
      /\ WriteNamed(id, task[id].source, row)
  BY DEF DelayPasses, Present
<1>2. /\ task[id] \in TaskRow /\ variant[id[1]] \in VariantRow
      /\ task[id].result \in {NoSource, task[id].source}
      /\ variant[id[1]].markdown # NoSource =>
           variant[id[1]].markdown = variant[id[1]].source
      /\ variant[id[1]].state = "SUCCEEDED" => variant[id[1]].markdown # NoSource
      /\ variant[id[1]].state # "NONE"
      /\ id[2] = variant[id[1]].generation =>
           Fits(variant[id[1]], task[id], article.source)
  BY <1>1, RowsFit
<1>3. /\ t \in TaskRow /\ t.source = task[id].source
      /\ t.requestKey = task[id].requestKey /\ t.attempts = task[id].attempts
      /\ t.lease = task[id].lease /\ t.state = task[id].state
      /\ t.result = task[id].result
  BY <1>2 DEF TaskRow
<1>4. /\ row \in VariantRow /\ row.generation = variant[id[1]].generation
      /\ row.source = variant[id[1]].source
      /\ row.markdown = variant[id[1]].markdown /\ row.state = variant[id[1]].state
  BY <1>2 DEF VariantRow
<1> HIDE DEF t, row
<1>5. id[2] = variant[id[1]].generation => Fits(row, t, article.source)
  BY <1>2, <1>3, <1>4 DEF Fits
<1>6. /\ t.state # "ABSENT" /\ (t.state \in {"PENDING", "RUNNING"} => Live(id))
      /\ t.state = "RUNNING" => t.lease = t.attempts
  BY <1>1, <1>3 DEF Present, Live, IInv, LeasesSound
<1>7. /\ Frame /\ StateFitsTask'
      /\ task' \in [TaskIds -> TaskRow] /\ variant' \in [Densities -> VariantRow]
  BY <1>1, <1>2, <1>3, <1>4, <1>5, <1>6, TaskAndItsVariant
<1>8. Fault \/ NoFault
  BY <1>1 DEF NoFault
<1>9. QED BY <1>1, <1>7, <1>8, NobodyMoves, FaultsCounted, QueuesKept, FrameKeeps

-------------------------------------------------------------------------------
(* Requests, publications and removals.                                    *)

LEMMA PublishSourceKeeps == ASSUME IInv, PublishSource PROVE IInv'
<1>1. /\ UNCHANGED <<variant, task, queued, reclaiming, worker, faults>>
      /\ article.source < MaxSource /\ article.saved
      /\ article' = [article EXCEPT !.source = @ + 1]
  BY DEF PublishSource
<1>2. article \in [saved : BOOLEAN, source : Sources] /\ article.source \in Nat
  BY Typed DEF IInv, TypeOK
<1>3. /\ article' \in [saved : BOOLEAN, source : Sources]
      /\ article'.saved = article.saved /\ article'.source = article.source + 1
      /\ article.source < article'.source /\ article'.source \in Nat
  <2>1. article'.saved = article.saved /\ article'.source = article.source + 1
    BY <1>1, <1>2
  <2>2. /\ article.source + 1 \in Sources /\ article.source + 1 \in Nat
        /\ article.source < article.source + 1
    BY <1>1, <1>2, VariantAssumption, SMT DEF Sources
  <2>3. QED BY <1>1, <1>2, <2>1, <2>2
<1>4. \A n \in Nat : /\ n <= article.source => n < article'.source
                     /\ n < article.source => n < article'.source
                     /\ n < article'.source => n # article'.source /\ n <= article'.source
  BY <1>2, <1>3, SMT
<1>5. TypeOK'
  BY <1>1, <1>3 DEF IInv, TypeOK
<1>6. \A d \in Densities : variant[d].source < article'.source
  BY <1>4, Typed DEF IInv, HistorySound
<1>7. HistorySound'
  <2>1. \A d \in Densities : variant[d].source <= article'.source
    BY <1>4, <1>6, Typed DEF IInv
  <2>2. QED BY <1>1, <2>1 DEF IInv, HistorySound, Present
<1>8. LastLives' /\ LeasesSound' /\ ShownFitsSource' /\ KeysAreUnique'
  BY <1>1, <1>3
     DEF IInv, LastLives, LeasesSound, ShownFitsSource, KeysAreUnique, Present, Live
<1>9. StateFitsTask'
  <2>1. \A d \in Densities : variant[d].source # article'.source
    BY <1>4, <1>6, Typed DEF IInv
  <2>2. QED BY <1>1, <2>1 DEF IInv, StateFitsTask
<1>10. WorkersSound'
  <2> SUFFICES ASSUME NEW w \in Workers PROVE WorkerSound(w)'
    BY DEF WorkersSound
  <2>1. WorkerSound(w) /\ worker[w] \in WorkerState
    BY DEF IInv, TypeOK, WorkersSound
  <2>2. worker[w].source \in Nat
    BY <2>1, VariantAssumption, SMT DEF WorkerState, Sources
  <2>3. worker[w].source < article.source => worker[w].source < article'.source
    BY <1>4, <2>2
  <2>4. QED BY <1>1, <1>3, <2>1, <2>3 DEF WorkerSound, Holds, Present
<1>11. QED BY <1>5, <1>7, <1>8, <1>9, <1>10 DEF IInv

LEMMA RemoveKeeps == ASSUME IInv, Remove PROVE IInv'
<1>1. /\ article' = [saved |-> FALSE, source |-> NoSource]
      /\ variant' = [d \in Densities |-> NoVariant] /\ task' = [id \in TaskIds |-> NoTask]
      /\ UNCHANGED <<queued, reclaiming, worker, faults>>
  BY DEF Remove
<1>2. /\ \A d \in Densities : variant'[d] = NoVariant
      /\ \A id \in TaskIds : task'[id] = NoTask /\ ~Present(id)'
      /\ \A id \in TaskIds : ~(id[2] <= 0) /\ id[2] # 0
      /\ article'.source = 0 /\ ~article'.saved
  <2>1. \A id \in TaskIds : ~(id[2] <= 0) /\ id[2] # 0
    BY Ids, SMT
  <2>2. \A id \in TaskIds : task'[id] = NoTask /\ task'[id].state = "ABSENT"
    BY <1>1 DEF NoTask
  <2>3. QED BY <1>1, <2>1, <2>2 DEF Present, NoSource
<1>3. TypeOK'
  BY <1>1, Defaults DEF IInv, TypeOK
<1>4. HistorySound' /\ LastLives' /\ ShownFitsSource' /\ KeysAreUnique'
  <2>1. ShownFitsSource' /\ KeysAreUnique' /\ LastLives'
    BY <1>2 DEF ShownFitsSource, KeysAreUnique, LastLives, NoVariant, NoTask, Present, Live
  <2>2. \A d \in Densities : variant'[d].source = 0 /\ variant'[d].generation = 0
    BY <1>2 DEF NoVariant, NoSource
  <2>3. \A id \in TaskIds : id[1] \in Densities
    BY Ids
  <2>4. HistorySound'
    BY <1>2, <2>2, <2>3, SMT DEF HistorySound
  <2>5. QED BY <2>1, <2>4
<1>5. LeasesSound'
  BY <1>1, <1>2 DEF IInv, LeasesSound, NoTask
<1>6. StateFitsTask'
  BY <1>2 DEF StateFitsTask, NoVariant
<1>7. WorkersSound'
  BY <1>1, <1>2 DEF IInv, WorkersSound, WorkerSound, Holds
<1>8. QED BY <1>3, <1>4, <1>5, <1>6, <1>7 DEF IInv

(* A request is accepted when the last task has another source, or has     *)
(* ended with all before it of its source.                                 *)
LEMMA RequestKeeps ==
    ASSUME IInv, NEW d \in Densities, NEW key \in Keys \cup {NoKey}, Request(d, key)
    PROVE  IInv'
<1> DEFINE next == variant[d].generation + 1
           id == <<d, next>>
           row == [generation |-> next, source |-> article.source, state |-> "PENDING",
                   markdown |-> NoSource, retryAt |-> "null"]
           t == NewTask(article.source, TaskKey(d, key))
<1>1. /\ UNCHANGED <<article, queued, reclaiming, worker, faults>>
      /\ article.saved /\ article.source # NoSource
      /\ ~Refused(d, key) /\ next <= MaxGeneration
      /\ variant' = [variant EXCEPT ![d] = row] /\ task' = [task EXCEPT ![id] = t]
  BY DEF Request
<1>2. /\ next \in 1..MaxGeneration /\ next \in 0..MaxGeneration /\ next \in Nat
      /\ variant[d].generation \in Nat /\ variant[d].generation < next
      /\ \A g \in Nat : g <= next <=> g <= variant[d].generation \/ g = next
  BY <1>1, Typed, VariantAssumption, SMT DEF IInv
<1>3. id \in TaskIds /\ id[1] = d /\ id[2] = next
  BY <1>2, Ids
<1>4. /\ TaskKey(d, key) \in Keys \cup {NoKey}
      /\ article.source \in Sources /\ article.source \in Nat
  BY Typed DEF TaskKey, IInv, TypeOK
<1>5. /\ row \in VariantRow /\ row.generation = next /\ row.source = article.source
      /\ row.state = "PENDING" /\ row.markdown = NoSource
  BY <1>2, <1>4, Defaults DEF VariantRow
<1>6. /\ t \in TaskRow /\ t.source = article.source /\ t.requestKey = TaskKey(d, key)
      /\ t.state = "PENDING" /\ t.attempts = 0 /\ t.result = NoSource
  BY <1>4, Defaults DEF NewTask, NoTask, TaskRow
<1>7. ~Present(id)
  BY <1>2, <1>3, SMT DEF IInv, HistorySound
<1> HIDE DEF next, id, row, t
<1>8. /\ \A i \in TaskIds : task'[i] = IF i = id THEN t ELSE task[i]
      /\ \A e \in Densities : variant'[e] = IF e = d THEN row ELSE variant[e]
      /\ task' \in [TaskIds -> TaskRow] /\ variant' \in [Densities -> VariantRow]
  BY <1>1, <1>3, <1>5, <1>6 DEF IInv, TypeOK
<1>9. TypeOK'
  BY <1>1, <1>8 DEF IInv, TypeOK
<1>10. \A i \in TaskIds : Present(i)' <=> Present(i) \/ i = id
  BY <1>6, <1>8 DEF Present
<1>11. \A i \in TaskIds : i[1] = d /\ Present(i) =>
          /\ i[2] <= variant[d].generation /\ i[2] < next
          /\ task[i].source <= variant[d].source
          /\ variant[d].source <= article.source
  <2> TAKE i \in TaskIds
  <2> HAVE i[1] = d /\ Present(i)
  <2>1. i[2] <= variant[d].generation /\ variant[d].source <= article.source
    BY DEF IInv, HistorySound
  <2>2. i[2] < next /\ i[2] \in Nat /\ variant[d].generation \in 1..MaxGeneration
    BY <1>2, <2>1, Ids, Typed, SMT DEF IInv
  <2> DEFINE last == <<d, variant[d].generation>>
  <2>3. last \in TaskIds /\ last[1] = d /\ last[2] = variant[d].generation
    BY <2>2, Ids
  <2> HIDE DEF last
  <2>4. Present(last) /\ task[last].source = variant[d].source
    BY <1>2, <2>3, SMT DEF IInv, HistorySound
  <2>5. task[i].source <= task[last].source
    BY <2>1, <2>3, <2>4 DEF IInv, HistorySound
  <2>6. QED BY <2>1, <2>2, <2>4, <2>5
<1>12. \A i \in TaskIds : i[1] = d /\ Present(i) =>
          task[i].source \in Nat /\ task[i].source <= article.source
  <2> TAKE i \in TaskIds
  <2> HAVE i[1] = d /\ Present(i)
  <2>1. task[i].source <= variant[d].source /\ variant[d].source <= article.source
    BY <1>11
  <2>2. task[i].source \in Nat /\ variant[d].source \in Nat
    BY Typed DEF IInv
  <2>3. QED BY <1>4, <2>1, <2>2, SMT
<1>13. HistorySound'
  <2>1. ASSUME NEW e \in Densities
        PROVE  /\ variant'[e].source <= article'.source
               /\ variant'[e].generation = 0 => variant'[e] = NoVariant
               /\ variant'[e].generation # 0 => variant'[e].state # "NONE"
    BY <1>1, <1>2, <1>4, <1>5, <1>8, SMT DEF IInv, HistorySound
  <2>2. ASSUME NEW i \in TaskIds
        PROVE  /\ Present(i)' <=> i[2] <= variant'[i[1]].generation
               /\ Present(i)' => task'[i].source # NoSource
               /\ i[2] = variant'[i[1]].generation =>
                    task'[i].source = variant'[i[1]].source
    <3>1. /\ i[1] \in Densities /\ i[2] \in Nat
          /\ i = id <=> i[1] = d /\ i[2] = next
          /\ Present(i) <=> i[2] <= variant[i[1]].generation
          /\ Present(i) => task[i].source # NoSource
          /\ i[2] = variant[i[1]].generation => task[i].source = variant[i[1]].source
      BY <1>3, Ids DEF IInv, HistorySound
    <3>2. CASE i[1] = d
      BY <1>1, <1>2, <1>5, <1>6, <1>8, <1>10, <3>1, <3>2
    <3>3. CASE i[1] # d
      BY <1>8, <1>10, <3>1, <3>3
    <3>4. QED BY <3>2, <3>3
  <2>3. ASSUME NEW i \in TaskIds, NEW j \in TaskIds,
               i[1] = j[1], i[2] <= j[2], Present(j)'
        PROVE  task'[i].source <= task'[j].source
    <3>1. CASE j = id
      <4>1. CASE i = id
        BY <1>4, <1>6, <1>8, <3>1, <4>1, SMT
      <4>2. CASE i # id
        <5>1. i[1] = d /\ Present(i)
          BY <1>2, <1>3, <2>3, <3>1, <4>2, Ids DEF IInv, HistorySound
        <5>2. QED BY <1>6, <1>8, <1>12, <3>1, <4>2, <5>1
      <4>3. QED BY <4>1, <4>2
    <3>2. CASE j # id
      <4>1. Present(j)
        BY <1>10, <2>3, <3>2
      <4>2. i # id
        <5>1. ASSUME i = id PROVE FALSE
          <6>1. j[1] = d /\ next <= j[2] /\ j[2] < next
            BY <1>3, <1>11, <2>3, <4>1, <5>1
          <6>2. QED BY <1>2, <6>1, Ids, SMT
        <5>2. QED BY <5>1
      <4>3. QED BY <1>8, <2>3, <3>2, <4>1, <4>2 DEF IInv, HistorySound
    <3>3. QED BY <3>1, <3>2
  <2>4. QED BY <2>1, <2>2, <2>3 DEF HistorySound
<1>14. \A i \in TaskIds : i[1] = d /\ Present(i) /\ Live(i) =>
          task[i].source # article.source
  <2> SUFFICES ASSUME NEW i \in TaskIds, i[1] = d, Present(i), Live(i),
                      task[i].source = article.source
               PROVE  FALSE
    OBVIOUS
  <2>1. /\ i[2] <= variant[d].generation /\ i[2] \in Nat /\ i[2] # 0
        /\ task[i].source <= variant[d].source /\ variant[d].source <= article.source
    BY <1>11, Ids, SMT
  <2>2. variant[d].source = article.source /\ variant[d].generation > 0
    BY <1>2, <1>4, <2>1, Typed, SMT DEF IInv
  <2>3. Current(d)
    BY <2>2 DEF Current
  <2>4. variant[d].state \notin {"SUCCEEDED", "PENDING", "RUNNING"}
    BY <1>1, <2>3 DEF Refused
  <2> DEFINE last == <<d, variant[d].generation>>
  <2>5. last \in TaskIds /\ last[1] = d /\ last[2] = variant[d].generation
    <3>1. variant[d].generation \in 1..MaxGeneration
      BY <2>2, Typed, SMT DEF IInv
    <3>2. QED BY <3>1, Ids
  <2>6. Fits(variant[d], task[last], article.source)
    BY DEF IInv, StateFitsTask, Fits
  <2> HIDE DEF last
  <2>7. variant[d].state = "FAILED"
    <3>1. variant[d] \in VariantRow /\ variant[d].generation # 0
      BY <2>2, SMT DEF IInv, TypeOK
    <3>2. variant[d].state # "NONE"
      BY <3>1 DEF IInv, HistorySound
    <3>3. QED BY <2>4, <3>1, <3>2 DEF VariantRow
  <2>8. ~Live(last)
    BY <2>2, <2>6, <2>7 DEF Fits, Live
  <2>9. Present(last) /\ task[last].source = variant[d].source
    BY <1>2, <2>5, SMT DEF IInv, HistorySound
  <2>10. i # last
    BY <2>8
  <2>11. i[2] < last[2]
    BY <1>2, <2>1, <2>5, <2>10, Ids, SMT
  <2>12. QED BY <2>2, <2>5, <2>9, <2>11 DEF IInv, LastLives
<1>15. LastLives'
  <2> SUFFICES ASSUME NEW i \in TaskIds, NEW j \in TaskIds, i[1] = j[1], i[2] < j[2],
                      Present(j)', Live(i)'
               PROVE  task'[i].source # task'[j].source
    BY DEF LastLives
  <2>1. CASE j = id
    <3>1. i # id /\ i[1] = d /\ Present(i)
      <4>1. i # id
        BY <2>1, Ids, SMT
      <4>2. i[2] <= variant[d].generation
        BY <1>2, <1>3, <2>1, Ids, SMT
      <4>3. QED BY <1>3, <2>1, <4>1, <4>2 DEF IInv, HistorySound
    <3>2. Live(i)
      BY <1>8, <3>1 DEF Live
    <3>3. QED BY <1>6, <1>8, <1>14, <2>1, <3>1, <3>2
  <2>2. CASE j # id
    <3>1. Present(j)
      BY <1>10, <2>2
    <3>2. i # id
      <4>1. ASSUME i = id PROVE FALSE
        <5>1. j[1] = d /\ next < j[2] /\ j[2] < next
          BY <1>3, <1>11, <3>1, <4>1
        <5>2. QED BY <1>2, <5>1, Ids, SMT
      <4>2. QED BY <4>1
    <3>3. Live(i)
      BY <1>8, <3>2 DEF Live
    <3>4. QED BY <1>8, <2>2, <3>1, <3>2, <3>3 DEF IInv, LastLives
  <2>3. QED BY <2>1, <2>2
<1>16. LeasesSound'
  BY <1>1, <1>6, <1>8, <1>10 DEF IInv, TypeOK, LeasesSound
<1>17. WorkersSound'
  <2> SUFFICES ASSUME NEW w \in Workers PROVE WorkerSound(w)'
    BY DEF WorkersSound
  <2>1. WorkerSound(w) /\ worker'[w] = worker[w]
    BY <1>1 DEF IInv, WorkersSound
  <2> DEFINE me == worker[w]
  <2>2. me.pc # "idle" => /\ me.task \in TaskIds /\ Present(me.task) /\ me.task # id
                          /\ me.task[1] \in Densities /\ me.task[2] \in Nat
    BY <1>1, <1>7, <2>1, Ids DEF WorkerSound
  <2>3. me.pc # "idle" =>
          /\ task'[me.task] = task[me.task]
          /\ me.task[2] < variant[me.task[1]].generation =>
               me.task[2] < variant'[me.task[1]].generation
    BY <1>2, <1>5, <1>8, <2>2, SMT
  <2> HIDE DEF me
  <2>4. worker'[w] = me /\ worker[w] = me
    BY <2>1 DEF me
  <2>5. me.pc = "claim" => me.pc # "idle"
    OBVIOUS
  <2>6. QED BY <1>1, <2>1, <2>2, <2>3, <2>4, <2>5 DEF WorkerSound, Holds, Present
<1>18. ShownFitsSource'
  BY <1>5, <1>8 DEF IInv, ShownFitsSource
<1>19. StateFitsTask'
  <2> SUFFICES ASSUME NEW e \in Densities
               PROVE  Fits(variant'[e], task'[<<e, variant'[e].generation>>], article'.source)
    BY DEF StateFitsTask, Fits
  <2>1. CASE e = d
    <3>1. variant'[e] = row /\ task'[<<e, variant'[e].generation>>] = t
      BY <1>3, <1>5, <1>8, <2>1 DEF id
    <3>2. ~Exhausted(t.attempts)
      BY <1>6, VariantAssumption, SMT DEF Exhausted
    <3>3. QED BY <1>5, <1>6, <3>1, <3>2 DEF Fits
  <2>2. CASE e # d
    <3>1. variant'[e] = variant[e]
      BY <1>8, <2>2
    <3>2. CASE variant[e].generation = 0
      BY <3>1, <3>2 DEF IInv, HistorySound, NoVariant, Fits
    <3>3. CASE variant[e].generation # 0
      <4>1. variant[e].generation \in 1..MaxGeneration
        BY <3>3, Typed, SMT DEF IInv
      <4>2. task'[<<e, variant[e].generation>>] = task[<<e, variant[e].generation>>]
        <5>1. <<e, variant[e].generation>> \in TaskIds
          BY <4>1, Ids
        <5>2. <<e, variant[e].generation>> # id
          BY <2>2 DEF id
        <5>3. QED BY <1>8, <5>1, <5>2
      <4>3. QED BY <1>1, <3>1, <4>2 DEF IInv, StateFitsTask, Fits
    <3>4. QED BY <3>2, <3>3
  <2>3. QED BY <2>1, <2>2
<1>20. KeysAreUnique'
  <2>1. \A i \in TaskIds : i[1] = d /\ Present(i) /\ TaskKey(d, key) # NoKey =>
          task[i].requestKey # TaskKey(d, key)
    <3> SUFFICES ASSUME NEW i \in TaskIds, i[1] = d, Present(i), TaskKey(d, key) # NoKey,
                        task[i].requestKey = TaskKey(d, key)
                 PROVE  FALSE
      OBVIOUS
    <3>1. ~KeyKnown(d, key) /\ TaskKey(d, key) = key /\ key # NoKey
      BY DEF TaskKey
    <3>2. i[2] \in 1..MaxGeneration /\ i = <<d, i[2]>>
      BY Ids
    <3>3. task[<<d, i[2]>>].state # "ABSENT" /\ task[<<d, i[2]>>].requestKey = key
      BY <3>1, <3>2 DEF Present
    <3>4. QED BY <3>1, <3>2, <3>3 DEF KeyKnown
  <2> SUFFICES ASSUME NEW i \in TaskIds, NEW j \in TaskIds, i[1] = j[1],
                      Present(i)', Present(j)',
                      task'[i].requestKey = task'[j].requestKey,
                      task'[i].requestKey # NoKey
               PROVE  i = j
    BY DEF KeysAreUnique, Present
  <2>2. CASE i = id /\ j # id
    BY <1>3, <1>6, <1>8, <1>10, <2>1, <2>2
  <2>3. CASE i # id /\ j = id
    BY <1>3, <1>6, <1>8, <1>10, <2>1, <2>3
  <2>4. CASE i # id /\ j # id
    BY <1>8, <1>10, <2>4 DEF IInv, KeysAreUnique, Present
  <2>5. QED BY <2>2, <2>3, <2>4
<1>21. QED BY <1>9, <1>13, <1>15, <1>16, <1>17, <1>18, <1>19, <1>20 DEF IInv

-------------------------------------------------------------------------------
(* The theorems.                                                           *)

LEMMA InitSound == Init => IInv
<1> SUFFICES ASSUME Init PROVE IInv
  OBVIOUS
<1>1. /\ article = [saved |-> TRUE, source |-> NoSource]
      /\ \A d \in Densities : variant[d] = NoVariant
      /\ \A id \in TaskIds : task[id] = NoTask
      /\ queued = {} /\ reclaiming = {}
      /\ \A w \in Workers : worker[w] = IdleWorker
  BY DEF Init
<1>2. TypeOK
  <2>1. 0 \in 0..MaxFaults
    BY VariantAssumption, SMT
  <2>2. QED BY <2>1, Defaults DEF Init, TypeOK
<1>3. \A id \in TaskIds : ~Present(id) /\ ~(id[2] <= 0) /\ id[2] # 0
                          /\ id[1] \in Densities
  <2>1. \A id \in TaskIds : ~(id[2] <= 0) /\ id[2] # 0
    BY Ids, SMT
  <2>2. QED BY <1>1, <2>1, Ids DEF Present, NoTask
<1>4. HistorySound
  <2>1. \A d \in Densities : variant[d].source = 0 /\ variant[d].generation = 0
    BY <1>1 DEF NoVariant, NoSource
  <2>2. article.source = 0
    BY <1>1 DEF NoSource
  <2>3. QED BY <1>1, <1>3, <2>1, <2>2, SMT DEF HistorySound
<1>5. LastLives /\ ShownFitsSource /\ KeysAreUnique /\ StateFitsTask
  BY <1>1, <1>3 DEF LastLives, ShownFitsSource, KeysAreUnique, StateFitsTask,
                    NoVariant, NoTask, Present
<1>6. LeasesSound
  BY <1>1 DEF LeasesSound, NoTask
<1>7. WorkersSound
  BY <1>1 DEF WorkersSound, WorkerSound, Holds, IdleWorker
<1>8. QED BY <1>2, <1>4, <1>5, <1>6, <1>7 DEF IInv

LEMMA WorkerKeeps ==
    ASSUME IInv, NEW w \in Workers, WorkerStep(w) PROVE IInv'
<1>1. CASE ClaimRead(w)
  BY <1>1, ClaimReadKeeps
<1>2. CASE ClaimWins(w)
  BY <1>2, ClaimWinsKeeps
<1>3. CASE ClaimMisses(w)
  BY <1>3, LeavesKeeps DEF ClaimMisses, NoFault
<1>4. CASE ClaimRetires(w)
  BY <1>4, ClaimRetiresKeeps
<1>5. CASE Checkpoint(w)
  BY <1>5, CheckpointKeeps
<1>6. ASSUME NEW f \in Failure, SummarizeFails(w, f) PROVE IInv'
  BY <1>6, ThrowsKeeps DEF SummarizeFails, Holds, NoFault
<1>7. CASE Complete(w)
  BY <1>7, CompleteKeeps
<1>8. CASE CompleteMisses(w)
  BY <1>8, LeavesKeeps DEF CompleteMisses, NoFault
<1>9. CASE Fail(w)
  BY <1>9, FailKeeps
<1>10. CASE Finish(w)
  BY <1>10, FinishKeeps
<1>11. QED
  BY <1>1, <1>2, <1>3, <1>4, <1>5, <1>6, <1>7, <1>8, <1>9, <1>10 DEF WorkerStep

LEMMA FaultKeeps == ASSUME IInv, FaultStep PROVE IInv'
<1>1. ASSUME NEW w \in Workers, StepFails(w) PROVE IInv'
  <2>1. PersistenceFailed \in Failure /\ Holds(w)
    BY <1>1 DEF PersistenceFailed, Failure, Holds, StepFails
  <2>2. QED BY <1>1, <2>1, ThrowsKeeps DEF StepFails
<1>2. ASSUME NEW w \in Workers, JobThrows(w) PROVE IInv'
  BY <1>2, LeavesKeeps DEF JobThrows
<1>3. ASSUME NEW w \in Workers, WorkerDies(w) PROVE IInv'
  BY <1>3, WorkerDiesKeeps
<1>4. ASSUME NEW id \in TaskIds, JobLost(id) PROVE IInv'
  BY <1>4, JobLostKeeps
<1>5. ASSUME NEW e \in reclaiming, DispatchAborts(e) PROVE IInv'
  BY <1>5, DispatchAbortsKeeps
<1>6. QED BY <1>1, <1>2, <1>3, <1>4, <1>5 DEF FaultStep

LEMMA StutterKeeps == ASSUME IInv, UNCHANGED vars PROVE IInv'
<1>1. /\ UNCHANGED <<article, variant, task, queued, reclaiming, worker>>
      /\ NoFault
  BY DEF vars, NoFault
<1>2. Frame /\ StateFitsTask'
  BY <1>1, NothingWritten
<1>3. QED
  BY <1>1, <1>2, NobodyMoves, FaultsCounted, TablesKept, QueuesKept, FrameKeeps

LEMMA NextKeeps == IInv /\ [Next]_vars => IInv'
<1> SUFFICES ASSUME IInv, [Next]_vars PROVE IInv'
  OBVIOUS
<1>1. CASE PublishSource
  BY <1>1, PublishSourceKeeps
<1>2. CASE Remove
  BY <1>2, RemoveKeeps
<1>3. CASE DispatchRead
  BY <1>3, DispatchReadKeeps
<1>4. CASE FaultStep
  BY <1>4, FaultKeeps
<1>5. ASSUME NEW d \in Densities, NEW key \in Keys \cup {NoKey}, Request(d, key)
      PROVE  IInv'
  BY <1>5, RequestKeeps
<1>6. ASSUME NEW e \in reclaiming, Reclaim(e) PROVE IInv'
  BY <1>6, ReclaimKeeps
<1>7. ASSUME NEW w \in Workers, WorkerStep(w) PROVE IInv'
  BY <1>7, WorkerKeeps
<1>8. ASSUME NEW w \in Workers, Heartbeat(w) PROVE IInv'
  BY <1>8, HeartbeatKeeps
<1>9. ASSUME NEW w \in Workers, NEW id \in TaskIds, Fetch(w, id) PROVE IInv'
  BY <1>9, FetchKeeps
<1>10. ASSUME NEW id \in TaskIds, Enqueue(id) PROVE IInv'
  BY <1>10, EnqueueKeeps
<1>11. ASSUME NEW id \in TaskIds, LeaseLapses(id) PROVE IInv'
  BY <1>11, LeaseLapsesKeeps
<1>12. ASSUME NEW id \in TaskIds, DelayPasses(id) PROVE IInv'
  BY <1>12, DelayPassesKeeps
<1>13. CASE UNCHANGED vars
  BY <1>13, StutterKeeps
<1>14. QED
  BY <1>1, <1>2, <1>3, <1>4, <1>5, <1>6, <1>7, <1>8, <1>9, <1>10, <1>11, <1>12, <1>13
     DEF Next

(* The inductive invariant: what dispatches and workers remember of a task *)
(* is true for as long as they can still write because of it.              *)
THEOREM VariantsInductive == Spec => []IInv
<1>1. QED BY InitSound, NextKeeps, PTL DEF Spec

(* Rows, tasks, jobs and workers have their types, and attempts, faults    *)
(* and generations stay in their bounds.                                   *)
THEOREM VariantsTyped == Spec => []TypeOK
<1>1. IInv => TypeOK
  BY DEF IInv
<1>2. QED BY <1>1, VariantsInductive, PTL

(* A listed document was made from the source it is listed under.          *)
THEOREM DocumentsFit == Spec => []ShownFitsSource
<1>1. IInv => ShownFitsSource
  BY DEF IInv
<1>2. QED BY <1>1, VariantsInductive, PTL

(* What is shown as waiting will be claimed, and what is shown as ended    *)
(* has no task that could change it.                                       *)
THEOREM StatesFit == Spec => []StateFitsTask
<1>1. IInv => StateFitsTask
  BY DEF IInv
<1>2. QED BY <1>1, VariantsInductive, PTL

(* One density of one source is never generated by two tasks at a time.    *)
THEOREM OneGenerates == Spec => []OneTaskPerSource
<1>1. IInv => OneTaskPerSource
  <2> SUFFICES ASSUME IInv, NEW i \in TaskIds, NEW j \in TaskIds, i[1] = j[1],
                      Live(i), Live(j), task[i].source = task[j].source
               PROVE  i = j
    BY DEF OneTaskPerSource
  <2>1. Present(i) /\ Present(j)
    BY DEF Present, Live
  <2>2. ~(i[2] < j[2]) /\ ~(j[2] < i[2])
    BY <2>1 DEF IInv, LastLives
  <2>3. i[2] = j[2]
    BY <2>2, Ids, SMT
  <2>4. QED BY <2>3, Ids
<1>2. QED BY <1>1, VariantsInductive, PTL

(* No request is refused by the unique index on (variantId, requestKey).   *)
THEOREM KeysUnique == Spec => []KeysAreUnique
<1>1. IInv => KeysAreUnique
  BY DEF IInv
<1>2. QED BY <1>1, VariantsInductive, PTL

-------------------------------------------------------------------------------
(* Who writes documents.                                                   *)

LEMMA NamedKeepsDocument ==
    ASSUME IInv, NEW id \in TaskIds, NEW source, NEW row \in VariantRow,
           row.markdown = variant[id[1]].markdown, WriteNamed(id, source, row)
    PROVE  \A d \in Densities : variant'[d].markdown = variant[d].markdown
<1>1. variant' = variant \/ variant' = [variant EXCEPT ![id[1]] = row]
  BY DEF WriteNamed
<1>2. QED BY <1>1, Ids DEF IInv, TypeOK

LEMMA OnlyOwnerWrites ==
    ASSUME IInv, [Next]_vars, NEW d \in Densities,
           variant'[d].markdown \notin {variant[d].markdown, NoSource}
    PROVE  \E w \in Workers : /\ worker[w].task = <<d, variant[d].generation>>
                              /\ worker[w].pc = "complete" /\ Owns(w)
<1> DEFINE Keeps == variant'[d].markdown \in {variant[d].markdown, NoSource}
<1>1. \A e \in Densities : variant[e] \in VariantRow
  BY DEF IInv, TypeOK
<1>2. \A id \in TaskIds : id[1] \in Densities
  BY Ids
<1>3. ASSUME NEW w \in Workers, Complete(w)
      PROVE  Keeps \/ worker[w].task = <<d, variant[d].generation>>
  <2> DEFINE id == worker[w].task
  <2>1. id \in TaskIds
    BY <1>3 DEF Complete, IInv, WorkersSound, WorkerSound
  <2>2. CASE id[1] = d /\ Named(id, worker[w].source)
    BY <2>1, <2>2, Ids DEF Named
  <2>3. CASE ~(id[1] = d /\ Named(id, worker[w].source))
    <3>1. variant'[d] = variant[d]
      BY <1>3, <2>1, <2>3, <1>2 DEF Complete, WriteNamed, IInv, TypeOK
    <3>2. QED BY <3>1
  <2>4. QED BY <2>2, <2>3
<1>4. ASSUME NEW e \in reclaiming, Reclaim(e) PROVE Keeps
  <2>1. e.id \in TaskIds
    BY DEF IInv, TypeOK, Snapshot
  <2> DEFINE row == InterruptedVariant(variant[e.id[1]], Exhausted(e.attempts))
  <2>2. row \in VariantRow /\ row.markdown = variant[e.id[1]].markdown
    <3>1. variant[e.id[1]] \in VariantRow
      BY <1>1, <1>2, <2>1
    <3>2. QED BY <3>1 DEF InterruptedVariant, VariantRow
  <2>3. WriteNamed(e.id, task[e.id].source, row) \/ UNCHANGED variant
    BY <1>4 DEF Reclaim
  <2> HIDE DEF row
  <2>4. QED BY <2>1, <2>2, <2>3, NamedKeepsDocument
<1>5. ASSUME NEW w \in Workers, ClaimWins(w) PROVE Keeps
  <2>1. worker[w].task \in TaskIds
    BY <1>5 DEF ClaimWins, IInv, WorkersSound, WorkerSound
  <2> DEFINE row == [variant[worker[w].task[1]] EXCEPT !.state = "RUNNING",
                                                       !.retryAt = "null"]
  <2>2. row.markdown = variant[worker[w].task[1]].markdown
    BY <1>1, <1>2, <2>1 DEF VariantRow
  <2>3. variant' = [variant EXCEPT ![worker[w].task[1]] = row]
    BY <1>5 DEF ClaimWins
  <2> HIDE DEF row
  <2>4. QED BY <1>2, <2>1, <2>2, <2>3 DEF IInv, TypeOK
<1>6. ASSUME NEW w \in Workers, ClaimRetires(w) PROVE Keeps
  <2>1. worker[w].task \in TaskIds
    BY <1>6 DEF ClaimRetires, IInv, WorkersSound, WorkerSound
  <2> DEFINE row == [variant[worker[w].task[1]] EXCEPT !.state = "FAILED"]
  <2>2. row \in VariantRow /\ row.markdown = variant[worker[w].task[1]].markdown
    BY <1>1, <1>2, <2>1 DEF VariantRow
  <2>3. WriteNamed(worker[w].task, worker[w].source, row) \/ UNCHANGED variant
    BY <1>6 DEF ClaimRetires
  <2> HIDE DEF row
  <2>4. QED BY <2>1, <2>2, <2>3, NamedKeepsDocument
<1>7. ASSUME NEW w \in Workers, Fail(w) PROVE Keeps
  <2>1. worker[w].task \in TaskIds
    BY <1>7 DEF Fail, IInv, WorkersSound, WorkerSound
  <2> DEFINE retry == worker[w].failure.retryable /\ ~Exhausted(worker[w].attempts)
             row == FailedVariant(variant[worker[w].task[1]], retry,
                                  worker[w].failure.wait)
  <2>2. row \in VariantRow /\ row.markdown = variant[worker[w].task[1]].markdown
    <3>1. variant[worker[w].task[1]] \in VariantRow
      BY <1>1, <1>2, <2>1
    <3>2. QED BY <3>1 DEF FailedVariant, VariantRow
  <2>3. WriteNamed(worker[w].task, worker[w].source, row) \/ UNCHANGED variant
    BY <1>7 DEF Fail
  <2> HIDE DEF row, retry
  <2>4. QED BY <2>1, <2>2, <2>3, NamedKeepsDocument
<1>8. ASSUME NEW id \in TaskIds, DelayPasses(id) PROVE Keeps
  <2> DEFINE row == [variant[id[1]] EXCEPT !.retryAt = IF @ = "ahead" THEN "passed" ELSE @]
  <2>1. row \in VariantRow /\ row.markdown = variant[id[1]].markdown
    BY <1>1, <1>2 DEF VariantRow
  <2>2. WriteNamed(id, task[id].source, row)
    BY <1>8 DEF DelayPasses
  <2> HIDE DEF row
  <2>3. QED BY <2>1, <2>2, NamedKeepsDocument
<1>9. ASSUME NEW e \in Densities, NEW key \in Keys \cup {NoKey}, Request(e, key)
      PROVE  Keeps
  BY <1>9 DEF Request, IInv, TypeOK
<1>10. ASSUME Remove PROVE Keeps
  BY <1>10 DEF Remove, NoVariant
<1>11. ASSUME UNCHANGED variant PROVE Keeps
  BY <1>11
<1>12. ASSUME PublishSource \/ DispatchRead \/ FaultStep \/ UNCHANGED vars
       PROVE  Keeps
  BY <1>11, <1>12 DEF PublishSource, DispatchRead, FaultStep, StepFails, JobThrows,
                      WorkerDies, JobLost, DispatchAborts, vars
<1>13. ASSUME NEW w \in Workers, WorkerStep(w) \/ Heartbeat(w)
       PROVE  Keeps \/ Complete(w)
  BY <1>5, <1>6, <1>7, <1>11, <1>13
     DEF WorkerStep, ClaimRead, ClaimMisses, Checkpoint, SummarizeFails, CompleteMisses,
         Finish, Heartbeat
<1>14. ASSUME NEW id \in TaskIds,
              Enqueue(id) \/ LeaseLapses(id) \/ \E w \in Workers : Fetch(w, id)
       PROVE  Keeps
  BY <1>11, <1>14 DEF Enqueue, LeaseLapses, Fetch
<1> ~Keeps
  OBVIOUS
<1> HIDE DEF Keeps
<1>15. PICK w \in Workers : Complete(w)
  BY <1>4, <1>8, <1>9, <1>10, <1>12, <1>13, <1>14 DEF Next
<1>16. worker[w].task = <<d, variant[d].generation>>
  BY <1>3, <1>15
<1>17. QED BY <1>15, <1>16 DEF Complete

(* Only the worker that owns the task of the variant's own generation puts *)
(* a document in it.                                                       *)
THEOREM DocumentsFromOwner == Spec => MarkdownOnlyFromOwner
<1>1. IInv /\ [Next]_vars =>
        [\A d \in Densities :
           variant'[d].markdown \notin {variant[d].markdown, NoSource} =>
             \E w \in Workers : /\ worker[w].task = <<d, variant[d].generation>>
                                /\ worker[w].pc = "complete" /\ Owns(w)]_vars
  BY OnlyOwnerWrites
<1>2. QED BY <1>1, VariantsInductive, PTL DEF Spec, MarkdownOnlyFromOwner
=============================================================================
