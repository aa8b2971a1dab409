------------------------------ MODULE QueueSafety ------------------------------
(***************************************************************************)
(* QueueSafetyService of one process: workers are registered at bootstrap, *)
(* run when something has been enqueued, paused when nothing has been for  *)
(* a while, and all closed for good once Redis reports that its quota is   *)
(* used up.  JavaScript runs one callback at a time, so each callback and  *)
(* each stretch between awaits is one action; what can happen in between   *)
(* is every other callback.  There is one worker per queue.                *)
(*                                                                         *)
(* The BullMQ worker itself is external.  Its mode is                      *)
(*   "off"      not running yet, or run() has rejected                     *)
(*   "running"  fetching jobs                                              *)
(*   "pausing"  isPaused(), while jobs it had fetched come to their end    *)
(*   "paused"   isPaused(), and no longer running                          *)
(*   "closed"   close() was called                                         *)
(***************************************************************************)
EXTENDS Integers, FiniteSets

CONSTANTS
    Queues,         \* queue names; a queue's worker goes by its name
    Tokens,         \* Symbol('processor') of each job that can be in progress
    MaxPending      \* bound on the enqueue calls of a queue awaited at a time

ASSUME PendingAssumption == MaxPending \in Nat

VARIABLES
    stopped,        \* the quota latch
    shuttingDown,   \* onModuleDestroy was called
    demand,         \* keys of the demand map
    producer,       \* the Queue object: "new", "open" or "closed"
    state,          \* ManagedWorker and BullMQ worker of each queue
    pending         \* enqueue calls whose operation is awaited

vars == <<stopped, shuttingDown, demand, producer, state, pending>>

ManagedWorker ==
    [phase    : {"unregistered", "registered", "removed"},
     mode     : {"off", "running", "pausing", "paused", "closed"},
     fresh    : BOOLEAN,            \* demandUntil > now
     woken    : BOOLEAN,            \* version has moved since pause was called
     sleeping : BOOLEAN,            \* the promise of pause is pending
     timer    : BOOLEAN,            \* the idle timer is armed
     active   : SUBSET Tokens,
     fetched  : SUBSET Tokens]      \* jobs BullMQ may hold when pause is called

NewWorker ==
    [phase |-> "unregistered", mode |-> "off", fresh |-> FALSE, woken |-> FALSE,
     sleeping |-> FALSE, timer |-> FALSE, active |-> {}, fetched |-> {}]

(* Mutant of Blocked: only the quota stops the queues.                     *)
BlockedByQuota == stopped
Blocked == stopped \/ shuttingDown

Init ==
    /\ stopped = FALSE /\ shuttingDown = FALSE
    /\ demand = {}
    /\ producer = [q \in Queues |-> "new"]
    /\ state = [q \in Queues |-> NewWorker]
    /\ pending = [q \in Queues |-> 0]

-------------------------------------------------------------------------------
(* The private methods, as the ManagedWorker that they leave behind.       *)

(* armIdle: the former timer is cleared in any case.                       *)
ArmIdle(s) ==
    [s EXCEPT !.timer = ~Blocked /\ ~s.sleeping /\ s.phase = "registered"]

(* ensureAwake: resume() if paused, which does nothing as long as BullMQ   *)
(* still runs, and run() if it never did or has rejected.                  *)
EnsureAwake(s) ==
    IF Blocked \/ s.phase # "registered" THEN s
    ELSE [s EXCEPT !.mode = IF @ \in {"paused", "off"} THEN "running" ELSE @]

(* Mutant of Woken: a wake during a pause leaves no trace.                 *)
WokenUnlessSleeping(s) ==
    LET t == [s EXCEPT !.fresh = TRUE]
    IN ArmIdle(IF s.sleeping THEN t ELSE EnsureAwake(t))
(* What wakeWorker does to a registered worker; one that is being paused   *)
(* is woken when the pause has ended.                                      *)
Woken(s) ==
    LET t == [s EXCEPT !.fresh = TRUE, !.woken = TRUE]
    IN ArmIdle(IF s.sleeping THEN t ELSE EnsureAwake(t))

Wake(q) ==
    IF Blocked THEN UNCHANGED <<demand, state>>
    ELSE /\ demand' = demand \cup {q}
         /\ state' = IF state[q].phase # "registered" THEN state
                     ELSE [state EXCEPT ![q] = Woken(@)]

(* reportError of a quota error: the latch, for which there is no way      *)
(* back.  The error left the workers as in s.                              *)
Latch(s) ==
    /\ ~stopped /\ stopped' = TRUE
    /\ state' = [q \in Queues |->
         IF s[q].phase # "registered" THEN s[q]
         ELSE [s[q] EXCEPT !.mode = "closed", !.timer = FALSE]]
    /\ producer' = [q \in Queues |->
         IF producer[q] = "open" THEN "closed" ELSE producer[q]]

(* An error is reported: it means that the quota is exceeded, or nothing.  *)
Reported(s) ==
    \/ state' = s /\ UNCHANGED <<stopped, producer>>
    \/ Latch(s)

-------------------------------------------------------------------------------
(* Calls from outside.                                                     *)

WatchQueue(q) ==
    /\ producer[q] = "new"
    /\ producer' = [producer EXCEPT ![q] = IF Blocked THEN "closed" ELSE "open"]
    /\ UNCHANGED <<stopped, shuttingDown, demand, state, pending>>

Registered == [NewWorker EXCEPT !.phase = "registered"]
(* Mutant of Started: a worker registered after the stop is left open.     *)
StartedOpen(q) ==
    IF q \in demand /\ ~Blocked THEN Woken(Registered) ELSE Registered
(* startWorker at bootstrap: closed at once after a stop, and run at once  *)
(* if something was enqueued before.                                       *)
Started(q) ==
    IF Blocked THEN [Registered EXCEPT !.mode = "closed"]
    ELSE IF q \in demand THEN Woken(Registered) ELSE Registered

StartWorker(q) ==
    /\ state[q].phase = "unregistered"
    /\ state' = [state EXCEPT ![q] = Started(q)]
    /\ UNCHANGED <<stopped, shuttingDown, demand, producer, pending>>

(* enqueue, up to its await; after a stop it throws and changes nothing.   *)
Enqueue(q) ==
    /\ ~Blocked /\ pending[q] < MaxPending
    /\ pending' = [pending EXCEPT ![q] = @ + 1]
    /\ UNCHANGED <<stopped, shuttingDown, demand, producer, state>>

EnqueueSucceeds(q) ==
    /\ pending[q] > 0 /\ Wake(q)
    /\ pending' = [pending EXCEPT ![q] = @ - 1]
    /\ UNCHANGED <<stopped, shuttingDown, producer>>

(* However late: the dispatcher may have given up on the call.             *)
EnqueueFails(q) ==
    /\ pending[q] > 0 /\ Reported(state)
    /\ pending' = [pending EXCEPT ![q] = @ - 1]
    /\ UNCHANGED <<shuttingDown, demand>>

(* onModuleDestroy: timers are cleared; Nest closes the workers.           *)
Shutdown ==
    /\ ~shuttingDown /\ shuttingDown' = TRUE
    /\ state' = [q \in Queues |-> [state[q] EXCEPT !.timer = FALSE]]
    /\ UNCHANGED <<stopped, demand, producer, pending>>

-------------------------------------------------------------------------------
(* Callbacks of timers and promises, and events of BullMQ.                 *)

(* The timer is due when demandUntil has passed, and not before: each wake *)
(* arms it anew.  pause(false) is called unless a processor is at work.    *)
Pausing(s, held) ==
    [s EXCEPT !.sleeping = TRUE, !.woken = FALSE, !.fetched = held,
              !.mode = IF @ \in {"off", "running"} THEN "pausing" ELSE @]
TimerFires(q) ==
    LET s == state[q]
        off == [s EXCEPT !.timer = FALSE]
    IN /\ s.timer /\ ~s.fresh
       /\ \/ /\ s.active # {} \/ Blocked
             /\ state' = [state EXCEPT ![q] = off]
          \/ /\ s.active = {} /\ ~Blocked
             /\ \E held \in SUBSET Tokens :
                  state' = [state EXCEPT ![q] = Pausing(off, held)]
       /\ UNCHANGED <<stopped, shuttingDown, demand, producer, pending>>

(* Mutant of AfterPause: a wake during the pause is forgotten.             *)
AfterPauseAsleep(s) ==
    [s EXCEPT !.sleeping = FALSE, !.fetched = {},
              !.mode = IF @ = "pausing" THEN "paused" ELSE @]
(* finally: what was asked for during the pause is replayed.               *)
AfterPause(s) ==
    LET t == [s EXCEPT !.sleeping = FALSE, !.fetched = {},
                       !.mode = IF @ = "pausing" THEN "paused" ELSE @]
    IN IF s.woken /\ ~Blocked THEN ArmIdle(EnsureAwake(t)) ELSE t

(* pause(false) resolves when the worker has no job left.                  *)
PauseSettles(q) ==
    /\ state[q].sleeping /\ (state[q].active = {} \/ state[q].mode = "closed")
    /\ state' = [state EXCEPT ![q] = AfterPause(@)]
    /\ UNCHANGED <<stopped, shuttingDown, demand, producer, pending>>

(* pause rejects, with the main loop of the worker at its end as well: if  *)
(* it is the quota, nothing is replayed.                                   *)
PauseFails(q) ==
    /\ state[q].sleeping
    /\ \/ /\ state' = [state EXCEPT ![q] = AfterPause(@)]
          /\ UNCHANGED <<stopped, producer>>
       \/ Latch([state EXCEPT ![q].sleeping = FALSE, ![q].fetched = {}])
    /\ UNCHANGED <<shuttingDown, demand, pending>>

(* run() rejects.                                                          *)
RunFails(q) ==
    /\ state[q].mode = "running"
    /\ Reported([state EXCEPT ![q].mode = "off"])
    /\ UNCHANGED <<shuttingDown, demand, pending>>

(* A quota error of a worker or of a producer; other errors are logged.    *)
QuotaError ==
    /\ \E q \in Queues :
         producer[q] = "open" \/ state[q].mode \in {"running", "pausing"}
    /\ Latch(state)
    /\ UNCHANGED <<shuttingDown, demand, pending>>

(* 'completed', 'failed' or 'drained', with or without a job in progress.  *)
WorkerEvent(q) ==
    /\ state[q].phase = "registered" /\ state[q].mode # "off"
    /\ state' = [state EXCEPT ![q] = ArmIdle(@)]
    /\ UNCHANGED <<stopped, shuttingDown, demand, producer, pending>>

(* withProcessing: BullMQ enters the processor with a job, which it may    *)
(* have fetched before it was paused; and the processor returns.           *)
JobStarts(q, t) ==
    /\ \/ state[q].mode = "running"
       \/ state[q].mode = "pausing" /\ t \in state[q].fetched
    /\ t \notin state[q].active
    /\ state' = [state EXCEPT ![q].active = @ \cup {t}, ![q].fetched = @ \ {t}]
    /\ UNCHANGED <<stopped, shuttingDown, demand, producer, pending>>
(* Mutant of JobEnds: the timer is left to BullMQ's events.                *)
JobEndsUnarmed(q, t) ==
    /\ t \in state[q].active
    /\ state' = [state EXCEPT ![q].active = @ \ {t}]
    /\ UNCHANGED <<stopped, shuttingDown, demand, producer, pending>>
JobEnds(q, t) ==
    /\ t \in state[q].active
    /\ state' = [state EXCEPT ![q] = ArmIdle([state[q] EXCEPT !.active = @ \ {t}])]
    /\ UNCHANGED <<stopped, shuttingDown, demand, producer, pending>>

(* 'closed': after our close(true), or when Nest shuts the worker down.    *)
WorkerClosed(q) ==
    /\ state[q].phase = "registered" /\ (state[q].mode = "closed" \/ shuttingDown)
    /\ state' = [state EXCEPT ![q] =
         [@ EXCEPT !.phase = "removed", !.mode = "closed", !.timer = FALSE]]
    /\ UNCHANGED <<stopped, shuttingDown, demand, producer, pending>>

(* WORKER_IDLE_MS have passed since the last wake.                         *)
DemandLapses(q) ==
    /\ state[q].fresh
    /\ state' = [state EXCEPT ![q].fresh = FALSE]
    /\ UNCHANGED <<stopped, shuttingDown, demand, producer, pending>>

Next ==
    \/ Shutdown \/ QuotaError
    \/ \E q \in Queues :
         \/ WatchQueue(q) \/ StartWorker(q)
         \/ Enqueue(q) \/ EnqueueSucceeds(q) \/ EnqueueFails(q)
         \/ TimerFires(q) \/ PauseSettles(q) \/ PauseFails(q) \/ RunFails(q)
         \/ WorkerEvent(q) \/ WorkerClosed(q) \/ DemandLapses(q)
         \/ \E t \in Tokens : JobStarts(q, t) \/ JobEnds(q, t)

Spec == Init /\ [][Next]_vars

(* Timers fire, promises settle, jobs end and time passes.                 *)
Fairness ==
    \A q \in Queues :
        /\ WF_vars(TimerFires(q)) /\ WF_vars(PauseSettles(q))
        /\ WF_vars(DemandLapses(q))
        /\ \A t \in Tokens : WF_vars(JobEnds(q, t))

FairSpec == Spec /\ Fairness

-------------------------------------------------------------------------------
(* Properties.                                                             *)

TypeOK ==
    /\ stopped \in BOOLEAN /\ shuttingDown \in BOOLEAN
    /\ demand \in SUBSET Queues
    /\ producer \in [Queues -> {"new", "open", "closed"}]
    /\ state \in [Queues -> ManagedWorker]
    /\ pending \in [Queues -> 0..MaxPending]

(* A worker is not left paused while something was enqueued less than the  *)
(* grace period ago: if it was being paused at the time, that is noted.    *)
DemandIsServed ==
    \A q \in Queues :
        LET s == state[q]
        IN s.phase = "registered" /\ s.fresh /\ ~Blocked
           => s.mode \in {"running", "off"} \/ (s.sleeping /\ s.woken)

(* A worker that runs with nothing to do has an idle timer that will pause *)
(* it, whatever order jobs, events and pauses end in.                      *)
IdleHasTimer ==
    \A q \in Queues :
        LET s == state[q]
        IN s.phase = "registered" /\ s.mode = "running" /\ s.active = {} /\ ~Blocked
           => s.timer

(* After a stop no timer of ours will call BullMQ again; after the quota   *)
(* latch every worker and producer that exists is closed, also one that    *)
(* was created later.                                                      *)
QuietAfterStop ==
    /\ stopped \/ shuttingDown => \A q \in Queues : ~state[q].timer
    /\ stopped => \A q \in Queues :
         /\ state[q].phase = "registered" => state[q].mode = "closed"
         /\ producer[q] # "open"

(* Nothing that was asked for before a stop, a pending pause, enqueue or   *)
(* bootstrap, starts a worker after it.                                    *)
NothingStartsAfterStop ==
    [][stopped \/ shuttingDown => \A q \in Queues :
         state'[q].mode = "running" => state[q].mode = "running"]_vars

(* Once nothing is enqueued or executed any more, the worker stops talking *)
(* to Redis for good; at a shutdown, closing it is left to Nest.           *)
SleepsWhenIdle ==
    \A q \in Queues :
        <>[](~state[q].fresh /\ state[q].active = {} /\ ~shuttingDown)
        => <>[](state[q].mode # "running")

(* What was enqueued during a pause runs, unless everything is stopped.    *)
PausedDemandRuns ==
    \A q \in Queues :
        (state[q].sleeping /\ state[q].woken) ~> (state[q].mode = "running" \/ Blocked)
=============================================================================
