--------------------------- MODULE QueueSafetyProofs ---------------------------
(***************************************************************************)
(* Proofs about QueueSafety, for any number of queues, jobs and calls.     *)
(*                                                                         *)
(* A callback changes the flags or the worker of one queue, and what must  *)
(* hold of a worker speaks of that worker and the flags only.  So the      *)
(* inductive invariant is Sound of every worker; the lemmas show what each *)
(* private method leaves behind, and one of them carries it to all queues. *)
(***************************************************************************)
EXTENDS QueueSafety, TLAPS

(* The mode of a worker fits its phase, its pause and the flags.           *)
Placed(s) ==
    /\ s.phase = "registered" /\ s.fresh /\ ~Blocked
       => s.mode \in {"running", "off"} \/ (s.sleeping /\ s.woken)
    /\ stopped /\ s.phase = "registered" => s.mode = "closed"
    /\ s.mode = "pausing" => s.sleeping
    /\ s.sleeping => s.mode # "running"
    /\ s.mode = "closed" => Blocked
    /\ s.phase = "unregistered" => s.mode = "off"
    /\ s.phase = "removed" => s.mode = "closed"

(* The idle timer is armed when it must be, and only when it may be.       *)
Timed(s) ==
    /\ s.phase = "registered" /\ s.mode = "running" /\ s.active = {} /\ ~Blocked
       => s.timer
    /\ s.timer => ~Blocked /\ ~s.sleeping /\ s.phase = "registered"

Sound(s) == Placed(s) /\ Timed(s)

IInv ==
    /\ TypeOK
    /\ \A q \in Queues : Sound(state[q])
    /\ stopped => \A q \in Queues : producer[q] # "open"

-------------------------------------------------------------------------------
(* The private methods.                                                    *)

(* armIdle puts the timer right whatever it was.                           *)
LEMMA ArmIdleSound ==
    ASSUME NEW s \in ManagedWorker, Placed(s)
    PROVE  ArmIdle(s) \in ManagedWorker /\ Sound(ArmIdle(s))
<1>1. ArmIdle(s) \in ManagedWorker
  BY ZenonT(60) DEF ArmIdle, ManagedWorker, Blocked
<1>2. /\ ArmIdle(s).phase = s.phase /\ ArmIdle(s).mode = s.mode
      /\ ArmIdle(s).fresh = s.fresh /\ ArmIdle(s).woken = s.woken
      /\ ArmIdle(s).sleeping = s.sleeping /\ ArmIdle(s).active = s.active
      /\ ArmIdle(s).timer <=> ~Blocked /\ ~s.sleeping /\ s.phase = "registered"
  BY ZenonT(60) DEF ArmIdle, ManagedWorker
<1>3. Sound(ArmIdle(s))
  BY <1>2, SMTT(30) DEF Sound, Placed, Timed
<1>4. QED BY <1>1, <1>3

(* ensureAwake moves nothing but a paused or resting worker.               *)
LEMMA EnsureAwakeMode ==
    ASSUME NEW s \in ManagedWorker
    PROVE  LET t == EnsureAwake(s)
           IN /\ t \in ManagedWorker
              /\ t.mode = IF ~Blocked /\ s.phase = "registered"
                             /\ s.mode \in {"paused", "off"}
                          THEN "running" ELSE s.mode
              /\ t.phase = s.phase /\ t.fresh = s.fresh /\ t.woken = s.woken
              /\ t.sleeping = s.sleeping
<1>1. CASE Blocked \/ s.phase # "registered"
  BY <1>1 DEF EnsureAwake
<1>2. CASE ~Blocked /\ s.phase = "registered"
  <2>1. EnsureAwake(s) =
          [s EXCEPT !.mode = IF s.mode \in {"paused", "off"} THEN "running" ELSE s.mode]
    BY <1>2, SMTT(30) DEF EnsureAwake, ManagedWorker
  <2>2. [s EXCEPT !.mode = IF s.mode \in {"paused", "off"} THEN "running" ELSE s.mode]
          \in ManagedWorker
    BY ZenonT(60) DEF ManagedWorker
  <2>3. QED BY <1>2, <2>1, <2>2, SMTT(30) DEF ManagedWorker
<1>3. QED BY <1>1, <1>2

(* A wake leaves the worker running, or asks the pending pause to do so.   *)
LEMMA WokenSound ==
    ASSUME NEW s \in ManagedWorker, Placed(s), ~Blocked, s.phase = "registered"
    PROVE  Woken(s) \in ManagedWorker /\ Sound(Woken(s))
<1> DEFINE t == [s EXCEPT !.fresh = TRUE, !.woken = TRUE]
<1>1. t \in ManagedWorker
  BY ZenonT(60) DEF ManagedWorker
<1>2. /\ t.phase = s.phase /\ t.mode = s.mode /\ t.woken = TRUE
      /\ t.sleeping = s.sleeping
  BY DEF ManagedWorker
<1>3. Woken(s) = ArmIdle(IF s.sleeping THEN t ELSE EnsureAwake(t))
  BY DEF Woken
<1> HIDE DEF t
<1>4. CASE s.sleeping
  <2>1. Placed(t) BY <1>2, <1>4, SMTT(30) DEF Placed
  <2>2. QED BY <1>1, <1>3, <1>4, <2>1, ArmIdleSound
<1>5. CASE ~s.sleeping
  <2> DEFINE u == EnsureAwake(t)
  <2>1. u \in ManagedWorker /\ u.phase = s.phase /\ u.sleeping = s.sleeping
        /\ u.mode = IF s.mode \in {"paused", "off"} THEN "running" ELSE s.mode
    BY <1>1, <1>2, EnsureAwakeMode
  <2> HIDE DEF u
  <2>2. s.mode \in {"off", "running", "pausing", "paused", "closed"}
    BY DEF ManagedWorker
  <2>3. Placed(u) BY <1>5, <2>1, <2>2, SMTT(30) DEF Placed, Blocked
  <2>4. Woken(s) = ArmIdle(u) BY <1>3, <1>5 DEF u
  <2>5. QED BY <2>1, <2>3, <2>4, ArmIdleSound
<1>6. QED BY <1>4, <1>5

(* A worker that has just been registered.                                 *)
LEMMA StartedSound ==
    ASSUME NEW q \in Queues
    PROVE  Started(q) \in ManagedWorker /\ Sound(Started(q))
<1>1. Registered \in ManagedWorker /\ [Registered EXCEPT !.mode = "closed"] \in ManagedWorker
  BY ZenonT(60) DEF Registered, NewWorker, ManagedWorker
<1>2. CASE Blocked
  BY <1>1, <1>2, SMTT(30) DEF Started, Registered, NewWorker, Sound, Placed, Timed
<1>3. CASE ~Blocked
  <2>1. Sound(Registered) /\ Registered.phase = "registered"
    BY <1>3, SMTT(30) DEF Registered, NewWorker, Sound, Placed, Timed, Blocked
  <2>2. QED BY <1>1, <1>3, <2>1, WokenSound DEF Started, Sound
<1>4. QED BY <1>2, <1>3

(* The end of a pause, with what was asked for in the meantime.            *)
LEMMA AfterPauseSound ==
    ASSUME NEW s \in ManagedWorker, Sound(s), s.sleeping
    PROVE  AfterPause(s) \in ManagedWorker /\ Sound(AfterPause(s))
<1> DEFINE t == [s EXCEPT !.sleeping = FALSE, !.fetched = {},
                          !.mode = IF s.mode = "pausing" THEN "paused" ELSE s.mode]
<1>1. t \in ManagedWorker
  BY ZenonT(60) DEF ManagedWorker
<1>2. /\ t.phase = s.phase /\ t.woken = s.woken /\ t.fresh = s.fresh
      /\ t.sleeping = FALSE /\ t.active = s.active /\ t.timer = s.timer
      /\ t.mode = IF s.mode = "pausing" THEN "paused" ELSE s.mode
  BY SMTT(30) DEF ManagedWorker
<1>3. AfterPause(s) = IF s.woken /\ ~Blocked THEN ArmIdle(EnsureAwake(t)) ELSE t
  BY DEF AfterPause
<1>4. s.mode \in {"off", "running", "pausing", "paused", "closed"}
  BY DEF ManagedWorker
<1> HIDE DEF t
<1>5. CASE s.woken /\ ~Blocked
  <2> DEFINE u == EnsureAwake(t)
  <2>1. u \in ManagedWorker /\ u.phase = s.phase /\ u.sleeping = FALSE
        /\ u.mode = IF s.phase = "registered" /\ t.mode \in {"paused", "off"}
                    THEN "running" ELSE t.mode
    BY <1>1, <1>2, <1>5, EnsureAwakeMode
  <2> HIDE DEF u
  <2>2. Placed(u) BY <1>2, <1>4, <1>5, <2>1, SMTT(30) DEF Sound, Placed, Blocked
  <2>3. AfterPause(s) = ArmIdle(u) BY <1>3, <1>5 DEF u
  <2>4. QED BY <2>1, <2>2, <2>3, ArmIdleSound
<1>6. CASE ~(s.woken /\ ~Blocked)
  <2>1. Sound(t) BY <1>2, <1>4, <1>6, SMTT(30) DEF Sound, Placed, Timed
  <2>2. QED BY <1>1, <1>3, <1>6, <2>1
<1>7. QED BY <1>5, <1>6

-------------------------------------------------------------------------------
(* What the steps have in common.                                          *)

(* A callback that leaves one worker sound leaves all of them sound.       *)
LEMMA OneWorkerKeeps ==
    ASSUME IInv, NEW q \in Queues, NEW s \in ManagedWorker, Sound(s),
           state' = [state EXCEPT ![q] = s], UNCHANGED <<stopped, shuttingDown>>
    PROVE  state' \in [Queues -> ManagedWorker] /\ \A r \in Queues : Sound(state[r])'
<1>1. state \in [Queues -> ManagedWorker] BY DEF IInv, TypeOK
<1>2. \A r \in Queues : state'[r] = IF r = q THEN s ELSE state[r] BY <1>1
<1>3. \A r \in Queues : state'[r] \in ManagedWorker BY <1>1, <1>2
<1>4. state' \in [Queues -> ManagedWorker] BY <1>1
<1>5. ASSUME NEW r \in Queues PROVE Sound(state[r])'
  <2>1. Sound(state'[r]) BY <1>2 DEF IInv
  <2>2. QED BY <2>1 DEF Sound, Placed, Timed, Blocked
<1>6. QED BY <1>4, <1>5

(* Nor does a callback that leaves workers and flags alone disturb them.   *)
LEMMA NoWorkerKeeps ==
    ASSUME IInv, UNCHANGED <<state, stopped, shuttingDown>>
    PROVE  state' \in [Queues -> ManagedWorker] /\ \A r \in Queues : Sound(state[r])'
<1>1. ASSUME NEW r \in Queues PROVE Sound(state[r])'
  BY DEF IInv, Sound, Placed, Timed, Blocked
<1>2. QED BY <1>1 DEF IInv, TypeOK

(* The latch closes every registered worker, whatever the error did to it. *)
LEMMA LatchKeeps ==
    ASSUME IInv, NEW s \in [Queues -> ManagedWorker],
           \A q \in Queues : s[q].phase # "registered" => Sound(s[q]),
           Latch(s), UNCHANGED shuttingDown
    PROVE  /\ stopped' \in BOOLEAN
           /\ state' \in [Queues -> ManagedWorker]
           /\ \A r \in Queues : Sound(state[r])'
           /\ producer' \in [Queues -> {"new", "open", "closed"}]
           /\ \A r \in Queues : producer'[r] # "open"
<1>1. stopped' = TRUE /\ producer \in [Queues -> {"new", "open", "closed"}]
  BY DEF Latch, IInv, TypeOK
<1>2. /\ producer' \in [Queues -> {"new", "open", "closed"}]
      /\ \A r \in Queues : producer'[r] # "open"
  BY <1>1 DEF Latch
<1>3. ASSUME NEW r \in Queues
      PROVE  state'[r] \in ManagedWorker /\ Sound(state[r])'
  <2>1. s[r] \in ManagedWorker OBVIOUS
  <2>2. CASE s[r].phase # "registered"
    <3>1. state'[r] = s[r] /\ Sound(s[r]) BY <2>2 DEF Latch
    <3>2. QED BY <1>1, <2>1, <2>2, <3>1, SMTT(30) DEF Sound, Placed, Timed, Blocked
  <2>3. CASE s[r].phase = "registered"
    <3> DEFINE t == [s[r] EXCEPT !.mode = "closed", !.timer = FALSE]
    <3>1. state'[r] = t BY <2>3 DEF Latch
    <3>2. t \in ManagedWorker BY <2>1, ZenonT(60) DEF ManagedWorker
    <3>3. t.phase = "registered" /\ t.mode = "closed" /\ t.timer = FALSE
      BY <2>1, <2>3 DEF ManagedWorker
    <3> HIDE DEF t
    <3>4. Sound(state[r])'
      BY <1>1, <3>1, <3>3, SMTT(30) DEF Sound, Placed, Timed, Blocked
    <3>5. QED BY <3>1, <3>2, <3>4
  <2>4. QED BY <2>2, <2>3
<1>4. state' \in [Queues -> ManagedWorker]
  <2>1. state' = [r \in Queues |-> state'[r]] BY DEF Latch
  <2>2. QED BY <1>3, <2>1
<1>5. QED BY <1>1, <1>2, <1>3, <1>4

(* wakeWorker, whether or not the worker has been registered.              *)
LEMMA WakeKeeps ==
    ASSUME IInv, NEW q \in Queues, Wake(q), UNCHANGED <<stopped, shuttingDown>>
    PROVE  /\ demand' \in SUBSET Queues
           /\ state' \in [Queues -> ManagedWorker]
           /\ \A r \in Queues : Sound(state[r])'
<1>1. state[q] \in ManagedWorker /\ Sound(state[q]) /\ state \in [Queues -> ManagedWorker]
      /\ demand \in SUBSET Queues
  BY DEF IInv, TypeOK
<1>2. CASE Blocked \/ state[q].phase # "registered"
  <2>1. state' = state /\ demand' \in SUBSET Queues BY <1>1, <1>2 DEF Wake
  <2>2. QED BY <2>1, NoWorkerKeeps
<1>3. CASE ~Blocked /\ state[q].phase = "registered"
  <2>1. state' = [state EXCEPT ![q] = Woken(state[q])] /\ demand' \in SUBSET Queues
    BY <1>1, <1>3 DEF Wake
  <2>2. Woken(state[q]) \in ManagedWorker /\ Sound(Woken(state[q]))
    BY <1>1, <1>3, WokenSound DEF Sound
  <2>3. QED BY <2>1, <2>2, OneWorkerKeeps
<1>4. QED BY <1>2, <1>3

-------------------------------------------------------------------------------
(* The inductive invariant.                                                *)

LEMMA InitKeeps == Init => IInv
<1> SUFFICES ASSUME Init PROVE IInv
  OBVIOUS
<1>1. NewWorker \in ManagedWorker BY DEF NewWorker, ManagedWorker
<1>2. TypeOK
  <2>1. 0 \in 0..MaxPending BY PendingAssumption
  <2>2. QED BY <1>1, <2>1, Zenon DEF Init, TypeOK
<1>3. Sound(NewWorker)
  BY SMTT(30) DEF Init, Sound, Placed, Timed, Blocked, NewWorker
<1>4. QED BY <1>2, <1>3 DEF Init, IInv

(* Calls from outside.                                                     *)
LEMMA CallKeeps ==
    ASSUME IInv, NEW q \in Queues,
           WatchQueue(q) \/ StartWorker(q) \/ Enqueue(q) \/ EnqueueSucceeds(q)
             \/ EnqueueFails(q) \/ Shutdown
    PROVE  IInv'
<1> USE PendingAssumption
<1>0. TypeOK /\ state[q] \in ManagedWorker /\ pending[q] \in 0..MaxPending
  BY DEF IInv, TypeOK
<1>1. CASE WatchQueue(q)
  <2>1. UNCHANGED <<state, stopped, shuttingDown>> BY <1>1 DEF WatchQueue
  <2>2. producer' \in [Queues -> {"new", "open", "closed"}]
        /\ (stopped' => \A r \in Queues : producer'[r] # "open")
    BY <1>0, <1>1 DEF WatchQueue, IInv, TypeOK, Blocked
  <2>3. QED BY <1>0, <1>1, <2>1, <2>2, NoWorkerKeeps DEF WatchQueue, IInv, TypeOK
<1>2. CASE StartWorker(q)
  <2>1. state' = [state EXCEPT ![q] = Started(q)] /\ UNCHANGED <<stopped, shuttingDown>>
    BY <1>2 DEF StartWorker
  <2>2. state' \in [Queues -> ManagedWorker] /\ \A r \in Queues : Sound(state[r])'
    BY <2>1, StartedSound, OneWorkerKeeps
  <2>3. QED BY <1>2, <2>2 DEF StartWorker, IInv, TypeOK
<1>3. CASE Enqueue(q)
  <2>1. UNCHANGED <<state, stopped, shuttingDown>> BY <1>3 DEF Enqueue
  <2>2. pending' \in [Queues -> 0..MaxPending] BY <1>0, <1>3 DEF Enqueue, TypeOK
  <2>3. QED BY <1>3, <2>1, <2>2, NoWorkerKeeps DEF Enqueue, IInv, TypeOK
<1>4. CASE EnqueueSucceeds(q)
  <2>1. pending' \in [Queues -> 0..MaxPending]
    BY <1>0, <1>4 DEF EnqueueSucceeds, TypeOK
  <2>2. Wake(q) /\ UNCHANGED <<stopped, shuttingDown>> BY <1>4 DEF EnqueueSucceeds
  <2>3. QED BY <1>4, <2>1, <2>2, WakeKeeps DEF EnqueueSucceeds, IInv, TypeOK
<1>5. CASE EnqueueFails(q)
  <2>1. pending' \in [Queues -> 0..MaxPending] BY <1>0, <1>5 DEF EnqueueFails, TypeOK
  <2>2. CASE state' = state /\ UNCHANGED <<stopped, producer>>
    <3>1. UNCHANGED <<state, stopped, shuttingDown>> BY <1>5, <2>2 DEF EnqueueFails
    <3>2. QED BY <1>5, <2>1, <2>2, <3>1, NoWorkerKeeps DEF EnqueueFails, IInv, TypeOK
  <2>3. CASE Latch(state)
    <3>1. UNCHANGED <<shuttingDown, demand>> BY <1>5 DEF EnqueueFails
    <3>2. QED BY <2>1, <2>3, <3>1, LatchKeeps DEF IInv, TypeOK
  <2>4. QED BY <1>5, <2>2, <2>3 DEF EnqueueFails, Reported
<1>6. CASE Shutdown
  <2>1. ASSUME NEW r \in Queues
        PROVE  state'[r] \in ManagedWorker /\ Sound(state[r])'
    <3> DEFINE t == [state[r] EXCEPT !.timer = FALSE]
    <3>1. state[r] \in ManagedWorker /\ Sound(state[r]) BY DEF IInv, TypeOK
    <3>2. state'[r] = t /\ shuttingDown' = TRUE /\ stopped' = stopped
      BY <1>6 DEF Shutdown
    <3>3. t \in ManagedWorker BY <3>1, ZenonT(60) DEF ManagedWorker
    <3>4. /\ t.phase = state[r].phase /\ t.mode = state[r].mode /\ t.timer = FALSE
          /\ t.sleeping = state[r].sleeping
      BY <3>1 DEF ManagedWorker
    <3> HIDE DEF t
    <3>5. QED BY <3>1, <3>2, <3>3, <3>4, SMTT(30) DEF Sound, Placed, Timed, Blocked
  <2>2. state' = [r \in Queues |-> state'[r]] BY <1>6 DEF Shutdown
  <2>3. state' \in [Queues -> ManagedWorker] BY <2>1, <2>2
  <2>4. QED BY <1>6, <2>1, <2>3 DEF Shutdown, IInv, TypeOK
<1>7. QED BY <1>1, <1>2, <1>3, <1>4, <1>5, <1>6

(* A callback that ends in one sound worker and changes nothing else.      *)
LEMMA CallbackKeeps ==
    ASSUME IInv, NEW q \in Queues, NEW s \in ManagedWorker, Sound(s),
           state' = [state EXCEPT ![q] = s],
           UNCHANGED <<stopped, shuttingDown, demand, producer, pending>>
    PROVE  IInv'
<1>1. state' \in [Queues -> ManagedWorker] /\ \A r \in Queues : Sound(state[r])'
  BY OneWorkerKeeps
<1>2. QED BY <1>1 DEF IInv, TypeOK

(* An error that the process may survive.                                  *)
LEMMA ErrorKeeps ==
    ASSUME IInv, NEW s \in [Queues -> ManagedWorker],
           \A q \in Queues : s[q].phase # "registered" => Sound(s[q]),
           Latch(s), UNCHANGED <<shuttingDown, demand, pending>>
    PROVE  IInv'
BY LatchKeeps DEF IInv, TypeOK

(* Timers and pauses.                                                      *)
LEMMA PauseKeeps ==
    ASSUME IInv, NEW q \in Queues, TimerFires(q) \/ PauseSettles(q) \/ PauseFails(q)
    PROVE  IInv'
<1> DEFINE s == state[q]
<1>0. s \in ManagedWorker /\ Sound(s) /\ state \in [Queues -> ManagedWorker]
  BY DEF IInv, TypeOK
<1>1. CASE TimerFires(q)
  <2> DEFINE off == [s EXCEPT !.timer = FALSE]
  <2>1. off \in ManagedWorker BY <1>0, ZenonT(60) DEF ManagedWorker
  <2>2. /\ off.phase = s.phase /\ off.mode = s.mode /\ off.fresh = s.fresh
        /\ off.woken = s.woken /\ off.sleeping = s.sleeping
        /\ off.active = s.active /\ off.timer = FALSE
    BY <1>0 DEF ManagedWorker
  <2>3. UNCHANGED <<stopped, shuttingDown, demand, producer, pending>> /\ s.timer /\ ~s.fresh
    BY <1>1 DEF TimerFires
  <2>4. CASE s.active # {} \/ Blocked
    <3>1. Sound(off) BY <1>0, <2>2, <2>4, SMTT(30) DEF Sound, Placed, Timed
    <3>2. CASE state' = [state EXCEPT ![q] = off]
      <4> HIDE DEF off
      <4>1. QED BY <2>1, <2>3, <3>1, <3>2, CallbackKeeps
    <3>3. QED BY <1>1, <2>4, <3>2 DEF TimerFires
  <2>5. CASE s.active = {} /\ ~Blocked
    <3>1. PICK held \in SUBSET Tokens : state' = [state EXCEPT ![q] = Pausing(off, held)]
      BY <1>1, <2>5 DEF TimerFires
    <3> DEFINE p == Pausing(off, held)
    <3> HIDE DEF off
    <3>2. p \in ManagedWorker BY <2>1, ZenonT(60) DEF Pausing, ManagedWorker
    <3>3. /\ p.phase = s.phase /\ p.sleeping = TRUE /\ p.timer = FALSE
          /\ p.fresh = s.fresh
          /\ p.mode = IF s.mode \in {"off", "running"} THEN "pausing" ELSE s.mode
      BY <2>1, <2>2, SMTT(30) DEF Pausing, ManagedWorker
    <3> HIDE DEF p
    <3>4. s.mode \in {"off", "running", "pausing", "paused", "closed"}
      BY <1>0 DEF ManagedWorker
    <3>5. Sound(p)
      BY <1>0, <2>3, <2>5, <3>3, <3>4, SMTT(30) DEF Sound, Placed, Timed, Blocked
    <3>6. state' = [state EXCEPT ![q] = p] BY <3>1 DEF p
    <3>7. QED BY <2>3, <3>2, <3>5, <3>6, CallbackKeeps
  <2>6. QED BY <2>4, <2>5
<1>2. CASE PauseSettles(q)
  <2>1. s.sleeping /\ state' = [state EXCEPT ![q] = AfterPause(s)]
        /\ UNCHANGED <<stopped, shuttingDown, demand, producer, pending>>
    BY <1>2 DEF PauseSettles
  <2>2. AfterPause(s) \in ManagedWorker /\ Sound(AfterPause(s))
    BY <1>0, <2>1, AfterPauseSound
  <2>3. QED BY <2>1, <2>2, CallbackKeeps
<1>3. CASE PauseFails(q)
  <2>1. s.sleeping /\ UNCHANGED <<shuttingDown, demand, pending>>
    BY <1>3 DEF PauseFails
  <2>2. CASE state' = [state EXCEPT ![q] = AfterPause(s)] /\ UNCHANGED <<stopped, producer>>
    <3>1. AfterPause(s) \in ManagedWorker /\ Sound(AfterPause(s))
      BY <1>0, <2>1, AfterPauseSound
    <3>2. QED BY <2>1, <2>2, <3>1, CallbackKeeps
  <2>3. CASE Latch([state EXCEPT ![q].sleeping = FALSE, ![q].fetched = {}])
    <3> DEFINE t == [s EXCEPT !.sleeping = FALSE, !.fetched = {}]
    <3>1. [state EXCEPT ![q].sleeping = FALSE, ![q].fetched = {}] = [state EXCEPT ![q] = t]
      BY <1>0 DEF ManagedWorker
    <3>2. t \in ManagedWorker BY <1>0, ZenonT(60) DEF ManagedWorker
    <3>3. t.phase = s.phase /\ t.mode = s.mode /\ t.sleeping = FALSE /\ t.timer = s.timer
      BY <1>0 DEF ManagedWorker
    <3> HIDE DEF t
    <3>4. t.phase # "registered" => Sound(t)
      <4>1. t.phase \in {"unregistered", "registered", "removed"} BY <3>2 DEF ManagedWorker
      <4>2. QED BY <1>0, <3>3, <4>1, SMTT(30) DEF Sound, Placed, Timed
    <3> DEFINE w == [state EXCEPT ![q] = t]
    <3>5. w \in [Queues -> ManagedWorker] BY <1>0, <3>2
    <3>6. \A r \in Queues : w[r] = IF r = q THEN t ELSE state[r] BY <1>0
    <3>7. \A r \in Queues : w[r].phase # "registered" => Sound(w[r])
      BY <3>4, <3>6 DEF IInv
    <3>8. Latch(w) BY <2>3, <3>1
    <3> HIDE DEF w
    <3>9. QED BY <2>1, <3>5, <3>7, <3>8, ErrorKeeps
  <2>4. QED BY <1>3, <2>2, <2>3 DEF PauseFails
<1>4. QED BY <1>1, <1>2, <1>3

(* Runs and jobs of the BullMQ worker.                                     *)
LEMMA WorkKeeps ==
    ASSUME IInv, NEW q \in Queues,
           RunFails(q) \/ QuotaError \/ WorkerEvent(q) \/ WorkerClosed(q) \/ DemandLapses(q)
             \/ \E t \in Tokens : JobStarts(q, t) \/ JobEnds(q, t)
    PROVE  IInv'
<1> DEFINE s == state[q]
<1>0. s \in ManagedWorker /\ Sound(s) /\ state \in [Queues -> ManagedWorker]
  BY DEF IInv, TypeOK
<1>m. s.phase \in {"unregistered", "registered", "removed"}
      /\ s.mode \in {"off", "running", "pausing", "paused", "closed"}
  BY <1>0 DEF ManagedWorker
<1>1. CASE RunFails(q)
  <2> DEFINE t == [s EXCEPT !.mode = "off"]
  <2>1. s.mode = "running" /\ UNCHANGED <<shuttingDown, demand, pending>>
    BY <1>1 DEF RunFails
  <2>2. t \in ManagedWorker BY <1>0, ZenonT(60) DEF ManagedWorker
  <2>3. /\ t.phase = s.phase /\ t.mode = "off" /\ t.sleeping = s.sleeping
        /\ t.timer = s.timer /\ t.fresh = s.fresh
    BY <1>0 DEF ManagedWorker
  <2>4. [state EXCEPT ![q].mode = "off"] = [state EXCEPT ![q] = t] BY <1>0
  <2> HIDE DEF t
  <2>5. s.phase = "registered" BY <1>0, <1>m, <2>1 DEF Sound, Placed
  <2>6. CASE state' = [state EXCEPT ![q] = t] /\ UNCHANGED <<stopped, producer>>
    <3>1. ~stopped BY <1>0, <2>1, <2>5 DEF Sound, Placed
    <3>2. Sound(t)
      BY <1>0, <2>1, <2>3, <3>1, SMTT(30) DEF Sound, Placed, Timed, Blocked
    <3>3. QED BY <2>1, <2>2, <2>6, <3>2, CallbackKeeps
  <2>7. CASE Latch([state EXCEPT ![q] = t])
    <3> DEFINE w == [state EXCEPT ![q] = t]
    <3>1. w \in [Queues -> ManagedWorker] BY <1>0, <2>2
    <3>2. \A r \in Queues : w[r] = IF r = q THEN t ELSE state[r] BY <1>0
    <3>3. \A r \in Queues : w[r].phase # "registered" => Sound(w[r])
      BY <2>3, <2>5, <3>2 DEF IInv
    <3>4. Latch(w) BY <2>7
    <3> HIDE DEF w
    <3>5. QED BY <2>1, <3>1, <3>3, <3>4, ErrorKeeps
  <2>8. QED BY <1>1, <2>4, <2>6, <2>7 DEF RunFails, Reported
<1>2. CASE QuotaError
  <2>1. Latch(state) /\ UNCHANGED <<shuttingDown, demand, pending>>
    BY <1>2 DEF QuotaError
  <2>2. \A r \in Queues : state[r].phase # "registered" => Sound(state[r]) BY DEF IInv
  <2>3. QED BY <1>0, <2>1, <2>2, ErrorKeeps
<1>3. CASE WorkerEvent(q)
  <2>1. ArmIdle(s) \in ManagedWorker /\ Sound(ArmIdle(s))
    BY <1>0, ArmIdleSound DEF Sound
  <2>2. QED BY <1>3, <2>1, CallbackKeeps DEF WorkerEvent
<1>4. CASE WorkerClosed(q)
  <2> DEFINE t == [s EXCEPT !.phase = "removed", !.mode = "closed", !.timer = FALSE]
  <2>1. (s.mode = "closed" \/ shuttingDown) /\ state' = [state EXCEPT ![q] = t]
        /\ UNCHANGED <<stopped, shuttingDown, demand, producer, pending>>
    BY <1>4 DEF WorkerClosed
  <2>2. t \in ManagedWorker BY <1>0, ZenonT(60) DEF ManagedWorker
  <2>3. t.phase = "removed" /\ t.mode = "closed" /\ t.timer = FALSE
    BY <1>0 DEF ManagedWorker
  <2> HIDE DEF t
  <2>4. Sound(t)
    BY <1>0, <2>1, <2>3, SMTT(30) DEF Sound, Placed, Timed, Blocked
  <2>5. QED BY <2>1, <2>2, <2>4, CallbackKeeps
<1>5. CASE DemandLapses(q)
  <2> DEFINE t == [s EXCEPT !.fresh = FALSE]
  <2>1. state' = [state EXCEPT ![q] = t]
        /\ UNCHANGED <<stopped, shuttingDown, demand, producer, pending>>
    BY <1>0, <1>5 DEF DemandLapses
  <2>2. t \in ManagedWorker BY <1>0, ZenonT(60) DEF ManagedWorker
  <2>3. /\ t.phase = s.phase /\ t.mode = s.mode /\ t.fresh = FALSE
        /\ t.sleeping = s.sleeping /\ t.active = s.active /\ t.timer = s.timer
    BY <1>0 DEF ManagedWorker
  <2> HIDE DEF t
  <2>4. Sound(t) BY <1>0, <2>3, SMTT(30) DEF Sound, Placed, Timed
  <2>5. QED BY <2>1, <2>2, <2>4, CallbackKeeps
<1>6. ASSUME NEW k \in Tokens, JobStarts(q, k) PROVE IInv'
  <2> DEFINE t == [s EXCEPT !.active = s.active \cup {k}, !.fetched = s.fetched \ {k}]
  <2>1. state' = [state EXCEPT ![q] = t]
        /\ UNCHANGED <<stopped, shuttingDown, demand, producer, pending>>
    BY <1>0, <1>6 DEF JobStarts
  <2>2. s.active \cup {k} \in SUBSET Tokens /\ s.fetched \ {k} \in SUBSET Tokens
    BY <1>0 DEF ManagedWorker
  <2>3. t \in ManagedWorker BY <1>0, <2>2, ZenonT(60) DEF ManagedWorker
  <2>4. /\ t.phase = s.phase /\ t.mode = s.mode /\ t.fresh = s.fresh /\ t.woken = s.woken
        /\ t.sleeping = s.sleeping /\ t.active # {} /\ t.timer = s.timer
    BY <1>0 DEF ManagedWorker
  <2> HIDE DEF t
  <2>5. Sound(t) BY <1>0, <2>4, SMTT(30) DEF Sound, Placed, Timed
  <2>6. QED BY <2>1, <2>3, <2>5, CallbackKeeps
<1>7. ASSUME NEW k \in Tokens, JobEnds(q, k) PROVE IInv'
  <2> DEFINE t == [s EXCEPT !.active = s.active \ {k}]
  <2>1. state' = [state EXCEPT ![q] = ArmIdle(t)]
        /\ UNCHANGED <<stopped, shuttingDown, demand, producer, pending>>
    BY <1>0, <1>7 DEF JobEnds
  <2>2. s.active \ {k} \in SUBSET Tokens BY <1>0 DEF ManagedWorker
  <2>3. t \in ManagedWorker BY <1>0, <2>2, ZenonT(60) DEF ManagedWorker
  <2>4. /\ t.phase = s.phase /\ t.mode = s.mode /\ t.fresh = s.fresh
        /\ t.woken = s.woken /\ t.sleeping = s.sleeping
    BY <1>0 DEF ManagedWorker
  <2> HIDE DEF t
  <2>5. Placed(t) BY <1>0, <2>4, SMTT(30) DEF Sound, Placed
  <2>6. ArmIdle(t) \in ManagedWorker /\ Sound(ArmIdle(t)) BY <2>3, <2>5, ArmIdleSound
  <2>7. QED BY <2>1, <2>6, CallbackKeeps
<1>8. QED BY <1>1, <1>2, <1>3, <1>4, <1>5, <1>6, <1>7

LEMMA NextKeeps == IInv /\ [Next]_vars => IInv'
<1> SUFFICES ASSUME IInv, [Next]_vars PROVE IInv'
  OBVIOUS
<1>1. CASE UNCHANGED vars
  BY <1>1, NoWorkerKeeps DEF vars, IInv, TypeOK
<1>2. CASE Next
  <2>1. ASSUME NEW q \in Queues,
               WatchQueue(q) \/ StartWorker(q) \/ Enqueue(q) \/ EnqueueSucceeds(q)
                 \/ EnqueueFails(q)
        PROVE  IInv'
    BY <2>1, CallKeeps
  <2>2. ASSUME NEW q \in Queues, TimerFires(q) \/ PauseSettles(q) \/ PauseFails(q)
        PROVE  IInv'
    BY <2>2, PauseKeeps
  <2>3. ASSUME NEW q \in Queues,
               RunFails(q) \/ WorkerEvent(q) \/ WorkerClosed(q) \/ DemandLapses(q)
                 \/ \E t \in Tokens : JobStarts(q, t) \/ JobEnds(q, t)
        PROVE  IInv'
    BY <2>3, WorkKeeps
  <2>4. ASSUME QuotaError PROVE IInv'
    <3>1. PICK q \in Queues : TRUE BY <2>4 DEF QuotaError
    <3>2. QED BY <2>4, <3>1, WorkKeeps
  <2>5. ASSUME Shutdown PROVE IInv'
    <3>1. CASE Queues = {}
      BY <2>5, <3>1 DEF Shutdown, IInv, TypeOK
    <3>2. CASE Queues # {}
      <4>1. PICK q \in Queues : TRUE BY <3>2
      <4>2. QED BY <2>5, <4>1, CallKeeps
    <3>3. QED BY <3>1, <3>2
  <2>6. QED BY <1>2, <2>1, <2>2, <2>3, <2>4, <2>5 DEF Next
<1>3. QED BY <1>1, <1>2

-------------------------------------------------------------------------------
(* Theorems.                                                               *)

(* Workers are sound in every reachable state.                             *)
THEOREM QueueInductive == Spec => []IInv
BY InitKeeps, NextKeeps, PTL DEF Spec

(* Every flag, worker and count keeps its type.                            *)
THEOREM QueueTypeCorrect == Spec => []TypeOK
<1>1. IInv => TypeOK BY DEF IInv
<1>2. QED BY QueueInductive, <1>1, PTL

(* Recent demand never leaves a worker paused, whatever enqueue, pause and *)
(* idle timer do to each other.                                            *)
THEOREM DemandCorrect == Spec => []DemandIsServed
<1>1. IInv => DemandIsServed BY DEF IInv, Sound, Placed, DemandIsServed
<1>2. QED BY QueueInductive, <1>1, PTL

(* A worker that idles is about to be paused.                              *)
THEOREM IdleCorrect == Spec => []IdleHasTimer
<1>1. IInv => IdleHasTimer BY DEF IInv, Sound, Timed, IdleHasTimer
<1>2. QED BY QueueInductive, <1>1, PTL

(* A stop leaves no timer behind, and the latch no open worker or queue.   *)
THEOREM StopCorrect == Spec => []QuietAfterStop
<1>1. IInv => QuietAfterStop
  BY DEF IInv, Sound, Placed, Timed, QuietAfterStop, Blocked
<1>2. QED BY QueueInductive, <1>1, PTL

-------------------------------------------------------------------------------
(* What a step may not do after a stop.                                    *)

StartsNothing ==
    \A q \in Queues : state'[q].mode = "running" => state[q].mode = "running"

LEMMA OneStartsNothing ==
    ASSUME IInv, NEW q \in Queues, NEW s, state' = [state EXCEPT ![q] = s],
           s.mode = "running" => state[q].mode = "running"
    PROVE  StartsNothing
<1>1. state \in [Queues -> ManagedWorker] BY DEF IInv, TypeOK
<1>2. QED BY <1>1 DEF StartsNothing

LEMMA LatchStartsNothing ==
    ASSUME NEW s, Latch(s),
           \A q \in Queues : s[q].mode = "running" => state[q].mode = "running",
           s \in [Queues -> ManagedWorker]
    PROVE  StartsNothing
<1>1. ASSUME NEW q \in Queues, state'[q].mode = "running"
      PROVE  state[q].mode = "running"
  <2>1. s[q] \in ManagedWorker OBVIOUS
  <2>2. CASE s[q].phase # "registered"
    BY <1>1, <2>2 DEF Latch
  <2>3. CASE s[q].phase = "registered"
    <3>1. state'[q] = [s[q] EXCEPT !.mode = "closed", !.timer = FALSE]
      BY <2>3 DEF Latch
    <3>2. state'[q].mode = "closed" BY <2>1, <3>1 DEF ManagedWorker
    <3>3. QED BY <1>1, <3>2
  <2>4. QED BY <2>2, <2>3
<1>2. QED BY <1>1 DEF StartsNothing

LEMMA ArmIdleMode ==
    ASSUME NEW s \in ManagedWorker PROVE ArmIdle(s).mode = s.mode
BY DEF ArmIdle, ManagedWorker

LEMMA BlockedStep ==
    ASSUME IInv, Blocked, [Next]_vars PROVE StartsNothing
<1>1. state \in [Queues -> ManagedWorker] BY DEF IInv, TypeOK
<1>2. CASE UNCHANGED state BY <1>2 DEF StartsNothing
<1>3. ASSUME NEW q \in Queues, StartWorker(q) PROVE StartsNothing
  <2>1. [Registered EXCEPT !.mode = "closed"].mode = "closed"
    BY DEF Registered, NewWorker
  <2>2. state' = [state EXCEPT ![q] = [Registered EXCEPT !.mode = "closed"]]
    BY <1>3 DEF StartWorker, Started
  <2>3. QED BY <2>1, <2>2, OneStartsNothing
<1>4. ASSUME NEW s \in [Queues -> ManagedWorker], Reported(s),
             \A q \in Queues : s[q].mode = "running" => state[q].mode = "running"
      PROVE  StartsNothing
  <2>1. CASE Latch(s) BY <1>4, <2>1, LatchStartsNothing
  <2>2. CASE state' = s BY <1>4, <2>2 DEF StartsNothing
  <2>3. QED BY <1>4, <2>1, <2>2 DEF Reported
<1>5. ASSUME NEW q \in Queues, TimerFires(q) PROVE StartsNothing
  <2>1. state' = [state EXCEPT ![q] = [state[q] EXCEPT !.timer = FALSE]]
    BY <1>5 DEF TimerFires
  <2>2. QED BY <1>1, <2>1, OneStartsNothing DEF ManagedWorker
<1>6. ASSUME NEW q \in Queues, state[q].sleeping PROVE AfterPause(state[q]).mode # "running"
  <2>1. state[q] \in ManagedWorker /\ state[q].mode # "running"
    BY <1>1, <1>6 DEF IInv, Sound, Placed
  <2>2. QED BY <2>1, SMTT(30) DEF AfterPause, ManagedWorker
<1>7. ASSUME NEW q \in Queues, PauseSettles(q) \/ PauseFails(q) PROVE StartsNothing
  <2>1. state[q].sleeping BY <1>7 DEF PauseSettles, PauseFails
  <2>2. CASE state' = [state EXCEPT ![q] = AfterPause(state[q])]
    BY <1>6, <2>1, <2>2, OneStartsNothing
  <2>3. CASE Latch([state EXCEPT ![q].sleeping = FALSE, ![q].fetched = {}])
    <3> DEFINE t == [state[q] EXCEPT !.sleeping = FALSE, !.fetched = {}]
               w == [state EXCEPT ![q] = t]
    <3>1. [state EXCEPT ![q].sleeping = FALSE, ![q].fetched = {}] = w
      BY <1>1 DEF ManagedWorker
    <3>2. state[q] \in ManagedWorker BY <1>1
    <3>3. t \in ManagedWorker BY <3>2, ZenonT(60) DEF ManagedWorker
    <3>4. t.mode = state[q].mode BY <3>2 DEF ManagedWorker
    <3> HIDE DEF t
    <3>5. w \in [Queues -> ManagedWorker] /\ \A r \in Queues : w[r].mode = state[r].mode
      BY <1>1, <3>3, <3>4
    <3>6. Latch(w) BY <2>3, <3>1
    <3> HIDE DEF w
    <3>7. QED BY <3>5, <3>6, LatchStartsNothing
  <2>4. QED BY <1>7, <2>2, <2>3 DEF PauseSettles, PauseFails
<1>8. ASSUME NEW q \in Queues, WorkerEvent(q) \/ WorkerClosed(q) \/ DemandLapses(q)
      PROVE  StartsNothing
  <2>1. state[q] \in ManagedWorker BY <1>1
  <2>2. CASE WorkerEvent(q)
    BY <2>1, <2>2, ArmIdleMode, OneStartsNothing DEF WorkerEvent
  <2>3. CASE WorkerClosed(q)
    BY <2>1, <2>3, OneStartsNothing DEF WorkerClosed, ManagedWorker
  <2>4. CASE DemandLapses(q)
    <3>1. state' = [state EXCEPT ![q] = [state[q] EXCEPT !.fresh = FALSE]]
      BY <1>1, <2>4 DEF DemandLapses
    <3>2. QED BY <2>1, <3>1, OneStartsNothing DEF ManagedWorker
  <2>5. QED BY <1>8, <2>2, <2>3, <2>4
<1>9. ASSUME NEW q \in Queues, NEW k \in Tokens, JobStarts(q, k) \/ JobEnds(q, k)
      PROVE  StartsNothing
  <2>1. state[q] \in ManagedWorker BY <1>1
  <2>2. CASE JobStarts(q, k)
    <3>1. state' = [state EXCEPT ![q] = [state[q] EXCEPT
                      !.active = state[q].active \cup {k},
                      !.fetched = state[q].fetched \ {k}]]
      BY <1>1, <2>2 DEF JobStarts
    <3>2. QED BY <2>1, <3>1, OneStartsNothing DEF ManagedWorker
  <2>3. CASE JobEnds(q, k)
    <3> DEFINE t == [state[q] EXCEPT !.active = state[q].active \ {k}]
    <3>1. state[q].active \ {k} \in SUBSET Tokens BY <2>1 DEF ManagedWorker
    <3>2. t \in ManagedWorker BY <2>1, <3>1, ZenonT(60) DEF ManagedWorker
    <3>3. t.mode = state[q].mode BY <2>1 DEF ManagedWorker
    <3>4. state' = [state EXCEPT ![q] = ArmIdle(t)] BY <1>1, <2>3 DEF JobEnds
    <3> HIDE DEF t
    <3>5. QED BY <3>2, <3>3, <3>4, ArmIdleMode, OneStartsNothing
  <2>4. QED BY <1>9, <2>2, <2>3
<1>10. CASE Shutdown
  <2>1. \A q \in Queues : state'[q].mode = state[q].mode
    BY <1>1, <1>10 DEF Shutdown, ManagedWorker
  <2>2. QED BY <2>1 DEF StartsNothing
<1>11. CASE QuotaError BY <1>1, <1>4, <1>11 DEF QuotaError, Reported
<1>12. ASSUME NEW q \in Queues, RunFails(q) PROVE StartsNothing
  <2> DEFINE w == [state EXCEPT ![q].mode = "off"]
  <2>1. w \in [Queues -> ManagedWorker]
        /\ \A r \in Queues : w[r].mode = "running" => state[r].mode = "running"
    BY <1>1, SMTT(30) DEF ManagedWorker
  <2>2. Reported(w) BY <1>12 DEF RunFails
  <2> HIDE DEF w
  <2>3. QED BY <1>4, <2>1, <2>2
<1>13. ASSUME NEW q \in Queues, EnqueueFails(q) PROVE StartsNothing
  BY <1>1, <1>4, <1>13 DEF EnqueueFails
<1>14. ASSUME NEW q \in Queues, WatchQueue(q) \/ Enqueue(q) \/ EnqueueSucceeds(q)
       PROVE  UNCHANGED state
  BY <1>14 DEF WatchQueue, Enqueue, EnqueueSucceeds, Wake
<1>15. QED
  BY <1>2, <1>3, <1>5, <1>7, <1>8, <1>9, <1>10, <1>11, <1>12, <1>13, <1>14
  DEF Next, vars

(* After a shutdown or the quota error no pause, call or registration that *)
(* was under way starts a worker.                                          *)
THEOREM StopIsFinal == Spec => NothingStartsAfterStop
<1>1. IInv /\ [Next]_vars
      => [stopped \/ shuttingDown => \A q \in Queues :
            state'[q].mode = "running" => state[q].mode = "running"]_vars
  BY BlockedStep DEF StartsNothing, Blocked
<1>2. QED BY QueueInductive, <1>1, PTL DEF Spec, NothingStartsAfterStop
=============================================================================
