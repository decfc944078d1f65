----------------------------- MODULE WorkerPool -----------------------------
(***************************************************************************)
(* The worker pool of the gRPC server: the coroutines of WorkerMonitor     *)
(* (startup, the periodic check, the health check, the shutdown), which    *)
(* share one event loop, and the worker processes they start, watch, kill  *)
(* and replace.                                                            *)
(*                                                                         *)
(* One step of the model is one iteration of a loop over the pool, so the  *)
(* worker processes run between any two of them; other coroutines do not,  *)
(* since none of these loops contains an await.                            *)
(*                                                                         *)
(* Time is discrete.  Tick ages every recorded event by one unit, and may  *)
(* not pass the moment at which a sleep of the monitor or the idle wait of *)
(* a worker ends.  Ages above AgeCap are all alike.                        *)
(***************************************************************************)
EXTENDS Naturals, FiniteSets

CONSTANTS
  Pids,             (* Process ids the operating system can hand out; an id *)
                    (* is free again once its process has been reaped.      *)
  N,                (* pipeline_max_instances.                              *)
  InitialStartup,   (* monitor_initial_startup_time_seconds.                *)
  FullStartup,      (* monitor_full_startup_time_seconds.                   *)
  CheckInterval,    (* monitor_check_interval_seconds.                      *)
  StallTimeout,     (* worker_stall_timeout_seconds; 0 disables.            *)
  IdleInterval,     (* worker_idle_health_interval.                         *)
  Closed,           (* A slot whose Process object has been closed.         *)
  Unused            (* A slot the initial spawn has not reached.            *)

ASSUME PidsAssumption == IsFiniteSet(Pids) /\ Closed \notin Pids
                         /\ Unused \notin Pids /\ Closed # Unused
ASSUME SlotsAssumption == N \in Nat \ {0}
ASSUME TimesAssumption == /\ InitialStartup \in Nat /\ FullStartup \in Nat
                          /\ CheckInterval \in Nat \ {0}
                          /\ StallTimeout \in Nat /\ IdleInterval \in Nat \ {0}
\* An idle worker reports more often than the monitor expects it to.
ASSUME IdleAssumption == StallTimeout = 0 \/ IdleInterval <= StallTimeout

VARIABLES
  monitor,        \* where _monitor_workers is: "settling", "running" or "ended"
  turn,           \* the loop that occupies the event loop, "free" if none does
  slot,           \* index of that loop over the pool
  detected,       \* its count of dead or stalled workers
  slept,          \* how long the monitor has been in its current sleep
  starting,       \* _starting
  shutting_down,  \* _shutting_down
  server,         \* the server process: "up", "exiting" or "gone"
  pool,           \* _pipeline_processes
  proc,           \* state of the worker process behind each process id
  pending,        \* ids with an event in _global_health_queue
  sent,           \* age of the newest health event sent under an id
  known,          \* keys of _last_worker_health_event
  seen            \* age of the timestamp held there

vars == <<monitor, turn, slot, detected, slept, starting, shutting_down, server,
          pool, proc, pending, sent, known, seen>>

Slots == 1..N

MonitorStates == {"settling", "running", "ended"}
Turns == {"free", "spawn", "initial", "ready", "cycle", "health", "shutdown"}
\* "none": no process has the id, or the process was reaped.
ProcStates == {"none", "loading", "idle", "busy", "dead"}
AliveStates == {"loading", "idle", "busy"}

AgeCap == (IF StallTimeout < IdleInterval THEN IdleInterval ELSE StallTimeout) + 1
Ages == 0..AgeCap
Older(age) == IF age < AgeCap THEN age + 1 ELSE age

SleepTime == IF monitor = "settling" THEN InitialStartup ELSE CheckInterval

TypeOK ==
  /\ monitor \in MonitorStates /\ turn \in Turns
  /\ slot \in 1..N + 1 /\ detected \in 0..N
  /\ slept \in Nat
  /\ starting \in BOOLEAN /\ shutting_down \in BOOLEAN
  /\ server \in {"up", "exiting", "gone"}
  /\ pool \in [Slots -> Pids \cup {Closed, Unused}]
  /\ proc \in [Pids -> ProcStates]
  /\ pending \in SUBSET Pids /\ known \in SUBSET Pids
  /\ sent \in [Pids -> Ages] /\ seen \in [Pids -> Ages]

Alive(h) == h \in Pids /\ proc[h] \in AliveStates

\* Mutant: the age is compared with the idle interval.
StalledAfterIdleInterval(h) == /\ Alive(h) /\ StallTimeout > 0
                               /\ h \in known /\ seen[h] >= IdleInterval

(* process.is_alive() on a closed Process raises ValueError, which the     *)
(* code treats like a dead worker.                                         *)
Stalled(h) == /\ Alive(h) /\ StallTimeout > 0
              /\ h \in known /\ seen[h] > StallTimeout

Broken(h) == ~Alive(h) \/ Stalled(h)

-----------------------------------------------------------------------------
(***************************************************************************)
(* The health queue and the map of last events.                            *)
(***************************************************************************)

(* A worker puts an event: the only one still queued under its id that     *)
(* matters, because draining leaves the newest timestamp in the map.       *)
SendHealthEvent(p) == pending' = pending \cup {p} /\ sent' = [sent EXCEPT ![p] = 0]

DrainHealthQueue ==
  /\ known' = known \cup pending
  /\ seen' = [p \in Pids |-> IF p \in pending THEN sent[p] ELSE seen[p]]
  /\ pending' = {}

(* Terminate, join, forget the last event, close: the id becomes free.     *)
Killed(h) == IF h \in Pids THEN [proc EXCEPT ![h] = "none"] ELSE proc
Forgotten(h) == known \ {h}

-----------------------------------------------------------------------------
(***************************************************************************)
(* Startup.                                                                *)
(***************************************************************************)
Init ==
  /\ monitor = "settling" /\ turn = "spawn" /\ slot = 1 /\ detected = 0 /\ slept = 0
  /\ starting = TRUE /\ shutting_down = FALSE /\ server = "up"
  /\ pool = [i \in Slots |-> Unused]
  /\ proc = [p \in Pids |-> "none"]
  /\ pending = {} /\ known = {}
  /\ sent = [p \in Pids |-> 0] /\ seen = [p \in Pids |-> 0]

\* Mutant: the loop starts one process too many.
SpawnOneTooMany(p) ==
  /\ turn = "spawn" /\ slot <= N + 1 /\ proc[p] = "none"
  /\ pool' = [i \in Slots |-> IF i = slot THEN p ELSE pool[i]]
  /\ proc' = [proc EXCEPT ![p] = "loading"]
  /\ slot' = slot + 1
  /\ UNCHANGED <<monitor, turn, detected, slept, starting, shutting_down, server,
                 pending, sent, known, seen>>

\* Mutant: the initial processes get an event when they are started.
SpawnWithEvent(p) ==
  /\ turn = "spawn" /\ slot <= N /\ proc[p] = "none"
  /\ pool' = [pool EXCEPT ![slot] = p]
  /\ proc' = [proc EXCEPT ![p] = "loading"]
  /\ known' = known \cup {p} /\ seen' = [seen EXCEPT ![p] = 0]
  /\ slot' = slot + 1
  /\ UNCHANGED <<monitor, turn, detected, slept, starting, shutting_down, server,
                 pending, sent>>

(* The initial processes are started without an event of their own, so     *)
(* that only their ready event counts them in.                             *)
SpawnInitial(p) ==
  /\ turn = "spawn" /\ slot <= N /\ proc[p] = "none"
  /\ pool' = [pool EXCEPT ![slot] = p]
  /\ proc' = [proc EXCEPT ![p] = "loading"]
  /\ slot' = slot + 1
  /\ UNCHANGED <<monitor, turn, detected, slept, starting, shutting_down, server,
                 pending, sent, known, seen>>

(* Starting a process fails: the exception ends the monitor's task.        *)
SpawnInitialFails ==
  /\ turn = "spawn" /\ slot <= N
  /\ monitor' = "ended" /\ turn' = "free" /\ slot' = 1
  /\ UNCHANGED <<detected, slept, starting, shutting_down, server,
                 pool, proc, pending, sent, known, seen>>

Settle ==
  /\ turn = "spawn" /\ slot = N + 1
  /\ turn' = "free" /\ slot' = 1 /\ slept' = 0
  /\ UNCHANGED <<monitor, detected, starting, shutting_down, server,
                 pool, proc, pending, sent, known, seen>>

(* The timeout over the whole startup can only fire in its one await, the  *)
(* initial sleep.                                                          *)
StartupTimeout ==
  /\ turn = "free" /\ monitor = "settling" /\ server = "up"
  /\ slept >= FullStartup
  /\ monitor' = "ended" /\ server' = "exiting"
  /\ UNCHANGED <<turn, slot, detected, slept, starting, shutting_down,
                 pool, proc, pending, sent, known, seen>>

InitialCheck ==
  /\ turn = "free" /\ monitor = "settling" /\ server = "up"
  /\ slept >= InitialStartup
  /\ turn' = "initial" /\ slot' = 1 /\ detected' = 0
  /\ UNCHANGED <<monitor, slept, starting, shutting_down, server,
                 pool, proc, pending, sent, known, seen>>

(* The wait for the ready events drains the queue over and over without an *)
(* await: the event loop is blocked until it ends.                         *)
AwaitReady ==
  /\ turn = "ready" /\ Cardinality(known) < N
  /\ DrainHealthQueue
  /\ UNCHANGED <<monitor, turn, slot, detected, slept, starting, shutting_down,
                 server, pool, proc, sent>>

AllReady ==
  /\ turn = "ready" /\ Cardinality(known) >= N
  /\ starting' = FALSE
  /\ monitor' = "running" /\ turn' = "free" /\ slept' = 0
  /\ UNCHANGED <<slot, detected, shutting_down, server,
                 pool, proc, pending, sent, known, seen>>

-----------------------------------------------------------------------------
(***************************************************************************)
(* _detect_dead_workers, run by the initial check, by the periodic check   *)
(* (which replaces what it finds) and by the health check.                 *)
(***************************************************************************)
Detecting == turn \in {"initial", "cycle", "health"} /\ slot <= N

MonitorWake ==
  /\ turn = "free" /\ monitor = "running" /\ server = "up"
  /\ slept >= CheckInterval /\ ~shutting_down
  /\ DrainHealthQueue
  /\ turn' = "cycle" /\ slot' = 1 /\ detected' = 0
  /\ UNCHANGED <<monitor, slept, starting, shutting_down, server, pool, proc, sent>>

(* handle_health_check; its early return changes nothing.                  *)
HealthCheck ==
  /\ turn = "free" /\ server = "up" /\ ~starting /\ ~shutting_down
  /\ turn' = "health" /\ slot' = 1 /\ detected' = 0
  /\ UNCHANGED <<monitor, slept, starting, shutting_down, server,
                 pool, proc, pending, sent, known, seen>>

PassSlot ==
  /\ Detecting /\ ~Broken(pool[slot])
  /\ slot' = slot + 1
  /\ UNCHANGED <<monitor, turn, detected, slept, starting, shutting_down, server,
                 pool, proc, pending, sent, known, seen>>

\* Mutant: a slot that was closed before is not counted.
KillSlotUncounted ==
  /\ Detecting /\ turn # "cycle" /\ Broken(pool[slot])
  /\ proc' = Killed(pool[slot]) /\ known' = Forgotten(pool[slot])
  /\ pool' = [pool EXCEPT ![slot] = Closed]
  /\ slot' = slot + 1
  /\ detected' = IF pool[slot] = Closed THEN detected ELSE detected + 1
  /\ UNCHANGED <<monitor, turn, slept, starting, shutting_down, server,
                 pending, sent, seen>>

(* Without replacement the closed Process object stays in the pool.        *)
KillSlot ==
  /\ Detecting /\ turn # "cycle" /\ Broken(pool[slot])
  /\ proc' = Killed(pool[slot]) /\ known' = Forgotten(pool[slot])
  /\ pool' = [pool EXCEPT ![slot] = Closed]
  /\ slot' = slot + 1 /\ detected' = detected + 1
  /\ UNCHANGED <<monitor, turn, slept, starting, shutting_down, server,
                 pending, sent, seen>>

\* Mutant: the stalled process is replaced without being killed.
ReplaceWithoutKill(p) ==
  /\ Detecting /\ turn = "cycle" /\ Broken(pool[slot]) /\ proc[p] = "none"
  /\ proc' = [proc EXCEPT ![p] = "loading"]
  /\ pool' = [pool EXCEPT ![slot] = p]
  /\ known' = Forgotten(pool[slot]) \cup {p} /\ seen' = [seen EXCEPT ![p] = 0]
  /\ slot' = slot + 1 /\ detected' = detected + 1
  /\ UNCHANGED <<monitor, turn, slept, starting, shutting_down, server, pending, sent>>

\* Mutant: a slot closed by a health check is counted but not filled.
ReplaceOnlyUnclosed(p) ==
  /\ Detecting /\ turn = "cycle" /\ Broken(pool[slot])
  /\ Killed(pool[slot])[p] = "none"
  /\ IF pool[slot] = Closed
       THEN UNCHANGED <<pool, proc, known, seen>>
       ELSE /\ proc' = [Killed(pool[slot]) EXCEPT ![p] = "loading"]
            /\ pool' = [pool EXCEPT ![slot] = p]
            /\ known' = Forgotten(pool[slot]) \cup {p} /\ seen' = [seen EXCEPT ![p] = 0]
  /\ slot' = slot + 1 /\ detected' = detected + 1
  /\ UNCHANGED <<monitor, turn, slept, starting, shutting_down, server, pending, sent>>

(* The new process gets a fresh event.  It may get the id of the old one.  *)
ReplaceSlot(p) ==
  /\ Detecting /\ turn = "cycle" /\ Broken(pool[slot])
  /\ Killed(pool[slot])[p] = "none"
  /\ proc' = [Killed(pool[slot]) EXCEPT ![p] = "loading"]
  /\ pool' = [pool EXCEPT ![slot] = p]
  /\ known' = Forgotten(pool[slot]) \cup {p} /\ seen' = [seen EXCEPT ![p] = 0]
  /\ slot' = slot + 1 /\ detected' = detected + 1
  /\ UNCHANGED <<monitor, turn, slept, starting, shutting_down, server, pending, sent>>

\* Mutant: the exception ends the monitor.
ReplaceFailsForGood ==
  /\ Detecting /\ turn = "cycle" /\ Broken(pool[slot])
  /\ proc' = Killed(pool[slot]) /\ known' = Forgotten(pool[slot])
  /\ pool' = [pool EXCEPT ![slot] = Closed]
  /\ monitor' = "ended" /\ turn' = "free" /\ slot' = 1 /\ slept' = 0 /\ detected' = 0
  /\ UNCHANGED <<starting, shutting_down, server, pending, sent, seen>>

(* The new process cannot be started: the exception ends this cycle, and   *)
(* the monitor goes back to sleep until the next one.                      *)
ReplaceFails ==
  /\ Detecting /\ turn = "cycle" /\ Broken(pool[slot])
  /\ proc' = Killed(pool[slot]) /\ known' = Forgotten(pool[slot])
  /\ pool' = [pool EXCEPT ![slot] = Closed]
  /\ turn' = "free" /\ slot' = 1 /\ slept' = 0 /\ detected' = 0
  /\ UNCHANGED <<monitor, starting, shutting_down, server, pending, sent, seen>>

(* exit(1) if the initial check found anything.                            *)
InitialCheckDone ==
  /\ turn = "initial" /\ slot = N + 1
  /\ IF detected > 0
       THEN monitor' = "ended" /\ server' = "exiting" /\ turn' = "free"
       ELSE turn' = "ready" /\ UNCHANGED <<monitor, server>>
  /\ slot' = 1 /\ detected' = 0
  /\ UNCHANGED <<slept, starting, shutting_down, pool, proc, pending, sent, known, seen>>

CycleDone ==
  /\ turn = "cycle" /\ slot = N + 1
  /\ turn' = "free" /\ slot' = 1 /\ detected' = 0 /\ slept' = 0
  /\ UNCHANGED <<monitor, starting, shutting_down, server,
                 pool, proc, pending, sent, known, seen>>

(* What handle_health_check returns at its end.                            *)
ReportsHealthy == N - detected > 0

HealthCheckDone ==
  /\ turn = "health" /\ slot = N + 1
  /\ turn' = "free" /\ slot' = 1 /\ detected' = 0
  /\ UNCHANGED <<monitor, slept, starting, shutting_down, server,
                 pool, proc, pending, sent, known, seen>>

-----------------------------------------------------------------------------
(***************************************************************************)
(* Shutdown, and the end of the server process.                            *)
(***************************************************************************)
HandleShutdown ==
  /\ turn = "free" /\ server = "up" /\ ~shutting_down
  /\ shutting_down' = TRUE /\ monitor' = "ended"
  /\ turn' = "shutdown" /\ slot' = 1
  /\ UNCHANGED <<detected, slept, starting, server, pool, proc, pending, sent, known, seen>>

\* Mutant: only workers with a known event are terminated.
StopKnownSlot ==
  /\ turn = "shutdown" /\ slot <= N /\ pool[slot] \in Pids
  /\ proc' = IF Alive(pool[slot]) /\ pool[slot] \in known
               THEN [proc EXCEPT ![pool[slot]] = "dead"] ELSE proc
  /\ slot' = slot + 1
  /\ UNCHANGED <<monitor, turn, detected, slept, starting, shutting_down, server,
                 pool, pending, sent, known, seen>>

(* is_alive() of a worker of the pool; an alive one is terminated and      *)
(* joined.                                                                 *)
StopSlot ==
  /\ turn = "shutdown" /\ slot <= N /\ pool[slot] \in Pids
  /\ proc' = IF Alive(pool[slot]) THEN [proc EXCEPT ![pool[slot]] = "dead"] ELSE proc
  /\ slot' = slot + 1
  /\ UNCHANGED <<monitor, turn, detected, slept, starting, shutting_down, server,
                 pool, pending, sent, known, seen>>

(* The loop ends behind the last entry of the list, or at a closed entry,  *)
(* whose is_alive() raises ValueError.  Either way the server exits.       *)
ShutdownEnds ==
  /\ turn = "shutdown" /\ (slot <= N => pool[slot] \notin Pids)
  /\ turn' = "free" /\ server' = "exiting"
  /\ UNCHANGED <<monitor, slot, detected, slept, starting, shutting_down,
                 pool, proc, pending, sent, known, seen>>

(* The interpreter joins every child process before it ends.               *)
ServerEnds ==
  /\ server = "exiting" /\ \A p \in Pids : ~Alive(p)
  /\ server' = "gone"
  /\ UNCHANGED <<monitor, turn, slot, detected, slept, starting, shutting_down,
                 pool, proc, pending, sent, known, seen>>

Shutdown == StopSlot \/ ShutdownEnds \/ ServerEnds

-----------------------------------------------------------------------------
(***************************************************************************)
(* The worker processes.                                                   *)
(***************************************************************************)
ServerUnchanged == UNCHANGED <<monitor, turn, slot, detected, slept, starting,
                               shutting_down, server, pool, known, seen>>

(* The pipeline is built; the ready event.                                 *)
BecomeReady(p) ==
  /\ proc[p] = "loading" /\ proc' = [proc EXCEPT ![p] = "idle"]
  /\ SendHealthEvent(p) /\ ServerUnchanged

TakeTask(p) ==
  /\ proc[p] = "idle" /\ proc' = [proc EXCEPT ![p] = "busy"]
  /\ UNCHANGED <<pending, sent>> /\ ServerUnchanged

FinishTask(p) ==
  /\ proc[p] = "busy" /\ proc' = [proc EXCEPT ![p] = "idle"]
  /\ SendHealthEvent(p) /\ ServerUnchanged

(* The queue stayed empty for the whole wait.                              *)
IdleHeartbeat(p) ==
  /\ proc[p] = "idle" /\ sent[p] >= IdleInterval
  /\ SendHealthEvent(p) /\ UNCHANGED proc /\ ServerUnchanged

(* An exception of the pipeline, or the process is killed from outside.    *)
Die(p) ==
  /\ proc[p] \in AliveStates /\ proc' = [proc EXCEPT ![p] = "dead"]
  /\ UNCHANGED <<pending, sent>> /\ ServerUnchanged

WorkerStep(p) == BecomeReady(p) \/ TakeTask(p) \/ FinishTask(p) \/ IdleHeartbeat(p) \/ Die(p)

-----------------------------------------------------------------------------
(* The monitor's sleep ends on time, and so does an idle worker's wait;    *)
(* loops over the pool take no time.                                       *)
Tick ==
  /\ turn \in {"free", "ready"}
  /\ (turn = "free" /\ monitor # "ended" /\ server = "up") =>
        slept < SleepTime /\ (monitor = "settling" => slept < FullStartup)
  /\ \A p \in Pids : proc[p] = "idle" => sent[p] < IdleInterval
  /\ slept' = IF turn = "free" /\ monitor # "ended" THEN slept + 1 ELSE slept
  /\ sent' = [p \in Pids |-> Older(sent[p])]
  /\ seen' = [p \in Pids |-> Older(seen[p])]
  /\ UNCHANGED <<monitor, turn, slot, detected, starting, shutting_down, server,
                 pool, proc, pending, known>>

Startup == \/ \E p \in Pids : SpawnInitial(p)
           \/ SpawnInitialFails \/ Settle \/ StartupTimeout \/ InitialCheck
           \/ AwaitReady \/ AllReady

Detection == \/ MonitorWake \/ HealthCheck \/ PassSlot \/ KillSlot
             \/ \E p \in Pids : ReplaceSlot(p)
             \/ ReplaceFails \/ InitialCheckDone \/ CycleDone \/ HealthCheckDone

Next == \/ Startup \/ Detection \/ HandleShutdown \/ Shutdown \/ Tick
        \/ \E p \in Pids : WorkerStep(p)

Spec == Init /\ [][Next]_vars

(* Weak fairness: whatever occupies the event loop runs on, a timer that   *)
(* is due fires, and a worker that is alive makes progress.                *)
(* Strong fairness: the event loop serves its ready callbacks in order, so *)
(* health checks cannot keep the monitor from waking up; time passes; and  *)
(* the operating system does not refuse a new process for a slot forever.  *)
LoopStep == \/ \E p \in Pids : SpawnInitial(p) \/ ReplaceSlot(p)
            \/ Settle \/ AwaitReady \/ AllReady \/ PassSlot \/ KillSlot
            \/ InitialCheckDone \/ CycleDone \/ HealthCheckDone \/ Shutdown

Fairness ==
  /\ WF_vars(LoopStep) /\ WF_vars(InitialCheck)
  /\ SF_vars(MonitorWake) /\ SF_vars(Tick)
  /\ \A i \in Slots : SF_vars(slot = i /\ \E p \in Pids : ReplaceSlot(p))
  /\ \A p \in Pids : WF_vars(BecomeReady(p)) /\ WF_vars(IdleHeartbeat(p))

FairSpec == Spec /\ Fairness

-----------------------------------------------------------------------------
(***************************************************************************)
(* Safety.                                                                 *)
(***************************************************************************)

(* The step kills or cleans up what slot i holds, as dead or stalled.      *)
Cleared(i) == Detecting /\ slot = i /\ (detected' > detected \/ pool'[i] # pool[i])

(* No worker process is ever lost or shared: a process that exists is the  *)
(* process of exactly one slot of the pool, whatever kills, replacements,  *)
(* failed starts and reused process ids came before (_pipeline_processes). *)
EveryProcessHasOneSlot ==
  /\ \A p \in Pids : proc[p] # "none" => \E i \in Slots : pool[i] = p
  /\ \A i \in Slots : pool[i] \in Pids =>
       /\ proc[pool[i]] # "none"
       /\ \A j \in Slots : pool[j] = pool[i] => j = i

(* The monitor starts to serve only once every worker of the pool has      *)
(* built its pipeline (the wait for N distinct ids in the event map).      *)
ServesOnlyWhenAllReady ==
  [][(starting /\ ~starting') =>
       \A i \in Slots : pool[i] \in Pids /\ proc[pool[i]] # "loading"]_vars

(* A worker that has reported is killed as stalled only if it was silent   *)
(* for the whole window or its newest event is still in the queue; one     *)
(* that waits for a task, only in the latter case.                         *)
StalledWorkerIsSilentOrUnread ==
  [][\A i \in Slots :
       (Cleared(i) /\ pool[i] \in Pids /\ pool[i] \notin pending) =>
         /\ proc[pool[i]] # "idle"
         /\ proc[pool[i]] = "busy" => sent[pool[i]] > StallTimeout]_vars

(* At the end of a health check the server reports healthy exactly if it   *)
(* still holds a process that was neither dead nor stalled when checked:   *)
(* every other slot has been closed, and a closed slot counts as dead.     *)
HealthAnswerMatchesPool ==
  (turn = "health" /\ slot = N + 1) =>
    (ReportsHealthy <=> \E i \in Slots : pool[i] \in Pids)

(* A periodic check that was not cut short leaves a process in every slot, *)
(* also in those a health check or a failed cycle had closed.              *)
CompletedCycleRestoresPool ==
  (turn = "cycle" /\ slot = N + 1) => \A i \in Slots : pool[i] \in Pids

(* A worker that outlives handle_shutdown stands behind a closed slot: the *)
(* shutdown loop stops every worker up to the first Process object whose   *)
(* is_alive() raises.                                                      *)
SurvivorsStandBehindAClosedSlot ==
  (shutting_down /\ server # "up") =>
    \A i \in Slots : Alive(pool[i]) => \E j \in 1..i - 1 : pool[j] = Closed

(***************************************************************************)
(* Liveness.                                                               *)
(***************************************************************************)

(* While the server is up and serving, a dead, stalled or closed slot gets *)
(* a live worker again, whatever health checks and failed starts happen.   *)
BrokenSlotRecovers ==
  \A i \in Slots : (~starting /\ Broken(pool[i])) ~> (~Broken(pool[i]) \/ shutting_down)

(* Workers stop dying, and a worker that is being started is ready before  *)
(* its start is further back than the stall timeout.                       *)
WorkersKeepUp ==
  /\ <>[][\A p \in Pids : ~Die(p)]_vars
  /\ <>[](\A p \in known : proc[p] = "loading" => seen[p] <= StallTimeout)

(* If so, every slot of a serving server works again and again: neither    *)
(* the checks nor the health checks, whatever they kill, replace a worker  *)
(* over and over before it has built its pipeline.  Tasks may still hang.  *)
RecoveryReachesService ==
  WorkersKeepUp =>
    \A i \in Slots : []<>(starting \/ shutting_down
                           \/ (pool[i] \in Pids /\ proc[pool[i]] \in {"idle", "busy"}))

(***************************************************************************)
(* What the repository says and the code does not do.                      *)
(***************************************************************************)

(* "terminating all worker processes" (handle_shutdown).                   *)
ShutdownStopsEveryWorker ==
  (shutting_down /\ server # "up") => \A i \in Slots : ~Alive(pool[i])

(* "set timeout to ensure all workers started properly" (_monitor_workers):*)
(* the wait for the ready events ends.                                     *)
ReadyWaitEnds == (turn = "ready") ~> (turn # "ready")
=============================================================================
