-------------------------- MODULE WorkerPoolProofs --------------------------
(***************************************************************************)
(* Theorems about WorkerPool, for any number of slots and process ids and  *)
(* any timing that satisfies the assumptions of that module.               *)
(***************************************************************************)
EXTENDS WorkerPool, FiniteSetTheorems, TLAPS

USE DEF Slots, MonitorStates, Turns, ProcStates, AliveStates

(* A loop of _detect_dead_workers has counted at most the slots it passed. *)
CountInv == turn \in {"initial", "cycle", "health"} => detected < slot

TypeInv == TypeOK /\ CountInv

-----------------------------------------------------------------------------
(***************************************************************************)
(* Types.                                                                  *)
(***************************************************************************)

(* The cap on ages is a natural number above both bounds of the code.      *)
LEMMA AgeCapType == /\ AgeCap \in Nat \ {0}
                    /\ AgeCap > StallTimeout /\ AgeCap > IdleInterval
  BY TimesAssumption DEF AgeCap

LEMMA OlderType == ASSUME NEW a \in Ages PROVE Older(a) \in Ages
  BY AgeCapType DEF Ages, Older

LEMMA ZeroAge == 0 \in Ages
  BY AgeCapType DEF Ages

(* Every action keeps the types, and the count below the loop's index.     *)
LEMMA TypeStep == TypeInv /\ [Next]_vars => TypeInv'
<1> SUFFICES ASSUME TypeInv, [Next]_vars PROVE TypeInv'
    OBVIOUS
<1> USE SlotsAssumption, ZeroAge DEF TypeInv, TypeOK, CountInv
<1>1. ASSUME NEW p \in Pids, SpawnInitial(p) PROVE TypeInv'
      BY <1>1 DEF SpawnInitial
<1>2. CASE SpawnInitialFails \/ Settle \/ StartupTimeout
      BY <1>2 DEF SpawnInitialFails, Settle, StartupTimeout
<1>3. CASE InitialCheck
      BY <1>3 DEF InitialCheck
<1>4. CASE AllReady
      BY <1>4 DEF AllReady
<1>5. CASE HealthCheck
      BY <1>5 DEF HealthCheck
<1>6. CASE AwaitReady
      BY <1>6 DEF AwaitReady, DrainHealthQueue
<1>7. CASE MonitorWake
      BY <1>7 DEF MonitorWake, DrainHealthQueue
<1>8. CASE PassSlot
      BY <1>8 DEF PassSlot, Detecting
<1>9. CASE KillSlot
      BY <1>9 DEF KillSlot, Detecting, Killed, Forgotten
<1>10. ASSUME NEW p \in Pids, ReplaceSlot(p) PROVE TypeInv'
      BY <1>10 DEF ReplaceSlot, Detecting, Killed, Forgotten
<1>11. CASE ReplaceFails
      BY <1>11 DEF ReplaceFails, Detecting, Killed, Forgotten
<1>12. CASE InitialCheckDone
       BY <1>12 DEF InitialCheckDone
<1>13. CASE CycleDone \/ HealthCheckDone
       BY <1>13 DEF CycleDone, HealthCheckDone
<1>14. CASE HandleShutdown
       BY <1>14 DEF HandleShutdown
<1>15. CASE StopSlot
       BY <1>15 DEF StopSlot
<1>16. CASE ShutdownEnds \/ ServerEnds
       BY <1>16 DEF ShutdownEnds, ServerEnds
<1>17. ASSUME NEW p \in Pids, WorkerStep(p) PROVE TypeInv'
       BY <1>17 DEF WorkerStep, BecomeReady, TakeTask, FinishTask, IdleHeartbeat, Die,
                    SendHealthEvent, ServerUnchanged
<1>18. CASE Tick
  <2>1. sent' \in [Pids -> Ages] /\ seen' \in [Pids -> Ages]
        BY <1>18, OlderType DEF Tick
  <2>2. QED
        BY <1>18, <2>1 DEF Tick
<1>19. CASE UNCHANGED vars
       BY <1>19 DEF vars
<1>20. QED
       BY <1>1, <1>2, <1>3, <1>4, <1>5, <1>6, <1>7, <1>8, <1>9,
          <1>10, <1>11, <1>12, <1>13, <1>14, <1>15, <1>16, <1>17, <1>18, <1>19
          DEF Next, Startup, Detection, Shutdown

(* The initial state has the types.                                        *)
LEMMA InitTypes == Init => TypeInv
<1>1. Init => TypeOK
  <2>1. Init => /\ pool \in [Slots -> Pids \cup {Closed, Unused}]
                  /\ proc \in [Pids -> ProcStates]
        BY DEF Init
  <2>2. Init => sent \in [Pids -> Ages] /\ seen \in [Pids -> Ages]
        BY ZeroAge DEF Init
  <2>3. Init => slot \in 1..N + 1 /\ detected \in 0..N
        BY SlotsAssumption DEF Init
  <2>4. Init => /\ monitor \in MonitorStates /\ turn \in Turns /\ slept \in Nat
                  /\ server \in {"up", "exiting", "gone"}
                  /\ pending \in SUBSET Pids /\ known \in SUBSET Pids
        BY DEF Init
  <2>5. Init => starting \in BOOLEAN /\ shutting_down \in BOOLEAN
        BY Zenon DEF Init
  <2>6. QED
        BY <2>1, <2>2, <2>3, <2>4, <2>5 DEF TypeOK
<1>2. Init => CountInv
      BY DEF Init, CountInv
<1>3. QED
      BY <1>1, <1>2 DEF TypeInv

(* The variables always have their types (TypeOK).                         *)
THEOREM TypeCorrect == Spec => []TypeOK
<1>1. TypeInv => TypeOK
      BY DEF TypeInv
<1>2. QED
      BY <1>1, InitTypes, TypeStep, PTL DEF Spec

-----------------------------------------------------------------------------
(***************************************************************************)
(* Processes and slots.                                                    *)
(***************************************************************************)

(* While the initial spawn runs, the slots behind its index are unused.    *)
SpawnInv == turn = "spawn" =>
              /\ monitor = "settling" /\ starting
              /\ \A i \in Slots : IF i < slot THEN pool[i] \in Pids ELSE pool[i] = Unused

SlotInv == EveryProcessHasOneSlot /\ SpawnInv

(* The steps that touch neither the pool nor the spawn.                    *)
LEMMA SlotFrame ==
  ASSUME SlotInv, UNCHANGED pool,
         UNCHANGED <<turn, slot, monitor, starting>> \/ turn' # "spawn",
         \A p \in Pids : (proc'[p] = "none") <=> (proc[p] = "none")
  PROVE  SlotInv'
  BY DEF SlotInv, EveryProcessHasOneSlot, SpawnInv

LEMMA SlotStep == TypeInv /\ SlotInv /\ [Next]_vars => SlotInv'
<1> SUFFICES ASSUME TypeInv, SlotInv, [Next]_vars PROVE SlotInv'
    OBVIOUS
<1> USE SlotsAssumption, PidsAssumption DEF TypeInv, TypeOK
<1>1. ASSUME NEW p \in Pids, SpawnInitial(p) PROVE SlotInv'
  <2>1. pool[slot] = Unused /\ slot \in Slots /\ \A i \in Slots : pool[i] # p
        BY <1>1 DEF SpawnInitial, SlotInv, SpawnInv, EveryProcessHasOneSlot
  <2>2. EveryProcessHasOneSlot'
    <3>1. ASSUME NEW q \in Pids, proc'[q] # "none" PROVE \E i \in Slots : pool'[i] = q
          BY <1>1, <2>1, <3>1 DEF SpawnInitial, SlotInv, EveryProcessHasOneSlot
    <3>2. ASSUME NEW i \in Slots, pool'[i] \in Pids
          PROVE  /\ proc'[pool'[i]] # "none"
                 /\ \A j \in Slots : pool'[j] = pool'[i] => j = i
          BY <1>1, <2>1, <3>2 DEF SpawnInitial, SlotInv, EveryProcessHasOneSlot
    <3>3. QED
          BY <3>1, <3>2 DEF EveryProcessHasOneSlot
  <2>3. SpawnInv'
        BY <1>1, <2>1 DEF SpawnInitial, SlotInv, SpawnInv
  <2>4. QED
        BY <2>2, <2>3 DEF SlotInv
<1>2. ASSUME Detecting, NEW h, h = pool[slot], pool' = [pool EXCEPT ![slot] = Closed],
             proc' = Killed(h), turn' # "spawn"
      PROVE  SlotInv'
  <2>1. ASSUME NEW q \in Pids, proc'[q] # "none" PROVE \E i \in Slots : pool'[i] = q
        BY <1>2, <2>1 DEF Detecting, Killed, SlotInv, EveryProcessHasOneSlot
  <2>2. ASSUME NEW i \in Slots, pool'[i] \in Pids
        PROVE  /\ proc'[pool'[i]] # "none"
               /\ \A j \in Slots : pool'[j] = pool'[i] => j = i
        BY <1>2, <2>2 DEF Detecting, Killed, SlotInv, EveryProcessHasOneSlot
  <2>3. QED
        BY <1>2, <2>1, <2>2 DEF SlotInv, EveryProcessHasOneSlot, SpawnInv
<1>3. CASE KillSlot \/ ReplaceFails
  <2>1. Detecting /\ pool' = [pool EXCEPT ![slot] = Closed] /\ proc' = Killed(pool[slot])
        BY <1>3 DEF KillSlot, ReplaceFails
  <2>2. turn' # "spawn"
        BY <1>3 DEF KillSlot, ReplaceFails, Detecting
  <2>3. QED
        BY <1>2, <2>1, <2>2
<1>4. ASSUME NEW p \in Pids, ReplaceSlot(p) PROVE SlotInv'
  <2> DEFINE h == pool[slot]
  <2>1. slot \in Slots /\ turn' # "spawn"
        BY <1>4 DEF ReplaceSlot, Detecting
  <2>2. \A i \in Slots : pool[i] = p => i = slot
        BY <1>4, <2>1 DEF ReplaceSlot, Killed, SlotInv, EveryProcessHasOneSlot
  <2>3. ASSUME NEW q \in Pids, proc'[q] # "none" PROVE \E i \in Slots : pool'[i] = q
        BY <1>4, <2>1, <2>3 DEF ReplaceSlot, Killed, SlotInv, EveryProcessHasOneSlot
  <2>4. ASSUME NEW i \in Slots, pool'[i] \in Pids
        PROVE  /\ proc'[pool'[i]] # "none"
               /\ \A j \in Slots : pool'[j] = pool'[i] => j = i
        BY <1>4, <2>1, <2>2, <2>4 DEF ReplaceSlot, Killed, SlotInv, EveryProcessHasOneSlot
  <2>5. QED
        BY <2>1, <2>3, <2>4 DEF SlotInv, EveryProcessHasOneSlot, SpawnInv
<1>5. CASE SpawnInitialFails \/ Settle \/ StartupTimeout \/ InitialCheck \/ AllReady
      BY <1>5, SlotFrame DEF SpawnInitialFails, Settle, StartupTimeout, InitialCheck, AllReady
<1>6. CASE AwaitReady \/ MonitorWake \/ HealthCheck \/ PassSlot
      BY <1>6, SlotFrame DEF AwaitReady, MonitorWake, HealthCheck, PassSlot, Detecting
<1>7. CASE InitialCheckDone \/ CycleDone \/ HealthCheckDone \/ HandleShutdown
      BY <1>7, SlotFrame DEF InitialCheckDone, CycleDone, HealthCheckDone, HandleShutdown
<1>8. CASE StopSlot
      BY <1>8, SlotFrame DEF StopSlot, Alive
<1>9. CASE ShutdownEnds \/ ServerEnds \/ Tick
      BY <1>9, SlotFrame DEF ShutdownEnds, ServerEnds, Tick
<1>10. ASSUME NEW p \in Pids, WorkerStep(p) PROVE SlotInv'
       BY <1>10, SlotFrame DEF WorkerStep, BecomeReady, TakeTask, FinishTask, IdleHeartbeat,
                               Die, ServerUnchanged
<1>11. CASE UNCHANGED vars
       BY <1>11, SlotFrame DEF vars
<1>12. QED
       BY <1>1, <1>3, <1>4, <1>5, <1>6, <1>7, <1>8, <1>9, <1>10, <1>11
          DEF Next, Startup, Detection, Shutdown

(* Every process that exists belongs to exactly one slot of the pool: no   *)
(* kill, replacement or failed start loses or shares a worker process.     *)
THEOREM ProcessesHaveOneSlot == Spec => []EveryProcessHasOneSlot
<1>1. Init => TypeInv
      BY InitTypes
<1>2. Init => SlotInv
      BY SlotsAssumption, PidsAssumption
         DEF Init, SlotInv, EveryProcessHasOneSlot, SpawnInv
<1>3. SlotInv => EveryProcessHasOneSlot
      BY DEF SlotInv
<1>4. QED
      BY <1>1, <1>2, <1>3, TypeStep, SlotStep, PTL DEF Spec

-----------------------------------------------------------------------------
(***************************************************************************)
(* The age of what the monitor knows about a worker.                       *)
(***************************************************************************)

(* An idle worker has reported within the idle interval; and unless an     *)
(* event of a worker is still queued, the map holds its newest report.     *)
Report(p) ==
  /\ proc[p] = "idle" => sent[p] <= IdleInterval
  /\ (proc[p] \in {"idle", "busy"} /\ p \in known /\ p \notin pending) => seen[p] = sent[p]

ReportInv == \A p \in Pids : Report(p)

LEMMA ReportStep == TypeInv /\ ReportInv /\ [Next]_vars => ReportInv'
<1> SUFFICES ASSUME TypeInv, ReportInv, [Next]_vars, NEW p \in Pids PROVE Report(p)'
    BY DEF ReportInv
<1> USE TimesAssumption DEF TypeInv, TypeOK
<1>1. ASSUME proc'[p] = "idle" => proc[p] = "idle",
             proc'[p] = "busy" => proc[p] \in {"idle", "busy"},
             UNCHANGED <<sent, seen, pending>>, known' \subseteq known
      PROVE  Report(p)'
      BY <1>1 DEF ReportInv, Report
<1>2. ASSUME NEW q \in Pids, SpawnInitial(q) PROVE Report(p)'
      BY <1>1, <1>2 DEF SpawnInitial
<1>3. CASE SpawnInitialFails \/ Settle \/ StartupTimeout \/ InitialCheck \/ AllReady
      BY <1>1, <1>3 DEF SpawnInitialFails, Settle, StartupTimeout, InitialCheck, AllReady
<1>4. CASE AwaitReady \/ MonitorWake
      BY <1>4 DEF AwaitReady, MonitorWake, DrainHealthQueue, ReportInv, Report
<1>5. CASE HealthCheck \/ PassSlot \/ InitialCheckDone \/ CycleDone \/ HealthCheckDone
      BY <1>1, <1>5 DEF HealthCheck, PassSlot, InitialCheckDone, CycleDone, HealthCheckDone
<1>6. CASE KillSlot \/ ReplaceFails
      BY <1>1, <1>6 DEF KillSlot, ReplaceFails, Killed, Forgotten
<1>7. ASSUME NEW q \in Pids, ReplaceSlot(q) PROVE Report(p)'
  <2>1. CASE p = q
        BY <1>7, <2>1 DEF ReplaceSlot, Killed, Report
  <2>2. CASE p # q
        BY <1>7, <2>2 DEF ReplaceSlot, Killed, Forgotten, ReportInv, Report
  <2>3. QED
        BY <2>1, <2>2
<1>8. CASE HandleShutdown \/ StopSlot \/ ShutdownEnds \/ ServerEnds
      BY <1>1, <1>8 DEF HandleShutdown, StopSlot, ShutdownEnds, ServerEnds
<1>9. ASSUME NEW q \in Pids, WorkerStep(q) PROVE Report(p)'
  <2>1. CASE BecomeReady(q) \/ FinishTask(q) \/ IdleHeartbeat(q)
        BY <2>1 DEF BecomeReady, FinishTask, IdleHeartbeat, SendHealthEvent,
                    ServerUnchanged, ReportInv, Report
  <2>2. CASE TakeTask(q) \/ Die(q)
        BY <1>1, <2>2 DEF TakeTask, Die, ServerUnchanged
  <2>3. QED
        BY <1>9, <2>1, <2>2 DEF WorkerStep
<1>10. CASE Tick
  <2>1. proc'[p] = "idle" => sent'[p] <= IdleInterval
    <3>1. SUFFICES ASSUME proc[p] = "idle" PROVE sent'[p] <= IdleInterval
          BY <1>10 DEF Tick
    <3>2. sent[p] < IdleInterval /\ sent[p] \in Nat
          BY <1>10, <3>1 DEF Tick, Ages
    <3>3. sent'[p] = sent[p] + 1
          BY <1>10, <3>2, AgeCapType DEF Tick, Older, Ages
    <3>4. QED
          BY <3>2, <3>3
  <2>2. (proc[p] \in {"idle", "busy"} /\ p \in known /\ p \notin pending)
          => seen'[p] = sent'[p]
        BY <1>10 DEF Tick, ReportInv, Report
  <2>3. QED
        BY <1>10, <2>1, <2>2 DEF Tick, Report
<1>11. CASE UNCHANGED vars
       BY <1>1, <1>11 DEF vars
<1>12. QED
       BY <1>2, <1>3, <1>4, <1>5, <1>6, <1>7, <1>8, <1>9, <1>10, <1>11
          DEF Next, Startup, Detection, Shutdown

(* Only the three outcomes of a broken slot clear a slot.                  *)
LEMMA ClearedIsBroken ==
  ASSUME TypeInv, [Next]_vars, NEW i \in Slots, Cleared(i)
  PROVE  Broken(pool[i])
<1> USE SlotsAssumption DEF TypeInv, TypeOK, Cleared, Detecting
<1>1. CASE KillSlot \/ ReplaceFails \/ \E p \in Pids : ReplaceSlot(p)
      BY <1>1 DEF KillSlot, ReplaceFails, ReplaceSlot
<1>2. CASE Startup \/ HandleShutdown \/ Shutdown
      BY <1>2 DEF Startup, SpawnInitial, SpawnInitialFails, Settle, StartupTimeout,
                  InitialCheck, AwaitReady, AllReady, HandleShutdown, Shutdown,
                  StopSlot, ShutdownEnds, ServerEnds
<1>3. CASE MonitorWake \/ HealthCheck \/ PassSlot \/ InitialCheckDone \/ CycleDone
           \/ HealthCheckDone
      BY <1>3 DEF MonitorWake, HealthCheck, PassSlot, InitialCheckDone, CycleDone,
                  HealthCheckDone
<1>4. CASE Tick \/ (\E p \in Pids : WorkerStep(p)) \/ UNCHANGED vars
      BY <1>4 DEF Tick, WorkerStep, BecomeReady, TakeTask, FinishTask, IdleHeartbeat, Die,
                  ServerUnchanged, vars
<1>5. QED
      BY <1>1, <1>2, <1>3, <1>4 DEF Next, Detection

(* A worker that has reported is killed as stalled only after silence for  *)
(* the whole window or with its newest event still unread, an idle one     *)
(* only in the latter case, in any timing in which the idle interval does  *)
(* not exceed the stall timeout.                                           *)
THEOREM StalledMeansSilentOrUnread == Spec => StalledWorkerIsSilentOrUnread
<1>1. Init => ReportInv
      BY DEF Init, ReportInv, Report
<1>2. ASSUME TypeInv, ReportInv, [Next]_vars, NEW i \in Slots, Cleared(i),
             pool[i] \in Pids, pool[i] \notin pending
      PROVE  /\ proc[pool[i]] # "idle"
             /\ proc[pool[i]] = "busy" => sent[pool[i]] > StallTimeout
  <2>1. SUFFICES ASSUME proc[pool[i]] \in {"idle", "busy"}
                 PROVE  proc[pool[i]] # "idle" /\ sent[pool[i]] > StallTimeout
        OBVIOUS
  <2>2. Stalled(pool[i])
        BY <1>2, <2>1, ClearedIsBroken DEF Broken, Alive
  <2>3. Report(pool[i]) /\ sent[pool[i]] \in Nat
        BY <1>2 DEF ReportInv, TypeInv, TypeOK, Ages
  <2>4. sent[pool[i]] > StallTimeout
        BY <1>2, <2>1, <2>2, <2>3 DEF Stalled, Report
  <2>5. proc[pool[i]] # "idle"
        BY <2>2, <2>3, <2>4, IdleAssumption, TimesAssumption DEF Stalled, Report
  <2>6. QED
        BY <2>4, <2>5
<1>3. TypeInv /\ ReportInv /\ [Next]_vars =>
        [\A i \in Slots :
           (Cleared(i) /\ pool[i] \in Pids /\ pool[i] \notin pending) =>
             /\ proc[pool[i]] # "idle"
             /\ proc[pool[i]] = "busy" => sent[pool[i]] > StallTimeout]_vars
      BY <1>2
<1>4. QED
      BY <1>1, <1>3, InitTypes, TypeStep, ReportStep, PTL
         DEF Spec, StalledWorkerIsSilentOrUnread

-----------------------------------------------------------------------------
(***************************************************************************)
(* The shutdown loop.                                                      *)
(***************************************************************************)

(* The pool is filled from the front, and complete before anything but the *)
(* spawn and the shutdown works on it.                                     *)
FillInv ==
  /\ \A i, j \in Slots : (i < j /\ pool[i] = Unused) => pool[j] = Unused
  /\ (turn \in {"initial", "ready", "cycle", "health"} \/ monitor = "running" \/ ~starting
      \/ (turn = "free" /\ monitor = "settling")) => \A i \in Slots : pool[i] # Unused
  /\ turn = "shutdown" => monitor = "ended"

LEMMA FillStep == TypeInv /\ SlotInv /\ FillInv /\ [Next]_vars => FillInv'
<1> SUFFICES ASSUME TypeInv, SlotInv, FillInv, [Next]_vars PROVE FillInv'
    OBVIOUS
<1> USE SlotsAssumption, PidsAssumption DEF TypeInv, TypeOK
<1>1. ASSUME NEW p \in Pids, SpawnInitial(p) PROVE FillInv'
      BY <1>1 DEF SpawnInitial, FillInv, SlotInv, SpawnInv
<1>2. CASE Settle
  <2>1. \A i \in Slots : pool[i] # Unused
        BY <1>2 DEF Settle, SlotInv, SpawnInv
  <2>2. QED
        BY <1>2, <2>1 DEF Settle, FillInv
<1>3. CASE SpawnInitialFails \/ StartupTimeout \/ InitialCheck \/ AllReady
      BY <1>3 DEF SpawnInitialFails, StartupTimeout, InitialCheck, AllReady, FillInv,
                  SlotInv, SpawnInv
<1>4. CASE AwaitReady \/ MonitorWake \/ HealthCheck \/ PassSlot
      BY <1>4 DEF AwaitReady, MonitorWake, HealthCheck, PassSlot, FillInv
<1>5. CASE KillSlot \/ ReplaceFails
  <2>1. Detecting /\ pool' = [pool EXCEPT ![slot] = Closed]
        BY <1>5 DEF KillSlot, ReplaceFails
  <2>2. \A i \in Slots : pool[i] # Unused
        BY <2>1 DEF Detecting, FillInv
  <2>3. \A i \in Slots : pool'[i] # Unused
        BY <2>1, <2>2 DEF Detecting
  <2>4. turn' # "shutdown"
        BY <1>5 DEF KillSlot, ReplaceFails, Detecting
  <2>5. QED
        BY <2>3, <2>4 DEF FillInv
<1>6. ASSUME NEW p \in Pids, ReplaceSlot(p) PROVE FillInv'
  <2>1. \A i \in Slots : pool[i] # Unused
        BY <1>6 DEF ReplaceSlot, Detecting, FillInv
  <2>2. \A i \in Slots : pool'[i] # Unused
        BY <1>6, <2>1 DEF ReplaceSlot, Detecting
  <2>3. turn' # "shutdown"
        BY <1>6 DEF ReplaceSlot, Detecting
  <2>4. QED
        BY <2>2, <2>3 DEF FillInv
<1>7. CASE InitialCheckDone \/ CycleDone \/ HealthCheckDone
      BY <1>7 DEF InitialCheckDone, CycleDone, HealthCheckDone, FillInv
<1>8. CASE HandleShutdown \/ StopSlot \/ ShutdownEnds \/ ServerEnds
      BY <1>8 DEF HandleShutdown, StopSlot, ShutdownEnds, ServerEnds, FillInv
<1>9. CASE Tick \/ UNCHANGED vars
      BY <1>9 DEF Tick, vars, FillInv
<1>10. ASSUME NEW p \in Pids, WorkerStep(p) PROVE FillInv'
       BY <1>10 DEF WorkerStep, BecomeReady, TakeTask, FinishTask, IdleHeartbeat, Die,
                    ServerUnchanged, FillInv
<1>11. QED
       BY <1>1, <1>2, <1>3, <1>4, <1>5, <1>6, <1>7, <1>8, <1>9, <1>10
          DEF Next, Startup, Detection, Shutdown

(* The shutdown loop runs once, alone, and leaves no live worker behind    *)
(* its index; where it stops, the survivors stand behind a closed slot.    *)
ShutdownInv ==
  /\ turn = "shutdown" => /\ shutting_down /\ server = "up"
                          /\ \A i \in Slots : i < slot => ~Alive(pool[i])
  /\ shutting_down => /\ monitor = "ended" /\ turn \in {"shutdown", "free"}
                      /\ turn = "free" => server # "up"
  /\ SurvivorsStandBehindAClosedSlot

(* Where nothing of the shutdown changes and no process comes to life, the *)
(* invariant is kept.                                                      *)
LEMMA ShutdownFrame ==
  ASSUME TypeInv, ShutdownInv,
         UNCHANGED <<pool, shutting_down, server>>, UNCHANGED <<turn, slot, monitor>>,
         \A p \in Pids : proc'[p] \in AliveStates => proc[p] \in AliveStates
  PROVE  ShutdownInv'
  BY DEF ShutdownInv, SurvivorsStandBehindAClosedSlot, Alive

LEMMA ShutdownStep ==
  TypeInv /\ SlotInv /\ FillInv /\ ShutdownInv /\ [Next]_vars => ShutdownInv'
<1> SUFFICES ASSUME TypeInv, SlotInv, FillInv, ShutdownInv, [Next]_vars PROVE ShutdownInv'
    OBVIOUS
<1> USE SlotsAssumption, PidsAssumption DEF TypeInv, TypeOK
<1>1. ASSUME ~shutting_down, ~shutting_down', turn' # "shutdown" PROVE ShutdownInv'
      BY <1>1 DEF ShutdownInv, SurvivorsStandBehindAClosedSlot
<1>2. ASSUME NEW p \in Pids, SpawnInitial(p) PROVE ShutdownInv'
      BY <1>1, <1>2 DEF SpawnInitial, ShutdownInv
<1>3. CASE SpawnInitialFails \/ Settle \/ StartupTimeout \/ InitialCheck
           \/ AwaitReady \/ AllReady
      BY <1>1, <1>3 DEF SpawnInitialFails, Settle, StartupTimeout, InitialCheck,
                        AwaitReady, AllReady, ShutdownInv
<1>4. CASE MonitorWake \/ HealthCheck \/ PassSlot \/ KillSlot \/ ReplaceFails
      BY <1>1, <1>4 DEF MonitorWake, HealthCheck, PassSlot, KillSlot, ReplaceFails,
                        Detecting, ShutdownInv
<1>5. ASSUME NEW p \in Pids, ReplaceSlot(p) PROVE ShutdownInv'
      BY <1>1, <1>5 DEF ReplaceSlot, Detecting, ShutdownInv
<1>6. CASE InitialCheckDone \/ CycleDone \/ HealthCheckDone
      BY <1>1, <1>6 DEF InitialCheckDone, CycleDone, HealthCheckDone, ShutdownInv
<1>7. CASE HandleShutdown
      BY <1>7 DEF HandleShutdown, ShutdownInv, SurvivorsStandBehindAClosedSlot
<1>8. CASE StopSlot
  <2>1. ASSUME NEW i \in Slots, i < slot' PROVE ~Alive(pool[i])'
        BY <1>8, <2>1 DEF StopSlot, ShutdownInv, Alive
  <2>2. QED
        BY <1>8, <2>1 DEF StopSlot, ShutdownInv, SurvivorsStandBehindAClosedSlot
<1>9. CASE ShutdownEnds
  <2>1. ASSUME NEW i \in Slots, Alive(pool[i]) PROVE \E j \in 1..i - 1 : pool[j] = Closed
    <3>1. i >= slot /\ slot \in Slots /\ pool[slot] \notin Pids /\ pool[i] \in Pids
          BY <1>9, <2>1 DEF ShutdownEnds, ShutdownInv, Alive
    <3>2. pool[slot] # Unused
          BY <3>1 DEF FillInv
    <3>3. QED
          BY <3>1, <3>2
  <2>2. SurvivorsStandBehindAClosedSlot'
        BY <1>9, <2>1 DEF ShutdownEnds, SurvivorsStandBehindAClosedSlot, Alive
  <2>3. QED
        BY <1>9, <2>2 DEF ShutdownEnds, ShutdownInv
<1>10. CASE ServerEnds
       BY <1>10 DEF ServerEnds, ShutdownInv, SurvivorsStandBehindAClosedSlot, Alive
<1>11. CASE Tick \/ UNCHANGED vars
       BY <1>11, ShutdownFrame DEF Tick, vars
<1>12. ASSUME NEW p \in Pids, WorkerStep(p) PROVE ShutdownInv'
       BY <1>12, ShutdownFrame DEF WorkerStep, BecomeReady, TakeTask, FinishTask,
                                   IdleHeartbeat, Die, ServerUnchanged
<1>13. QED
       BY <1>2, <1>3, <1>4, <1>5, <1>6, <1>7, <1>8, <1>9, <1>10, <1>11, <1>12
          DEF Next, Startup, Detection, Shutdown

(* Whatever the state in which the shutdown begins, a worker it leaves     *)
(* running stands behind a slot that a check had closed.                   *)
THEOREM ShutdownReachesAClosedSlot == Spec => []SurvivorsStandBehindAClosedSlot
<1>1. Init => SlotInv /\ FillInv /\ ShutdownInv
      BY SlotsAssumption, PidsAssumption
         DEF Init, SlotInv, EveryProcessHasOneSlot, SpawnInv, FillInv, ShutdownInv,
             SurvivorsStandBehindAClosedSlot
<1>2. ShutdownInv => SurvivorsStandBehindAClosedSlot
      BY DEF ShutdownInv
<1>3. QED
      BY <1>1, <1>2, InitTypes, TypeStep, SlotStep, FillStep, ShutdownStep, PTL DEF Spec

-----------------------------------------------------------------------------
(***************************************************************************)
(* The startup.                                                            *)
(***************************************************************************)

(* Before the server serves, an id with a health event is one whose worker *)
(* has finished loading; and as long as the startup goes well nothing of   *)
(* the pool has been killed or closed.                                     *)
LoadedInv ==
  /\ (turn \in {"cycle", "health"} \/ monitor = "running") => ~starting
  /\ starting => /\ \A p \in known \cup pending : proc[p] # "loading"
                 /\ (monitor = "settling" /\ (turn = "initial" => detected = 0)) =>
                      /\ \A p \in known \cup pending : proc[p] # "none"
                      /\ \A i \in Slots : pool[i] # Closed
                 /\ turn \in {"spawn", "initial", "ready"} => monitor = "settling"

(* Steps that move no process to or from "none" or "loading", and close no *)
(* slot, are harmless.                                                     *)
LEMMA LoadedFrame ==
  ASSUME TypeInv, LoadedInv, UNCHANGED <<pool, proc, starting>>,
         known' \cup pending' = known \cup pending,
         turn' \in {turn, "free", "shutdown"},
         monitor' \in {monitor, "ended"},
         turn' \in {"spawn", "initial", "ready"} => UNCHANGED <<monitor, detected>>,
         turn = "initial" => detected = 0 \/ monitor' = "ended" \/ turn' = "initial"
  PROVE  LoadedInv'
  BY DEF LoadedInv, TypeInv, TypeOK

LEMMA LoadedStep == TypeInv /\ SlotInv /\ LoadedInv /\ [Next]_vars => LoadedInv'
<1> SUFFICES ASSUME TypeInv, SlotInv, LoadedInv, [Next]_vars PROVE LoadedInv'
    OBVIOUS
<1> USE SlotsAssumption, PidsAssumption DEF TypeInv, TypeOK
<1>1. ASSUME NEW p \in Pids, SpawnInitial(p) PROVE LoadedInv'
  <2>1. starting /\ monitor = "settling" /\ turn # "initial"
        BY <1>1 DEF SpawnInitial, SlotInv, SpawnInv
  <2>2. p \notin known \cup pending
        BY <1>1, <2>1 DEF SpawnInitial, LoadedInv
  <2>3. QED
        BY <1>1, <2>1, <2>2 DEF SpawnInitial, LoadedInv
<1>2. CASE SpawnInitialFails \/ Settle \/ StartupTimeout
      BY <1>2, LoadedFrame DEF SpawnInitialFails, Settle, StartupTimeout
<1>3. CASE InitialCheck
      BY <1>3 DEF InitialCheck, LoadedInv
<1>4. CASE AwaitReady
      BY <1>4 DEF AwaitReady, DrainHealthQueue, LoadedInv
<1>5. CASE AllReady
      BY <1>5 DEF AllReady, LoadedInv
<1>6. CASE MonitorWake \/ HealthCheck
      BY <1>6 DEF MonitorWake, HealthCheck, DrainHealthQueue, LoadedInv
<1>7. CASE PassSlot
      BY <1>7, LoadedFrame DEF PassSlot
<1>8. CASE KillSlot
  <2>1. turn' = turn /\ starting' = starting /\ monitor' = monitor
        /\ turn \in {"initial", "health"}
        BY <1>8 DEF KillSlot, Detecting
  <2>2. starting => detected' > 0 /\ turn' = "initial"
        BY <1>8, <2>1 DEF KillSlot, LoadedInv
  <2>3. \A p \in Pids : proc'[p] = "loading" => proc[p] = "loading"
        BY <1>8 DEF KillSlot, Killed
  <2>4. known' \subseteq known /\ pending' = pending
        BY <1>8 DEF KillSlot, Forgotten
  <2>5. QED
        BY <2>1, <2>2, <2>3, <2>4 DEF LoadedInv
<1>9. ASSUME NEW p \in Pids, ReplaceSlot(p) PROVE LoadedInv'
      BY <1>9 DEF ReplaceSlot, LoadedInv
<1>10. CASE ReplaceFails
       BY <1>10 DEF ReplaceFails, LoadedInv
<1>11. CASE InitialCheckDone
       BY <1>11 DEF InitialCheckDone, LoadedInv
<1>12. CASE CycleDone \/ HealthCheckDone
       BY <1>12 DEF CycleDone, HealthCheckDone, LoadedInv
<1>13. CASE HandleShutdown
       BY <1>13 DEF HandleShutdown, LoadedInv
<1>14. CASE StopSlot
       BY <1>14 DEF StopSlot, Alive, LoadedInv
<1>15. CASE ShutdownEnds \/ ServerEnds
       BY <1>15, LoadedFrame DEF ShutdownEnds, ServerEnds
<1>16. CASE Tick \/ UNCHANGED vars
       BY <1>16, LoadedFrame DEF Tick, vars
<1>17. ASSUME NEW p \in Pids, WorkerStep(p) PROVE LoadedInv'
       BY <1>17 DEF WorkerStep, BecomeReady, TakeTask, FinishTask, IdleHeartbeat, Die,
                    SendHealthEvent, ServerUnchanged, LoadedInv
<1>18. QED
       BY <1>1, <1>2, <1>3, <1>4, <1>5, <1>6, <1>7, <1>8, <1>9, <1>10, <1>11, <1>12,
          <1>13, <1>14, <1>15, <1>16, <1>17 DEF Next, Startup, Detection, Shutdown

(* As many ids with an event as slots, each of them in some slot: then     *)
(* every slot holds one of them.                                           *)
LEMMA KnownFillsPool ==
  ASSUME TypeInv, Cardinality(known) >= N,
         \A p \in known : \E i \in Slots : pool[i] = p
  PROVE  \A i \in Slots : pool[i] \in known
<1> DEFINE f == [p \in known |-> CHOOSE i \in Slots : pool[i] = p]
<1>1. \A p \in known : f[p] \in Slots /\ pool[f[p]] = p
      OBVIOUS
<1>2. f \in Injection(known, Slots)
  <2>1. f \in [known -> Slots]
        BY <1>1
  <2>2. \A p, q \in known : f[p] = f[q] => p = q
        BY <1>1
  <2>3. QED
        BY <2>1, <2>2 DEF Injection, IsInjective
<1> HIDE DEF f
<1>3. IsFiniteSet(Slots) /\ Cardinality(Slots) = N
      BY SlotsAssumption, FS_Interval
<1>4. IsFiniteSet(known)
      BY <1>2, <1>3, FS_Injection
<1>5. Cardinality(known) = Cardinality(Slots)
  <2>1. Cardinality(known) \in Nat
        BY <1>4, FS_CardinalityType
  <2>2. Cardinality(known) <= Cardinality(Slots)
        BY ONLY <1>2, <1>3, FS_Injection
  <2>3. QED
        BY <1>3, <2>1, <2>2, SlotsAssumption
<1>6. f \in Surjection(known, Slots)
      BY ONLY <1>2, <1>3, <1>5, FS_Injection
<1>7. \A i \in Slots : \E p \in known : f[p] = i
      BY <1>6 DEF Surjection
<1>8. QED
      BY <1>1, <1>7

(* When the server starts to serve, every slot holds a worker that has     *)
(* built its pipeline, for any number of slots.                            *)
THEOREM ServesOnceReady == Spec => ServesOnlyWhenAllReady
<1>1. Init => SlotInv /\ LoadedInv
      BY SlotsAssumption, PidsAssumption
         DEF Init, SlotInv, EveryProcessHasOneSlot, SpawnInv, LoadedInv
<1>2. ASSUME TypeInv, SlotInv, LoadedInv, [Next]_vars, starting, ~starting'
      PROVE  \A i \in Slots : pool[i] \in Pids /\ proc[pool[i]] # "loading"
  <2>1. AllReady
        BY <1>2 DEF Next, Startup, SpawnInitial, SpawnInitialFails, Settle, StartupTimeout,
                    InitialCheck, AwaitReady, Detection, MonitorWake, HealthCheck, PassSlot,
                    KillSlot, ReplaceSlot, ReplaceFails, InitialCheckDone, CycleDone,
                    HealthCheckDone, HandleShutdown, Shutdown, StopSlot, ShutdownEnds,
                    ServerEnds, Tick, WorkerStep, BecomeReady, TakeTask, FinishTask,
                    IdleHeartbeat, Die, ServerUnchanged, vars
  <2>2. \A p \in known : \E i \in Slots : pool[i] = p
        BY <1>2, <2>1 DEF AllReady, LoadedInv, SlotInv, EveryProcessHasOneSlot,
                          TypeInv, TypeOK
  <2>3. \A i \in Slots : pool[i] \in known
        BY <1>2, <2>1, <2>2, KnownFillsPool DEF AllReady
  <2>4. QED
        BY <1>2, <2>3 DEF LoadedInv, TypeInv, TypeOK
<1>3. TypeInv /\ SlotInv /\ LoadedInv /\ [Next]_vars =>
        [(starting /\ ~starting') =>
           \A i \in Slots : pool[i] \in Pids /\ proc[pool[i]] # "loading"]_vars
      BY <1>2
<1>4. QED
      BY <1>1, <1>3, InitTypes, TypeStep, SlotStep, LoadedStep, PTL
         DEF Spec, ServesOnlyWhenAllReady

-----------------------------------------------------------------------------
(***************************************************************************)
(* What a loop over the pool has seen so far.                              *)
(***************************************************************************)

EmptySlots(held, n) == {i \in 1..n : held[i] \notin Pids}

(* Behind its index, a periodic check has filled every slot, and a health  *)
(* check has counted the slots without a process.                          *)
LoopInv ==
  /\ turn = "cycle" => EmptySlots(pool, slot - 1) = {}
  /\ turn = "health" => detected = Cardinality(EmptySlots(pool, slot - 1))

(* A slot without a process adds one to the count, one with a process none.*)
LEMMA CountOneMore ==
  ASSUME NEW i \in Slots, NEW held, NEW filled,
         \A j \in 1..i - 1 : filled[j] = held[j]
  PROVE  /\ Cardinality(EmptySlots(held, i - 1)) \in Nat
         /\ Cardinality(EmptySlots(filled, i)) =
              Cardinality(EmptySlots(held, i - 1)) + (IF filled[i] \in Pids THEN 0 ELSE 1)
<1> USE SlotsAssumption
<1>1. i \in Nat \ {0} /\ i - 1 \in Nat /\ i <= N
      OBVIOUS
<1>2. IsFiniteSet(EmptySlots(held, i - 1)) /\ Cardinality(EmptySlots(held, i - 1)) \in Nat
  <2>1. IsFiniteSet(1..i - 1) /\ EmptySlots(held, i - 1) \in SUBSET (1..i - 1)
        BY <1>1, FS_Interval DEF EmptySlots
  <2>2. QED
        BY <2>1, FS_Subset, FS_CardinalityType
<1>3. i \notin EmptySlots(held, i - 1)
      BY <1>1 DEF EmptySlots
<1>4. EmptySlots(filled, i) =
        IF filled[i] \in Pids THEN EmptySlots(held, i - 1) ELSE EmptySlots(held, i - 1) \cup {i}
      BY <1>1 DEF EmptySlots
<1>5. Cardinality(EmptySlots(held, i - 1) \cup {i}) = Cardinality(EmptySlots(held, i - 1)) + 1
      BY ONLY <1>2, <1>3, FS_AddElement
<1>6. QED
      BY <1>2, <1>4, <1>5

LEMMA LoopStepInv == TypeInv /\ LoopInv /\ [Next]_vars => LoopInv'
<1> SUFFICES ASSUME TypeInv, LoopInv, [Next]_vars PROVE LoopInv'
    OBVIOUS
<1> USE SlotsAssumption, PidsAssumption DEF TypeInv
<1>1. CASE PassSlot
  <2>1. slot \in Slots /\ pool[slot] \in Pids /\ pool' = pool
        BY <1>1 DEF PassSlot, Detecting, Broken, Alive, TypeOK
  <2>2. Cardinality(EmptySlots(pool', slot)) = Cardinality(EmptySlots(pool, slot - 1))
    <3>1. pool' = pool
          BY <1>1 DEF PassSlot
    <3>2. QED
          BY <2>1, <3>1, CountOneMore
  <2>3. EmptySlots(pool, slot - 1) = {} => EmptySlots(pool', slot) = {}
        BY <2>1 DEF EmptySlots, TypeOK
  <2>4. slot' - 1 = slot /\ turn' = turn /\ detected' = detected
        BY <1>1, <2>1 DEF PassSlot
  <2>5. EmptySlots(pool', slot' - 1) = EmptySlots(pool', slot)
        BY <2>4
  <2>6. QED
        BY <2>2, <2>3, <2>4, <2>5 DEF LoopInv
<1>2. CASE KillSlot
  <2>1. slot \in Slots /\ turn # "cycle" /\ Closed \notin Pids
        BY <1>2 DEF KillSlot, Detecting, TypeOK
  <2>2. Cardinality(EmptySlots(pool', slot)) = Cardinality(EmptySlots(pool, slot - 1)) + 1
    <3>1. \A j \in 1..slot : j \in Slots /\ pool'[j] = IF j = slot THEN Closed ELSE pool[j]
          BY <1>2, <2>1 DEF KillSlot, TypeOK
    <3>2. pool'[slot] \notin Pids /\ \A j \in 1..slot - 1 : pool'[j] = pool[j]
          BY <2>1, <3>1
    <3>3. QED
          BY <2>1, <3>2, CountOneMore
  <2>3. slot' - 1 = slot /\ turn' = turn /\ detected' = detected + 1
        BY <1>2, <2>1 DEF KillSlot
  <2>4. EmptySlots(pool', slot' - 1) = EmptySlots(pool', slot)
        BY <2>3
  <2>5. QED
        BY <2>1, <2>2, <2>3, <2>4 DEF LoopInv
<1>3. ASSUME NEW p \in Pids, ReplaceSlot(p) PROVE LoopInv'
  <2>1. slot \in Slots /\ turn = "cycle" /\ turn' = "cycle" /\ slot' - 1 = slot
        BY <1>3 DEF ReplaceSlot, Detecting, TypeOK
  <2>2. \A j \in 1..slot : j \in Slots /\ pool'[j] = IF j = slot THEN p ELSE pool[j]
        BY <1>3, <2>1 DEF ReplaceSlot, TypeOK
  <2>3. EmptySlots(pool', slot' - 1) = {j \in 1..slot : pool'[j] \notin Pids}
        BY <2>1 DEF EmptySlots
  <2>4. QED
        BY <2>1, <2>2, <2>3 DEF LoopInv, EmptySlots
<1>4. CASE MonitorWake \/ HealthCheck
  <2>1. slot' = 1 /\ detected' = 0
        BY <1>4 DEF MonitorWake, HealthCheck
  <2>2. EmptySlots(pool', slot' - 1) = {}
        BY <2>1 DEF EmptySlots
  <2>3. QED
        BY <2>1, <2>2, FS_EmptySet DEF LoopInv
<1>5. CASE turn' \notin {"cycle", "health"}
      BY <1>5 DEF LoopInv
<1>6. CASE UNCHANGED <<turn, slot, detected, pool>>
  <2>1. EmptySlots(pool', slot' - 1) = EmptySlots(pool, slot - 1)
        BY <1>6 DEF EmptySlots
  <2>2. QED
        BY <1>6, <2>1 DEF LoopInv
<1>7. QED
      BY <1>1, <1>2, <1>3, <1>4, <1>5, <1>6
         DEF Next, Startup, SpawnInitial, SpawnInitialFails, Settle, StartupTimeout, InitialCheck,
             AwaitReady, AllReady, Detection, ReplaceFails, InitialCheckDone, CycleDone,
             HealthCheckDone, HandleShutdown, Shutdown, StopSlot, ShutdownEnds, ServerEnds, Tick,
             WorkerStep, BecomeReady, TakeTask, FinishTask, IdleHeartbeat, Die, ServerUnchanged, vars

LEMMA LoopInvAlways == Spec => [](TypeOK /\ LoopInv)
<1>1. Init => LoopInv
      BY DEF Init, LoopInv
<1>2. TypeInv => TypeOK
      BY DEF TypeInv
<1>3. QED
      BY <1>1, <1>2, InitTypes, TypeStep, LoopStepInv, PTL DEF Spec

(* A health check reports healthy exactly if it leaves a process in some   *)
(* slot, for any number of slots (handle_health_check).                    *)
THEOREM HealthAnswerIsThePool == Spec => []HealthAnswerMatchesPool
<1>1. ASSUME TypeOK, LoopInv, turn = "health", slot = N + 1
      PROVE  ReportsHealthy <=> \E i \in Slots : pool[i] \in Pids
  <2>1. slot - 1 = N
        BY <1>1, SlotsAssumption
  <2>2. detected = Cardinality(EmptySlots(pool, N))
        BY <1>1, <2>1 DEF LoopInv
  <2>3. IsFiniteSet(1..N) /\ Cardinality(1..N) = N /\ EmptySlots(pool, N) \in SUBSET (1..N)
        BY SlotsAssumption, FS_Interval DEF EmptySlots
  <2>4. /\ Cardinality(EmptySlots(pool, N)) <= N
        /\ Cardinality(EmptySlots(pool, N)) = N => EmptySlots(pool, N) = 1..N
        BY <2>3, FS_Subset
  <2>5. detected \in Nat /\ (detected = N <=> EmptySlots(pool, N) = 1..N)
        BY <1>1, <2>2, <2>3, <2>4, SlotsAssumption DEF TypeOK
  <2>6. ReportsHealthy <=> detected # N
        BY <2>2, <2>4, <2>5, SlotsAssumption DEF ReportsHealthy
  <2>7. EmptySlots(pool, N) = 1..N <=> \A i \in Slots : pool[i] \notin Pids
        BY DEF EmptySlots
  <2>8. QED
        BY <2>5, <2>6, <2>7
<1>2. TypeOK /\ LoopInv => HealthAnswerMatchesPool
      BY <1>1 DEF HealthAnswerMatchesPool
<1>3. QED
      BY <1>2, LoopInvAlways, PTL

(* A periodic check that reaches its end leaves a process in every slot,   *)
(* whatever it found there, for any number of slots.                       *)
THEOREM CycleRestoresThePool == Spec => []CompletedCycleRestoresPool
<1>1. TypeOK /\ LoopInv => CompletedCycleRestoresPool
      BY SlotsAssumption DEF LoopInv, EmptySlots, CompletedCycleRestoresPool
<1>2. QED
      BY <1>1, LoopInvAlways, PTL
=============================================================================
