-------------------------- MODULE RequestPathProofs --------------------------
(***************************************************************************)
(* Theorems about RequestPath, for any number of calls, of workers and of  *)
(* places in the queue, whatever the size of the results and wherever      *)
(* workers are killed.                                                     *)
(***************************************************************************)
EXTENDS RequestPath, SequenceFacts, FiniteSetTheorems

-----------------------------------------------------------------------------
(***************************************************************************)
(* Types.                                                                  *)
(***************************************************************************)

(* A worker that is not dead has a task exactly while it works on one.     *)
AtWork == {"unpickling", "running", "sending", "failed"}
TaskInv == \A w \in Workers : worker[w] # "dead" => (task[w] # NoTask <=> worker[w] \in AtWork)

TypeInv == TypeOK /\ TaskInv

LEMMA InitTypes == Init => TypeInv
<1> SUFFICES ASSUME Init PROVE TypeInv
    OBVIOUS
<1>1. queue \in Seq(Requests) /\ Len(queue) <= MaxQueue
      BY QueueAssumption DEF Init
<1>2. /\ rpc \in [Requests -> RpcStates] /\ outcome \in [Requests -> {"NONE"}]
      /\ pipe \in [Requests -> {"empty"}]
      /\ writers \in [Requests -> SUBSET {"server", "sharer", "worker"}]
      /\ worker \in [Workers -> WorkerStates] /\ task \in [Workers -> Requests \cup {NoTask}]
      /\ rlock \in Workers \cup {Free, Lost}
      /\ processed \in SUBSET Requests /\ unclaimed \in SUBSET Requests
      BY DEF Init, RpcStates, WorkerStates
<1>3. event \in [Requests -> BOOLEAN] /\ reader \in [Requests -> BOOLEAN]
      BY DEF Init
<1>4. TaskInv
      BY DEF Init, TaskInv, AtWork
<1>5. QED
      BY <1>1, <1>2, <1>3, <1>4 DEF TypeInv, TypeOK

LEMMA TypeStep == TypeInv /\ [Next]_vars => TypeInv'
<1> SUFFICES ASSUME TypeInv, [Next]_vars PROVE TypeInv'
    OBVIOUS
<1> USE NamesAssumption, QueueAssumption
        DEF TypeInv, TypeOK, TaskInv, AtWork, RpcStates, WorkerStates, server, workers
<1>1. ASSUME NEW r \in Requests, Arrive(r) \/ StreamTimeout(r) \/ PipeFails(r) PROVE TypeInv'
  <2>1. CASE Arrive(r)
        BY <2>1 DEF Arrive
  <2>2. CASE StreamTimeout(r)
        BY <2>2 DEF StreamTimeout, Refuse
  <2>3. CASE PipeFails(r)
        BY <2>3 DEF PipeFails, Refuse
  <2>4. QED
        BY <1>1, <2>1, <2>2, <2>3
<1>2. ASSUME NEW r \in Requests, Submit(r) PROVE TypeInv'
  <2>1. queue' \in Seq(Requests) /\ Len(queue') <= MaxQueue
        BY <1>2, EntriesOfAppend DEF Submit
  <2>2. QED
        BY <1>2, <2>1 DEF Submit
<1>3. ASSUME NEW r \in Requests,
             RejectFull(r) \/ PipeError(r) \/ ProcessingTimeout(r) \/ Cancel(r)
      PROVE  TypeInv'
  <2>1. CASE RejectFull(r)
        BY <2>1 DEF RejectFull, Refuse, CloseTask
  <2>2. CASE PipeError(r)
        BY <2>2 DEF PipeError, Answer, CloseTask
  <2>3. CASE ProcessingTimeout(r)
        BY <2>3 DEF ProcessingTimeout, Answer, CloseTask
  <2>4. CASE Cancel(r) /\ rpc[r] = "waiting"
    <3>1. Answer(r, "CANCELLED") /\ CloseTask(r) /\ UNCHANGED <<queue, pipe, workers>>
          BY <2>4 DEF Cancel
    <3>2. QED
          BY <3>1 DEF Answer, CloseTask
  <2>5. CASE Cancel(r) /\ rpc[r] # "waiting"
        BY <2>5 DEF Cancel, Refuse
  <2>6. QED
        BY <1>3, <2>1, <2>2, <2>3, <2>4, <2>5
<1>4. ASSUME NEW r \in Requests, Register(r) \/ Notify(r) \/ Receive(r) PROVE TypeInv'
  <2>1. CASE Register(r)
        BY <2>1 DEF Register
  <2>2. CASE Notify(r)
        BY <2>2 DEF Notify
  <2>3. CASE Receive(r)
        BY <2>3 DEF Receive
  <2>4. QED
        BY <1>4, <2>1, <2>2, <2>3
<1>5. ASSUME NEW r \in Requests, Received(r) PROVE TypeInv'
      BY <1>5 DEF Received, Answer, CloseTask
<1>6. ASSUME NEW r \in Requests, FeedTask(r) PROVE TypeInv'
      BY <1>6 DEF FeedTask
<1>7. ASSUME NEW r \in Requests, DropTask(r) PROVE TypeInv'
  <2>1. queue' \in Seq(Requests) /\ Len(queue') <= MaxQueue
        BY <1>7, EntriesOfRemoveAt DEF DropTask
  <2>2. QED
        BY <1>7, <2>1 DEF DropTask
<1>8. ASSUME NEW w \in Workers, Poll(w) \/ PollTimeout(w) PROVE TypeInv'
      BY <1>8 DEF Poll, PollTimeout
<1>9. ASSUME NEW w \in Workers, Take(w) PROVE TypeInv'
  <2>1. /\ Head(queue) \in Requests
        /\ queue' \in Seq(Requests) /\ Len(queue') <= MaxQueue
        BY <1>9, EntriesOfTail DEF Take, Available
  <2>2. QED
        BY <1>9, <2>1 DEF Take
<1>10. ASSUME NEW w \in Workers, Unpickle(w) \/ FinishRun(w) PROVE TypeInv'
  <2>1. CASE Unpickle(w)
    <3>1. /\ writers' \in [Requests -> SUBSET {"server", "sharer", "worker"}]
          /\ worker' \in [Workers -> WorkerStates] /\ TaskInv'
          BY <2>1 DEF Unpickle
    <3>2. QED
          BY <2>1, <3>1 DEF Unpickle
  <2>2. CASE FinishRun(w)
        BY <2>2 DEF FinishRun
  <2>3. QED
        BY <1>10, <2>1, <2>2
<1>11. ASSUME NEW w \in Workers, Send(w) \/ SendBroken(w) PROVE TypeInv'
  <2>1. /\ writers' \in [Requests -> SUBSET {"server", "sharer", "worker"}]
        /\ pipe' \in [Requests -> {"empty", "partial", "results", "error"}]
        BY <1>11 DEF Send, SendBroken, CloseWorkerInput
  <2>2. /\ worker' = [worker EXCEPT ![w] = "idle"] /\ task' = [task EXCEPT ![w] = NoTask]
        BY <1>11 DEF Send, SendBroken, BackToIdle
  <2>3. QED
        BY <1>11, <2>1, <2>2 DEF Send, SendBroken
<1>12. ASSUME NEW w \in Workers, SendPart(w) PROVE TypeInv'
       BY <1>12 DEF SendPart
<1>13. ASSUME NEW w \in Workers, RaiseInRun(w) PROVE TypeInv'
       BY <1>13 DEF RaiseInRun, CloseWorkerInput
<1>14. ASSUME NEW w \in Workers, HandleException(w) PROVE TypeInv'
       BY <1>14 DEF HandleException, CloseWorkerInput
<1>15. ASSUME NEW w \in Workers, Killed(w) \/ KilledWithEntry(w) PROVE TypeInv'
  <2>1. CASE Killed(w)
        BY <2>1 DEF Killed
  <2>2. CASE KilledWithEntry(w)
    <3>1. /\ Head(queue) \in Requests
          /\ queue' \in Seq(Requests) /\ Len(queue') <= MaxQueue
          BY <2>2, EntriesOfTail DEF KilledWithEntry, Available
    <3>2. QED
          BY <2>2, <3>1 DEF KilledWithEntry
  <2>3. QED
        BY <1>15, <2>1, <2>2
<1>16. ASSUME NEW w \in Workers, Replace(w) PROVE TypeInv'
       BY <1>16 DEF Replace, BackToIdle
<1>17. CASE UNCHANGED vars
       BY <1>17 DEF vars
<1>18. QED
       BY <1>1, <1>2, <1>3, <1>4, <1>5, <1>6, <1>7, <1>8, <1>9, <1>10, <1>11, <1>12,
          <1>13, <1>14, <1>15, <1>16, <1>17 DEF Next, Call, Feeder, WorkerStep

(* The variables always have their types; in particular the input queue    *)
(* never has more than max_queue_size entries (TypeOK).                    *)
THEOREM TypeCorrect == Spec => []TypeOK
<1>1. TypeInv => TypeOK
      BY DEF TypeInv
<1>2. QED
      BY <1>1, InitTypes, TypeStep, PTL DEF Spec

-----------------------------------------------------------------------------
(***************************************************************************)
(* Where the task of a call is.                                            *)
(***************************************************************************)
Holds(w, r) == task[w] = r /\ worker[w] # "dead"
Held(r) == \E w \in Workers : Holds(w, r)

(* A task is in the queue once or with one worker, and neither before its  *)
(* call has submitted it; a worker that runs it is the first to do so.     *)
NotSubmitted == {"new", "streaming", "refused"}

PlaceInv ==
  /\ Distinct(queue)
  /\ \A r \in Requests : \A v, w \in Workers : Holds(v, r) /\ Holds(w, r) => v = w
  /\ \A r \in Requests : r \in Entries(queue) => ~Held(r) /\ r \notin processed
  /\ \A w \in Workers : /\ worker[w] \in {"unpickling", "running"} => task[w] \notin processed
                        /\ worker[w] = "sending" => task[w] \in processed
  /\ \A r \in Requests : rpc[r] \in NotSubmitted =>
       r \notin Entries(queue) /\ ~Held(r) /\ r \notin processed

(* The steps that move no task.                                            *)
LEMMA PlaceFrame ==
  ASSUME PlaceInv, UNCHANGED <<queue, processed>>,
         \A w \in Workers : \A r \in Requests : Holds(w, r)' => Holds(w, r),
         \A w \in Workers : worker'[w] \in {"unpickling", "running"} =>
           worker[w] \in {"unpickling", "running"} /\ task'[w] = task[w],
         \A w \in Workers : worker'[w] = "sending" => worker[w] = "sending" /\ task'[w] = task[w],
         \A r \in Requests : rpc'[r] \in NotSubmitted => rpc[r] \in NotSubmitted
  PROVE  PlaceInv'
<1>1. \A r \in Requests : Held(r)' => Held(r)
      BY DEF Held
<1>2. QED
      BY <1>1 DEF PlaceInv

LEMMA PlaceStep == TypeInv /\ PlaceInv /\ [Next]_vars => PlaceInv'
<1> SUFFICES ASSUME TypeInv, PlaceInv, [Next]_vars PROVE PlaceInv'
    OBVIOUS
<1> USE NamesAssumption DEF TypeInv, TypeOK, TaskInv, AtWork, server, workers
<1>1. ASSUME NEW r \in Requests,
             \/ Arrive(r) \/ StreamTimeout(r) \/ PipeFails(r) \/ RejectFull(r) \/ Register(r)
             \/ PipeError(r) \/ Notify(r) \/ ProcessingTimeout(r) \/ Cancel(r) \/ Receive(r)
             \/ Received(r)
      PROVE  PlaceInv'
  <2>1. UNCHANGED <<queue, worker, task, processed>>
        BY <1>1 DEF Arrive, StreamTimeout, PipeFails, RejectFull, Register, PipeError, Notify,
           ProcessingTimeout, Cancel, Receive, Received
  <2>2. \A q \in Requests : rpc'[q] \in NotSubmitted => rpc[q] \in NotSubmitted
    <3>1. CASE Arrive(r) \/ StreamTimeout(r) \/ PipeFails(r) \/ RejectFull(r)
          BY <3>1 DEF Arrive, StreamTimeout, PipeFails, RejectFull, Refuse, NotSubmitted
    <3>2. CASE \/ Register(r) \/ PipeError(r) \/ Notify(r) \/ ProcessingTimeout(r) \/ Receive(r)
               \/ Received(r)
          BY <3>2 DEF Register, PipeError, Notify, ProcessingTimeout, Receive, Received, Answer,
             NotSubmitted
    <3>3. CASE Cancel(r)
          BY <3>3 DEF Cancel, Refuse, Answer, NotSubmitted
    <3>4. QED
          BY <1>1, <3>1, <3>2, <3>3
  <2>3. QED
        BY <2>1, <2>2, PlaceFrame DEF Holds
<1>2. ASSUME NEW r \in Requests, Submit(r) PROVE PlaceInv'
  <2>1. /\ rpc[r] = "streaming" /\ rpc' = [rpc EXCEPT ![r] = "registering"]
        /\ UNCHANGED <<worker, task, processed>>
        BY <1>2 DEF Submit
  <2>2. r \notin Entries(queue) /\ ~Held(r) /\ r \notin processed
        BY <2>1 DEF PlaceInv, NotSubmitted
  <2>3. Entries(queue') = Entries(queue) \cup {r} /\ Distinct(queue')
        BY <1>2, <2>2, EntriesOfAppend DEF Submit, PlaceInv
  <2>4. QED
        BY <2>1, <2>2, <2>3 DEF PlaceInv, Held, Holds, NotSubmitted
<1>3. ASSUME NEW r \in Requests, FeedTask(r) PROVE PlaceInv'
  <2>1. UNCHANGED <<queue, worker, task, processed, rpc>>
        BY <1>3 DEF FeedTask
  <2>2. QED
        BY <2>1, PlaceFrame DEF Holds
<1>4. ASSUME NEW r \in Requests, DropTask(r) PROVE PlaceInv'
  <2>1. Entries(queue') \subseteq Entries(queue) /\ Distinct(queue')
        BY <1>4, EntriesOfRemoveAt DEF DropTask, PlaceInv
  <2>2. UNCHANGED <<worker, task, processed, rpc>>
        BY <1>4 DEF DropTask
  <2>3. QED
        BY <2>1, <2>2 DEF PlaceInv, Held, Holds
<1>5. ASSUME NEW w \in Workers, Poll(w) \/ PollTimeout(w) \/ SendPart(w) PROVE PlaceInv'
  <2>1. /\ UNCHANGED <<queue, task, processed, rpc>>
        /\ \A v \in Workers : worker'[v] = worker[v] \/ (worker'[v] \in {"idle", "polling"}
                                                          /\ worker[v] # "dead")
        BY <1>5 DEF Poll, PollTimeout, SendPart
  <2>2. QED
        BY <2>1, PlaceFrame DEF Holds
<1>6. ASSUME NEW w \in Workers, Take(w) PROVE PlaceInv'
  <2> DEFINE r == Head(queue)
  <2>1. /\ worker[w] = "polling" /\ worker' = [worker EXCEPT ![w] = "unpickling"]
        /\ task' = [task EXCEPT ![w] = r] /\ queue' = Tail(queue) /\ queue # <<>>
        /\ UNCHANGED <<rpc, processed>>
        BY <1>6 DEF Take, Available
  <2>2. /\ r \in Requests /\ Distinct(queue')
        /\ Entries(queue) = {r} \cup Entries(queue') /\ r \notin Entries(queue')
        BY <2>1, EntriesOfTail DEF PlaceInv
  <2> HIDE DEF r
  <2>3. ~Held(r) /\ r \notin processed /\ rpc[r] \notin NotSubmitted
        BY <2>2 DEF PlaceInv
  <2>4. \A v \in Workers : \A q \in Requests : Holds(v, q)' <=> Holds(v, q) \/ (v = w /\ q = r)
        BY <2>1, <2>2 DEF Holds
  <2>5. \A q \in Requests : Held(q)' <=> Held(q) \/ q = r
        BY <2>4 DEF Held
  <2>6. \A v \in Workers : v # w => worker'[v] = worker[v] /\ task'[v] = task[v]
        BY <2>1
  <2>7. worker'[w] = "unpickling" /\ task'[w] = r
        BY <2>1
  <2>8. \A q \in Requests : \A u, v \in Workers : Holds(u, q)' /\ Holds(v, q)' => u = v
        BY <2>3, <2>4 DEF PlaceInv, Held
  <2>9. \A v \in Workers :
          /\ worker'[v] \in {"unpickling", "running"} => task'[v] \notin processed
          /\ worker'[v] = "sending" => task'[v] \in processed
        BY <2>3, <2>6, <2>7 DEF PlaceInv
  <2>10. QED
        BY <2>1, <2>2, <2>3, <2>5, <2>8, <2>9 DEF PlaceInv
<1>7. ASSUME NEW w \in Workers, Unpickle(w) PROVE PlaceInv'
  <2>1. /\ UNCHANGED <<queue, task, processed, rpc>>
        /\ worker[w] = "unpickling" /\ worker' = [worker EXCEPT ![w] = "running"]
        BY <1>7 DEF Unpickle
  <2>2. QED
        BY <2>1, PlaceFrame DEF Holds
<1>8. ASSUME NEW w \in Workers, FinishRun(w) PROVE PlaceInv'
  <2>1. /\ worker[w] = "running" /\ worker' = [worker EXCEPT ![w] = "sending"]
        /\ processed' = processed \cup {task[w]} /\ UNCHANGED <<queue, task, rpc>>
        BY <1>8 DEF FinishRun
  <2>2. task[w] \in Requests /\ Holds(w, task[w]) /\ Held(task[w])
        BY <2>1 DEF Holds, Held
  <2>3. \A v \in Workers : \A q \in Requests : Holds(v, q)' <=> Holds(v, q)
        BY <2>1 DEF Holds
  <2>4. \A v \in Workers : v # w /\ worker[v] \in {"unpickling", "running"} => task[v] # task[w]
        BY <2>2 DEF PlaceInv, Holds
  <2>5. \A v \in Workers :
          /\ worker'[v] \in {"unpickling", "running"} => task'[v] \notin processed'
          /\ worker'[v] = "sending" => task'[v] \in processed'
        BY <2>1, <2>4 DEF PlaceInv
  <2>6. QED
        BY <2>1, <2>2, <2>3, <2>5 DEF PlaceInv, Held
<1>9. ASSUME NEW w \in Workers, Send(w) \/ SendBroken(w) \/ Replace(w) PROVE PlaceInv'
  <2>1. /\ UNCHANGED <<queue, processed, rpc>>
        /\ worker' = [worker EXCEPT ![w] = "idle"] /\ task' = [task EXCEPT ![w] = NoTask]
        BY <1>9 DEF Send, SendBroken, Replace, BackToIdle
  <2>2. QED
        BY <2>1, PlaceFrame DEF Holds
<1>10. ASSUME NEW w \in Workers, RaiseInRun(w) \/ HandleException(w) \/ Killed(w) PROVE PlaceInv'
  <2>1. /\ UNCHANGED <<queue, processed, rpc, task>>
        /\ \E to \in {"failed", "dead"} : worker' = [worker EXCEPT ![w] = to]
        /\ worker[w] = "dead" => worker'[w] = "dead"
        BY <1>10 DEF RaiseInRun, HandleException, Killed
  <2>2. QED
        BY <2>1, PlaceFrame DEF Holds
<1>11. ASSUME NEW w \in Workers, KilledWithEntry(w) PROVE PlaceInv'
  <2>1. /\ worker' = [worker EXCEPT ![w] = "dead"] /\ queue' = Tail(queue) /\ queue # <<>>
        /\ UNCHANGED <<rpc, task, processed>>
        BY <1>11 DEF KilledWithEntry, Available
  <2>2. Entries(queue') \subseteq Entries(queue) /\ Distinct(queue')
        BY <2>1, EntriesOfTail DEF PlaceInv
  <2>3. \A v \in Workers : \A q \in Requests : Holds(v, q)' => Holds(v, q)
        BY <2>1 DEF Holds
  <2>4. \A v \in Workers : worker'[v] # "dead" => worker'[v] = worker[v]
        BY <2>1
  <2>5. QED
        BY <2>1, <2>2, <2>3, <2>4 DEF PlaceInv, Held
<1>12. CASE UNCHANGED vars
       BY <1>12, PlaceFrame DEF vars, Holds
<1>13. QED
       BY <1>1, <1>2, <1>3, <1>4, <1>5, <1>6, <1>7, <1>8, <1>9, <1>10, <1>11, <1>12
          DEF Next, Call, Feeder, WorkerStep

LEMMA InitPlaces == Init => PlaceInv
  BY NamesAssumption DEF Init, PlaceInv, Entries, Distinct, Held, Holds

LEMMA PlacesAlways == Spec => [](TypeInv /\ PlaceInv)
  BY InitTypes, TypeStep, InitPlaces, PlaceStep, PTL DEF Spec

(* At most one element: the form in which the property counts.             *)
LEMMA AtMostOne ==
  ASSUME NEW A, \A x, y \in A : x = y
  PROVE  IsFiniteSet(A) /\ Cardinality(A) \in {0, 1} /\ (Cardinality(A) = 0 <=> A = {})
<1>1. CASE A = {}
      BY <1>1, FS_EmptySet
<1>2. CASE A # {}
  <2>1. PICK x \in A : A = {x}
        BY <1>2
  <2>2. QED
        BY <2>1, FS_Singleton, FS_EmptySet
<1>3. QED
      BY <1>1, <1>2

(* A task is never in two places, nor run again once its run has completed *)
(* (TaskIsInOnePlace): after timeouts, cancellations and deaths of workers *)
(* too, for any number of calls and workers.                               *)
THEOREM OnePlaceForEachTask == Spec => []TaskIsInOnePlace
<1>1. TypeInv /\ PlaceInv => TaskIsInOnePlace
  <2> SUFFICES ASSUME TypeInv, PlaceInv, NEW r \in Requests
               PROVE  /\ Cardinality({i \in 1..Len(queue) : queue[i] = r})
                           + Cardinality(InHand(r)) <= 1
                      /\ r \in processed => r \notin Queued
      BY DEF TaskIsInOnePlace
  <2> DEFINE A == {i \in 1..Len(queue) : queue[i] = r}
  <2>1. /\ Cardinality(A) \in {0, 1} /\ (Cardinality(A) = 0 <=> A = {})
    <3>1. \A i, j \in A : i = j
          BY DEF PlaceInv, Distinct
    <3>2. QED
          BY <3>1, AtMostOne
  <2>2. /\ Cardinality(InHand(r)) \in {0, 1} /\ (Cardinality(InHand(r)) = 0 <=> InHand(r) = {})
    <3>1. \A v, w \in InHand(r) : v = w
          BY DEF PlaceInv, Holds, InHand
    <3>2. QED
          BY <3>1, AtMostOne
  <2>3. A # {} <=> r \in Entries(queue)
        BY DEF Entries
  <2>4. InHand(r) # {} <=> Held(r)
        BY DEF Held, Holds, InHand
  <2>5. Queued = Entries(queue)
        BY DEF Queued, Entries
  <2> HIDE DEF A
  <2>6. QED
        BY <2>1, <2>2, <2>3, <2>4, <2>5 DEF PlaceInv, A
<1>2. QED
      BY <1>1, PlacesAlways, PTL

-----------------------------------------------------------------------------
(***************************************************************************)
(* The ends of the pipes.                                                  *)
(***************************************************************************)

(* The server's ends are open from the submission of its call to the end;  *)
(* the duplicate for a queue entry is there until a worker fetches it, and *)
(* stays if none lives to do so; a worker's end is open until it has sent  *)
(* or has failed.                                                          *)
InService == {"registering", "waiting", "receiving"}
Fetching(r) == \E w \in Workers : task[w] = r /\ worker[w] = "unpickling"

PipeInv ==
  /\ \A r \in Requests :
       /\ ("server" \in writers[r]) <=> rpc[r] \in InService
       /\ reader[r] <=> rpc[r] \in InService
       /\ "sharer" \in writers[r] => r \in Entries(queue) \/ Fetching(r) \/ r \in unclaimed
       /\ "worker" \in writers[r] =>
            \E w \in Workers : Holds(w, r) /\ worker[w] \in {"running", "sending"}
  /\ \A r \in unclaimed : /\ "sharer" \in writers[r] /\ rpc[r] \notin NotSubmitted
                          /\ r \notin Entries(queue) /\ ~Held(r)
  /\ \A w \in Workers : worker[w] = "unpickling" => "sharer" \in writers[task[w]]

(* The steps of a coroutine that leave the pipes, or close the server's    *)
(* ends as the call ends.                                                  *)
LEMMA PipeFrame ==
  ASSUME TypeInv, PipeInv, UNCHANGED <<queue, worker, task, unclaimed>>, NEW r \in Requests,
         \A q \in Requests : q # r => /\ rpc'[q] = rpc[q] /\ reader'[q] = reader[q]
                                      /\ writers'[q] = writers[q],
         rpc'[r] \in NotSubmitted => rpc[r] \in NotSubmitted,
         \/ /\ rpc'[r] \notin InService /\ ~reader'[r] /\ writers'[r] = writers[r] \ {"server"}
         \/ /\ rpc'[r] \in InService <=> rpc[r] \in InService
            /\ reader'[r] = reader[r] /\ writers'[r] = writers[r]
  PROVE  PipeInv'
<1>1. \A q \in Requests : /\ "sharer" \in writers'[q] <=> "sharer" \in writers[q]
                          /\ "worker" \in writers'[q] <=> "worker" \in writers[q]
      OBVIOUS
<1>2. \A w \in Workers : worker[w] = "unpickling" => task[w] \in Requests
      BY DEF TypeInv, TypeOK, TaskInv, AtWork
<1>3. \A q \in Requests : Held(q)' <=> Held(q)
      BY DEF Held, Holds
<1>4. unclaimed \subseteq Requests
      BY DEF TypeInv, TypeOK
<1>5. QED
      BY <1>1, <1>2, <1>3, <1>4 DEF PipeInv, Holds, Fetching

LEMMA PipeStep == TypeInv /\ PlaceInv /\ PipeInv /\ [Next]_vars => PipeInv'
<1> SUFFICES ASSUME TypeInv, PlaceInv, PipeInv, [Next]_vars PROVE PipeInv'
    OBVIOUS
<1> USE NamesAssumption DEF TypeInv, TypeOK, TaskInv, AtWork, server, workers
<1>1. ASSUME NEW r \in Requests, NEW to \in RpcStates, rpc' = [rpc EXCEPT ![r] = to],
             UNCHANGED <<queue, worker, task, reader, writers, unclaimed>>,
             to \in InService <=> rpc[r] \in InService,
             to \in NotSubmitted => rpc[r] \in NotSubmitted
      PROVE  PipeInv'
      BY <1>1, PipeFrame
<1>2. ASSUME NEW r \in Requests,
             \/ Arrive(r) \/ StreamTimeout(r) \/ PipeFails(r) \/ Register(r) \/ Notify(r)
             \/ Receive(r) \/ (Cancel(r) /\ rpc[r] = "streaming")
      PROVE  PipeInv'
  <2>1. UNCHANGED <<queue, worker, task, reader, writers, unclaimed>>
        BY <1>2 DEF Arrive, StreamTimeout, PipeFails, Register, Notify, Receive, Cancel
  <2>2. \E to \in RpcStates : /\ rpc' = [rpc EXCEPT ![r] = to]
                              /\ to \in InService <=> rpc[r] \in InService
                              /\ to \in NotSubmitted => rpc[r] \in NotSubmitted
    <3>1. CASE \/ Arrive(r) \/ StreamTimeout(r) \/ PipeFails(r)
               \/ (Cancel(r) /\ rpc[r] = "streaming")
          BY <3>1 DEF Arrive, StreamTimeout, PipeFails, Cancel, Refuse, RpcStates, InService,
             NotSubmitted
    <3>2. CASE Register(r) \/ Receive(r)
          BY <3>2 DEF Register, Receive, RpcStates, InService, NotSubmitted
    <3>3. CASE Notify(r)
          BY <3>3 DEF Notify
    <3>4. QED
          BY <1>2, <3>1, <3>2, <3>3
  <2>3. QED
        BY <1>1, <2>1, <2>2
<1>3. ASSUME NEW r \in Requests,
             \/ RejectFull(r) \/ PipeError(r) \/ ProcessingTimeout(r) \/ Received(r)
             \/ (Cancel(r) /\ rpc[r] # "streaming")
      PROVE  PipeInv'
  <2>1. /\ UNCHANGED <<queue, worker, task, unclaimed>>
        /\ reader' = [reader EXCEPT ![r] = FALSE]
        /\ writers' = [writers EXCEPT ![r] = @ \ {"server"}]
        BY <1>3 DEF RejectFull, PipeError, ProcessingTimeout, Received, Cancel, CloseTask
  <2>2. /\ \A q \in Requests : q # r => rpc'[q] = rpc[q]
        /\ rpc'[r] \in {"refused", "done"} /\ (rpc'[r] = "refused" => rpc[r] = "streaming")
    <3>1. CASE RejectFull(r)
          BY <3>1 DEF RejectFull, Refuse
    <3>2. CASE \/ PipeError(r) \/ ProcessingTimeout(r) \/ Received(r)
               \/ (Cancel(r) /\ rpc[r] # "streaming")
          BY <3>2 DEF PipeError, ProcessingTimeout, Received, Cancel, Answer
    <3>3. QED
          BY <1>3, <3>1, <3>2
  <2>3. /\ rpc'[r] \in NotSubmitted => rpc[r] \in NotSubmitted
        /\ rpc'[r] \notin InService
        BY <2>2 DEF InService, NotSubmitted
  <2>4. /\ \A q \in Requests : q # r => reader'[q] = reader[q] /\ writers'[q] = writers[q]
        /\ ~reader'[r] /\ writers'[r] = writers[r] \ {"server"}
        BY <2>1
  <2> HIDE DEF TypeInv
  <2>5. QED
        BY <2>1, <2>2, <2>3, <2>4, PipeFrame
<1>4. ASSUME NEW r \in Requests, Submit(r) PROVE PipeInv'
  <2>1. /\ rpc' = [rpc EXCEPT ![r] = "registering"] /\ reader' = [reader EXCEPT ![r] = TRUE]
        /\ writers' = [writers EXCEPT ![r] = {"server"}] /\ rpc[r] = "streaming"
        /\ UNCHANGED <<worker, task, unclaimed>>
        BY <1>4 DEF Submit
  <2>2. Entries(queue') = Entries(queue) \cup {r}
        BY <1>4, EntriesOfAppend DEF Submit
  <2>3. r \notin unclaimed /\ \A w \in Workers : worker[w] # "dead" => task[w] # r
        BY <2>1 DEF PipeInv, PlaceInv, NotSubmitted, Held, Holds
  <2>4. QED
        BY <2>1, <2>2, <2>3 DEF PipeInv, Held, Holds, Fetching, InService, NotSubmitted
<1>5. ASSUME NEW r \in Requests, FeedTask(r) PROVE PipeInv'
  <2>1. /\ writers' = [writers EXCEPT ![r] = @ \cup {"sharer"}]
        /\ UNCHANGED <<rpc, reader, queue, worker, task, unclaimed>>
        /\ r \in Entries(queue)
        BY <1>5 DEF FeedTask, Entries
  <2>2. QED
        BY <2>1 DEF PipeInv, Held, Holds, Fetching
<1>6. ASSUME NEW r \in Requests, DropTask(r) PROVE PipeInv'
  <2>1. PICK i \in 1..Len(queue) : queue[i] = r /\ NextToFeed(i) /\ queue' = RemoveAt(queue, i)
        BY <1>6 DEF DropTask
  <2>2. "sharer" \notin writers[r] /\ Entries(queue) = {r} \cup Entries(queue')
        BY <2>1, EntriesOfRemoveAt DEF NextToFeed
  <2>3. UNCHANGED <<rpc, reader, writers, worker, task, unclaimed>>
        BY <1>6 DEF DropTask
  <2>4. QED
        BY <2>2, <2>3 DEF PipeInv, Held, Holds, Fetching
<1>7. ASSUME NEW w \in Workers, Poll(w) \/ PollTimeout(w) \/ Replace(w) \/ SendPart(w)
      PROVE  PipeInv'
  <2>1. /\ UNCHANGED <<queue, rpc, reader, writers, unclaimed>>
        /\ \A v \in Workers : worker[v] \in {"unpickling", "running", "sending"} =>
             worker'[v] = worker[v] /\ task'[v] = task[v]
        /\ \A v \in Workers : worker'[v] = "unpickling" => worker[v] = "unpickling"
        /\ \A v \in Workers : \A q \in Requests : Holds(v, q)' => Holds(v, q)
        BY <1>7 DEF Poll, PollTimeout, Replace, SendPart, BackToIdle, Holds
  <2>2. QED
        BY <2>1, SMTT(40) DEF PipeInv, Held, Holds, Fetching
<1>8. ASSUME NEW w \in Workers, FinishRun(w) PROVE PipeInv'
  <2>1. /\ UNCHANGED <<queue, rpc, reader, writers, task, unclaimed>>
        /\ worker' = [worker EXCEPT ![w] = "sending"] /\ worker[w] = "running"
        BY <1>8 DEF FinishRun
  <2>2. QED
        BY <2>1 DEF PipeInv, Held, Holds, Fetching
<1>9. ASSUME NEW w \in Workers, Take(w) PROVE PipeInv'
  <2>1. PICK r \in Requests : r = Head(queue)
        BY <1>9, EntriesOfTail DEF Take, Available
  <2>2. /\ worker[w] = "polling" /\ worker' = [worker EXCEPT ![w] = "unpickling"]
        /\ task' = [task EXCEPT ![w] = r] /\ queue' = Tail(queue) /\ queue # <<>>
        /\ "sharer" \in writers[r] /\ UNCHANGED <<rpc, reader, writers, unclaimed>>
        BY <1>9, <2>1 DEF Take, Available
  <2>3. Entries(queue) = {r} \cup Entries(queue')
        BY <2>1, <2>2, EntriesOfTail
  <2>4. \A v \in Workers : v # w => worker'[v] = worker[v] /\ task'[v] = task[v]
        BY <2>2
  <2>5. task'[w] = r /\ worker'[w] = "unpickling"
        BY <2>2
  <2>6. \A q \in Requests : Fetching(q) \/ q = r => Fetching(q)'
        BY <2>2, <2>4, <2>5 DEF Fetching
  <2>7. \A q \in Requests : Held(q)' => Held(q) \/ q = r
        BY <2>4, <2>5 DEF Held, Holds
  <2>8. r \notin unclaimed
        BY <2>3 DEF PipeInv
  <2>9. \A q \in Requests : \A v \in Workers :
          Holds(v, q) /\ worker[v] \in {"running", "sending"} => Holds(v, q)' /\ worker'[v] = worker[v]
        BY <2>2, <2>4 DEF Holds
  <2>10. QED
        BY <2>2, <2>3, <2>4, <2>5, <2>6, <2>7, <2>8, <2>9 DEF PipeInv
<1>10. ASSUME NEW w \in Workers, Unpickle(w) PROVE PipeInv'
  <2>1. PICK r \in Requests : r = task[w] /\ Holds(w, r) /\ Held(r)
        BY <1>10 DEF Unpickle, Held, Holds
  <2>2. /\ worker[w] = "unpickling" /\ worker' = [worker EXCEPT ![w] = "running"]
        /\ writers' = [writers EXCEPT ![r] = (@ \ {"sharer"}) \cup {"worker"}]
        /\ UNCHANGED <<rpc, reader, queue, task, unclaimed>>
        BY <1>10, <2>1 DEF Unpickle
  <2>3. r \notin unclaimed
        BY <2>1 DEF PipeInv
  <2>4. \A v \in Workers : \A q \in Requests : Holds(v, q)' <=> Holds(v, q)
        BY <2>2 DEF Holds
  <2>5. \A v \in Workers : v # w /\ worker[v] = "unpickling" => task[v] # r
        BY <2>1 DEF PlaceInv, Holds
  <2>6. \A q \in Requests : q # r /\ Fetching(q) => Fetching(q)'
        BY <2>1, <2>2 DEF Fetching
  <2>7. Holds(w, r)' /\ worker'[w] = "running"
        BY <2>1, <2>2, <2>4
  <2>8. \A v \in Workers : worker'[v] = "unpickling" => v # w /\ worker[v] = "unpickling"
        BY <2>2
  <2>9. /\ \A q \in Requests : q # r => writers'[q] = writers[q]
        /\ "sharer" \notin writers'[r]
        /\ "server" \in writers'[r] <=> "server" \in writers[r]
        BY <2>2
  <2>10. \A v \in Workers : worker[v] \in {"running", "sending"} => worker'[v] = worker[v]
         BY <2>2
  <2>11. ASSUME NEW q \in Requests, "worker" \in writers'[q]
         PROVE  \E v \in Workers : Holds(v, q)' /\ worker'[v] \in {"running", "sending"}
    <3>1. CASE q = r
          BY <2>7, <3>1
    <3>2. CASE q # r
      <4>1. PICK v \in Workers : Holds(v, q) /\ worker[v] \in {"running", "sending"}
            BY <2>9, <2>11, <3>2 DEF PipeInv
      <4>2. QED
            BY <2>4, <2>10, <4>1
    <3>3. QED
          BY <3>1, <3>2
  <2>12. ASSUME NEW v \in Workers, worker'[v] = "unpickling" PROVE "sharer" \in writers'[task'[v]]
    <3>1. task'[v] = task[v] /\ task[v] # r /\ task[v] \in Requests /\ "sharer" \in writers[task[v]]
          BY <2>2, <2>5, <2>8, <2>12 DEF PipeInv
    <3>2. QED
          BY <2>9, <3>1
  <2>13. \A q \in Requests : Held(q)' <=> Held(q)
         BY <2>4 DEF Held
  <2>14. QED
         BY <2>2, <2>3, <2>6, <2>9, <2>11, <2>12, <2>13 DEF PipeInv
<1>11. ASSUME NEW w \in Workers, NEW r \in Requests, Holds(w, r),
              worker[w] # "unpickling", worker'[w] # "unpickling",
              writers' = [writers EXCEPT ![r] = @ \ {"worker"}],
              \A v \in Workers : v # w => worker'[v] = worker[v] /\ task'[v] = task[v],
              \A q \in Requests : Holds(w, q)' => Holds(w, q),
              UNCHANGED <<queue, rpc, reader, unclaimed>>
       PROVE  PipeInv'
  <2>1. \A q \in Requests : q # r => writers'[q] = writers[q] /\ ~Holds(w, q)
        BY <1>11 DEF Holds
  <2>2. /\ "worker" \notin writers'[r]
        /\ "sharer" \in writers'[r] <=> "sharer" \in writers[r]
        /\ "server" \in writers'[r] <=> "server" \in writers[r]
        BY <1>11
  <2>3. ASSUME NEW q \in Requests, "worker" \in writers'[q]
        PROVE  \E v \in Workers : Holds(v, q)' /\ worker'[v] \in {"running", "sending"}
    <3>1. PICK v \in Workers : Holds(v, q) /\ worker[v] \in {"running", "sending"}
          BY <2>1, <2>2, <2>3 DEF PipeInv
    <3>2. v # w
          BY <2>1, <2>2, <2>3, <3>1
    <3>3. QED
          BY <1>11, <3>1, <3>2 DEF Holds
  <2>4. \A q \in Requests : (Fetching(q) => Fetching(q)') /\ (Held(q)' => Held(q))
        BY <1>11 DEF Fetching, Held, Holds
  <2>5. \A q \in Requests : "sharer" \in writers'[q] <=> "sharer" \in writers[q]
        BY <2>1, <2>2
  <2>6. \A v \in Workers : worker'[v] = "unpickling" => "sharer" \in writers'[task'[v]]
    <3>1. \A v \in Workers : worker'[v] = "unpickling" =>
            task'[v] = task[v] /\ worker[v] = "unpickling" /\ task[v] \in Requests
          BY <1>11
    <3>2. QED
          BY <2>5, <3>1 DEF PipeInv
  <2>7. QED
        BY <1>11, <2>1, <2>2, <2>3, <2>4, <2>5, <2>6 DEF PipeInv
<1>12. ASSUME NEW w \in Workers,
              Send(w) \/ SendBroken(w) \/ RaiseInRun(w) \/ HandleException(w)
       PROVE  PipeInv'
  <2>1. /\ worker[w] \in AtWork \ {"unpickling"} /\ worker'[w] # "unpickling"
        /\ UNCHANGED <<queue, rpc, reader, unclaimed>>
        BY <1>12 DEF Send, SendBroken, RaiseInRun, HandleException, BackToIdle
  <2>2. task[w] \in Requests /\ Holds(w, task[w])
        BY <2>1 DEF Holds
  <2>3. /\ writers' = [writers EXCEPT ![task[w]] = @ \ {"worker"}]
        /\ \A v \in Workers : v # w => worker'[v] = worker[v] /\ task'[v] = task[v]
        /\ task'[w] = task[w] \/ task'[w] = NoTask
        BY <1>12 DEF Send, SendBroken, RaiseInRun, HandleException, CloseWorkerInput, BackToIdle
  <2>4. \A q \in Requests : Holds(w, q)' => Holds(w, q)
        BY <2>2, <2>3 DEF Holds
  <2>5. QED
        BY <1>11, <2>1, <2>2, <2>3, <2>4
<1>13. ASSUME NEW w \in Workers, Killed(w) PROVE PipeInv'
  <2>1. /\ worker' = [worker EXCEPT ![w] = "dead"]
        /\ writers' = IF task[w] = NoTask THEN writers
                      ELSE [writers EXCEPT ![task[w]] = @ \ {"worker"}]
        /\ unclaimed' = IF worker[w] = "unpickling" THEN unclaimed \cup {task[w]} ELSE unclaimed
        /\ UNCHANGED <<queue, rpc, reader, task>>
        BY <1>13 DEF Killed
  <2>2. \A q \in Requests : (Held(q)' => Held(q)) /\ (Holds(w, q)' => Holds(w, q))
        BY <2>1 DEF Held, Holds
  <2>3. CASE worker[w] \notin {"dead", "unpickling"} /\ task[w] # NoTask
    <3>1. task[w] \in Requests /\ Holds(w, task[w]) /\ worker'[w] # "unpickling"
          BY <2>1, <2>3 DEF Holds
    <3>2. /\ writers' = [writers EXCEPT ![task[w]] = @ \ {"worker"}]
          /\ \A v \in Workers : v # w => worker'[v] = worker[v] /\ task'[v] = task[v]
          /\ UNCHANGED <<queue, rpc, reader, unclaimed>>
          BY <2>1, <2>3
    <3>3. QED
          BY <1>11, <2>2, <2>3, <3>1, <3>2
  <2>4. CASE worker[w] = "unpickling"
    <3>1. PICK r \in Requests : r = task[w] /\ Holds(w, r) /\ Held(r)
          BY <2>4 DEF Held, Holds
    <3>2. "worker" \notin writers[r]
          BY <2>4, <3>1 DEF PlaceInv, PipeInv, Holds
    <3>3. writers' = writers /\ unclaimed' = unclaimed \cup {r}
          BY <2>1, <2>4, <3>1, <3>2
    <3>4. "sharer" \in writers[r] /\ rpc[r] \notin NotSubmitted /\ r \notin Entries(queue)
          BY <2>4, <3>1 DEF PipeInv, PlaceInv
    <3>5. ~Held(r)'
          BY <2>1, <3>1 DEF PlaceInv, Held, Holds
    <3>6. \A q \in Requests : q # r /\ Fetching(q) => Fetching(q)'
          BY <2>1, <3>1 DEF Fetching
    <3>7. \A v \in Workers : worker'[v] # "dead" => worker'[v] = worker[v] /\ v # w
          BY <2>1
    <3>8. \A v \in Workers : \A q \in Requests :
            Holds(v, q) /\ worker[v] \in {"running", "sending"} => Holds(v, q)' /\ worker'[v] = worker[v]
          BY <2>1, <2>4 DEF Holds
    <3>9. QED
          BY <2>1, <2>2, <3>3, <3>4, <3>5, <3>6, <3>7, <3>8 DEF PipeInv
  <2>5. CASE task[w] = NoTask
        BY <2>1, <2>2, <2>5 DEF PipeInv, Holds, Fetching
  <2>6. CASE worker[w] = "dead" /\ task[w] # NoTask
    <3>1. UNCHANGED <<worker, unclaimed>>
          BY <2>1, <2>6
    <3>2. \A q \in Requests :
            /\ "worker" \in writers'[q] => "worker" \in writers[q]
            /\ "sharer" \in writers'[q] <=> "sharer" \in writers[q]
            /\ "server" \in writers'[q] <=> "server" \in writers[q]
          BY <2>1, <2>6
    <3>3. \A v \in Workers : worker[v] = "unpickling" => task[v] \in Requests
          OBVIOUS
    <3>4. QED
          BY <2>1, <2>2, <3>1, <3>2, <3>3 DEF PipeInv, Holds, Fetching
  <2>7. QED
        BY <2>3, <2>4, <2>5, <2>6
<1>14. ASSUME NEW w \in Workers, KilledWithEntry(w) PROVE PipeInv'
  <2>1. PICK r \in Requests : r = Head(queue)
        BY <1>14, EntriesOfTail DEF KilledWithEntry, Available
  <2>2. /\ worker[w] = "polling" /\ worker' = [worker EXCEPT ![w] = "dead"]
        /\ queue' = Tail(queue) /\ queue # <<>> /\ unclaimed' = unclaimed \cup {r}
        /\ "sharer" \in writers[r] /\ UNCHANGED <<rpc, reader, writers, task>>
        BY <1>14, <2>1 DEF KilledWithEntry, Available
  <2>3. Entries(queue) = {r} \cup Entries(queue') /\ r \notin Entries(queue')
        BY <2>1, <2>2, EntriesOfTail DEF PlaceInv
  <2>4. ~Held(r) /\ rpc[r] \notin NotSubmitted
        BY <2>3 DEF PlaceInv
  <2>5. \A v \in Workers : worker[v] \in {"unpickling", "running", "sending"} =>
          worker'[v] = worker[v]
        BY <2>2
  <2>6. \A v \in Workers : worker'[v] = "unpickling" => worker[v] = "unpickling"
        BY <2>2
  <2>7. \A q \in Requests : (Held(q)' => Held(q)) /\ (Fetching(q) => Fetching(q)')
        BY <2>2, <2>5 DEF Held, Holds, Fetching
  <2>8. QED
        BY <2>2, <2>3, <2>4, <2>5, <2>6, <2>7 DEF PipeInv, Holds
<1>15. CASE UNCHANGED vars
       BY <1>15 DEF vars, PipeInv, Held, Holds, Fetching
<1>16. QED
       BY <1>2, <1>3, <1>4, <1>5, <1>6, <1>7, <1>8, <1>9, <1>10, <1>12, <1>13, <1>14, <1>15
          DEF Next, Call, Feeder, WorkerStep

LEMMA InitPipes == Init => PipeInv
  BY NamesAssumption DEF Init, PipeInv, InService, Entries, NotSubmitted, Held, Holds

(* When a call is over and its task is neither queued nor with a live      *)
(* worker, every end of its pipe is closed, whatever timed out, was        *)
(* cancelled, raised or was killed on the way; the duplicate of the write  *)
(* end stays with the server if, and only if, a worker was killed after    *)
(* reading the entry and before fetching it (OnlyUnclaimedEndsStayOpen).   *)
THEOREM OnlyUnclaimedEndsStay == Spec => []OnlyUnclaimedEndsStayOpen
<1>1. TypeInv /\ PipeInv => OnlyUnclaimedEndsStayOpen
  <2> SUFFICES ASSUME TypeInv, PipeInv, NEW r \in Requests, Ended(r), r \notin Queued,
                      InHand(r) = {}
               PROVE  ~reader[r] /\ writers[r] = IF r \in unclaimed THEN {"sharer"} ELSE {}
      BY DEF OnlyUnclaimedEndsStayOpen
  <2>1. r \notin Entries(queue) /\ ~Held(r) /\ ~Fetching(r)
        BY DEF Queued, Entries, InHand, Held, Holds, Fetching
  <2>2. /\ "server" \notin writers[r] /\ ~reader[r] /\ "worker" \notin writers[r]
        /\ "sharer" \in writers[r] <=> r \in unclaimed
        BY <2>1 DEF PipeInv, Held, Ended, InService
  <2>3. writers[r] \subseteq {"server", "sharer", "worker"}
        BY DEF TypeInv, TypeOK
  <2>4. QED
        BY <2>2, <2>3
<1>2. QED
      BY <1>1, PlacesAlways, InitPipes, PipeStep, PTL DEF Spec

-----------------------------------------------------------------------------
(***************************************************************************)
(* What is in the pipes.                                                   *)
(***************************************************************************)

(* No error message, and results only of a run that has completed.         *)
MessageInv ==
  \A r \in Requests : pipe[r] # "error" /\ (pipe[r] # "empty" => r \in processed)

LEMMA MessageStep == TypeInv /\ PlaceInv /\ PipeInv /\ MessageInv /\ [Next]_vars => MessageInv'
<1> SUFFICES ASSUME TypeInv, PlaceInv, PipeInv, MessageInv, [Next]_vars PROVE MessageInv'
    OBVIOUS
<1> USE NamesAssumption DEF TypeInv, TypeOK, TaskInv, AtWork, server, workers
<1>1. ASSUME NEW r \in Requests, Call(r) \/ Feeder(r) PROVE MessageInv'
  <2>1. UNCHANGED <<pipe, processed>>
        BY <1>1 DEF Call, Feeder, Arrive, StreamTimeout, PipeFails, Submit, RejectFull, Register,
           PipeError, Notify, ProcessingTimeout, Cancel, Receive, Received, FeedTask, DropTask
  <2>2. QED
        BY <2>1 DEF MessageInv
<1>2. ASSUME NEW w \in Workers,
             \/ Poll(w) \/ PollTimeout(w) \/ Take(w) \/ Unpickle(w) \/ SendBroken(w)
             \/ RaiseInRun(w) \/ Killed(w) \/ KilledWithEntry(w) \/ Replace(w)
      PROVE  MessageInv'
  <2>1. UNCHANGED <<pipe, processed>>
        BY <1>2 DEF Poll, PollTimeout, Take, Unpickle, SendBroken, RaiseInRun, Killed,
           KilledWithEntry, Replace
  <2>2. QED
        BY <2>1 DEF MessageInv
<1>3. ASSUME NEW w \in Workers, FinishRun(w) PROVE MessageInv'
      BY <1>3 DEF FinishRun, MessageInv
<1>4. ASSUME NEW w \in Workers, Send(w) \/ SendPart(w) PROVE MessageInv'
  <2>1. /\ worker[w] = "sending" /\ task[w] \in Requests /\ UNCHANGED processed
        /\ \E to \in {"results", "partial"} : pipe' = [pipe EXCEPT ![task[w]] = to]
        BY <1>4 DEF Send, SendPart
  <2>2. task[w] \in processed
        BY <2>1 DEF PlaceInv
  <2>3. QED
        BY <2>1, <2>2 DEF MessageInv
<1>5. ASSUME NEW w \in Workers, HandleException(w) PROVE MessageInv'
  <2>1. worker[w] = "failed" /\ task[w] \in Requests /\ Holds(w, task[w])
        BY <1>5 DEF HandleException, Holds
  <2>2. "worker" \notin writers[task[w]]
        BY <2>1 DEF PlaceInv, PipeInv
  <2>3. UNCHANGED <<pipe, processed>>
        BY <1>5, <2>2 DEF HandleException
  <2>4. QED
        BY <2>3 DEF MessageInv
<1>6. CASE UNCHANGED vars
      BY <1>6 DEF vars, MessageInv
<1>7. QED
      BY <1>1, <1>2, <1>3, <1>4, <1>5, <1>6 DEF Next, WorkerStep

LEMMA InitMessages == Init => MessageInv
  BY DEF Init, MessageInv

IInv == TypeInv /\ PlaceInv /\ PipeInv /\ MessageInv

LEMMA InvariantsAlways == Spec => []IInv
<1>1. Init => IInv
      BY InitTypes, InitPlaces, InitPipes, InitMessages DEF IInv
<1>2. IInv /\ [Next]_vars => IInv'
      BY TypeStep, PlaceStep, PipeStep, MessageStep DEF IInv
<1>3. QED
      BY <1>1, <1>2, PTL DEF Spec

-----------------------------------------------------------------------------
(***************************************************************************)
(* RequestPath implements RpcLifecycle.                                    *)
(***************************************************************************)
phase == [r \in Requests |-> Phase[rpc[r]]]

(* The phase of one call changes, that of no other.                        *)
LEMMA PhaseOfOne ==
  ASSUME TypeInv, NEW r \in Requests, NEW to \in RpcStates, rpc' = [rpc EXCEPT ![r] = to]
  PROVE  phase' = [phase EXCEPT ![r] = Phase[to]] /\ phase[r] = Phase[rpc[r]]
<1>1. rpc \in [Requests -> RpcStates]
      BY DEF TypeInv, TypeOK
<1>2. QED
      BY <1>1 DEF phase

(* A step that changes the phase of no call, no outcome and no history.    *)
LEMMA Stutters ==
  ASSUME UNCHANGED <<rpc, outcome, processed>>
  PROVE  UNCHANGED <<phase, outcome, processed>>
  BY DEF phase

LEMMA StepImplements ==
  IInv /\ [Next]_vars => [Lifecycle!Next]_<<phase, outcome, processed>>
<1> SUFFICES ASSUME IInv, [Next]_vars
             PROVE  Lifecycle!Next \/ UNCHANGED <<phase, outcome, processed>>
    OBVIOUS
<1> USE DEF IInv, server, workers
<1>1. ASSUME NEW r \in Requests, Arrive(r) PROVE Lifecycle!Open(r)
  <2>1. /\ rpc[r] = "new" /\ rpc' = [rpc EXCEPT ![r] = "streaming"]
        /\ UNCHANGED <<outcome, processed>>
        BY <1>1 DEF Arrive
  <2>2. phase[r] = "new" /\ phase' = [phase EXCEPT ![r] = "reading"]
    <3>1. phase[r] = Phase["new"] /\ phase' = [phase EXCEPT ![r] = Phase["streaming"]]
          BY <2>1, PhaseOfOne DEF RpcStates
    <3>2. Phase["new"] = "new" /\ Phase["streaming"] = "reading"
          BY DEF Phase
    <3>3. QED
          BY <3>1, <3>2
  <2>3. QED
        BY <2>1, <2>2 DEF Lifecycle!Open, phase
<1>2. ASSUME NEW r \in Requests, Submit(r) PROVE Lifecycle!Accept(r)
  <2>1. /\ rpc[r] = "streaming" /\ rpc' = [rpc EXCEPT ![r] = "registering"]
        /\ UNCHANGED <<outcome, processed>>
        BY <1>2 DEF Submit
  <2>2. phase[r] = "reading" /\ phase' = [phase EXCEPT ![r] = "accepted"]
    <3>1. phase[r] = Phase["streaming"] /\ phase' = [phase EXCEPT ![r] = Phase["registering"]]
          BY <2>1, PhaseOfOne DEF RpcStates
    <3>2. Phase["streaming"] = "reading" /\ Phase["registering"] = "accepted"
          BY DEF Phase
    <3>3. QED
          BY <3>1, <3>2
  <2>3. QED
        BY <2>1, <2>2 DEF Lifecycle!Accept, phase
<1>3. ASSUME NEW r \in Requests, NEW s, Refuse(r, s), rpc[r] = "streaming", UNCHANGED processed,
             s \in {"RESOURCE_EXHAUSTED", "DEADLINE_EXCEEDED", "CANCELLED", "INTERNAL"}
      PROVE  Lifecycle!Refuse(r)
  <2>1. phase' = [phase EXCEPT ![r] = "refused"] /\ phase[r] = "reading"
    <3>1. phase' = [phase EXCEPT ![r] = Phase["refused"]] /\ phase[r] = Phase["streaming"]
          BY <1>3, PhaseOfOne DEF Refuse, RpcStates
    <3>2. Phase["refused"] = "refused" /\ Phase["streaming"] = "reading"
          BY DEF Phase
    <3>3. QED
          BY <3>1, <3>2
  <2>2. Lifecycle!End(r, "refused", s)
        BY <1>3, <2>1 DEF Refuse, Lifecycle!End, phase
  <2>3. QED
        BY <1>3, <2>1, <2>2 DEF Lifecycle!Refuse, phase
<1>4. ASSUME NEW r \in Requests, NEW s, Answer(r, s), UNCHANGED processed,
             rpc[r] \in {"registering", "waiting", "receiving"}
      PROVE  phase[r] = "accepted" /\ Lifecycle!End(r, "closed", s)
  <2>1. phase' = [phase EXCEPT ![r] = "closed"] /\ phase[r] = "accepted"
    <3>1. phase' = [phase EXCEPT ![r] = Phase["done"]] /\ phase[r] = Phase[rpc[r]]
          BY <1>4, PhaseOfOne DEF Answer, RpcStates
    <3>2. Phase["done"] = "closed" /\ Phase[rpc[r]] = "accepted"
          BY <1>4 DEF Phase
    <3>3. QED
          BY <3>1, <3>2
  <2>2. QED
        BY <1>4, <2>1 DEF Answer, Lifecycle!End, phase
<1>5. ASSUME NEW r \in Requests, StreamTimeout(r) \/ PipeFails(r) \/ RejectFull(r)
      PROVE  Lifecycle!Refuse(r)
      BY <1>3, <1>5 DEF StreamTimeout, PipeFails, RejectFull
<1>6. ASSUME NEW r \in Requests, ProcessingTimeout(r) \/ PipeError(r) PROVE Lifecycle!Fail(r)
  <2>1. /\ \E s \in {"DEADLINE_EXCEEDED", "INTERNAL"} : Answer(r, s)
        /\ rpc[r] \in {"registering", "waiting", "receiving"} /\ UNCHANGED processed
        BY <1>6 DEF ProcessingTimeout, PipeError
  <2>2. QED
        BY <1>4, <2>1 DEF Lifecycle!Fail, phase
<1>7. ASSUME NEW r \in Requests, Cancel(r) PROVE Lifecycle!Refuse(r) \/ Lifecycle!Fail(r)
  <2>1. CASE rpc[r] = "streaming" /\ Refuse(r, "CANCELLED")
        BY <1>3, <1>7, <2>1 DEF Cancel
  <2>2. CASE rpc[r] = "waiting" /\ Answer(r, "CANCELLED")
        BY <1>4, <1>7, <2>2 DEF Cancel, Lifecycle!Fail, phase
  <2>3. QED
        BY <1>7, <2>1, <2>2 DEF Cancel
<1>8. ASSUME NEW r \in Requests, Received(r) PROVE Lifecycle!Succeed(r)
  <2>1. rpc[r] = "receiving" /\ r \in processed /\ pipe[r] # "error"
        BY <1>8 DEF Received, MessageInv
  <2>2. Answer(r, "OK") /\ UNCHANGED processed
        BY <1>8, <2>1 DEF Received
  <2>3. phase[r] = "accepted" /\ Lifecycle!End(r, "closed", "OK")
        BY <1>4, <2>1, <2>2
  <2>4. QED
        BY <2>1, <2>3 DEF Lifecycle!Succeed, phase
<1>9. ASSUME NEW w \in Workers, FinishRun(w) PROVE \E r \in Requests : Lifecycle!Process(r)
  <2>1. /\ worker[w] = "running" /\ processed' = processed \cup {task[w]}
        /\ UNCHANGED <<rpc, outcome>>
        BY <1>9 DEF FinishRun
  <2>2. PICK r \in Requests : r = task[w] /\ Held(r)
        BY <2>1 DEF TypeInv, TypeOK, TaskInv, AtWork, Held, Holds
  <2>3. /\ r \notin processed
        /\ rpc[r] \in {"registering", "waiting", "receiving", "done"}
        BY <2>1, <2>2 DEF PlaceInv, TypeInv, TypeOK, RpcStates, NotSubmitted
  <2>4. phase[r] \in {"accepted", "closed"} /\ UNCHANGED phase
        BY <2>1, <2>3 DEF phase, Phase
  <2>5. Lifecycle!Process(r)
        BY <2>1, <2>2, <2>3, <2>4 DEF Lifecycle!Process, phase
  <2>6. QED
        BY <2>5
<1>10. ASSUME NEW r \in Requests, Register(r) \/ Receive(r)
       PROVE  UNCHANGED <<phase, outcome, processed>>
  <2>1. /\ UNCHANGED <<outcome, processed>>
        /\ \E to \in {"waiting", "receiving"} : rpc' = [rpc EXCEPT ![r] = to]
        /\ rpc[r] \in {"registering", "waiting"}
        BY <1>10 DEF Register, Receive
  <2>2. \A q \in Requests : Phase[rpc'[q]] = Phase[rpc[q]]
        BY <2>1 DEF Phase, TypeInv, TypeOK
  <2>3. QED
        BY <2>1, <2>2 DEF phase
<1>11. ASSUME NEW r \in Requests, Notify(r) \/ FeedTask(r) \/ DropTask(r)
       PROVE  UNCHANGED <<phase, outcome, processed>>
       BY <1>11, Stutters DEF Notify, FeedTask, DropTask
<1>12. ASSUME NEW w \in Workers,
              \/ Poll(w) \/ PollTimeout(w) \/ Take(w) \/ Unpickle(w) \/ Send(w) \/ SendPart(w)
              \/ SendBroken(w) \/ RaiseInRun(w) \/ HandleException(w) \/ Killed(w)
              \/ KilledWithEntry(w) \/ Replace(w)
       PROVE  UNCHANGED <<phase, outcome, processed>>
       BY <1>12, Stutters DEF Poll, PollTimeout, Take, Unpickle, Send, SendPart, SendBroken,
          RaiseInRun, HandleException, Killed, KilledWithEntry, Replace
<1>13. CASE UNCHANGED vars
       BY <1>13, Stutters DEF vars
<1>14. QED
       BY <1>1, <1>2, <1>5, <1>6, <1>7, <1>8, <1>9, <1>10, <1>11, <1>12, <1>13
          DEF Next, Call, Feeder, WorkerStep, Lifecycle!Next

(* The request path behaves as RpcLifecycle promises (ImplementsLifecycle):*)
(* a call gets one answer and no second one, its samples are processed at  *)
(* most once and only if it was accepted, OK is answered only after its    *)
(* own run completed, and a call turned away is never processed, be it for *)
(* a full queue, a timeout, a cancellation or a pipe that did not open.    *)
THEOREM PathImplementsLifecycle == Spec => ImplementsLifecycle
<1>1. Init => Lifecycle!Init
      BY DEF Init, Lifecycle!Init, Phase
<1>2. IInv /\ [Next]_vars => [Lifecycle!Next]_<<phase, outcome, processed>>
      BY StepImplements
<1>3. QED
      BY <1>1, <1>2, InvariantsAlways, PTL DEF Spec, ImplementsLifecycle, Lifecycle!Spec, phase
=============================================================================
