----------------------------- MODULE RequestPath -----------------------------
(***************************************************************************)
(* The path of a ProcessAddress call through the server: the coroutine of  *)
(* the call, the bounded input queue with its feeder thread, the worker    *)
(* that takes the task, and the pipe on which the answer comes back.       *)
(*                                                                         *)
(* Every step of the server is one stretch of a coroutine between two      *)
(* awaits; the worker processes and the feeder thread run between any two  *)
(* of them.  Timeouts may fire whenever their coroutine waits.             *)
(***************************************************************************)
EXTENDS Naturals, Sequences, FiniteSets, SequencesExt

CONSTANTS
  Requests,
  Workers,          (* Slots of the pool; a dead worker's slot is refilled. *)
  MaxQueue,         (* max_queue_size.                                      *)
  LargeResults,     (* Whether results may exceed what a pipe can hold.     *)
  Deaths,           (* Worker states in which the process may be killed.    *)
  Free, Lost,       (* The reader lock: held by nobody; by a dead process.  *)
  NoTask

ASSUME QueueAssumption == MaxQueue \in Nat \ {0}
ASSUME NamesAssumption == /\ Free \notin Workers /\ Lost \notin Workers /\ Free # Lost
                          /\ NoTask \notin Requests

VARIABLES
  rpc,        \* where the coroutine of a call is
  event,      \* tracked_event of its task
  outcome,    \* status its caller gets
  queue,      \* _input_queue, with the entries the feeder has not sent yet
  pipe,       \* what a reader of read_channel finds
  writers,    \* who holds the write end open: server, resource sharer or worker
  reader,     \* whether read_channel is open
  worker,     \* where a worker is
  task,       \* the request of the WorkerInput it has
  rlock,      \* the reader lock inside the input queue
  processed,  \* history: requests whose pipeline run has completed
  unclaimed   \* history: requests whose write end no worker lived to fetch

server == <<rpc, event, outcome>>
workers == <<worker, task, rlock, processed, unclaimed>>
vars == <<rpc, event, outcome, queue, pipe, writers, reader, worker, task, rlock,
          processed, unclaimed>>

RpcStates == {"new", "streaming", "refused", "registering", "waiting", "receiving", "done"}
WorkerStates == {"idle", "polling", "unpickling", "running", "sending", "failed", "dead"}

TypeOK ==
  /\ rpc \in [Requests -> RpcStates] /\ event \in [Requests -> BOOLEAN]
  /\ outcome \in [Requests -> {"NONE", "OK", "DEADLINE_EXCEEDED", "INTERNAL",
                               "RESOURCE_EXHAUSTED", "CANCELLED"}]
  /\ queue \in Seq(Requests) /\ Len(queue) <= MaxQueue
  /\ pipe \in [Requests -> {"empty", "partial", "results", "error"}]
  /\ writers \in [Requests -> SUBSET {"server", "sharer", "worker"}]
  /\ reader \in [Requests -> BOOLEAN]
  /\ worker \in [Workers -> WorkerStates] /\ task \in [Workers -> Requests \cup {NoTask}]
  /\ rlock \in Workers \cup {Free, Lost}
  /\ processed \in SUBSET Requests /\ unclaimed \in SUBSET Requests

Init ==
  /\ rpc = [r \in Requests |-> "new"] /\ event = [r \in Requests |-> FALSE]
  /\ outcome = [r \in Requests |-> "NONE"]
  /\ queue = <<>>
  /\ pipe = [r \in Requests |-> "empty"] /\ writers = [r \in Requests |-> {}]
  /\ reader = [r \in Requests |-> FALSE]
  /\ worker = [w \in Workers |-> "idle"] /\ task = [w \in Workers |-> NoTask]
  /\ rlock = Free /\ processed = {} /\ unclaimed = {}

Queued == {queue[i] : i \in 1..Len(queue)}

(* The event loop stands while a call goes on from put_nowait() to         *)
(* add_reader(), which no await separates, and while it is in recv(),      *)
(* which is no coroutine.                                                  *)
LoopFree == \A r \in Requests : rpc[r] \notin {"registering", "receiving"}

(* A message, or the end of file once nobody holds the write end.          *)
Readable(r) == pipe[r] # "empty" \/ writers[r] = {}

-----------------------------------------------------------------------------
(***************************************************************************)
(* The coroutine of a call.                                                *)
(***************************************************************************)
Answer(r, status) == /\ rpc' = [rpc EXCEPT ![r] = "done"]
                     /\ outcome' = [outcome EXCEPT ![r] = status]

(* The call ends before its task is in the queue.                          *)
Refuse(r, status) == /\ rpc' = [rpc EXCEPT ![r] = "refused"]
                     /\ outcome' = [outcome EXCEPT ![r] = status]

\* Mutant: the read end stays open.
CloseWriteEndOnly(r) == /\ event' = [event EXCEPT ![r] = TRUE]
                        /\ writers' = [writers EXCEPT ![r] = @ \ {"server"}]
                        /\ UNCHANGED reader

(* __exit__ of the task: the event, the reader and both ends of the pipe.  *)
CloseTask(r) == /\ event' = [event EXCEPT ![r] = TRUE]
                /\ reader' = [reader EXCEPT ![r] = FALSE]
                /\ writers' = [writers EXCEPT ![r] = @ \ {"server"}]

Arrive(r) ==
  /\ LoopFree /\ rpc[r] = "new"
  /\ rpc' = [rpc EXCEPT ![r] = "streaming"]
  /\ UNCHANGED <<event, outcome, queue, pipe, writers, reader, workers>>

StreamTimeout(r) ==
  /\ LoopFree /\ rpc[r] = "streaming"
  /\ Refuse(r, "DEADLINE_EXCEEDED")
  /\ UNCHANGED <<event, queue, pipe, writers, reader, workers>>

(* The stream has ended, and Pipe() raises OSError: the with block is not  *)
(* entered, so there is nothing to leave.                                  *)
PipeFails(r) ==
  /\ LoopFree /\ rpc[r] = "streaming"
  /\ Refuse(r, "INTERNAL")
  /\ UNCHANGED <<event, queue, pipe, writers, reader, workers>>

\* Mutant: a full queue is not refused.
SubmitAlways(r) ==
  /\ LoopFree /\ rpc[r] = "streaming"
  /\ queue' = Append(queue, r)
  /\ writers' = [writers EXCEPT ![r] = {"server"}]
  /\ reader' = [reader EXCEPT ![r] = TRUE]
  /\ rpc' = [rpc EXCEPT ![r] = "registering"]
  /\ UNCHANGED <<event, outcome, pipe, workers>>

(* The stream has ended.  The pipe is opened and the task queued.          *)
Submit(r) ==
  /\ LoopFree /\ rpc[r] = "streaming" /\ Len(queue) < MaxQueue
  /\ queue' = Append(queue, r)
  /\ writers' = [writers EXCEPT ![r] = {"server"}]
  /\ reader' = [reader EXCEPT ![r] = TRUE]
  /\ rpc' = [rpc EXCEPT ![r] = "registering"]
  /\ UNCHANGED <<event, outcome, pipe, workers>>

(* Full: the task is left again at once, and both ends closed.             *)
RejectFull(r) ==
  /\ LoopFree /\ rpc[r] = "streaming" /\ Len(queue) >= MaxQueue
  /\ Refuse(r, "RESOURCE_EXHAUSTED") /\ CloseTask(r)
  /\ UNCHANGED <<queue, pipe, workers>>

(* add_reader(): the call waits from here on.                              *)
Register(r) ==
  /\ rpc[r] = "registering"
  /\ rpc' = [rpc EXCEPT ![r] = "waiting"]
  /\ UNCHANGED <<event, outcome, queue, pipe, writers, reader, workers>>

(* add_reader() or recv() raises OSError; the task may be in the queue or  *)
(* with a worker by then.                                                  *)
PipeError(r) ==
  /\ rpc[r] \in {"registering", "receiving"}
  /\ Answer(r, "INTERNAL") /\ CloseTask(r)
  /\ UNCHANGED <<queue, pipe, workers>>

(* The reader callback of the event loop.                                  *)
Notify(r) ==
  /\ LoopFree /\ rpc[r] = "waiting" /\ ~event[r] /\ Readable(r)
  /\ event' = [event EXCEPT ![r] = TRUE]
  /\ UNCHANGED <<rpc, outcome, queue, pipe, writers, reader, workers>>

\* Mutant: the time is only looked at once something can be read.
TimeoutOnceReadable(r) ==
  /\ LoopFree /\ rpc[r] = "waiting" /\ Readable(r)
  /\ Answer(r, "DEADLINE_EXCEEDED") /\ CloseTask(r)
  /\ UNCHANGED <<queue, pipe, workers>>

(* The timer fires; also between the callback and the coroutine's next     *)
(* turn, when the answer is lost.                                          *)
ProcessingTimeout(r) ==
  /\ LoopFree /\ rpc[r] = "waiting"
  /\ Answer(r, "DEADLINE_EXCEEDED") /\ CloseTask(r)
  /\ UNCHANGED <<queue, pipe, workers>>

\* Mutant: a call that has its answer is cancelled too.
CancelAnswered(r) ==
  /\ LoopFree
  /\ \/ /\ rpc[r] = "streaming" /\ Refuse(r, "CANCELLED")
        /\ UNCHANGED <<event, reader, writers>>
     \/ rpc[r] \in {"waiting", "done"} /\ Answer(r, "CANCELLED") /\ CloseTask(r)
  /\ UNCHANGED <<queue, pipe, workers>>

(* The caller has gone: the cancellation is raised at the await.           *)
Cancel(r) ==
  /\ LoopFree
  /\ \/ /\ rpc[r] = "streaming" /\ Refuse(r, "CANCELLED")
        /\ UNCHANGED <<event, reader, writers>>
     \/ rpc[r] = "waiting" /\ Answer(r, "CANCELLED") /\ CloseTask(r)
  /\ UNCHANGED <<queue, pipe, workers>>

Receive(r) ==
  /\ LoopFree /\ rpc[r] = "waiting" /\ event[r]
  /\ rpc' = [rpc EXCEPT ![r] = "receiving"]
  /\ UNCHANGED <<event, outcome, queue, pipe, writers, reader, workers>>

(* recv() returns once it has read a whole message.                        *)
Received(r) ==
  /\ rpc[r] = "receiving" /\ pipe[r] \in {"results", "error"}
  /\ Answer(r, IF pipe[r] = "error" THEN "INTERNAL" ELSE "OK") /\ CloseTask(r)
  /\ UNCHANGED <<queue, pipe, workers>>

-----------------------------------------------------------------------------
(***************************************************************************)
(* The feeder thread of the input queue: it pickles entries in order, and  *)
(* pickling duplicates the write end: the duplicate stays with the         *)
(* resource sharer of the server until a worker fetches it.                *)
(***************************************************************************)
NextToFeed(i) == /\ "sharer" \notin writers[queue[i]]
                 /\ \A j \in 1..i - 1 : "sharer" \in writers[queue[j]]

FeedTask(r) ==
  /\ "server" \in writers[r]
  /\ \E i \in 1..Len(queue) : queue[i] = r /\ NextToFeed(i)
  /\ writers' = [writers EXCEPT ![r] = @ \cup {"sharer"}]
  /\ UNCHANGED <<server, queue, pipe, reader, workers>>

(* The write end has been closed meanwhile: pickling fails and the entry   *)
(* is dropped.                                                             *)
DropTask(r) ==
  /\ "server" \notin writers[r]
  /\ \E i \in 1..Len(queue) : /\ queue[i] = r /\ NextToFeed(i)
                              /\ queue' = RemoveAt(queue, i)
  /\ UNCHANGED <<server, pipe, writers, reader, workers>>

-----------------------------------------------------------------------------
(***************************************************************************)
(* The worker processes.  get() takes the reader lock of the queue and     *)
(* holds it while it polls for an entry.                                   *)
(***************************************************************************)
Available == queue # <<>> /\ "sharer" \in writers[Head(queue)]

Poll(w) ==
  /\ worker[w] = "idle" /\ rlock = Free
  /\ worker' = [worker EXCEPT ![w] = "polling"] /\ rlock' = w
  /\ UNCHANGED <<server, queue, pipe, writers, reader, task, processed, unclaimed>>

\* Mutant: the reader lock is kept when the wait ends without an entry.
PollTimeoutKeepsLock(w) ==
  /\ worker[w] = "polling" /\ ~Available
  /\ worker' = [worker EXCEPT ![w] = "idle"]
  /\ UNCHANGED <<server, queue, pipe, writers, reader, task, rlock, processed, unclaimed>>

PollTimeout(w) ==
  /\ worker[w] = "polling" /\ ~Available
  /\ worker' = [worker EXCEPT ![w] = "idle"] /\ rlock' = Free
  /\ UNCHANGED <<server, queue, pipe, writers, reader, task, processed, unclaimed>>

\* Mutant: the entry is read and left where it is.
TakeACopy(w) ==
  /\ worker[w] = "polling" /\ Available
  /\ worker' = [worker EXCEPT ![w] = "unpickling"] /\ rlock' = Free
  /\ task' = [task EXCEPT ![w] = Head(queue)]
  /\ UNCHANGED <<server, queue, pipe, writers, reader, processed, unclaimed>>

(* The bytes of the entry are read, and its place and the lock released.   *)
Take(w) ==
  /\ worker[w] = "polling" /\ Available
  /\ worker' = [worker EXCEPT ![w] = "unpickling"] /\ rlock' = Free
  /\ task' = [task EXCEPT ![w] = Head(queue)] /\ queue' = Tail(queue)
  /\ UNCHANGED <<server, pipe, writers, reader, processed, unclaimed>>

(* Only now get() unpickles them, for which the worker fetches the write   *)
(* end from the resource sharer, which closes its duplicate.               *)
Unpickle(w) ==
  /\ worker[w] = "unpickling"
  /\ worker' = [worker EXCEPT ![w] = "running"]
  /\ writers' = [writers EXCEPT ![task[w]] = (@ \ {"sharer"}) \cup {"worker"}]
  /\ UNCHANGED <<server, queue, pipe, reader, task, rlock, processed, unclaimed>>

FinishRun(w) ==
  /\ worker[w] = "running"
  /\ worker' = [worker EXCEPT ![w] = "sending"]
  /\ processed' = processed \cup {task[w]}
  /\ UNCHANGED <<server, queue, pipe, writers, reader, task, rlock, unclaimed>>

(* The worker leaves the with block: __exit__ closes its write end.        *)
CloseWorkerInput(w) == writers' = [writers EXCEPT ![task[w]] = @ \ {"worker"}]

BackToIdle(w) == worker' = [worker EXCEPT ![w] = "idle"] /\ task' = [task EXCEPT ![w] = NoTask]

Send(w) ==
  /\ worker[w] = "sending" /\ reader[task[w]]
  /\ \/ pipe[task[w]] = "empty"
     \/ pipe[task[w]] = "partial" /\ rpc[task[w]] = "receiving"
  /\ pipe' = [pipe EXCEPT ![task[w]] = "results"]
  /\ CloseWorkerInput(w) /\ BackToIdle(w)
  /\ UNCHANGED <<server, queue, reader, rlock, processed, unclaimed>>

(* The pipe is full before the message is complete: the worker is blocked  *)
(* until the server reads.                                                 *)
SendPart(w) ==
  /\ LargeResults /\ worker[w] = "sending" /\ reader[task[w]] /\ pipe[task[w]] = "empty"
  /\ pipe' = [pipe EXCEPT ![task[w]] = "partial"]
  /\ UNCHANGED <<server, queue, writers, reader, workers>>

\* Mutant: the write end is not closed after a broken pipe.
SendBrokenKeepsEnd(w) ==
  /\ worker[w] = "sending" /\ ~reader[task[w]]
  /\ BackToIdle(w)
  /\ UNCHANGED <<server, queue, pipe, writers, reader, rlock, processed, unclaimed>>

(* Nobody reads any more: BrokenPipeError, which send() swallows.          *)
SendBroken(w) ==
  /\ worker[w] = "sending" /\ ~reader[task[w]]
  /\ CloseWorkerInput(w) /\ BackToIdle(w)
  /\ UNCHANGED <<server, queue, pipe, reader, rlock, processed, unclaimed>>

(* The pipeline raises: the with block is left before the handler runs.    *)
RaiseInRun(w) ==
  /\ worker[w] = "running"
  /\ worker' = [worker EXCEPT ![w] = "failed"]
  /\ CloseWorkerInput(w)
  /\ UNCHANGED <<server, queue, pipe, reader, task, rlock, processed, unclaimed>>

(* The handler sends the exception and raises it again.  Sending on a      *)
(* closed end raises OSError instead, so nothing is sent.                  *)
HandleException(w) ==
  /\ worker[w] = "failed"
  /\ pipe' = IF "worker" \in writers[task[w]] /\ reader[task[w]]
               THEN [pipe EXCEPT ![task[w]] = "error"] ELSE pipe
  /\ worker' = [worker EXCEPT ![w] = "dead"] /\ CloseWorkerInput(w)
  /\ UNCHANGED <<server, queue, reader, task, rlock, processed, unclaimed>>

(* The process is killed.  Its descriptors are closed; a lock it held is   *)
(* never released, a descriptor it has not fetched never asked for.        *)
Killed(w) ==
  /\ worker[w] \in Deaths
  /\ worker' = [worker EXCEPT ![w] = "dead"]
  /\ rlock' = IF rlock = w THEN Lost ELSE rlock
  /\ writers' = IF task[w] = NoTask THEN writers
                ELSE [writers EXCEPT ![task[w]] = @ \ {"worker"}]
  /\ unclaimed' = IF worker[w] = "unpickling" THEN unclaimed \cup {task[w]} ELSE unclaimed
  /\ UNCHANGED <<server, queue, pipe, reader, task, processed>>

(* It is killed between reading the entry and releasing the lock.          *)
KilledWithEntry(w) ==
  /\ worker[w] = "polling" /\ "polling" \in Deaths /\ Available
  /\ worker' = [worker EXCEPT ![w] = "dead"] /\ rlock' = Lost
  /\ queue' = Tail(queue) /\ unclaimed' = unclaimed \cup {Head(queue)}
  /\ UNCHANGED <<server, pipe, writers, reader, task, processed>>

(* The monitor replaces the worker.                                        *)
Replace(w) ==
  /\ worker[w] = "dead" /\ BackToIdle(w)
  /\ UNCHANGED <<server, queue, pipe, writers, reader, rlock, processed, unclaimed>>

-----------------------------------------------------------------------------
Call(r) == \/ Arrive(r) \/ StreamTimeout(r) \/ PipeFails(r) \/ Submit(r) \/ RejectFull(r)
           \/ Register(r) \/ PipeError(r) \/ Notify(r) \/ ProcessingTimeout(r) \/ Cancel(r)
           \/ Receive(r) \/ Received(r)

Feeder(r) == FeedTask(r) \/ DropTask(r)

WorkerStep(w) == \/ Poll(w) \/ PollTimeout(w) \/ Take(w) \/ Unpickle(w) \/ FinishRun(w)
                 \/ Send(w) \/ SendPart(w) \/ SendBroken(w) \/ RaiseInRun(w)
                 \/ HandleException(w) \/ Killed(w) \/ KilledWithEntry(w) \/ Replace(w)

Next == \/ \E r \in Requests : Call(r) \/ Feeder(r)
        \/ \E w \in Workers : WorkerStep(w)

Spec == Init /\ [][Next]_vars

(* Timers fire, coroutines, the feeder thread and the resource sharer go   *)
(* on, and a worker does not stop inside a step: a run that hangs is ended *)
(* by the monitor, which kills and replaces a stalled worker.  Strong      *)
(* fairness: a timer that is due runs although other calls keep the loop   *)
(* busy for a while, and workers are not all killed before they poll, for  *)
(* ever.                                                                   *)
Fairness ==
  /\ \A r \in Requests :
       /\ SF_vars(StreamTimeout(r)) /\ SF_vars(ProcessingTimeout(r))
       /\ WF_vars(Register(r)) /\ WF_vars(Received(r)) /\ WF_vars(Feeder(r))
  /\ \A w \in Workers :
       /\ WF_vars(Take(w)) /\ WF_vars(Unpickle(w)) /\ WF_vars(FinishRun(w) \/ RaiseInRun(w))
       /\ WF_vars(Send(w) \/ SendBroken(w)) /\ WF_vars(HandleException(w))
       /\ WF_vars(Replace(w))
  /\ SF_vars(\E w \in Workers : Poll(w))

FairSpec == Spec /\ Fairness

-----------------------------------------------------------------------------
(***************************************************************************)
(* Safety.                                                                 *)
(***************************************************************************)
InHand(r) == {w \in Workers : task[w] = r /\ worker[w] # "dead"}

(* A task is in one place at a time: once in the queue or with one worker, *)
(* and never in the queue again once its pipeline run has completed.       *)
(* Tasks of calls that have timed out or were cancelled included.          *)
TaskIsInOnePlace ==
  \A r \in Requests :
    /\ Cardinality({i \in 1..Len(queue) : queue[i] = r}) + Cardinality(InHand(r)) <= 1
    /\ r \in processed => r \notin Queued

(* When a call is over and no queue entry or live worker is left that      *)
(* knows its task, its read end is closed and nobody holds its write end,  *)
(* whatever timed out, was cancelled, raised or was killed on the way.     *)
(* With one exception: if a worker is killed after it has read the entry   *)
(* and before it has fetched the descriptor, then and only then the        *)
(* duplicate stays with the server.                                        *)
Ended(r) == rpc[r] \in {"refused", "done"}

OnlyUnclaimedEndsStayOpen ==
  \A r \in Requests : (Ended(r) /\ r \notin Queued /\ InHand(r) = {}) =>
    ~reader[r] /\ writers[r] = IF r \in unclaimed THEN {"sharer"} ELSE {}

(* The calls behave as RpcLifecycle promises: one answer, at most one run  *)
(* of the pipeline, OK only for a call whose own run completed, no run for *)
(* a call that was refused.                                                *)
Phase == [new |-> "new", streaming |-> "reading", refused |-> "refused",
          registering |-> "accepted", waiting |-> "accepted", receiving |-> "accepted",
          done |-> "closed"]

Lifecycle == INSTANCE RpcLifecycle
               WITH phase <- [r \in Requests |-> Phase[rpc[r]]], status <- outcome

ImplementsLifecycle == Lifecycle!Spec

(***************************************************************************)
(* Liveness.                                                               *)
(***************************************************************************)

(* Every call that arrives is answered, whatever happens to the workers:   *)
(* the timeouts of _process_samples and ProcessAddress see to it.          *)
EveryCallIsAnswered == \A r \in Requests : (rpc[r] # "new") ~> Ended(r)

(* A queued task leaves the queue: the workers take it, or the feeder      *)
(* drops it, so an abandoned task does not use up the capacity for ever.   *)
(* Only a worker killed while it polls, with the reader lock of the queue, *)
(* stops that.                                                             *)
QueuedTaskLeavesQueue ==
  \A r \in Requests : (r \in Queued) ~> (r \notin Queued \/ rlock = Lost)

(* A worker blocked on a full pipe gets free again: either the server      *)
(* reads, or it closes its end because the call is over.                   *)
BlockedSenderFinishes ==
  \A w \in Workers : (worker[w] = "sending") ~> (worker[w] # "sending")

(***************************************************************************)
(* What the repository says and the code does not do.                      *)
(***************************************************************************)

(* "Did the worker crash?" (_process_samples): once a worker has died with *)
(* the task of a waiting call, the call has something to receive.          *)
DeadWorkerWakesItsCaller ==
  \A w \in Workers : (worker[w] = "dead" /\ task[w] # NoTask /\ rpc[task[w]] = "waiting") =>
    Readable(task[w])
=============================================================================
