---------------------------- MODULE WorkerService ----------------------------
(***************************************************************************)
(* The worker service of pkg/worker: HTTP handlers that record a task and  *)
(* send it to a bounded channel, the goroutines of the WorkerPool that     *)
(* receive tasks, pick a registered worker and store results, and the      *)
(* shutdown of Server.Start.                                               *)
(*                                                                         *)
(* A task stands for its UUID.  The registered workers matter only by      *)
(* their number, which the pool converts to a byte to pick one.            *)
(* X_Name before X is X with a plausible mistake; no specification uses it. *)
(***************************************************************************)
EXTENDS Integers, Sequences, FiniteSets

CONSTANTS
  Tasks,        \* the UUIDs that the handlers draw
  Goroutines,   \* the goroutines WorkerPool.Start launches (10 in Server.Start)
  Capacity,     \* the capacity of taskChan (100 in NewServer)
  NumWorkers,   \* the numWorkers argument of NewServer
  MaxRegistered,   \* bound: how many workers are registered at once
  ByteValues    \* the number of values of a byte (256)

ASSUME ServiceAssumption ==
  /\ Capacity \in Nat \ {0}
  /\ NumWorkers \in 0..MaxRegistered
  /\ MaxRegistered \in Nat
  /\ ByteValues \in Nat \ {0}
  /\ Goroutines # {}

VARIABLES
  decoding,   \* the requests whose handler decodes the body
  tasks,      \* s.tasks
  sending,    \* the tasks whose handler is in SubmitTask
  responded,  \* the tasks whose handler has answered "accepted"
  taskChan,   \* wp.taskChan
  closed,     \* whether taskChan is closed
  pool,       \* pool[g]: what goroutine g is doing, and the task it has
  workers,    \* len(wp.workers)
  results,    \* the tasks that wp.results has a result for
  dropped,    \* history: the tasks received while no worker was registered
  phase,      \* where Server.Start is
  contextDone,  \* whether the context is cancelled
  crashed     \* whether a goroutine of the pool has panicked

serverVars == <<decoding, tasks, sending, responded>>
serviceVars == <<decoding, tasks, sending, responded, taskChan, closed, pool, workers, results,
          dropped, phase, contextDone, crashed>>

Idle == [at |-> "select"]
Taken(t) == [at |-> "taken", task |-> t]
Processing(t) == [at |-> "processing", task |-> t]
Exited == [at |-> "exited"]

(* NewServer, and the part of Server.Start before it waits. *)
ServiceInit ==
  /\ decoding = {} /\ tasks = {} /\ sending = {} /\ responded = {}
  /\ taskChan = <<>> /\ closed = FALSE
  /\ pool = [g \in Goroutines |-> Idle]
  /\ workers = NumWorkers
  /\ results = {} /\ dropped = {}
  /\ phase = "serving"
  /\ contextDone = FALSE /\ crashed = FALSE

-----------------------------------------------------------------------------
(* handleSubmitTask *)

(* A request arrives while the server listens. *)
Arrive(t) ==
  /\ phase = "serving"
  /\ t \notin tasks \cup decoding
  /\ decoding' = decoding \cup {t}
  /\ UNCHANGED <<tasks, sending, responded, taskChan, closed, pool, workers,
                 results, dropped, phase, contextDone, crashed>>

(* The body is no TaskRequest: the handler answers 400. *)
BadRequest(t) ==
  /\ t \in decoding
  /\ decoding' = decoding \ {t}
  /\ UNCHANGED <<tasks, sending, responded, taskChan, closed, pool, workers,
                 results, dropped, phase, contextDone, crashed>>

(* The task is recorded before it is sent. *)
StoreTask(t) ==
  /\ t \in decoding
  /\ decoding' = decoding \ {t}
  /\ tasks' = tasks \cup {t}
  /\ sending' = sending \cup {t}
  /\ UNCHANGED <<responded, taskChan, closed, pool, workers, results, dropped,
                 phase, contextDone, crashed>>

(* SubmitTask: the send waits for room; on a closed channel it would panic. *)
(* The handler then answers "accepted".                                     *)
SubmitTask(t) ==
  /\ t \in sending
  /\ ~closed
  /\ Len(taskChan) < Capacity
  /\ taskChan' = Append(taskChan, t)
  /\ sending' = sending \ {t}
  /\ responded' = responded \cup {t}
  /\ UNCHANGED <<decoding, tasks, closed, pool, workers, results, dropped, phase,
                 contextDone, crashed>>

-----------------------------------------------------------------------------
(* The goroutines of WorkerPool.Start *)

Receive(g) ==
  /\ pool[g] = Idle
  /\ taskChan # <<>>
  /\ pool' = [pool EXCEPT ![g] = Taken(Head(taskChan))]
  /\ taskChan' = Tail(taskChan)
  /\ UNCHANGED <<serverVars, closed, workers, results, dropped, phase,
                 contextDone, crashed>>

(* The channel is closed and drained. *)
ExitClosed_Undrained(g) ==
  /\ pool[g] = Idle
  /\ closed
  /\ pool' = [pool EXCEPT ![g] = Exited]
  /\ UNCHANGED <<serverVars, taskChan, closed, workers, results, dropped,
                 phase, contextDone, crashed>>
ExitClosed(g) ==
  /\ pool[g] = Idle
  /\ closed
  /\ taskChan = <<>>
  /\ pool' = [pool EXCEPT ![g] = Exited]
  /\ UNCHANGED <<serverVars, taskChan, closed, workers, results, dropped,
                 phase, contextDone, crashed>>

(* select picks the cancelled context, even with tasks in the channel. *)
ExitCancelled(g) ==
  /\ pool[g] = Idle
  /\ contextDone
  /\ pool' = [pool EXCEPT ![g] = Exited]
  /\ UNCHANGED <<serverVars, taskChan, closed, workers, results, dropped,
                 phase, contextDone, crashed>>

(* No worker is registered: the goroutine warns and goes on without a result. *)
NoWorkers_Returns(g) ==
  /\ pool[g].at = "taken"
  /\ workers = 0
  /\ pool' = [pool EXCEPT ![g] = Exited]
  /\ dropped' = dropped \cup {pool[g].task}
  /\ UNCHANGED <<serverVars, taskChan, closed, workers, results, phase,
                 contextDone, crashed>>
NoWorkers(g) ==
  /\ pool[g].at = "taken"
  /\ workers = 0
  /\ pool' = [pool EXCEPT ![g] = Idle]
  /\ dropped' = dropped \cup {pool[g].task}
  /\ UNCHANGED <<serverVars, taskChan, closed, workers, results, phase,
                 contextDone, crashed>>

(* byte(len(workers)), by which the first byte of the ID is divided. *)
Divisor == workers % ByteValues

PickWorker(g) ==
  /\ pool[g].at = "taken"
  /\ workers # 0
  /\ Divisor # 0
  /\ pool' = [pool EXCEPT ![g] = Processing(pool[g].task)]
  /\ UNCHANGED <<serverVars, taskChan, closed, workers, results, dropped,
                 phase, contextDone, crashed>>

(* Division by zero: a panic in a goroutine ends the process. *)
PickPanics(g) ==
  /\ pool[g].at = "taken"
  /\ workers # 0
  /\ Divisor = 0
  /\ crashed' = TRUE
  /\ UNCHANGED <<serverVars, taskChan, closed, pool, workers, results, dropped,
                 phase, contextDone>>

(* ProcessTask returns, and its result, error or not, is stored. *)
StoreResult_Again(g) ==
  /\ pool[g].at = "processing"
  /\ results' = results \cup {pool[g].task}
  /\ pool' = [pool EXCEPT ![g] = Taken(pool[g].task)]
  /\ UNCHANGED <<serverVars, taskChan, closed, workers, dropped, phase,
                 contextDone, crashed>>
StoreResult(g) ==
  /\ pool[g].at = "processing"
  /\ results' = results \cup {pool[g].task}
  /\ pool' = [pool EXCEPT ![g] = Idle]
  /\ UNCHANGED <<serverVars, taskChan, closed, workers, dropped, phase,
                 contextDone, crashed>>

Goroutine(g) ==
  \/ Receive(g) \/ ExitClosed(g) \/ ExitCancelled(g)
  \/ NoWorkers(g) \/ PickWorker(g) \/ PickPanics(g) \/ StoreResult(g)

-----------------------------------------------------------------------------
(* AddWorker and RemoveWorker *)

AddWorker ==
  /\ workers < MaxRegistered
  /\ workers' = workers + 1
  /\ UNCHANGED <<serverVars, taskChan, closed, pool, results, dropped, phase,
                 contextDone, crashed>>

RemoveWorker ==
  /\ workers > 0
  /\ workers' = workers - 1
  /\ UNCHANGED <<serverVars, taskChan, closed, pool, results, dropped, phase,
                 contextDone, crashed>>

-----------------------------------------------------------------------------
(* Server.Start, from the point where it waits for a signal or for the     *)
(* context: "serving", then "draining" in http.Server.Shutdown, then       *)
(* "stopping" in WorkerPool.Stop, then it has returned: "stopped", or      *)
(* "failed" when Shutdown timed out.                                       *)

CancelContext ==
  /\ ~contextDone
  /\ contextDone' = TRUE
  /\ UNCHANGED <<serverVars, taskChan, closed, pool, workers, results, dropped,
                 phase, crashed>>

BeginShutdown ==
  /\ phase = "serving"
  /\ phase' = "draining"
  /\ UNCHANGED <<serverVars, taskChan, closed, pool, workers, results, dropped,
                 contextDone, crashed>>

(* Shutdown waits for the handlers, at most ten seconds. *)
ShutdownDone ==
  /\ phase = "draining"
  /\ decoding \cup sending = {}
  /\ closed' = TRUE
  /\ phase' = "stopping"
  /\ UNCHANGED <<serverVars, taskChan, pool, workers, results, dropped,
                 contextDone, crashed>>

ShutdownTimeout_StopsPool ==
  /\ phase = "draining"
  /\ decoding \cup sending # {}
  /\ closed' = TRUE
  /\ phase' = "stopping"
  /\ UNCHANGED <<serverVars, taskChan, pool, workers, results, dropped,
                 contextDone, crashed>>
ShutdownTimeout ==
  /\ phase = "draining"
  /\ decoding \cup sending # {}
  /\ phase' = "failed"
  /\ UNCHANGED <<serverVars, taskChan, closed, pool, workers, results, dropped,
                 contextDone, crashed>>

PoolStopped ==
  /\ phase = "stopping"
  /\ \A g \in Goroutines : pool[g] = Exited
  /\ phase' = "stopped"
  /\ UNCHANGED <<serverVars, taskChan, closed, pool, workers, results, dropped,
                 contextDone, crashed>>

-----------------------------------------------------------------------------
ServiceNext ==
  /\ ~crashed
  /\ \/ \E t \in Tasks : Arrive(t) \/ BadRequest(t) \/ StoreTask(t) \/ SubmitTask(t)
     \/ \E g \in Goroutines : Goroutine(g)
     \/ AddWorker \/ RemoveWorker
     \/ CancelContext \/ BeginShutdown \/ ShutdownDone \/ ShutdownTimeout \/ PoolStopped

ServiceSpec == ServiceInit /\ [][ServiceNext]_serviceVars

(* Goroutines run, ProcessTask returns, blocked senders are served in turn, *)
(* and Shutdown's deadline passes.  Nobody has to submit, cancel or signal. *)
ServiceFairness ==
  /\ \A t \in Tasks : SF_serviceVars(~crashed /\ SubmitTask(t))
  /\ \A g \in Goroutines : WF_serviceVars(~crashed /\ Goroutine(g))
  /\ WF_serviceVars(~crashed /\ (ShutdownDone \/ ShutdownTimeout))
  /\ WF_serviceVars(~crashed /\ PoolStopped)

ServiceFairSpec == ServiceSpec /\ ServiceFairness

-----------------------------------------------------------------------------
(* Properties *)

Queued == {taskChan[i] : i \in DOMAIN taskChan}
HeldBy(g) == IF pool[g] \in {Idle, Exited} THEN {} ELSE {pool[g].task}
Held == UNION {HeldBy(g) : g \in Goroutines}

(* The fields of the server and of the pool have their types.              *)
ServiceTypeOK ==
  /\ decoding \subseteq Tasks
  /\ tasks \subseteq Tasks /\ sending \subseteq Tasks /\ responded \subseteq Tasks
  /\ taskChan \in Seq(Tasks) /\ Len(taskChan) <= Capacity
  /\ closed \in BOOLEAN
  /\ pool \in [Goroutines -> {Idle, Exited} \cup {Taken(t) : t \in Tasks}
                                           \cup {Processing(t) : t \in Tasks}]
  /\ workers \in 0..MaxRegistered
  /\ results \subseteq Tasks /\ dropped \subseteq Tasks
  /\ phase \in {"serving", "draining", "stopping", "stopped", "failed"}
  /\ contextDone \in BOOLEAN /\ crashed \in BOOLEAN

(* handleGetTaskResult answers 404 for no task that has a result: the task *)
(* is recorded before the pool can see it.                                 *)
ResultsAreKnown == results \cup responded \subseteq tasks

(* A task is in one place: with its handler, once in the channel, with one *)
(* goroutine, finished, or dropped.                                        *)
TaskInOnePlace ==
  LET places == <<sending, Queued, Held, results, dropped>>
  IN  /\ tasks = UNION {places[i] : i \in 1..5}
      /\ \A i, j \in 1..5 : i # j => places[i] \cap places[j] = {}
      /\ \A i, j \in DOMAIN taskChan : i # j => taskChan[i] # taskChan[j]
      /\ \A g, h \in Goroutines : g # h => HeldBy(g) \cap HeldBy(h) = {}

(* WorkerPool.Stop closes the channel only when no handler can be sending  *)
(* to it: a send on a closed channel panics.                               *)
NoSendOnClosed == closed => sending = {}

(* A server that stops without being cancelled has finished every task it  *)
(* has answered "accepted" to, but for those that found no worker.         *)
GracefulDrain ==
  phase = "stopped" /\ ~contextDone => responded \subseteq results \cup dropped

(* A task that was answered "accepted" is finished or dropped in the end.  *)
AcceptedFinishes ==
  \A t \in Tasks :
    (t \in responded) ~> (t \in results \cup dropped \/ contextDone \/ crashed)
=============================================================================
