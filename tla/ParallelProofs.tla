--------------------------- MODULE ParallelProofs ---------------------------
(***************************************************************************)
(* Proofs about the worker service, for any number of tasks, goroutines    *)
(* and workers and any capacity of the channel, and about package          *)
(* consensus, for any vertices and transactions.                           *)
(***************************************************************************)
EXTENDS WorkerService, ParallelEngine, ParallelDAG, FiniteSetTheorems, TLAPS

-----------------------------------------------------------------------------
(* The worker service. *)

(* Everything the pool has seen was recorded by its handler. *)
Recorded == sending \cup responded \cup Queued \cup Held \cup results \cup dropped \subseteq tasks

(* A task answered "accepted" has not vanished. *)
Accounted == responded \subseteq Queued \cup Held \cup results \cup dropped

(* A goroutine exits when the context is cancelled or the channel drained. *)
ExitReason ==
  \A g \in Goroutines : pool[g] = Exited => contextDone \/ (closed /\ taskChan = <<>>)

(* The channel is closed by Stop, after Shutdown has waited for handlers. *)
ClosedByStop ==
  /\ closed <=> phase \in {"stopping", "stopped"}
  /\ NoSendOnClosed
  /\ closed => decoding = {}
  /\ phase = "stopped" => \A g \in Goroutines : pool[g] = Exited

Inv == ServiceTypeOK /\ Recorded /\ Accounted /\ ExitReason /\ ClosedByStop

-----------------------------------------------------------------------------
(* The states of a goroutine are told apart by their first field. *)
LEMMA PoolStates ==
  /\ Idle # Exited
  /\ \A t \in Tasks : /\ Taken(t) \notin {Idle, Exited} /\ Taken(t).at = "taken" /\ Taken(t).task = t
                      /\ Processing(t) \notin {Idle, Exited} /\ Processing(t).at = "processing" /\ Processing(t).task = t
<1>1. Idle.at = "select" /\ Exited.at = "exited"
  BY DEF Idle, Exited
<1>2. \A t \in Tasks : Taken(t).at = "taken" /\ Taken(t).task = t
  BY DEF Taken
<1>3. \A t \in Tasks : Processing(t).at = "processing" /\ Processing(t).task = t
  BY DEF Processing
<1> QED BY <1>1, <1>2, <1>3

(* Receiving takes one task out of the channel, sending puts one in. *)
LEMMA AppendQueued ==
  ASSUME NEW s \in Seq(Tasks), NEW t \in Tasks
  PROVE  /\ Append(s, t) \in Seq(Tasks)
         /\ Len(Append(s, t)) = Len(s) + 1
         /\ {Append(s, t)[i] : i \in DOMAIN Append(s, t)} = {s[i] : i \in DOMAIN s} \cup {t}
<1>1. /\ Append(s, t) \in Seq(Tasks)
      /\ Len(Append(s, t)) = Len(s) + 1
      /\ DOMAIN Append(s, t) = 1..(Len(s) + 1)
      /\ DOMAIN s = 1..Len(s) /\ Len(s) \in Nat
      /\ \A i \in 1..Len(s) : Append(s, t)[i] = s[i]
      /\ Append(s, t)[Len(s) + 1] = t
  OBVIOUS
<1> QED BY <1>1

(* What is left of the channel, and the task taken from it. *)
LEMMA TailQueued ==
  ASSUME NEW s \in Seq(Tasks), s # <<>>
  PROVE  /\ Tail(s) \in Seq(Tasks) /\ Head(s) \in Tasks
         /\ Len(Tail(s)) <= Len(s)
         /\ {s[i] : i \in DOMAIN s} = {Tail(s)[i] : i \in DOMAIN Tail(s)} \cup {Head(s)}
<1>1. /\ Tail(s) \in Seq(Tasks) /\ Head(s) \in Tasks
      /\ Len(Tail(s)) = Len(s) - 1
      /\ DOMAIN Tail(s) = 1..(Len(s) - 1)
      /\ DOMAIN s = 1..Len(s) /\ Len(s) \in Nat /\ Len(s) >= 1
      /\ \A i \in 1..(Len(s) - 1) : Tail(s)[i] = s[i + 1]
      /\ Head(s) = s[1]
  OBVIOUS
<1>2. ASSUME NEW i \in 1..Len(s), i # 1
      PROVE  s[i] \in {Tail(s)[j] : j \in DOMAIN Tail(s)}
  <2>1. i - 1 \in DOMAIN Tail(s) /\ Tail(s)[i - 1] = s[i]
    BY <1>1, <1>2
  <2> QED BY Zenon, <2>1
<1>3. ASSUME NEW j \in DOMAIN Tail(s)
      PROVE  Tail(s)[j] \in {s[i] : i \in DOMAIN s}
  <2>1. j + 1 \in DOMAIN s /\ Tail(s)[j] = s[j + 1]
    BY <1>1
  <2> QED BY <2>1
<1> QED BY <1>1, <1>2, <1>3

(* One goroutine moves: the tasks of the others stay where they are. *)
LEMMA PoolUpdate ==
  ASSUME ServiceTypeOK, NEW g \in Goroutines, NEW x, pool' = [pool EXCEPT ![g] = x]
  PROVE  /\ pool'[g] = x
         /\ \A h \in Goroutines : h # g => pool'[h] = pool[h]
         /\ Held \subseteq Held' \cup HeldBy(g)
         /\ Held' \subseteq Held \cup HeldBy(g)'
         /\ HeldBy(g) \subseteq Held /\ HeldBy(g)' \subseteq Held'
<1>1. pool'[g] = x /\ \A h \in Goroutines : h # g => pool'[h] = pool[h]
  BY DEF ServiceTypeOK
<1>2. \A h \in Goroutines : h # g => HeldBy(h)' = HeldBy(h)
  BY <1>1 DEF HeldBy
<1> QED BY <1>1, <1>2 DEF Held

(* The invariant holds when the server starts. *)
LEMMA InvInit == ServiceInit => Inv
<1> SUFFICES ASSUME ServiceInit PROVE Inv
  OBVIOUS
<1>1. Queued = {} /\ Held = {}
  BY DEF ServiceInit, Queued, Held, HeldBy
<1>2. ServiceTypeOK
  <2>1. taskChan \in Seq(Tasks) /\ Len(taskChan) = 0
    BY DEF ServiceInit
  <2>2. Len(taskChan) <= Capacity /\ workers \in 0..MaxRegistered
    BY <2>1, ServiceAssumption DEF ServiceInit
  <2>3. closed \in BOOLEAN /\ contextDone \in BOOLEAN /\ crashed \in BOOLEAN
    BY Zenon DEF ServiceInit
  <2>4. pool \in [Goroutines -> {Idle, Exited} \cup {Taken(t) : t \in Tasks}
                                             \cup {Processing(t) : t \in Tasks}]
    BY DEF ServiceInit
  <2> QED BY <2>1, <2>2, <2>3, <2>4 DEF ServiceInit, ServiceTypeOK
<1> QED
  BY <1>1, <1>2, PoolStates
  DEF Inv, ServiceInit, Recorded, Accounted, ExitReason, ClosedByStop, NoSendOnClosed

(* A request arrives, is refused, or its task is recorded. *)
LEMMA StoreTaskInv ==
  ASSUME Inv, NEW t \in Tasks, Arrive(t) \/ BadRequest(t) \/ StoreTask(t)
  PROVE  Inv'
<1>1. Queued' = Queued /\ Held' = Held
  BY DEF Arrive, BadRequest, StoreTask, Queued, Held, HeldBy
<1>2. ServiceTypeOK'
  BY DEF Arrive, BadRequest, StoreTask, Inv, ServiceTypeOK
<1>3. Recorded' /\ Accounted'
  BY <1>1 DEF Arrive, BadRequest, StoreTask, Inv, Recorded, Accounted
<1>4. ExitReason' /\ ClosedByStop'
  BY DEF Arrive, BadRequest, StoreTask, Inv, ExitReason, ClosedByStop, NoSendOnClosed
<1> QED BY <1>2, <1>3, <1>4 DEF Inv

(* A handler's task enters the channel. *)
LEMMA SubmitTaskInv ==
  ASSUME Inv, NEW t \in Tasks, SubmitTask(t)
  PROVE  Inv'
<1>1. Queued' = Queued \cup {t} /\ taskChan' \in Seq(Tasks) /\ Len(taskChan') <= Capacity
  <2>1. taskChan \in Seq(Tasks) /\ taskChan' = Append(taskChan, t) /\ Len(taskChan) < Capacity
    BY DEF SubmitTask, Inv, ServiceTypeOK
  <2> QED BY <2>1, AppendQueued, ServiceAssumption DEF Queued
<1>2. Held' = Held
  BY DEF SubmitTask, Held, HeldBy
<1>3. ServiceTypeOK'
  BY <1>1 DEF SubmitTask, Inv, ServiceTypeOK
<1>4. Recorded' /\ Accounted'
  BY <1>1, <1>2 DEF SubmitTask, Inv, Recorded, Accounted
<1>5. ExitReason' /\ ClosedByStop'
  BY DEF SubmitTask, Inv, ExitReason, ClosedByStop, NoSendOnClosed
<1> QED BY <1>3, <1>4, <1>5 DEF Inv

(* A goroutine takes the first task of the channel. *)
LEMMA ReceiveInv ==
  ASSUME Inv, NEW g \in Goroutines, Receive(g)
  PROVE  Inv'
<1> DEFINE t == Head(taskChan)
<1>1. /\ taskChan' \in Seq(Tasks) /\ Len(taskChan') <= Capacity
      /\ t \in Tasks /\ Queued = Queued' \cup {t}
  <2>1. /\ taskChan \in Seq(Tasks) /\ taskChan # <<>> /\ taskChan' = Tail(taskChan)
        /\ Len(taskChan) <= Capacity
    BY DEF Receive, Inv, ServiceTypeOK
  <2>2. /\ Tail(taskChan) \in Seq(Tasks) /\ Head(taskChan) \in Tasks
        /\ Len(Tail(taskChan)) <= Len(taskChan)
        /\ Queued = {Tail(taskChan)[i] : i \in DOMAIN Tail(taskChan)} \cup {t}
    BY Zenon, <2>1, TailQueued DEF Queued
  <2>3. Len(taskChan') <= Capacity
    BY <2>1, <2>2, ServiceAssumption
  <2> QED BY <2>1, <2>2, <2>3 DEF Queued
<1> HIDE DEF t
<1>2. /\ pool[g] = Idle /\ pool' = [pool EXCEPT ![g] = Taken(t)]
      /\ UNCHANGED <<serverVars, closed, workers, results, dropped, phase,
                     contextDone, crashed>>
  BY DEF Receive, t
<1>3. /\ pool'[g] = Taken(t)
      /\ \A h \in Goroutines : h # g => pool'[h] = pool[h]
      /\ Held \subseteq Held' \cup HeldBy(g)
      /\ Held' \subseteq Held \cup HeldBy(g)'
      /\ HeldBy(g)' \subseteq Held'
  BY Zenon, <1>2, PoolUpdate DEF Inv
<1>4. HeldBy(g) = {} /\ HeldBy(g)' = {t}
  BY <1>1, <1>2, <1>3, PoolStates DEF HeldBy
<1>5. ServiceTypeOK'
  BY <1>1, <1>2 DEF Inv, ServiceTypeOK, serverVars
<1>6. Recorded' /\ Accounted'
  BY <1>1, <1>2, <1>3, <1>4 DEF Inv, Recorded, Accounted, serverVars
<1>7. ExitReason'
  <2>1. taskChan # <<>>
    BY DEF Receive
  <2> QED BY <1>1, <1>2, <1>3, <2>1, PoolStates DEF Inv, ExitReason
<1>8. ClosedByStop'
  <2>1. phase # "stopped"
    BY <1>2, PoolStates DEF Inv, ClosedByStop
  <2> QED BY <1>2, <2>1 DEF Inv, ClosedByStop, NoSendOnClosed, serverVars
<1> QED BY <1>5, <1>6, <1>7, <1>8 DEF Inv

(* A goroutine returns from select to exit. *)
LEMMA ExitInv ==
  ASSUME Inv, NEW g \in Goroutines, ExitClosed(g) \/ ExitCancelled(g)
  PROVE  Inv'
<1>1. /\ pool[g] = Idle /\ pool' = [pool EXCEPT ![g] = Exited]
      /\ contextDone \/ (closed /\ taskChan = <<>>)
      /\ UNCHANGED <<serverVars, taskChan, closed, workers, results, dropped,
                     phase, contextDone, crashed>>
  BY DEF ExitClosed, ExitCancelled
<1>2. /\ pool'[g] = Exited
      /\ \A h \in Goroutines : h # g => pool'[h] = pool[h]
      /\ Held \subseteq Held' \cup HeldBy(g)
      /\ Held' \subseteq Held \cup HeldBy(g)'
  BY Zenon, <1>1, PoolUpdate DEF Inv
<1>3. HeldBy(g) = {} /\ HeldBy(g)' = {} /\ Queued' = Queued
  BY <1>1, <1>2 DEF HeldBy, Queued
<1>4. ServiceTypeOK'
  BY <1>1 DEF Inv, ServiceTypeOK, serverVars
<1>5. Recorded' /\ Accounted'
  BY <1>1, <1>2, <1>3 DEF Inv, Recorded, Accounted, serverVars
<1>6. ExitReason' /\ ClosedByStop'
  BY <1>1, <1>2 DEF Inv, ExitReason, ClosedByStop, NoSendOnClosed, serverVars
<1> QED BY <1>4, <1>5, <1>6 DEF Inv

(* A goroutine that has a task keeps it, finishes it or drops it. *)
LEMMA TaskStepInv ==
  ASSUME Inv, NEW g \in Goroutines, NoWorkers(g) \/ PickWorker(g) \/ StoreResult(g)
  PROVE  Inv'
<1>1. PICK t \in Tasks : pool[g] \in {Taken(t), Processing(t)}
  <2>1. pool[g].at \in {"taken", "processing"}
    BY DEF NoWorkers, PickWorker, StoreResult
  <2>2. pool[g] \in {Idle, Exited} \cup {Taken(t) : t \in Tasks} \cup {Processing(t) : t \in Tasks}
    BY DEF Inv, ServiceTypeOK
  <2>3. pool[g] \notin {Idle, Exited}
    BY <2>1 DEF Idle, Exited
  <2> QED BY <2>2, <2>3
<1>2. pool[g].task = t /\ HeldBy(g) = {t}
  BY <1>1, PoolStates DEF HeldBy
<1>3. /\ UNCHANGED <<serverVars, taskChan, closed, workers, phase, contextDone, crashed>>
      /\ \/ /\ pool' = [pool EXCEPT ![g] = Idle]
            /\ dropped' = dropped \cup {t} /\ UNCHANGED results
         \/ /\ pool' = [pool EXCEPT ![g] = Processing(t)]
            /\ UNCHANGED <<results, dropped>>
         \/ /\ pool' = [pool EXCEPT ![g] = Idle]
            /\ results' = results \cup {t} /\ UNCHANGED dropped
  BY <1>2 DEF NoWorkers, PickWorker, StoreResult
<1>4. /\ pool'[g] \in {Idle, Processing(t)}
      /\ \A h \in Goroutines : h # g => pool'[h] = pool[h]
      /\ Held \subseteq Held' \cup HeldBy(g)
      /\ Held' \subseteq Held \cup HeldBy(g)'
      /\ HeldBy(g) \subseteq Held /\ HeldBy(g)' \subseteq Held'
  BY <1>3, PoolUpdate DEF Inv
<1>5. HeldBy(g)' \subseteq {t} /\ Queued' = Queued
  BY <1>3, <1>4, PoolStates DEF HeldBy, Queued
<1>6. t \in HeldBy(g)' \/ t \in results' \/ t \in dropped'
  <2>1. CASE pool' = [pool EXCEPT ![g] = Processing(t)]
    <3>1. pool'[g] = Processing(t)
      BY <2>1 DEF Inv, ServiceTypeOK
    <3> QED BY <3>1, PoolStates DEF HeldBy
  <2> QED BY <2>1, <1>3
<1>7. ServiceTypeOK'
  BY <1>1, <1>3 DEF Inv, ServiceTypeOK, serverVars
<1>8. Recorded' /\ Accounted'
  <2>1. t \in tasks
    BY <1>2, <1>4 DEF Inv, Recorded
  <2>2. results \subseteq results' /\ dropped \subseteq dropped'
        /\ results' \subseteq results \cup {t} /\ dropped' \subseteq dropped \cup {t}
    BY <1>3
  <2> QED BY <2>1, <2>2, <1>2, <1>3, <1>4, <1>5, <1>6 DEF Inv, Recorded, Accounted, serverVars
<1>9. ExitReason'
  BY <1>3, <1>4, PoolStates DEF Inv, ExitReason
<1>10. ClosedByStop'
  <2>1. phase # "stopped"
    BY <1>1, PoolStates DEF Inv, ClosedByStop
  <2> QED BY <1>3, <2>1 DEF Inv, ClosedByStop, NoSendOnClosed, serverVars
<1> QED BY <1>7, <1>8, <1>9, <1>10 DEF Inv

(* The steps that move no task. *)
LEMMA OtherInv ==
  ASSUME Inv, \/ AddWorker \/ RemoveWorker \/ CancelContext \/ BeginShutdown \/ ShutdownDone
              \/ ShutdownTimeout \/ PoolStopped
              \/ (\E g \in Goroutines : PickPanics(g)) \/ UNCHANGED serviceVars
  PROVE  Inv'
<1>1. UNCHANGED <<decoding, tasks, sending, responded, taskChan, pool, results, dropped>>
  BY Zenon DEF AddWorker, RemoveWorker, CancelContext, BeginShutdown, ShutdownDone, ShutdownTimeout,
         PoolStopped, PickPanics, serviceVars, serverVars
<1>2. (contextDone' = contextDone \/ contextDone' = TRUE) /\ (closed' = closed \/ closed' = TRUE)
  BY Zenon DEF AddWorker, RemoveWorker, CancelContext, BeginShutdown, ShutdownDone, ShutdownTimeout,
         PoolStopped, PickPanics, serviceVars, serverVars
<1>3. \/ UNCHANGED <<closed, phase>>
      \/ closed' = closed /\ phase = "serving" /\ phase' = "draining"
      \/ closed' = closed /\ phase = "draining" /\ phase' = "failed"
      \/ closed' = TRUE /\ phase' = "stopping" /\ decoding \cup sending = {}
      \/ /\ closed' = closed /\ phase = "stopping" /\ phase' = "stopped"
         /\ \A g \in Goroutines : pool[g] = Exited
  BY Zenon DEF AddWorker, RemoveWorker, CancelContext, BeginShutdown, ShutdownDone, ShutdownTimeout,
         PoolStopped, PickPanics, serviceVars, serverVars
<1>4. Queued' = Queued /\ Held' = Held
  BY <1>1 DEF Queued, Held, HeldBy
<1>5. ServiceTypeOK'
  <2>1. workers' \in 0..MaxRegistered
    BY ServiceAssumption
    DEF Inv, ServiceTypeOK, AddWorker, RemoveWorker, CancelContext, BeginShutdown, ShutdownDone,
        ShutdownTimeout, PoolStopped, PickPanics, serviceVars, serverVars
  <2>2. contextDone' \in BOOLEAN /\ crashed' \in BOOLEAN
    BY Zenon
    DEF Inv, ServiceTypeOK, AddWorker, RemoveWorker, CancelContext, BeginShutdown, ShutdownDone,
        ShutdownTimeout, PoolStopped, PickPanics, serviceVars, serverVars
  <2>3. closed' \in BOOLEAN
        /\ phase' \in {"serving", "draining", "stopping", "stopped", "failed"}
    BY Zenon, <1>3 DEF Inv, ServiceTypeOK
  <2> QED BY <1>1, <2>1, <2>2, <2>3 DEF Inv, ServiceTypeOK
<1>6. Recorded' /\ Accounted'
  BY <1>1, <1>4 DEF Inv, Recorded, Accounted
<1>7. ExitReason'
  BY <1>1, <1>2 DEF Inv, ExitReason
<1>8. ClosedByStop'
  BY <1>1, <1>3 DEF Inv, ClosedByStop, NoSendOnClosed
<1> QED BY Zenon, <1>5, <1>6, <1>7, <1>8 DEF Inv

(* Every step of the service keeps the invariant. *)
LEMMA InvStep == Inv /\ [ServiceNext]_serviceVars => Inv'
<1> SUFFICES ASSUME Inv, [ServiceNext]_serviceVars PROVE Inv'
  OBVIOUS
<1> QED
  BY StoreTaskInv, SubmitTaskInv, ReceiveInv, ExitInv, TaskStepInv, OtherInv
  DEF ServiceNext, Goroutine

(* The inductive invariant of the worker service: no step of a handler, a  *)
(* goroutine or the shutdown of Server.Start loses track of a task.        *)
THEOREM ServiceInvariant == ServiceSpec => []Inv
BY InvInit, InvStep, PTL DEF ServiceSpec

(* handleGetTaskResult never answers 404 for a finished or accepted task.  *)
THEOREM ServiceResultsKnown == ServiceSpec => []ResultsAreKnown
<1>1. Inv => ResultsAreKnown
  BY DEF Inv, Recorded, ResultsAreKnown
<1> QED BY <1>1, ServiceInvariant, PTL

(* WorkerPool.Stop never closes the channel under a sending handler.       *)
THEOREM ServiceNoSendOnClosed == ServiceSpec => []NoSendOnClosed
<1>1. Inv => NoSendOnClosed
  BY DEF Inv, ClosedByStop
<1> QED BY <1>1, ServiceInvariant, PTL

(* A server that stops without being cancelled has finished every task it  *)
(* accepted that found a worker.                                           *)
THEOREM ServiceGracefulDrain == ServiceSpec => []GracefulDrain
<1>1. Inv => GracefulDrain
  <2> SUFFICES ASSUME Inv, phase = "stopped", ~contextDone
               PROVE  responded \subseteq results \cup dropped
    BY DEF GracefulDrain
  <2>1. \A g \in Goroutines : pool[g] = Exited
    BY DEF Inv, ClosedByStop
  <2>2. Held = {}
    BY <2>1 DEF Held, HeldBy
  <2>3. taskChan = <<>>
    BY <2>1, ServiceAssumption DEF Inv, ExitReason
  <2>4. Queued = {}
    BY <2>3 DEF Queued
  <2> QED BY <2>2, <2>4 DEF Inv, Accounted
<1> QED BY <1>1, ServiceInvariant, PTL

-----------------------------------------------------------------------------
(* TaskInOnePlace, place by place.  Every step moves a task from one place *)
(* to the next; what makes that enough is that a request which is still    *)
(* being decoded has an ID that is in no place yet.                        *)
NoRepeats(s) == \A i, j \in DOMAIN s : i # j => s[i] # s[j]

OnePlace ==
  /\ decoding \cap tasks = {}
  /\ tasks = sending \cup Queued \cup Held \cup results \cup dropped
  /\ sending \cap (Queued \cup Held \cup results \cup dropped) = {}
  /\ Queued \cap (Held \cup results \cup dropped) = {}
  /\ Held \cap (results \cup dropped) = {}
  /\ results \cap dropped = {}
  /\ NoRepeats(taskChan)
  /\ \A g, h \in Goroutines : g # h => HeldBy(g) \cap HeldBy(h) = {}

(* A task that is new to the channel makes no repetition in it.            *)
LEMMA AppendNoRepeats ==
  ASSUME NEW s \in Seq(Tasks), NEW t \in Tasks, NoRepeats(s), t \notin {s[i] : i \in DOMAIN s}
  PROVE  NoRepeats(Append(s, t))
<1>1. /\ DOMAIN Append(s, t) = 1..(Len(s) + 1)
      /\ DOMAIN s = 1..Len(s) /\ Len(s) \in Nat
      /\ \A i \in 1..Len(s) : Append(s, t)[i] = s[i]
      /\ Append(s, t)[Len(s) + 1] = t
  OBVIOUS
<1> QED BY <1>1 DEF NoRepeats

(* A task received from a channel without repetitions is no more in it.    *)
LEMMA TailNoRepeats ==
  ASSUME NEW s \in Seq(Tasks), s # <<>>, NoRepeats(s)
  PROVE  NoRepeats(Tail(s)) /\ Head(s) \notin {Tail(s)[i] : i \in DOMAIN Tail(s)}
<1>1. /\ DOMAIN Tail(s) = 1..(Len(s) - 1)
      /\ DOMAIN s = 1..Len(s) /\ Len(s) \in Nat /\ Len(s) >= 1
      /\ \A i \in 1..(Len(s) - 1) : Tail(s)[i] = s[i + 1]
      /\ Head(s) = s[1]
  OBVIOUS
<1>2. \A i \in 1..(Len(s) - 1) : i + 1 \in DOMAIN s /\ i + 1 # 1
  BY <1>1
<1>3. \A i \in DOMAIN Tail(s) : Tail(s)[i] # Head(s)
  <2> SUFFICES ASSUME NEW i \in DOMAIN Tail(s) PROVE Tail(s)[i] # Head(s)
    OBVIOUS
  <2>1. i + 1 \in DOMAIN s /\ 1 \in DOMAIN s /\ i + 1 # 1
    BY <1>1
  <2>2. s[i + 1] # s[1]
    BY <2>1 DEF NoRepeats
  <2> QED BY <1>1, <2>2
<1>4. ASSUME NEW i \in DOMAIN Tail(s), NEW j \in DOMAIN Tail(s), i # j
      PROVE  Tail(s)[i] # Tail(s)[j]
  <2>1. i + 1 \in DOMAIN s /\ j + 1 \in DOMAIN s /\ i + 1 # j + 1
    BY <1>1, <1>4
  <2>2. s[i + 1] # s[j + 1]
    BY <2>1 DEF NoRepeats
  <2> QED BY <1>1, <2>2
<1> QED BY <1>3, <1>4 DEF NoRepeats

(* A handler records its task, then sends it.                              *)
LEMMA HandlerOnePlace ==
  ASSUME Inv, OnePlace, NEW t \in Tasks,
         Arrive(t) \/ BadRequest(t) \/ StoreTask(t) \/ SubmitTask(t)
  PROVE  OnePlace'
<1>1. Held' = Held /\ \A g \in Goroutines : HeldBy(g)' = HeldBy(g)
  BY Zenon DEF Arrive, BadRequest, StoreTask, SubmitTask, Held, HeldBy
<1>2. CASE Arrive(t) \/ BadRequest(t) \/ StoreTask(t)
  <2>1. Queued' = Queued /\ taskChan' = taskChan
    BY Zenon, <1>2 DEF Arrive, BadRequest, StoreTask, Queued
  <2> QED BY <1>1, <1>2, <2>1 DEF Arrive, BadRequest, StoreTask, OnePlace
<1>3. CASE SubmitTask(t)
  <2>1. taskChan \in Seq(Tasks) /\ taskChan' = Append(taskChan, t)
    BY <1>3 DEF SubmitTask, Inv, ServiceTypeOK
  <2>2. t \notin Queued /\ NoRepeats(taskChan)
    BY <1>3 DEF SubmitTask, OnePlace
  <2>3. Queued' = Queued \cup {t}
    BY <2>1, AppendQueued DEF Queued
  <2>4. NoRepeats(taskChan')
    BY <2>1, <2>2, AppendNoRepeats DEF Queued
  <2> QED BY <1>1, <1>3, <2>3, <2>4 DEF SubmitTask, OnePlace
<1> QED BY <1>2, <1>3

(* A goroutine takes the first task of the channel.                        *)
LEMMA ReceiveOnePlace ==
  ASSUME Inv, OnePlace, NEW g \in Goroutines, Receive(g)
  PROVE  OnePlace'
<1> DEFINE t == Head(taskChan)
<1>1. taskChan \in Seq(Tasks) /\ taskChan # <<>> /\ taskChan' = Tail(taskChan)
  BY DEF Receive, Inv, ServiceTypeOK
<1>2. t \in Tasks /\ Queued = Queued' \cup {t}
  BY Zenon, <1>1, TailQueued DEF Queued
<1>3. NoRepeats(taskChan') /\ t \notin Queued'
  BY <1>1, TailNoRepeats DEF Queued, OnePlace
<1> HIDE DEF t
<1>4. /\ pool[g] = Idle /\ pool' = [pool EXCEPT ![g] = Taken(t)]
      /\ UNCHANGED <<decoding, tasks, sending, results, dropped>>
  BY DEF Receive, t, serverVars
<1>5. /\ pool'[g] = Taken(t)
      /\ \A h \in Goroutines : h # g => pool'[h] = pool[h]
      /\ Held \subseteq Held' \cup HeldBy(g)
      /\ Held' \subseteq Held \cup HeldBy(g)'
      /\ HeldBy(g)' \subseteq Held'
  BY Zenon, <1>4, PoolUpdate DEF Inv
<1>6. HeldBy(g) = {} /\ HeldBy(g)' = {t}
  BY <1>2, <1>4, <1>5, PoolStates DEF HeldBy
<1>7. \A h \in Goroutines : h # g => HeldBy(h)' = HeldBy(h) /\ HeldBy(h) \subseteq Held
  BY Zenon, <1>5 DEF HeldBy, Held
<1>8. \A h, k \in Goroutines : h # k => HeldBy(h)' \cap HeldBy(k)' = {}
  BY <1>2, <1>6, <1>7 DEF OnePlace
<1> QED BY <1>2, <1>3, <1>4, <1>5, <1>6, <1>8 DEF OnePlace

(* A goroutine exits, keeps its task, finishes it or drops it.             *)
LEMMA TaskStepOnePlace ==
  ASSUME Inv, OnePlace, NEW g \in Goroutines,
         ExitClosed(g) \/ ExitCancelled(g) \/ NoWorkers(g) \/ PickWorker(g) \/ StoreResult(g)
  PROVE  OnePlace'
<1>1. UNCHANGED <<decoding, tasks, sending, taskChan>> /\ Queued' = Queued
  BY DEF ExitClosed, ExitCancelled, NoWorkers, PickWorker, StoreResult, serverVars, Queued
<1>2. /\ \A h \in Goroutines : h # g => HeldBy(h)' = HeldBy(h) /\ HeldBy(h) \subseteq Held
      /\ Held \subseteq Held' \cup HeldBy(g)
      /\ Held' \subseteq Held \cup HeldBy(g)'
      /\ HeldBy(g) \subseteq Held /\ HeldBy(g)' \subseteq Held'
  <2>1. \E x : pool' = [pool EXCEPT ![g] = x]
    BY DEF ExitClosed, ExitCancelled, NoWorkers, PickWorker, StoreResult
  <2>2. \A h \in Goroutines : h # g => pool'[h] = pool[h]
    BY <2>1, PoolUpdate DEF Inv
  <2>3. \A h \in Goroutines : h # g => HeldBy(h)' = HeldBy(h) /\ HeldBy(h) \subseteq Held
    BY <2>2 DEF HeldBy, Held
  <2> QED BY Zenon, <2>1, <2>3, PoolUpdate DEF Inv
<1>3. HeldBy(g)' \subseteq HeldBy(g)
      /\ \/ HeldBy(g)' = HeldBy(g) /\ UNCHANGED <<results, dropped>>
         \/ HeldBy(g)' = {} /\ dropped' = dropped \cup HeldBy(g) /\ UNCHANGED results
         \/ HeldBy(g)' = {} /\ results' = results \cup HeldBy(g) /\ UNCHANGED dropped
  <2>1. CASE ExitClosed(g) \/ ExitCancelled(g)
    <3>1. pool[g] = Idle /\ pool'[g] = Exited /\ UNCHANGED <<results, dropped>>
      BY Zenon, <2>1, PoolUpdate DEF ExitClosed, ExitCancelled, Inv
    <3> QED BY <3>1 DEF HeldBy
  <2>2. CASE NoWorkers(g) \/ PickWorker(g) \/ StoreResult(g)
    <3>1. PICK t \in Tasks : pool[g] \in {Taken(t), Processing(t)}
      <4>1. pool[g].at \in {"taken", "processing"}
        BY <2>2 DEF NoWorkers, PickWorker, StoreResult
      <4>2. pool[g] \in {Idle, Exited} \cup {Taken(u) : u \in Tasks} \cup {Processing(u) : u \in Tasks}
        BY DEF Inv, ServiceTypeOK
      <4>3. pool[g] \notin {Idle, Exited}
        BY <4>1 DEF Idle, Exited
      <4> QED BY Zenon, <4>2, <4>3
    <3>2. pool[g].task = t /\ HeldBy(g) = {t}
      BY <3>1, PoolStates DEF HeldBy
    <3>3. \/ pool'[g] = Processing(t) /\ UNCHANGED <<results, dropped>>
          \/ pool'[g] = Idle /\ dropped' = dropped \cup {t} /\ UNCHANGED results
          \/ pool'[g] = Idle /\ results' = results \cup {t} /\ UNCHANGED dropped
      BY <2>2, <3>2, PoolUpdate DEF NoWorkers, PickWorker, StoreResult, Inv
    <3>4. pool'[g] = Processing(t) => HeldBy(g)' = {t}
      BY Zenon, PoolStates DEF HeldBy
    <3>5. pool'[g] = Idle => HeldBy(g)' = {}
      BY DEF HeldBy
    <3> QED BY <3>2, <3>3, <3>4, <3>5
  <2> QED BY <2>1, <2>2
<1>4. \A h, k \in Goroutines : h # k => HeldBy(h)' \cap HeldBy(k)' = {}
  BY <1>2, <1>3 DEF OnePlace
<1>5. HeldBy(g)' = {} => Held' = Held \ HeldBy(g)
  <2> SUFFICES ASSUME HeldBy(g)' = {} PROVE Held' = Held \ HeldBy(g)
    OBVIOUS
  <2>1. \A h \in Goroutines : HeldBy(h)' \cap HeldBy(g) = {}
    BY <1>2 DEF OnePlace
  <2>2. Held' \cap HeldBy(g) = {}
    BY <2>1 DEF Held
  <2> QED BY <1>2, <2>2
<1>6. HeldBy(g)' = HeldBy(g) => Held' = Held
  BY <1>2
<1> QED BY <1>1, <1>2, <1>3, <1>4, <1>5, <1>6 DEF OnePlace

(* A task is in one place, once: no step of a handler, a goroutine, the    *)
(* registration of workers or the shutdown copies or loses one.            *)
THEOREM ServiceTaskInOnePlace == ServiceSpec => []TaskInOnePlace
<1>1. ServiceInit => OnePlace
  <2> SUFFICES ASSUME ServiceInit PROVE OnePlace
    OBVIOUS
  <2>1. Queued = {} /\ Held = {} /\ NoRepeats(taskChan) /\ \A g \in Goroutines : HeldBy(g) = {}
    BY DEF ServiceInit, Queued, Held, HeldBy, NoRepeats
  <2> QED BY <2>1 DEF ServiceInit, OnePlace
<1>2. Inv /\ OnePlace /\ [ServiceNext]_serviceVars => OnePlace'
  <2> SUFFICES ASSUME Inv, OnePlace, [ServiceNext]_serviceVars PROVE OnePlace'
    OBVIOUS
  <2>1. ASSUME UNCHANGED <<decoding, tasks, sending, taskChan, pool, results, dropped>>
        PROVE  OnePlace'
    <3>1. Queued' = Queued /\ Held' = Held /\ \A g \in Goroutines : HeldBy(g)' = HeldBy(g)
      BY <2>1 DEF Queued, Held, HeldBy
    <3> QED BY <2>1, <3>1 DEF OnePlace
  <2>2. CASE \/ AddWorker \/ RemoveWorker \/ CancelContext \/ BeginShutdown \/ ShutdownDone
             \/ ShutdownTimeout \/ PoolStopped
             \/ (\E g \in Goroutines : PickPanics(g)) \/ UNCHANGED serviceVars
    BY Zenon, <2>1, <2>2 DEF AddWorker, RemoveWorker, CancelContext, BeginShutdown, ShutdownDone,
       ShutdownTimeout, PoolStopped, PickPanics, serviceVars, serverVars
  <2> QED BY <2>2, HandlerOnePlace, ReceiveOnePlace, TaskStepOnePlace DEF ServiceNext, Goroutine
<1>3. OnePlace => TaskInOnePlace
  <2> SUFFICES ASSUME OnePlace PROVE TaskInOnePlace
    OBVIOUS
  <2> DEFINE places == <<sending, Queued, Held, results, dropped>>
  <2>1. /\ places[1] = sending /\ places[2] = Queued /\ places[3] = Held
        /\ places[4] = results /\ places[5] = dropped
    OBVIOUS
  <2> HIDE DEF places
  <2>2. UNION {places[i] : i \in 1..5} = sending \cup Queued \cup Held \cup results \cup dropped
    <3>1. 1..5 = {1, 2, 3, 4, 5}
      OBVIOUS
    <3> QED BY <2>1, <3>1
  <2>3. \A i, j \in 1..5 : i # j => places[i] \cap places[j] = {}
    BY <2>1 DEF OnePlace
  <2> QED BY <2>2, <2>3 DEF TaskInOnePlace, OnePlace, NoRepeats, places
<1> QED BY <1>1, <1>2, <1>3, ServiceInvariant, PTL DEF ServiceSpec

-----------------------------------------------------------------------------
(* What AddVertex keeps of the maps: an entry of edges is the parents of   *)
(* the vertex, and reversedge is the inverse of edges.                     *)
LinksInv ==
  /\ dagVertices \subseteq Vertices
  /\ DOMAIN edges \subseteq dagVertices
  /\ edges = [v \in DOMAIN edges |-> ParentsOf[v]]
  /\ reversedge = [p \in Vertices |-> {w \in DOMAIN edges : p \in edges[w]}]
  /\ FrontierIsTips

(* A new vertex is a tip unless a child of it came first; its parents are  *)
(* no tips any more.                                                       *)
LEMMA AddVertexKeeps ==
  ASSUME LinksInv, NEW v \in Vertices, AddVertex(v)
  PROVE  LinksInv'
<1>1. CASE UNCHANGED <<edges, reversedge, frontier>>
  BY <1>1 DEF LinksInv, AddVertex, FrontierIsTips
<1>2. CASE /\ reversedge' = [p \in Vertices |->
                IF p \in ParentsOf[v] THEN reversedge[p] \cup {v} ELSE reversedge[p]]
           /\ edges' = [w \in DOMAIN edges \cup {v} |->
                IF w = v THEN ParentsOf[v] ELSE edges[w]]
           /\ frontier' = NewFrontier(v)
  <2>1. dagVertices' \subseteq Vertices /\ DOMAIN edges' \subseteq dagVertices'
    BY <1>2 DEF LinksInv, AddVertex
  <2>2. DOMAIN edges' = DOMAIN edges \cup {v} /\ v \notin DOMAIN edges
    BY <1>2 DEF LinksInv, AddVertex
  <2>3. \A w \in DOMAIN edges' : edges'[w] = ParentsOf[w]
    BY <1>2 DEF LinksInv
  <2>4. edges' = [w \in DOMAIN edges' |-> ParentsOf[w]]
    BY <1>2, <2>3
  <2>5. \A p \in Vertices : reversedge'[p] = {w \in DOMAIN edges' : p \in edges'[w]}
    BY <1>2, <2>2, <2>3 DEF LinksInv
  <2>6. reversedge' = [p \in Vertices |-> {w \in DOMAIN edges' : p \in edges'[w]}]
    BY <1>2, <2>5
  <2>7. FrontierIsTips'
    <3>1. reversedge'[v] = {} <=> \A w \in DOMAIN edges' : v \notin edges'[w]
      BY <2>5
    <3>2. \A u \in DOMAIN edges : (\A w \in DOMAIN edges' : u \notin edges'[w]) <=>
            u \notin ParentsOf[v] /\ \A w \in DOMAIN edges : u \notin edges[w]
      BY <2>2, <2>3 DEF LinksInv
    <3>3. frontier = {u \in DOMAIN edges : \A w \in DOMAIN edges : u \notin edges[w]}
      BY DEF LinksInv, FrontierIsTips
    <3>4. frontier' = (frontier \ ParentsOf[v]) \cup (IF reversedge'[v] = {} THEN {v} ELSE {})
      BY <1>2 DEF NewFrontier
    <3>5. \A u : u \in frontier' <=>
            u \in DOMAIN edges' /\ \A w \in DOMAIN edges' : u \notin edges'[w]
      <4> SUFFICES ASSUME NEW u
                   PROVE  u \in frontier' <=>
                            u \in DOMAIN edges' /\ \A w \in DOMAIN edges' : u \notin edges'[w]
        OBVIOUS
      <4>1. CASE u = v
        BY <2>2, <3>1, <3>3, <3>4, <4>1
      <4>2. CASE u # v
        BY <2>2, <3>2, <3>3, <3>4, <4>2
      <4> QED BY <4>1, <4>2
    <3> QED BY <3>5 DEF FrontierIsTips
  <2> QED BY <2>1, <2>4, <2>6, <2>7 DEF LinksInv
<1> QED BY <1>1, <1>2 DEF AddVertex

(* The frontier of the DAG is exactly the linked vertices that no linked   *)
(* vertex has as a parent, in whatever order vertices are added and        *)
(* whichever of them fail.                                                 *)
THEOREM FrontierIsTipsHolds == DagSpec => []FrontierIsTips
<1>1. DagInit => LinksInv
  BY DEF DagInit, LinksInv, FrontierIsTips
<1>2. LinksInv /\ [DagNext]_dagVars => LinksInv'
  <2> SUFFICES ASSUME LinksInv, [DagNext]_dagVars PROVE LinksInv'
    OBVIOUS
  <2>1. ASSUME NEW v \in Vertices, AddVertex(v) PROVE LinksInv'
    BY <2>1, AddVertexKeeps
  <2>2. ASSUME UNCHANGED graph PROVE LinksInv'
    BY <2>2 DEF graph, LinksInv, FrontierIsTips
  <2>3. ASSUME NEW v \in Vertices, NEW s \in {"Accepted", "Rejected"}, UpdateStatus(v, s)
        PROVE  UNCHANGED graph
    BY <2>3 DEF UpdateStatus
  <2>4. ASSUME NEW c \in Callers,
               CallGetFrontier(c) \/ ProcessFrontier(c) \/ GetFrontier(c) \/ Batch(c)
        PROVE  UNCHANGED graph
    BY <2>4 DEF CallGetFrontier, ProcessFrontier, GetFrontier, Batch, ProcessBatch,
       SpawnProcess, Process
  <2> QED BY <2>1, <2>2, <2>3, <2>4 DEF DagNext, dagVars
<1>3. LinksInv => FrontierIsTips
  BY DEF LinksInv
<1> QED BY <1>1, <1>2, <1>3, PTL DEF DagSpec

(* The types of the DAG's state.                                           *)
THEOREM DagTypesHold == DagSpec => []DagTypeOK
<1>1. DagInit => DagTypeOK
  BY DEF DagInit, DagTypeOK
<1>2. DagTypeOK /\ [DagNext]_dagVars => DagTypeOK'
  <2> SUFFICES ASSUME DagTypeOK, [DagNext]_dagVars PROVE DagTypeOK'
    OBVIOUS
  <2> USE GraphAssumption DEF DagTypeOK
  <2>1. ASSUME NEW v \in Vertices, AddVertex(v) PROVE DagTypeOK'
    BY <2>1 DEF AddVertex, NewFrontier, batches
  <2>2. ASSUME NEW v \in Vertices, NEW s \in {"Accepted", "Rejected"}, UpdateStatus(v, s)
        PROVE  DagTypeOK'
    BY <2>2 DEF UpdateStatus, graph, batches
  <2>3. ASSUME NEW c \in Callers, CallGetFrontier(c) PROVE DagTypeOK'
    BY <2>3 DEF CallGetFrontier, graph, batches
  <2>4. ASSUME NEW c \in Callers, ProcessFrontier(c) PROVE DagTypeOK'
    BY <2>4 DEF ProcessFrontier, graph, batches
  <2>5. ASSUME NEW c \in Callers, GetFrontier(c) PROVE DagTypeOK'
    BY <2>5 DEF GetFrontier, graph
  <2>6. ASSUME NEW c \in Callers, ProcessBatch(c) PROVE DagTypeOK'
    BY <2>6 DEF ProcessBatch, graph, batches
  <2>7. ASSUME NEW c \in Callers, NEW v \in Vertices, SpawnProcess(c, v) PROVE DagTypeOK'
    BY <2>7 DEF SpawnProcess, graph
  <2>8. ASSUME NEW c \in Callers, NEW v \in Vertices, Process(c, v) PROVE DagTypeOK'
    BY <2>8 DEF Process, graph
  <2>9. CASE UNCHANGED dagVars
    BY <2>9 DEF dagVars, graph, batches
  <2> HIDE DEF DagTypeOK
  <2> QED BY <2>1, <2>2, <2>3, <2>4, <2>5, <2>6, <2>7, <2>8, <2>9 DEF DagNext, Batch
<1> QED BY <1>1, <1>2, PTL DEF DagSpec

-----------------------------------------------------------------------------
(* The engine.  Since DecideTxs accepts a transaction only when all its    *)
(* conflicts are rejected, and rejects only those, it rejects none: what   *)
(* it accepts was alone under each of its inputs at that time.             *)
DecisionInv ==
  /\ RejectsNothing
  /\ conflicts = [i \in Inputs |-> conflicts[i]]
  /\ \A i \in Inputs : \A t \in conflicts[i] : i \in InputsOf[t]
  /\ \A i \in Inputs : \A t, u \in conflicts[i] \cap txsAccepted : t = u

(* Registering the open transactions of a vertex accepts none of them.     *)
LEMMA RegisterKeeps ==
  ASSUME DecisionInv, NEW T, conflicts' = Register(T), UNCHANGED <<txsAccepted, txsRejected>>
  PROVE  DecisionInv'
<1>1. conflicts' = [i \in Inputs |-> conflicts'[i]]
  BY DEF Register
<1>2. \A i \in Inputs : conflicts'[i] = conflicts[i] \cup {t \in T \ Decided : i \in InputsOf[t]}
  BY DEF Register
<1>3. \A i \in Inputs : conflicts'[i] \cap txsAccepted' = conflicts[i] \cap txsAccepted
  BY <1>2 DEF Decided
<1> QED BY <1>1, <1>2, <1>3 DEF DecisionInv, RejectsNothing

(* DecideTxs on the transactions of a vertex.                              *)
LEMMA DecideKeeps ==
  ASSUME DecisionInv, NEW T, DecideAll(T), UNCHANGED conflicts
  PROVE  DecisionInv'
<1> DEFINE accept == {t \in T \ Decided : canAccept(t)}
<1>1. \A t \in accept : ConflictsOf(t) = {}
  BY DEF DecisionInv, RejectsNothing, canAccept
<1>2. txsAccepted' = txsAccepted \cup accept /\ RejectsNothing'
  BY <1>1 DEF DecideAll, DecisionInv, RejectsNothing
<1>3. ASSUME NEW i \in Inputs, NEW t \in conflicts[i], NEW u \in conflicts[i], t \in accept
      PROVE  t = u
  <2>1. i \in InputsOf[t]
    BY DEF DecisionInv
  <2>2. CASE t # u
    <3>1. u \in ConflictsOf(t)
      BY <2>1, <2>2 DEF ConflictsOf
    <3> QED BY <1>1, <1>3, <3>1
  <2> QED BY <2>2
<1> HIDE DEF accept
<1>4. \A i \in Inputs : \A t, u \in conflicts[i] \cap txsAccepted' : t = u
  BY <1>2, <1>3 DEF DecisionInv
<1> QED BY <1>2, <1>4 DEF DecisionInv

(* Every step of the engine keeps DecisionInv.                             *)
LEMMA DecisionStep == DecisionInv /\ [Next]_vars => DecisionInv'
<1> SUFFICES ASSUME DecisionInv, [Next]_vars PROVE DecisionInv'
  OBVIOUS
<1>1. ASSUME UNCHANGED <<conflicts, txsAccepted, txsRejected>> PROVE DecisionInv'
  BY <1>1 DEF DecisionInv, RejectsNothing
<1>2. ASSUME NEW c \in Callers, NEW B \in SUBSET Vertices, BatchProcessVertices(c, B)
      PROVE  DecisionInv'
  BY Zenon, <1>1, <1>2 DEF BatchProcessVertices, graphVars, txVars
<1>3. ASSUME NEW c \in Callers, Spawn(c) PROVE DecisionInv'
  BY <1>1, <1>3 DEF Spawn, graphVars, txVars
<1>4. ASSUME NEW c \in Callers, NEW v \in flight[c], ProcessVertex(c, v) PROVE DecisionInv'
  <2>1. UNCHANGED <<txsAccepted, txsRejected>>
    BY <1>4 DEF ProcessVertex, txVars
  <2>2. UNCHANGED conflicts \/ \E T : conflicts' = Register(T)
    BY <1>4 DEF ProcessVertex, ProcessNew, graphVars
  <2> QED BY Zenon, <1>1, <2>1, <2>2, RegisterKeeps
<1>5. ASSUME NEW r \in Runners, RunConsensus(r) \/ DecideTxs(r) \/ StopLoop(r)
      PROVE  DecisionInv'
  BY <1>1, <1>5 DEF RunConsensus, DecideTxs, StopLoop, graphVars, txVars
<1>6. ASSUME NEW v \in todo, Visit(v) \/ VisitFails(v) PROVE DecisionInv'
  <2>1. UNCHANGED conflicts /\ \E T : DecideAll(T)
    BY <1>6 DEF Visit, VisitFails, graphVars
  <2> QED BY <2>1, DecideKeeps
<1>7. CASE UpdateFrontier \/ Cancel
  BY <1>1, <1>7 DEF UpdateFrontier, Cancel, graphVars, txVars
<1>8. CASE UNCHANGED vars
  BY <1>1, <1>8 DEF vars, graphVars, txVars
<1> QED BY <1>2, <1>3, <1>4, <1>5, <1>6, <1>7, <1>8 DEF Next

(* A set without two elements has at most one.                             *)
LEMMA AtMostOne ==
  ASSUME NEW S, \A x, y \in S : x = y
  PROVE  Cardinality(S) <= 1
<1>1. CASE S = {}
  BY <1>1, FS_EmptySet
<1>2. CASE S # {}
  <2>1. PICK x \in S : S = {x}
    BY <1>2
  <2> QED BY <2>1, FS_Singleton
<1> QED BY <1>1, <1>2

(* Of the transactions registered under an input at most one is accepted,  *)
(* however the batches and DecideTxs interleave and wherever calls fail.   *)
THEOREM ConflictFreeHolds == Spec => []ConflictFree
<1>1. Init => DecisionInv
  BY Zenon DEF Init, DecisionInv, RejectsNothing
<1>2. DecisionInv => ConflictFree
  BY AtMostOne DEF DecisionInv, ConflictFree
<1> QED BY <1>1, <1>2, DecisionStep, PTL DEF Spec

(* DecideTxs rejects no transaction, although it has code that does.       *)
THEOREM RejectsNothingHolds == Spec => []RejectsNothing
<1>1. Init => DecisionInv
  BY Zenon DEF Init, DecisionInv, RejectsNothing
<1>2. DecisionInv => RejectsNothing
  BY DEF DecisionInv
<1> QED BY <1>1, <1>2, DecisionStep, PTL DEF Spec

(* At most one goroutine is in the loop of RunConsensus, and running tells *)
(* whether one is.                                                         *)
THEOREM OneLoopHolds == Spec => []OneLoop
<1> DEFINE LoopInv == /\ running \in BOOLEAN
                      /\ IF running THEN \E r \in Runners : looping = {r} ELSE looping = {}
<1>1. Init => LoopInv
  BY Zenon DEF Init
<1>2. LoopInv /\ [Next]_vars => LoopInv'
  <2> SUFFICES ASSUME LoopInv, [Next]_vars PROVE LoopInv'
    OBVIOUS
  <2>1. ASSUME NEW r \in Runners, RunConsensus(r) PROVE LoopInv'
    BY <2>1 DEF RunConsensus
  <2>2. ASSUME NEW r \in Runners, StopLoop(r) PROVE LoopInv'
    BY Zenon, <2>2 DEF StopLoop
  <2>3. ASSUME UNCHANGED <<running, looping>> PROVE LoopInv'
    BY <2>3
  <2> HIDE DEF LoopInv
  <2> QED BY Zenon, <2>1, <2>2, <2>3 DEF Next, vars, loopVars, BatchProcessVertices, Spawn,
             ProcessVertex, DecideTxs, Visit, VisitFails, UpdateFrontier, Cancel
<1>3. LoopInv => OneLoop
  BY FS_EmptySet, FS_Singleton DEF OneLoop
<1> QED BY <1>1, <1>2, <1>3, PTL DEF Spec

-----------------------------------------------------------------------------
(* The transactions of a vertex, all or the first n, are transactions.     *)
LEMMA TxsAreTxs ==
  ASSUME NEW v \in Vertices
  PROVE  TxSet(v) \subseteq Txs /\ \A n \in 0..Len(TxsOf[v]) : TxPrefix(v, n) \subseteq Txs
BY EngineAssumption DEF TxSet, TxPrefix

(* Registering transactions keeps the type of conflicts.                   *)
LEMMA RegisterType ==
  ASSUME TypeOK, NEW T \in SUBSET Txs
  PROVE  Register(T) \in [Inputs -> SUBSET Txs]
BY DEF TypeOK, Register

(* The part of TypeOK that BatchProcessVertices, Spawn and ProcessVertex   *)
(* change: the semaphore bounds the goroutines of a batch.                 *)
BatchTypeOK ==
  /\ queue \in [Callers -> Seq(Vertices)] /\ flight \in [Callers -> SUBSET Vertices]
  /\ \A c \in Callers : Cardinality(flight[c]) <= Workers

(* A batch, a goroutine that starts, a goroutine that ends.                *)
LEMMA BatchStep == BatchTypeOK /\ [Next]_vars => BatchTypeOK'
<1> SUFFICES ASSUME BatchTypeOK, [Next]_vars PROVE BatchTypeOK'
  OBVIOUS
<1>0. Workers \in Nat /\ \A S \in SUBSET Vertices : IsFiniteSet(S) /\ Cardinality(S) \in Nat
  <2>1. Workers \in Nat
    BY GraphAssumption DEF Workers
  <2>2. \A S \in SUBSET Vertices : IsFiniteSet(S)
    BY EngineAssumption, FS_Subset
  <2> QED BY <2>1, <2>2, FS_CardinalityType
<1>1. ASSUME NEW c \in Callers, NEW B \in SUBSET Vertices, BatchProcessVertices(c, B)
      PROVE  BatchTypeOK'
  <2>1. PICK s \in Sorted(B) : queue' = [queue EXCEPT ![c] = s]
    BY Zenon, <1>1 DEF BatchProcessVertices
  <2>2. s \in Seq(Vertices)
    <3>1. s \in [1..Cardinality(B) -> B] /\ Cardinality(B) \in Nat
      BY <1>0, <2>1 DEF Sorted
    <3>2. s \in Seq(B)
      BY <3>1
    <3> QED BY <3>1, <3>2
  <2> QED BY <1>1, <2>1, <2>2 DEF BatchProcessVertices, BatchTypeOK
<1>2. ASSUME NEW c \in Callers, Spawn(c) PROVE BatchTypeOK'
  <2>1. Head(queue[c]) \in Vertices /\ Tail(queue[c]) \in Seq(Vertices)
    BY <1>2 DEF Spawn, BatchTypeOK
  <2>2. Cardinality(flight[c] \cup {Head(queue[c])}) <= Workers
    <3>1. IsFiniteSet(flight[c]) /\ Cardinality(flight[c]) \in Nat
      BY <1>0 DEF BatchTypeOK
    <3>2. Cardinality(flight[c] \cup {Head(queue[c])}) <= Cardinality(flight[c]) + 1
      <4>1. Cardinality(flight[c] \cup {Head(queue[c])}) =
              IF Head(queue[c]) \in flight[c] THEN Cardinality(flight[c]) ELSE Cardinality(flight[c]) + 1
        BY Zenon, <3>1, FS_AddElement
      <4> QED BY <3>1, <4>1
    <3>3. Cardinality(flight[c] \cup {Head(queue[c])}) \in Nat
      BY Zenon, <3>1, FS_AddElement, FS_CardinalityType
    <3> QED BY <1>0, <1>2, <3>1, <3>2, <3>3 DEF Spawn
  <2> QED BY <1>2, <2>1, <2>2 DEF Spawn, BatchTypeOK
<1>3. ASSUME NEW c \in Callers, NEW v \in flight[c], ProcessVertex(c, v) PROVE BatchTypeOK'
  <2>1. Cardinality(flight[c] \ {v}) <= Workers
    <3>1. flight[c] \ {v} \subseteq flight[c] /\ IsFiniteSet(flight[c])
      BY <1>0 DEF BatchTypeOK
    <3>2. Cardinality(flight[c] \ {v}) <= Cardinality(flight[c])
      BY <3>1, FS_Subset
    <3> QED BY <1>0, <3>2 DEF BatchTypeOK
  <2> QED BY <1>3, <2>1 DEF ProcessVertex, BatchTypeOK
<1>4. ASSUME UNCHANGED batchVars PROVE BatchTypeOK'
  BY <1>4 DEF batchVars, BatchTypeOK
<1> QED BY Zenon, <1>1, <1>2, <1>3, <1>4 DEF Next, vars, RunConsensus, DecideTxs, StopLoop, Visit,
           VisitFails, UpdateFrontier, Cancel

(* The rest of TypeOK.                                                     *)
LEMMA TypeStep == TypeOK /\ [Next]_vars => TypeOK'
<1> SUFFICES ASSUME TypeOK, [Next]_vars PROVE TypeOK'
  OBVIOUS
<1>0. BatchTypeOK'
  BY Zenon, BatchStep DEF TypeOK, BatchTypeOK
<1>1. ASSUME NEW c \in Callers, NEW B \in SUBSET Vertices, BatchProcessVertices(c, B)
      PROVE  TypeOK'
  BY Zenon, <1>0, <1>1 DEF BatchProcessVertices, graphVars, txVars, loopVars, TypeOK, BatchTypeOK
<1>2. ASSUME NEW c \in Callers, Spawn(c) PROVE TypeOK'
  BY Zenon, <1>0, <1>2 DEF Spawn, graphVars, txVars, loopVars, TypeOK, BatchTypeOK
<1>3. ASSUME NEW c \in Callers, NEW v \in flight[c], ProcessVertex(c, v) PROVE TypeOK'
  <2>1. v \in Vertices
    BY Zenon DEF TypeOK
  <2>2. CASE v \in vertices
    BY Zenon, <1>0, <1>3, <2>2 DEF ProcessVertex, graphVars, txVars, loopVars, TypeOK, BatchTypeOK
  <2>3. CASE v \notin vertices
    <3>1. ProcessNew(v) /\ UNCHANGED <<txVars, loopVars, decider, todo>>
      BY <1>3, <2>3 DEF ProcessVertex
    <3>2. /\ vertices' = vertices \cup {v}
          /\ vtxRejected' \in {vtxRejected, vtxRejected \cup {v}}
          /\ UNCHANGED edgeMap \/ StoreEdges(v)
      BY <3>1 DEF ProcessNew
    <3>3. conflicts' \in [Inputs -> SUBSET Txs]
      <4>1. UNCHANGED conflicts \/ \E T \in SUBSET Txs : conflicts' = Register(T)
        BY Zenon, <2>1, <3>1, TxsAreTxs DEF ProcessNew
      <4> QED BY <4>1, RegisterType DEF TypeOK
    <3>4. DOMAIN edgeMap' \subseteq vertices' /\ \A w \in DOMAIN edgeMap' : edgeMap'[w] \subseteq Vertices
      <4>1. CASE UNCHANGED edgeMap
        BY Zenon, <3>2, <4>1 DEF TypeOK
      <4>2. CASE StoreEdges(v)
        BY <2>1, <3>2, <4>2, GraphAssumption DEF StoreEdges, TypeOK
      <4> QED BY Zenon, <3>2, <4>1, <4>2
    <3> QED BY Zenon, <1>0, <2>1, <3>1, <3>2, <3>3, <3>4 DEF txVars, loopVars, TypeOK, BatchTypeOK
  <2> QED BY <2>2, <2>3
<1>4. ASSUME NEW r \in Runners, RunConsensus(r) \/ StopLoop(r) PROVE TypeOK'
  BY Zenon, <1>4 DEF RunConsensus, StopLoop, graphVars, txVars, batchVars, TypeOK
<1>5. ASSUME NEW r \in Runners, DecideTxs(r) PROVE TypeOK'
  BY Zenon, <1>5, EngineAssumption DEF DecideTxs, getFrontier, graphVars, txVars, batchVars, loopVars, TypeOK
<1>6. ASSUME NEW T \in SUBSET Txs, DecideAll(T), UNCHANGED <<vertices, conflicts>>
      PROVE  txsAccepted' \subseteq Txs /\ txsRejected' \subseteq Txs
  <2>1. \A t \in Txs : ConflictsOf(t) \subseteq Txs
    BY EngineAssumption DEF TypeOK, ConflictsOf
  <2> QED BY <1>6, <2>1 DEF DecideAll, TypeOK
<1>7. ASSUME NEW v \in todo, Visit(v) PROVE TypeOK'
  <2>1. v \in vertices /\ v \in Vertices /\ UNCHANGED <<vertices, conflicts>>
    BY Zenon, <1>7 DEF TypeOK, Visit, graphVars
  <2>2. txsAccepted' \subseteq Txs /\ txsRejected' \subseteq Txs
    BY <1>6, <1>7, <2>1, TxsAreTxs DEF Visit
  <2>3. vtxAccepted' \in {vtxAccepted, vtxAccepted \cup {v}}
    BY <1>7 DEF Visit
  <2> QED BY Zenon, <1>7, <2>1, <2>2, <2>3 DEF Visit, graphVars, batchVars, loopVars, TypeOK
<1>8. ASSUME NEW v \in todo, VisitFails(v) PROVE TypeOK'
  <2>1. v \in Vertices /\ UNCHANGED <<vertices, conflicts>>
    BY Zenon, <1>8 DEF TypeOK, VisitFails, graphVars
  <2>2. txsAccepted' \subseteq Txs /\ txsRejected' \subseteq Txs
    <3>1. PICK n \in 0..Len(TxsOf[v]) : DecideAll(TxPrefix(v, n))
      BY <1>8 DEF VisitFails
    <3>2. TxPrefix(v, n) \in SUBSET Txs
      BY <2>1, TxsAreTxs
    <3> QED BY <1>6, <2>1, <3>1, <3>2
  <2> QED BY Zenon, <1>8, <2>2 DEF VisitFails, graphVars, batchVars, loopVars, TypeOK
<1>9. CASE UpdateFrontier
  BY Zenon, <1>9, EngineAssumption DEF UpdateFrontier, getFrontier, graphVars, txVars, batchVars, loopVars, TypeOK
<1>10. CASE Cancel
  BY Zenon, <1>10 DEF Cancel, graphVars, txVars, batchVars, TypeOK
<1>11. CASE UNCHANGED vars
  BY Zenon, <1>11 DEF vars, graphVars, txVars, batchVars, loopVars, TypeOK
<1> QED BY <1>1, <1>2, <1>3, <1>4, <1>5, <1>7, <1>8, <1>9, <1>10, <1>11 DEF Next

(* The types of the engine's state, with the bound that the semaphore of   *)
(* BatchProcessVertices puts on the goroutines of a batch.                 *)
THEOREM EngineTypesHold == Spec => []TypeOK
<1>1. Init => TypeOK
  <2>1. 0 <= Workers /\ Cardinality({}) = 0
    BY GraphAssumption, FS_EmptySet DEF Workers
  <2> SUFFICES ASSUME Init PROVE TypeOK
    OBVIOUS
  <2>2. queue \in [Callers -> Seq(Vertices)] /\ flight \in [Callers -> SUBSET Vertices]
    BY DEF Init
  <2>3. \A c \in Callers : Cardinality(flight[c]) <= Workers
    BY <2>1 DEF Init
  <2>4. running \in BOOLEAN /\ cancelled \in BOOLEAN
    BY Zenon DEF Init
  <2>5. DOMAIN edgeMap = {} /\ conflicts \in [Inputs -> SUBSET Txs]
    BY DEF Init
  <2> QED BY <2>2, <2>3, <2>4, <2>5 DEF Init, TypeOK
<1> QED BY <1>1, TypeStep, PTL DEF Spec

(* A transaction once registered or decided stays so, and ProcessVertex    *)
(* under e.lock registers the open transactions of a vertex before another *)
(* batch or DecideTxs can look: no conflict is hidden.                     *)
THEOREM ConflictsCompleteHolds == Spec => []ConflictsComplete
<1>1. Init => ConflictsComplete
  BY DEF Init, ConflictsComplete
<1>2. TypeOK' /\ ConflictsComplete /\ [Next]_vars => ConflictsComplete'
  <2> SUFFICES ASSUME TypeOK', ConflictsComplete, [Next]_vars PROVE ConflictsComplete'
    OBVIOUS
  <2>1. ASSUME UNCHANGED <<vertices, conflicts>>, Decided \subseteq Decided'
        PROVE  ConflictsComplete'
    BY <2>1 DEF ConflictsComplete
  <2>2. ASSUME UNCHANGED <<vertices, conflicts, txsAccepted, txsRejected>>
        PROVE  ConflictsComplete'
    BY <2>1, <2>2 DEF Decided
  <2>3. ASSUME NEW c \in Callers, NEW v \in flight[c], ProcessVertex(c, v)
        PROVE  ConflictsComplete'
    <3>1. CASE v \in vertices
      BY <2>2, <2>3, <3>1 DEF ProcessVertex, graphVars, txVars
    <3>2. CASE v \notin vertices
      <4>1. ProcessNew(v) /\ Decided' = Decided
        BY <2>3, <3>2 DEF ProcessVertex, txVars, Decided
      <4>2. /\ vertices' = vertices \cup {v}
            /\ UNCHANGED conflicts \/ \E T : conflicts' = Register(T)
            /\ v \notin Faulty => conflicts' = Register(TxSet(v))
        BY <4>1 DEF ProcessNew
      <4>3. \A i \in Inputs : conflicts[i] \subseteq conflicts'[i]
        BY <4>2 DEF Register
      <4> SUFFICES ASSUME NEW w \in vertices' \ Faulty, NEW t \in TxSet(w), NEW i \in InputsOf[t]
                   PROVE  t \in conflicts'[i] \/ t \in Decided
        BY <4>1 DEF ConflictsComplete
      <4>4. i \in Inputs
        <5>1. w \in Vertices
          BY Zenon DEF TypeOK
        <5> QED BY <5>1, TxsAreTxs, EngineAssumption
      <4>5. CASE w \in vertices
        BY Zenon, <4>3, <4>4, <4>5 DEF ConflictsComplete
      <4>6. CASE w = v
        BY <4>2, <4>4, <4>6 DEF Register
      <4> QED BY <4>2, <4>5, <4>6
    <3> QED BY <3>1, <3>2
  <2>4. ASSUME NEW v \in todo, Visit(v) \/ VisitFails(v) PROVE ConflictsComplete'
    <3>1. UNCHANGED <<vertices, conflicts>> /\ \E T : DecideAll(T)
      BY <2>4 DEF Visit, VisitFails, graphVars
    <3> QED BY <2>1, <3>1 DEF DecideAll, Decided
  <2> QED BY <2>2, <2>3, <2>4 DEF Next, vars, graphVars, txVars, BatchProcessVertices, Spawn,
             RunConsensus, DecideTxs, StopLoop, UpdateFrontier, Cancel
<1> QED BY <1>1, <1>2, EngineTypesHold, PTL DEF Spec
=============================================================================
