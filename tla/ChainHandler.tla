---------------------------- MODULE ChainHandler ----------------------------
(***************************************************************************)
(* The handler of one chain (snow/networking/handler): the queues that the *)
(* router pushes messages to, the three dispatchers that pass them to the  *)
(* engine, and how it starts and stops.  A message was read from a peer    *)
(* and keeps the throttler's resources until OnFinishedHandling, or is the *)
(* router's word that a peer was connected or disconnected.                *)
(***************************************************************************)
EXTENDS Throttling

CONSTANTS
  Threads,    \* of the asynchronous message pool
  MaxFaults,  \* bound: how many failures and stops there are
  NoMsg, Stopping

VARIABLES
  registered,        \* with the router
  gear,              \* "new", "started" or "failed"
  queue,             \* "sync" and "async" -> messages
  closedQueues,
  dispatcher,        \* each dispatcher -> how far it is
  current,           \* the message that a dispatcher has popped
  pool,              \* thread -> its message; Stopping while it waits in Stop
  stop,              \* how far the one call of Stop is
  closed,
  engineConnected,   \* the peers that the engine was told are connected
  faults

handlerVars == <<registered, gear, queue, closedQueues, dispatcher, current, pool,
                 stop, closed, engineConnected, faults>>

Dispatchers == {"sync", "async", "chans"}
Queues == {"sync", "async"}

Connection(p, op) == [op |-> op, node |-> p, size |-> 0]

(* AddChain registers the handler, and pushes word of the peers that are   *)
(* connected already.                                                      *)
HandlerInit(peers) ==
  /\ registered = TRUE /\ gear = "new"
  /\ queue = [sync |-> [i \in DOMAIN peers |-> Connection(peers[i], "connected")], async |-> <<>>]
  /\ closedQueues = {}
  /\ dispatcher = [d \in Dispatchers |-> "off"]
  /\ current = [q \in Queues |-> NoMsg]
  /\ pool = [w \in Threads |-> NoMsg]
  /\ stop = "no" /\ closed = FALSE
  /\ engineConnected = {}
  /\ faults = 0

Fault == faults < MaxFaults /\ faults' = faults + 1

IsConnection(m) == m.op \in {"connected", "disconnected"}

OnFinishedHandling(t, m) == IF IsConnection(m) THEN t ELSE Release(t, m.node, m.size)

QueueOf(m) == IF m.op = "app" THEN "async" ELSE "sync"

(* The router has a message for the chain.                                 *)
Push(m) ==
  LET q == QueueOf(m) IN
  IF registered /\ q \notin closedQueues
  THEN queue' = [queue EXCEPT ![q] = Append(@, m)] /\ UNCHANGED throttler
  ELSE throttler' = OnFinishedHandling(throttler, m) /\ UNCHANGED queue

(* The gear starts, and then the dispatchers; if it does not, the chain is *)
(* shut down without them.                                                 *)
StartHandler ==
  /\ gear = "new"
  /\ \/ /\ gear' = "started"
        /\ dispatcher' = [d \in Dispatchers |-> "loop"]
        /\ UNCHANGED <<closed, faults>>
     \/ /\ Fault
        /\ gear' = "failed" /\ closed' = TRUE
        /\ UNCHANGED dispatcher
  /\ UNCHANGED <<registered, queue, closedQueues, current, pool, stop, engineConnected, throttler>>

(* The first call of Stop does what Stop does, in CloseQueue and           *)
(* CloseChan; another waits for it.                                        *)
Stop == stop' = IF stop = "no" THEN "sync" ELSE stop

CloseQueue(q) ==
  /\ stop = q
  /\ throttler' = InTurn(OnFinishedHandling, throttler, queue[q])
  /\ queue' = [queue EXCEPT ![q] = <<>>]
  /\ closedQueues' = closedQueues \cup {q}
  /\ stop' = IF q = "sync" THEN "async" ELSE "chans"
  /\ UNCHANGED <<registered, gear, dispatcher, current, pool, closed, engineConnected, faults>>

CloseChan ==
  /\ stop = "chans"
  /\ stop' = "done"
  /\ UNCHANGED <<registered, gear, queue, closedQueues, dispatcher, current, pool, closed,
                 engineConnected, faults, throttler>>

(* The last dispatcher shuts the engine down.                              *)
CloseDispatcher(d) ==
  /\ dispatcher' = [dispatcher EXCEPT ![d] = "closed"]
  /\ closed' = \A e \in Dispatchers \ {d} : dispatcher[e] = "closed"

(* removeChain, by the handler once it has shut down, or when the node or  *)
(* the chain is stopped.                                                   *)
RemoveHandler ==
  /\ registered
  /\ (closed /\ UNCHANGED faults) \/ Fault
  /\ registered' = FALSE
  /\ Stop
  /\ UNCHANGED <<gear, queue, closedQueues, dispatcher, current, pool, closed, engineConnected,
                 throttler>>

MayRefuse_Any(m) == TRUE

(* canPop refuses a message whose sender uses too much CPU.                *)
MayRefuse(m) == ~IsConnection(m)

(* popUnexpiredMsg, to the handling of the message.  Pop takes the i-th    *)
(* message after it refused those before it, which go to the end; or it    *)
(* refused all and takes the first.  One that has expired is dropped.      *)
PopMsg(q) ==
  /\ dispatcher[q] = "loop" /\ q \notin closedQueues
  /\ \E i \in 1..Len(queue[q]), expired \in BOOLEAN :
       LET m == queue[q][i] IN
       /\ \A j \in 1..(i - 1) : MayRefuse(queue[q][j])
       /\ expired => ~IsConnection(m)
       /\ queue' = [queue EXCEPT ![q] = SubSeq(@, i + 1, Len(@)) \o SubSeq(@, 1, i - 1)]
       /\ IF expired
          THEN throttler' = OnFinishedHandling(throttler, m) /\ UNCHANGED <<dispatcher, current>>
          ELSE /\ dispatcher' = [dispatcher EXCEPT ![q] = "handling"]
               /\ current' = [current EXCEPT ![q] = m]
               /\ UNCHANGED throttler
  /\ UNCHANGED <<registered, gear, closedQueues, pool, stop, closed, engineConnected, faults>>

(* The engine is passed a message under the chain's lock, and may fail.    *)
HandleSync ==
  LET m == current["sync"] IN
  /\ dispatcher["sync"] = "handling"
  /\ engineConnected' = CASE m.op = "connected" -> engineConnected \cup {m.node}
                          [] m.op = "disconnected" -> engineConnected \ {m.node}
                          [] OTHER -> engineConnected
  /\ throttler' = OnFinishedHandling(throttler, m)
  /\ current' = [current EXCEPT !["sync"] = NoMsg]
  /\ \/ dispatcher' = [dispatcher EXCEPT !["sync"] = "loop"] /\ UNCHANGED <<stop, faults>>
     \/ Fault /\ dispatcher' = [dispatcher EXCEPT !["sync"] = "stopping"] /\ Stop
  /\ UNCHANGED <<registered, gear, queue, closedQueues, pool, closed>>

(* dispatchAsync waits for a thread for its message.                       *)
HandleAsync ==
  /\ dispatcher["async"] = "handling"
  /\ \E w \in Threads : pool[w] = NoMsg /\ pool' = [pool EXCEPT ![w] = current["async"]]
  /\ current' = [current EXCEPT !["async"] = NoMsg]
  /\ dispatcher' = [dispatcher EXCEPT !["async"] = "loop"]
  /\ UNCHANGED <<registered, gear, queue, closedQueues, stop, closed, engineConnected, faults, throttler>>

(* The engine is passed the message of a thread, beside any other.         *)
ExecuteAsync(w) ==
  /\ pool[w] \notin {NoMsg, Stopping}
  /\ throttler' = OnFinishedHandling(throttler, pool[w])
  /\ \/ pool' = [pool EXCEPT ![w] = NoMsg] /\ UNCHANGED <<stop, faults>>
     \/ Fault /\ pool' = [pool EXCEPT ![w] = Stopping] /\ Stop
  /\ UNCHANGED <<registered, gear, queue, closedQueues, dispatcher, current, closed, engineConnected>>

ThreadStopped(w) ==
  /\ pool[w] = Stopping /\ stop = "done"
  /\ pool' = [pool EXCEPT ![w] = NoMsg]
  /\ UNCHANGED <<registered, gear, queue, closedQueues, dispatcher, current, stop, closed,
                 engineConnected, faults, throttler>>

(* The engine fails on a message of the VM, or to gossip, under the        *)
(* chain's lock.                                                           *)
HandleChan ==
  /\ dispatcher["chans"] = "loop"
  /\ Fault
  /\ dispatcher' = [dispatcher EXCEPT !["chans"] = "stopping"]
  /\ Stop
  /\ UNCHANGED <<registered, gear, queue, closedQueues, current, pool, closed, engineConnected,
                 throttler>>

CloseAsync_NoWait == "async" \in closedQueues

(* dispatchAsync waits for its threads.                                    *)
CloseAsync == "async" \in closedQueues /\ \A w \in Threads : pool[w] = NoMsg

(* A dispatcher finds that the handler is closing.                         *)
Closing(d) == CASE d = "sync" -> "sync" \in closedQueues
                [] d = "async" -> CloseAsync
                [] d = "chans" -> stop = "done"

Close_NotAfterError(d) ==
  /\ dispatcher[d] = "loop" /\ Closing(d)
  /\ CloseDispatcher(d)
  /\ UNCHANGED <<registered, gear, queue, closedQueues, current, pool, stop, engineConnected, faults,
                 throttler>>

(* It returns then, or when the Stop that it called has.                   *)
Close(d) ==
  /\ \/ dispatcher[d] = "loop" /\ Closing(d)
     \/ dispatcher[d] = "stopping" /\ stop = "done"
  /\ CloseDispatcher(d)
  /\ UNCHANGED <<registered, gear, queue, closedQueues, current, pool, stop, engineConnected, faults,
                 throttler>>

HandlerNext ==
  \/ StartHandler \/ RemoveHandler
  \/ CloseChan
  \/ \E q \in Queues : CloseQueue(q) \/ PopMsg(q)
  \/ HandleSync \/ HandleAsync \/ HandleChan
  \/ \E w \in Threads : ExecuteAsync(w) \/ ThreadStopped(w)
  \/ \E d \in Dispatchers : Close(d)

(* Start is called, and every goroutine goes on; the engine need not fail. *)
(* The select of dispatchChans does not for ever pass over a channel that  *)
(* is closed.                                                              *)
HandlerFairness ==
  LET v == <<throttler, handlerVars>> IN
  /\ WF_v(StartHandler) /\ WF_v(closed /\ RemoveHandler)
  /\ WF_v(CloseChan \/ \E q \in Queues : CloseQueue(q))
  /\ WF_v(PopMsg("sync") \/ HandleSync \/ Close("sync"))
  /\ WF_v(PopMsg("async") \/ HandleAsync \/ Close("async"))
  /\ WF_v(Close("chans"))
  /\ \A w \in Threads : WF_v(ExecuteAsync(w) \/ ThreadStopped(w))

-----------------------------------------------------------------------------
(* No message is handled and none waits once the handler has stopped: the  *)
(* engine is shut down (handler.go:957) only after dispatchers and threads *)
(* are done with it.                                                       *)
ClosedIsQuiet ==
  closed =>
    /\ \A q \in Queues : current[q] = NoMsg
    /\ \A w \in Threads : pool[w] = NoMsg
    /\ stop = "done" => \A q \in Queues : queue[q] = <<>>

(* Whoever calls Stop, and whenever, before or after Start, the handler    *)
(* shuts the chain down in the end.                                        *)
StopCloses == stop # "no" ~> closed

=============================================================================
