------------------------------ MODULE Requests ------------------------------
(***************************************************************************)
(* The requests of a node's chains, between the sender, the chain router   *)
(* and the timeout manager.  A request is registered with the router and   *)
(* with the timeout manager before it is sent; the response, a failure of  *)
(* the sender and the timeout then race to HandleInbound.                  *)
(*                                                                         *)
(* Each call of HandleInbound is under the router's lock, and is a step.   *)
(***************************************************************************)
EXTENDS Router

CONSTANTS
  Asked,   \* the requests, each with an ID of its own
  NodeOf, ChainOf

VARIABLES
  sending,        \* request -> how far the sender is with it
  timedRequests,  \* the router's
  timeouts,       \* timeoutHeap
  firing,         \* the requests, one or none, whose timeout is handled
  failing,        \* failures of the sender, each in a goroutine
  pushed          \* request -> the answers that its chain was passed

reqVars == <<routerVars, sending, timedRequests, timeouts, firing, failing, pushed>>

ReqInit ==
  /\ RouterInit
  /\ sending = [r \in Asked |-> "idle"]
  /\ timedRequests = {} /\ timeouts = {} /\ firing = {} /\ failing = {}
  /\ pushed = [r \in Asked |-> 0]

(* A chain asks a node; it may still do so while the router shuts down.    *)
(* The timeout is put after the router's lock is released, but nothing can *)
(* come of the request before it is.                                       *)
RegisterRequest(r) ==
  /\ sending[r] = "idle"
  /\ IsRunning(ChainOf[r]) \/ (closing /\ chainHandlers[ChainOf[r]] = "stopped")
  /\ sending' = [sending EXCEPT ![r] = "registered"]
  /\ IF closing THEN UNCHANGED <<timedRequests, timeouts>>
     ELSE timedRequests' = timedRequests \cup {r} /\ timeouts' = timeouts \cup {r}
  /\ UNCHANGED <<routerVars, firing, failing, pushed>>

(* A request to a benched node, and one that could not be sent, fails at   *)
(* once, in a goroutine of its own.                                        *)
Send(r) ==
  /\ sending[r] = "registered"
  /\ \/ sending' = [sending EXCEPT ![r] = "sent"] /\ UNCHANGED failing
     \/ sending' = [sending EXCEPT ![r] = "failed"] /\ failing' = failing \cup {r}
  /\ UNCHANGED <<routerVars, timedRequests, timeouts, firing, pushed>>

(* HandleInbound gets past its drops.                                      *)
Routed(r) == ~closing /\ IsRunning(ChainOf[r]) /\ IsAllowed(ChainOf[r], NodeOf[r])

Outstanding_Any(r) == TRUE

(* clearRequest finds the request.                                         *)
Outstanding(r) == r \in timedRequests

(* The chain is passed the answer; no other is expected.                   *)
Answer(r) ==
  /\ timedRequests' = timedRequests \ {r}
  /\ timeouts' = timeouts \ {r}
  /\ pushed' = [pushed EXCEPT ![r] = @ + 1]

(* HandleInbound of a message that says that the request failed.           *)
HandleFailed(r) ==
  IF Routed(r) /\ Outstanding(r) THEN Answer(r)
  ELSE UNCHANGED <<timedRequests, timeouts, pushed>>

GiveUp(r) ==
  /\ r \in failing
  /\ HandleFailed(r)
  /\ failing' = failing \ {r}
  /\ UNCHANGED <<routerVars, sending, firing>>

(* A response while the chain executes is dropped, and the request kept.   *)
Respond_ClearsFirst(r, executing) ==
  IF executing
  THEN timedRequests' = timedRequests \ {r} /\ UNCHANGED <<timeouts, pushed>>
  ELSE Answer(r)

Respond(r, executing) ==
  IF executing THEN UNCHANGED <<timedRequests, timeouts, pushed>> ELSE Answer(r)

(* A peer may answer a request that it got, late or more than once.        *)
HandleResponse(r) ==
  /\ sending[r] = "sent"
  /\ Routed(r) /\ Outstanding(r)
  /\ \E executing \in BOOLEAN : Respond(r, executing)
  /\ UNCHANGED <<routerVars, sending, firing, failing>>

(* The timeout manager's goroutine takes what is due from its heap, lets   *)
(* go of its lock and calls the handler, which tells the benchlist and     *)
(* then the router.                                                        *)
Fire(r) ==
  /\ firing = {}
  /\ r \in timeouts
  /\ timeouts' = timeouts \ {r}
  /\ firing' = {r}
  /\ UNCHANGED <<routerVars, sending, timedRequests, failing, pushed>>

HandleTimeout(r) ==
  /\ r \in firing
  /\ HandleFailed(r)
  /\ firing' = {}
  /\ UNCHANGED <<routerVars, sending, failing>>

Chain(c) ==
  /\ AddHandler(c) \/ removeChain(c)
  /\ UNCHANGED <<sending, timedRequests, timeouts, firing, failing, pushed>>

Node ==
  /\ Shutdown \/ \E s \in Subnets, n \in Nodes : Leave(s, n)
  /\ UNCHANGED <<sending, timedRequests, timeouts, firing, failing, pushed>>

ReqNext ==
  \/ Node \/ \E c \in Chains : Chain(c)
  \/ \E r \in Asked : RegisterRequest(r) \/ Send(r) \/ GiveUp(r) \/ HandleResponse(r)
                      \/ Fire(r) \/ HandleTimeout(r)

(* The goroutines of the sender and of the timeout manager go on; a timer  *)
(* is always set for the first of the timeouts.  No peer has to answer.    *)
ReqFairness ==
  /\ \A r \in Asked : WF_reqVars(Send(r)) /\ WF_reqVars(GiveUp(r))
  /\ WF_reqVars(\E r \in Asked : Fire(r) \/ HandleTimeout(r))

ReqSpec == ReqInit /\ [][ReqNext]_reqVars /\ ReqFairness

-----------------------------------------------------------------------------
(* A chain is passed one answer to a request, the response or a failure,   *)
(* whichever of the response, the timeout and the sender's own failure     *)
(* HandleInbound gets first, and none while the request is outstanding.    *)
AnsweredOnce == \A r \in Asked : pushed[r] <= IF r \in timedRequests THEN 0 ELSE 1

(* Every request that RegisterRequest recorded is cleared and its chain    *)
(* gets an answer (chain_router.go:142), if the chain goes on running.     *)
RequestsCleared ==
  \A r \in Asked : r \in timedRequests ~> (pushed[r] = 1 \/ ~IsRunning(ChainOf[r]))

=============================================================================
