----------------------------- MODULE Benchlist ------------------------------
(***************************************************************************)
(* The benchlists of the chains, and what the router tells the chains of   *)
(* their peers.  A node whose requests time out is benched: the router     *)
(* tells all chains that it is disconnected, until the goroutine of the    *)
(* benchlist releases it.                                                  *)
(*                                                                         *)
(* Two locks are held while another one is waited for, and are state: a    *)
(* benchlist's, when it calls Benched or Unbenched, and the router's, when *)
(* a response is passed to the benchlist.  Other sections are steps.       *)
(***************************************************************************)
EXTENDS Router

CONSTANTS
  sybilProtectionEnabled,
  Threshold,              \* failures in a row before a node is benched
  MaxFailures,            \* bound: the timeouts of requests to a node
  Weight, MaxBenchedStake,
  None, Now

ASSUME NoneAssumption == None \notin Nodes \cup (Chains \X Nodes)

VARIABLES
  peers,          \* node -> the tracked subnets, {} when it is no peer
  benched,        \* node -> the chains that it is benched on
  told,           \* chain -> node -> Connected less Disconnected messages
  responding,     \* the response that holds the router's lock: <<chain, node>>
  benching,       \* the bench() that holds its benchlist's: <<chain, node>>
  unbenching,     \* chain -> the node that the goroutine takes off
  failures,       \* node -> its timeouts so far
  failureStreaks, \* chain -> node -> failures in a row
  benchlistSet,   \* chain -> the benched nodes
  expired,        \* chain -> those that can be unbenched
  running,        \* chain -> where the goroutine is
  alarm,          \* chain -> the node that its timer is set for
  resetTimer      \* chain -> whether the channel holds a message

peerVars == <<peers, benched, told>>
lockVars == <<responding, benching, unbenching>>
listVars == <<failures, failureStreaks, benchlistSet, expired, running, alarm, resetTimer>>
blVars == <<routerVars, peerVars, lockVars, listVars>>

(* A goroutine starts with a timer that is due, and finds no benched node. *)
BlInit ==
  /\ RouterInit
  /\ peers = [n \in Nodes |-> {}]
  /\ benched = [n \in Nodes |-> {}]
  /\ told = [c \in Chains |-> [n \in Nodes |-> 0]]
  /\ responding = None
  /\ benching = None
  /\ unbenching = [c \in Chains |-> None]
  /\ failures = [n \in Nodes |-> 0]
  /\ failureStreaks = [c \in Chains |-> [n \in Nodes |-> 0]]
  /\ benchlistSet = [c \in Chains |-> {}]
  /\ expired = [c \in Chains |-> {}]
  /\ running = [c \in Chains |-> "blocked"]
  /\ alarm = [c \in Chains |-> Now]
  /\ resetTimer = [c \in Chains |-> FALSE]

RouterFree == responding = None
BenchFree(c) == unbenching[c] = None /\ \A n \in Nodes : benching # <<c, n>>

-----------------------------------------------------------------------------
(* What the chains are told of their peers.                                *)

Tracks(tracked, c) == SubnetOf[c] \in tracked \/ ~sybilProtectionEnabled
Tracking(n) == {c \in Chains : Tracks(peers[n], c)}

(* The chains, of those that run, that get a message about [n].            *)
Tell(n, to, change) ==
  told' = [c \in Chains |->
             IF IsRunning(c) /\ c \in to THEN [told[c] EXCEPT ![n] = @ + change] ELSE told[c]]

AddChain(c) ==
  /\ RouterFree
  /\ AddHandler(c)
  /\ told' = [told EXCEPT ![c] = [n \in Nodes |->
                IF peers[n] # {} /\ benched[n] = {} /\ Tracks(peers[n], c) THEN 1 ELSE 0]]
  /\ UNCHANGED <<peers, benched, lockVars, listVars>>

RemoveChain(c) == RouterFree /\ removeChain(c) /\ UNCHANGED <<peerVars, lockVars, listVars>>

ShutdownRouter == RouterFree /\ Shutdown /\ UNCHANGED <<peerVars, lockVars, listVars>>

ConnectedTo(s) ==
  IF ~sybilProtectionEnabled /\ s # PrimaryNetworkID THEN {}
  ELSE {c \in Chains : s = SubnetOf[c] \/ ~sybilProtectionEnabled}

(* The network connects a peer to the primary network first, and then to   *)
(* the subnets that both track.                                            *)
Connected(n, s) ==
  /\ RouterFree
  /\ ~closing
  /\ s \notin peers[n]
  /\ s = PrimaryNetworkID \/ PrimaryNetworkID \in peers[n]
  /\ peers' = [peers EXCEPT ![n] = @ \cup {s}]
  /\ Tell(n, IF benched[n] = {} THEN ConnectedTo(s) ELSE {}, 1)
  /\ UNCHANGED <<routerVars, benched, lockVars, listVars>>

Disconnected(n) ==
  /\ RouterFree
  /\ ~closing
  /\ peers[n] # {}
  /\ peers' = [peers EXCEPT ![n] = {}]
  /\ Tell(n, IF benched[n] = {} THEN Tracking(n) ELSE {}, -1)
  /\ UNCHANGED <<routerVars, benched, lockVars, listVars>>

Benched(c, n) ==
  IF closing THEN UNCHANGED <<benched, told>>
  ELSE /\ benched' = [benched EXCEPT ![n] = @ \cup {c}]
       /\ Tell(n, IF benched[n] = {} /\ peers[n] # {} THEN Tracking(n) ELSE {}, -1)

Unbenched_OnAny(c, n) ==
  IF closing THEN UNCHANGED <<benched, told>>
  ELSE /\ benched' = [benched EXCEPT ![n] = @ \ {c}]
       /\ Tell(n, IF peers[n] # {} THEN Tracking(n) ELSE {}, 1)

Unbenched(c, n) ==
  IF closing THEN UNCHANGED <<benched, told>>
  ELSE /\ benched' = [benched EXCEPT ![n] = @ \ {c}]
       /\ Tell(n, IF benched[n] \subseteq {c} /\ peers[n] # {} THEN Tracking(n) ELSE {}, 1)

-----------------------------------------------------------------------------
(* Responses and timeouts of requests.                                     *)

(* HandleInbound of a response, up to its call of the timeout manager.     *)
HandleInbound(c, n) ==
  /\ RouterFree
  /\ ~closing /\ IsRunning(c)
  /\ failureStreaks[c][n] > 0 \* otherwise no step
  /\ responding' = <<c, n>>
  /\ UNCHANGED <<routerVars, peerVars, benching, unbenching, listVars>>

StreaksFree_BenchLock(c) == BenchFree(c)

(* A benchlist counts under a lock of its own, not under the one that is   *)
(* held when it calls the router.                                          *)
StreaksFree(c) == TRUE

RegisterResponse ==
  /\ responding # None
  /\ StreaksFree(responding[1])
  /\ failureStreaks' = [failureStreaks EXCEPT ![responding[1]][responding[2]] = 0]
  /\ responding' = None
  /\ UNCHANGED <<routerVars, peerVars, benching, unbenching, failures, benchlistSet, expired,
                 running, alarm, resetTimer>>

Stake(nodes) == MapThenSumSet(LAMBDA n : Weight[n], nodes)

(* bench() does not return early.  Validators do not leave here: one that  *)
(* does is not benched, and bench() may not be called in any case.         *)
CanBench(c, n) ==
  LET vdrs == validators[SubnetOf[c]]
  IN  n \in vdrs /\ Stake((benchlistSet[c] \cup {n}) \cap vdrs) <= MaxBenchedStake

(* A node is benched when its failures reach the threshold, unless the     *)
(* first is too recent.  Timeouts are handled by one goroutine.            *)
RegisterFailure(c, n) ==
  LET streak == Min({failureStreaks[c][n] + 1, Threshold})
  IN  /\ benching = None
      /\ BenchFree(c)
      /\ failures[n] < MaxFailures
      /\ failures' = [failures EXCEPT ![n] = @ + 1]
      /\ n \notin benchlistSet[c] \* otherwise no step
      /\ failureStreaks' = [failureStreaks EXCEPT ![c][n] = streak]
      /\ \/ UNCHANGED <<benching, benchlistSet>>
         \/ /\ streak >= Threshold /\ CanBench(c, n)
            /\ benching' = <<c, n>>
            /\ benchlistSet' = [benchlistSet EXCEPT ![c] = @ \cup {n}]
      /\ UNCHANGED <<routerVars, peerVars, responding, unbenching, expired, running, alarm,
                     resetTimer>>

ResetTimer_Full(c) == UNCHANGED resetTimer

ResetTimer(c) == resetTimer' = [resetTimer EXCEPT ![c] = TRUE]

(* The rest of bench(), from its call of the router.                       *)
Bench(c, n) ==
  /\ benching = <<c, n>>
  /\ RouterFree
  /\ Benched(c, n)
  /\ failureStreaks' = [failureStreaks EXCEPT ![c][n] = 0]
  /\ ResetTimer(c)
  /\ benching' = None
  /\ UNCHANGED <<routerVars, peers, responding, unbenching, failures, benchlistSet, expired,
                 running, alarm>>

-----------------------------------------------------------------------------
(* The goroutine of a benchlist.                                           *)

Goes(c, at) == running' = [running EXCEPT ![c] = at]

Wake(c) ==
  /\ running[c] = "select"
  /\ \/ alarm[c] \in {Now} \cup expired[c] /\ UNCHANGED resetTimer
     \/ resetTimer[c] /\ resetTimer' = [resetTimer EXCEPT ![c] = FALSE]
  /\ Goes(c, "wait")
  /\ UNCHANGED <<routerVars, peerVars, lockVars, failures, failureStreaks, benchlistSet, expired,
                 alarm>>

(* The heap is looked at once for every message of the channel.            *)
waitForBenchedNodes(c) ==
  /\ \/ running[c] = "wait" /\ BenchFree(c) /\ UNCHANGED resetTimer
        /\ Goes(c, IF benchlistSet[c] = {} THEN "blocked" ELSE "remove")
     \/ running[c] = "blocked" /\ resetTimer[c] /\ Goes(c, "wait")
        /\ resetTimer' = [resetTimer EXCEPT ![c] = FALSE]
  /\ UNCHANGED <<routerVars, peerVars, lockVars, failures, failureStreaks, benchlistSet, expired,
                 alarm>>

(* The timer is set for the node that can be unbenched first, at once if   *)
(* there is none.  A node that is benched just before is in the channel.   *)
durationToSleep(c) ==
  \E next \in IF benchlistSet[c] = {} THEN {Now} ELSE benchlistSet[c] :
    alarm' = [alarm EXCEPT ![c] = next]

(* The loop takes the next expired node, or ends and releases the lock.    *)
NextExpired(c) ==
  \/ /\ expired[c] = {}
     /\ unbenching' = [unbenching EXCEPT ![c] = None]
     /\ durationToSleep(c)
     /\ Goes(c, "select")
     /\ UNCHANGED <<benchlistSet, expired>>
  \/ \E n \in expired[c] :
       /\ unbenching' = [unbenching EXCEPT ![c] = n]
       /\ benchlistSet' = [benchlistSet EXCEPT ![c] = @ \ {n}]
       /\ expired' = [expired EXCEPT ![c] = @ \ {n}]
       /\ UNCHANGED <<running, alarm>>

removedExpiredNodes(c) ==
  /\ running[c] = "remove"
  /\ \/ BenchFree(c) /\ UNCHANGED <<benched, told>>
     \/ unbenching[c] # None /\ RouterFree /\ Unbenched(c, unbenching[c])
  /\ NextExpired(c)
  /\ UNCHANGED <<routerVars, peers, responding, benching, failures, failureStreaks, resetTimer>>

(* Time passes, but for the loop that read the clock before it started.    *)
Expire(c, n) ==
  /\ n \in benchlistSet[c] \ expired[c]
  /\ BenchFree(c)
  /\ expired' = [expired EXCEPT ![c] = @ \cup {n}]
  /\ UNCHANGED <<routerVars, peerVars, lockVars, failures, failureStreaks, benchlistSet, running,
                 alarm, resetTimer>>

Running(c) == Wake(c) \/ waitForBenchedNodes(c) \/ removedExpiredNodes(c)

BlNext ==
  \/ \E c \in Chains : AddChain(c) \/ RemoveChain(c) \/ Running(c)
  \/ ShutdownRouter \/ RegisterResponse
  \/ \E n \in Nodes : Disconnected(n) \/ \E s \in Subnets : Connected(n, s)
  \/ \E c \in Chains, n \in Nodes :
       HandleInbound(c, n) \/ RegisterFailure(c, n) \/ Bench(c, n) \/ Expire(c, n)

(* Goroutines go on and time passes.  A lock is handed to whoever waits    *)
(* for it: responses end with the failures that they follow.               *)
BlFairness ==
  /\ WF_blVars(RegisterResponse)
  /\ WF_blVars(\E c \in Chains, n \in Nodes : Bench(c, n))
  /\ \A c \in Chains : WF_blVars(Running(c)) /\ WF_blVars(\E n \in Nodes : Expire(c, n))

BlSpec == BlInit /\ [][BlNext]_blVars /\ BlFairness

-----------------------------------------------------------------------------
(* A chain is told Connected and Disconnected in turn, and its last word   *)
(* on a node is Connected exactly when the node is a peer that tracks the  *)
(* chain and no chain's benchlist holds it: what the router's invariant    *)
(* (chain_router.go:77) promises, with the calls of several benchlists,    *)
(* of the network and of AddChain in any order.                            *)
ChainsSeePeers ==
  (~closing /\ \A d \in Chains : BenchFree(d)) =>
    \A c \in {d \in Chains : IsRunning(d)}, n \in Nodes :
      told[c][n] = IF /\ peers[n] # {} /\ Tracks(peers[n], c)
                      /\ \A d \in Chains : n \notin benchlistSet[d]
                   THEN 1 ELSE 0

(* The goroutine of a benchlist releases every node that was benched: its  *)
(* timer and its channel miss none, and the router's lock, which it needs, *)
(* is never held by who waits for the benchlist.                           *)
BenchedReleased ==
  \A c \in Chains, n \in Nodes :
    (n \in benchlistSet[c] \/ unbenching[c] = n) ~> (n \notin benchlistSet[c] /\ unbenching[c] # n)

=============================================================================
