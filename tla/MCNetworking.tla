---------------------------- MODULE MCNetworking ----------------------------
(***************************************************************************)
(* The networking of a node.  A behaviour follows the bootstrapping of a   *)
(* chain or, once that is done, the requests of the chains or their        *)
(* benchlists.  P is a chain of the primary network, S of a subnet; the    *)
(* node n is asked for each.                                               *)
(***************************************************************************)
EXTENDS Bootstrap, Requests, Benchlist, TLC

CONSTANTS n, P, S, primary, subnet, q1, q2

VARIABLE part

MCSubnetOf == P :> primary @@ S :> subnet
MCNodeOf == [r \in {q1, q2} |-> n]
MCChainOf == q1 :> P @@ q2 :> S
MCWeight == n :> 1

askVars == <<sending, timedRequests, timeouts, firing, failing, pushed>>
benchVars == <<peerVars, lockVars, listVars>>

Bootstrapped ==
  /\ lastAcceptedHeight = MaxHeight /\ startHeight = MaxHeight
  /\ db = EmptyStore /\ tree = LoadTree(EmptyStore) /\ batch = EmptyStore
  /\ missing = {} /\ requested = {} /\ phase = "done"
  /\ unwritten = 0 /\ height = 0 /\ numToExecute = 0 /\ previouslyExecuted = 0
  /\ tip = MaxHeight /\ isBootstrapped = TRUE /\ stops = 0

MCInit ==
  /\ part \in {"bootstrap", "requests", "benchlist"}
  /\ IF part = "bootstrap" THEN BsInit ELSE Bootstrapped
  /\ ReqInit /\ BlInit

MCNext ==
  /\ UNCHANGED part
  /\ \/ part = "bootstrap" /\ BsNext /\ UNCHANGED <<reqVars, benchVars>>
     \/ part = "requests" /\ ReqNext /\ UNCHANGED <<bsVars, benchVars>>
     \/ part = "benchlist" /\ BlNext /\ UNCHANGED <<bsVars, askVars>>

MCSpec ==
  /\ MCInit /\ [][MCNext]_<<bsVars, reqVars, benchVars, part>>
  /\ BsFairness /\ ReqFairness /\ BlFairness
=============================================================================
