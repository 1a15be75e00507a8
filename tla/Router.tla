------------------------------- MODULE Router -------------------------------
(***************************************************************************)
(* The chains of a node, as its chain router knows them                    *)
(* (snow/networking/router/chain_router.go), and the validators of their   *)
(* subnets.  Requests and Benchlist extend this module with what the       *)
(* router does for its chains.                                             *)
(***************************************************************************)
EXTENDS Integers, FiniteSets, FiniteSetsExt

CONSTANTS
  Nodes, Chains, Subnets, PrimaryNetworkID,
  SubnetOf,       \* the subnet of a chain
  ValidatorOnly,  \* the chains of validator-only subnets
  MaxLeaves       \* bound: how often a validator leaves

VARIABLES
  chainHandlers,  \* chain -> "new", "running" or "stopped"
  closing,
  validators,     \* subnet -> nodes
  leaves

routerVars == <<chainHandlers, closing, validators, leaves>>

(* The chains of the primary network are there before any message.         *)
RouterInit ==
  /\ chainHandlers = [c \in Chains |->
                        IF SubnetOf[c] = PrimaryNetworkID THEN "running" ELSE "new"]
  /\ closing = FALSE
  /\ validators = [s \in Subnets |-> Nodes]
  /\ leaves = 0

IsRunning(c) == chainHandlers[c] = "running"

AddHandler(c) ==
  /\ ~closing
  /\ chainHandlers[c] = "new"
  /\ chainHandlers' = [chainHandlers EXCEPT ![c] = "running"]
  /\ UNCHANGED <<closing, validators, leaves>>

removeChain(c) ==
  /\ IsRunning(c)
  /\ chainHandlers' = [chainHandlers EXCEPT ![c] = "stopped"]
  /\ UNCHANGED <<closing, validators, leaves>>

Shutdown ==
  /\ ~closing
  /\ closing' = TRUE
  /\ chainHandlers' = [c \in Chains |-> IF IsRunning(c) THEN "stopped" ELSE chainHandlers[c]]
  /\ UNCHANGED <<validators, leaves>>

Leave(s, n) ==
  /\ leaves < MaxLeaves
  /\ n \in validators[s]
  /\ validators' = [validators EXCEPT ![s] = @ \ {n}]
  /\ leaves' = leaves + 1
  /\ UNCHANGED <<chainHandlers, closing>>

IsAllowed(c, n) == c \notin ValidatorOnly \/ n \in validators[SubnetOf[c]]
=============================================================================
