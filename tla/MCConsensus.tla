----------------------------- MODULE MCConsensus -----------------------------
(* Package consensus has two parts that share nothing but the vertices:    *)
(* the engine of adapter.go and the DAG of dag.go.  A behaviour is one of  *)
(* the one or one of the other.                                            *)
(*                                                                         *)
(* The vertices form the chain v3 <- v1 <- v2, the child v2 with the       *)
(* highest priority; t1 and t2 conflict, t3 is free of conflicts.          *)
EXTENDS ParallelEngine, ParallelDAG
CONSTANTS v1, v2, v3, t1, t2, t3, i1, i2

VARIABLE part

MCTxs == {t1, t2, t3}
MCInputs == {i1, i2}
MCParentsOf == [v \in Vertices |-> Vertices \cap
                  (CASE v = v1 -> {v3} [] v = v2 -> {v1} [] OTHER -> {})]
MCTxsOf == [v \in Vertices |->
              CASE v = v1 -> <<t3, t2>> [] v = v2 -> <<t1>> [] OTHER -> <<t3>>]
MCInputsOf == [t \in MCTxs |-> IF t = t3 THEN {i2} ELSE {i1}]
MCPriority == [v \in Vertices |-> IF v = v2 THEN 2 ELSE 1]

MCInit == Init /\ DagInit /\ part \in {"engine", "dag"}
MCNext ==
  /\ \/ part = "engine" /\ Next /\ UNCHANGED dagVars
     \/ part = "dag" /\ DagNext /\ UNCHANGED vars
  /\ UNCHANGED part
MCSpec == MCInit /\ [][MCNext]_<<vars, dagVars, part>> /\ Fairness /\ DagFairness
=============================================================================
