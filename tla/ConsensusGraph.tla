--------------------------- MODULE ConsensusGraph ---------------------------
(***************************************************************************)
(* The vertices that package consensus is given.  They are made outside    *)
(* the package: constants say which parents each has, and the calls of a   *)
(* faulty vertex, or of its transactions, may return an error.             *)
(***************************************************************************)
EXTENDS Integers

CONSTANTS
  Vertices,
  ParentsOf,   \* vertex -> the IDs of its parents, added or not
  Faulty,      \* the vertices with calls that may fail
  Callers,     \* the goroutines that call into the package
  MaxWorkers,  \* the maxWorkers argument of the constructors
  None

ASSUME GraphAssumption ==
  /\ ParentsOf \in [Vertices -> SUBSET Vertices]
  /\ \A v \in Vertices : v \notin ParentsOf[v]
  /\ Faulty \subseteq Vertices
  /\ MaxWorkers \in Int
  /\ None \notin Callers

(* The default that NewParallelEngine and NewDefaultVertexProcessor use. *)
Workers == IF MaxWorkers <= 0 THEN 4 ELSE MaxWorkers
=============================================================================
