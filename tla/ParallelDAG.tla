---------------------------- MODULE ParallelDAG ----------------------------
(***************************************************************************)
(* The DAG of pkg/consensus/dag.go: AddVertex and UpdateStatus under the   *)
(* write lock of dag.lock, GetFrontier under its read lock,                *)
(* ProcessFrontier, and the goroutines of ProcessBatch.                    *)
(*                                                                         *)
(* A caller of GetFrontier hands what it gets to ProcessBatch, as          *)
(* ProcessFrontier would.  Whatever holds a lock for one step only is one  *)
(* action; the lock is a variable because ProcessFrontier keeps it.        *)
(* X_Name before X is X with a plausible mistake; no specification uses it. *)
(***************************************************************************)
EXTENDS ConsensusGraph, FiniteSets

VARIABLES
  dagVertices,  \* the keys of dag.vertices
  edges,        \* dag.edges: vertex -> its parents
  reversedge,   \* dag.reversedge: vertex -> its children, {} when it has no entry
  frontier,     \* dag.frontier
  status,       \* what Status() of each vertex returns
  locker,       \* the caller that holds the write lock of dag.lock, or None
  at,           \* at[c]: where caller c is
  waiting,      \* waiting[c]: the vertices of c's batch that have no goroutine yet
  spawned,      \* spawned[c]: those with a goroutine in Process
  errs          \* errs[c]: the vertices whose Process sent an error

graph == <<dagVertices, edges, reversedge, frontier>>
batches == <<waiting, spawned, errs>>
dagVars == <<graph, status, locker, at, batches>>

DagInit ==
  /\ dagVertices = {}
  /\ edges = [v \in {} |-> {}]
  /\ reversedge = [v \in Vertices |-> {}]
  /\ frontier = {}
  /\ status = [v \in Vertices |-> "Processing"]
  /\ locker = None
  /\ at = [c \in Callers |-> "idle"]
  /\ waiting = [c \in Callers |-> {}]
  /\ spawned = [c \in Callers |-> {}]
  /\ errs = [c \in Callers |-> {}]

-----------------------------------------------------------------------------
(* "Add to frontier if it has no children yet", by reversedge as it is     *)
(* after the loop over the parents.                                        *)
NewFrontier_ChildrenIgnored(v) == (frontier \ ParentsOf[v]) \cup {v}
NewFrontier(v) ==
  (frontier \ ParentsOf[v]) \cup (IF reversedge'[v] = {} THEN {v} ELSE {})

(* A vertex that is stored already is left alone.  It is stored before its *)
(* parents are asked for, and stays when Parents fails.                    *)
AddVertex(v) ==
  /\ locker = None
  /\ v \notin dagVertices
  /\ dagVertices' = dagVertices \cup {v}
  /\ \/ /\ reversedge' = [p \in Vertices |->
             IF p \in ParentsOf[v] THEN reversedge[p] \cup {v} ELSE reversedge[p]]
        /\ edges' = [w \in DOMAIN edges \cup {v} |->
             IF w = v THEN ParentsOf[v] ELSE edges[w]]
        /\ frontier' = NewFrontier(v)
     \/ /\ v \in Faulty
        /\ UNCHANGED <<edges, reversedge, frontier>>
  /\ UNCHANGED <<status, locker, at, batches>>

(* An unknown vertex, an unsupported status, the present status and a      *)
(* failing Accept or Reject leave everything as it is.  The loop over the  *)
(* children has no body.                                                   *)
UpdateStatus(v, s) ==
  /\ locker = None
  /\ v \in dagVertices
  /\ s \in {"Accepted", "Rejected"} \ {status[v]}
  /\ status' = [status EXCEPT ![v] = s]
  /\ UNCHANGED <<graph, locker, at, batches>>

-----------------------------------------------------------------------------
(* GetFrontier and ProcessFrontier *)

CallGetFrontier(c) ==
  /\ at[c] = "idle"
  /\ at' = [at EXCEPT ![c] = "rlock"]
  /\ UNCHANGED <<graph, status, locker, batches>>

(* ProcessFrontier takes the write lock and calls GetFrontier. *)
ProcessFrontier(c) ==
  /\ at[c] = "idle"
  /\ locker = None
  /\ locker' = c
  /\ at' = [at EXCEPT ![c] = "rlock"]
  /\ UNCHANGED <<graph, status, batches>>

(* GetFrontier gets the read lock, which no one does while there is a      *)
(* writer, and returns; a caller that had the write lock would give it     *)
(* back.  ProcessBatch starts, unless the frontier is empty.               *)
GetFrontier(c) ==
  /\ at[c] = "rlock"
  /\ locker = None
  /\ at' = [at EXCEPT ![c] = IF frontier \cap dagVertices = {} THEN "idle" ELSE "batch"]
  /\ waiting' = [waiting EXCEPT ![c] = frontier \cap dagVertices]
  /\ errs' = [errs EXCEPT ![c] = {}]
  /\ UNCHANGED <<graph, status, locker, spawned>>

-----------------------------------------------------------------------------
(* ProcessBatch *)

(* The loop acquires the semaphore and starts a goroutine. *)
SpawnProcess(c, v) ==
  /\ v \in waiting[c]
  /\ Cardinality(spawned[c]) < Workers
  /\ waiting' = [waiting EXCEPT ![c] = @ \ {v}]
  /\ spawned' = [spawned EXCEPT ![c] = @ \cup {v}]
  /\ UNCHANGED <<graph, status, locker, at, errs>>

(* Process returns, nil or the first error of Verify, Txs or a             *)
(* transaction's Verify; the goroutine releases its place.                 *)
Process(c, v) ==
  /\ v \in spawned[c]
  /\ spawned' = [spawned EXCEPT ![c] = @ \ {v}]
  /\ \/ UNCHANGED errs
     \/ v \in Faulty /\ errs' = [errs EXCEPT ![c] = @ \cup {v}]
  /\ UNCHANGED <<graph, status, locker, at, waiting>>

(* wg.Wait returns, and with it ProcessBatch: nil, or some error of errs.  *)
ProcessBatch(c) ==
  /\ at[c] = "batch"
  /\ waiting[c] = {} /\ spawned[c] = {}
  /\ at' = [at EXCEPT ![c] = "idle"]
  /\ UNCHANGED <<graph, status, locker, batches>>

-----------------------------------------------------------------------------
Batch(c) == ProcessBatch(c) \/ \E v \in Vertices : SpawnProcess(c, v) \/ Process(c, v)

DagNext ==
  \/ \E v \in Vertices : AddVertex(v)
  \/ \E v \in Vertices, s \in {"Accepted", "Rejected"} : UpdateStatus(v, s)
  \/ \E c \in Callers : CallGetFrontier(c) \/ ProcessFrontier(c) \/ GetFrontier(c) \/ Batch(c)

DagSpec == DagInit /\ [][DagNext]_dagVars

(* Goroutines run, Process returns, and a reader gets dag.lock when it is  *)
(* free: only a ProcessFrontier ever holds it for more than a step.        *)
DagFairness == \A c \in Callers : WF_dagVars(GetFrontier(c)) /\ WF_dagVars(Batch(c))

DagFairSpec == DagSpec /\ DagFairness
-----------------------------------------------------------------------------
(* The types of the maps of the DAG and of the callers' state.             *)
DagTypeOK ==
  /\ dagVertices \subseteq Vertices /\ frontier \subseteq Vertices
  /\ DOMAIN edges \subseteq dagVertices
  /\ \A v \in DOMAIN edges : edges[v] \subseteq Vertices
  /\ reversedge \in [Vertices -> SUBSET Vertices]
  /\ status \in [Vertices -> {"Processing", "Accepted", "Rejected"}]
  /\ locker \in Callers \cup {None}
  /\ at \in [Callers -> {"idle", "rlock", "batch"}]
  /\ waiting \in [Callers -> SUBSET Vertices] /\ spawned \in [Callers -> SUBSET Vertices]
  /\ errs \in [Callers -> SUBSET Vertices]

(* The frontier is exactly the vertices that AddVertex has linked and no   *)
(* linked vertex has as a parent, also when children are added before      *)
(* their parents.                                                          *)
FrontierIsTips ==
  frontier = {v \in DOMAIN edges : \A w \in DOMAIN edges : v \notin edges[w]}

(* What the comment of ProcessFrontier says, that it "processes the        *)
(* frontier vertices in parallel": a caller that is in it gets out of it.  *)
ProcessFrontierReturns == \A c \in Callers : (locker = c) ~> (locker # c)
=============================================================================
