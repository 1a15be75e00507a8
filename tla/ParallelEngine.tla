--------------------------- MODULE ParallelEngine ---------------------------
(***************************************************************************)
(* The parallel consensus engine of pkg/consensus/adapter.go: batches of   *)
(* vertices processed by goroutines that a semaphore limits, each under    *)
(* e.lock; DecideTxs, which walks the frontier of the DAG and accepts      *)
(* transactions, holding e.lock all the while; and the RunConsensus loop.  *)
(*                                                                         *)
(* Vertices and transactions come from outside the package.  Constants     *)
(* give their parents, transactions and inputs; a call of a method of a    *)
(* faulty vertex, or of one of its transactions, may return an error.      *)
(* A definition X_Variant is X with a plausible mistake in it; no          *)
(* specification uses one.                                                 *)
(***************************************************************************)
EXTENDS ConsensusGraph, Sequences, FiniteSets

CONSTANTS
  Txs, Inputs,
  TxsOf,       \* vertex -> the sequence of its transactions
  InputsOf,    \* transaction -> the inputs it consumes
  Priority,    \* vertex -> GetProcessingPriority
  Runners      \* goroutines that call RunConsensus or DecideTxs

ASSUME EngineAssumption ==
  /\ IsFiniteSet(Vertices)
  /\ TxsOf \in [Vertices -> Seq(Txs)]
  /\ InputsOf \in [Txs -> SUBSET Inputs]
  /\ Priority \in [Vertices -> Nat]
  /\ None \notin Runners

VARIABLES
  vertices,     \* the keys of e.vertices
  edgeMap,      \* e.edgeMap: vertex -> parents
  conflicts,    \* e.conflicts: input -> transactions, {} when it has no entry
  txsAccepted, txsRejected,
  vtxAccepted, vtxRejected,  \* the vertices Accept and Reject were called on
  queue,        \* queue[c]: what c's batch has not started yet, in order
  flight,       \* flight[c]: the vertices whose goroutines run
  running,      \* e.running
  looping,      \* the runners inside the loop of RunConsensus
  cancelled,    \* whether the loops' context is done
  decider,      \* the runner inside DecideTxs, which holds e.lock, or None
  todo          \* what is left of the frontier it walks

graphVars == <<vertices, edgeMap, conflicts>>
txVars    == <<txsAccepted, txsRejected, vtxAccepted>>
batchVars == <<queue, flight>>
loopVars  == <<running, looping, cancelled>>
vars == <<graphVars, txVars, vtxRejected, batchVars, loopVars, decider, todo>>

TxSet(v) == {TxsOf[v][i] : i \in DOMAIN TxsOf[v]}
TxPrefix(v, n) == {TxsOf[v][i] : i \in 1..n}
Decided == txsAccepted \cup txsRejected

Init ==
  /\ vertices = {}
  /\ edgeMap = [v \in {} |-> {}]
  /\ conflicts = [i \in Inputs |-> {}]
  /\ txsAccepted = {} /\ txsRejected = {}
  /\ vtxAccepted = {} /\ vtxRejected = {}
  /\ queue = [c \in Callers |-> <<>>]
  /\ flight = [c \in Callers |-> {}]
  /\ running = FALSE /\ looping = {} /\ cancelled = FALSE
  /\ decider = None /\ todo = {}

-----------------------------------------------------------------------------
(* BatchProcessVertices *)

(* sortVerticesByPriority: the orders of a batch in which priorities fall. *)
Sorted(B) ==
  {s \in [1..Cardinality(B) -> B] :
     /\ \A v \in B : \E i \in DOMAIN s : s[i] = v
     /\ \A i, j \in DOMAIN s : i < j => Priority[s[i]] >= Priority[s[j]]}

BatchProcessVertices(c, B) ==
  /\ queue[c] = <<>> /\ flight[c] = {}
  /\ \E s \in Sorted(B) : queue' = [queue EXCEPT ![c] = s]
  /\ UNCHANGED <<graphVars, txVars, vtxRejected, flight, loopVars, decider, todo>>

(* The caller acquires the semaphore and starts the next goroutine. *)
Spawn(c) ==
  /\ queue[c] # <<>>
  /\ Cardinality(flight[c]) < Workers
  /\ flight' = [flight EXCEPT ![c] = @ \cup {Head(queue[c])}]
  /\ queue' = [queue EXCEPT ![c] = Tail(@)]
  /\ UNCHANGED <<graphVars, txVars, vtxRejected, loopVars, decider, todo>>

(* conflicts with the open ones of the transactions T under their inputs. *)
Register_Variant(T) ==
  [i \in Inputs |-> IF conflicts[i] # {} THEN conflicts[i]
                    ELSE {t \in T \ Decided : i \in InputsOf[t]}]
Register(T) ==
  [i \in Inputs |-> conflicts[i] \cup {t \in T \ Decided : i \in InputsOf[t]}]

StoreEdges(v) ==
  edgeMap' = [w \in DOMAIN edgeMap \cup {v} |->
                IF w = v THEN ParentsOf[v] ELSE edgeMap[w]]

(* ProcessVertex for a vertex that is not in e.vertices.  It is stored     *)
(* first, and stays stored whichever of the later calls fails: Parents,    *)
(* Verify (the vertex is rejected, or Reject fails), Txs or InputIDs       *)
(* (after the first n transactions).                                       *)
ProcessNew(v) ==
  /\ vertices' = vertices \cup {v}
  /\ \/ /\ StoreEdges(v)
        /\ conflicts' = Register(TxSet(v))
        /\ UNCHANGED vtxRejected
     \/ /\ v \in Faulty
        /\ UNCHANGED <<edgeMap, conflicts, vtxRejected>>
     \/ /\ v \in Faulty
        /\ StoreEdges(v)
        /\ vtxRejected' = vtxRejected \cup {v}
        /\ UNCHANGED conflicts
     \/ /\ v \in Faulty
        /\ StoreEdges(v)
        /\ \E n \in 0..Len(TxsOf[v]) : conflicts' = Register(TxPrefix(v, n))
        /\ UNCHANGED vtxRejected

(* The goroutine of v runs ProcessVertex under e.lock and releases its     *)
(* place in the semaphore, whatever ProcessVertex returned.                *)
ProcessVertex_Variant(c, v) ==
  /\ decider = None
  /\ v \in flight[c]
  /\ IF v \in vertices THEN UNCHANGED <<graphVars, vtxRejected, flight>>
     ELSE ProcessNew(v) /\ flight' = [flight EXCEPT ![c] = @ \ {v}]
  /\ UNCHANGED <<txVars, queue, loopVars, decider, todo>>
ProcessVertex(c, v) ==
  /\ decider = None
  /\ v \in flight[c]
  /\ IF v \in vertices THEN UNCHANGED <<graphVars, vtxRejected>> ELSE ProcessNew(v)
  /\ flight' = [flight EXCEPT ![c] = @ \ {v}]
  /\ UNCHANGED <<txVars, queue, loopVars, decider, todo>>

-----------------------------------------------------------------------------
(* DecideTxs *)

getFrontier == {v \in vertices : \A w \in DOMAIN edgeMap : v \notin edgeMap[w]}

(* Called by RunConsensus on a tick, or directly; with an empty frontier   *)
(* it returns at once.                                                     *)
DecideTxs(r) ==
  /\ decider = None
  /\ getFrontier # {}
  /\ decider' = r
  /\ todo' = getFrontier
  /\ UNCHANGED <<graphVars, txVars, vtxRejected, batchVars, loopVars>>

ConflictsOf(t) == (UNION {conflicts[i] : i \in InputsOf[t]}) \ {t}

(* Whether every conflicting transaction is rejected. *)
canAccept_WrongMap_Variant(t) == ConflictsOf(t) \subseteq txsAccepted
canAccept(t) == ConflictsOf(t) \subseteq txsRejected

(* The loop over the transactions T of a vertex: the open ones that can be *)
(* accepted are, and their conflicts in the vertices are rejected.  What   *)
(* canAccept reads is the same before and after each of them.              *)
DecideAll(T) ==
  LET accept == {t \in T \ Decided : canAccept(t)}
  IN  /\ txsAccepted' = txsAccepted \cup accept
      /\ txsRejected' = txsRejected \cup
           ((UNION {ConflictsOf(t) : t \in accept}) \cap UNION {TxSet(w) : w \in vertices})

Visit(v) ==
  /\ decider # None
  /\ v \in todo
  /\ todo' = todo \ {v}
  /\ DecideAll(TxSet(v))
  /\ vtxAccepted' = IF TxSet(v) \subseteq txsAccepted' \cup txsRejected'
                    THEN vtxAccepted \cup {v} ELSE vtxAccepted
  /\ UNCHANGED <<graphVars, vtxRejected, batchVars, loopVars, decider>>

(* Txs fails (n = 0), InputIDs or Accept fails on the open transaction     *)
(* after the first n, or the vertex's Accept fails: DecideTxs returns.     *)
VisitFails(v) ==
  /\ decider # None
  /\ v \in todo \cap Faulty
  /\ \E n \in 0..Len(TxsOf[v]) :
       /\ DecideAll(TxPrefix(v, n))
       /\ \/ n = 0
          \/ n < Len(TxsOf[v]) /\ TxsOf[v][n+1] \notin txsAccepted' \cup txsRejected'
          \/ n = Len(TxsOf[v]) /\ TxSet(v) \subseteq txsAccepted' \cup txsRejected'
  /\ decider' = None
  /\ todo' = {}
  /\ UNCHANGED <<graphVars, vtxAccepted, vtxRejected, batchVars, loopVars>>

(* The frontier is computed again; the walk goes on unless it is empty.    *)
UpdateFrontier ==
  /\ decider # None
  /\ todo = {}
  /\ todo' = getFrontier
  /\ decider' = IF getFrontier = {} THEN None ELSE decider
  /\ UNCHANGED <<graphVars, txVars, vtxRejected, batchVars, loopVars>>

-----------------------------------------------------------------------------
(* RunConsensus *)

(* Under e.lock; a second caller finds running set and returns. *)
RunConsensus(r) ==
  /\ decider = None
  /\ r \notin looping
  /\ ~running
  /\ running' = TRUE
  /\ looping' = looping \cup {r}
  /\ UNCHANGED <<graphVars, txVars, vtxRejected, batchVars, cancelled, decider, todo>>

Cancel ==
  /\ cancelled' = TRUE
  /\ UNCHANGED <<graphVars, txVars, vtxRejected, batchVars, running, looping, decider, todo>>

(* The loop sees ctx.Done. *)
StopLoop(r) ==
  /\ decider = None
  /\ r \in looping
  /\ cancelled
  /\ running' = FALSE
  /\ looping' = looping \ {r}
  /\ UNCHANGED <<graphVars, txVars, vtxRejected, batchVars, cancelled, decider, todo>>

-----------------------------------------------------------------------------
Next ==
  \/ \E c \in Callers :
       \/ \E B \in SUBSET Vertices \ {{}} : BatchProcessVertices(c, B)
       \/ Spawn(c)
       \/ \E v \in flight[c] : ProcessVertex(c, v)
  \/ \E r \in Runners : RunConsensus(r) \/ DecideTxs(r) \/ StopLoop(r)
  \/ \E v \in todo : Visit(v) \/ VisitFails(v)
  \/ UpdateFrontier
  \/ Cancel

Spec == Init /\ [][Next]_vars

(* Goroutines run; Go's mutex serves every waiter, so a goroutine that     *)
(* waits for e.lock gets it if it is released again and again; a loop that *)
(* runs ticks, or stops once its context is done.                          *)
Fairness ==
  /\ \A c \in Callers :
       /\ WF_vars(Spawn(c))
       /\ \A v \in Vertices : SF_vars(ProcessVertex(c, v))
  /\ \A r \in Runners : SF_vars(r \in looping /\ (DecideTxs(r) \/ StopLoop(r)))
  /\ WF_vars(UpdateFrontier \/ \E v \in todo : Visit(v) \/ VisitFails(v))

FairSpec == Spec /\ Fairness
-----------------------------------------------------------------------------
(* The types of the engine's maps and of the goroutines' state; the        *)
(* semaphore of BatchProcessVertices bounds the goroutines of a batch, and *)
(* only a DecideTxs has a frontier to walk.                                *)
TypeOK ==
  /\ vertices \subseteq Vertices
  /\ DOMAIN edgeMap \subseteq vertices
  /\ \A v \in DOMAIN edgeMap : edgeMap[v] \subseteq Vertices
  /\ conflicts \in [Inputs -> SUBSET Txs]
  /\ txsAccepted \subseteq Txs /\ txsRejected \subseteq Txs
  /\ vtxAccepted \subseteq vertices /\ vtxRejected \subseteq vertices
  /\ queue \in [Callers -> Seq(Vertices)] /\ flight \in [Callers -> SUBSET Vertices]
  /\ \A c \in Callers : Cardinality(flight[c]) <= Workers
  /\ running \in BOOLEAN /\ cancelled \in BOOLEAN
  /\ looping \subseteq Runners
  /\ decider \in Runners \cup {None}
  /\ todo \subseteq (IF decider = None THEN {} ELSE vertices)

(* Of the transactions registered under an input, at most one is ever      *)
(* accepted, however batches and DecideTxs interleave and wherever a call  *)
(* fails (the canAccept check of DecideTxs).                               *)
ConflictFree ==
  \A i \in Inputs : Cardinality(conflicts[i] \cap txsAccepted) <= 1

(* Once ProcessVertex is done with a vertex none of whose calls fails,     *)
(* each of its transactions is registered under each of its inputs, unless *)
(* it had been decided before: no concurrent batch hides a conflict.       *)
ConflictsComplete ==
  \A v \in vertices \ Faulty : \A t \in TxSet(v) : \A i \in InputsOf[t] :
    t \in conflicts[i] \/ t \in Decided

(* DecideTxs never rejects a transaction: it rejects the conflicts of one  *)
(* it accepts, and accepts it only when these are rejected already.        *)
RejectsNothing == txsRejected = {}

(* However many goroutines call RunConsensus, and however stops and starts *)
(* interleave, at most one is in the loop, and running tells whether one   *)
(* is.                                                                     *)
OneLoop == Cardinality(looping) = (IF running THEN 1 ELSE 0)

(* Every BatchProcessVertices returns, whichever of its vertices another   *)
(* batch has processed, unless a DecideTxs keeps e.lock for ever.          *)
BatchesReturn ==
  \A c \in Callers :
    \/ []<>(queue[c] = <<>> /\ flight[c] = {})
    \/ <>[](decider # None)

(* What the comments of DecideTxs say, "Process vertices in topological    *)
(* order" from the frontier on: while a consensus loop runs, a vertex      *)
(* whose transactions conflict with no other is accepted in the end.       *)
VerticesDecided ==
  \A v \in Vertices :
    (/\ v \in vertices /\ looping # {}
     /\ \A t \in TxSet(v) : \A u \in Txs \ {t} : InputsOf[t] \cap InputsOf[u] = {})
      ~> (v \in vtxAccepted \/ cancelled)
=============================================================================
