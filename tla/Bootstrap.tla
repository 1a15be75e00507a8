----------------------------- MODULE Bootstrap -----------------------------
(***************************************************************************)
(* Bootstrapping a snowman chain (snow/engine/snowman/bootstrap): blocks   *)
(* are fetched from the accepted frontier down to the last accepted block, *)
(* kept in a database with an interval tree of their heights, and executed *)
(* from the lowest up.  The node may stop at any time and starts again     *)
(* from the database.                                                      *)
(*                                                                         *)
(* The frontier is of blocks the network accepted: they are on one chain   *)
(* and a block is its height.                                              *)
(***************************************************************************)
EXTENDS Integers, FiniteSets, FiniteSetsExt, Sequences, SequencesExt

CONSTANTS
  MaxHeight,         \* bound: the blocks of the network
  MaxAncestors,      \* bound: the blocks of one Ancestors message
  BatchWritePeriod,
  MaxStops           \* bound: how often the node stops

Heights == 1..MaxHeight

VARIABLES
  lastAcceptedHeight, \* of the VM, on disk
  db,                 \* on disk: [intervals, blocks]
  tree,               \* [intervals, numKnownHeights]
  missing,            \* missingBlockIDs
  requested,          \* the blocks of outstandingRequests
  phase,              \* where the bootstrapper is
  batch,              \* the database with execute's batch written
  unwritten,          \* processedSinceBatchWrite
  height,             \* the block that execute is at
  startHeight,        \* the last accepted height that execute was called with
  numToExecute, previouslyExecuted,
  tip,                \* the height of the network
  isBootstrapped,     \* the other chains of the subnet are
  stops

bsVars == <<lastAcceptedHeight, db, tree, missing, requested, phase, batch, unwritten,
            height, startHeight, numToExecute, previouslyExecuted, tip, isBootstrapped, stops>>

Interval(lower, upper) == [lower |-> lower, upper |-> upper]
Holds(i, h) == i.lower <= h /\ h <= i.upper
Covered(intervals) == UNION {i.lower..i.upper : i \in intervals}

(* Intervals are sorted by, and stored under, their upper bound.           *)
PutInterval(intervals, upper, lower) ==
  {i \in intervals : i.upper # upper} \cup {Interval(lower, upper)}

DeleteInterval_Kept(intervals, upper) == intervals

DeleteInterval(intervals, upper) == {i \in intervals : i.upper # upper}

AscendGreaterOrEqual(intervals, h) ==
  {i \in intervals : i.upper >= h /\ \A j \in intervals : j.upper >= h => i.upper <= j.upper}
DescendLessOrEqual(intervals, h) ==
  {i \in intervals : i.upper <= h /\ \A j \in intervals : j.upper <= h => j.upper <= i.upper}

TreeContains(t, h) == \E i \in AscendGreaterOrEqual(t.intervals, h) : Holds(i, h)

(* A state of the tree and of the database that it writes to.              *)
Stores(t, d) == [tree |-> t, db |-> d]

(* interval.Add of a height that is not known. *)
AddHeight(s, h) ==
  LET t == s.tree.intervals
      above == {i \in AscendGreaterOrEqual(t, h) : i.lower = h + 1}
      below == {i \in DescendLessOrEqual(t, h) : i.upper + 1 = h}
      lower == Min({h} \cup {i.lower : i \in below})
      upper == Max({h} \cup {i.upper : i \in above})
      stored == IF below = {} THEN s.db.intervals ELSE DeleteInterval(s.db.intervals, h - 1)
  IN  Stores([intervals |-> (t \ (above \cup below)) \cup {Interval(lower, upper)},
              numKnownHeights |-> s.tree.numKnownHeights + 1],
             [intervals |-> PutInterval(stored, upper, lower),
              blocks |-> s.db.blocks \cup {h}])

(* interval.Remove. *)
RemoveHeight(s, h) ==
  LET t == s.tree.intervals
      found == {i \in AscendGreaterOrEqual(t, h) : Holds(i, h)}
      i == CHOOSE j \in found : TRUE
      below == IF i.lower < h THEN {Interval(i.lower, h - 1)} ELSE {}
      above == IF h < i.upper THEN {Interval(h + 1, i.upper)} ELSE {}
      stored == IF h = i.upper THEN DeleteInterval(s.db.intervals, h)
                ELSE PutInterval(s.db.intervals, i.upper, h + 1)
  IN  IF found = {}
      THEN [s EXCEPT !.db.blocks = @ \ {h}]
      ELSE Stores([intervals |-> (t \ {i}) \cup below \cup above,
                   numKnownHeights |-> s.tree.numKnownHeights - 1],
                  [intervals |-> IF below = {} THEN stored ELSE PutInterval(stored, h - 1, i.lower),
                   blocks |-> s.db.blocks \ {h}])

(* NewTree, and getMissingBlockIDs: the parents of intervals that hang in  *)
(* the air.                                                                *)
LoadTree(d) == [intervals |-> d.intervals, numKnownHeights |-> Cardinality(Covered(d.intervals))]

MissingBlockIDs_OffByOne(d) ==
  {i.lower - 1 : i \in {j \in d.intervals : j.lower > lastAcceptedHeight + 2}}

MissingBlockIDs(d) == {i.lower - 1 : i \in {j \in d.intervals : j.lower > lastAcceptedHeight + 1}}

EmptyStore == [intervals |-> {}, blocks |-> {}]

-----------------------------------------------------------------------------
BsInit ==
  /\ lastAcceptedHeight = 0
  /\ db = EmptyStore /\ tree = LoadTree(EmptyStore)
  /\ missing = {} /\ requested = {}
  /\ phase = "polling"
  /\ batch = EmptyStore /\ unwritten = 0 /\ height = 0 /\ startHeight = 0
  /\ numToExecute = 0 /\ previouslyExecuted = 2 * MaxHeight + 2
  /\ tip \in Heights /\ isBootstrapped \in BOOLEAN
  /\ stops = 0

(* fetch: one request for a block at a time. *)
Fetch_OneAtATime(requests, ids) == IF requests = {} THEN ids ELSE requests

Fetch(requests, ids) == requests \cup ids

(* process, for a block and the n - 1 blocks before it: down to one that   *)
(* is known or accepted, or was not sent.                                  *)
Process(h, n) ==
  LET known == {k \in 0..h : k <= lastAcceptedHeight \/ TreeContains(tree, k)}
      lowest == Max({Max(known) + 1, h - n + 1})
      after == FoldLeft(AddHeight, Stores(tree, db), [k \in 1..(h - lowest + 1) |-> h + 1 - k])
      wanted == {lowest - 1} \ known
  IN  IF h \in known
      THEN missing' = missing \ {h} /\ requested' = requested \ {h} /\ UNCHANGED <<tree, db>>
      ELSE /\ tree' = after.tree /\ db' = after.db
           /\ missing' = (missing \ (lowest..h)) \cup wanted
           /\ requested' = Fetch(requested \ {h}, wanted)

(* tryStartExecuting, up to the call of execute. *)
TryStartExecuting ==
  IF missing' = {} /\ phase # "waiting"
  THEN /\ phase' = "removing"
       /\ numToExecute' = tree'.numKnownHeights
       /\ batch' = db' /\ unwritten' = 0 /\ height' = 0
       /\ startHeight' = lastAcceptedHeight
  ELSE /\ phase' = IF phase = "polling" THEN "syncing" ELSE phase
       /\ UNCHANGED <<numToExecute, batch, unwritten, height, startHeight>>

(* startSyncing, when a majority has accepted h: what the VM accepted is   *)
(* dropped from missing, the rest is requested.                            *)
StartSyncing ==
  /\ phase = "polling"
  /\ \E h \in 0..tip : missing' = {k \in missing \cup {h} : k > lastAcceptedHeight}
  /\ requested' = Fetch(requested, missing')
  /\ UNCHANGED <<tree, db>>
  /\ TryStartExecuting
  /\ UNCHANGED <<lastAcceptedHeight, previouslyExecuted, tip, isBootstrapped, stops>>

(* Ancestors that answer a request.  One that is empty, cannot be parsed   *)
(* or has another block first, like GetAncestorsFailed, only makes a new   *)
(* request for the same block.                                             *)
Ancestors(h) ==
  /\ phase \in {"syncing", "waiting"} /\ h \in requested
  /\ \E n \in 1..MaxAncestors : n <= h /\ Process(h, n)
  /\ TryStartExecuting
  /\ UNCHANGED <<lastAcceptedHeight, previouslyExecuted, tip, isBootstrapped, stops>>

-----------------------------------------------------------------------------
(* execute: one turn of the loop takes a block out of the tree, may write  *)
(* the batch, and then verifies and accepts the block.                     *)
RemoveNext ==
  LET left == {k \in db.blocks : k > height}
      s == RemoveHeight(Stores(tree, batch), Min(left))
  IN
  /\ phase = "removing" /\ left # {}
  /\ height' = Min(left)
  /\ tree' = s.tree /\ batch' = s.db
  /\ IF unwritten + 1 >= BatchWritePeriod
     THEN db' = s.db /\ unwritten' = 0
     ELSE unwritten' = unwritten + 1 /\ UNCHANGED db
  /\ phase' = IF height' <= startHeight THEN phase ELSE "accepting"
  /\ UNCHANGED <<lastAcceptedHeight, missing, requested, startHeight, numToExecute,
                 previouslyExecuted, tip, isBootstrapped, stops>>

AcceptNext ==
  /\ phase = "accepting"
  /\ lastAcceptedHeight' = height
  /\ phase' = "removing"
  /\ UNCHANGED <<db, tree, missing, requested, batch, unwritten, height, startHeight,
                 numToExecute, previouslyExecuted, tip, isBootstrapped, stops>>

(* The end of execute and of tryStartExecuting: once more, done, or done   *)
(* and waiting for the other chains.                                       *)
Executed ==
  /\ phase = "removing" /\ \A k \in db.blocks : k <= height
  /\ db' = batch /\ unwritten' = 0
  /\ previouslyExecuted' = numToExecute
  /\ IF numToExecute > 0 /\ numToExecute < previouslyExecuted \div 2
     THEN phase' = "polling" /\ requested' = {}
     ELSE phase' = (IF isBootstrapped THEN "done" ELSE "waiting") /\ UNCHANGED requested
  /\ UNCHANGED <<lastAcceptedHeight, tree, missing, batch, height, startHeight, numToExecute,
                 tip, isBootstrapped, stops>>

Timeout ==
  /\ phase = "waiting"
  /\ IF isBootstrapped THEN phase' = "done" /\ UNCHANGED requested
     ELSE phase' = "polling" /\ requested' = {}
  /\ UNCHANGED <<lastAcceptedHeight, db, tree, missing, batch, unwritten, height, startHeight,
                 numToExecute, previouslyExecuted, tip, isBootstrapped, stops>>

-----------------------------------------------------------------------------
(* The node stops: at once, on an error of the VM say, or by Halted, which *)
(* lets execute write its batch.  Start reads the database.                *)
Stop ==
  /\ stops < MaxStops
  /\ phase \notin {"stopped", "done"}
  /\ stops' = stops + 1
  /\ phase' = "stopped"
  /\ \/ UNCHANGED db
     \/ phase = "removing" /\ db' = batch
  /\ UNCHANGED <<lastAcceptedHeight, tree, missing, requested, batch, unwritten, height,
                 startHeight, numToExecute, previouslyExecuted, tip, isBootstrapped>>

Start ==
  /\ phase = "stopped"
  /\ phase' = "polling"
  /\ tree' = LoadTree(db)
  /\ missing' = MissingBlockIDs(db)
  /\ requested' = {}
  /\ previouslyExecuted' = 2 * MaxHeight + 2
  /\ UNCHANGED <<lastAcceptedHeight, db, batch, unwritten, height, startHeight, numToExecute,
                 tip, isBootstrapped, stops>>

Network ==
  \/ tip < MaxHeight /\ tip' = tip + 1 /\ UNCHANGED isBootstrapped
  \/ ~isBootstrapped /\ isBootstrapped' = TRUE /\ UNCHANGED tip

NetworkStep ==
  /\ Network
  /\ UNCHANGED <<lastAcceptedHeight, db, tree, missing, requested, phase, batch, unwritten,
                 height, startHeight, numToExecute, previouslyExecuted, stops>>

Own == StartSyncing \/ RemoveNext \/ AcceptNext \/ Executed \/ Timeout \/ Start
Answered == \E h \in Heights : Ancestors(h)

BsNext == Own \/ Answered \/ Stop \/ NetworkStep

(* The bootstrapper runs, requests are answered in the end, and the other  *)
(* chains of the subnet come to an end.                                    *)
BsFairness == WF_bsVars(Own) /\ WF_bsVars(Answered) /\ WF_bsVars(NetworkStep)

BsSpec == BsInit /\ [][BsNext]_bsVars /\ BsFairness

-----------------------------------------------------------------------------
(* The interval tree and the database agree on what was fetched, however   *)
(* heights came in and went: the stored intervals are the maximal runs of  *)
(* the stored blocks, also when the node is stopped between two batches.   *)
Runs(d) ==
  /\ Covered(d.intervals) = d.blocks
  /\ \A i, j \in d.intervals : i # j => i.upper + 1 < j.lower \/ j.upper + 1 < i.lower

IntervalsMatch ==
  /\ Runs(db) /\ Runs(batch)
  /\ phase # "stopped" =>
       tree = LoadTree(IF phase \in {"removing", "accepting"} THEN batch ELSE db)

(* execute: "execute assumes that getMissingBlockIDs would return an empty *)
(* set".  Blocks are accepted in the order of their heights, none is       *)
(* skipped and none is accepted twice, across restarts.                    *)
AcceptsInOrder == [][lastAcceptedHeight' \in {lastAcceptedHeight, lastAcceptedHeight + 1}]_bsVars

(* Bootstrapping ends, and has executed all that it fetched, although the  *)
(* network goes on and the node stops a few times.                         *)
BootstrapEnds == <>(phase = "done" /\ missing = {} /\ db.blocks = {})
=============================================================================
