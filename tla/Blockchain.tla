----------------------------- MODULE Blockchain -----------------------------
(***************************************************************************)
(* The block DAG of pkg/blockchain: the mempool, the maps of blocks that   *)
(* the Blockchain struct keeps under bc.lock, the HTTP handlers that       *)
(* create and submit blocks in two separate critical sections, and the     *)
(* rounds of ProcessPendingBlocks, whose goroutines accept blocks outside  *)
(* the lock.                                                               *)
(*                                                                         *)
(* A *Block or *Transaction is a record whose field n is its address: two  *)
(* objects that agree on everything else are still different objects.  The *)
(* mutable status field of the objects is kept apart, in blkAccepted and   *)
(* txAccepted.  SHA-256 is modelled by the tuple that is hashed.           *)
(*                                                                         *)
(* X_Name before X is X with a plausible mistake; no specification uses it. *)
(***************************************************************************)
EXTENDS Integers, Sequences, FiniteSets

CONSTANTS
  TxIDs,       \* transaction IDs (one per sender, recipient, amount, nonce)
  ValidTxs,    \* those whose contents pass Transaction.Verify
  Clients,     \* goroutines that run handleCreateBlock (or use the library)
  Loops,       \* goroutines that run RunConsensus / ProcessPendingBlocks
  MaxWorkers,  \* the maxWorkers argument of NewBlockchain
  TxLimits,    \* the maxTxs arguments that callers pass to CreateBlock
  MaxParents,  \* bound: the longest parentIDs argument
  MaxBlocks,   \* bound: how many blocks are created after genesis
  MaxTxs,      \* bound: how many transaction objects are created
  UnknownID,   \* an ID that no block has
  NoBlock, NoLoop

ASSUME ConstantsAssumption ==
  /\ ValidTxs \subseteq TxIDs
  /\ MaxWorkers \in Int
  /\ TxLimits \subseteq Nat
  /\ MaxParents \in Nat
  /\ MaxBlocks \in Nat
  /\ MaxTxs \in Nat
  /\ NoLoop \notin Loops

VARIABLES
  txPool,          \* bc.txPool: transaction ID -> transaction
  blocks,          \* bc.blocks: block ID -> block
  acceptedBlocks,  \* bc.acceptedBlocks
  pendingBlocks,   \* bc.pendingBlocks
  latestBlocks,    \* bc.latestBlocks
  blocksByHeight,  \* bc.blocksByHeight: height -> sequence of blocks
  currentHeight,   \* bc.currentHeight
  lock,            \* the loop that holds bc.lock across steps, or NoLoop
  blkAccepted,     \* the blocks whose status field is Accepted
  txAccepted,      \* the transactions whose status field is Accepted
  held,            \* held[c]: the block c has created and not yet submitted
  job,             \* job[l]: the current round of l, snapshot block -> stage
  submitted,       \* history: the blocks SubmitBlock was called with
  issued,          \* history: the transactions AddTransaction took
  nblocks, ntxs    \* the next addresses

mapVars == <<txPool, blocks, acceptedBlocks, pendingBlocks, latestBlocks,
             blocksByHeight, currentHeight>>
vars == <<txPool, blocks, acceptedBlocks, pendingBlocks, latestBlocks,
          blocksByHeight, currentHeight, lock, blkAccepted, txAccepted,
          held, job, submitted, issued, nblocks, ntxs>>

-----------------------------------------------------------------------------
(* Maps, transactions and blocks *)

EmptyMap == [x \in {} |-> {}]
Put(map, k, v) == [x \in DOMAIN map \cup {k} |-> IF x = k THEN v ELSE map[x]]
Delete(map, ks) == [x \in DOMAIN map \ ks |-> map[x]]
Values(map) == {map[x] : x \in DOMAIN map}

(* NewTransaction: a fresh object in status Processing. *)
NewTransaction(id) == [id |-> id, n |-> ntxs]

(* Transaction.Verify and Block.Verify. *)
VerifyTx(t) == t.id \in ValidTxs
VerifyBlock(b) == \A t \in b.txs : VerifyTx(t)

(* NewBlock: a fresh object in status Processing. *)
NewBlock(parents, txs, height) ==
  [n |-> nblocks, parents |-> parents, height |-> height, txs |-> txs]

(* generateBytes hashes the height, the parent IDs and the NUMBER of       *)
(* transactions: neither their contents nor the timestamp.                 *)
ID(b) == <<b.height, b.parents, Cardinality(b.txs)>>

Parents(b) == {b.parents[i] : i \in DOMAIN b.parents}

(* createGenesisBlock. *)
Genesis == [n |-> 0, parents |-> <<>>, height |-> 0, txs |-> {}]

(* NewBlockchain: the semaphore's capacity. *)
Workers == IF MaxWorkers <= 0 THEN 4 ELSE MaxWorkers

Init ==
  /\ txPool = EmptyMap
  /\ blocks = Put(EmptyMap, ID(Genesis), Genesis)
  /\ acceptedBlocks = Put(EmptyMap, ID(Genesis), Genesis)
  /\ pendingBlocks = EmptyMap
  /\ latestBlocks = Put(EmptyMap, ID(Genesis), Genesis)
  /\ blocksByHeight = Put(EmptyMap, 0, <<Genesis>>)
  /\ currentHeight = 0
  /\ lock = NoLoop
  /\ blkAccepted = {Genesis}
  /\ txAccepted = {}
  /\ held = [c \in Clients |-> NoBlock]
  /\ job = [l \in Loops |-> EmptyMap]
  /\ submitted = {Genesis}
  /\ issued = {}
  /\ nblocks = 1
  /\ ntxs = 0

-----------------------------------------------------------------------------
(* The critical sections of the public methods.  bc.lock is free while one *)
(* runs: only the collecting loop of ProcessPendingBlocks holds it across  *)
(* steps of other goroutines.                                              *)

(* AddTransaction, with a transaction the caller has just made.            *)
AddTransaction(id) ==
  /\ lock = NoLoop
  /\ ntxs < MaxTxs
  /\ VerifyTx(NewTransaction(id))
  /\ id \notin DOMAIN txPool
  /\ txPool' = Put(txPool, id, NewTransaction(id))
  /\ issued' = issued \cup {NewTransaction(id)}
  /\ ntxs' = ntxs + 1
  /\ UNCHANGED <<blocks, acceptedBlocks, pendingBlocks, latestBlocks,
                 blocksByHeight, currentHeight, lock, blkAccepted,
                 txAccepted, held, job, submitted, nblocks>>

(* AddTransaction, with an object that was added before (the load script   *)
(* takes a block's transactions and adds them back to the pool).           *)
ReAddTransaction(t) ==
  /\ lock = NoLoop
  /\ VerifyTx(t)
  /\ t.id \notin DOMAIN txPool
  /\ txPool' = Put(txPool, t.id, t)
  /\ UNCHANGED <<blocks, acceptedBlocks, pendingBlocks, latestBlocks,
                 blocksByHeight, currentHeight, lock, blkAccepted,
                 txAccepted, held, job, submitted, issued, nblocks, ntxs>>

(* The height CreateBlock gives a block: one above currentHeight, unless a *)
(* parent is at least that high, when the LAST such parent decides.        *)
HeightOn(parents) ==
  LET high == {i \in DOMAIN parents : blocks[parents[i]].height >= currentHeight}
      last == CHOOSE i \in high : \A j \in high : j <= i
  IN  IF high = {} THEN currentHeight + 1
                   ELSE blocks[parents[last]].height + 1

(* The transactions CreateBlock may take.  The range over the map picks    *)
(* any of them, and maxTxs is compared after one has been taken.           *)
Selections(maxTxs) ==
  LET pool == Values(txPool)
      want == IF maxTxs = 0 THEN 1 ELSE maxTxs
      size == IF Cardinality(pool) < want THEN Cardinality(pool) ELSE want
  IN  {S \in SUBSET pool : Cardinality(S) = size}

(* The pool once the selected transactions are deleted from it. *)
PoolAfter_Kept(S) == txPool
PoolAfter(S) == Delete(txPool, {t.id : t \in S})

(* The entry of blocksByHeight to which CreateBlock appends. *)
HeightIndex(height) ==
  IF height \in DOMAIN blocksByHeight THEN blocksByHeight[height] ELSE <<>>

(* CreateBlock, called by client c, which keeps the block it returns.      *)
CreateBlock(c, parents, maxTxs) ==
  /\ lock = NoLoop
  /\ held[c] = NoBlock
  /\ nblocks <= MaxBlocks
  /\ \A i \in DOMAIN parents : parents[i] \in DOMAIN blocks
  /\ \E S \in Selections(maxTxs) :
       LET b == NewBlock(parents, S, HeightOn(parents))
       IN  /\ txPool' = PoolAfter(S)
           /\ blocks' = Put(blocks, ID(b), b)
           /\ pendingBlocks' = Put(pendingBlocks, ID(b), b)
           /\ blocksByHeight' =
                Put(blocksByHeight, b.height, Append(HeightIndex(b.height), b))
           /\ held' = [held EXCEPT ![c] = b]
  /\ nblocks' = nblocks + 1
  /\ UNCHANGED <<acceptedBlocks, latestBlocks, currentHeight, lock,
                 blkAccepted, txAccepted, job, submitted, issued, ntxs>>

(* The parts of SubmitBlock: a block whose ID is unknown is stored and     *)
(* becomes pending, it replaces its parents at the edge of the DAG, and    *)
(* the height of the chain is raised to its height.                        *)
StoreUnknown_Always(b) ==
  /\ blocks' = Put(blocks, ID(b), b)
  /\ pendingBlocks' = Put(pendingBlocks, ID(b), b)
StoreUnknown(b) ==
  IF ID(b) \in DOMAIN blocks
  THEN UNCHANGED <<blocks, pendingBlocks>>
  ELSE /\ blocks' = Put(blocks, ID(b), b)
       /\ pendingBlocks' = Put(pendingBlocks, ID(b), b)

LatestAfter(b) == Put(Delete(latestBlocks, Parents(b)), ID(b), b)

RaisedHeight(b) == IF b.height > currentHeight THEN b.height ELSE currentHeight

(* The critical section of SubmitBlock. *)
Submit(b) ==
  /\ lock = NoLoop
  /\ StoreUnknown(b)
  /\ latestBlocks' = LatestAfter(b)
  /\ currentHeight' = RaisedHeight(b)
  /\ submitted' = submitted \cup {b}

(* SubmitBlock, called by client c with the block it created. *)
SubmitBlock(c) ==
  /\ held[c] # NoBlock
  /\ Submit(held[c])
  /\ held' = [held EXCEPT ![c] = NoBlock]
  /\ UNCHANGED <<txPool, acceptedBlocks, blocksByHeight, lock, blkAccepted,
                 txAccepted, job, issued, nblocks, ntxs>>

(* SubmitBlock, called by a library user with a block NewBlock made from   *)
(* whatever parents, height and transactions the user chose.               *)
SubmitForeignBlock(parents, height, ids) ==
  LET b == NewBlock(parents, {NewTransaction(id) : id \in ids}, height)
  IN  /\ nblocks <= MaxBlocks
      /\ ntxs < MaxTxs
      /\ Submit(b)
      /\ nblocks' = nblocks + 1
      /\ ntxs' = ntxs + 1
      /\ UNCHANGED <<txPool, acceptedBlocks, blocksByHeight, lock,
                     blkAccepted, txAccepted, held, job, issued>>

-----------------------------------------------------------------------------
(* ProcessPendingBlocks.  A block of the snapshot goes through the stages  *)
(*   "todo"       not yet given to a goroutine                             *)
(*   "verify"     its goroutine runs Verify and the simulated consensus    *)
(*   "accept"     its goroutine has set the block's status                 *)
(*   "ok", "err"  its result is in the channel                             *)
(*   "done"       its result has been received                             *)

Stages == {"todo", "verify", "accept", "ok", "err", "done"}
At(l, stages) == {b \in DOMAIN job[l] : job[l][b] \in stages}
Advance(l, b, stage) == job' = [job EXCEPT ![l][b] = stage]

(* A tick: the snapshot of the pending blocks, taken under the lock.       *)
Snapshot_HighestOnly ==
  {b \in Values(pendingBlocks) : \A c \in Values(pendingBlocks) : c.height <= b.height}
Snapshot_EdgeOnly ==
  {b \in Values(pendingBlocks) : b \in Values(latestBlocks)}
Snapshot == Values(pendingBlocks)

BeginRound(l) ==
  /\ lock = NoLoop
  /\ job[l] = EmptyMap
  /\ pendingBlocks # EmptyMap
  /\ job' = [job EXCEPT ![l] = [b \in Snapshot |-> "todo"]]
  /\ UNCHANGED <<mapVars, lock, blkAccepted, txAccepted, held, submitted,
                 issued, nblocks, ntxs>>

(* A tick that finds no pending block takes and releases the lock twice.   *)
IdleTick(l) ==
  /\ lock = NoLoop
  /\ job[l] = EmptyMap
  /\ pendingBlocks = EmptyMap
  /\ UNCHANGED vars

(* The semaphore is a channel whose capacity is the number of workers.     *)
SemaphoreFree(l) == Cardinality(At(l, {"verify", "accept"})) < Workers

(* The loop acquires the semaphore and starts the goroutine of b.          *)
Spawn(l, b) ==
  /\ b \in At(l, {"todo"})
  /\ SemaphoreFree(l)
  /\ Advance(l, b, "verify")
  /\ UNCHANGED <<mapVars, lock, blkAccepted, txAccepted, held, submitted,
                 issued, nblocks, ntxs>>

(* Sending a result needs room in the channel, which is made with the size *)
(* of the snapshot; the goroutine then releases the semaphore.             *)
ResultsCapacity(l) == Cardinality(DOMAIN job[l])
SendResult(l, b, result) ==
  /\ Cardinality(At(l, {"ok", "err"})) < ResultsCapacity(l)
  /\ Advance(l, b, result)

(* Verify fails. *)
VerifyFails(l, b) ==
  /\ b \in At(l, {"verify"})
  /\ ~VerifyBlock(b)
  /\ SendResult(l, b, "err")
  /\ UNCHANGED <<mapVars, lock, blkAccepted, txAccepted, held, submitted,
                 issued, nblocks, ntxs>>

(* Block.Accept writes the status of the block, with no lock held...       *)
AcceptBlock(l, b) ==
  /\ b \in At(l, {"verify"})
  /\ VerifyBlock(b)
  /\ blkAccepted' = blkAccepted \cup {b}
  /\ Advance(l, b, "accept")
  /\ UNCHANGED <<mapVars, lock, txAccepted, held, submitted, issued,
                 nblocks, ntxs>>

(* ... then of its transactions, one by one...                             *)
AcceptTx(l, b, t) ==
  /\ b \in At(l, {"accept"})
  /\ t \in b.txs \ txAccepted
  /\ txAccepted' = txAccepted \cup {t}
  /\ UNCHANGED <<mapVars, lock, blkAccepted, held, job, submitted, issued,
                 nblocks, ntxs>>

(* ... and the goroutine sends the result.                                 *)
TxsAccepted(b) == b.txs \subseteq txAccepted

AcceptDone(l, b) ==
  /\ b \in At(l, {"accept"})
  /\ TxsAccepted(b)
  /\ SendResult(l, b, "ok")
  /\ UNCHANGED <<mapVars, lock, blkAccepted, txAccepted, held, submitted,
                 issued, nblocks, ntxs>>

(* Once every goroutine is started the loop takes the lock, and keeps it   *)
(* until the channel is closed.                                            *)
BeginCollect(l) ==
  /\ lock = NoLoop
  /\ job[l] # EmptyMap
  /\ At(l, {"todo"}) = {}
  /\ lock' = l
  /\ UNCHANGED <<mapVars, blkAccepted, txAccepted, held, job, submitted,
                 issued, nblocks, ntxs>>

(* A result that is an error: the block stays pending.                     *)
CollectError_Retry(l, b) ==
  /\ lock = l
  /\ b \in At(l, {"err"})
  /\ Advance(l, b, "verify")
  /\ UNCHANGED <<mapVars, lock, blkAccepted, txAccepted, held, submitted,
                 issued, nblocks, ntxs>>
CollectError(l, b) ==
  /\ lock = l
  /\ b \in At(l, {"err"})
  /\ Advance(l, b, "done")
  /\ UNCHANGED <<mapVars, lock, blkAccepted, txAccepted, held, submitted,
                 issued, nblocks, ntxs>>

(* A result without error: the maps are updated through the ID of the      *)
(* block, which is looked up in bc.blocks now.                             *)
MarkAccepted_SkipReplaced(b) ==
  /\ acceptedBlocks' = IF blocks[ID(b)] = b THEN Put(acceptedBlocks, ID(b), b)
                                            ELSE acceptedBlocks
  /\ pendingBlocks' = Delete(pendingBlocks, {ID(b)})
MarkAccepted(b) ==
  /\ acceptedBlocks' = Put(acceptedBlocks, ID(b), blocks[ID(b)])
  /\ pendingBlocks' = Delete(pendingBlocks, {ID(b)})

CollectAccepted(l, b) ==
  /\ lock = l
  /\ b \in At(l, {"ok"})
  /\ MarkAccepted(b)
  /\ Advance(l, b, "done")
  /\ UNCHANGED <<txPool, blocks, latestBlocks, blocksByHeight, currentHeight,
                 lock, blkAccepted, txAccepted, held, submitted, issued,
                 nblocks, ntxs>>

(* The channel is closed and empty: the round returns, releasing the lock. *)
EndRound(l) ==
  /\ lock = l
  /\ At(l, {"done"}) = DOMAIN job[l]
  /\ job' = [job EXCEPT ![l] = EmptyMap]
  /\ lock' = NoLoop
  /\ UNCHANGED <<mapVars, blkAccepted, txAccepted, held, submitted, issued,
                 nblocks, ntxs>>

Round(l) ==
  \/ BeginRound(l)
  \/ IdleTick(l)
  \/ BeginCollect(l)
  \/ EndRound(l)
  \/ \E b \in DOMAIN job[l] :
       \/ Spawn(l, b)
       \/ VerifyFails(l, b)
       \/ AcceptBlock(l, b)
       \/ \E t \in b.txs : AcceptTx(l, b, t)
       \/ AcceptDone(l, b)
       \/ CollectError(l, b)
       \/ CollectAccepted(l, b)

-----------------------------------------------------------------------------
ParentLists(known) == UNION {[1..k -> known] : k \in 0..MaxParents}
SubmittedIDs == {ID(b) : b \in submitted}

(* The node: clients submit transactions, and ask for blocks on parents    *)
(* whose IDs a response or /blockchain/latest has shown them.              *)
Next ==
  \/ \E id \in TxIDs : AddTransaction(id)
  \/ \E c \in Clients :
       \/ \E ps \in ParentLists(SubmittedIDs), k \in TxLimits : CreateBlock(c, ps, k)
       \/ SubmitBlock(c)
  \/ \E l \in Loops : Round(l)

Spec == Init /\ [][Next]_vars

(* The library: callers also build on blocks that are not submitted yet,   *)
(* add a transaction again, and submit blocks of their own making.         *)
LibNext ==
  \/ \E id \in TxIDs : AddTransaction(id)
  \/ \E t \in issued : ReAddTransaction(t)
  \/ \E c \in Clients :
       \/ \E ps \in ParentLists(DOMAIN blocks), k \in TxLimits : CreateBlock(c, ps, k)
       \/ SubmitBlock(c)
  \/ \E ps \in ParentLists(DOMAIN blocks \cup {UnknownID}), h \in 0..MaxBlocks, ids \in SUBSET TxIDs :
       SubmitForeignBlock(ps, h, ids)
  \/ \E l \in Loops : Round(l)

LibSpec == Init /\ [][LibNext]_vars

(* The ticker keeps firing, goroutines run, and the loop is not starved of *)
(* bc.lock: a Go mutex hands itself over to a waiter after a millisecond.  *)
(* A handler that has created its block goes on to submit it.  Nothing is  *)
(* assumed of the clients.                                                 *)
Fairness ==
  /\ \A l \in Loops :
       /\ SF_vars(BeginRound(l))
       /\ SF_vars(BeginCollect(l))
       /\ WF_vars(EndRound(l))
       /\ WF_vars(\E b \in DOMAIN job[l] :
                     \/ Spawn(l, b) \/ VerifyFails(l, b) \/ AcceptBlock(l, b)
                     \/ (\E t \in b.txs : AcceptTx(l, b, t))
                     \/ AcceptDone(l, b)
                     \/ CollectError(l, b) \/ CollectAccepted(l, b))
  /\ \A c \in Clients : SF_vars(SubmitBlock(c))

FairSpec == Spec /\ Fairness
FairLibSpec == LibSpec /\ Fairness

-----------------------------------------------------------------------------
(* Properties *)

IsTx(t) == t = [id |-> t.id, n |-> t.n] /\ t.id \in TxIDs /\ t.n \in Nat

IsBlock(b) ==
  /\ b = [n |-> b.n, parents |-> b.parents, height |-> b.height, txs |-> b.txs]
  /\ b.n \in Nat
  /\ b.height \in Nat
  /\ DOMAIN b.parents = 1..Len(b.parents)
  /\ \A t \in b.txs : IsTx(t)

IsBlockMap(map) == \A id \in DOMAIN map : IsBlock(map[id]) /\ ID(map[id]) = id

(* The blocks CreateBlock (and NewBlockchain) have made so far. *)
CreatedBlocks ==
  UNION {{blocksByHeight[h][i] : i \in DOMAIN blocksByHeight[h]} : h \in DOMAIN blocksByHeight}

HeightIndexOK ==
  \A h \in DOMAIN blocksByHeight :
    /\ h \in Nat
    /\ blocksByHeight[h] \in Seq(CreatedBlocks)
    /\ \A i \in DOMAIN blocksByHeight[h] :
         IsBlock(blocksByHeight[h][i]) /\ blocksByHeight[h][i].height = h

(* Every map of the Blockchain struct is keyed by the IDs of the objects   *)
(* it holds, and the other fields have their types.                        *)
TypeOK ==
  /\ \A id \in DOMAIN txPool : IsTx(txPool[id]) /\ txPool[id].id = id
  /\ IsBlockMap(blocks)
  /\ IsBlockMap(acceptedBlocks)
  /\ IsBlockMap(pendingBlocks)
  /\ IsBlockMap(latestBlocks)
  /\ HeightIndexOK
  /\ currentHeight \in Nat
  /\ lock \in Loops \cup {NoLoop}
  /\ \A b \in blkAccepted \cup submitted : IsBlock(b)
  /\ \A t \in txAccepted \cup issued : IsTx(t)
  /\ DOMAIN held = Clients
  /\ \A c \in Clients : held[c] # NoBlock => IsBlock(held[c])
  /\ DOMAIN job = Loops
  /\ \A l \in Loops : \A b \in DOMAIN job[l] : IsBlock(b) /\ job[l][b] \in Stages
  /\ nblocks \in Nat /\ ntxs \in Nat

(* GetTransaction: the pool first, then any block of bc.blocks that has it. *)
GetTransaction(id) ==
  IF id \in DOMAIN txPool THEN {txPool[id]}
  ELSE {t \in UNION {b.txs : b \in Values(blocks)} : t.id = id}

(* No block falls between the maps: CreateBlock, SubmitBlock and           *)
(* ProcessPendingBlocks together keep every block of bc.blocks pending or  *)
(* accepted, and never invent an entry of either.                          *)
PendingOrAccepted ==
  DOMAIN blocks = DOMAIN pendingBlocks \cup DOMAIN acceptedBlocks

(* In the node the height CreateBlock computes from the stale-prone        *)
(* currentHeight is above the heights of all the parents.                  *)
HeightAboveParents ==
  \A id \in DOMAIN blocks : \A p \in Parents(blocks[id]) :
    p \in DOMAIN blocks /\ blocks[p].height < blocks[id].height

(* Whenever the lock is free, the parents of an accepted block are         *)
(* accepted: overlapping rounds and late results never leave acceptedBlocks *)
(* with a hole.                                                            *)
AcceptedAncestorClosed ==
  lock = NoLoop =>
    \A id \in DOMAIN acceptedBlocks :
      Parents(acceptedBlocks[id]) \subseteq DOMAIN acceptedBlocks

(* SubmitBlock never loses a branch: a submitted block is in latestBlocks  *)
(* or has a submitted child.                                               *)
EdgeCoversSubmitted ==
  \A b \in submitted :
    ID(b) \in DOMAIN latestBlocks \/ \E c \in submitted : ID(b) \in Parents(c)

(* Submissions may arrive in any order: currentHeight is the height of the *)
(* highest block submitted so far.                                         *)
HeightIsMaxSubmitted ==
  /\ \E b \in submitted : b.height = currentHeight
  /\ \A b \in submitted : b.height <= currentHeight

(* CreateBlock takes a transaction object out of the pool exactly once: it *)
(* is in the pool or in one block that CreateBlock has made, never in both *)
(* and never in two, however many handlers create blocks at once.          *)
TxInOnePlace ==
  \A t \in issued :
    IF t \in Values(txPool) THEN \A b \in CreatedBlocks : t \notin b.txs
    ELSE \E b \in CreatedBlocks :
           t \in b.txs /\ \A c \in CreatedBlocks : t \in c.txs => c = b

(* ProcessPendingBlocks reads bc.blocks again after it has unlocked: what  *)
(* it then records as accepted still passes Verify, even when the ID was   *)
(* given to another block meanwhile.                                       *)
AcceptedAreValid ==
  \A id \in DOMAIN acceptedBlocks : VerifyBlock(acceptedBlocks[id])

(* GetTransaction finds every transaction that AddTransaction took.        *)
TransactionsNeverLost ==
  \A t \in issued : GetTransaction(t.id) # {}

(* Every block CreateBlock has made is in the end accepted, under its ID.  *)
CreatedEventuallyAccepted ==
  \A n \in 1..MaxBlocks :
    (\E b \in CreatedBlocks : b.n = n) ~>
      (\E b \in CreatedBlocks : b.n = n /\ ID(b) \in DOMAIN acceptedBlocks \ DOMAIN pendingBlocks)

(* Every round ends, and bc.lock is given back.                            *)
RoundsEnd == \A l \in Loops : (job[l] # EmptyMap) ~> (job[l] = EmptyMap)

-----------------------------------------------------------------------------
(* The node implements the ledger: a round commits its whole snapshot when *)
(* its loop takes the lock for the results.                                *)

IDParents(id) == {id[2][i] : i \in DOMAIN id[2]}
CommittedIDs ==
  DOMAIN acceptedBlocks \cup
    (IF lock = NoLoop THEN {} ELSE {ID(b) : b \in DOMAIN job[lock]})

L == INSTANCE Ledger WITH Root <- ID(Genesis), ParentsOf <- IDParents,
                          known <- DOMAIN blocks, accepted <- CommittedIDs

(* Every behaviour of the node is one of the ledger.                       *)
RefinesLedger == L!Spec
=============================================================================
