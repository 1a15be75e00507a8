-------------------------- MODULE BlockchainProofs --------------------------
(***************************************************************************)
(* Proofs about the block DAG, for any number of clients, consensus loops, *)
(* workers, blocks and transactions.                                       *)
(*                                                                         *)
(* LibInv is inductive for the library's next-state relation, NodeInv adds *)
(* what holds when only the node's handlers create blocks.                 *)
(***************************************************************************)
EXTENDS Blockchain, WellFoundedInduction, TLAPS

-----------------------------------------------------------------------------
(* The inductive invariant of the library *)

(* A pending block is the block stored under its ID: CreateBlock writes    *)
(* both maps, SubmitBlock writes both or neither.                          *)
PendingStored ==
  \A id \in DOMAIN pendingBlocks :
    id \in DOMAIN blocks /\ pendingBlocks[id] = blocks[id]

(* Every block that some goroutine still holds has its ID in bc.blocks.    *)
Stored ==
  /\ \A b \in submitted : ID(b) \in DOMAIN blocks
  /\ \A c \in Clients : held[c] # NoBlock => ID(held[c]) \in DOMAIN blocks
  /\ \A l \in Loops : \A b \in DOMAIN job[l] : ID(b) \in DOMAIN blocks

PoolValid == \A id \in DOMAIN txPool : VerifyTx(txPool[id])

(* The block stored under the ID of a block of a round is that block, or   *)
(* one that CreateBlock made from the pool meanwhile.                      *)
RoundValid ==
  \A l \in Loops : \A b \in DOMAIN job[l] :
    /\ blocks[ID(b)] = b \/ VerifyBlock(blocks[ID(b)])
    /\ job[l][b] \in {"accept", "ok"} => VerifyBlock(b)

LibInv ==
  /\ TypeOK
  /\ PendingOrAccepted
  /\ PendingStored
  /\ Stored
  /\ PoolValid
  /\ RoundValid
  /\ AcceptedAreValid

-----------------------------------------------------------------------------
(* Numbers and lists *)

(* A nonempty set of naturals has a least element. *)
LEMMA MinExists ==
  ASSUME NEW T \in SUBSET Nat, T # {}
  PROVE  \E i \in T : \A j \in T : i <= j
<1>1. PICK x \in T : \A y \in T : ~(<<y, x>> \in OpToRel(<, Nat))
  BY Zenon, NatLessThanWellFounded, WFMin
<1>2. ASSUME NEW y \in T PROVE x <= y
  <2>1. ~(<<y, x>> \in OpToRel(<, Nat))
    BY Zenon, <1>1
  <2>2. ~(y < x)
    BY <2>1 DEF OpToRel
  <2> QED BY <2>2
<1> QED BY <1>2

(* A nonempty set of positions of a list has a last one. *)
LEMMA MaxExists ==
  ASSUME NEW k \in Nat, NEW H \in SUBSET (1..k), H # {}
  PROVE  \E i \in H : \A j \in H : j <= i
<1> DEFINE T == {k - i : i \in H}
<1>1. T \in SUBSET Nat /\ T # {}
  <2>1. ASSUME NEW i \in H PROVE k - i \in Nat
    OBVIOUS
  <2>2. PICK i \in H : TRUE
    BY Zenon
  <2>3. k - i \in T
    OBVIOUS
  <2> QED BY <2>1, <2>3
<1> HIDE DEF T
<1>2. PICK m \in T : \A n \in T : m <= n
  BY <1>1, MinExists
<1>3. PICK i \in H : m = k - i
  BY <1>2 DEF T
<1>4. ASSUME NEW j \in H PROVE j <= i
  <2>1. k - j \in T
    BY DEF T
  <2>2. m <= k - j
    BY <2>1, <1>2
  <2> QED BY <2>2, <1>3
<1> QED BY <1>4

(* The lists of parents that the callers pass. *)
LEMMA ParentListDomain ==
  ASSUME NEW known, NEW ps \in ParentLists(known)
  PROVE  /\ DOMAIN ps = 1..Len(ps)
         /\ Len(ps) \in Nat
         /\ \A i \in DOMAIN ps : ps[i] \in known
<1>1. PICK k \in 0..MaxParents : ps \in [1..k -> known]
  BY DEF ParentLists
<1>2. k \in Nat
  BY <1>1, ConstantsAssumption
<1>3. ps \in Seq(known)
  BY <1>1, <1>2
<1> QED BY <1>1, <1>3

(* The height CreateBlock computes is that of currentHeight or of a parent, *)
(* plus one.                                                                *)
LEMMA HeightOnValue ==
  ASSUME TypeOK, NEW ps \in ParentLists(DOMAIN blocks)
  PROVE  \/ /\ HeightOn(ps) = currentHeight + 1
            /\ \A i \in DOMAIN ps : ~(blocks[ps[i]].height >= currentHeight)
         \/ \E i \in DOMAIN ps :
              /\ blocks[ps[i]].height >= currentHeight
              /\ HeightOn(ps) = blocks[ps[i]].height + 1
<1> DEFINE high == {i \in DOMAIN ps : blocks[ps[i]].height >= currentHeight}
           last == CHOOSE i \in high : \A j \in high : j <= i
<1>1. CASE high = {}
  BY <1>1 DEF HeightOn
<1>2. CASE high # {}
  <2>1. \E i \in high : \A j \in high : j <= i
    <3>1. high \in SUBSET (1..Len(ps)) /\ Len(ps) \in Nat
      BY ParentListDomain
    <3> HIDE DEF high
    <3> QED BY Zenon, <3>1, <1>2, MaxExists
  <2>2. last \in high
    <3> HIDE DEF high
    <3> QED BY <2>1
  <2>3. HeightOn(ps) = blocks[ps[last]].height + 1
    BY <1>2 DEF HeightOn
  <2> HIDE DEF last
  <2> QED BY <2>2, <2>3
<1> QED BY <1>1, <1>2

(* CreateBlock computes a natural number for the height. *)
LEMMA HeightOnNat ==
  ASSUME TypeOK, NEW ps \in ParentLists(DOMAIN blocks)
  PROVE  HeightOn(ps) \in Nat
<1>1. currentHeight \in Nat
  BY DEF TypeOK
<1>2. ASSUME NEW i \in DOMAIN ps PROVE blocks[ps[i]].height \in Nat
  <2>1. ps[i] \in DOMAIN blocks
    BY ParentListDomain
  <2> QED BY <2>1 DEF TypeOK, IsBlockMap, IsBlock
<1> QED BY <1>1, <1>2, HeightOnValue

-----------------------------------------------------------------------------
(* Maps of blocks *)

(* A map keyed by the IDs of its blocks stays one. *)
LEMMA PutBlock ==
  ASSUME NEW map, IsBlockMap(map), NEW b, IsBlock(b)
  PROVE  IsBlockMap(Put(map, ID(b), b))
BY DEF IsBlockMap, Put

(* Deleting IDs from a map of blocks leaves a map of blocks. *)
LEMMA DeleteBlock ==
  ASSUME NEW map, IsBlockMap(map), NEW ks
  PROVE  IsBlockMap(Delete(map, ks))
BY DEF IsBlockMap, Delete

(* Only CreateBlock writes blocksByHeight. *)
LEMMA SameIndex ==
  ASSUME HeightIndexOK, blocksByHeight' = blocksByHeight
  PROVE  HeightIndexOK'
BY DEF HeightIndexOK, CreatedBlocks

-----------------------------------------------------------------------------
(* The steps of the library preserve LibInv *)

(* NewBlockchain establishes the invariant. *)
LEMMA LibInit == Init => LibInv
<1> SUFFICES ASSUME Init PROVE LibInv
  OBVIOUS
<1>1. IsBlock(Genesis) /\ VerifyBlock(Genesis)
  BY DEF IsBlock, Genesis, VerifyBlock
<1>2. DOMAIN EmptyMap = {}
  BY DEF EmptyMap
<1>3. IsBlockMap(EmptyMap)
  BY <1>2 DEF IsBlockMap
<1>4. IsBlockMap(Put(EmptyMap, ID(Genesis), Genesis))
  BY <1>1, <1>3, PutBlock
<1>5. /\ DOMAIN Put(EmptyMap, ID(Genesis), Genesis) = {ID(Genesis)}
      /\ Put(EmptyMap, ID(Genesis), Genesis)[ID(Genesis)] = Genesis
  BY <1>2 DEF Put
<1>6. TypeOK
  <2>1. /\ DOMAIN blocksByHeight = {0}
        /\ blocksByHeight[0] = <<Genesis>>
    BY <1>2 DEF Init, Put
  <2>2. Genesis.height = 0
    BY DEF Genesis
  <2>3. \A h \in DOMAIN blocksByHeight :
          /\ h \in Nat
          /\ \A i \in DOMAIN blocksByHeight[h] :
               IsBlock(blocksByHeight[h][i]) /\ blocksByHeight[h][i].height = h
    BY <2>1, <2>2, <1>1
  <2>4. Genesis \in CreatedBlocks
    BY <2>1 DEF CreatedBlocks
  <2>5. \A h \in DOMAIN blocksByHeight : blocksByHeight[h] \in Seq(CreatedBlocks)
    BY <2>1, <2>4
  <2>6. HeightIndexOK
    BY <2>3, <2>5 DEF HeightIndexOK
  <2> QED BY <1>1, <1>2, <1>3, <1>4, <2>6 DEF Init, TypeOK
<1>7. PendingOrAccepted /\ PendingStored
  BY <1>2, <1>5 DEF Init, PendingOrAccepted, PendingStored
<1>8. Stored /\ PoolValid /\ RoundValid
  BY <1>2, <1>5 DEF Init, Stored, PoolValid, RoundValid
<1>9. AcceptedAreValid
  BY <1>1, <1>5 DEF Init, AcceptedAreValid
<1> QED BY <1>6, <1>7, <1>8, <1>9 DEF LibInv

(* AddTransaction keeps the invariant. *)
LEMMA LibAddTransaction ==
  ASSUME LibInv, NEW id \in TxIDs, AddTransaction(id)
  PROVE  LibInv'
<1> DEFINE t == NewTransaction(id)
<1>1. IsTx(t) /\ t.id = id /\ VerifyTx(t)
  BY DEF NewTransaction, IsTx, AddTransaction, LibInv, TypeOK
<1> HIDE DEF t
<1>2. /\ txPool' = Put(txPool, id, t)
      /\ issued' = issued \cup {t}
      /\ ntxs' = ntxs + 1
      /\ UNCHANGED <<blocks, acceptedBlocks, pendingBlocks, latestBlocks,
                     blocksByHeight, currentHeight, lock, blkAccepted,
                     txAccepted, held, job, submitted, nblocks>>
  BY DEF AddTransaction, t
<1>3. \A x \in DOMAIN txPool' : IsTx(txPool'[x]) /\ txPool'[x].id = x /\ VerifyTx(txPool'[x])
  BY <1>1, <1>2 DEF LibInv, TypeOK, PoolValid, Put
<1>4. TypeOK'
  BY <1>1, <1>2, <1>3, SameIndex DEF LibInv, TypeOK
<1> QED
  BY <1>2, <1>3, <1>4
  DEF LibInv, PendingOrAccepted, PendingStored, Stored, PoolValid, RoundValid,
      AcceptedAreValid

(* Adding a transaction object again keeps the invariant. *)
LEMMA LibReAddTransaction ==
  ASSUME LibInv, NEW t \in issued, ReAddTransaction(t)
  PROVE  LibInv'
<1>1. IsTx(t) /\ VerifyTx(t)
  BY DEF ReAddTransaction, LibInv, TypeOK
<1>2. /\ txPool' = Put(txPool, t.id, t)
      /\ UNCHANGED <<blocks, acceptedBlocks, pendingBlocks, latestBlocks,
                     blocksByHeight, currentHeight, lock, blkAccepted,
                     txAccepted, held, job, submitted, issued, nblocks, ntxs>>
  BY DEF ReAddTransaction
<1>3. \A x \in DOMAIN txPool' : IsTx(txPool'[x]) /\ txPool'[x].id = x /\ VerifyTx(txPool'[x])
  BY <1>1, <1>2 DEF LibInv, TypeOK, PoolValid, Put
<1>4. TypeOK'
  BY <1>2, <1>3, SameIndex DEF LibInv, TypeOK
<1> QED
  BY <1>2, <1>3, <1>4
  DEF LibInv, PendingOrAccepted, PendingStored, Stored, PoolValid, RoundValid,
      AcceptedAreValid

(* CreateBlock keeps the invariant, also when the new ID is taken. *)
LEMMA LibCreateBlock ==
  ASSUME LibInv, NEW c \in Clients, NEW ps \in ParentLists(DOMAIN blocks),
         NEW k \in TxLimits, CreateBlock(c, ps, k)
  PROVE  LibInv'
<1>1. PICK S \in Selections(k) :
        LET b == NewBlock(ps, S, HeightOn(ps))
        IN  /\ txPool' = PoolAfter(S)
            /\ blocks' = Put(blocks, ID(b), b)
            /\ pendingBlocks' = Put(pendingBlocks, ID(b), b)
            /\ blocksByHeight' =
                 Put(blocksByHeight, b.height, Append(HeightIndex(b.height), b))
            /\ held' = [held EXCEPT ![c] = b]
  BY Zenon DEF CreateBlock
<1> DEFINE b == NewBlock(ps, S, HeightOn(ps))
<1>2. S \subseteq Values(txPool)
  BY DEF Selections
<1>3. \A t \in S : IsTx(t) /\ VerifyTx(t)
  BY <1>2 DEF Values, LibInv, TypeOK, PoolValid
<1>4. HeightOn(ps) \in Nat
  BY HeightOnNat DEF LibInv
<1>5. DOMAIN ps = 1..Len(ps)
  BY ParentListDomain
<1>6. IsBlock(b) /\ VerifyBlock(b)
  BY <1>3, <1>4, <1>5 DEF NewBlock, IsBlock, VerifyBlock, LibInv, TypeOK
<1> HIDE DEF b
<1>7. /\ txPool' = PoolAfter(S)
      /\ blocks' = Put(blocks, ID(b), b)
      /\ pendingBlocks' = Put(pendingBlocks, ID(b), b)
      /\ blocksByHeight' =
           Put(blocksByHeight, b.height, Append(HeightIndex(b.height), b))
      /\ held' = [held EXCEPT ![c] = b]
      /\ nblocks' = nblocks + 1
      /\ UNCHANGED <<acceptedBlocks, latestBlocks, currentHeight, lock,
                     blkAccepted, txAccepted, job, submitted, issued, ntxs>>
  BY Zenon, <1>1 DEF CreateBlock, b
<1>8. \A x \in DOMAIN txPool' : IsTx(txPool'[x]) /\ txPool'[x].id = x /\ VerifyTx(txPool'[x])
  BY <1>7 DEF PoolAfter, Delete, LibInv, TypeOK, PoolValid
<1>9. IsBlockMap(blocks') /\ IsBlockMap(pendingBlocks')
  BY <1>6, <1>7, PutBlock DEF LibInv, TypeOK
<1> DEFINE s == HeightIndex(b.height)
<1>10. /\ s \in Seq(CreatedBlocks)
       /\ \A i \in DOMAIN s : IsBlock(s[i]) /\ s[i].height = b.height
  BY DEF HeightIndex, LibInv, TypeOK, HeightIndexOK
<1>11. b.height \in Nat
  BY <1>6 DEF IsBlock
<1> HIDE DEF s
<1>12. /\ DOMAIN blocksByHeight' = DOMAIN blocksByHeight \cup {b.height}
       /\ blocksByHeight'[b.height] = Append(s, b)
       /\ \A h \in DOMAIN blocksByHeight :
            h # b.height => blocksByHeight'[h] = blocksByHeight[h]
  BY <1>7 DEF Put, s
<1>13. /\ DOMAIN Append(s, b) = 1..(Len(s) + 1)
       /\ DOMAIN s = 1..Len(s) /\ Len(s) \in Nat
       /\ \A i \in 1..Len(s) : Append(s, b)[i] = s[i]
       /\ Append(s, b)[Len(s) + 1] = b
  BY <1>10
<1>14. \A i \in DOMAIN Append(s, b) :
         IsBlock(Append(s, b)[i]) /\ Append(s, b)[i].height = b.height
  BY <1>6, <1>10, <1>13
<1>15. b \in CreatedBlocks' /\ CreatedBlocks \subseteq CreatedBlocks'
  <2>1. b \in CreatedBlocks'
    BY <1>12, <1>13 DEF CreatedBlocks
  <2>2. ASSUME NEW x \in CreatedBlocks PROVE x \in CreatedBlocks'
    <3>1. PICK h \in DOMAIN blocksByHeight :
            \E i \in DOMAIN blocksByHeight[h] : x = blocksByHeight[h][i]
      BY DEF CreatedBlocks
    <3>1a. PICK i \in DOMAIN blocksByHeight[h] : x = blocksByHeight[h][i]
      BY <3>1
    <3>2. CASE h = b.height
      <4>1. s = blocksByHeight[h]
        BY <3>2 DEF s, HeightIndex
      <4>2. i \in DOMAIN Append(s, b) /\ x = Append(s, b)[i]
        BY <3>1a, <4>1, <1>13
      <4> QED BY <3>2, <4>2, <1>12 DEF CreatedBlocks
    <3>3. CASE h # b.height
      BY <3>1a, <3>3, <1>12 DEF CreatedBlocks
    <3> QED BY <3>2, <3>3
  <2> QED BY <2>1, <2>2
<1>16. Append(s, b) \in Seq(CreatedBlocks')
  BY <1>10, <1>15
<1>17. \A h \in DOMAIN blocksByHeight' :
         /\ h \in Nat
         /\ blocksByHeight'[h] \in Seq(CreatedBlocks')
         /\ \A i \in DOMAIN blocksByHeight'[h] :
              IsBlock(blocksByHeight'[h][i]) /\ blocksByHeight'[h][i].height = h
  <2> TAKE h \in DOMAIN blocksByHeight'
  <2>1. CASE h = b.height
    BY <2>1, <1>11, <1>12, <1>14, <1>16
  <2>2. CASE h # b.height
    <3>1. h \in DOMAIN blocksByHeight /\ blocksByHeight'[h] = blocksByHeight[h]
      BY <2>2, <1>12
    <3>2. blocksByHeight[h] \in Seq(CreatedBlocks)
      BY <3>1 DEF LibInv, TypeOK, HeightIndexOK
    <3>3. blocksByHeight'[h] \in Seq(CreatedBlocks')
      BY <3>1, <3>2, <1>15
    <3> QED BY <3>1, <3>3 DEF LibInv, TypeOK, HeightIndexOK
  <2> QED BY <2>1, <2>2
<1>17a. HeightIndexOK'
  BY <1>17 DEF HeightIndexOK
<1>18. TypeOK'
  BY <1>6, <1>7, <1>8, <1>9, <1>17a DEF LibInv, TypeOK
<1>19. /\ DOMAIN blocks' = DOMAIN blocks \cup {ID(b)}
       /\ DOMAIN pendingBlocks' = DOMAIN pendingBlocks \cup {ID(b)}
       /\ blocks'[ID(b)] = b /\ pendingBlocks'[ID(b)] = b
       /\ \A x \in DOMAIN blocks : x # ID(b) => blocks'[x] = blocks[x]
       /\ \A x \in DOMAIN pendingBlocks : x # ID(b) => pendingBlocks'[x] = pendingBlocks[x]
  BY Zenon, <1>7 DEF Put
<1>20. PendingOrAccepted' /\ PendingStored'
  BY <1>7, <1>19 DEF LibInv, PendingOrAccepted, PendingStored
<1>21. Stored'
  BY <1>7, <1>19 DEF LibInv, TypeOK, Stored
<1>22. RoundValid'
  BY <1>6, <1>7, <1>19 DEF LibInv, Stored, RoundValid
<1>23. PoolValid' /\ AcceptedAreValid'
  BY <1>7, <1>8 DEF LibInv, PoolValid, AcceptedAreValid
<1> QED BY <1>18, <1>20, <1>21, <1>22, <1>23 DEF LibInv

(* The critical section of SubmitBlock, for any block a caller may pass.   *)
LEMMA LibSubmit ==
  ASSUME LibInv, NEW b, IsBlock(b), Submit(b),
         DOMAIN held' = Clients,
         \A c \in Clients : held'[c] # NoBlock => held'[c] = held[c],
         nblocks' \in Nat, ntxs' \in Nat,
         UNCHANGED <<txPool, acceptedBlocks, blocksByHeight, lock, blkAccepted,
                     txAccepted, job, issued>>
  PROVE  LibInv'
<1>1. /\ latestBlocks' = LatestAfter(b)
      /\ currentHeight' = RaisedHeight(b)
      /\ submitted' = submitted \cup {b}
  BY DEF Submit
<1>2. IsBlockMap(latestBlocks')
  <2>1. IsBlockMap(Delete(latestBlocks, Parents(b)))
    BY DeleteBlock DEF LibInv, TypeOK
  <2> QED BY <1>1, <2>1, PutBlock DEF LatestAfter
<1>3. currentHeight' \in Nat
  BY <1>1 DEF RaisedHeight, IsBlock, LibInv, TypeOK
<1>4. \/ /\ ID(b) \in DOMAIN blocks
         /\ UNCHANGED <<blocks, pendingBlocks>>
      \/ /\ ID(b) \notin DOMAIN blocks
         /\ blocks' = Put(blocks, ID(b), b)
         /\ pendingBlocks' = Put(pendingBlocks, ID(b), b)
  BY DEF Submit, StoreUnknown
<1>5. IsBlockMap(blocks') /\ IsBlockMap(pendingBlocks')
  BY <1>4, PutBlock DEF LibInv, TypeOK
<1>6. TypeOK'
  BY <1>1, <1>2, <1>3, <1>5, SameIndex DEF LibInv, TypeOK
<1>7. /\ DOMAIN blocks' = DOMAIN blocks \cup {ID(b)}
      /\ \A x \in DOMAIN blocks : blocks'[x] = blocks[x]
  BY <1>4 DEF Put
<1>8. PendingOrAccepted' /\ PendingStored'
  BY <1>4 DEF LibInv, PendingOrAccepted, PendingStored, Put
<1>9. Stored'
  BY <1>1, <1>7 DEF LibInv, Stored
<1>10. RoundValid' /\ PoolValid' /\ AcceptedAreValid'
  BY <1>7 DEF LibInv, Stored, RoundValid, PoolValid, AcceptedAreValid
<1> QED BY <1>6, <1>8, <1>9, <1>10 DEF LibInv

(* The submission of a created block keeps the invariant. *)
LEMMA LibSubmitBlock ==
  ASSUME LibInv, NEW c \in Clients, SubmitBlock(c)
  PROVE  LibInv'
<1>1. IsBlock(held[c]) /\ Submit(held[c])
  BY DEF SubmitBlock, LibInv, TypeOK
<1>2. /\ DOMAIN held' = Clients
      /\ \A d \in Clients : held'[d] # NoBlock => held'[d] = held[d]
      /\ nblocks' \in Nat /\ ntxs' \in Nat
      /\ UNCHANGED <<txPool, acceptedBlocks, blocksByHeight, lock, blkAccepted,
                     txAccepted, job, issued>>
  BY DEF SubmitBlock, LibInv, TypeOK
<1> HIDE DEF LibInv
<1> QED BY <1>1, <1>2, LibSubmit

(* The submission of a caller's own block keeps the invariant. *)
LEMMA LibSubmitForeignBlock ==
  ASSUME LibInv, NEW known, NEW ps \in ParentLists(known), NEW h \in Nat,
         NEW ids \in SUBSET TxIDs, SubmitForeignBlock(ps, h, ids)
  PROVE  LibInv'
<1> DEFINE b == NewBlock(ps, {NewTransaction(id) : id \in ids}, h)
<1>1. DOMAIN ps = 1..Len(ps)
  BY ParentListDomain
<1>2. IsBlock(b)
  BY <1>1 DEF NewBlock, NewTransaction, IsBlock, IsTx, LibInv, TypeOK
<1>3. Submit(b)
  BY DEF SubmitForeignBlock
<1> HIDE DEF b
<1>4. /\ DOMAIN held' = Clients
      /\ \A d \in Clients : held'[d] # NoBlock => held'[d] = held[d]
      /\ nblocks' \in Nat /\ ntxs' \in Nat
      /\ UNCHANGED <<txPool, acceptedBlocks, blocksByHeight, lock, blkAccepted,
                     txAccepted, job, issued>>
  BY DEF SubmitForeignBlock, LibInv, TypeOK
<1> QED BY <1>2, <1>3, <1>4, LibSubmit

(* A step of a round that leaves the maps of the blockchain alone, and that *)
(* only moves blocks of the round to other stages.                          *)
LEMMA LibStage ==
  ASSUME LibInv, UNCHANGED mapVars,
         UNCHANGED <<held, submitted, issued, nblocks, ntxs>>,
         lock' \in Loops \cup {NoLoop},
         \A b \in blkAccepted' : IsBlock(b),
         \A t \in txAccepted' : IsTx(t),
         DOMAIN job' = Loops,
         \A l \in Loops : \A b \in DOMAIN job'[l] :
           /\ b \in DOMAIN job[l] \/ b \in Values(pendingBlocks)
           /\ job'[l][b] \in Stages
           /\ job'[l][b] \in {"accept", "ok"} => VerifyBlock(b)
  PROVE  LibInv'
<1> USE DEF mapVars
<1>1. \A b \in Values(pendingBlocks) :
        IsBlock(b) /\ ID(b) \in DOMAIN blocks /\ blocks[ID(b)] = b
  BY DEF Values, LibInv, TypeOK, IsBlockMap, PendingStored
<1>2. TypeOK'
  BY <1>1, SameIndex DEF LibInv, TypeOK
<1>3. Stored'
  BY Zenon, <1>1 DEF LibInv, Stored
<1>4. RoundValid'
  BY Zenon, <1>1 DEF LibInv, RoundValid
<1>5. PendingOrAccepted' /\ PendingStored' /\ PoolValid' /\ AcceptedAreValid'
  BY Zenon DEF LibInv, PendingOrAccepted, PendingStored, PoolValid, AcceptedAreValid
<1> QED BY <1>2, <1>3, <1>4, <1>5 DEF LibInv

(* What one block's move to another stage does to the rounds.              *)
LEMMA AdvanceJob ==
  ASSUME LibInv, NEW l \in Loops, NEW b \in DOMAIN job[l], NEW stage \in Stages,
         Advance(l, b, stage)
  PROVE  /\ DOMAIN job' = Loops
         /\ \A m \in Loops : DOMAIN job'[m] = DOMAIN job[m]
         /\ \A m \in Loops : m # l => job'[m] = job[m]
         /\ job'[l][b] = stage
         /\ \A x \in DOMAIN job[l] : x # b => job'[l][x] = job[l][x]
BY DEF Advance, LibInv, TypeOK

(* The goroutines of a round keep the invariant. *)
LEMMA LibAdvance ==
  ASSUME LibInv, NEW l \in Loops, NEW b \in DOMAIN job[l], NEW stage \in Stages,
         Advance(l, b, stage), stage \in {"accept", "ok"} => VerifyBlock(b),
         UNCHANGED <<mapVars, lock, held, submitted, issued, nblocks, ntxs>>,
         \A x \in blkAccepted' : IsBlock(x), UNCHANGED txAccepted
  PROVE  LibInv'
<1>1. \A m \in Loops : \A x \in DOMAIN job'[m] :
        /\ x \in DOMAIN job[m]
        /\ job'[m][x] \in Stages
        /\ job'[m][x] \in {"accept", "ok"} => VerifyBlock(x)
  BY AdvanceJob DEF LibInv, TypeOK, RoundValid
<1>2. /\ DOMAIN job' = Loops
      /\ lock' \in Loops \cup {NoLoop}
      /\ \A t \in txAccepted' : IsTx(t)
  BY AdvanceJob DEF LibInv, TypeOK
<1> QED BY <1>1, <1>2, LibStage

(* Recording an accepted result keeps the invariant. *)
LEMMA LibCollectAccepted ==
  ASSUME LibInv, NEW l \in Loops, NEW b \in DOMAIN job[l], CollectAccepted(l, b)
  PROVE  LibInv'
<1>1. /\ acceptedBlocks' = Put(acceptedBlocks, ID(b), blocks[ID(b)])
      /\ pendingBlocks' = Delete(pendingBlocks, {ID(b)})
      /\ Advance(l, b, "done")
      /\ UNCHANGED <<txPool, blocks, latestBlocks, blocksByHeight, currentHeight,
                     lock, blkAccepted, txAccepted, held, submitted, issued,
                     nblocks, ntxs>>
  BY DEF CollectAccepted, MarkAccepted
<1>2. job[l][b] = "ok"
  BY DEF CollectAccepted, At
<1>3. /\ ID(b) \in DOMAIN blocks
      /\ VerifyBlock(blocks[ID(b)])
      /\ IsBlock(blocks[ID(b)]) /\ ID(blocks[ID(b)]) = ID(b)
  BY <1>2 DEF LibInv, Stored, RoundValid, TypeOK, IsBlockMap
<1>4. /\ DOMAIN job' = Loops
      /\ \A m \in Loops : DOMAIN job'[m] = DOMAIN job[m]
      /\ \A m \in Loops : m # l => job'[m] = job[m]
      /\ job'[l][b] = "done"
      /\ \A x \in DOMAIN job[l] : x # b => job'[l][x] = job[l][x]
  BY <1>1, AdvanceJob DEF Stages
<1>5. \A m \in Loops : \A x \in DOMAIN job'[m] :
        /\ x \in DOMAIN job[m]
        /\ job'[m][x] \in Stages
        /\ job'[m][x] \in {"accept", "ok"} => job'[m][x] = job[m][x]
  BY <1>4 DEF LibInv, TypeOK, Stages
<1>6. IsBlockMap(acceptedBlocks') /\ IsBlockMap(pendingBlocks')
  <2>1. IsBlockMap(Put(acceptedBlocks, ID(blocks[ID(b)]), blocks[ID(b)]))
    BY <1>3, PutBlock DEF LibInv, TypeOK
  <2>2. IsBlockMap(acceptedBlocks')
    BY <2>1, <1>1, <1>3
  <2>3. IsBlockMap(pendingBlocks')
    BY <1>1, DeleteBlock DEF LibInv, TypeOK
  <2> QED BY <2>2, <2>3
<1>7. TypeOK'
  BY <1>1, <1>4, <1>5, <1>6, SameIndex DEF LibInv, TypeOK
<1>8. PendingOrAccepted' /\ PendingStored'
  BY Zenon, <1>1, <1>3 DEF LibInv, PendingOrAccepted, PendingStored, Put, Delete
<1>9. Stored' /\ RoundValid' /\ PoolValid'
  BY Zenon, <1>1, <1>4, <1>5 DEF LibInv, Stored, RoundValid, PoolValid
<1>10. AcceptedAreValid'
  BY Zenon, <1>1, <1>3 DEF LibInv, AcceptedAreValid, Put
<1> QED BY <1>7, <1>8, <1>9, <1>10 DEF LibInv

(* Every step of ProcessPendingBlocks keeps the invariant. *)
LEMMA LibRound ==
  ASSUME LibInv, NEW l \in Loops, Round(l)
  PROVE  LibInv'
<1> USE DEF mapVars
<1>1. CASE BeginRound(l)
  <2>1. /\ job' = [job EXCEPT ![l] = [b \in Values(pendingBlocks) |-> "todo"]]
        /\ UNCHANGED <<mapVars, lock, blkAccepted, txAccepted, held, submitted,
                       issued, nblocks, ntxs>>
    BY Zenon, <1>1 DEF BeginRound, Snapshot
  <2>2. \A m \in Loops : \A b \in DOMAIN job'[m] :
          /\ b \in DOMAIN job[m] \/ b \in Values(pendingBlocks)
          /\ job'[m][b] \in Stages
          /\ job'[m][b] \in {"accept", "ok"} => VerifyBlock(b)
    BY <2>1 DEF LibInv, TypeOK, RoundValid, Stages
  <2>3. /\ DOMAIN job' = Loops
        /\ lock' \in Loops \cup {NoLoop}
        /\ \A b \in blkAccepted' : IsBlock(b)
        /\ \A t \in txAccepted' : IsTx(t)
    BY <2>1 DEF LibInv, TypeOK
  <2> QED BY <2>1, <2>2, <2>3, LibStage
<1>2. ASSUME UNCHANGED <<mapVars, held, job, submitted, issued, nblocks, ntxs>>,
             lock' \in Loops \cup {NoLoop},
             \A b \in blkAccepted' : IsBlock(b),
             \A t \in txAccepted' : IsTx(t)
      PROVE  LibInv'
  <2>1. \A m \in Loops : \A b \in DOMAIN job'[m] :
          /\ b \in DOMAIN job[m] \/ b \in Values(pendingBlocks)
          /\ job'[m][b] \in Stages
          /\ job'[m][b] \in {"accept", "ok"} => VerifyBlock(b)
    BY <1>2 DEF LibInv, TypeOK, RoundValid
  <2>2. DOMAIN job' = Loops
    BY <1>2 DEF LibInv, TypeOK
  <2> QED BY <1>2, <2>1, <2>2, LibStage
<1>3. CASE IdleTick(l)
  BY Zenon, <1>2, <1>3 DEF IdleTick, vars, LibInv, TypeOK
<1>4. CASE BeginCollect(l)
  BY Zenon, <1>2, <1>4 DEF BeginCollect, LibInv, TypeOK
<1>5. CASE EndRound(l)
  <2>1. /\ job' = [job EXCEPT ![l] = EmptyMap]
        /\ lock' = NoLoop
        /\ UNCHANGED <<mapVars, blkAccepted, txAccepted, held, submitted, issued,
                       nblocks, ntxs>>
    BY <1>5 DEF EndRound
  <2>2. \A m \in Loops : \A b \in DOMAIN job'[m] :
          /\ b \in DOMAIN job[m] \/ b \in Values(pendingBlocks)
          /\ job'[m][b] \in Stages
          /\ job'[m][b] \in {"accept", "ok"} => VerifyBlock(b)
    BY Zenon, <2>1 DEF EmptyMap, LibInv, TypeOK, RoundValid
  <2>3. /\ DOMAIN job' = Loops
        /\ \A b \in blkAccepted' : IsBlock(b)
        /\ \A t \in txAccepted' : IsTx(t)
    BY Zenon, <2>1 DEF LibInv, TypeOK
  <2> QED BY <2>1, <2>2, <2>3, LibStage
<1>6. ASSUME NEW b \in DOMAIN job[l],
             \/ Spawn(l, b) \/ VerifyFails(l, b) \/ AcceptBlock(l, b)
             \/ \E t \in b.txs : AcceptTx(l, b, t)
             \/ AcceptDone(l, b) \/ CollectError(l, b) \/ CollectAccepted(l, b)
      PROVE  LibInv'
  <2>1. \A x \in blkAccepted : IsBlock(x)
    BY DEF LibInv, TypeOK
  <2>2. IsBlock(b)
    BY DEF LibInv, TypeOK
  <2>3. CASE Spawn(l, b)
    <3>1. Advance(l, b, "verify") /\ "verify" \in Stages
      BY <2>3 DEF Spawn, Stages
    <3> QED BY <2>1, <2>3, <3>1, LibAdvance DEF Spawn
  <2>4. CASE VerifyFails(l, b)
    <3>1. Advance(l, b, "err") /\ "err" \in Stages
      BY <2>4 DEF VerifyFails, SendResult, Stages
    <3> QED BY <2>1, <2>4, <3>1, LibAdvance DEF VerifyFails
  <2>5. CASE AcceptBlock(l, b)
    <3>1. Advance(l, b, "accept") /\ "accept" \in Stages /\ VerifyBlock(b)
      BY <2>5 DEF AcceptBlock, Stages
    <3>2. \A x \in blkAccepted' : IsBlock(x)
      BY <2>1, <2>2, <2>5 DEF AcceptBlock
    <3> QED BY <2>5, <3>1, <3>2, LibAdvance DEF AcceptBlock
  <2>6. ASSUME NEW t \in b.txs, AcceptTx(l, b, t)
        PROVE  LibInv'
    <3>1. IsTx(t)
      BY <2>2 DEF IsBlock
    <3>2. /\ txAccepted' = txAccepted \cup {t}
          /\ UNCHANGED <<mapVars, lock, blkAccepted, held, job, submitted, issued,
                         nblocks, ntxs>>
      BY <2>6 DEF AcceptTx
    <3>3. /\ \A x \in txAccepted' : IsTx(x)
          /\ lock' \in Loops \cup {NoLoop}
      BY <3>1, <3>2 DEF LibInv, TypeOK
    <3> QED BY <1>2, <2>1, <3>2, <3>3
  <2>7. CASE AcceptDone(l, b)
    <3>1. Advance(l, b, "ok") /\ "ok" \in Stages
      BY <2>7 DEF AcceptDone, SendResult, Stages
    <3>2. VerifyBlock(b)
      BY <2>7 DEF AcceptDone, At, LibInv, RoundValid
    <3> QED BY <2>1, <2>7, <3>1, <3>2, LibAdvance DEF AcceptDone
  <2>8. CASE CollectError(l, b)
    <3>1. Advance(l, b, "done") /\ "done" \in Stages
      BY <2>8 DEF CollectError, Stages
    <3> QED BY <2>1, <2>8, <3>1, LibAdvance DEF CollectError
  <2>9. CASE CollectAccepted(l, b)
    BY <2>9, LibCollectAccepted
  <2> QED BY Zenon, <1>6, <2>3, <2>4, <2>5, <2>6, <2>7, <2>8, <2>9
<1> QED BY Zenon, <1>1, <1>3, <1>4, <1>5, <1>6 DEF Round

(* Every step of the library keeps the invariant. *)
LEMMA LibStep == LibInv /\ [LibNext]_vars => LibInv'
<1> SUFFICES ASSUME LibInv, [LibNext]_vars PROVE LibInv'
  OBVIOUS
<1>1. CASE UNCHANGED vars
  BY Zenon, <1>1, SameIndex
  DEF vars, LibInv, TypeOK, PendingOrAccepted, PendingStored, Stored, PoolValid,
      RoundValid, AcceptedAreValid
<1>2. ASSUME NEW ps \in ParentLists(DOMAIN blocks \cup {UnknownID}),
             NEW h \in 0..MaxBlocks, NEW ids \in SUBSET TxIDs,
             SubmitForeignBlock(ps, h, ids)
      PROVE  LibInv'
  <2>1. h \in Nat
    BY ConstantsAssumption
  <2> QED BY <1>2, <2>1, LibSubmitForeignBlock
<1> QED
  BY <1>1, <1>2, LibAddTransaction, LibReAddTransaction, LibCreateBlock,
     LibSubmitBlock, LibRound
  DEF LibNext

(* Whatever sequence of calls the users of the library make, the maps stay *)
(* keyed and consistent with each other, and only valid blocks get accepted. *)
THEOREM LibInvariant == LibSpec => []LibInv
BY LibInit, LibStep, PTL DEF LibSpec

(* ProcessPendingBlocks never records an invalid block as accepted, even   *)
(* though it reads bc.blocks again after other callers had the lock.       *)
THEOREM LibAcceptedValid == LibSpec => []AcceptedAreValid
<1>1. LibInv => AcceptedAreValid
  BY DEF LibInv
<1> QED BY <1>1, LibInvariant, PTL

-----------------------------------------------------------------------------
(* The edge of the DAG and the height of the chain *)

(* Only SubmitBlock moves the edge and the height.                         *)
LEMMA LibSubmitsOrKeeps ==
  ASSUME [LibNext]_vars
  PROVE  \/ \E b : Submit(b)
         \/ UNCHANGED <<latestBlocks, currentHeight, submitted>>
<1> USE DEF mapVars
<1>1. CASE UNCHANGED vars
  BY <1>1 DEF vars
<1>2. ASSUME NEW id \in TxIDs, AddTransaction(id)
      PROVE  UNCHANGED <<latestBlocks, currentHeight, submitted>>
  BY <1>2 DEF AddTransaction
<1>3. ASSUME NEW t \in issued, ReAddTransaction(t)
      PROVE  UNCHANGED <<latestBlocks, currentHeight, submitted>>
  BY <1>3 DEF ReAddTransaction
<1>4. ASSUME NEW c \in Clients, NEW ps, NEW k, CreateBlock(c, ps, k)
      PROVE  UNCHANGED <<latestBlocks, currentHeight, submitted>>
  BY <1>4 DEF CreateBlock
<1>5. ASSUME NEW c \in Clients, SubmitBlock(c)
      PROVE  \E b : Submit(b)
  BY <1>5 DEF SubmitBlock
<1>6. ASSUME NEW ps, NEW h, NEW ids, SubmitForeignBlock(ps, h, ids)
      PROVE  \E b : Submit(b)
  BY <1>6 DEF SubmitForeignBlock
<1>7. ASSUME NEW l \in Loops, Round(l)
      PROVE  UNCHANGED <<latestBlocks, currentHeight, submitted>>
  BY Zenon, <1>7 DEF Round, BeginRound, IdleTick, vars, BeginCollect, EndRound, Spawn,
     VerifyFails, AcceptBlock, AcceptTx, AcceptDone, CollectError, CollectAccepted
<1> QED BY <1>1, <1>2, <1>3, <1>4, <1>5, <1>6, <1>7 DEF LibNext

(* SubmitBlock never loses a branch, whatever is submitted in which order. *)
THEOREM LibEdge == LibSpec => []EdgeCoversSubmitted
<1>1. Init => EdgeCoversSubmitted
  BY Zenon DEF Init, EdgeCoversSubmitted, Put
<1>2. ASSUME EdgeCoversSubmitted, NEW b, Submit(b)
      PROVE  EdgeCoversSubmitted'
  <2>1. submitted' = submitted \cup {b}
    BY <1>2 DEF Submit
  <2>2. DOMAIN latestBlocks' = (DOMAIN latestBlocks \ Parents(b)) \cup {ID(b)}
    BY <1>2 DEF Submit, LatestAfter, Put, Delete
  <2> QED BY <1>2, <2>1, <2>2 DEF EdgeCoversSubmitted
<1>3. ASSUME EdgeCoversSubmitted, UNCHANGED <<latestBlocks, submitted>>
      PROVE  EdgeCoversSubmitted'
  BY <1>3 DEF EdgeCoversSubmitted
<1>4. EdgeCoversSubmitted /\ [LibNext]_vars => EdgeCoversSubmitted'
  <2> SUFFICES ASSUME EdgeCoversSubmitted, [LibNext]_vars PROVE EdgeCoversSubmitted'
    OBVIOUS
  <2>1. \/ \E b : Submit(b)
        \/ UNCHANGED <<latestBlocks, submitted>>
    BY LibSubmitsOrKeeps
  <2> QED BY <2>1, <1>2, <1>3
<1> QED BY <1>1, <1>4, PTL DEF LibSpec

(* currentHeight is the greatest height submitted so far, whatever the     *)
(* order in which the blocks arrive.                                       *)
THEOREM LibHeight == LibSpec => []HeightIsMaxSubmitted
<1>1. Init => HeightIsMaxSubmitted
  BY DEF Init, HeightIsMaxSubmitted, Genesis
<1>2. ASSUME LibInv, HeightIsMaxSubmitted, LibInv', NEW b, Submit(b)
      PROVE  HeightIsMaxSubmitted'
  <2>1. /\ submitted' = submitted \cup {b}
        /\ currentHeight' = RaisedHeight(b)
    BY <1>2 DEF Submit
  <2>2. /\ currentHeight \in Nat
        /\ \A x \in submitted' : x.height \in Nat
    BY <1>2 DEF LibInv, TypeOK, IsBlock
  <2>3. b.height \in Nat
    BY <2>1, <2>2
  <2> QED BY <1>2, <2>1, <2>2, <2>3 DEF HeightIsMaxSubmitted, RaisedHeight
<1>3. ASSUME HeightIsMaxSubmitted, UNCHANGED <<currentHeight, submitted>>
      PROVE  HeightIsMaxSubmitted'
  BY <1>3 DEF HeightIsMaxSubmitted
<1>4. LibInv /\ LibInv' /\ HeightIsMaxSubmitted /\ [LibNext]_vars => HeightIsMaxSubmitted'
  <2> SUFFICES ASSUME LibInv, LibInv', HeightIsMaxSubmitted, [LibNext]_vars
               PROVE  HeightIsMaxSubmitted'
    OBVIOUS
  <2>1. \/ \E b : Submit(b)
        \/ UNCHANGED <<currentHeight, submitted>>
    BY LibSubmitsOrKeeps
  <2> QED BY <2>1, <1>2, <1>3
<1> QED BY <1>1, <1>4, LibInvariant, PTL DEF LibSpec

-----------------------------------------------------------------------------
(* The node is a client of the library *)

(* A step of the node is a step of the library. *)
LEMMA NodeStepIsLibStep == LibInv /\ [Next]_vars => [LibNext]_vars
<1> SUFFICES ASSUME LibInv, Next PROVE LibNext
  OBVIOUS
<1>1. ParentLists(SubmittedIDs) \subseteq ParentLists(DOMAIN blocks)
  <2>1. SubmittedIDs \subseteq DOMAIN blocks
    BY DEF SubmittedIDs, LibInv, Stored
  <2> QED BY <2>1 DEF ParentLists
<1> QED BY <1>1 DEF Next, LibNext

(* Every behaviour of the node is a behaviour of the library.              *)
THEOREM NodeIsLibrary == Spec => LibSpec
<1>1. LibInv /\ [Next]_vars => LibInv'
  BY NodeStepIsLibStep, LibStep
<1>2. Spec => []LibInv
  BY <1>1, LibInit, PTL DEF Spec
<1> QED BY <1>2, NodeStepIsLibStep, PTL DEF Spec, LibSpec

(* The maps of the node are keyed by the IDs of what they hold.            *)
THEOREM NodeTypeOK == Spec => []TypeOK
<1>1. LibInv => TypeOK
  BY DEF LibInv
<1> QED BY <1>1, LibInvariant, NodeIsLibrary, PTL

(* No block of the node falls between pendingBlocks and acceptedBlocks.    *)
THEOREM NodePendingOrAccepted == Spec => []PendingOrAccepted
<1>1. LibInv => PendingOrAccepted
  BY DEF LibInv
<1> QED BY <1>1, LibInvariant, NodeIsLibrary, PTL

-----------------------------------------------------------------------------
(* The inductive invariant of the node: with LibInv and                    *)
(* HeightIsMaxSubmitted, which the library has too, NodeInv is inductive.  *)

(* The parents an ID commits to are known and lower. *)
KnownParents ==
  \A id \in DOMAIN blocks : \A p \in IDParents(id) :
    p \in DOMAIN blocks /\ p[1] < id[1]

(* Every block of the node was made by CreateBlock, from the pool. *)
BlocksValid == \A id \in DOMAIN blocks : VerifyBlock(blocks[id])

(* So no result of a round is an error, and a received result has been     *)
(* recorded, under the ID of its block.                                    *)
RoundsSucceed ==
  \A l \in Loops : \A b \in DOMAIN job[l] :
    /\ VerifyBlock(b)
    /\ job[l][b] # "err"
    /\ job[l][b] = "done" => ID(b) \in DOMAIN acceptedBlocks

RoundIDs(l) == {ID(b) : b \in DOMAIN job[l]}

(* The parents of a block of a round are in the round, or accepted: the    *)
(* snapshot takes every pending block.                                     *)
RoundClosed ==
  \A l \in Loops : \A id \in RoundIDs(l) :
    IDParents(id) \subseteq DOMAIN acceptedBlocks \cup RoundIDs(l)

(* What is accepted, or about to be, is closed under parents. *)
CommittedClosed == \A id \in CommittedIDs : IDParents(id) \subseteq CommittedIDs

NodeInv ==
  /\ KnownParents
  /\ BlocksValid
  /\ RoundsSucceed
  /\ RoundClosed
  /\ CommittedClosed

(* What a step does to the ledger it implements. *)
LedgerStep == L!Next \/ UNCHANGED <<DOMAIN blocks, CommittedIDs>>

-----------------------------------------------------------------------------
(* The ID of a block commits to its height and its parents. *)
LEMMA IDFacts ==
  ASSUME NEW b
  PROVE  ID(b)[1] = b.height /\ IDParents(ID(b)) = Parents(b)
BY DEF ID, IDParents, Parents

(* NewNode establishes the node's invariant. *)
LEMMA NodeInit == Init => NodeInv
<1> SUFFICES ASSUME Init PROVE NodeInv
  OBVIOUS
<1>1. /\ DOMAIN blocks = {ID(Genesis)} /\ blocks[ID(Genesis)] = Genesis
      /\ DOMAIN acceptedBlocks = {ID(Genesis)}
      /\ \A l \in Loops : DOMAIN job[l] = {}
      /\ lock = NoLoop
  BY Zenon DEF Init, Put, EmptyMap
<1>2. Parents(Genesis) = {} /\ VerifyBlock(Genesis)
  BY DEF Parents, Genesis, VerifyBlock
<1>3. IDParents(ID(Genesis)) = {}
  BY <1>2, IDFacts
<1>4. KnownParents /\ BlocksValid
  BY <1>1, <1>2, <1>3 DEF KnownParents, BlocksValid
<1>5. RoundsSucceed /\ RoundClosed
  BY <1>1 DEF RoundsSucceed, RoundClosed, RoundIDs
<1>6. CommittedClosed
  BY <1>1, <1>3 DEF CommittedClosed, CommittedIDs
<1> QED BY <1>4, <1>5, <1>6 DEF NodeInv

(* In the node a new block is one above currentHeight, whatever its        *)
(* parents: no submitted block is higher than currentHeight.               *)
LEMMA NodeHeight ==
  ASSUME LibInv, HeightIsMaxSubmitted, NEW ps \in ParentLists(SubmittedIDs)
  PROVE  /\ HeightOn(ps) = currentHeight + 1
         /\ \A i \in DOMAIN ps : ps[i] \in DOMAIN blocks /\ ps[i][1] <= currentHeight
<1>1. ps \in ParentLists(DOMAIN blocks)
  <2>1. SubmittedIDs \subseteq DOMAIN blocks
    BY DEF SubmittedIDs, LibInv, Stored
  <2> QED BY <2>1 DEF ParentLists
<1>2. ASSUME NEW i \in DOMAIN ps
      PROVE  /\ ps[i] \in DOMAIN blocks
             /\ ps[i][1] <= currentHeight
             /\ blocks[ps[i]].height = ps[i][1]
             /\ ps[i][1] \in Nat
  <2>1. ps[i] \in SubmittedIDs /\ ps[i] \in DOMAIN blocks
    BY <1>1, ParentListDomain
  <2>2. PICK x \in submitted : ps[i] = ID(x)
    BY <2>1 DEF SubmittedIDs
  <2>3. x.height <= currentHeight /\ x.height \in Nat
    BY DEF HeightIsMaxSubmitted, LibInv, TypeOK, IsBlock
  <2>4. ID(blocks[ps[i]]) = ps[i]
    BY <2>1 DEF LibInv, TypeOK, IsBlockMap
  <2>5. ps[i][1] = x.height
    BY <2>2, IDFacts
  <2>6. ps[i][1] = blocks[ps[i]].height
    BY <2>4, IDFacts
  <2> QED BY <2>1, <2>3, <2>5, <2>6
<1>3. currentHeight \in Nat
  BY DEF LibInv, TypeOK
<1>4. HeightOn(ps) = currentHeight + 1
  <2>1. \/ HeightOn(ps) = currentHeight + 1
        \/ \E i \in DOMAIN ps :
             /\ blocks[ps[i]].height >= currentHeight
             /\ HeightOn(ps) = blocks[ps[i]].height + 1
    BY <1>1, HeightOnValue DEF LibInv
  <2>2. ASSUME NEW i \in DOMAIN ps, blocks[ps[i]].height >= currentHeight
        PROVE  blocks[ps[i]].height = currentHeight
    BY <1>2, <1>3, <2>2
  <2> QED BY <2>1, <2>2
<1> QED BY <1>2, <1>4

-----------------------------------------------------------------------------
(* The steps of the node *)

(* Steps that change no block, round or lock keep the node's invariant. *)
LEMMA NodeQuiet ==
  ASSUME NodeInv, UNCHANGED <<blocks, acceptedBlocks, job, lock>>
  PROVE  NodeInv' /\ LedgerStep
<1>1. CommittedIDs' = CommittedIDs /\ \A l \in Loops : RoundIDs(l)' = RoundIDs(l)
  BY DEF CommittedIDs, RoundIDs
<1>2. KnownParents' /\ BlocksValid' /\ RoundsSucceed'
  BY DEF NodeInv, KnownParents, BlocksValid, RoundsSucceed
<1>3. RoundClosed' /\ CommittedClosed'
  BY <1>1 DEF NodeInv, RoundClosed, CommittedClosed
<1> QED BY <1>1, <1>2, <1>3 DEF NodeInv, LedgerStep

(* CreateBlock on submitted parents keeps the node's invariant. *)
LEMMA NodeCreateBlock ==
  ASSUME LibInv, HeightIsMaxSubmitted, NodeInv, NEW c \in Clients,
         NEW ps \in ParentLists(SubmittedIDs), NEW k \in TxLimits,
         CreateBlock(c, ps, k)
  PROVE  NodeInv' /\ LedgerStep
<1>1. PICK S \in Selections(k) :
        blocks' = Put(blocks, ID(NewBlock(ps, S, HeightOn(ps))),
                      NewBlock(ps, S, HeightOn(ps)))
  BY Zenon DEF CreateBlock
<1> DEFINE b == NewBlock(ps, S, HeightOn(ps))
<1>2. VerifyBlock(b)
  BY Zenon DEF Selections, Values, LibInv, PoolValid, VerifyBlock, NewBlock
<1>3. b.height = currentHeight + 1 /\ Parents(b) = {ps[i] : i \in DOMAIN ps}
  BY NodeHeight DEF NewBlock, Parents
<1>4. blocks' = Put(blocks, ID(b), b)
  BY <1>1
<1> HIDE DEF b
<1>5. UNCHANGED <<acceptedBlocks, job, lock>>
  BY Zenon DEF CreateBlock
<1>6. \A p \in Parents(b) : p \in DOMAIN blocks /\ p[1] <= currentHeight
  BY <1>3, NodeHeight
<1>7. /\ DOMAIN blocks' = DOMAIN blocks \cup {ID(b)}
      /\ blocks'[ID(b)] = b
      /\ \A x \in DOMAIN blocks : x # ID(b) => blocks'[x] = blocks[x]
  BY <1>4 DEF Put
<1>8. KnownParents'
  <2>1. \A p \in IDParents(ID(b)) : p \in DOMAIN blocks /\ p[1] < ID(b)[1]
    <3> TAKE p \in IDParents(ID(b))
    <3>1. p \in DOMAIN blocks /\ p[1] <= currentHeight
      BY <1>6, IDFacts
    <3>2. p[1] \in Int
      <4>1. IsBlock(blocks[p]) /\ ID(blocks[p]) = p
        BY Zenon, <3>1 DEF LibInv, TypeOK, IsBlockMap
      <4> QED BY <4>1, IDFacts DEF IsBlock
    <3>3. ID(b)[1] = currentHeight + 1 /\ currentHeight \in Nat
      BY <1>3, IDFacts DEF LibInv, TypeOK
    <3> QED BY <3>1, <3>2, <3>3
  <2> QED BY <2>1, <1>7 DEF NodeInv, KnownParents
<1>9. BlocksValid'
  BY <1>2, <1>7 DEF NodeInv, BlocksValid
<1>10. CommittedIDs' = CommittedIDs /\ \A l \in Loops : RoundIDs(l)' = RoundIDs(l)
  BY <1>5 DEF CommittedIDs, RoundIDs
<1>11. RoundsSucceed' /\ RoundClosed' /\ CommittedClosed'
  BY Zenon, <1>5, <1>10 DEF NodeInv, RoundsSucceed, RoundClosed, CommittedClosed
<1>12. L!Add
  <2>1. IDParents(ID(b)) \subseteq DOMAIN blocks
    BY <1>6, IDFacts
  <2> QED BY <2>1, <1>7, <1>10 DEF L!Add
<1> QED BY <1>8, <1>9, <1>11, <1>12 DEF NodeInv, LedgerStep, L!Next

(* The goroutines of a round keep the node's invariant. *)
LEMMA NodeAdvance ==
  ASSUME LibInv, NodeInv, NEW l \in Loops, NEW b \in DOMAIN job[l],
         NEW stage \in {"verify", "accept", "ok"}, Advance(l, b, stage),
         UNCHANGED <<blocks, acceptedBlocks, lock>>
  PROVE  NodeInv' /\ LedgerStep
<1>1. /\ \A m \in Loops : DOMAIN job'[m] = DOMAIN job[m]
      /\ \A m \in Loops : m # l => job'[m] = job[m]
      /\ job'[l][b] = stage
      /\ \A x \in DOMAIN job[l] : x # b => job'[l][x] = job[l][x]
  BY AdvanceJob DEF Stages
<1>2. \A m \in Loops : RoundIDs(m)' = RoundIDs(m)
  BY <1>1 DEF RoundIDs
<1>3. CommittedIDs' = CommittedIDs
  BY <1>1 DEF CommittedIDs, LibInv, TypeOK
<1>4. RoundsSucceed'
  BY Zenon, <1>1 DEF NodeInv, RoundsSucceed
<1>5. KnownParents' /\ BlocksValid' /\ RoundClosed' /\ CommittedClosed'
  BY Zenon, <1>2, <1>3 DEF NodeInv, KnownParents, BlocksValid, RoundClosed, CommittedClosed
<1> QED BY <1>3, <1>4, <1>5 DEF NodeInv, LedgerStep

(* A snapshot holds the unaccepted parents of its blocks. *)
LEMMA NodeBeginRound ==
  ASSUME LibInv, NodeInv, NEW l \in Loops, BeginRound(l)
  PROVE  NodeInv' /\ LedgerStep
<1> USE DEF mapVars
<1>1. /\ lock = NoLoop
      /\ job' = [job EXCEPT ![l] = [b \in Values(pendingBlocks) |-> "todo"]]
      /\ UNCHANGED <<blocks, acceptedBlocks, lock>>
  BY DEF BeginRound, Snapshot
<1>2. /\ \A m \in Loops : m # l => job'[m] = job[m]
      /\ DOMAIN job'[l] = Values(pendingBlocks)
      /\ \A b \in DOMAIN job'[l] : job'[l][b] = "todo"
  BY <1>1 DEF LibInv, TypeOK
<1>3. \A b \in Values(pendingBlocks) : VerifyBlock(b)
  BY DEF Values, LibInv, PendingStored, NodeInv, BlocksValid
<1>4. RoundsSucceed'
  BY <1>1, <1>2, <1>3 DEF NodeInv, RoundsSucceed
<1>5. CommittedIDs' = CommittedIDs
  BY <1>1 DEF CommittedIDs
<1>6. /\ RoundIDs(l)' = DOMAIN pendingBlocks
      /\ \A m \in Loops : m # l => RoundIDs(m)' = RoundIDs(m)
  <2>1. {ID(b) : b \in Values(pendingBlocks)} = DOMAIN pendingBlocks
    BY DEF Values, LibInv, TypeOK, IsBlockMap
  <2> QED BY <1>2, <2>1 DEF RoundIDs
<1>7. \A id \in DOMAIN pendingBlocks :
        IDParents(id) \subseteq DOMAIN acceptedBlocks \cup DOMAIN pendingBlocks
  BY DEF LibInv, PendingOrAccepted, NodeInv, KnownParents
<1>8. RoundClosed'
  BY <1>1, <1>6, <1>7 DEF NodeInv, RoundClosed
<1>9. KnownParents' /\ BlocksValid' /\ CommittedClosed'
  BY <1>1, <1>5 DEF NodeInv, KnownParents, BlocksValid, CommittedClosed
<1> QED BY <1>1, <1>4, <1>5, <1>8, <1>9 DEF NodeInv, LedgerStep

(* Taking the lock commits the round: the ledger accepts its blocks.       *)
LEMMA NodeBeginCollect ==
  ASSUME LibInv, NodeInv, NEW l \in Loops, BeginCollect(l)
  PROVE  NodeInv' /\ LedgerStep
<1> USE DEF mapVars
<1>1. lock = NoLoop /\ lock' = l /\ UNCHANGED <<blocks, acceptedBlocks, job>>
  BY DEF BeginCollect
<1>2. /\ CommittedIDs = DOMAIN acceptedBlocks
      /\ CommittedIDs' = DOMAIN acceptedBlocks \cup RoundIDs(l)
  BY <1>1, ConstantsAssumption DEF CommittedIDs, RoundIDs
<1>3. \A m \in Loops : RoundIDs(m)' = RoundIDs(m)
  BY <1>1 DEF RoundIDs
<1>4. CommittedClosed'
  BY <1>2 DEF NodeInv, CommittedClosed, RoundClosed
<1>5. KnownParents' /\ BlocksValid' /\ RoundsSucceed' /\ RoundClosed'
  BY <1>1, <1>3 DEF NodeInv, KnownParents, BlocksValid, RoundsSucceed, RoundClosed
<1>6. L!Accept
  <2>1. RoundIDs(l) \subseteq DOMAIN blocks
    BY DEF RoundIDs, LibInv, Stored
  <2>2. \A id \in RoundIDs(l) : IDParents(id) \subseteq CommittedIDs \cup RoundIDs(l)
    BY <1>2 DEF NodeInv, RoundClosed
  <2>3. CommittedIDs' = CommittedIDs \cup RoundIDs(l) /\ UNCHANGED DOMAIN blocks
    BY <1>1, <1>2
  <2> QED BY <2>1, <2>2, <2>3 DEF L!Accept
<1> QED BY <1>4, <1>5, <1>6 DEF NodeInv, LedgerStep, L!Next

(* Recording one result leaves the committed blocks as they are. *)
LEMMA NodeCollectAccepted ==
  ASSUME LibInv, NodeInv, NEW l \in Loops, NEW b \in DOMAIN job[l],
         CollectAccepted(l, b)
  PROVE  NodeInv' /\ LedgerStep
<1>1. /\ lock = l
      /\ acceptedBlocks' = Put(acceptedBlocks, ID(b), blocks[ID(b)])
      /\ Advance(l, b, "done")
      /\ UNCHANGED <<blocks, lock>>
  BY DEF CollectAccepted, MarkAccepted
<1>2. /\ \A m \in Loops : DOMAIN job'[m] = DOMAIN job[m]
      /\ \A m \in Loops : m # l => job'[m] = job[m]
      /\ job'[l][b] = "done"
      /\ \A x \in DOMAIN job[l] : x # b => job'[l][x] = job[l][x]
  BY Zenon, <1>1, AdvanceJob DEF Stages
<1>3. DOMAIN acceptedBlocks' = DOMAIN acceptedBlocks \cup {ID(b)}
  BY Zenon, <1>1 DEF Put
<1>4. RoundsSucceed'
  BY Zenon, <1>2, <1>3 DEF NodeInv, RoundsSucceed
<1>5. \A m \in Loops : RoundIDs(m)' = RoundIDs(m)
  BY <1>2 DEF RoundIDs
<1>6. CommittedIDs' = CommittedIDs
  <2>1. lock # NoLoop /\ lock' = lock
    BY <1>1, ConstantsAssumption
  <2>2. CommittedIDs = DOMAIN acceptedBlocks \cup RoundIDs(l)
    BY <1>1, <2>1 DEF CommittedIDs, RoundIDs
  <2>3. CommittedIDs' = DOMAIN acceptedBlocks' \cup RoundIDs(l)'
    BY <1>1, <2>1 DEF CommittedIDs, RoundIDs
  <2>4. ID(b) \in RoundIDs(l)
    BY DEF RoundIDs
  <2> QED BY Zenon, <2>2, <2>3, <2>4, <1>3, <1>5
<1>7. RoundClosed'
  BY <1>3, <1>5 DEF NodeInv, RoundClosed
<1>8. KnownParents' /\ BlocksValid' /\ CommittedClosed'
  BY <1>1, <1>6 DEF NodeInv, KnownParents, BlocksValid, CommittedClosed
<1> QED BY <1>1, <1>4, <1>6, <1>7, <1>8 DEF NodeInv, LedgerStep

(* When the lock is given back the whole snapshot is accepted. *)
LEMMA NodeEndRound ==
  ASSUME LibInv, NodeInv, NEW l \in Loops, EndRound(l)
  PROVE  NodeInv' /\ LedgerStep
<1> USE DEF mapVars
<1>1. /\ lock = l /\ lock' = NoLoop
      /\ job' = [job EXCEPT ![l] = EmptyMap]
      /\ UNCHANGED <<blocks, acceptedBlocks>>
  BY DEF EndRound
<1>2. DOMAIN job'[l] = {} /\ \A m \in Loops : m # l => job'[m] = job[m]
  BY Zenon, <1>1 DEF EmptyMap, LibInv, TypeOK
<1>3. RoundIDs(l) \subseteq DOMAIN acceptedBlocks
  <2>1. \A b \in DOMAIN job[l] : job[l][b] = "done"
    BY DEF EndRound, At
  <2> QED BY <2>1 DEF RoundIDs, NodeInv, RoundsSucceed
<1>4. CommittedIDs' = CommittedIDs
  <2>1. CommittedIDs = DOMAIN acceptedBlocks \cup RoundIDs(l)
    BY <1>1, ConstantsAssumption DEF CommittedIDs, RoundIDs
  <2>2. CommittedIDs' = DOMAIN acceptedBlocks
    BY <1>1 DEF CommittedIDs
  <2> QED BY <2>1, <2>2, <1>3
<1>5. RoundIDs(l)' = {} /\ \A m \in Loops : m # l => RoundIDs(m)' = RoundIDs(m)
  BY <1>2 DEF RoundIDs
<1>6. RoundsSucceed' /\ RoundClosed'
  BY <1>1, <1>2, <1>5 DEF NodeInv, RoundsSucceed, RoundClosed
<1>7. KnownParents' /\ BlocksValid' /\ CommittedClosed'
  BY Zenon, <1>1, <1>4 DEF NodeInv, KnownParents, BlocksValid, CommittedClosed
<1> QED BY <1>1, <1>4, <1>6, <1>7 DEF NodeInv, LedgerStep

(* Every step of ProcessPendingBlocks keeps the node's invariant. *)
LEMMA NodeRound ==
  ASSUME LibInv, NodeInv, NEW l \in Loops, Round(l)
  PROVE  NodeInv' /\ LedgerStep
<1> USE DEF mapVars
<1>1. CASE IdleTick(l)
  BY <1>1, NodeQuiet DEF IdleTick, vars
<1>2. ASSUME NEW b \in DOMAIN job[l],
             \/ Spawn(l, b) \/ VerifyFails(l, b) \/ AcceptBlock(l, b)
             \/ \E t \in b.txs : AcceptTx(l, b, t)
             \/ AcceptDone(l, b) \/ CollectError(l, b) \/ CollectAccepted(l, b)
      PROVE  NodeInv' /\ LedgerStep
  <2>1. CASE Spawn(l, b)
    BY <2>1, NodeAdvance DEF Spawn
  <2>2. CASE VerifyFails(l, b)
    BY Zenon, <2>2 DEF VerifyFails, NodeInv, RoundsSucceed
  <2>3. CASE AcceptBlock(l, b)
    BY <2>3, NodeAdvance DEF AcceptBlock
  <2>4. CASE \E t \in b.txs : AcceptTx(l, b, t)
    BY Zenon, <2>4, NodeQuiet DEF AcceptTx
  <2>5. CASE AcceptDone(l, b)
    BY <2>5, NodeAdvance DEF AcceptDone, SendResult
  <2>6. CASE CollectError(l, b)
    BY Zenon, <2>6 DEF CollectError, At, NodeInv, RoundsSucceed
  <2>7. CASE CollectAccepted(l, b)
    BY <2>7, NodeCollectAccepted
  <2> QED BY Zenon, <1>2, <2>1, <2>2, <2>3, <2>4, <2>5, <2>6, <2>7
<1> QED BY Zenon, <1>1, <1>2, NodeBeginRound, NodeBeginCollect, NodeEndRound DEF Round

(* Every step of the node keeps its invariant, given the library's. *)
LEMMA NodeStep ==
  LibInv /\ HeightIsMaxSubmitted /\ NodeInv /\ [Next]_vars => NodeInv' /\ LedgerStep
<1> SUFFICES ASSUME LibInv, HeightIsMaxSubmitted, NodeInv, [Next]_vars
             PROVE  NodeInv' /\ LedgerStep
  OBVIOUS
<1>1. CASE UNCHANGED vars
  BY <1>1, NodeQuiet DEF vars
<1>2. ASSUME NEW id \in TxIDs, AddTransaction(id)
      PROVE  NodeInv' /\ LedgerStep
  BY <1>2, NodeQuiet DEF AddTransaction
<1>3. ASSUME NEW c \in Clients, SubmitBlock(c)
      PROVE  NodeInv' /\ LedgerStep
  <2>1. ID(held[c]) \in DOMAIN blocks
    BY <1>3 DEF SubmitBlock, LibInv, Stored
  <2>2. UNCHANGED <<blocks, acceptedBlocks, job, lock>>
    BY <1>3, <2>1 DEF SubmitBlock, Submit, StoreUnknown
  <2> QED BY <2>2, NodeQuiet
<1> QED BY <1>1, <1>2, <1>3, NodeCreateBlock, NodeRound DEF Next

-----------------------------------------------------------------------------
(* Theorems *)

(* Clients of the node build only on submitted blocks, so blocks are valid *)
(* with known parents, rounds succeed, and what a round commits at once is *)
(* closed under parents.                                                   *)
THEOREM NodeInvariant == Spec => []NodeInv
<1>1. LibInv /\ HeightIsMaxSubmitted /\ NodeInv /\ [Next]_vars => NodeInv'
  BY NodeStep
<1> QED BY <1>1, NodeInit, NodeIsLibrary, LibInvariant, LibHeight, PTL DEF Spec

(* The height CreateBlock computes is above the heights of the parents.    *)
THEOREM NodeHeightAboveParents == Spec => []HeightAboveParents
<1>1. LibInv /\ NodeInv => HeightAboveParents
  <2> SUFFICES ASSUME LibInv, NodeInv, NEW id \in DOMAIN blocks,
                      NEW p \in Parents(blocks[id])
               PROVE  p \in DOMAIN blocks /\ blocks[p].height < blocks[id].height
    BY DEF HeightAboveParents
  <2>1. ID(blocks[id]) = id
    BY Zenon DEF LibInv, TypeOK, IsBlockMap
  <2>2. p \in IDParents(id) /\ id[1] = blocks[id].height
    BY Zenon, <2>1, IDFacts
  <2>3. p \in DOMAIN blocks /\ p[1] < id[1]
    BY <2>2 DEF NodeInv, KnownParents
  <2>4. ID(blocks[p]) = p
    BY Zenon, <2>3 DEF LibInv, TypeOK, IsBlockMap
  <2>5. p[1] = blocks[p].height
    BY Zenon, <2>4, IDFacts
  <2> QED BY <2>2, <2>3, <2>5
<1> QED BY <1>1, NodeInvariant, NodeIsLibrary, LibInvariant, PTL

(* Whatever rounds overlap, and whichever results arrive late, the parents *)
(* of an accepted block are accepted when no loop holds the lock.          *)
THEOREM NodeAcceptedAncestorClosed == Spec => []AcceptedAncestorClosed
<1>1. LibInv /\ NodeInv => AcceptedAncestorClosed
  <2> SUFFICES ASSUME LibInv, NodeInv, lock = NoLoop, NEW id \in DOMAIN acceptedBlocks
               PROVE  Parents(acceptedBlocks[id]) \subseteq DOMAIN acceptedBlocks
    BY DEF AcceptedAncestorClosed
  <2>1. ID(acceptedBlocks[id]) = id
    BY DEF LibInv, TypeOK, IsBlockMap
  <2>2. Parents(acceptedBlocks[id]) = IDParents(id)
    BY <2>1, IDFacts
  <2>3. CommittedIDs = DOMAIN acceptedBlocks
    BY DEF CommittedIDs
  <2> QED BY <2>2, <2>3 DEF NodeInv, CommittedClosed
<1> QED BY <1>1, NodeInvariant, NodeIsLibrary, LibInvariant, PTL

(* The node implements the ledger: a client that sees only the IDs of the  *)
(* known and of the accepted blocks cannot tell it from the atomic one.    *)
THEOREM NodeRefinesLedger == Spec => RefinesLedger
<1>1. Init => L!Init
  <2> SUFFICES ASSUME Init PROVE L!Init
    OBVIOUS
  <2>1. /\ DOMAIN blocks = {ID(Genesis)} /\ DOMAIN acceptedBlocks = {ID(Genesis)}
        /\ lock = NoLoop
    BY Zenon DEF Init, Put, EmptyMap
  <2> QED BY <2>1 DEF L!Init, CommittedIDs
<1>2. LibInv /\ HeightIsMaxSubmitted /\ NodeInv /\ [Next]_vars => [L!Next]_(L!vars)
  BY NodeStep DEF LedgerStep, L!vars
<1> QED
  BY <1>1, <1>2, NodeInvariant, NodeIsLibrary, LibInvariant, LibHeight, PTL
  DEF Spec, RefinesLedger, L!Spec

-----------------------------------------------------------------------------
(* Transactions.  TxInOnePlace is inductive once the addresses of the      *)
(* transactions taken so far are below the next one, and the pool and the  *)
(* blocks hold no others.                                                  *)
TxPlaces ==
  /\ TxInOnePlace
  /\ \A t \in issued : t.n < ntxs
  /\ Values(txPool) \subseteq issued
  /\ \A b \in CreatedBlocks : b.txs \subseteq issued

(* CreateBlock adds its block to blocksByHeight and removes none.          *)
LEMMA CreatedGrows ==
  ASSUME TypeOK, NEW b,
         blocksByHeight' = Put(blocksByHeight, b.height, Append(HeightIndex(b.height), b))
  PROVE  CreatedBlocks' = CreatedBlocks \cup {b}
<1> DEFINE s == HeightIndex(b.height)
           In(h) == {blocksByHeight[h][i] : i \in DOMAIN blocksByHeight[h]}
<1>1. s \in Seq(CreatedBlocks)
  BY DEF HeightIndex, TypeOK, HeightIndexOK
<1>2. /\ b.height \in DOMAIN blocksByHeight => s = blocksByHeight[b.height]
      /\ b.height \notin DOMAIN blocksByHeight => s = <<>>
  BY DEF HeightIndex
<1> HIDE DEF s
<1>3. /\ DOMAIN blocksByHeight' = DOMAIN blocksByHeight \cup {b.height}
      /\ blocksByHeight'[b.height] = Append(s, b)
      /\ \A h \in DOMAIN blocksByHeight :
           h # b.height => blocksByHeight'[h] = blocksByHeight[h]
  BY DEF Put, s
<1>4. {Append(s, b)[i] : i \in DOMAIN Append(s, b)} = {s[i] : i \in DOMAIN s} \cup {b}
  <2>1. /\ DOMAIN Append(s, b) = 1..(Len(s) + 1)
        /\ DOMAIN s = 1..Len(s) /\ Len(s) \in Nat
        /\ \A i \in 1..Len(s) : Append(s, b)[i] = s[i]
        /\ Append(s, b)[Len(s) + 1] = b
    BY <1>1
  <2> QED BY <2>1
<1>5. {s[i] : i \in DOMAIN s} = IF b.height \in DOMAIN blocksByHeight THEN In(b.height) ELSE {}
  BY <1>2
<1> DEFINE InNext(h) == {blocksByHeight'[h][i] : i \in DOMAIN blocksByHeight'[h]}
<1>7. InNext(b.height) = {s[i] : i \in DOMAIN s} \cup {b}
  BY <1>3, <1>4
<1>8. CreatedBlocks' = UNION {InNext(h) : h \in DOMAIN blocksByHeight'}
      /\ CreatedBlocks = UNION {In(h) : h \in DOMAIN blocksByHeight}
  BY DEF CreatedBlocks
<1> HIDE DEF In, InNext
<1>6. ASSUME NEW h \in DOMAIN blocksByHeight, h # b.height PROVE InNext(h) = In(h)
  <2>1. blocksByHeight'[h] = blocksByHeight[h]
    BY <1>3, <1>6
  <2> QED BY <2>1 DEF In, InNext
<1>9. \A x : x \in CreatedBlocks' <=> x \in CreatedBlocks \/ x = b
  <2> TAKE x
  <2>1. x \in CreatedBlocks => x \in CreatedBlocks'
    BY <1>3, <1>5, <1>6, <1>7, <1>8
  <2>2. b \in CreatedBlocks'
    BY <1>3, <1>7, <1>8
  <2>3. ASSUME NEW h \in DOMAIN blocksByHeight', x \in InNext(h) PROVE x \in CreatedBlocks \/ x = b
    <3>1. CASE h = b.height
      BY <1>5, <1>7, <1>8, <2>3, <3>1
    <3>2. CASE h # b.height
      BY <1>3, <1>6, <1>8, <2>3, <3>2
    <3> QED BY <3>1, <3>2
  <2>4. x \in CreatedBlocks' => \E h \in DOMAIN blocksByHeight' : x \in InNext(h)
    BY <1>8
  <2> QED BY <2>1, <2>2, <2>3, <2>4
<1> QED BY <1>9

(* Deleting the selected transactions by their IDs takes just them out.    *)
LEMMA PoolShrinks ==
  ASSUME TypeOK, NEW S \in SUBSET Values(txPool), txPool' = PoolAfter(S)
  PROVE  Values(txPool)' = Values(txPool) \ S
<1>1. /\ DOMAIN txPool' = DOMAIN txPool \ {t.id : t \in S}
      /\ \A id \in DOMAIN txPool' : txPool'[id] = txPool[id]
  BY DEF PoolAfter, Delete
<1>2. \A id \in DOMAIN txPool : txPool[id].id = id
  BY DEF TypeOK
<1>3. \A id \in DOMAIN txPool : id \in {t.id : t \in S} <=> txPool[id] \in S
  BY <1>2 DEF Values
<1> QED BY <1>1, <1>3 DEF Values

(* A transaction object is in the pool or in one block that CreateBlock    *)
(* has made, whichever handlers run at once.                               *)
THEOREM NodeTxInOnePlace == Spec => []TxInOnePlace
<1>1. Init => TxPlaces
  <2> SUFFICES ASSUME Init PROVE TxPlaces
    OBVIOUS
  <2>1. issued = {} /\ Values(txPool) = {}
    BY DEF Init, Values, EmptyMap
  <2>2. DOMAIN blocksByHeight = {0} /\ blocksByHeight[0] = <<Genesis>>
    BY Zenon DEF Init, Put, EmptyMap
  <2>3. CreatedBlocks = {Genesis}
    <3>1. {blocksByHeight[0][i] : i \in DOMAIN blocksByHeight[0]} = {Genesis}
      BY <2>2
    <3> QED BY <2>2, <3>1 DEF CreatedBlocks
  <2>4. Genesis.txs = {}
    BY DEF Genesis
  <2> QED BY <2>1, <2>3, <2>4 DEF TxPlaces, TxInOnePlace
<1>2. LibInv /\ TxPlaces /\ [Next]_vars => TxPlaces'
  <2> SUFFICES ASSUME LibInv, TxPlaces, [Next]_vars PROVE TxPlaces'
    OBVIOUS
  <2>1. ASSUME UNCHANGED <<txPool, blocksByHeight, issued, ntxs>> PROVE TxPlaces'
    <3>1. Values(txPool)' = Values(txPool) /\ CreatedBlocks' = CreatedBlocks
      BY <2>1 DEF Values, CreatedBlocks
    <3> QED BY <2>1, <3>1 DEF TxPlaces, TxInOnePlace
  <2>2. ASSUME NEW id \in TxIDs, AddTransaction(id) PROVE TxPlaces'
    <3> DEFINE u == NewTransaction(id)
    <3>1. u.n = ntxs /\ ntxs \in Nat /\ \A t \in issued : t.n \in Nat
      BY DEF NewTransaction, LibInv, TypeOK, IsTx
    <3>2. /\ issued' = issued \cup {u} /\ ntxs' = ntxs + 1
          /\ txPool' = Put(txPool, id, u) /\ id \notin DOMAIN txPool
          /\ blocksByHeight' = blocksByHeight
      BY <2>2 DEF AddTransaction
    <3> HIDE DEF u
    <3>3. u \notin issued
      BY <3>1 DEF TxPlaces
    <3>4. Values(txPool)' = Values(txPool) \cup {u} /\ CreatedBlocks' = CreatedBlocks
      BY <3>2 DEF Put, Values, CreatedBlocks
    <3>5. \A t \in issued' : t.n < ntxs'
      BY <3>1, <3>2 DEF TxPlaces
    <3>6. TxInOnePlace'
      BY <3>2, <3>3, <3>4 DEF TxPlaces, TxInOnePlace
    <3> QED BY <3>2, <3>4, <3>5, <3>6 DEF TxPlaces
  <2>3. ASSUME NEW c \in Clients, NEW ps \in ParentLists(SubmittedIDs), NEW k \in TxLimits,
               CreateBlock(c, ps, k)
        PROVE  TxPlaces'
    <3>1. PICK S \in Selections(k) :
            LET b == NewBlock(ps, S, HeightOn(ps))
            IN  /\ txPool' = PoolAfter(S)
                /\ blocksByHeight' =
                     Put(blocksByHeight, b.height, Append(HeightIndex(b.height), b))
      BY Zenon, <2>3 DEF CreateBlock
    <3> DEFINE b == NewBlock(ps, S, HeightOn(ps))
    <3>2. S \in SUBSET Values(txPool) /\ b.txs = S
      BY DEF Selections, NewBlock
    <3>3. /\ txPool' = PoolAfter(S) /\ UNCHANGED <<issued, ntxs>>
          /\ blocksByHeight' =
               Put(blocksByHeight, b.height, Append(HeightIndex(b.height), b))
      BY Zenon, <2>3, <3>1 DEF CreateBlock
    <3> HIDE DEF b
    <3>4. Values(txPool)' = Values(txPool) \ S /\ CreatedBlocks' = CreatedBlocks \cup {b}
      BY Zenon, <3>2, <3>3, PoolShrinks, CreatedGrows DEF LibInv
    <3>5. TxInOnePlace'
      <4> SUFFICES ASSUME NEW t \in issued
                   PROVE  IF t \in Values(txPool)' THEN \A x \in CreatedBlocks' : t \notin x.txs
                          ELSE \E x \in CreatedBlocks' :
                                 t \in x.txs /\ \A y \in CreatedBlocks' : t \in y.txs => y = x
        BY Zenon, <3>3 DEF TxInOnePlace
      <4>1. CASE t \in S
        BY <3>2, <3>4, <4>1 DEF TxPlaces, TxInOnePlace
      <4>2. CASE t \notin S
        BY <3>2, <3>4, <4>2 DEF TxPlaces, TxInOnePlace
      <4> QED BY Zenon, <4>1, <4>2
    <3> QED BY Zenon, <3>2, <3>3, <3>4, <3>5 DEF TxPlaces
  <2>4. ASSUME NEW c \in Clients, SubmitBlock(c) PROVE TxPlaces'
    BY <2>1, <2>4 DEF SubmitBlock
  <2>5. ASSUME NEW l \in Loops, Round(l) PROVE TxPlaces'
    BY Zenon, <2>1, <2>5 DEF Round, BeginRound, IdleTick, BeginCollect, EndRound, Spawn, VerifyFails,
       AcceptBlock, AcceptTx, AcceptDone, CollectError, CollectAccepted, mapVars, vars
  <2>6. CASE UNCHANGED vars
    BY <2>1, <2>6 DEF vars
  <2> QED BY <2>2, <2>3, <2>4, <2>5, <2>6 DEF Next
<1>3. TxPlaces => TxInOnePlace
  BY DEF TxPlaces
<1> QED BY <1>1, <1>2, <1>3, NodeIsLibrary, LibInvariant, PTL DEF Spec
=============================================================================
