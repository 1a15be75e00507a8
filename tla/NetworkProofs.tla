---------------------------- MODULE NetworkProofs ----------------------------
(***************************************************************************)
(* Proofs, for any number of nodes, chains and requests, that a chain gets *)
(* one answer to a request, that what the chains were told of their peers  *)
(* is so, and that the handler of a chain has nothing in hand once it has  *)
(* shut down.                                                              *)
(***************************************************************************)
EXTENDS Requests, Benchlist, Peering, TLAPS

-----------------------------------------------------------------------------
(* Requests.                                                               *)

(* What a step of the requests may rely on: a request that was not made    *)
(* yet is not expected and was not answered.                               *)
ReqInv ==
  /\ timedRequests \subseteq Asked
  /\ sending \in [Asked -> {"idle", "registered", "sent", "failed"}]
  /\ pushed \in [Asked -> Nat]
  /\ \A r \in Asked : sending[r] = "idle" => r \notin timedRequests /\ pushed[r] = 0
  /\ AnsweredOnce

(* HandleInbound answers an outstanding request once.                      *)
LEMMA AnswerKeeps ==
  ASSUME NEW r \in Asked, ReqInv, Outstanding(r), Answer(r), UNCHANGED sending
  PROVE  ReqInv'
BY DEF ReqInv, Outstanding, Answer, AnsweredOnce

(* A step that leaves the expected requests and the answers alone.         *)
LEMMA OthersKeep ==
  ASSUME ReqInv, UNCHANGED <<timedRequests, pushed>>,
         sending' = sending \/ \E r \in Asked, at \in {"sent", "failed"} :
                                  sending' = [sending EXCEPT ![r] = at]
  PROVE  ReqInv'
BY DEF ReqInv, AnsweredOnce

(* HandleInbound of a failure: it is dropped or is the answer.             *)
LEMMA FailedKeeps ==
  ASSUME NEW r \in Asked, ReqInv, HandleFailed(r), UNCHANGED sending
  PROVE  ReqInv'
<1>1. CASE Routed(r) /\ Outstanding(r)
  BY <1>1, AnswerKeeps DEF HandleFailed
<1>2. CASE ~(Routed(r) /\ Outstanding(r))
  BY <1>2, OthersKeep DEF HandleFailed
<1> QED BY <1>1, <1>2

(* Every step of the requests keeps ReqInv.                                *)
LEMMA ReqStep == ReqInv /\ [ReqNext]_reqVars => ReqInv'
<1> SUFFICES ASSUME ReqInv, [ReqNext]_reqVars PROVE ReqInv'
  OBVIOUS
<1>1. CASE UNCHANGED reqVars
  BY <1>1, OthersKeep DEF reqVars
<1>2. CASE Node \/ \E c \in Chains : Chain(c)
  BY <1>2, OthersKeep DEF Node, Chain
<1>3. ASSUME NEW r \in Asked, RegisterRequest(r) PROVE ReqInv'
  BY <1>3 DEF ReqInv, AnsweredOnce, RegisterRequest
<1>4. ASSUME NEW r \in Asked, Send(r) PROVE ReqInv'
  BY <1>4, OthersKeep DEF Send
<1>5. ASSUME NEW r \in Asked, GiveUp(r) PROVE ReqInv'
  BY <1>5, FailedKeeps DEF GiveUp
<1>6. ASSUME NEW r \in Asked, HandleResponse(r) PROVE ReqInv'
  BY <1>6, AnswerKeeps, OthersKeep DEF HandleResponse, Respond
<1>7. ASSUME NEW r \in Asked, Fire(r) PROVE ReqInv'
  BY <1>7, OthersKeep DEF Fire
<1>8. ASSUME NEW r \in Asked, HandleTimeout(r) PROVE ReqInv'
  BY <1>8, FailedKeeps DEF HandleTimeout
<1> QED BY <1>1, <1>2, <1>3, <1>4, <1>5, <1>6, <1>7, <1>8 DEF ReqNext

(* A chain is passed at most one answer to a request, and none while the   *)
(* router still expects one, whatever races to HandleInbound.              *)
THEOREM AnsweredOnceHolds == ReqSpec => []AnsweredOnce
<1>1. ReqInit => ReqInv
  BY DEF ReqInit, ReqInv, AnsweredOnce
<1>2. ReqInv => AnsweredOnce
  BY DEF ReqInv
<1> QED BY <1>1, <1>2, ReqStep, PTL DEF ReqSpec

-----------------------------------------------------------------------------
(* Benchlists and what the chains are told.                                *)

BlTypes ==
  /\ chainHandlers \in [Chains -> {"new", "running", "stopped"}]
  /\ closing \in BOOLEAN
  /\ peers \in [Nodes -> SUBSET Subnets]
  /\ benched \in [Nodes -> SUBSET Chains]
  /\ told \in [Chains -> [Nodes -> Int]]
  /\ benchlistSet \in [Chains -> SUBSET Nodes]
  /\ expired \in [Chains -> SUBSET Nodes]
  /\ unbenching \in [Chains -> Nodes \cup {None}]
  /\ benching \in (Chains \X Nodes) \cup {None}

(* A peer is connected to the primary network before all others.           *)
PrimaryFirst == \A n \in Nodes : peers[n] # {} => PrimaryNetworkID \in peers[n]

(* What the lock of a benchlist guards: a node that is being benched is in *)
(* the list, one that is taken off is not, and never both at a time.       *)
LockInv ==
  /\ \A c \in Chains : expired[c] \subseteq benchlistSet[c]
  /\ \A c \in Chains, n \in Nodes :
       /\ benching = <<c, n>> => unbenching[c] = None /\ n \in benchlistSet[c] \ expired[c]
       /\ unbenching[c] = n => n \notin benchlistSet[c]

(* The router's record of a benchlist lags behind by the call in progress. *)
BenchInv ==
  \A c \in Chains, n \in Nodes :
    c \in benched[n] <=> \/ n \in benchlistSet[c] /\ benching # <<c, n>>
                        \/ unbenching[c] = n

(* A node that a chain should take for connected, by the router's record.  *)
Counts(c, n) == peers[n] # {} /\ Tracks(peers[n], c) /\ benched[n] = {}

ToldInv ==
  \A c \in Chains, n \in Nodes :
    IsRunning(c) => told[c][n] = IF Counts(c, n) THEN 1 ELSE 0

BlInv == BlTypes /\ PrimaryFirst /\ LockInv /\ (~closing => BenchInv /\ ToldInv)

(* The locks and lists that the router's own steps leave alone.            *)
LEMMA SameLists ==
  ASSUME UNCHANGED <<benching, unbenching, benchlistSet, expired>>
  PROVE  /\ LockInv => LockInv'
         /\ (BenchInv /\ UNCHANGED benched) => BenchInv'
BY DEF LockInv, BenchInv

(* Steps that neither the router's records nor the chains notice.          *)
LEMMA SameTold ==
  ASSUME ToldInv, UNCHANGED <<chainHandlers, peers, benched, told>>
  PROVE  ToldInv'
BY DEF ToldInv, IsRunning, Counts, Tracks

(* AddChain tells the new chain of the peers that are not benched.         *)
LEMMA AddChainKeeps ==
  ASSUME BlInv, NEW c \in Chains, AddChain(c)
  PROVE  BlInv'
<1> USE DEF BlInv, AddChain, AddHandler, lockVars, listVars
<1>1. BlTypes'
  BY DEF BlTypes
<1>2. PrimaryFirst'
  BY DEF PrimaryFirst
<1>3. LockInv' /\ BenchInv'
  BY SameLists
<1>4. ToldInv'
  BY DEF ToldInv, BlTypes, IsRunning, Counts, Tracks
<1> QED BY <1>1, <1>2, <1>3, <1>4

(* A chain that stops, and a router that closes, is told no more.          *)
LEMMA StopKeeps ==
  ASSUME BlInv, ShutdownRouter \/ \E c \in Chains : RemoveChain(c)
  PROVE  BlInv'
<1> USE DEF BlInv, ShutdownRouter, Shutdown, RemoveChain, removeChain, lockVars, listVars, peerVars
<1>1. BlTypes'
  BY Zenon DEF BlTypes
<1>2. PrimaryFirst' /\ LockInv'
  BY SameLists DEF PrimaryFirst
<1>3. ~closing' => ~closing /\ BenchInv'
  BY SameLists
<1>4. ASSUME ~closing' PROVE ToldInv'
  BY <1>4 DEF ToldInv, BlTypes, IsRunning, Counts, Tracks
<1> QED BY <1>1, <1>2, <1>3, <1>4

(* A connection is told to the chains of the subnet, unless benched.       *)
LEMMA ConnectedKeeps ==
  ASSUME BlInv, NEW n \in Nodes, NEW s \in Subnets, Connected(n, s)
  PROVE  BlInv'
<1> DEFINE to == IF benched[n] = {} THEN ConnectedTo(s) ELSE {}
<1>1. BlTypes /\ PrimaryFirst /\ LockInv /\ BenchInv /\ ToldInv
  BY Zenon DEF BlInv, Connected
<1>2. /\ s \notin peers[n] /\ (s = PrimaryNetworkID \/ PrimaryNetworkID \in peers[n])
      /\ peers' = [peers EXCEPT ![n] = @ \cup {s}]
      /\ Tell(n, to, 1)
  BY Zenon DEF Connected
<1>3. /\ UNCHANGED <<chainHandlers, closing, benched>>
      /\ UNCHANGED <<benching, unbenching, benchlistSet, expired>>
  BY Zenon DEF Connected, routerVars, lockVars, listVars
<1>4. to \in SUBSET Chains
  BY DEF ConnectedTo
<1> HIDE DEF to
<1>5. /\ told' \in [Chains -> [Nodes -> Int]]
      /\ \A c \in Chains, m \in Nodes :
           told'[c][m] = IF IsRunning(c) /\ c \in to /\ m = n THEN told[c][m] + 1 ELSE told[c][m]
  BY <1>1, <1>2, <1>4 DEF Tell, BlTypes
<1>6. /\ peers'[n] = peers[n] \cup {s}
      /\ \A m \in Nodes : m # n => peers'[m] = peers[m]
      /\ peers' \in [Nodes -> SUBSET Subnets]
  BY <1>1, <1>2 DEF BlTypes
<1>7. BlTypes' /\ PrimaryFirst'
  <2>1. BlTypes'
    BY Zenon, <1>1, <1>3, <1>5, <1>6 DEF BlTypes
  <2> QED BY <1>1, <1>2, <1>6, <2>1 DEF PrimaryFirst
<1>8. LockInv' /\ BenchInv'
  BY Zenon, <1>1, <1>3, SameLists
<1>9. ToldInv'
  <2> SUFFICES ASSUME NEW c \in Chains, NEW m \in Nodes, IsRunning(c)
               PROVE  told'[c][m] = IF Counts(c, m)' THEN 1 ELSE 0
    BY Zenon, <1>3 DEF ToldInv, IsRunning
  <2>1. told[c][m] = IF Counts(c, m) THEN 1 ELSE 0
    BY Zenon, <1>1 DEF ToldInv
  <2>2. CASE ~(m = n /\ c \in to)
    <3>1. Counts(c, m)' <=> Counts(c, m)
      <4>1. CASE m # n
        BY <1>3, <1>6, <4>1 DEF Counts, Tracks
      <4>2. CASE m = n /\ c \notin to
        BY <1>1, <1>2, <1>3, <1>6, <4>2 DEF Counts, Tracks, to, ConnectedTo, PrimaryFirst
      <4> QED BY <2>2, <4>1, <4>2
    <3>2. told'[c][m] = told[c][m]
      BY Zenon, <1>5, <2>2
    <3> QED BY Zenon, <2>1, <3>1, <3>2
  <2>3. CASE m = n /\ c \in to
    <3>1. Counts(c, m)' /\ ~Counts(c, m)
      BY <1>1, <1>2, <1>3, <1>6, <2>3 DEF Counts, Tracks, to, ConnectedTo, PrimaryFirst
    <3>2. told'[c][m] = told[c][m] + 1 /\ told[c][m] = 0
      BY Zenon, <1>5, <2>1, <2>3, <3>1
    <3>3. told'[c][m] = 1
      BY <3>2
    <3> QED BY Zenon, <3>1, <3>3
  <2> QED BY Zenon, <2>2, <2>3
<1> QED BY Zenon, <1>7, <1>8, <1>9 DEF BlInv

(* The end of a connection is told to the chains that knew of it.          *)
LEMMA DisconnectedKeeps ==
  ASSUME BlInv, NEW n \in Nodes, Disconnected(n)
  PROVE  BlInv'
<1> DEFINE to == IF benched[n] = {} THEN Tracking(n) ELSE {}
<1>1. BlTypes /\ PrimaryFirst /\ LockInv /\ BenchInv /\ ToldInv
  BY Zenon DEF BlInv, Disconnected
<1>2. /\ peers[n] # {} /\ peers' = [peers EXCEPT ![n] = {}]
      /\ Tell(n, to, -1)
  BY Zenon DEF Disconnected
<1>3. /\ UNCHANGED <<chainHandlers, closing, benched>>
      /\ UNCHANGED <<benching, unbenching, benchlistSet, expired>>
  BY Zenon DEF Disconnected, routerVars, lockVars, listVars
<1>4. to \in SUBSET Chains
  BY Zenon DEF Tracking
<1> HIDE DEF to
<1>5. /\ told' \in [Chains -> [Nodes -> Int]]
      /\ \A c \in Chains, m \in Nodes :
           told'[c][m] = IF IsRunning(c) /\ c \in to /\ m = n THEN told[c][m] + (-1) ELSE told[c][m]
  BY <1>1, <1>2, <1>4 DEF Tell, BlTypes
<1>6. /\ peers'[n] = {}
      /\ \A m \in Nodes : m # n => peers'[m] = peers[m]
      /\ peers' \in [Nodes -> SUBSET Subnets]
  BY <1>1, <1>2 DEF BlTypes
<1>7. BlTypes' /\ PrimaryFirst'
  <2>1. BlTypes'
    BY Zenon, <1>1, <1>3, <1>5, <1>6 DEF BlTypes
  <2> QED BY <1>1, <1>6, <2>1 DEF PrimaryFirst
<1>8. LockInv' /\ BenchInv'
  BY Zenon, <1>1, <1>3, SameLists
<1>9. ToldInv'
  <2> SUFFICES ASSUME NEW c \in Chains, NEW m \in Nodes, IsRunning(c)
               PROVE  told'[c][m] = IF Counts(c, m)' THEN 1 ELSE 0
    BY Zenon, <1>3 DEF ToldInv, IsRunning
  <2>1. told[c][m] = IF Counts(c, m) THEN 1 ELSE 0
    BY Zenon, <1>1 DEF ToldInv
  <2>2. CASE ~(m = n /\ c \in to)
    <3>1. Counts(c, m)' <=> Counts(c, m)
      <4>1. CASE m # n
        BY <1>3, <1>6, <4>1 DEF Counts, Tracks
      <4>2. CASE m = n /\ c \notin to
        BY <1>6, <4>2 DEF Counts, Tracks, to, Tracking
      <4> QED BY <2>2, <4>1, <4>2
    <3>2. told'[c][m] = told[c][m]
      BY Zenon, <1>5, <2>2
    <3> QED BY Zenon, <2>1, <3>1, <3>2
  <2>3. CASE m = n /\ c \in to
    <3>1. ~Counts(c, m)' /\ Counts(c, m)
      BY <1>2, <1>6, <2>3 DEF Counts, Tracks, to, Tracking
    <3>2. told'[c][m] = told[c][m] + (-1) /\ told[c][m] = 1
      BY Zenon, <1>5, <2>1, <2>3, <3>1
    <3>3. told'[c][m] = 0
      BY <3>2
    <3> QED BY Zenon, <3>1, <3>3
  <2> QED BY Zenon, <2>2, <2>3
<1> QED BY Zenon, <1>7, <1>8, <1>9 DEF BlInv

(* The router's part of benching a node, which no benchlist's lock but the *)
(* caller's is needed for.                                                 *)
LEMMA BenchedTells ==
  ASSUME BlTypes, ~closing, ToldInv, NEW c \in Chains, NEW n \in Nodes, Benched(c, n),
         UNCHANGED <<chainHandlers, peers>>
  PROVE  /\ told' \in [Chains -> [Nodes -> Int]]
         /\ benched' = [benched EXCEPT ![n] = @ \cup {c}]
         /\ ToldInv'
<1> DEFINE to == IF benched[n] = {} /\ peers[n] # {} THEN Tracking(n) ELSE {}
<1>0. to \in SUBSET Chains /\ Tell(n, to, -1) /\ benched' = [benched EXCEPT ![n] = @ \cup {c}]
  BY DEF Tracking, Benched
<1> HIDE DEF to
<1>1. /\ told' \in [Chains -> [Nodes -> Int]]
      /\ \A d \in Chains, m \in Nodes :
           told'[d][m] = IF IsRunning(d) /\ d \in to /\ m = n THEN told[d][m] + (-1) ELSE told[d][m]
  BY <1>0 DEF Tell, BlTypes
<1>2. ToldInv'
  <2> SUFFICES ASSUME NEW d \in Chains, NEW m \in Nodes, IsRunning(d)
               PROVE  told'[d][m] = IF Counts(d, m)' THEN 1 ELSE 0
    BY DEF ToldInv, IsRunning
  <2>1. told[d][m] = IF Counts(d, m) THEN 1 ELSE 0
    BY DEF ToldInv
  <2>2. CASE m # n
    BY <1>0, <1>1, <2>1, <2>2 DEF BlTypes, Counts, Tracks
  <2>3. CASE m = n /\ d \in to
    <3>1. ~Counts(d, m)' /\ Counts(d, m)
      BY <1>0, <2>3 DEF to, BlTypes, Counts, Tracks, Tracking
    <3>2. told'[d][m] = told[d][m] + (-1)
      BY Zenon, <1>1, <2>3
    <3>3. told[d][m] = 1
      BY Zenon, <2>1, <3>1
    <3>4. told'[d][m] = 0
      BY <3>2, <3>3
    <3> QED BY Zenon, <3>1, <3>4
  <2>4. CASE m = n /\ d \notin to
    <3>1. ~Counts(d, m)' /\ ~Counts(d, m)
      BY <1>0, <2>4 DEF to, BlTypes, Counts, Tracks, Tracking
    <3> QED BY Zenon, <1>1, <2>1, <2>4, <3>1
  <2> QED BY <2>2, <2>3, <2>4
<1> QED BY <1>0, <1>1, <1>2

(* The router's part of releasing a node that it has on record.            *)
LEMMA UnbenchedTells ==
  ASSUME BlTypes, ~closing, ToldInv, NEW c \in Chains, NEW n \in Nodes, Unbenched(c, n),
         c \in benched[n], UNCHANGED <<chainHandlers, peers>>
  PROVE  /\ told' \in [Chains -> [Nodes -> Int]]
         /\ benched' = [benched EXCEPT ![n] = @ \ {c}]
         /\ ToldInv'
<1> DEFINE to == IF benched[n] \subseteq {c} /\ peers[n] # {} THEN Tracking(n) ELSE {}
<1>0. to \in SUBSET Chains /\ Tell(n, to, 1) /\ benched' = [benched EXCEPT ![n] = @ \ {c}]
  BY DEF Tracking, Unbenched
<1> HIDE DEF to
<1>1. /\ told' \in [Chains -> [Nodes -> Int]]
      /\ \A d \in Chains, m \in Nodes :
           told'[d][m] = IF IsRunning(d) /\ d \in to /\ m = n THEN told[d][m] + 1 ELSE told[d][m]
  BY <1>0 DEF Tell, BlTypes
<1>2. ToldInv'
  <2> SUFFICES ASSUME NEW d \in Chains, NEW m \in Nodes, IsRunning(d)
               PROVE  told'[d][m] = IF Counts(d, m)' THEN 1 ELSE 0
    BY DEF ToldInv, IsRunning
  <2>1. told[d][m] = IF Counts(d, m) THEN 1 ELSE 0
    BY DEF ToldInv
  <2>2. CASE m # n
    BY <1>0, <1>1, <2>1, <2>2 DEF BlTypes, Counts, Tracks
  <2>3. CASE m = n /\ d \in to
    <3>1. Counts(d, m)' /\ ~Counts(d, m)
      BY <1>0, <2>3 DEF to, BlTypes, Counts, Tracks, Tracking
    <3>2. told'[d][m] = told[d][m] + 1
      BY Zenon, <1>1, <2>3
    <3>3. told[d][m] = 0
      BY Zenon, <2>1, <3>1
    <3>4. told'[d][m] = 1
      BY <3>2, <3>3
    <3> QED BY Zenon, <3>1, <3>4
  <2>4. CASE m = n /\ d \notin to
    <3>1. ~Counts(d, m)' /\ ~Counts(d, m)
      BY <1>0, <2>4 DEF to, BlTypes, Counts, Tracks, Tracking
    <3> QED BY Zenon, <1>1, <2>1, <2>4, <3>1
  <2> QED BY <2>2, <2>3, <2>4
<1> QED BY <1>0, <1>1, <1>2

(* Steps of the goroutines that touch neither records nor lists.           *)
LEMMA OtherBenchKeeps ==
  ASSUME BlInv,
         UNCHANGED <<routerVars, peerVars, benching, unbenching, benchlistSet, expired>>
  PROVE  BlInv'
<1> USE DEF routerVars, peerVars
<1>1. BlTypes'
  BY DEF BlInv, BlTypes
<1>2. PrimaryFirst' /\ LockInv'
  BY SameLists DEF BlInv, PrimaryFirst
<1>3. ~closing' => BenchInv' /\ ToldInv'
  BY SameLists, SameTold DEF BlInv
<1> QED BY <1>1, <1>2, <1>3 DEF BlInv

(* Time passes for a node that no call is in progress for.                 *)
LEMMA ExpireKeeps ==
  ASSUME BlInv, NEW c \in Chains, NEW n \in Nodes, Expire(c, n)
  PROVE  BlInv'
<1> USE DEF BlInv, Expire, BenchFree, routerVars, peerVars, lockVars
<1>1. BlTypes'
  BY DEF BlTypes
<1>2. PrimaryFirst' /\ LockInv'
  BY DEF BlTypes, PrimaryFirst, LockInv
<1>3. ~closing' => BenchInv' /\ ToldInv'
  BY SameTold DEF BenchInv
<1> QED BY <1>1, <1>2, <1>3

(* RegisterFailure counts, and may put the node in the list.               *)
LEMMA FailureKeeps ==
  ASSUME BlInv, NEW c \in Chains, NEW n \in Nodes, RegisterFailure(c, n)
  PROVE  BlInv'
<1>1. CASE UNCHANGED <<benching, benchlistSet>>
  BY <1>1, OtherBenchKeeps DEF RegisterFailure
<1>2. CASE /\ benching' = <<c, n>>
           /\ benchlistSet' = [benchlistSet EXCEPT ![c] = @ \cup {n}]
  <2>0. /\ benching = None /\ BenchFree(c) /\ n \notin benchlistSet[c]
        /\ UNCHANGED <<routerVars, peerVars, unbenching, expired>>
    BY DEF RegisterFailure
  <2> USE DEF routerVars, peerVars
  <2>1. BlTypes'
    BY <1>2, <2>0 DEF BlInv, BlTypes
  <2>2. PrimaryFirst'
    BY Zenon, <2>0 DEF BlInv, PrimaryFirst
  <2>3. LockInv'
    BY <1>2, <2>0, NoneAssumption DEF BlInv, BlTypes, LockInv, BenchFree
  <2>4. BenchInv => BenchInv'
    BY <1>2, <2>0, NoneAssumption DEF BlInv, BlTypes, BenchInv, BenchFree
  <2>5. ToldInv => ToldInv'
    BY <2>0, SameTold
  <2> QED BY <2>0, <2>1, <2>2, <2>3, <2>4, <2>5 DEF BlInv
<1> QED BY <1>1, <1>2 DEF RegisterFailure

(* bench() brings the record of the router up to the list.                 *)
LEMMA BenchKeeps ==
  ASSUME BlInv, NEW c \in Chains, NEW n \in Nodes, Bench(c, n)
  PROVE  BlInv'
<1>0. /\ benching = <<c, n>> /\ benching' = None /\ Benched(c, n)
      /\ UNCHANGED <<chainHandlers, closing, peers, unbenching, benchlistSet, expired>>
  BY DEF Bench, routerVars
<1>1. PrimaryFirst' /\ LockInv'
  BY <1>0, NoneAssumption DEF BlInv, PrimaryFirst, LockInv
<1>2. CASE closing
  BY <1>0, <1>1, <1>2 DEF BlInv, BlTypes, Benched
<1>3. CASE ~closing
  <2>1. /\ told' \in [Chains -> [Nodes -> Int]]
        /\ benched' = [benched EXCEPT ![n] = @ \cup {c}]
        /\ ToldInv'
    BY <1>0, <1>3, BenchedTells DEF BlInv
  <2>2. BlTypes'
    BY <1>0, <2>1 DEF BlInv, BlTypes
  <2>3. BenchInv'
    <3> SUFFICES ASSUME NEW d \in Chains, NEW m \in Nodes
                 PROVE  d \in benched'[m] <=> \/ m \in benchlistSet[d]
                                             \/ unbenching[d] = m
      BY <1>0, NoneAssumption DEF BenchInv
    <3>1. d \in benched[m] <=> \/ m \in benchlistSet[d] /\ <<c, n>> # <<d, m>>
                               \/ unbenching[d] = m
      BY Zenon, <1>0, <1>3 DEF BlInv, BenchInv
    <3>2. n \in benchlistSet[c]
      BY <1>0 DEF BlInv, LockInv
    <3>3. benched \in [Nodes -> SUBSET Chains]
      BY Zenon DEF BlInv, BlTypes
    <3>4. d \in benched'[m] <=> d \in benched[m] \/ (m = n /\ d = c)
      BY <2>1, <3>3
    <3> QED BY <3>1, <3>2, <3>4
  <2> QED BY <1>1, <2>1, <2>2, <2>3 DEF BlInv
<1> QED BY <1>2, <1>3

(* The loop of the goroutine: the router is told of the node that was      *)
(* taken off, if any, and the next expired one is taken.                   *)
LEMMA RemoveKeeps ==
  ASSUME BlInv, NEW c \in Chains, removedExpiredNodes(c)
  PROVE  BlInv'
<1>0. UNCHANGED <<chainHandlers, closing, peers, benching>>
  BY Zenon DEF removedExpiredNodes, routerVars
<1>1. \A n \in Nodes : benching # <<c, n>>
  BY NoneAssumption DEF removedExpiredNodes, BenchFree, BlInv, BlTypes, LockInv
<1>2. PICK next \in Nodes \cup {None} :
        /\ unbenching' = [unbenching EXCEPT ![c] = next]
        /\ benchlistSet' = [benchlistSet EXCEPT ![c] = @ \ {next}]
        /\ expired' = [expired EXCEPT ![c] = @ \ {next}]
        /\ next # None => next \in expired[c]
  <2>1. NextExpired(c) /\ expired \in [Chains -> SUBSET Nodes] /\ benchlistSet \in [Chains -> SUBSET Nodes]
    BY Zenon DEF removedExpiredNodes, BlInv, BlTypes
  <2>2. CASE \E n \in expired[c] :
               /\ unbenching' = [unbenching EXCEPT ![c] = n]
               /\ benchlistSet' = [benchlistSet EXCEPT ![c] = @ \ {n}]
               /\ expired' = [expired EXCEPT ![c] = @ \ {n}]
    <3>1. expired[c] \subseteq Nodes
      BY <2>1
    <3> QED BY Zenon, <2>2, <3>1
  <2>3. CASE /\ unbenching' = [unbenching EXCEPT ![c] = None]
             /\ UNCHANGED <<benchlistSet, expired>>
    <3>1. /\ benchlistSet = [benchlistSet EXCEPT ![c] = @ \ {None}]
          /\ expired = [expired EXCEPT ![c] = @ \ {None}]
      BY <2>1, NoneAssumption
    <3>2. benchlistSet' = benchlistSet /\ expired' = expired
      BY <2>3
    <3> QED BY Zenon, <2>3, <3>1, <3>2
  <2> QED BY Zenon, <2>1, <2>2, <2>3 DEF NextExpired
<1>3. PrimaryFirst' /\ LockInv'
  BY <1>0, <1>1, <1>2, NoneAssumption DEF BlInv, BlTypes, PrimaryFirst, LockInv
<1>4. /\ \A d \in Chains : d # c => /\ benchlistSet'[d] = benchlistSet[d]
                                   /\ unbenching'[d] = unbenching[d]
      /\ \A m \in Nodes : m \in benchlistSet'[c] \/ unbenching'[c] = m <=> m \in benchlistSet[c]
  <2>1. /\ benchlistSet \in [Chains -> SUBSET Nodes]
        /\ unbenching \in [Chains -> Nodes \cup {None}]
        /\ expired[c] \subseteq benchlistSet[c]
    BY Zenon DEF BlInv, BlTypes, LockInv
  <2>2. /\ benchlistSet'[c] = benchlistSet[c] \ {next} /\ unbenching'[c] = next
        /\ next # None => next \in benchlistSet[c]
    BY <1>2, <2>1
  <2>3. ASSUME NEW d \in Chains, d # c
        PROVE  benchlistSet'[d] = benchlistSet[d] /\ unbenching'[d] = unbenching[d]
    BY <1>2, <2>1, <2>3
  <2> QED BY <2>2, <2>3, NoneAssumption
<1>5. CASE BenchFree(c) /\ UNCHANGED <<benched, told>>
  <2>1. BlTypes'
    BY Zenon, <1>0, <1>2, <1>5 DEF BlInv, BlTypes
  <2>2. ASSUME ~closing PROVE BenchInv'
    <3> SUFFICES ASSUME NEW d \in Chains, NEW m \in Nodes
                 PROVE  d \in benched[m] <=> \/ m \in benchlistSet'[d] /\ benching # <<d, m>>
                                            \/ unbenching'[d] = m
      BY Zenon, <1>0, <1>5 DEF BenchInv
    <3>1. d \in benched[m] <=> \/ m \in benchlistSet[d] /\ benching # <<d, m>>
                               \/ unbenching[d] = m
      BY Zenon, <2>2 DEF BlInv, BenchInv
    <3>2. CASE d # c
      BY Zenon, <1>4, <3>1, <3>2
    <3>3. CASE d = c
      <4>1. unbenching[c] = None
        BY Zenon, <1>5 DEF BenchFree
      <4> QED BY <1>1, <1>4, <3>1, <3>3, <4>1, NoneAssumption
    <3> QED BY Zenon, <3>2, <3>3
  <2>3. ASSUME ~closing PROVE ToldInv'
    BY <1>0, <1>5, <2>3, SameTold DEF BlInv
  <2> QED BY <1>0, <1>3, <2>1, <2>2, <2>3 DEF BlInv
<1>6. CASE unbenching[c] # None /\ Unbenched(c, unbenching[c])
  <2>1. unbenching[c] \in Nodes
    BY <1>6 DEF BlInv, BlTypes
  <2>2. CASE closing
    BY Zenon, <1>0, <1>2, <1>3, <1>6, <2>2 DEF BlInv, BlTypes, Unbenched
  <2>3. CASE ~closing
    <3>1. c \in benched[unbenching[c]]
      BY Zenon, <2>1, <2>3 DEF BlInv, BenchInv
    <3>2. /\ told' \in [Chains -> [Nodes -> Int]]
          /\ benched' = [benched EXCEPT ![unbenching[c]] = @ \ {c}]
          /\ ToldInv'
      BY <1>0, <1>6, <2>1, <2>3, <3>1, UnbenchedTells DEF BlInv
    <3>3. BlTypes'
      BY Zenon, <1>0, <1>2, <3>2 DEF BlInv, BlTypes
    <3>4. BenchInv'
      <4> SUFFICES ASSUME NEW d \in Chains, NEW m \in Nodes
                   PROVE  d \in benched'[m] <=> \/ m \in benchlistSet'[d] /\ benching # <<d, m>>
                                               \/ unbenching'[d] = m
        BY Zenon, <1>0 DEF BenchInv
      <4>1. d \in benched[m] <=> \/ m \in benchlistSet[d] /\ benching # <<d, m>>
                                 \/ unbenching[d] = m
        BY Zenon, <2>3 DEF BlInv, BenchInv
      <4>2. benched \in [Nodes -> SUBSET Chains]
        BY Zenon DEF BlInv, BlTypes
      <4>3. CASE d # c
        <5>1. d \in benched'[m] <=> d \in benched[m]
          BY <2>1, <3>2, <4>2, <4>3
        <5> QED BY Zenon, <4>1, <4>3, <5>1, <1>4
      <4>4. CASE d = c
        <5>1. d \in benched'[m] <=> d \in benched[m] /\ m # unbenching[c]
          BY <2>1, <3>2, <4>2, <4>4
        <5>2. unbenching[c] \notin benchlistSet[c]
          BY <2>1 DEF BlInv, LockInv
        <5> QED BY <1>1, <1>4, <4>1, <4>4, <5>1, <5>2
      <4> QED BY Zenon, <4>3, <4>4
    <3> QED BY <1>3, <3>2, <3>3, <3>4 DEF BlInv
  <2> QED BY <2>2, <2>3
<1> QED BY Zenon, <1>5, <1>6 DEF removedExpiredNodes

(* Every step of the benchlists and of the router keeps BlInv.             *)
LEMMA BlStep == BlInv /\ [BlNext]_blVars => BlInv'
<1> SUFFICES ASSUME BlInv, [BlNext]_blVars PROVE BlInv'
  OBVIOUS
<1>1. CASE UNCHANGED blVars
  BY <1>1, OtherBenchKeeps DEF blVars, lockVars, listVars
<1>2. ASSUME NEW c \in Chains, AddChain(c) PROVE BlInv'
  BY <1>2, AddChainKeeps
<1>3. CASE ShutdownRouter \/ \E c \in Chains : RemoveChain(c)
  BY <1>3, StopKeeps
<1>4. ASSUME NEW c \in Chains, Wake(c) \/ waitForBenchedNodes(c) PROVE BlInv'
  BY <1>4, OtherBenchKeeps DEF Wake, waitForBenchedNodes, lockVars
<1>5. ASSUME NEW c \in Chains, removedExpiredNodes(c) PROVE BlInv'
  BY <1>5, RemoveKeeps
<1>6. CASE RegisterResponse
  BY <1>6, OtherBenchKeeps DEF RegisterResponse
<1>7. ASSUME NEW n \in Nodes, Disconnected(n) PROVE BlInv'
  BY <1>7, DisconnectedKeeps
<1>8. ASSUME NEW n \in Nodes, NEW s \in Subnets, Connected(n, s) PROVE BlInv'
  BY <1>8, ConnectedKeeps
<1>9. ASSUME NEW c \in Chains, NEW n \in Nodes, HandleInbound(c, n) PROVE BlInv'
  BY <1>9, OtherBenchKeeps DEF HandleInbound, listVars
<1>10. ASSUME NEW c \in Chains, NEW n \in Nodes, RegisterFailure(c, n) PROVE BlInv'
  BY <1>10, FailureKeeps
<1>11. ASSUME NEW c \in Chains, NEW n \in Nodes, Bench(c, n) PROVE BlInv'
  BY <1>11, BenchKeeps
<1>12. ASSUME NEW c \in Chains, NEW n \in Nodes, Expire(c, n) PROVE BlInv'
  BY <1>12, ExpireKeeps
<1> QED BY <1>1, <1>2, <1>3, <1>4, <1>5, <1>6, <1>7, <1>8, <1>9, <1>10, <1>11, <1>12
        DEF BlNext, Running

(* The chains' view of a node is that it is connected exactly when it is a *)
(* peer that tracks the chain and no benchlist holds it: the invariant of  *)
(* the router's benched map, for any number of nodes, chains and subnets.  *)
THEOREM ChainsSeePeersHolds == BlSpec => []ChainsSeePeers
<1>1. BlInit => BlInv
  <2> SUFFICES ASSUME BlInit PROVE BlInv
    OBVIOUS
  <2>1. BlTypes
    <3>1. chainHandlers \in [Chains -> {"new", "running", "stopped"}]
      BY DEF BlInit, RouterInit
    <3>2. closing \in BOOLEAN
      BY Zenon DEF BlInit, RouterInit
    <3> QED BY <3>1, <3>2 DEF BlInit, BlTypes
  <2>2. PrimaryFirst /\ BenchInv
    BY NoneAssumption DEF BlInit, PrimaryFirst, BenchInv
  <2>3. LockInv
    BY NoneAssumption DEF BlInit, LockInv
  <2>4. ToldInv
    BY DEF BlInit, ToldInv, Counts
  <2> QED BY <2>1, <2>2, <2>3, <2>4 DEF BlInv
<1>2. BlInv => ChainsSeePeers
  <2> SUFFICES ASSUME BlInv, ~closing, \A d \in Chains : BenchFree(d),
                      NEW c \in Chains, IsRunning(c), NEW n \in Nodes
               PROVE  told[c][n] = IF /\ peers[n] # {} /\ Tracks(peers[n], c)
                                      /\ \A d \in Chains : n \notin benchlistSet[d]
                                   THEN 1 ELSE 0
    BY DEF ChainsSeePeers
  <2>1. benched[n] = {} <=> \A d \in Chains : n \notin benchlistSet[d]
    BY NoneAssumption DEF BlInv, BlTypes, BenchInv, BenchFree
  <2> QED BY <2>1 DEF BlInv, ToldInv, Counts
<1> QED BY <1>1, <1>2, BlStep, PTL DEF BlSpec

-----------------------------------------------------------------------------
(* The handler of a chain.                                                 *)

Phases == {"off", "loop", "handling", "stopping", "closed"}

(* The variables of the handler are functions.                             *)
HandlerTypes ==
  /\ dispatcher \in [Dispatchers -> Phases]
  /\ current = [q \in Queues |-> current[q]]
  /\ pool = [w \in Threads |-> pool[w]]
  /\ queue = [q \in Queues |-> queue[q]]
  /\ closedQueues \subseteq Queues

(* A dispatcher has a message only while it handles it, and threads have   *)
(* messages only while dispatchAsync runs; a handler is closed when all    *)
(* dispatchers are or none ever ran; Stop leaves queues closed and empty.  *)
QuietInv ==
  /\ HandlerTypes
  /\ \A q \in Queues : current[q] # NoMsg => dispatcher[q] = "handling"
  /\ dispatcher["async"] # "stopping"
  /\ dispatcher["async"] \in {"off", "closed"} => \A w \in Threads : pool[w] = NoMsg
  /\ gear = "new" => ~closed /\ \A d \in Dispatchers : dispatcher[d] = "off"
  /\ closed => \/ \A d \in Dispatchers : dispatcher[d] = "off"
               \/ \A d \in Dispatchers : dispatcher[d] = "closed"
  /\ \A q \in closedQueues : queue[q] = <<>>
  /\ stop \in {"async", "chans", "done"} => "sync" \in closedQueues
  /\ stop \in {"chans", "done"} => "async" \in closedQueues

(* QuietInv is stronger than ClosedIsQuiet.                                *)
LEMMA QuietImplies == QuietInv => ClosedIsQuiet
  BY SMT DEF QuietInv, HandlerTypes, ClosedIsQuiet, Queues, Dispatchers

(* When AddChain has registered a handler, nothing runs yet.               *)
LEMMA QuietInit == PeeringInit => QuietInv
  BY Zenon DEF PeeringInit, HandlerInit, QuietInv, HandlerTypes, Queues, Dispatchers, Phases

(* What a peer does to the handler is to push to a queue that is open, or  *)
(* nothing.                                                                *)
LEMMA PushKeepsQuiet ==
  ASSUME QuietInv,
         NEW q \in Queues, NEW m,
         \/ UNCHANGED queue
         \/ q \notin closedQueues /\ queue' = [queue EXCEPT ![q] = Append(@, m)],
         UNCHANGED <<gear, closedQueues, dispatcher, current, pool, stop, closed>>
  PROVE  QuietInv'
<1>1. queue' = [r \in Queues |-> queue'[r]]
  BY DEF QuietInv, HandlerTypes
<1>2. \A r \in closedQueues : queue'[r] = queue[r]
  BY DEF QuietInv, HandlerTypes
<1> QED BY Zenon, <1>1, <1>2 DEF QuietInv, HandlerTypes

(* The steps of the handler keep QuietInv.                                 *)
LEMMA HandlerKeepsQuiet == QuietInv /\ HandlerNext => QuietInv'
<1> SUFFICES ASSUME QuietInv, HandlerNext PROVE QuietInv'
  OBVIOUS
<1> USE DEF Queues, Dispatchers, Phases
<1>1. CASE StartHandler
  <2>1. CASE gear' = "started" /\ dispatcher' = [d \in Dispatchers |-> "loop"] /\ UNCHANGED closed
    BY Zenon, <1>1, <2>1 DEF StartHandler, QuietInv, HandlerTypes
  <2>2. CASE gear' = "failed" /\ closed' = TRUE /\ UNCHANGED dispatcher
    BY <1>1, <2>2 DEF StartHandler, QuietInv, HandlerTypes
  <2> QED BY Zenon, <1>1, <2>1, <2>2 DEF StartHandler
<1>2. CASE RemoveHandler
  BY <1>2 DEF RemoveHandler, QuietInv, HandlerTypes, Stop
<1>3. CASE CloseChan
  BY <1>3 DEF CloseChan, QuietInv, HandlerTypes
<1>4. ASSUME NEW q \in Queues, CloseQueue(q) PROVE QuietInv'
  <2>1. /\ queue' = [r \in Queues |-> queue'[r]]
        /\ queue'[q] = <<>> /\ \A r \in Queues \ {q} : queue'[r] = queue[r]
    BY Zenon, <1>4 DEF CloseQueue, QuietInv, HandlerTypes
  <2>2. closedQueues' \subseteq Queues /\ \A r \in closedQueues' : queue'[r] = <<>>
    BY Zenon, <1>4, <2>1 DEF CloseQueue, QuietInv, HandlerTypes
  <2> QED BY <1>4, <2>1, <2>2 DEF CloseQueue, QuietInv, HandlerTypes
<1>5. ASSUME NEW q \in Queues, PopMsg(q) PROVE QuietInv'
  <2>1. PICK i \in 1..Len(queue[q]), late \in BOOLEAN :
          /\ queue' = [queue EXCEPT ![q] = SubSeq(@, i + 1, Len(@)) \o SubSeq(@, 1, i - 1)]
          /\ \/ UNCHANGED <<dispatcher, current>>
             \/ /\ dispatcher' = [dispatcher EXCEPT ![q] = "handling"]
                /\ current' = [current EXCEPT ![q] = queue[q][i]]
    BY Zenon, <1>5 DEF PopMsg
  <2>2. /\ queue' = [r \in Queues |-> queue'[r]]
        /\ \A r \in Queues \ {q} : queue'[r] = queue[r]
    BY Zenon, <2>1 DEF QuietInv, HandlerTypes
  <2>3. \A r \in closedQueues : queue'[r] = <<>>
    BY Zenon, <1>5, <2>2 DEF PopMsg, QuietInv, HandlerTypes
  <2>4. /\ UNCHANGED <<gear, closedQueues, pool, stop, closed>>
        /\ dispatcher[q] = "loop"
    BY <1>5 DEF PopMsg
  <2>5. CASE UNCHANGED <<dispatcher, current>>
    BY <2>2, <2>3, <2>4, <2>5 DEF QuietInv, HandlerTypes
  <2>6. CASE /\ dispatcher' = [dispatcher EXCEPT ![q] = "handling"]
             /\ current' = [current EXCEPT ![q] = queue[q][i]]
    BY Zenon, <2>2, <2>3, <2>4, <2>6 DEF QuietInv, HandlerTypes
  <2> QED BY <2>1, <2>5, <2>6
<1>6. CASE HandleSync
  <2>1. PICK phase \in {"loop", "stopping"} : dispatcher' = [dispatcher EXCEPT !["sync"] = phase]
    BY <1>6 DEF HandleSync
  <2>2. stop' \in {stop, "sync"} /\ (stop' # stop => stop = "no")
    BY <1>6 DEF HandleSync, Stop
  <2>3. current' = [current EXCEPT !["sync"] = NoMsg]
    BY <1>6 DEF HandleSync
  <2>4. UNCHANGED <<gear, queue, closedQueues, pool, closed>> /\ dispatcher["sync"] = "handling"
    BY <1>6 DEF HandleSync
  <2> QED BY Zenon, <2>1, <2>2, <2>3, <2>4 DEF QuietInv, HandlerTypes
<1>7. CASE HandleAsync
  BY Zenon, <1>7 DEF HandleAsync, QuietInv, HandlerTypes
<1>8. CASE HandleChan
  BY Zenon, <1>8 DEF HandleChan, QuietInv, HandlerTypes, Stop
<1>9. ASSUME NEW w \in Threads, ExecuteAsync(w) PROVE QuietInv'
  BY Zenon, <1>9 DEF ExecuteAsync, QuietInv, HandlerTypes, Stop
<1>10. ASSUME NEW w \in Threads, ThreadStopped(w) PROVE QuietInv'
  BY Zenon, <1>10 DEF ThreadStopped, QuietInv, HandlerTypes
<1>11. ASSUME NEW d \in Dispatchers, Close(d) PROVE QuietInv'
  BY Zenon, <1>11 DEF Close, QuietInv, HandlerTypes, CloseDispatcher, Closing, CloseAsync
<1> QED
  BY <1>1, <1>2, <1>3, <1>4, <1>5, <1>6, <1>7, <1>8, <1>9, <1>10, <1>11 DEF HandlerNext

(* The steps of a peer keep it.                                            *)
LEMMA PeerKeepsQuiet ==
  ASSUME NEW p \in Peers, QuietInv, PeerNext(p) PROVE QuietInv'
<1> DEFINE quiet == <<gear, closedQueues, dispatcher, current, pool, stop, closed>>
<1>1. ASSUME NEW g, Exit(p, g), UNCHANGED quiet PROVE QuietInv'
  <2>1. \/ UNCHANGED queue
        \/ "sync" \notin closedQueues
           /\ queue' = [queue EXCEPT !["sync"] = Append(@, Connection(p, "disconnected"))]
    BY <1>1 DEF Exit, TellHandler
  <2> QED BY <1>1, <2>1, PushKeepsQuiet DEF Queues
<1>2. ASSUME UNCHANGED <<queue, quiet>> PROVE QuietInv'
  BY <1>2 DEF QuietInv, HandlerTypes
<1>3. CASE StartPeer(p) BY <1>2, <1>3 DEF StartPeer, handlerVars
<1>4. CASE StartClose(p) BY Zenon, <1>2, <1>4 DEF StartClose
<1>5. CASE ExitReader(p) BY <1>1, <1>5 DEF ExitReader
<1>6. CASE ReadLength(p) BY Zenon, <1>2, <1>6 DEF ReadLength, handlerVars
<1>7. CASE AwaitedPlace(p) BY <1>2, <1>7 DEF AwaitedPlace, handlerVars
<1>8. CASE AskBytes(p) BY <1>2, <1>8 DEF AskBytes, handlerVars
<1>9. CASE AwaitedBytes(p) BY <1>2, <1>9 DEF AwaitedBytes, handlerVars
<1>10. CASE Abandon(p) BY <1>1, <1>10 DEF Abandon
<1>11. CASE HandleHere(p)
  <2>1. \/ UNCHANGED queue
        \/ "sync" \notin closedQueues
           /\ queue' = [queue EXCEPT !["sync"] = Append(@, Connection(p, "connected"))]
    BY <1>11 DEF HandleHere, TellHandler
  <2>2. UNCHANGED quiet
    BY <1>11 DEF HandleHere
  <2> QED BY <2>1, <2>2, PushKeepsQuiet DEF Queues
<1>12. CASE HandOn(p)
  <2>1. PICK op \in {"sync", "app"} : Push([op |-> op, node |-> p, size |-> reader[p].size])
    BY <1>12 DEF HandOn
  <2> DEFINE m == [op |-> op, node |-> p, size |-> reader[p].size]
  <2>2. /\ QueueOf(m) \in Queues
        /\ \/ UNCHANGED queue
           \/ /\ QueueOf(m) \notin closedQueues
              /\ queue' = [queue EXCEPT ![QueueOf(m)] = Append(@, m)]
    BY <2>1 DEF Push, QueueOf, Queues
  <2>3. UNCHANGED quiet
    BY <1>12 DEF HandOn
  <2> HIDE DEF m
  <2> QED BY <2>2, <2>3, PushKeepsQuiet
<1>13. ASSUME NEW g \in Goroutines, ExitWriter(p, g) PROVE QuietInv'
  BY Zenon, <1>1, <1>13 DEF ExitWriter
<1> QED
  BY <1>3, <1>4, <1>5, <1>6, <1>7, <1>8, <1>9, <1>10, <1>11, <1>12, <1>13 DEF PeerNext

(* ClosedIsQuiet for every value of the constants: closeDispatcher and     *)
(* shutdown of the handler, whoever stops it and whatever peers push.      *)
THEOREM ClosedIsQuietHolds == InSpec => []ClosedIsQuiet
<1>1. QuietInv /\ [InNext]_inVars => QuietInv'
  <2> SUFFICES ASSUME QuietInv, [InNext]_inVars PROVE QuietInv'
    OBVIOUS
  <2>1. CASE HandlerNext BY <2>1, HandlerKeepsQuiet
  <2>2. ASSUME NEW p \in Peers, PeerNext(p) PROVE QuietInv' BY <2>2, PeerKeepsQuiet
  <2>3. CASE UNCHANGED inVars
    BY <2>3 DEF inVars, handlerVars, QuietInv, HandlerTypes
  <2> QED BY <2>1, <2>2, <2>3 DEF InNext
<1> QED BY <1>1, QuietInit, QuietImplies, PTL DEF InSpec
=============================================================================
