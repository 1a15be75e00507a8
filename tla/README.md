# Verification of avalanche-parallel

TLA+ models of the stateful parts of this repository, TLC runs on small
instances, and TLAPS proofs for every value of the constants.

## The system

The repository has two layers. `pkg/` is the project's own code: a block DAG
with an HTTP node, a worker service, and package `consensus` with a parallel
engine and a DAG. `default/` is a fork of avalanchego, whose consensus,
bootstrapping and networking run the chains of a node.

| Part | Source | State | Modelled in |
|---|---|---|---|
| Blockchain, Block, Transaction, Node | `pkg/blockchain` | mempool, four block maps, height index, one mutex; statuses written outside it | `Blockchain`, `Ledger` |
| Worker service | `pkg/worker/server.go`, `service.go` | task map, bounded channel, worker map, results | `WorkerService` |
| ParallelEngine | `pkg/consensus/adapter.go` | vertices, edges, conflicts, decisions, running flag | `ParallelEngine` |
| ParallelDAG, VertexProcessor | `pkg/consensus/dag.go` | vertices, edges, frontier, statuses, lock, batches | `ParallelDAG` |
| Snowflake tree | `default/snow/consensus/snowball` | a tree of counters with resets put off | `Snow`, `SnowTree` |
| Snowman consensus | `default/snow/consensus/snowman` | block tree, a snowflake tree per block, preferences | `Topological`, `Finality` |
| Polls | `default/snow/consensus/snowman/poll` | outstanding polls with their votes | `Polls` |
| Snowman engine | `default/snow/engine/snowman` | pending blocks, requests, blocked jobs, unverified ancestors | `SnowmanEngine` |
| Bootstrapper | `default/snow/engine/snowman/bootstrap` | interval tree, its database, missing blocks | `Bootstrap` |
| Chain router, timeouts | `default/snow/networking/router`, `timeout`, `utils/timer` | chains, peers, outstanding requests, timeout heap | `Router`, `Requests` |
| Benchlist | `default/snow/networking/benchlist` | failure streaks, benched nodes, a goroutine with a timer | `Benchlist` |
| Inbound throttler | `default/network/throttling` | bytes shared and by stake, places per peer, who waits | `Throttling` |
| Chain handler | `default/snow/networking/handler` | two queues, three dispatchers, a pool of threads, Stop | `ChainHandler` |
| Peers | `default/network/peer`, `default/network/network.go` | goroutines of a peer, its reader, who is connected | `Peering` |

How they interact. The node's HTTP handlers call the Blockchain from many
goroutines, beside the loop that Start launches. `docs/architecture.md` draws
engine, DAG and workers as one pipeline; in the code the packages of `pkg/` do
not call each other. `adapter.go` and `dag.go` declare the same names in package
`consensus`, which does not compile as it stands; each file is modelled as it is
written.

In the fork, a peer's reader waits for the throttler before it reads a message,
and the resources are held until the message has been handled, wherever that
is. The router passes messages to a chain's handler and its queues, and the
handler to the chain's bootstrapper or engine. The bootstrapper catches
up and hands over to the engine. The engine feeds consensus, which keeps one
snowflake tree per block, and collects votes in polls. Requests that time out
count towards benching a node, and a benched node looks disconnected to all
chains. Two joints are modelled as refinements or shared definitions:
`Topological` uses the trie that `SnowTree` is shown to implement, and
`SnowmanEngine` uses of consensus only what `Finality` promises, which
`Topological` is shown to implement.

## Modules

**Blockchain.** A `*Block` or `*Transaction` is a record with an address `n`,
because two objects can have one ID: `ID(b)` is the tuple that `generateBytes`
hashes (height, parents, number of transactions). Each critical section under
`bc.lock` is one action. handleCreateBlock is two, CreateBlock and SubmitBlock.
ProcessPendingBlocks is a snapshot, then per block Spawn, verification,
AcceptBlock, one AcceptTx per transaction (these write statuses without the
lock), and the collection of results, which holds the lock across steps.
`Spec` is the node: clients build on IDs that were submitted. `LibSpec` is the
library: callers may also build on unsubmitted blocks, add a transaction again
and submit blocks of their own making.

**Ledger.** What the DAG promises: known blocks grow on known parents, accepted
blocks grow by sets closed under parents. `Blockchain` implements it with
`known <- DOMAIN blocks` and `accepted <- CommittedIDs`, the accepted map plus,
while a loop holds the lock to collect, the whole snapshot of that round.

**WorkerService.** A handler decodes, records, sends, answers; a pool goroutine
receives, picks a worker, stores a result or drops the task; Server.Start drains
handlers (with a deadline), closes the channel and waits for the pool. Workers
matter only by number; `byte(len(workers))` is `workers % ByteValues`, and the
division by zero ends the process.

**ConsensusGraph, ParallelEngine, ParallelDAG.** The vertices are constants: any
call on a vertex in `Faulty`, or on its transactions, may return an error.
ProcessVertex runs atomically under `e.lock`; DecideTxs holds the lock across
one action per visited vertex. In the DAG the lock is a variable, because
ProcessFrontier keeps it while it waits for the same lock. A batch is a set: a
vertex listed twice in one batch is left out, one in two concurrent batches is
not.

**Snow, SnowTree.** `Snow` has the unary and binary snowflake and the trie that
a snowflake tree stands for: one binary instance per bit, all of which record
every poll. `SnowTree` is the code: a patricia tree that shares an instance
between bits, splits nodes in five ways and puts resets off. Confidence above
Beta is never read and is kept at Beta.

**BlockTree, Topological, Finality.** `Topological` has Add and RecordPoll. A
RecordPoll is several steps, one per block of the vote stack, so that a failing
acceptor can stop it in between; no other call comes between them. `eager` is a
history variable: the trees if no reset was put off. `Finality` is the promise:
one chain is accepted and only conflicting blocks are rejected.

**Polls.** The polls oldest first, and the rule by which one ends early. The
graph of votes and the groups of siblings with a common bit prefix are sets.

**SnowmanEngine.** The engine's methods call each other through the scheduler of
blocked jobs. `agenda` is the call stack: each element is a call, and a handler
starts when the stack is empty. Blocks are found, fetched, verified or not;
polls finish when a vote comes in and accept a chain of blocks that were voted
for.

**Bootstrap.** A block is its height, since what is fetched is on the accepted
chain. `db` and `lastAcceptedHeight` are on disk and survive Stop; `batch` is
the database with execute's unwritten batch applied. A Stop may come between
any two steps.

**Router, Requests, Benchlist.** `Router` holds the chains and the validators.
`Requests` follows each request from registration to the one answer. `Benchlist`
follows peers, benching and the goroutine of each benchlist, with the two locks
that are held while another is waited for.

**Throttling, ChainHandler, Peering.** `Throttling` is a record with the state of
the byte and the buffer throttler, and operators that take one such record to
the next. Release gives back the bytes and then the place under two locks; it is
one step, since each lock is held only for its own half and nobody reads both.
`ChainHandler` has the queues and the goroutines of one handler, from AddChain,
which registers it and pushes the peers that are connected already, to shutdown.
What canPop finds of a node's CPU usage is a free choice for each message, and a
message may have expired. The engine may fail on a message, and then the
dispatcher or thread that passed it calls Stop and waits for it. `Peering` has
the three goroutines of each peer; the reader acquires, reads, and handles the
message itself or hands it on, and gives up at the points where the code looks at
its context. Benching is left to `Benchlist`.

**MC modules** extend the components that a run instantiates, with a variable
`part` that says which of them a behaviour is about. The parts share no state;
one run checks each on its own.

**Proof modules**: BlockchainProofs, ParallelProofs (the worker service and package
consensus), NetworkProofs (requests, benchlist, chain handler), and for the
snowman chains SnowLemmas, SnowmanProofs, VoteProofs and PreferenceProofs, each of
which extends the one before, and EngineProofs (polls and engine).

A definition `X_Name` placed before `X` is `X` with a plausible mistake. None is
used by a specification; `PROJECT.json` pairs each with the property it breaks.

## Runs

| Run | Instance | Shows |
|---|---|---|
| node | 2 handlers, 2 loops, 2 blocks, up to 2 parents, 2 transactions | one place per transaction; overlapping rounds leave no hole in the accepted map; refinement of Ledger |
| library | 2 handlers, an invalid transaction, foreign blocks without parents, 2 blocks, limits 0 and 1 | validity of accepted blocks; rounds end; created blocks get accepted |
| worker | 3 tasks, 2 goroutines, capacity 1, at most 2 workers, bytes of 2 values | no lost or repeated task, no send on a closed channel, graceful drain |
| consensus | 2 callers, 2 runners, 2 vertices with conflicting transactions, 1 worker, one faulty vertex | conflicts, the frontier |
| snowman | 4 IDs of 3 bits, K = 3, alphas 2 and 3, Beta 2; three conflicting blocks and one that extends the third | the tree is the trie; finalization takes Beta polls; one chain is decided and the preferred branch is right |
| engine | an oracle block with an option and a sibling, one waiting vote, one poll at a time; 5 validators and 3 siblings for the polls | blocked jobs resolve, polling goes on, votes are applied; early ends are final, polls leave in order |
| networking | 4 blocks, batches of 2, 2 stops; 2 chains of 2 subnets, 1 node, 2 requests, 2 timeouts | bootstrapping; one answer per request; who is connected; benched nodes come back |
| inbound | 2 peers, one with stake, messages of 2 bytes, 2 shared bytes and 1 by stake, 1 place each, 1 thread, 1 failure, 2 reads, 1 new connection | every byte and place is accounted for; connections alternate; a closed handler is quiet; Stop shuts down; readers get on |

The bounds let the interesting cases happen. Two blocks give two with one ID,
or a block and its child; what the node run checks is proved for any number.
Capacity 1 with three tasks fills the channel; byte values 2
with two workers give the zero divisor. One worker and two vertices make a
vertex wait for the semaphore. Four IDs of three bits reach all five cases of
unaryNode.Add, and Beta 2 with two levels makes a falter that is put off matter.
The third of the conflicting blocks differs in the first bit from the other two,
so a tree can decide against it, and against what extends it, while it still has
to choose between the others.
Three siblings are the least for a shared bit prefix that is not a whole set of
siblings; the first poll draws one validator K times, so that one answer counts
for all. Four heights give two intervals and a height that joins them, and a
batch period of 2 leaves a batch unwritten. A node on two benchlists is the
least for benching to overlap. Two shared bytes
and messages of two make the second reader wait, whether it has stake or not, and
one failure is enough to stop the handler or close a peer at any point.

Deadlock is not checked where the system may stop: a server shuts down, an
engine or chain may be idle with bounds used up, a node is bootstrapped.

Runs that find a disagreement between the code and what it says of itself
(quotations in `PROJECT.json`):

| Run | What happens |
|---|---|
| transactions_lost | two concurrent creates get one ID; the first block's transactions are found no more |
| engine_decided | DecideTxs visits the same childless vertices for ever, holding the lock |
| process_frontier | ProcessFrontier waits for the read lock of the mutex it has locked |
| timeout_dropped | a validator leaves a validator-only subnet, and the timeout of a request to it is dropped: the request is never cleared |

timeout_dropped uses the networking instance with the subnet's chain made
validator-only. In the networking run, where it is not, the same property holds.

## Fairness

Goroutines that can run do (weak fairness). A goroutine waiting for a mutex
gets it if it is free again and again (strong fairness), because Go's mutex
hands over to a waiter after a millisecond; blocked channel senders are queued.
Tickers and timers keep firing, Shutdown's deadline passes, ProcessTask returns.
Nothing is assumed of clients, peers, signals or cancellation, with these
exceptions: a Get of the engine is answered or times out (the sender registers
the timeout; strong, since the handler waits for the call stack to empty), and
requests of the bootstrapper are answered in the end, since a failed one is made
again. The worker's liveness properties except cancelled and crashed servers,
where the code gives no such promise. `RequestsCleared` excepts chains that are
removed, whose requests nobody waits for. A handler is started; its dispatchers
and threads and the readers of peers run, and the engine returns. The select of
dispatchChans picks at random, so it does not pass over a closed channel for
ever. No peer has to send anything, and none has to close.

## Proofs

*BlockchainProofs.* `LibInv` is inductive for the library: TypeOK,
PendingOrAccepted, AcceptedAreValid, and what they need: a pending block is the
stored one, whatever a goroutine still holds is stored, the pool holds valid
transactions, and under the ID of a block of a round is stored that block or a
valid one, the block itself being valid once it is past verification. The last
is needed because the round reads `bc.blocks` again after unlocking.
`LibEdge` and `LibHeight` are proved separately. `NodeIsLibrary` carries all of
it over to the node.

`NodeInv` adds what holds because clients build on submitted blocks: parents are
known, blocks are valid so rounds succeed, and what a round commits is closed
under parents. It gives HeightAboveParents, AcceptedAncestorClosed and
`NodeRefinesLedger`. TxInOnePlace needs that the addresses of the
transactions made so far are below the next one, and that the pool and the
blocks hold no others.

*ParallelProofs.* For the worker service `Inv` adds to its types that everything seen by the pool is
recorded, that accepted tasks are queued, held, finished or dropped, why a
goroutine exits, and that a closed channel has no handler left. It gives
ResultsAreKnown, NoSendOnClosed and GracefulDrain. TaskInOnePlace is
inductive once a request that is still being decoded has an ID that is in no
place yet.

In package consensus, the frontier of the DAG needs that `reversedge` is the
inverse of `edges` (`LinksInv`). ConflictFree follows from `DecisionInv`: what is
registered for an input spends it, at most one of what is registered for an
input is accepted, and nothing is ever rejected, so canAccept can be true only
of a transaction without registered conflicts. That nothing is rejected
(`RejectsNothingHolds`) is a result of its own: two conflicting transactions
that are both open block each other for ever. `OneLoopHolds` and the bound of
the semaphore (in `EngineTypesHold`) are proved beside it. ConflictsComplete
holds because ProcessVertex registers a vertex under one hold of the lock and
nothing that is registered or decided is ever taken back.

*NetworkProofs.* AnsweredOnce is inductive with one more fact (`ReqInv`): a
request that was not made is neither outstanding nor answered. ChainsSeePeers
needs `BlInv`: a peer is on the primary network before any subnet, a node that
is being benched is in the list and one that is taken off is not, the router's
`benched` is what the benchlists hold except for the calls in progress, and a
running chain has been told exactly what the router's own record says.

For the chain handler, ClosedIsQuiet needs `QuietInv`: a dispatcher has a message only
while it handles it, threads have messages only while dispatchAsync has not
returned, the handler is closed only when all dispatchers are or none was ever
started, and a closed queue stays empty, whatever peers push to it and whoever
called Stop.

*SnowLemmas.* What the proofs about snowman need of numbers, finite sums, block
trees, tries and votes. Induction is by a least counterexample: a set of naturals
without a least element is empty, so a fact about heights, bits or the size of a
set is proved by taking the lowest, shortest or smallest that violates it.

*SnowmanProofs.* First, tries side by side: neither does an instance get ahead of
those above it nor the tree of a child ahead of its parent's, whatever is
polled, added or reset; Add and a reset may come in either order; and a poll
that finalizes a tree does so for the child with AlphaPreference votes. Then
`TsInv`, the first of three invariants of Topological, each on top of the one before,
for any block tree, IDs, votes and failures of acceptors. It says what the block
tree is, in the middle of a poll too: every tree chooses between the children of
its block that no finalized instance is against, and what is left extends the last
accepted block. It gives RootedAtLastAccepted and `SnowmanDecidesOneChain`, the
refinement of Finality.

*VoteProofs.* `VoteInv` relates the trees to those they would be without resets put
off (`eager`): a flag on a block stands for a reset of all trees below it, and
during a poll the flags above the top of the vote stack are spent. With it comes
that no tree is ahead of the ones above it, which a poll cannot break because the
votes for a block include those for its descendants. It gives FalterIsReset and
NothingPending.

*PreferenceProofs.* `PrefInv` follows newPreferred and onPreferredBranch through the
loop of RecordPoll: as long as the loop has been on the branch, newPreferred is
the next block of the stack, and once it has left, the rest of the stack is not
on the branch that the preference is built from. It gives PreferredBranch, so the
shortcut of RecordPoll, which leaves the preferred branch alone when the block it
came to was preferred before, is right in every case.

NothingPending has an exception that the proof attempt turned up: the tree of
a block can be finalized and stay so when a tree above has decided against that
block with the rest of its children still open (`Abandoned`). Such a block is
rejected when its ancestor's siblings are decided, and never voted for again.

*EngineProofs.* For the polls, `PollsInv` says that the votes that are in and those
that are out are K at most, that the polls in the set have consecutive request IDs
and that the oldest is not finished. EarlyIsFinal then rests on two facts: what
shouldTerminate asks of a count rules out that K answers in all take it over or
under an alpha, and siblings nobody has voted for cannot reach one, since fewer
answers than AlphaPreference are out by then. OldestFirst comes from the order of
the linked hash map.

The assumptions are those the modules state by name: `ConstantsAssumption`,
`ServiceAssumption`, `GraphAssumption`, `EngineAssumption`, `NoneAssumption`,
`ParametersVerify` (what Parameters.Verify asks of K, the alphas and Beta),
`BlocksAssumption` (parents are one lower, and what a block extends is it and what
its parent extends), `PollsAssumption` (a sample has K answers), `ChainAssumption`
(options are children of their oracle block), `NoBlockAssumption` (the nil values are no blocks or trees)
and `SizesFit` (a message has at least a byte and fits the allocations, as
`default/config/flags.go` asks of NodeMaxAtLargeBytes). Only the inbound run
relies on the last.

Only model-checked:
- all liveness: it rests on fairness, which is out of the prover's reach;
- that the snowflake tree is the trie, and FinalizedByBeta, since the code of the
  tree is recursive;
- SnowmanEngine, where BlockedWillResolve would need what the call
  stack has left to do for every blocked job;
- Bootstrap, whose process folds over heights;
- Accounted, which sums over peers and folds over queues, and
  ConnectionsAlternate, which is about the order in a queue.

## Not modelled

The map of `PROJECT.json` covers nearly all code of `pkg/` that changes state,
and of the fork the packages in the table above. That is a small share of the
fork, which has more than a thousand files. The largest parts of it are:

- the virtual machines (platformvm, avm, proposervm, the RPC bridge) and their
  transaction rules. To the engine a VM is blocks that verify or fail, which is
  how the modules see it. Each would be a project of its own;
- wallet, APIs, configuration, command line, test tooling and generated protobuf
  code: plumbing without interleavings of its own;
- databases, merkledb, codec and caches: storage and encoding. Bootstrap relies
  on a batch being written as a whole;
- of the peer-to-peer network, what a handshake checks, writing, the outbound
  throttler, dialling and gossip, and of the engines the state syncer: stateful
  and not modelled so far.

In the modelled parts these are left out: metrics, health checks, logging, the
kinds of request of the sender, which differ in their fields only, how the
bootstrapper's minority and majority agree on a frontier, the length of adaptive
timeouts, and Node.Start and Stop of `pkg/blockchain`, of which the node run
has only the effect, two loops on one chain. Of `pkg/`, the worker client (it
keeps no state and does not retry) and the samplers (the property of a draw is a
distribution) are not modelled, nor are start-up code, scripts, byte layouts and
signatures.

The sort of `sortVerticesByPriority` is used by its specification, not by its
steps.
