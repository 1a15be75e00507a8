--------------------------- MODULE SnowmanEngine ---------------------------
(***************************************************************************)
(* engine.go, issuer.go, voter.go and job/scheduler.go: the engine of a    *)
(* snowman chain.  It fetches missing ancestors, issues blocks once their  *)
(* parents are issued and counts a vote once the blocks it names are       *)
(* issued or given up.                                                     *)
(*                                                                         *)
(* Handlers run under the chain's lock, but a block that is issued runs    *)
(* the jobs that waited for it, which issue further blocks: agenda is the  *)
(* stack of calls, what is at its head runs first, and a handler starts    *)
(* only when it is empty.                                                  *)
(*                                                                         *)
(* Of consensus it uses what Finality promises: blocks are accepted along  *)
(* one chain.  Which polls finish, and what they decide, is open.          *)
(***************************************************************************)
EXTENDS BlockTree, Sequences

CONSTANTS
  Gossiped,          \* bound: the blocks that exist
  OptionsOf,         \* the options of an oracle block, children of it
  Slots,             \* bound: the votes that may wait at a time
  ConcurrentRepolls, OptimalProcessing,
  MaxPollsOut,       \* bound: the polls that are out
  MaxBuilds          \* bound: requests of the VM to build a block

(* An option extends its oracle block, and the bound on polls does not     *)
(* keep the engine from having ConcurrentRepolls of them.                  *)
ASSUME ChainAssumption ==
  /\ Gossiped \subseteq IDs
  /\ OptionsOf \in [IDs -> SUBSET IDs]
  /\ \A x \in IDs : \A y \in OptionsOf[x] : ParentOf[y] = x
  /\ ConcurrentRepolls \in Nat /\ MaxPollsOut \in Nat /\ ConcurrentRepolls <= MaxPollsOut

VARIABLES
  processing, last, \* consensus
  pending,          \* blocks that wait for their parent
  blkReqs,          \* blocks with a Get request out
  dependents,       \* block -> the jobs that wait for it, in order
  voters,           \* slot -> what the vote names and how much of it is open
  unverified,       \* unverifiedIDToAncestor: the blocks with an entry
  cached,           \* unverifiedBlockCache
  pollsOut,         \* the polls of the poll set
  votes,            \* the processing blocks that open polls have votes for
  connected,        \* enough stake is connected to send a query
  dropped,          \* a query was not sent, and none since has made up for it
  pendingBuildBlocks,
  agenda

enVars == <<processing, last, pending, blkReqs, dependents, voters, unverified,
            cached, pollsOut, votes, connected, dropped, pendingBuildBlocks, agenda>>

Issuer(x) == [job |-> "issuer", blk |-> x]
Voter(s) == [job |-> "voter", slot |-> s]
Free == [options |-> <<>>, open |-> -1]

(* Calls that are left to do. *)
Issue(x, have, own) == [call |-> "issue", blk |-> x, have |-> have, own |-> own]
Deliver(x) == [call |-> "deliver", blk |-> x]
GiveUp(x) == [call |-> "giveUp", blk |-> x]
Resolve(x, fulfilled) == [call |-> "resolve", blk |-> x, fulfilled |-> fulfilled]
Jobs(js, fulfilled) == [call |-> "jobs", jobs |-> js, fulfilled |-> fulfilled]
Option(x, fulfilled) == [call |-> "option", blk |-> x, fulfilled |-> fulfilled]
Forget(x) == [call |-> "forget", blk |-> x]
Schedule(s) == [call |-> "schedule", slot |-> s]
Vote(s) == [call |-> "vote", slot |-> s]
Repoll == [call |-> "repoll"]
Build == [call |-> "build"]

EnInit ==
  /\ processing = {} /\ last = Genesis
  /\ pending = {} /\ blkReqs = {} /\ unverified = {} /\ cached = {}
  /\ dependents = [x \in Nodes |-> <<>>]
  /\ voters = [s \in Slots |-> Free]
  /\ pollsOut = 0 /\ votes = {} /\ connected = TRUE /\ dropped = FALSE
  /\ pendingBuildBlocks = 0
  /\ agenda = <<>>

-----------------------------------------------------------------------------
IsDecided(x) ==
  \/ HeightOf[x] <= HeightOf[last]
  \/ HeightOf[x] = HeightOf[last] + 1 /\ ParentOf[x] # last

ShouldIssueBlock(x) == ~IsDecided(x) /\ x \notin pending /\ x \notin processing

CanDependOn_Unissued(x) == x \notin processing

CanDependOn(x) == x \in pending \cup blkReqs
CanIssueChildOn(x) == x = last \/ x \in processing

(* getBlock; the VM has what it verified. *)
HasBlock(x) == x \in pending \cup cached \cup processing \cup Ancestry[last]

(* GetAncestor: up the entries of unverifiedIDToAncestor. *)
Root(x) == CHOOSE y \in Ancestry[x] \ unverified :
             \A z \in Ancestry[x] \ unverified : HeightOf[z] <= HeightOf[y]

(* getProcessingAncestor: the nearest one, in a set that is empty when the *)
(* way to it is not known.                                                 *)
ProcessingAncestor(x) ==
  {y \in Ancestry[Root(x)] \cap processing :
     \A z \in Ancestry[Root(x)] : HeightOf[z] > HeightOf[y] =>
       z \in cached \ processing /\ ~IsDecided(z)}

(* markAsUnverified, for a set of blocks of one parent. *)
MarkAsUnverified(ids, nowProcessing) ==
  LET new == {x \in ids : x \notin nowProcessing /\ ParentOf[x] \in unverified \cup nowProcessing}
  IN  /\ unverified' = unverified \cup new
      /\ cached' = cached \cup new

(* sendQuery, n times. *)
SendQueries(n) ==
  /\ pollsOut' = IF connected THEN Min({pollsOut + n, MaxPollsOut}) ELSE pollsOut
  /\ dropped' = IF connected THEN dropped /\ pollsOut' < ConcurrentRepolls
                ELSE dropped \/ n > 0

Missing_One(n) == IF pollsOut + 1 < n THEN n - pollsOut ELSE 0

Missing(n) == IF pollsOut < n THEN n - pollsOut ELSE 0

-----------------------------------------------------------------------------
(* Whether the end of the loop abandons the jobs that wait for x.          *)
Abandons_Never(x, own) == FALSE

Abandons(x, own) == IF own THEN x \notin blkReqs ELSE x \notin pending

(* issueFrom, issueFromByID and, when own, issueWithAncestors: one turn of *)
(* the loop.  The block is at hand or is to be looked up.                  *)
RunIssue(x, have, own, rest) ==
  LET requests == ~have /\ ~HasBlock(x) /\ ~own
      issues == (have \/ HasBlock(x)) /\ ShouldIssueBlock(x)
  IN
  /\ blkReqs' = IF requests THEN blkReqs \cup {x}
                ELSE IF issues \/ ~own THEN blkReqs \ {x} ELSE blkReqs
  /\ pending' = IF issues THEN pending \cup {x} ELSE pending
  /\ IF issues /\ ~CanIssueChildOn(ParentOf[x])
     THEN dependents' = [dependents EXCEPT ![ParentOf[x]] = Append(@, Issuer(x))]
     ELSE UNCHANGED dependents
  /\ agenda' = CASE requests -> rest
                 [] issues -> (IF CanIssueChildOn(ParentOf[x]) THEN <<Deliver(x)>> ELSE <<>>)
                              \o <<Issue(ParentOf[x], FALSE, own)>> \o rest
                 [] OTHER -> (IF Abandons(x, own) THEN <<Resolve(x, FALSE)>> ELSE <<>>) \o rest
  /\ UNCHANGED <<processing, last, voters, unverified, cached, pollsOut, votes, connected,
                 dropped, pendingBuildBlocks>>

(* Fulfill and Abandon: the jobs that wait for x run one after the other.  *)
RunResolve(x, fulfilled, rest) ==
  /\ dependents' = [dependents EXCEPT ![x] = <<>>]
  /\ agenda' = <<Jobs(dependents[x], fulfilled)>> \o rest
  /\ UNCHANGED <<processing, last, pending, blkReqs, voters, unverified, cached,
                 pollsOut, votes, connected, dropped, pendingBuildBlocks>>

RunJobs(js, fulfilled, rest) ==
  /\ IF js = <<>> THEN agenda' = rest /\ UNCHANGED voters
     ELSE LET j == Head(js)
              later == <<Jobs(Tail(js), fulfilled)>> \o rest
          IN  IF j.job = "issuer"
              THEN /\ agenda' = <<IF fulfilled THEN Deliver(j.blk) ELSE GiveUp(j.blk)>> \o later
                   /\ UNCHANGED voters
              ELSE /\ voters' = [voters EXCEPT ![j.slot].open = @ - 1]
                   /\ agenda' = (IF voters[j.slot].open = 1 THEN <<Vote(j.slot)>> ELSE <<>>) \o later
  /\ UNCHANGED <<processing, last, pending, blkReqs, dependents, unverified, cached,
                 pollsOut, votes, connected, dropped, pendingBuildBlocks>>

(* issuer.Execute when the parent was given up. *)
RunGiveUp(x, rest) ==
  /\ pending' = pending \ {x}
  /\ MarkAsUnverified({x}, processing)
  /\ agenda' = <<Resolve(x, FALSE)>> \o rest
  /\ UNCHANGED <<processing, last, blkReqs, dependents, voters, pollsOut, votes, connected,
                 dropped, pendingBuildBlocks>>

OptionCalls(blks, fulfilled) ==
  LET order == CHOOSE f \in Injection(1..Cardinality(blks), blks) : TRUE
  IN  [i \in 1..Cardinality(blks) |-> Option(order[i], fulfilled)]

(* deliver: the block, and each of its options, may fail verification; a   *)
(* block that becomes preferred is queried for.                            *)
RunDeliver(x, rest) ==
  /\ pending' = pending \ {x}
  /\ \/ /\ ~CanIssueChildOn(ParentOf[x]) \/ x \in processing
        /\ agenda' = <<Resolve(x, FALSE)>> \o rest
        /\ UNCHANGED <<processing, unverified, cached, pollsOut, dropped>>
     \/ /\ CanIssueChildOn(ParentOf[x]) /\ x \notin processing
        /\ MarkAsUnverified({x}, processing)
        /\ agenda' = <<Resolve(x, FALSE)>> \o rest
        /\ UNCHANGED <<processing, pollsOut, dropped>>
     \/ /\ CanIssueChildOn(ParentOf[x]) /\ x \notin processing
        /\ \E added \in SUBSET OptionsOf[x], preferred \in {0, 1} :
             LET new == {x} \cup added
                 failed == OptionsOf[x] \ added
             IN  /\ processing' = processing \cup new
                 /\ unverified' = (unverified \ new) \cup failed
                 /\ cached' = (cached \ new) \cup failed
                 /\ SendQueries(preferred)
                 /\ agenda' = <<Resolve(x, TRUE)>>
                                \o (OptionCalls(added, TRUE) \o OptionCalls(failed, FALSE) \o <<Repoll>>)
                                \o rest
  /\ UNCHANGED <<last, blkReqs, dependents, voters, votes, connected, pendingBuildBlocks>>

(* An option that was added, or dropped, with the oracle block.  A request *)
(* for it is forgotten once the jobs that waited for it have run.          *)
RunOption(x, fulfilled, rest) ==
  /\ pending' = pending \ {x}
  /\ \E preferred \in IF fulfilled THEN {0, 1} ELSE {0} : SendQueries(preferred)
  /\ agenda' = <<Resolve(x, fulfilled), Forget(x)>> \o rest
  /\ UNCHANGED <<processing, last, blkReqs, dependents, voters, unverified, cached, votes,
                 connected, pendingBuildBlocks>>

RunForget(x, rest) ==
  /\ blkReqs' = blkReqs \ {x}
  /\ agenda' = rest
  /\ UNCHANGED <<processing, last, pending, dependents, voters, unverified, cached,
                 pollsOut, votes, connected, dropped, pendingBuildBlocks>>

(* Chits schedules the vote once the blocks it names were looked for. *)
RunSchedule(s, rest) ==
  LET deps == {x \in Range(voters[s].options) : CanDependOn(x)}
  IN
  /\ voters' = [voters EXCEPT ![s].open = Cardinality(deps)]
  /\ dependents' = [x \in Nodes |-> IF x \in deps THEN Append(dependents[x], Voter(s))
                                    ELSE dependents[x]]
  /\ agenda' = (IF deps = {} THEN <<Vote(s)>> ELSE <<>>) \o rest
  /\ UNCHANGED <<processing, last, pending, blkReqs, unverified, cached, pollsOut, votes,
                 connected, dropped, pendingBuildBlocks>>

(* memoryBlock.Accept and Reject on the way from the last accepted block   *)
(* to tip: entries go whose root is a block that was decided, but tip.     *)
AcceptUpTo_Rejects(tip) ==
  /\ last' = tip
  /\ processing' = {x \in processing \ {tip} : tip \in Ancestry[x]}
  /\ unverified' = {x \in unverified : Root(x) \in processing' \cup Ancestry[tip]}

AcceptUpTo(tip) ==
  /\ last' = tip
  /\ processing' = {x \in processing \ {tip} : tip \in Ancestry[x]}
  /\ unverified' = {x \in unverified : Root(x) \in processing' \cup {tip}}

(* The block voter.Execute votes for: the first option that leads to one. *)
VoteOf(options) ==
  LET useful == {i \in DOMAIN options : ProcessingAncestor(options[i]) # {}}
  IN  IF useful = {} THEN {} ELSE ProcessingAncestor(options[Min(useful)])

(* voter.Execute: the vote may finish polls, and these accept blocks that  *)
(* the open polls have votes for.                                          *)
RunVote(s, rest) ==
  LET counted == votes \cup VoteOf(voters[s].options)
  IN
  /\ voters' = [voters EXCEPT ![s] = Free]
  /\ \/ /\ agenda' = rest
        /\ votes' = IF pollsOut = 0 THEN {} ELSE counted
        /\ UNCHANGED <<processing, last, unverified, pollsOut>>
     \/ \E n \in 1..pollsOut, tip \in {last} \cup (processing \cap UNION {Ancestry[x] : x \in counted}) :
          /\ pollsOut' = pollsOut - n
          /\ IF tip = last THEN UNCHANGED <<processing, last, unverified>> ELSE AcceptUpTo(tip)
          /\ votes' = IF n = pollsOut THEN {} ELSE counted \cap processing'
          /\ agenda' = <<Repoll>> \o rest
  /\ UNCHANGED <<pending, blkReqs, dependents, cached, connected, dropped, pendingBuildBlocks>>

RunRepoll(rest) ==
  /\ SendQueries(IF processing = {} THEN 0 ELSE Missing(ConcurrentRepolls))
  /\ agenda' = rest
  /\ UNCHANGED <<processing, last, pending, blkReqs, dependents, voters, unverified,
                 cached, votes, connected, pendingBuildBlocks>>

(* buildBlocks; the VM builds on a block that consensus has, or fails. *)
RunBuild(rest) ==
  /\ IF pendingBuildBlocks > 0 /\ Cardinality(processing) < OptimalProcessing
     THEN /\ pendingBuildBlocks' = pendingBuildBlocks - 1
          /\ \/ agenda' = rest
             \/ \E x \in Gossiped \ processing :
                  /\ CanIssueChildOn(ParentOf[x])
                  /\ agenda' = <<Issue(x, TRUE, TRUE), Build>> \o rest
     ELSE agenda' = rest /\ UNCHANGED pendingBuildBlocks
  /\ UNCHANGED <<processing, last, pending, blkReqs, dependents, voters, unverified,
                 cached, pollsOut, votes, connected, dropped>>

Run ==
  /\ agenda # <<>>
  /\ LET c == Head(agenda)
         rest == Tail(agenda)
     IN  \/ c.call = "issue" /\ RunIssue(c.blk, c.have, c.own, rest)
         \/ c.call = "resolve" /\ RunResolve(c.blk, c.fulfilled, rest)
         \/ c.call = "jobs" /\ RunJobs(c.jobs, c.fulfilled, rest)
         \/ c.call = "giveUp" /\ RunGiveUp(c.blk, rest)
         \/ c.call = "deliver" /\ RunDeliver(c.blk, rest)
         \/ c.call = "option" /\ RunOption(c.blk, c.fulfilled, rest)
         \/ c.call = "forget" /\ RunForget(c.blk, rest)
         \/ c.call = "schedule" /\ RunSchedule(c.slot, rest)
         \/ c.call = "vote" /\ RunVote(c.slot, rest)
         \/ c.call = "repoll" /\ RunRepoll(rest)
         \/ c.call = "build" /\ RunBuild(rest)

-----------------------------------------------------------------------------
(* The handlers.  A Put may come late or unasked, PushQuery brings a block *)
(* the same way; a Put of another block, or of none, is a GetFailed.       *)
Start(calls) == agenda = <<>> /\ agenda' = calls \o <<Build>>

Put(x) ==
  /\ Start(<<Issue(x, TRUE, FALSE)>>)
  /\ UNCHANGED <<processing, last, pending, blkReqs, dependents, voters, unverified, cached,
                 pollsOut, votes, connected, dropped, pendingBuildBlocks>>

PullQuery(x) ==
  /\ Start(<<Issue(x, FALSE, FALSE)>>)
  /\ UNCHANGED <<processing, last, pending, blkReqs, dependents, voters, unverified, cached,
                 pollsOut, votes, connected, dropped, pendingBuildBlocks>>

GetFailed(x) ==
  /\ x \in blkReqs
  /\ Start(<<Resolve(x, FALSE)>>)
  /\ blkReqs' = blkReqs \ {x}
  /\ UNCHANGED <<processing, last, pending, dependents, voters, unverified, cached,
                 pollsOut, votes, connected, dropped, pendingBuildBlocks>>

(* Chits, with what the answer prefers and prefers at the height asked     *)
(* for; with no option, a QueryFailed of a node that never answered.       *)
Chits(options) ==
  \E s \in Slots :
    /\ voters[s] = Free /\ \A r \in Slots : voters[r] = Free => s <= r
    /\ Start([i \in DOMAIN options |-> Issue(options[i], FALSE, FALSE)] \o <<Schedule(s)>>)
    /\ voters' = [voters EXCEPT ![s] = [options |-> options, open |-> 0]]
    /\ UNCHANGED <<processing, last, pending, blkReqs, dependents, unverified, cached,
                   pollsOut, votes, connected, dropped, pendingBuildBlocks>>

Notify ==
  /\ pendingBuildBlocks < MaxBuilds
  /\ Start(<<>>)
  /\ pendingBuildBlocks' = pendingBuildBlocks + 1
  /\ UNCHANGED <<processing, last, pending, blkReqs, dependents, voters, unverified, cached,
                 pollsOut, votes, connected, dropped>>

Gossip ==
  /\ agenda = <<>> /\ processing # {}
  /\ agenda' = <<Repoll>>
  /\ UNCHANGED <<processing, last, pending, blkReqs, dependents, voters, unverified, cached,
                 pollsOut, votes, connected, dropped, pendingBuildBlocks>>

(* The cache is bounded and forgets blocks; peers come and go. *)
Evict ==
  /\ agenda = <<>>
  /\ \E x \in cached : cached' = cached \ {x}
  /\ UNCHANGED <<processing, last, pending, blkReqs, dependents, voters, unverified,
                 pollsOut, votes, connected, dropped, pendingBuildBlocks, agenda>>

Peers ==
  /\ agenda = <<>>
  /\ connected' = ~connected
  /\ UNCHANGED <<processing, last, pending, blkReqs, dependents, voters, unverified, cached,
                 pollsOut, votes, dropped, pendingBuildBlocks, agenda>>

Answers == {<<>>} \cup {<<x>> : x \in Gossiped}
                 \cup {<<x, y>> : x \in Gossiped, y \in Gossiped}

EnNext ==
  \/ Run
  \/ \E x \in Gossiped : Put(x) \/ PullQuery(x) \/ GetFailed(x)
  \/ \E options \in Answers : IsInjective(options) /\ Chits(options)
  \/ Notify \/ Gossip \/ Evict \/ Peers

(* Calls return, and a Get is answered or its timeout is handled between  *)
(* two other messages.                                                     *)
EnFairness ==
  /\ WF_enVars(Run)
  /\ \A x \in Gossiped : SF_enVars(GetFailed(x))

EnSpec == EnInit /\ [][EnNext]_enVars /\ EnFairness

-----------------------------------------------------------------------------
(* What a job waits for will be resolved: it is pending or requested, and  *)
(* never both; a pending block is waiting for its parent.                  *)
BlockedWillResolve ==
  agenda = <<>> =>
    /\ \A x \in Nodes : dependents[x] # <<>> => CanDependOn(x)
    /\ \A x \in pending : Issuer(x) \in Range(dependents[ParentOf[x]])
    /\ pending \cap blkReqs = {}

(* While blocks are processing the engine has ConcurrentRepolls polls out, *)
(* unless a query could not be sent.                                       *)
KeepsPolling ==
  agenda = <<>> /\ processing # {} /\ ~dropped => pollsOut >= ConcurrentRepolls

(* markAsUnverified: a block with an entry in unverifiedIDToAncestor is    *)
(* not decided.                                                            *)
UnverifiedUndecided == \A x \in unverified : ~IsDecided(x) /\ x \notin processing

(* The vote of every Chits or QueryFailed is applied in the end: the job   *)
(* it became does not wait for ever for a block.                           *)
VotesApplied == \A s \in Slots : voters[s] # Free ~> voters[s] = Free
=============================================================================
