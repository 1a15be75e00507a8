---------------------------- MODULE Topological ----------------------------
(***************************************************************************)
(* topological.go: snowman consensus.  Every block that has children has a *)
(* snowflake tree to choose one of them; a poll is pushed from the voted   *)
(* blocks to their ancestors and recorded where AlphaPreference is reached.*)
(*                                                                         *)
(* RecordPoll runs under the chain's lock.  It is one step that pushes the *)
(* votes, one for every block of the vote stack and one that sets the      *)
(* preference, and no other call comes between them.                       *)
(***************************************************************************)
EXTENDS BlockTree

CONSTANTS NoBlock, NoTrie

Tries == [choices : SUBSET IDs, inst : UNION {[D -> Snowflakes] : D \in SUBSET BitPrefixes}]

ASSUME NoBlockAssumption == NoBlock \notin Nodes /\ NoTrie \notin Tries

VARIABLES
  blocks,          \* the last accepted block and the processing ones
  lastAccepted,
  sb,              \* the tree that chooses between a block's children
  shouldFalter,    \* the blocks with that flag
  preference, preferredIDs, preferredHeights,
  phase,           \* "idle", "vote" inside RecordPoll, "halted" after an error
  stack,           \* the parents of the vote stack
  poll,            \* the votes pushed: those for a block or what extends it
  newPreferred, onPreferredBranch,
  accepted, rejected, \* what the VM was told
  eager            \* the trees, had no reset been put off

tsVars == <<blocks, lastAccepted, sb, shouldFalter, preference, preferredIDs,
            preferredHeights, phase, stack, poll, newPreferred,
            onPreferredBranch, accepted, rejected, eager>>

Children(x) == {y \in blocks \ {Genesis} : ParentOf[y] = x}
Decided(x) == HeightOf[x] <= HeightOf[lastAccepted]
Processing(x) == x # lastAccepted /\ x \in blocks

ByHeight(ids) == [h \in {HeightOf[x] : x \in ids} |-> CHOOSE x \in ids : HeightOf[x] = h]

TsInit ==
  /\ blocks = {Genesis} /\ lastAccepted = Genesis
  /\ sb = [x \in Nodes |-> NoTrie]
  /\ shouldFalter = {}
  /\ preference = Genesis /\ preferredIDs = {} /\ preferredHeights = ByHeight({})
  /\ phase = "idle" /\ stack = {} /\ poll = NoVotes
  /\ newPreferred = NoBlock /\ onPreferredBranch = FALSE
  /\ accepted = {} /\ rejected = {}
  /\ eager = sb

-----------------------------------------------------------------------------
AddChild(trees, parent, x) ==
  [trees EXCEPT ![parent] = IF @ = NoTrie THEN NewTrie(x) ELSE TrieAdd(@, x)]

(* Add; a block that is processing, or has no parent here, is an error     *)
(* that changes nothing.                                                   *)
TsAdd(x) ==
  /\ phase = "idle"
  /\ ~Processing(x) /\ ParentOf[x] \in blocks
  /\ blocks' = blocks \cup {x}
  /\ sb' = AddChild(sb, ParentOf[x], x)
  /\ eager' = AddChild(eager, ParentOf[x], x)
  /\ IF preference = ParentOf[x]
     THEN /\ preference' = x
          /\ preferredIDs' = preferredIDs \cup {x}
          /\ preferredHeights' = [h \in DOMAIN preferredHeights \cup {HeightOf[x]} |->
                                    IF h = HeightOf[x] THEN x ELSE preferredHeights[h]]
     ELSE UNCHANGED <<preference, preferredIDs, preferredHeights>>
  /\ UNCHANGED <<lastAccepted, shouldFalter, phase, stack, poll, newPreferred,
                 onPreferredBranch, accepted, rejected>>

-----------------------------------------------------------------------------
(* calculateInDegree and pushVotes: votes for blocks that are not          *)
(* processing are dropped, the others count for all blocks they extend.    *)
Pushed(votes) ==
  LET valid == {x \in blocks : ~Decided(x)}
  IN  [x \in IDs |-> IF x \in valid
                     THEN Count(votes, {y \in valid : x \in Ancestry[y]}) ELSE 0]

ChildVotes(p, x) == [y \in Children(x) |-> p[y]]

VoteStack(p) ==
  {x \in blocks : Count(p, Children(x)) >= AlphaPreference}

(* More than half of the votes are for each of them, so every one of them  *)
(* extends the ones before it: the stack is ordered by height.             *)
Top(ids) == CHOOSE x \in ids : \A y \in ids : HeightOf[x] <= HeightOf[y]

(* The end of RecordPoll: nothing if the preferred block was preferred     *)
(* before, else the preferred branch is built again, from that block up to *)
(* the last accepted one and down to a leaf.                               *)
Extends(x, y) == y \in Ancestry[x] /\ x # y

BranchBelow_None(preferred) == {}

BranchBelow(preferred) ==
  {x \in blocks : /\ Extends(x, preferred)
                  /\ \A y \in Ancestry[x] :
                       Extends(y, preferred) => y = TriePreference(sb[ParentOf[y]])}

Prefer(preferred) ==
  LET above == {x \in Ancestry[preferred] : ~Decided(x)}
      branch == above \cup BranchBelow(preferred)
  IN  IF preferred \in preferredIDs
      THEN UNCHANGED <<preference, preferredIDs, preferredHeights>>
      ELSE /\ preferredIDs' = branch
           /\ preferredHeights' = ByHeight(branch)
           /\ preference' = CHOOSE x \in branch \cup {preferred} :
                              \A y \in branch : HeightOf[y] <= HeightOf[x]

(* Without the flags, a poll is recorded by every tree at once.            *)
RecordEagerly(p) ==
  [x \in Nodes |-> IF eager[x] = NoTrie THEN NoTrie
                   ELSE IF x \in VoteStack(p) THEN TriePoll(eager[x], ChildVotes(p, x))
                   ELSE TrieUnsuccessful(eager[x])]

TsRecordPoll(votes) ==
  LET pushed == Pushed(votes)
      enough == Count(votes, IDs) >= AlphaPreference
      p == IF enough THEN pushed ELSE NoVotes
  IN
  /\ phase = "idle"
  /\ eager' = RecordEagerly(p)
  /\ stack' = VoteStack(p)
  /\ IF stack' = {}
     THEN /\ shouldFalter' = shouldFalter \cup {lastAccepted}
          /\ UNCHANGED <<phase, poll, newPreferred, onPreferredBranch>>
          /\ Prefer(preference)
     ELSE /\ phase' = "vote" /\ poll' = p
          /\ newPreferred' = lastAccepted /\ onPreferredBranch' = TRUE
          /\ UNCHANGED <<shouldFalter, preference, preferredIDs, preferredHeights>>
  /\ UNCHANGED <<blocks, sb, lastAccepted, accepted, rejected>>

-----------------------------------------------------------------------------
(* One turn of the loop of vote, for the block parent at the top.          *)

Recorded(parent) ==
  TriePoll(IF parent \in shouldFalter THEN TrieUnsuccessful(sb[parent]) ELSE sb[parent],
           ChildVotes(poll, parent))

CanAccept(parent, tree) == TrieFinalized(tree) /\ lastAccepted = parent

Losers_Others(parent, winner) == blocks \ {parent, winner}

Losers_Siblings(parent, winner) == Children(parent) \ {winner}

(* The siblings of an accepted block and all that extend them.             *)
Losers(parent, winner) ==
  {x \in blocks : \E y \in Children(parent) \ {winner} : y \in Ancestry[x]}

(* acceptPreferredChild, rejectTransitively and the removal of parent.     *)
AcceptPreferredChild(parent, winner) ==
  /\ lastAccepted' = winner
  /\ accepted' = accepted \cup {winner}
  /\ rejected' = rejected \cup Losers(parent, winner)
  /\ blocks' = blocks \ ({parent} \cup Losers(parent, winner))
  /\ preferredIDs' = preferredIDs \ {winner}
  /\ preferredHeights' = [h \in DOMAIN preferredHeights \ {HeightOf[winner]} |->
                            preferredHeights[h]]

Faltering_Never(parent, next) == {}

Faltering_NotTransitive(parent, next) == Children(parent) \ {next}

(* The children whose confidence is to be reset before their next poll.    *)
Faltering(parent, next) ==
  {x \in Children(parent) : parent \in shouldFalter \/ x # next}

Recording(parent, next) ==
  LET tree == Recorded(parent)
      choice == TriePreference(tree)
  IN
  /\ IF CanAccept(parent, tree)
     THEN AcceptPreferredChild(parent, choice)
     ELSE UNCHANGED <<lastAccepted, accepted, rejected, blocks, preferredIDs,
                      preferredHeights>>
  /\ sb' = [x \in Nodes |-> IF x \notin blocks' THEN NoTrie
                            ELSE IF x = parent THEN tree ELSE sb[x]]
  /\ eager' = [x \in Nodes |-> IF x \in blocks' THEN eager[x] ELSE NoTrie]
  /\ newPreferred' = IF onPreferredBranch THEN choice ELSE newPreferred
  /\ onPreferredBranch' = (onPreferredBranch /\ next = choice)
  /\ shouldFalter' = ((shouldFalter \ {parent}) \cup Faltering(parent, next)) \cap blocks'

(* A block that was rejected by the turn before ends the loop.             *)
TsVote ==
  LET parent == Top(stack)
      rest == stack \ {parent}
  IN
  /\ phase = "vote" /\ stack # {}
  /\ IF parent \in blocks
     THEN /\ Recording(parent, IF rest = {} THEN NoBlock ELSE Top(rest))
          /\ stack' = rest
     ELSE /\ stack' = {}
          /\ UNCHANGED <<blocks, lastAccepted, sb, shouldFalter, preferredIDs,
                         preferredHeights, newPreferred, onPreferredBranch,
                         accepted, rejected, eager>>
  /\ UNCHANGED <<preference, phase, poll>>

(* An acceptor or the VM returns an error: the engine stops the chain.     *)
TsVoteFails ==
  /\ phase = "vote" /\ stack # {} /\ Top(stack) \in blocks
  /\ CanAccept(Top(stack), Recorded(Top(stack)))
  /\ phase' = "halted"
  /\ UNCHANGED <<blocks, lastAccepted, sb, shouldFalter, preference, preferredIDs,
                 preferredHeights, stack, poll, newPreferred, onPreferredBranch,
                 accepted, rejected, eager>>

TsEndPoll ==
  /\ phase = "vote" /\ stack = {}
  /\ phase' = "idle" /\ poll' = NoVotes
  /\ newPreferred' = NoBlock /\ onPreferredBranch' = FALSE
  /\ Prefer(newPreferred)
  /\ UNCHANGED <<blocks, lastAccepted, sb, shouldFalter, stack, accepted, rejected, eager>>

Votes == {v \in [IDs -> 0..K] : Count(v, IDs) <= K}

TsNext ==
  \/ \E x \in IDs : TsAdd(x)
  \/ \E votes \in Votes : TsRecordPoll(votes)
  \/ TsVote \/ TsVoteFails \/ TsEndPoll

TsSpec == TsInit /\ [][TsNext]_tsVars

-----------------------------------------------------------------------------
(* What is left in blocks is a tree under the last accepted block, and no  *)
(* block in it was decided.  Add accepts no block that was decided before, *)
(* although it checks only the blocks that are processing.                 *)
RootedAtLastAccepted ==
  /\ \A x \in blocks : lastAccepted \in Ancestry[x] /\ Ancestry[x] \ Ancestry[lastAccepted] \subseteq blocks
  /\ (blocks \ {lastAccepted}) \cap (accepted \cup rejected) = {}
  /\ accepted \cap rejected = {}
  /\ accepted = Ancestry[lastAccepted] \ {Genesis}

(* Between polls, the preferred IDs and heights are the branch from the    *)
(* last accepted block that follows every tree's preference, and the       *)
(* preference is its last block: what RecordPoll skips when the voted      *)
(* block was preferred before is indeed right.                             *)
PreferredBranch ==
  phase = "idle" =>
    /\ preferredIDs = BranchBelow(lastAccepted)
    /\ preferredHeights = ByHeight(preferredIDs)
    /\ preference \in preferredIDs \cup {lastAccepted}
    /\ Children(preference) = {}

(* Putting resets off is no different from resetting at once every tree    *)
(* that a poll did not reach: a flag on a block stands for a reset of the  *)
(* trees of this block and of all that extend it.                          *)
FalterIsReset ==
  phase = "idle" =>
    \A x \in blocks : sb[x] # NoTrie =>
      eager[x] = IF Ancestry[x] \cap shouldFalter # {} THEN TrieUnsuccessful(sb[x]) ELSE sb[x]

(* A tree above x has decided for a branch that x is not on. *)
Abandoned(x) ==
  \E y \in Ancestry[x] \ Ancestry[lastAccepted] : ~Undecided(sb[ParentOf[y]], y)

(* A finalized tree is acted upon in the poll that finalized it, unless    *)
(* its block is abandoned: the tree of a block is never ahead of those     *)
(* above it, so no decision is left pending and vote never comes to a      *)
(* block that the same poll rejected.                                      *)
NothingPending ==
  /\ stack \subseteq blocks
  /\ phase = "idle" => \A x \in blocks :
       sb[x] # NoTrie /\ TrieFinalized(sb[x]) => Abandoned(x)

Promise == INSTANCE Finality WITH Candidates <- IDs, last <- lastAccepted

(* The VM is told one chain of blocks, and of rejections of what conflicts *)
(* with it (acceptPreferredChild and rejectTransitively).                  *)
DecidesOneChain == Promise!FinalitySpec
=============================================================================
