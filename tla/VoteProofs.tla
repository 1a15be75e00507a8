----------------------------- MODULE VoteProofs -----------------------------
(***************************************************************************)
(* VoteInv relates the trees of Topological to those had no reset been put *)
(* off, and says that decisions are taken in time, for any blocks and      *)
(* votes.                                                                  *)
(***************************************************************************)
EXTENDS SnowmanProofs

-----------------------------------------------------------------------------
(* Resets put off, and decisions taken in time: the invariants. *)

EagerOK ==
  /\ eager = [x \in Nodes |-> eager[x]]
  /\ \A x \in Nodes : /\ eager[x] = NoTrie <=> sb[x] = NoTrie
                      /\ sb[x] # NoTrie => /\ TrieLeads(sb[x]) /\ TrieLeads(eager[x])
                                           /\ TreeOf(x, eager[x])
  /\ \A x \in blocks \ {lastAccepted} :
       sb[x] # NoTrie /\ Undecided(eager[ParentOf[x]], x)
         => ChildFollows(eager[ParentOf[x]], x, eager[x])

(* The votes pushed: no more than K, and those for the children of a block *)
(* are votes for that block as well.                                       *)
PollOK(p) ==
  /\ p \in [IDs -> Nat]
  /\ \A x \in blocks : /\ Count(p, Children(x)) <= K
                       /\ x # lastAccepted => Count(p, Children(x)) <= p[x]

(* The stack is a path down the tree. *)
StackOK ==
  /\ phase = "idle" => stack = {}
  /\ stack # {} => PollOK(poll)
  /\ stack \subseteq blocks
  /\ \A x \in stack : /\ Count(poll, Children(x)) >= AlphaPreference
                      /\ x = Top(stack) \/ ParentOf[x] \in stack
                      /\ \A y \in stack : x \in Ancestry[y] \/ y \in Ancestry[x]

Flagged(x) == Ancestry[x] \cap shouldFalter # {}

Reset(x) == IF Flagged(x) THEN TrieUnsuccessful(sb[x]) ELSE sb[x]

(* While a poll is recorded, the blocks under the stack will be flagged,   *)
(* and those on it have their vote to come.                                *)
FlagsOK ==
  /\ shouldFalter \subseteq blocks
  /\ stack # {} => Ancestry[Top(stack)] \cap shouldFalter \subseteq {Top(stack)}
  /\ \A x \in blocks : sb[x] # NoTrie =>
       eager[x] = IF x \in stack THEN TriePoll(Reset(x), ChildVotes(poll, x))
                  ELSE IF Ancestry[x] \cap stack # {} THEN TrieUnsuccessful(sb[x])
                  ELSE Reset(x)

PendingOK == \A x \in blocks : sb[x] # NoTrie /\ TrieFinalized(sb[x]) => Abandoned(x)

VoteInv == TsInv /\ EagerOK /\ StackOK /\ FlagsOK /\ PendingOK

-----------------------------------------------------------------------------
(* Votes, and the vote stack. *)

(* The votes for the children of a block can be counted. *)
LEMMA ChildrenFinite ==
  ASSUME TsInv, NEW p \in [IDs -> Nat], NEW x
  PROVE  /\ Children(x) \in SUBSET IDs /\ \A y \in Children(x) : p[y] \in Nat
         /\ Count(p, Children(x)) \in Nat
<1>1. Children(x) \in SUBSET IDs /\ \A y \in Children(x) : p[y] \in Nat
  BY ChildrenAre
<1> QED BY <1>1, CountNat

(* What is in blocks above the last accepted block. *)
LEMMA ProcessingIs ==
  ASSUME TsInv, NEW x \in blocks, x # lastAccepted
  PROVE  /\ x \in IDs /\ ~Decided(x) /\ ParentOf[x] \in blocks /\ x \in Children(ParentOf[x])
         /\ x \notin Ancestry[lastAccepted]
<1>1. x \in Nodes /\ lastAccepted \in Nodes /\ lastAccepted \in Ancestry[x]
        /\ Ancestry[x] \ Ancestry[lastAccepted] \subseteq blocks /\ lastAccepted \in blocks
  BY DEF TsInv, RootOK, RootedAtLastAccepted
<1>2. HeightOf[lastAccepted] < HeightOf[x] /\ HeightOf[x] \in Nat /\ HeightOf[lastAccepted] \in Nat
  BY <1>1, AncestryIs
<1>3. x # Genesis
  BY <1>1, AncestryIs
<1>4. x \in IDs /\ Ancestry[x] = {x} \cup Ancestry[ParentOf[x]] /\ ParentOf[x] \in Nodes
  BY <1>1, <1>3, AncestryIs
<1>5. x \notin Ancestry[lastAccepted]
  <2> SUFFICES ASSUME x \in Ancestry[lastAccepted] PROVE FALSE
    OBVIOUS
  <2>1. HeightOf[x] < HeightOf[lastAccepted]
    BY <1>1, AncestryIs
  <2> QED BY <1>2, <2>1
<1>6. ParentOf[x] \in blocks
  <2>1. ParentOf[x] \in Ancestry[x] /\ ParentOf[x] \in Ancestry[ParentOf[x]]
    BY <1>4, AncestryIs
  <2>2. CASE ParentOf[x] \notin Ancestry[lastAccepted]
    BY <1>1, <2>1, <2>2
  <2>3. CASE ParentOf[x] \in Ancestry[lastAccepted]
    <3>1. lastAccepted \in Ancestry[ParentOf[x]]
      BY <1>1, <1>4
    <3>2. ParentOf[x] = lastAccepted
      <4> SUFFICES ASSUME ParentOf[x] # lastAccepted PROVE FALSE
        OBVIOUS
      <4>1. HeightOf[ParentOf[x]] < HeightOf[lastAccepted]
        BY <1>1, <2>3, AncestryIs
      <4>2. HeightOf[lastAccepted] < HeightOf[ParentOf[x]]
        BY <1>4, <3>1, AncestryIs
      <4>3. HeightOf[ParentOf[x]] \in Nat
        BY <1>4, AncestryIs
      <4> QED BY <1>2, <4>1, <4>2, <4>3
    <3> QED BY <1>1, <3>2
  <2> QED BY <2>2, <2>3
<1>7. ~Decided(x)
  BY <1>2 DEF Decided
<1> QED BY <1>3, <1>4, <1>5, <1>6, <1>7 DEF Children

(* Two children of a block are on no common branch. *)
LEMMA SiblingsConflict ==
  ASSUME TsInv, NEW x, NEW y \in Children(x), NEW z \in Children(x), y # z,
         NEW v \in Nodes, y \in Ancestry[v]
  PROVE  z \notin Ancestry[v]
<1> SUFFICES ASSUME z \in Ancestry[v] PROVE FALSE
  OBVIOUS
<1>1. /\ y \in IDs /\ z \in IDs /\ ParentOf[y] = x /\ ParentOf[z] = x
      /\ Ancestry[z] = {z} \cup Ancestry[x] /\ y \notin Ancestry[x]
  BY ChildrenAre
<1>2. x \in Nodes
  BY <1>1, AncestryOfChild
<1>3. HeightOf[y] = HeightOf[x] + 1 /\ HeightOf[z] = HeightOf[x] + 1 /\ HeightOf[x] \in Nat
  BY <1>1, <1>2, BlocksAssumption
<1>4. y \in Ancestry[z]
  BY <1>3, AncestryLinear
<1> QED BY <1>1, <1>4

(* pushVotes: a block's votes are those for it and for what extends it.    *)
LEMMA PushedOK ==
  ASSUME TsInv, NEW votes \in Votes
  PROVE  PollOK(Pushed(votes))
<1> DEFINE valid == {x \in blocks : ~Decided(x)}
           p == Pushed(votes)
           E == [y \in IDs |-> {z \in valid : y \in Ancestry[z]}]
<1>1. votes \in [IDs -> 0..K] /\ Count(votes, IDs) <= K /\ K \in Nat
  BY ParametersVerify DEF Votes
<1>2. \A x \in IDs : votes[x] \in Nat
  BY <1>1
<1>3. valid \subseteq IDs
  <2> SUFFICES ASSUME NEW x \in valid PROVE x \in IDs
    OBVIOUS
  <2>1. x # lastAccepted
    <3> SUFFICES ASSUME x = lastAccepted PROVE Decided(x)
      OBVIOUS
    <3>1. HeightOf[lastAccepted] \in Nat
      BY AncestryIs DEF TsInv, RootOK
    <3> QED BY <3>1 DEF Decided
  <2> QED BY <2>1, ProcessingIs
<1>4. p = [x \in IDs |-> IF x \in valid THEN Count(votes, E[x]) ELSE 0]
  BY DEF Pushed
<1>5. \A x \in IDs : E[x] \in SUBSET IDs /\ Count(votes, E[x]) \in Nat
  <2> SUFFICES ASSUME NEW x \in IDs PROVE E[x] \in SUBSET IDs /\ Count(votes, E[x]) \in Nat
    OBVIOUS
  <2>1. E[x] \in SUBSET IDs
    BY <1>3
  <2> QED BY <1>2, <2>1, CountNat
<1> HIDE DEF E, p
<1>6. p \in [IDs -> Nat]
  BY <1>4, <1>5
<1>7. ASSUME NEW x \in blocks
      PROVE  /\ Count(p, Children(x)) <= K
             /\ x # lastAccepted => Count(p, Children(x)) <= p[x]
  <2> DEFINE S == Children(x)
             all == UNION {E[y] : y \in S}
  <2>1. S \in SUBSET IDs /\ IsFiniteSet(S) /\ Count(p, S) \in Nat
    BY <1>6, ChildrenFinite, CountNat
  <2>2. ASSUME NEW y \in S PROVE y \in valid /\ p[y] = Sum(votes, E[y]) /\ E[y] \subseteq valid
    <3>1. y \in blocks /\ y # lastAccepted /\ y \in IDs
      BY ChildrenAre
    <3>2. y \in valid
      BY <3>1, ProcessingIs
    <3>3. E[y] \subseteq valid
      BY <3>1 DEF E
    <3> QED BY <1>4, <3>1, <3>2, <3>3, CountIsSum
  <2>3. ASSUME NEW y \in S, NEW z \in S, y # z PROVE E[y] \cap E[z] = {}
    <3>1. y \in IDs /\ z \in IDs
      BY <2>1
    <3>2. \A v \in valid : v \in Nodes
      BY <1>3 DEF Nodes
    <3>3. \A v \in valid : ~(y \in Ancestry[v] /\ z \in Ancestry[v])
      BY <2>3, <3>2, SiblingsConflict
    <3> QED BY <3>1, <3>3 DEF E
  <2>4. IsFiniteSet(IDs) /\ \A y \in S : E[y] \subseteq IDs
    BY <1>3, <2>2, IDsFinite
  <2> HIDE DEF S
  <2>5. Sum(p, S) = Sum(votes, all)
    BY <1>2, <2>1, <2>2, <2>3, <2>4, SumOfSums
  <2>6. all \in SUBSET IDs
    BY <2>4
  <2>7. Count(p, S) = Count(votes, all)
    BY <2>5, CountIsSum
  <2> HIDE DEF all
  <2>8. Count(votes, all) <= Count(votes, IDs) /\ Count(votes, all) \in Nat
    BY <1>2, <2>6, CountMonotonic, CountNat
  <2>9. Count(votes, IDs) \in Nat
    BY <1>2, CountNat
  <2>10. Count(p, S) <= K
    BY <1>1, <2>7, <2>8, <2>9
  <2>11. ASSUME x # lastAccepted PROVE Count(p, S) <= p[x]
    <3>1. x \in IDs /\ x \in valid
      BY <2>11, ProcessingIs
    <3>2. p[x] = Count(votes, E[x]) /\ E[x] \in SUBSET IDs
      BY <1>4, <1>5, <3>1
    <3>3. ASSUME NEW y \in S PROVE E[y] \subseteq E[x]
      <4>1. y \in IDs /\ x \in Ancestry[y]
        BY ChildrenAre DEF S
      <4>2. \A z \in valid : y \in Ancestry[z] => x \in Ancestry[z]
        BY <1>3, <4>1, AncestryTransitive DEF Nodes
      <4> QED BY <3>1, <4>1, <4>2 DEF E
    <3>4. all \subseteq E[x]
      BY <3>3 DEF all
    <3> QED BY <1>2, <2>7, <3>2, <3>4, CountMonotonic
  <2> QED BY <2>10, <2>11 DEF S
<1> QED BY <1>6, <1>7 DEF PollOK, p

(* No votes at all are a poll, with an empty vote stack. *)
LEMMA NoVotesOK ==
  ASSUME TsInv
  PROVE  PollOK(NoVotes) /\ VoteStack(NoVotes) = {}
<1>1. NoVotes \in [IDs -> Nat]
  BY DEF NoVotes
<1>2. ASSUME NEW x PROVE Count(NoVotes, Children(x)) = 0
  <2>1. Children(x) \in SUBSET IDs /\ IsFiniteSet(Children(x))
    BY <1>1, ChildrenFinite, CountNat
  <2>2. \A y \in Children(x) : NoVotes[y] = 0
    BY <2>1 DEF NoVotes
  <2>3. Sum(NoVotes, Children(x)) = 0
    BY <2>1, <2>2, SumPositive
  <2> QED BY <2>3, CountIsSum
<1>3. \A x \in blocks : x # lastAccepted => NoVotes[x] = 0
  BY ProcessingIs DEF NoVotes
<1>4. K \in Nat
  BY ParametersVerify
<1>5. PollOK(NoVotes)
  BY <1>1, <1>2, <1>3, <1>4 DEF PollOK
<1>6. VoteStack(NoVotes) = {}
  BY <1>2, AlphaPositive DEF VoteStack
<1> QED BY <1>5, <1>6

(* The vote stack reaches up to the last accepted block, and two blocks on *)
(* it are on one branch.                                                   *)
LEMMA VotedParent ==
  ASSUME TsInv, NEW p, PollOK(p), NEW x \in VoteStack(p), x # lastAccepted
  PROVE  ParentOf[x] \in VoteStack(p) /\ p[x] >= AlphaPreference /\ x \in IDs
<1> DEFINE q == ParentOf[x]
<1>1. x \in blocks /\ Count(p, Children(x)) >= AlphaPreference
  BY DEF VoteStack
<1>2. x \in IDs /\ q \in blocks /\ x \in Children(q)
  BY <1>1, ProcessingIs
<1>3. Count(p, Children(x)) <= p[x] /\ p \in [IDs -> Nat]
  BY <1>1 DEF PollOK
<1>4. /\ Children(q) \in SUBSET IDs /\ \A y \in Children(q) : p[y] \in Nat
      /\ Count(p, Children(q)) \in Nat /\ Count(p, Children(x)) \in Nat
  BY <1>3, ChildrenFinite
<1>5. p[x] <= Count(p, Children(q))
  BY <1>2, <1>4, CountOfOne
<1>6. p[x] \in Nat /\ AlphaPreference \in Nat
  BY <1>2, <1>3, AlphaPositive
<1>7. p[x] >= AlphaPreference /\ Count(p, Children(q)) >= AlphaPreference
  BY <1>1, <1>3, <1>4, <1>5, <1>6
<1> QED BY <1>2, <1>7 DEF VoteStack

(* What a voted block extends is in the vote stack too (pushVotes). *)
LEMMA VotedAncestors ==
  ASSUME TsInv, NEW p, PollOK(p), NEW x \in VoteStack(p), NEW a \in Ancestry[x], a \in blocks
  PROVE  a \in VoteStack(p)
<1> DEFINE C == {z \in VoteStack(p) : a \in Ancestry[z]}
<1>1. C \in SUBSET Nodes /\ x \in C
  BY DEF VoteStack, TsInv, RootOK
<1>2. PICK z \in C : \A w \in C : HeightOf[z] <= HeightOf[w]
  <2> HIDE DEF C
  <2> QED BY <1>1, Lowest
<1>3. z = a
  <2> SUFFICES ASSUME z # a PROVE FALSE
    BY <1>2
  <2>1. z # lastAccepted
    <3> SUFFICES ASSUME z = lastAccepted PROVE FALSE
      OBVIOUS
    <3>1. a # lastAccepted /\ a \in Ancestry[lastAccepted]
      BY <1>2
    <3> QED BY <3>1, ProcessingIs
  <2>2. ParentOf[z] \in VoteStack(p) /\ z \in IDs
    BY <1>2, <2>1, VotedParent
  <2>3. z \in Nodes /\ z # Genesis
    BY <2>2, BlocksAssumption DEF Nodes
  <2>4. a \in Ancestry[ParentOf[z]]
    BY <1>2, <2>3, AncestryIs
  <2>5. ParentOf[z] \in C
    BY <2>2, <2>4
  <2>6. ParentOf[z] \in Nodes /\ HeightOf[ParentOf[z]] < HeightOf[z]
          /\ HeightOf[ParentOf[z]] \in Nat /\ HeightOf[z] \in Nat
    BY <2>3, AncestryIs
  <2> HIDE DEF C
  <2> QED BY <1>2, <2>5, <2>6
<1> QED BY <1>2, <1>3

(* The vote stack is on one branch. *)
LEMMA VotedBranch ==
  ASSUME TsInv, NEW p, PollOK(p), NEW x \in VoteStack(p), NEW y \in VoteStack(p)
  PROVE  x \in Ancestry[y] \/ y \in Ancestry[x]
<1> DEFINE Apart(u, v) == u \notin Ancestry[v] /\ v \notin Ancestry[u]
           C == {u \in VoteStack(p) : \E v \in VoteStack(p) : Apart(u, v)}
<1> SUFFICES ASSUME C # {} PROVE FALSE
  OBVIOUS
<1>0. VoteStack(p) \subseteq blocks /\ blocks \subseteq Nodes
  BY DEF VoteStack, TsInv, RootOK
<1>1. PICK u \in C : \A w \in C : HeightOf[u] <= HeightOf[w]
  <2>1. C \in SUBSET Nodes
    BY <1>0
  <2> HIDE DEF C
  <2> QED BY <2>1, Lowest
<1>2. PICK v \in VoteStack(p) : Apart(u, v)
  BY <1>1
<1>3. u \in VoteStack(p) /\ u \in Nodes /\ v \in Nodes /\ u \in blocks /\ v \in blocks
  BY <1>0, <1>1, <1>2
<1>4. u # lastAccepted
  BY <1>2, <1>3 DEF TsInv, RootOK, RootedAtLastAccepted
<1> DEFINE q == ParentOf[u]
<1>5. q \in VoteStack(p) /\ p[u] >= AlphaPreference /\ u \in IDs /\ u \in Children(q) /\ q \in blocks
  BY <1>3, <1>4, VotedParent, ProcessingIs
<1>6. q \in Nodes /\ HeightOf[q] < HeightOf[u] /\ HeightOf[q] \in Nat /\ HeightOf[u] \in Nat
        /\ Ancestry[u] = {u} \cup Ancestry[q]
  <2>1. u # Genesis
    BY <1>5, BlocksAssumption
  <2>2. q \in Nodes
    BY <1>3, <2>1, AncestryIs
  <2> QED BY <1>3, <2>1, <2>2, AncestryIs
<1>7. q \notin C
  <2> HIDE DEF C
  <2> QED BY <1>1, <1>6
<1>8. q \in Ancestry[v] /\ q # v
  <2>1. v \notin Ancestry[q]
    BY <1>2, <1>6
  <2>2. q \in Ancestry[q]
    BY <1>6, AncestryIs
  <2> QED BY <1>2, <1>5, <1>7, <2>1, <2>2
<1>9. PICK c \in Ancestry[v] : c \in IDs /\ ParentOf[c] = q
  BY <1>3, <1>8, AncestryChild
<1>10. c \in blocks /\ c # lastAccepted
  <2>1. lastAccepted \in Ancestry[q] /\ Ancestry[v] \ Ancestry[lastAccepted] \subseteq blocks
    BY <1>3, <1>5 DEF TsInv, RootOK, RootedAtLastAccepted
  <2>2. c \notin Ancestry[q]
    BY <1>9, AncestryOfChild
  <2>3. c \notin Ancestry[lastAccepted]
    BY <1>6, <2>1, <2>2, AncestryTransitive
  <2> QED BY <1>9, <2>1, <2>2, <2>3
<1>11. c \in VoteStack(p)
  BY <1>2, <1>9, <1>10, VotedAncestors
<1>12. p[c] >= AlphaPreference /\ c \in Children(q)
  BY <1>9, <1>10, <1>11, VotedParent, ProcessingIs
<1>13. c # u
  BY <1>2, <1>9
<1>14. /\ Children(q) \in SUBSET IDs /\ \A z \in Children(q) : p[z] \in Nat
       /\ Count(p, Children(q)) <= K
  <2>1. p \in [IDs -> Nat] /\ Count(p, Children(q)) <= K
    BY <1>5 DEF PollOK
  <2> QED BY <2>1, ChildrenFinite
<1>15. ASSUME NEW z \in Children(q), p[z] >= AlphaPreference PROVE Count(p, {z}) >= AlphaPreference
  <2>1. p[z] <= Count(p, {z}) /\ Count(p, {z}) \in Nat
    BY <1>14, CountOfOne, CountNat
  <2> QED BY <1>14, <1>15, <2>1, AlphaPositive
<1>16. {u} \cap {c} # {}
  <2> DEFINE S == {u}
             T == {c}
  <2>1. S \in SUBSET Children(q) /\ T \in SUBSET Children(q)
    BY <1>5, <1>12
  <2>2. Count(p, S) >= AlphaPreference /\ Count(p, T) >= AlphaPreference
    BY <1>5, <1>12, <1>15
  <2> HIDE DEF S, T, q
  <2>3. S \cap T # {}
    BY <1>14, <2>1, <2>2, NoTwoMajorities
  <2> QED BY <2>3 DEF S, T
<1> QED BY <1>13, <1>16

(* If the stack is not empty, the last accepted block is its top. *)
LEMMA VoteStackTop ==
  ASSUME TsInv, NEW p, PollOK(p), VoteStack(p) # {}
  PROVE  lastAccepted \in VoteStack(p) /\ Top(VoteStack(p)) = lastAccepted
<1>1. VoteStack(p) \in SUBSET Nodes /\ VoteStack(p) \subseteq blocks
  BY DEF VoteStack, TsInv, RootOK
<1> DEFINE x == Top(VoteStack(p))
<1>2. x \in VoteStack(p) /\ \A y \in VoteStack(p) : HeightOf[x] <= HeightOf[y]
  BY <1>1, TopIs
<1> HIDE DEF x
<1>3. lastAccepted \in Ancestry[x] /\ lastAccepted \in blocks /\ x \in Nodes /\ lastAccepted \in Nodes
  BY <1>1, <1>2 DEF TsInv, RootOK, RootedAtLastAccepted
<1>4. lastAccepted \in VoteStack(p)
  BY <1>2, <1>3, VotedAncestors
<1>5. x = lastAccepted
  <2> SUFFICES ASSUME x # lastAccepted PROVE FALSE
    OBVIOUS
  <2>1. HeightOf[lastAccepted] < HeightOf[x] /\ HeightOf[x] <= HeightOf[lastAccepted]
    BY <1>2, <1>3, <1>4, AncestryIs
  <2>2. HeightOf[lastAccepted] \in Nat /\ HeightOf[x] \in Nat
    BY <1>3, AncestryIs
  <2> QED BY <2>1, <2>2
<1> QED BY <1>4, <1>5 DEF x

-----------------------------------------------------------------------------
(* No tree is ahead of the trees above it: EagerOK. *)

(* TreeOf, with the children as a parameter. *)
LEMMA TreeChooses ==
  ASSUME NEW x, NEW t
  PROVE  TreeOf(x, t) <=> Chooses(Children(x), t)
BY DEF TreeOf, Chooses

(* The votes for the children of a block are those of the poll. *)
LEMMA ChildVotesOK ==
  ASSUME TsInv, NEW p, PollOK(p), NEW x \in blocks
  PROVE  /\ VotesOK(ChildVotes(p, x)) /\ DOMAIN ChildVotes(p, x) = Children(x)
         /\ \A y \in Children(x) : ChildVotes(p, x)[y] = p[y]
         /\ \A S \in SUBSET Children(x) : Count(ChildVotes(p, x), S) = Count(p, S)
<1> DEFINE v == ChildVotes(p, x)
<1>1. DOMAIN v = Children(x) /\ \A y \in Children(x) : v[y] = p[y]
  BY DEF ChildVotes
<1>2. Children(x) \in SUBSET IDs /\ \A y \in Children(x) : p[y] \in Nat
  BY ChildrenFinite DEF PollOK
<1> HIDE DEF v
<1>3. ASSUME NEW S \in SUBSET Children(x) PROVE Count(v, S) = Count(p, S)
  <2>1. IsFiniteSet(S)
    BY <1>2, IDsFinite, FS_Subset
  <2>2. \A y \in S : v[y] \in Nat /\ v[y] = p[y]
    BY <1>1, <1>2
  <2> QED BY <2>1, <2>2, SumCongruent, CountIsSum
<1>4. Count(v, Children(x)) <= K
  BY <1>3 DEF PollOK
<1>5. VotesOK(v)
  BY <1>1, <1>2, <1>4 DEF VotesOK
<1> QED BY <1>1, <1>3, <1>5 DEF v

(* The tree above a block that has a tree. *)
LEMMA AboveHasTree ==
  ASSUME TsInv, EagerOK, NEW z \in blocks, z # lastAccepted
  PROVE  LET q == ParentOf[z]
         IN  /\ z \in IDs /\ q \in blocks /\ q \in Nodes /\ z \in Children(q)
             /\ sb[q] # NoTrie /\ eager[q] # NoTrie /\ Chooses(Children(q), eager[q])
             /\ Chooses(Children(q), sb[q])
             /\ TrieOK(eager[q]) /\ TrieLeads(eager[q]) /\ TrieOK(sb[q]) /\ TrieLeads(sb[q])
<1> DEFINE q == ParentOf[z]
<1>1. z \in IDs /\ q \in blocks /\ z \in Children(q)
  BY ProcessingIs
<1>2. q \in Nodes
  BY <1>1 DEF TsInv, RootOK
<1>3. sb[q] # NoTrie /\ TreeOf(q, sb[q])
  BY <1>1, <1>2 DEF TsInv, TreesOK
<1>4. eager[q] # NoTrie /\ TreeOf(q, eager[q]) /\ TrieLeads(eager[q]) /\ TrieLeads(sb[q])
  BY <1>2, <1>3 DEF EagerOK
<1> QED BY <1>1, <1>2, <1>3, <1>4, TreeChooses DEF Chooses

(* Recording a poll in every tree at once keeps EagerOK. *)
LEMMA RecordPollEager ==
  ASSUME TsInv, EagerOK, NEW p, PollOK(p), eager' = RecordEagerly(p),
         UNCHANGED <<blocks, sb, lastAccepted>>
  PROVE  EagerOK'
<1>1. \A x : Children(x)' = Children(x)
  BY DEF Children
<1>2. ASSUME NEW x \in Nodes, sb[x] # NoTrie
      PROVE  /\ x \in blocks /\ eager'[x] # NoTrie /\ Chooses(Children(x), eager'[x])
             /\ TrieLeads(eager'[x]) /\ Later(eager[x], eager'[x])
  <2>1. x \in blocks /\ eager[x] # NoTrie /\ Chooses(Children(x), eager[x]) /\ TrieLeads(eager[x])
    BY <1>2, TreeChooses DEF TsInv, TreesOK, EagerOK
  <2>2. Children(x) \in SUBSET IDs
    BY ChildrenAre
  <2>3. eager'[x] = IF x \in VoteStack(p) THEN TriePoll(eager[x], ChildVotes(p, x))
                    ELSE TrieUnsuccessful(eager[x])
    BY <2>1 DEF RecordEagerly
  <2>4. /\ Chooses(Children(x), eager'[x]) /\ TrieLeads(eager'[x]) /\ Later(eager[x], eager'[x])
    <3>1. VotesOK(ChildVotes(p, x)) /\ DOMAIN ChildVotes(p, x) = Children(x)
      BY <2>1, ChildVotesOK
    <3>2. CASE x \in VoteStack(p)
      BY <2>1, <2>3, <3>1, <3>2, ChoosesPoll
    <3>3. CASE x \notin VoteStack(p)
      BY <2>1, <2>2, <2>3, <3>3, ChoosesReset
    <3> QED BY <3>2, <3>3
  <2>5. eager'[x] # NoTrie
    BY <2>4, TrieIsNoTrie DEF Chooses, TrieOK
  <2> QED BY <2>1, <2>4, <2>5
<1>3. ASSUME NEW x \in Nodes, sb[x] = NoTrie PROVE eager'[x] = NoTrie
  BY <1>3 DEF RecordEagerly, EagerOK
<1>4. ASSUME NEW z \in blocks, z # lastAccepted, sb[z] # NoTrie,
             Undecided(eager'[ParentOf[z]], z)
      PROVE  ChildFollows(eager'[ParentOf[z]], z, eager'[z])
  <2> DEFINE q == ParentOf[z]
  <2>1. /\ z \in IDs /\ q \in blocks /\ q \in Nodes /\ z \in Children(q)
        /\ sb[q] # NoTrie /\ eager[q] # NoTrie /\ Chooses(Children(q), eager[q])
        /\ TrieOK(eager[q]) /\ TrieLeads(eager[q])
    BY <1>4, AboveHasTree
  <2>2. z \in Nodes /\ eager[z] # NoTrie /\ Chooses(Children(z), eager[z]) /\ TrieOK(eager[z])
    BY <1>4, TreeChooses DEF TsInv, RootOK, EagerOK, Chooses
  <2>3. Later(eager[q], eager'[q]) /\ TrieOK(eager'[q])
    BY <1>2, <2>1 DEF Chooses
  <2>4. Undecided(eager[q], z) /\ z \in eager[q].choices
    <3>1. Undecided(eager[q], z)
      BY <1>4, <2>1, <2>3, UndecidedShrinks
    <3> QED BY <2>1, <3>1 DEF Chooses
  <2>5. ChildFollows(eager[q], z, eager[z])
    BY <1>4, <2>4 DEF EagerOK
  <2>6. CASE z \in VoteStack(p)
    <3>1. q \in VoteStack(p)
      BY <1>4, <2>6, VotedParent
    <3>2. /\ eager'[q] = TriePoll(eager[q], ChildVotes(p, q))
          /\ eager'[z] = TriePoll(eager[z], ChildVotes(p, z))
      BY <2>1, <2>2, <2>6, <3>1 DEF RecordEagerly
    <3>3. /\ VotesOK(ChildVotes(p, q)) /\ DOMAIN ChildVotes(p, q) = Children(q)
          /\ ChildVotes(p, q)[z] = p[z]
      BY <2>1, ChildVotesOK
    <3>4. /\ VotesOK(ChildVotes(p, z)) /\ DOMAIN ChildVotes(p, z) = Children(z)
          /\ Count(ChildVotes(p, z), Children(z)) = Count(p, Children(z))
      BY ChildVotesOK
    <3>5. Count(p, Children(z)) <= p[z]
      BY <1>4 DEF PollOK
    <3>6. \A y \in Children(z) : Undecided(eager[z], y) => y \in eager[z].choices
      BY <2>2 DEF Chooses
    <3> HIDE DEF q
    <3>7. ChildFollows(TriePoll(eager[q], ChildVotes(p, q)), z, TriePoll(eager[z], ChildVotes(p, z)))
      BY Zenon, <2>1, <2>2, <2>4, <2>5, <3>3, <3>4, <3>5, <3>6, ChildFollowsPoll
    <3> QED BY <3>2, <3>7 DEF q
  <2>7. CASE z \notin VoteStack(p)
    <3>1. eager'[z] = TrieUnsuccessful(eager[z])
      BY <2>2, <2>7 DEF RecordEagerly
    <3> HIDE DEF q
    <3>2. ChildFollows(eager'[q], z, TrieUnsuccessful(eager[z]))
      BY <2>1, <2>2, <2>3, <2>4, <2>5, ChildFollowsReset
    <3> QED BY <3>1, <3>2 DEF q
  <2> QED BY <2>6, <2>7
<1>5. \A x \in Nodes : sb[x] # NoTrie => TreeOf(x, eager[x])'
  BY <1>1, <1>2 DEF TreeOf, Chooses
<1>6. eager' = [x \in Nodes |-> eager'[x]]
  BY DEF RecordEagerly
<1> QED BY <1>2, <1>3, <1>4, <1>5, <1>6 DEF EagerOK

-----------------------------------------------------------------------------
(* Add and RecordPoll keep VoteInv. *)

(* Nobody comes back to an abandoned block. *)
LEMMA AbandonedKept ==
  ASSUME TsInv, EagerOK, NEW x \in blocks, Abandoned(x), lastAccepted' = lastAccepted,
         \A y \in blocks \ {lastAccepted} :
           Later(sb[ParentOf[y]], sb'[ParentOf[y]]) /\ TrieOK(sb'[ParentOf[y]])
  PROVE  Abandoned(x)'
<1>1. PICK y \in Ancestry[x] \ Ancestry[lastAccepted] : ~Undecided(sb[ParentOf[y]], y)
  BY DEF Abandoned
<1>2. lastAccepted \in Ancestry[lastAccepted]
  BY AncestryIs DEF TsInv, RootOK
<1>3. y \in blocks /\ y # lastAccepted
  BY <1>1, <1>2 DEF TsInv, RootOK, RootedAtLastAccepted
<1>4. y \in IDs /\ TrieOK(sb[ParentOf[y]])
  BY <1>3, AboveHasTree
<1>5. ~Undecided(sb'[ParentOf[y]], y)
  BY <1>1, <1>3, <1>4, UndecidedShrinks
<1> QED BY <1>1, <1>5 DEF Abandoned

(* What Add does to the trees, either those of the code or the eager ones. *)
LEMMA AddChildIs ==
  ASSUME NEW trees, trees = [z \in Nodes |-> trees[z]], NEW q \in Nodes, NEW x \in IDs
  PROVE  LET new == AddChild(trees, q, x)
         IN  /\ new = [z \in Nodes |-> new[z]]
             /\ \A z \in Nodes : z # q => new[z] = trees[z]
             /\ new[q] = IF trees[q] = NoTrie THEN NewTrie(x) ELSE TrieAdd(trees[q], x)
BY DEF AddChild

(* Add keeps EagerOK. *)
LEMMA TsAddEager ==
  ASSUME TsInv, EagerOK, NEW x \in IDs, TsAdd(x)
  PROVE  EagerOK'
<1> DEFINE q == ParentOf[x]
<1>1. /\ ~Processing(x) /\ q \in blocks /\ q \in Nodes
      /\ blocks' = blocks \cup {x} /\ sb' = AddChild(sb, q, x) /\ eager' = AddChild(eager, q, x)
      /\ lastAccepted' = lastAccepted
  BY DEF TsAdd, TsInv, RootOK
<1>2. x \notin blocks /\ x # q /\ Children(x) = {} /\ x \in Nodes /\ x # Genesis
  BY <1>1, AddedIsNew, BlocksAssumption DEF Nodes
<1>3. \A z : Children(z)' = IF z = q THEN Children(z) \cup {x} ELSE Children(z)
  BY <1>1, <1>2 DEF Children
<1>4. /\ \A z \in Nodes : z # q => sb'[z] = sb[z]
      /\ sb'[q] = IF sb[q] = NoTrie THEN NewTrie(x) ELSE TrieAdd(sb[q], x)
  BY <1>1, AddChildIs DEF TsInv, TreesOK
<1>5. /\ eager' = [z \in Nodes |-> eager'[z]] /\ \A z \in Nodes : z # q => eager'[z] = eager[z]
      /\ eager'[q] = IF eager[q] = NoTrie THEN NewTrie(x) ELSE TrieAdd(eager[q], x)
  BY <1>1, AddChildIs DEF EagerOK
<1>6. NewTrie(x) # NoTrie /\ TrieLeads(NewTrie(x)) /\ Chooses({x}, NewTrie(x))
  BY NewTrieOK, NewTrieLeads, TrieIsNoTrie DEF TrieOK, Chooses
<1>7. Children(q) \in SUBSET IDs
  BY ChildrenAre
<1>8. sb[q] # NoTrie => /\ TrieLeads(sb[q]) /\ Chooses(Children(q), sb[q])
                        /\ TrieLeads(eager[q]) /\ Chooses(Children(q), eager[q])
                        /\ eager[q] # NoTrie
  BY <1>1, TreeChooses DEF EagerOK, TsInv, TreesOK
<1> HIDE DEF q
<1>9. /\ TrieLeads(sb'[q]) /\ TrieLeads(eager'[q]) /\ sb'[q] # NoTrie /\ eager'[q] # NoTrie
      /\ Chooses(Children(q) \cup {x}, eager'[q])
  <2>1. CASE sb[q] = NoTrie
    <3>1. eager[q] = NoTrie /\ Children(q) = {}
      BY <1>1, <2>1 DEF EagerOK, TsInv, TreesOK
    <3>2. Children(q) \cup {x} = {x}
      BY <3>1
    <3> QED BY <1>4, <1>5, <1>6, <2>1, <3>1, <3>2
  <2>2. CASE sb[q] # NoTrie
    <3>1. sb'[q] = TrieAdd(sb[q], x) /\ eager'[q] = TrieAdd(eager[q], x)
      BY <1>4, <1>5, <1>8, <2>2
    <3>2. TrieLeads(TrieAdd(sb[q], x)) /\ Chooses(Children(q) \cup {x}, TrieAdd(sb[q], x))
      BY <1>7, <1>8, <2>2, ChoosesAdd
    <3>3. TrieLeads(TrieAdd(eager[q], x)) /\ Chooses(Children(q) \cup {x}, TrieAdd(eager[q], x))
      BY <1>7, <1>8, <2>2, ChoosesAdd
    <3>4. sb'[q] # NoTrie /\ eager'[q] # NoTrie
      BY Zenon, <3>1, <3>2, <3>3, TrieIsNoTrie DEF Chooses, TrieOK
    <3> QED BY Zenon, <3>1, <3>2, <3>3, <3>4
  <2> QED BY <2>1, <2>2
<1>10. TreeOf(q, eager[q])'
  BY <1>3, <1>9 DEF TreeOf, Chooses
<1>11. ASSUME NEW z \in Nodes
       PROVE  /\ eager'[z] = NoTrie <=> sb'[z] = NoTrie
              /\ sb'[z] # NoTrie => /\ TrieLeads(sb'[z]) /\ TrieLeads(eager'[z])
                                    /\ TreeOf(z, eager[z])'
  <2>1. CASE z = q
    BY <1>9, <1>10, <2>1
  <2>2. CASE z # q
    <3>1. sb'[z] = sb[z] /\ eager'[z] = eager[z] /\ Children(z)' = Children(z)
      BY <1>3, <1>4, <1>5, <2>2
    <3>2. TreeOf(z, eager[z]) => TreeOf(z, eager[z])'
      BY <3>1 DEF TreeOf
    <3> QED BY <3>1, <3>2 DEF EagerOK
  <2> QED BY <2>1, <2>2
<1>12. ASSUME NEW z \in blocks' \ {lastAccepted'}, sb'[z] # NoTrie, Undecided(eager'[ParentOf[z]], z)
       PROVE  ChildFollows(eager'[ParentOf[z]], z, eager'[z])
  <2> DEFINE r == ParentOf[z]
  <2>1. z \in blocks /\ z # lastAccepted /\ z \in Nodes
    <3>1. sb[x] = NoTrie
      BY <1>2 DEF TsInv, TreesOK
    <3> QED BY <1>1, <1>2, <1>4, <1>12, <3>1 DEF TsInv, RootOK
  <2>2. /\ z \in IDs /\ r \in Nodes /\ z \in Children(r) /\ sb[r] # NoTrie /\ eager[r] # NoTrie
        /\ Chooses(Children(r), eager[r]) /\ TrieOK(eager[r]) /\ TrieLeads(eager[r])
    BY <2>1, AboveHasTree
  <2>3. r # z
    BY <2>2, AncestryOfChild
  <2>4. eager'[r] = IF r = q THEN TrieAdd(eager[r], x) ELSE eager[r]
    BY <1>5, <2>2
  <2> HIDE DEF r
  <2>5. TrieOK(eager'[r]) /\ Later(eager[r], eager'[r])
    BY Zenon, <2>2, <2>4, TrieAddOK, LaterSame
  <2>6. Undecided(eager[r], z) /\ z \in eager[r].choices
    <3>1. Undecided(eager[r], z)
      BY <1>12, <2>2, <2>5, UndecidedShrinks DEF r
    <3> QED BY <2>2, <3>1 DEF Chooses
  <2>7. CASE sb[z] = NoTrie
    <3>1. eager'[z] = NewTrie(x)
      BY <1>4, <1>5, <1>12, <2>1, <2>7 DEF EagerOK
    <3>2. ChildFollows(eager'[r], z, NewTrie(x))
      BY NewTrieLeads, LeadsFresh DEF ChildFollows
    <3> QED BY <3>1, <3>2 DEF r
  <2>8. CASE sb[z] # NoTrie
    <3>1. /\ ChildFollows(eager[r], z, eager[z]) /\ eager[z] # NoTrie /\ TrieOK(eager[z])
      BY <2>1, <2>6, <2>8 DEF EagerOK, r, TreeOf
    <3>2. eager'[z] = IF z = q THEN TrieAdd(eager[z], x) ELSE eager[z]
      BY <1>5, <2>1, <3>1
    <3>3. ChildFollows(TrieAdd(eager[r], x), z, eager[z])
            /\ ChildFollows(eager[r], z, TrieAdd(eager[z], x))
      BY <2>2, <2>6, <3>1, ChildFollowsAdd
    <3> QED BY <2>3, <2>4, <3>1, <3>2, <3>3 DEF r
  <2> QED BY <2>7, <2>8
<1> QED BY <1>5, <1>11, <1>12 DEF EagerOK

(* Add keeps VoteInv. *)
LEMMA TsAddVoteInv ==
  ASSUME VoteInv, NEW x \in IDs, TsAdd(x)
  PROVE  VoteInv'
<1> DEFINE q == ParentOf[x]
<1>1. TsInv /\ EagerOK /\ StackOK /\ FlagsOK /\ PendingOK
  BY DEF VoteInv
<1>2. TsInv' /\ EagerOK'
  BY <1>1, TsAddInv, TsAddEager
<1>3. /\ ~Processing(x) /\ q \in blocks /\ q \in Nodes
      /\ blocks' = blocks \cup {x} /\ sb' = AddChild(sb, q, x) /\ eager' = AddChild(eager, q, x)
      /\ lastAccepted' = lastAccepted /\ stack = {} /\ stack' = {} /\ phase' = phase
      /\ shouldFalter' = shouldFalter
  BY <1>1 DEF TsAdd, TsInv, RootOK, StackOK
<1>4. /\ \A z \in Nodes : z # q => sb'[z] = sb[z]
      /\ sb'[q] = IF sb[q] = NoTrie THEN NewTrie(x) ELSE TrieAdd(sb[q], x)
  BY <1>1, <1>3, AddChildIs DEF TsInv, TreesOK
<1>5. /\ \A z \in Nodes : z # q => eager'[z] = eager[z]
      /\ eager'[q] = IF eager[q] = NoTrie THEN NewTrie(x) ELSE TrieAdd(eager[q], x)
  BY <1>1, <1>3, AddChildIs DEF EagerOK
<1>6. sb[q] # NoTrie => TrieOK(sb[q])
  BY <1>1, <1>3 DEF TsInv, TreesOK, TreeOf
<1>7. x \notin blocks /\ x \in Nodes /\ x # q /\ sb[x] = NoTrie
  BY <1>1, <1>3, AddedIsNew DEF TsInv, TreesOK, Nodes
<1> HIDE DEF q
<1>8. StackOK'
  BY <1>3 DEF StackOK
<1>9. FlagsOK'
  <2>1. ASSUME NEW z \in blocks', sb'[z] # NoTrie PROVE eager'[z] = Reset(z)'
    <3>1. z \in Nodes /\ z \in blocks
      BY <1>1, <1>3, <1>4, <1>7, <2>1 DEF TsInv, RootOK
    <3>2. Flagged(z)' <=> Flagged(z)
      BY <1>3 DEF Flagged
    <3>3. sb[z] # NoTrie => eager[z] = IF Flagged(z) THEN TrieUnsuccessful(sb[z]) ELSE sb[z]
      BY <1>1, <1>3, <3>1 DEF FlagsOK, Reset
    <3>4. CASE z # q
      BY <1>4, <1>5, <2>1, <3>1, <3>2, <3>3, <3>4 DEF Reset
    <3>5. CASE z = q /\ sb[q] = NoTrie
      <4>1. eager[q] = NoTrie
        BY <1>1, <1>3, <3>5 DEF EagerOK
      <4>2. eager'[z] = NewTrie(x) /\ sb'[z] = NewTrie(x)
        BY <1>4, <1>5, <3>5, <4>1
      <4> QED BY <4>2, UnsuccessfulNew DEF Reset
    <3>6. CASE z = q /\ sb[q] # NoTrie
      <4>1. eager[q] # NoTrie
        BY <1>1, <1>3, <3>6 DEF EagerOK
      <4>2. eager'[z] = TrieAdd(eager[q], x) /\ sb'[z] = TrieAdd(sb[q], x)
        BY <1>4, <1>5, <3>6, <4>1
      <4>3. TrieUnsuccessful(TrieAdd(sb[q], x)) = TrieAdd(TrieUnsuccessful(sb[q]), x)
        BY <1>6, <3>6, UnsuccessfulAdd
      <4> QED BY <3>2, <3>3, <3>6, <4>2, <4>3 DEF Reset
    <3> QED BY <3>4, <3>5, <3>6
  <2> QED BY <1>1, <1>3, <2>1 DEF FlagsOK
<1>10. PendingOK'
  <2>1. ASSUME NEW z \in blocks', sb'[z] # NoTrie, TrieFinalized(sb'[z]) PROVE Abandoned(z)'
    <3>1. z \in Nodes /\ z \in blocks
      BY <1>1, <1>3, <1>4, <1>7, <2>1 DEF TsInv, RootOK
    <3>2. sb[z] # NoTrie /\ TrieFinalized(sb[z])
      <4>1. CASE z # q
        BY <1>4, <2>1, <3>1, <4>1
      <4>2. CASE z = q
        BY <1>4, <1>6, <2>1, <4>2, UnsuccessfulNew, AddFinalized
      <4> QED BY <4>1, <4>2
    <3>3. Abandoned(z)
      BY <1>1, <3>1, <3>2 DEF PendingOK
    <3>4. ASSUME NEW y \in blocks \ {lastAccepted}
          PROVE  Later(sb[ParentOf[y]], sb'[ParentOf[y]]) /\ TrieOK(sb'[ParentOf[y]])
      <4>1. ParentOf[y] \in Nodes /\ sb[ParentOf[y]] # NoTrie /\ TrieOK(sb[ParentOf[y]])
        BY <1>1, AboveHasTree
      <4> QED BY Zenon, <1>4, <4>1, LaterSame, TrieAddOK
    <3> QED BY <1>1, <1>3, <3>1, <3>3, <3>4, AbandonedKept
  <2> QED BY <2>1 DEF PendingOK
<1> QED BY <1>2, <1>8, <1>9, <1>10 DEF VoteInv

(* Pushing the votes keeps VoteInv, and an empty vote stack flags the last *)
(* accepted block.                                                         *)
LEMMA RecordPollVoteInv ==
  ASSUME VoteInv, NEW votes \in Votes, TsRecordPoll(votes)
  PROVE  VoteInv'
<1> DEFINE p == IF Count(votes, IDs) >= AlphaPreference THEN Pushed(votes) ELSE NoVotes
<1>1. TsInv /\ EagerOK /\ StackOK /\ FlagsOK /\ PendingOK
  BY DEF VoteInv
<1>2. /\ phase = "idle" /\ stack = {}
      /\ eager' = RecordEagerly(p) /\ stack' = VoteStack(p)
      /\ UNCHANGED <<blocks, sb, lastAccepted>>
  BY <1>1 DEF TsRecordPoll, StackOK
<1>3. IF stack' = {} THEN shouldFalter' = shouldFalter \cup {lastAccepted} /\ phase' = "idle"
                     ELSE shouldFalter' = shouldFalter /\ phase' = "vote" /\ poll' = p
  BY <1>2 DEF TsRecordPoll
<1>4. PollOK(p)
  BY <1>1, PushedOK, NoVotesOK
<1> HIDE DEF p
<1>5. TsInv' /\ EagerOK'
  BY <1>1, <1>2, <1>4, TsRecordPollInv, RecordPollEager
<1>6. \A x : Children(x)' = Children(x)
  BY <1>2 DEF Children
<1>7. PendingOK'
  BY <1>1, <1>2 DEF PendingOK, Abandoned
<1>8. ASSUME stack' # {} PROVE Top(stack') = lastAccepted /\ lastAccepted \in stack'
  BY <1>1, <1>2, <1>4, <1>8, VoteStackTop
<1>9. StackOK'
  <2>1. CASE stack' = {}
    BY <1>3, <2>1 DEF StackOK
  <2>2. CASE stack' # {}
    <3>1. poll' = p /\ phase' = "vote" /\ PollOK(poll)'
      BY <1>2, <1>3, <1>4, <1>6, <2>2 DEF PollOK
    <3>2. stack' \subseteq blocks' /\ \A x \in stack' : Count(p, Children(x)) >= AlphaPreference
      BY <1>2 DEF VoteStack
    <3>3. \A x \in stack' : x = Top(stack') \/ ParentOf[x] \in stack'
      BY <1>1, <1>2, <1>4, <1>8, <2>2, VotedParent
    <3>4. \A x, y \in stack' : x \in Ancestry[y] \/ y \in Ancestry[x]
      BY <1>1, <1>2, <1>4, VotedBranch
    <3> QED BY <1>6, <3>1, <3>2, <3>3, <3>4 DEF StackOK
  <2> QED BY <2>1, <2>2
<1>10. ASSUME NEW x \in blocks, sb[x] # NoTrie
       PROVE  /\ eager[x] = Reset(x) /\ TrieUnsuccessful(eager[x]) = TrieUnsuccessful(sb[x])
              /\ eager'[x] = IF x \in stack' THEN TriePoll(eager[x], ChildVotes(p, x))
                             ELSE TrieUnsuccessful(eager[x])
              /\ lastAccepted \in Ancestry[x]
  <2>1. eager[x] = Reset(x)
    BY <1>1, <1>2, <1>10 DEF FlagsOK
  <2>2. x \in Nodes /\ TrieOK(sb[x]) /\ eager[x] # NoTrie /\ lastAccepted \in Ancestry[x]
    BY <1>1, <1>10 DEF TsInv, RootOK, RootedAtLastAccepted, TreesOK, TreeOf, EagerOK
  <2>3. TrieUnsuccessful(eager[x]) = TrieUnsuccessful(sb[x])
    BY <2>1, <2>2, ResetReset DEF Reset
  <2>4. eager'[x] = IF x \in stack' THEN TriePoll(eager[x], ChildVotes(p, x))
                             ELSE TrieUnsuccessful(eager[x])
    BY <1>2, <2>2 DEF RecordEagerly
  <2> QED BY <2>1, <2>2, <2>3, <2>4
<1>11. FlagsOK'
  <2>1. CASE stack' = {}
    <3>1. shouldFalter' \subseteq blocks' /\ lastAccepted \in shouldFalter'
      BY Zenon, <1>1, <1>2, <1>3, <2>1 DEF FlagsOK, TsInv, RootOK
    <3>2. \A x \in blocks : sb[x] # NoTrie => Flagged(x)' /\ eager'[x] = TrieUnsuccessful(sb[x])
      BY Zenon, <1>10, <2>1, <3>1 DEF Flagged
    <3>3. \A x \in blocks : sb[x] # NoTrie => eager'[x] = Reset(x)'
      BY Zenon, <1>2, <3>2 DEF Reset
    <3> QED BY Zenon, <1>2, <2>1, <3>1, <3>3 DEF FlagsOK
  <2>2. CASE stack' # {}
    <3>1. shouldFalter' = shouldFalter /\ poll' = p
      BY <1>3, <2>2
    <3>2. Ancestry[Top(stack')] \cap shouldFalter' \subseteq {Top(stack')}
      BY Zenon, <1>1, <1>8, <2>2, <3>1, ProcessingIs DEF FlagsOK
    <3>3. \A x : Reset(x)' = Reset(x) /\ ChildVotes(poll, x)' = ChildVotes(p, x)
      BY <1>2, <1>6, <3>1 DEF Reset, Flagged, ChildVotes
    <3>4. \A x \in blocks : sb[x] # NoTrie =>
             eager'[x] = IF x \in stack' THEN TriePoll(Reset(x)', ChildVotes(poll, x)')
                         ELSE TrieUnsuccessful(sb[x])
      BY <1>10, <3>3
    <3>5. \A x \in blocks : sb[x] # NoTrie => Ancestry[x] \cap stack' # {}
      BY <1>8, <1>10, <2>2
    <3>6. shouldFalter' \subseteq blocks'
      BY <1>1, <1>2, <3>1 DEF FlagsOK
    <3> QED BY Zenon, <1>2, <3>2, <3>4, <3>5, <3>6 DEF FlagsOK
  <2> QED BY <2>1, <2>2
<1> QED BY <1>5, <1>7, <1>9, <1>11 DEF VoteInv

-----------------------------------------------------------------------------
(* One turn of vote: the block it is at and the one it goes to next. *)

Voted == Top(stack)
Below == stack \ {Voted}
NextVoted == IF Below = {} THEN NoBlock ELSE Top(Below)

(* The block of a turn of vote is above all others of the vote stack. *)
LEMMA VotedIs ==
  ASSUME TsInv, StackOK, stack # {}
  PROVE  /\ Voted \in stack /\ Voted \in blocks /\ Voted \in Nodes /\ Voted \notin Below
         /\ Below \in SUBSET Nodes
         /\ \A y \in stack : Voted \in Ancestry[y]
         /\ \A y \in Below : y \notin Ancestry[Voted]
<1> DEFINE x == Voted
<1>1. stack \in SUBSET Nodes /\ stack \subseteq blocks
  BY DEF TsInv, TreesOK, StackOK
<1>2. x \in stack /\ \A y \in stack : HeightOf[x] <= HeightOf[y]
  BY <1>1, TopIs DEF Voted
<1> HIDE DEF x
<1>3. x \in Nodes /\ x \in blocks
  BY <1>1, <1>2
<1>4. ASSUME NEW y \in stack PROVE x \in Ancestry[y] /\ (y # x => y \notin Ancestry[x])
  <2>1. y \in Nodes
    BY <1>1
  <2>2. HeightOf[x] \in Nat /\ HeightOf[y] \in Nat /\ y \in Ancestry[y] /\ HeightOf[x] <= HeightOf[y]
    BY <1>2, <1>3, <2>1, AncestryIs
  <2>3. y \in Ancestry[x] /\ y # x => HeightOf[y] < HeightOf[x]
    BY <1>3, AncestryIs
  <2>4. y # x => y \notin Ancestry[x]
    BY <2>2, <2>3
  <2>5. x \in Ancestry[y] \/ y \in Ancestry[x]
    BY <1>2 DEF StackOK
  <2> QED BY <2>2, <2>4, <2>5
<1> QED BY <1>1, <1>2, <1>3, <1>4 DEF Below, x

(* The next block of the vote stack is a child of this one, and above all  *)
(* that follow.                                                            *)
LEMMA NextIs ==
  ASSUME TsInv, StackOK, stack # {}
  PROVE  /\ Below = {} => NextVoted \notin Nodes
         /\ Below # {} => /\ NextVoted \in Below /\ NextVoted \in Children(Voted)
                          /\ NextVoted = Top(Below) /\ poll[NextVoted] >= AlphaPreference
         /\ \A y \in Below : NextVoted \in Ancestry[y]
         /\ \A y \in Below : y = NextVoted \/ ParentOf[y] \in Below
<1> DEFINE x == Voted
           n == NextVoted
<1>1. /\ x \in stack /\ x \in blocks /\ x \in Nodes /\ x \notin Below /\ Below \in SUBSET Nodes
      /\ \A y \in Below : y \notin Ancestry[x] /\ x \in Ancestry[y]
  BY VotedIs DEF Below
<1>2. CASE Below = {}
  BY <1>2, NoBlockAssumption DEF NextVoted
<1>3. CASE Below # {}
  <2>1. n = Top(Below) /\ n \in Below /\ \A y \in Below : HeightOf[n] <= HeightOf[y]
    BY <1>1, <1>3, TopIs DEF NextVoted
  <2> HIDE DEF n, x
  <2>2. ASSUME NEW y \in Below
        PROVE  /\ y \in stack /\ y \in blocks /\ y # lastAccepted /\ y # x /\ y \in Nodes
               /\ ParentOf[y] \in stack /\ y \in IDs /\ y \in Children(ParentOf[y])
    <3>1. y \in stack /\ y # x /\ y \in blocks
      BY DEF Below, StackOK, x
    <3>2. ParentOf[y] \in stack
      BY <3>1 DEF StackOK, x, Voted
    <3>3. y # lastAccepted
      <4>1. lastAccepted \in Ancestry[x]
        BY <1>1 DEF TsInv, RootOK, RootedAtLastAccepted, x
      <4> QED BY <1>1, <4>1
    <3> QED BY <1>1, <3>1, <3>2, <3>3, ProcessingIs
  <2>3. ParentOf[n] = x
    <3>1. n \in IDs /\ n \in Nodes /\ n # Genesis /\ ParentOf[n] \in stack
      BY <2>1, <2>2, BlocksAssumption
    <3>2. HeightOf[ParentOf[n]] < HeightOf[n] /\ HeightOf[n] \in Nat /\ ParentOf[n] \in Nodes
      BY <3>1, AncestryIs
    <3>3. HeightOf[ParentOf[n]] \in Nat
      BY <3>2, AncestryIs
    <3>4. ParentOf[n] \notin Below
      BY <2>1, <3>2, <3>3
    <3> QED BY <3>1, <3>4 DEF Below, x
  <2>4. n \in Children(x)
    BY <2>1, <2>2, <2>3
  <2>5. ASSUME NEW y \in Below PROVE n \in Ancestry[y]
    <3>1. y \in Nodes /\ n \in Nodes /\ HeightOf[n] <= HeightOf[y]
      BY <1>1, <2>1
    <3>2. n \in Ancestry[y] \/ y \in Ancestry[n]
      BY <2>1, <2>2 DEF StackOK
    <3>3. HeightOf[n] \in Nat /\ HeightOf[y] \in Nat /\ n \in Ancestry[n]
            /\ (y \in Ancestry[n] /\ y # n => HeightOf[y] < HeightOf[n])
      BY <3>1, AncestryIs
    <3> QED BY <3>1, <3>2, <3>3
  <2>6. poll[n] >= AlphaPreference
    <3>1. Count(poll, Children(n)) <= poll[n] /\ poll \in [IDs -> Nat]
      BY <2>1, <2>2 DEF StackOK, PollOK
    <3>2. Count(poll, Children(n)) >= AlphaPreference
      BY <2>1, <2>2 DEF StackOK
    <3>3. Count(poll, Children(n)) \in Nat /\ poll[n] \in Nat /\ AlphaPreference \in Nat
      BY <2>1, <2>2, <3>1, ChildrenFinite, ParametersVerify
    <3> QED BY <3>1, <3>2, <3>3
  <2>7. ASSUME NEW y \in Below, y # n PROVE ParentOf[y] \in Below
    <3>1. ParentOf[y] \in stack /\ y \in Children(ParentOf[y]) /\ y \in Nodes /\ y \in Ancestry[y]
      BY <2>2, AncestryIs
    <3>2. ParentOf[y] # x
      <4> SUFFICES ASSUME ParentOf[y] = x PROVE FALSE
        OBVIOUS
      <4>1. y \in Children(x)
        BY <3>1
      <4>2. n \notin Ancestry[y]
        BY <2>4, <2>7, <3>1, <4>1, SiblingsConflict
      <4> QED BY <2>5, <4>2
    <3> QED BY <3>1, <3>2 DEF Below, x
  <2> QED BY <1>3, <2>1, <2>4, <2>5, <2>6, <2>7 DEF n, x
<1> QED BY <1>2, <1>3

(* vote records the poll in the tree as it would be without the flags. *)
LEMMA RecordedIsEager ==
  ASSUME VoteInv, stack # {}
  PROVE  /\ sb[Voted] # NoTrie /\ Recorded(Voted) = eager[Voted]
         /\ Recorded(Voted) = TriePoll(Reset(Voted), ChildVotes(poll, Voted))
<1> DEFINE x == Voted
<1>1. TsInv /\ EagerOK /\ StackOK /\ FlagsOK
  BY DEF VoteInv
<1>2. x \in stack /\ x \in blocks /\ x \in Nodes
  BY <1>1, VotedIs
<1>3. sb[x] # NoTrie
  <2>1. Count(poll, Children(x)) >= AlphaPreference
    BY <1>1, <1>2 DEF StackOK
  <2>2. Children(x) # {}
    BY <2>1, EnoughVotes
  <2> QED BY <1>1, <1>2, <2>2 DEF TsInv, TreesOK
<1>4. Flagged(x) <=> x \in shouldFalter
  <2>1. x \in Ancestry[x]
    BY <1>2, AncestryIs
  <2>2. Ancestry[x] \cap shouldFalter \subseteq {x}
    BY <1>1 DEF FlagsOK, Voted
  <2> QED BY <2>1, <2>2 DEF Flagged
<1>5. eager[x] = TriePoll(Reset(x), ChildVotes(poll, x))
  BY <1>1, <1>2, <1>3 DEF FlagsOK
<1> HIDE DEF x
<1>6. Recorded(x) = TriePoll(Reset(x), ChildVotes(poll, x))
  BY <1>4 DEF Recorded, Reset
<1> QED BY <1>3, <1>5, <1>6 DEF x

(* When vote accepts a block, what is left on the stack extends it. *)
LEMMA AcceptsNext ==
  ASSUME VoteInv, stack # {}, CanAccept(Voted, Recorded(Voted)), Below # {}
  PROVE  NextVoted = TriePreference(Recorded(Voted))
<1> DEFINE x == Voted
           t == Reset(x)
           v == ChildVotes(poll, x)
<1>1. TsInv /\ EagerOK /\ StackOK /\ FlagsOK /\ PendingOK
  BY DEF VoteInv
<1>2. x \in blocks /\ x \in Nodes /\ NextVoted \in Children(x) /\ poll[NextVoted] >= AlphaPreference
  BY <1>1, VotedIs, NextIs
<1>3. sb[x] # NoTrie /\ Recorded(x) = TriePoll(t, v)
  BY RecordedIsEager
<1>4. x = lastAccepted /\ TrieFinalized(Recorded(x))
  BY DEF CanAccept
<1>5. VotesOK(v) /\ DOMAIN v = Children(x) /\ v[NextVoted] = poll[NextVoted]
  BY <1>1, <1>2, ChildVotesOK DEF StackOK
<1>6. Chooses(Children(x), sb[x]) /\ TrieLeads(sb[x]) /\ Children(x) \in SUBSET IDs
  BY <1>1, <1>2, <1>3, TreeChooses, ChildrenAre DEF TsInv, TreesOK, EagerOK
<1>7. ~TrieFinalized(sb[x])
  <2>1. ~Abandoned(x)
    BY <1>4 DEF Abandoned
  <2> QED BY <1>1, <1>2, <1>3, <2>1 DEF PendingOK
<1>8. Chooses(Children(x), t) /\ TrieLeads(t) /\ ~TrieFinalized(t)
  <2>1. CASE Flagged(x)
    <3>1. t = TrieUnsuccessful(sb[x])
      BY <2>1 DEF Reset
    <3>2. Chooses(Children(x), TrieUnsuccessful(sb[x])) /\ TrieLeads(TrieUnsuccessful(sb[x]))
      BY Zenon, <1>6, ChoosesReset
    <3>3. ~TrieFinalized(TrieUnsuccessful(sb[x]))
      BY Zenon, <1>6, <1>7, UnsuccessfulPreference DEF Chooses
    <3> QED BY Zenon, <3>1, <3>2, <3>3
  <2>2. CASE ~Flagged(x)
    BY <1>6, <1>7, <2>2 DEF Reset
  <2> QED BY <2>1, <2>2
<1> HIDE DEF t, v, x
<1>9. NextVoted = TriePreference(TriePoll(t, v))
  BY <1>2, <1>3, <1>4, <1>5, <1>8, DecidesForVoted
<1> QED BY <1>3, <1>9 DEF x

(* What a turn does: it either accepts the preferred child of the last     *)
(* accepted block, or leaves the blocks as they are.                       *)
LEMMA VoteStep ==
  ASSUME VoteInv, TsVote
  PROVE  LET w == TriePreference(Recorded(Voted))
         IN  /\ stack # {} /\ phase' = "vote" /\ poll' = poll /\ stack' = Below
             /\ sb' = [z \in Nodes |-> IF z \notin blocks' THEN NoTrie
                                       ELSE IF z = Voted THEN Recorded(Voted) ELSE sb[z]]
             /\ eager' = [z \in Nodes |-> IF z \in blocks' THEN eager[z] ELSE NoTrie]
             /\ shouldFalter' = ((shouldFalter \ {Voted}) \cup Faltering(Voted, NextVoted))
                                  \cap blocks'
             /\ blocks' \subseteq blocks
             /\ \/ /\ Voted = lastAccepted /\ lastAccepted' = w /\ w \in Children(Voted)
                   /\ CanAccept(Voted, Recorded(Voted))
                   /\ blocks' = blocks \ ({Voted} \cup Losers(Voted, w))
                \/ /\ ~CanAccept(Voted, Recorded(Voted))
                   /\ lastAccepted' = lastAccepted /\ blocks' = blocks
<1> DEFINE x == Voted
           w == TriePreference(Recorded(x))
<1>1. TsInv /\ StackOK /\ stack # {} /\ phase' = "vote" /\ poll' = poll
  BY DEF VoteInv, TsVote
<1>2. x \in blocks
  BY <1>1, VotedIs
<1>3. Recording(x, NextVoted) /\ stack' = Below
  BY <1>2 DEF TsVote, Voted, Below, NextVoted
<1>4. w \in Children(x)
  BY <1>1, <1>2, RecordedIsEager, RecordedOK
<1> HIDE DEF x
<1>5. /\ sb' = [z \in Nodes |-> IF z \notin blocks' THEN NoTrie
                                ELSE IF z = x THEN Recorded(x) ELSE sb[z]]
      /\ eager' = [z \in Nodes |-> IF z \in blocks' THEN eager[z] ELSE NoTrie]
      /\ shouldFalter' = ((shouldFalter \ {x}) \cup Faltering(x, NextVoted)) \cap blocks'
  BY <1>3 DEF Recording
<1>6. CASE CanAccept(x, Recorded(x))
  <2>1. AcceptPreferredChild(x, w) /\ x = lastAccepted
    BY Zenon, <1>3, <1>6 DEF Recording, CanAccept
  <2>2. lastAccepted' = w /\ blocks' = blocks \ ({x} \cup Losers(x, w))
    BY <2>1 DEF AcceptPreferredChild
  <2> QED BY <1>1, <1>3, <1>4, <1>5, <1>6, <2>1, <2>2 DEF x
<1>7. CASE ~CanAccept(x, Recorded(x))
  <2>1. lastAccepted' = lastAccepted /\ blocks' = blocks
    BY Zenon, <1>3, <1>7 DEF Recording
  <2> QED BY Zenon, <1>1, <1>3, <1>5, <1>7, <2>1 DEF x
<1> QED BY Zenon, <1>6, <1>7

(* What is left of the blocks: with a block, all above it that were there. *)
LEMMA VoteLeaves ==
  ASSUME VoteInv, TsVote
  PROVE  /\ \A z \in blocks' : Children(z)' = Children(z)
         /\ \A z \in blocks' : \A a \in blocks : a \in Ancestry[z] /\ a # Voted => a \in blocks'
         /\ \A z \in blocks' : z # lastAccepted' =>
              z # lastAccepted /\ z \in blocks /\ ParentOf[z] \in blocks'
         /\ Below \subseteq blocks'
<1> DEFINE x == Voted
           w == TriePreference(Recorded(x))
<1>1. TsInv /\ StackOK /\ stack # {}
  BY VoteStep DEF VoteInv
<1>2. x \in blocks /\ x \in Nodes /\ Below \subseteq blocks
  BY <1>1, VotedIs DEF StackOK, Below
<1>3. CASE ~CanAccept(x, Recorded(x))
  <2>1. lastAccepted' = lastAccepted /\ blocks' = blocks
    BY <1>3, VoteStep
  <2> QED BY <1>1, <1>2, <2>1, ProcessingIs DEF Children
<1>4. CASE CanAccept(x, Recorded(x))
  <2>1. /\ x = lastAccepted /\ lastAccepted' = w /\ w \in Children(x)
        /\ blocks' = blocks \ ({x} \cup Losers(x, w))
    BY Zenon, <1>4, VoteStep
  <2>2. Below # {} => NextVoted = w
    BY <1>1, <1>4, AcceptsNext
  <2> HIDE DEF w
  <2>3. /\ w \in blocks'
        /\ \A z \in blocks' : /\ w \in Ancestry[z] /\ Ancestry[z] \ Ancestry[w] \subseteq blocks'
                              /\ {y \in blocks' \ {Genesis} : ParentOf[y] = z} = Children(z)
        /\ \A z \in Losers(x, w) : w \notin Ancestry[z]
    BY <1>1, <2>1, AcceptedIs
  <2>4. Ancestry[w] = {w} \cup Ancestry[x] /\ w \notin Ancestry[x]
    BY <1>1, <2>1, ChildrenAre
  <2>5. ASSUME NEW z \in blocks', NEW a \in blocks, a \in Ancestry[z], a # x PROVE a \in blocks'
    <3>1. a \notin Ancestry[x]
      BY <1>1, <2>1, <2>5, ProcessingIs
    <3> QED BY <2>3, <2>4, <2>5, <3>1
  <2>6. ASSUME NEW z \in blocks', z # w
        PROVE  z # lastAccepted /\ z \in blocks /\ ParentOf[z] \in blocks'
    <3>1. z # lastAccepted /\ z \in blocks /\ w \in Ancestry[z] /\ z \in Nodes
      BY <1>1, <2>1, <2>3 DEF TsInv, RootOK
    <3>2. z \in IDs /\ ParentOf[z] \in blocks /\ z # Genesis
      BY <1>1, <3>1, ProcessingIs, BlocksAssumption
    <3>3. Ancestry[z] = {z} \cup Ancestry[ParentOf[z]] /\ ParentOf[z] \in Ancestry[z]
      BY <3>1, <3>2, AncestryIs, AncestryOfChild
    <3>4. ParentOf[z] # x
      BY <2>4, <2>6, <3>1, <3>3
    <3> QED BY <2>5, <3>1, <3>2, <3>3, <3>4
  <2>7. ASSUME NEW y \in Below PROVE y \in blocks'
    <3>1. w \in Ancestry[y]
      BY <1>1, <2>2, NextIs
    <3>2. y # x
      BY DEF Below
    <3> QED BY <1>2, <2>1, <2>3, <3>1, <3>2
  <2>8. \A z \in blocks' : Children(z)' = Children(z)
    BY <2>3 DEF Children
  <2> QED BY <2>1, <2>5, <2>6, <2>7, <2>8
<1> QED BY <1>3, <1>4

(* A turn of vote keeps EagerOK. *)
LEMMA VoteEager ==
  ASSUME VoteInv, TsVote
  PROVE  EagerOK'
<1> DEFINE x == Voted
<1>1. TsInv /\ EagerOK /\ StackOK /\ stack # {}
  BY VoteStep DEF VoteInv
<1>2. /\ sb' = [z \in Nodes |-> IF z \notin blocks' THEN NoTrie
                                ELSE IF z = x THEN Recorded(x) ELSE sb[z]]
      /\ eager' = [z \in Nodes |-> IF z \in blocks' THEN eager[z] ELSE NoTrie]
      /\ blocks' \subseteq blocks
  BY VoteStep
<1>3. sb[x] # NoTrie /\ Recorded(x) = eager[x] /\ x \in Nodes
  BY <1>1, RecordedIsEager, VotedIs
<1> HIDE DEF x
<1>4. \A z \in Nodes : eager[z] = NoTrie <=> sb[z] = NoTrie
  BY <1>1 DEF EagerOK
<1>5. ASSUME NEW z \in Nodes
      PROVE  /\ eager'[z] = NoTrie <=> sb'[z] = NoTrie
             /\ sb'[z] # NoTrie => /\ TrieLeads(sb'[z]) /\ TrieLeads(eager'[z])
                                   /\ TreeOf(z, eager[z])'
  <2>1. CASE z \notin blocks'
    BY <1>2, <2>1
  <2>2. CASE z \in blocks'
    <3>1. eager'[z] = eager[z] /\ sb'[z] = IF z = x THEN eager[x] ELSE sb[z]
      BY <1>2, <1>3, <2>2
    <3>2. Children(z)' = Children(z)
      BY <2>2, VoteLeaves
    <3>3. TreeOf(z, eager[z]) => TreeOf(z, eager[z])'
      BY <3>1, <3>2 DEF TreeOf
    <3>4. sb[z] # NoTrie => TrieLeads(sb[z]) /\ TrieLeads(eager[z]) /\ TreeOf(z, eager[z])
      BY <1>1 DEF EagerOK
    <3>5. eager'[z] = NoTrie <=> sb'[z] = NoTrie
      BY <1>3, <1>4, <3>1
    <3> QED BY <1>3, <1>4, <3>1, <3>3, <3>4, <3>5
  <2> QED BY <2>1, <2>2
<1>6. ASSUME NEW z \in blocks' \ {lastAccepted'}, sb'[z] # NoTrie, Undecided(eager'[ParentOf[z]], z)
      PROVE  ChildFollows(eager'[ParentOf[z]], z, eager'[z])
  <2>1. z # lastAccepted /\ z \in blocks /\ ParentOf[z] \in blocks' /\ z \in blocks'
    BY VoteLeaves
  <2>2. z \in Nodes /\ ParentOf[z] \in Nodes
    BY <1>1, <1>2, <2>1 DEF TsInv, RootOK
  <2>3. eager'[z] = eager[z] /\ eager'[ParentOf[z]] = eager[ParentOf[z]]
    BY <1>2, <2>1, <2>2
  <2>4. sb[z] # NoTrie
    BY <1>2, <1>3, <1>6, <2>1, <2>2
  <2> QED BY <1>1, <1>6, <2>1, <2>3, <2>4 DEF EagerOK
<1>7. eager' = [z \in Nodes |-> eager'[z]]
  BY <1>2
<1> QED BY <1>5, <1>6, <1>7 DEF EagerOK

(* A turn of vote leaves the rest of the vote stack in blocks. *)
LEMMA VoteKeepsStack ==
  ASSUME VoteInv, TsVote
  PROVE  StackOK'
<1>1. TsInv /\ StackOK /\ stack # {}
  BY VoteStep DEF VoteInv
<1>2. phase' = "vote" /\ poll' = poll /\ stack' = Below /\ blocks' \subseteq blocks
  BY Zenon, VoteStep
<1>3. /\ \A z \in blocks' : Children(z)' = Children(z)
      /\ \A z \in blocks' : z # lastAccepted' => z # lastAccepted
      /\ Below \subseteq blocks'
  BY VoteLeaves
<1>4. PollOK(poll)'
  BY <1>1, <1>2, <1>3 DEF StackOK, PollOK
<1>5. Below \subseteq stack
  BY DEF Below
<1>6. \A y \in Below : y = Top(Below) \/ ParentOf[y] \in Below
  BY <1>1, NextIs
<1> QED BY <1>1, <1>2, <1>3, <1>4, <1>5, <1>6 DEF StackOK

(* The flags after a turn: a block not above the turn's block, or on the   *)
(* rest of the stack, stands as before; what leaves the stack's path is    *)
(* flagged.                                                                *)
LEMMA VoteFlagged ==
  ASSUME VoteInv, TsVote
  PROVE  /\ Ancestry[Voted] \cap shouldFalter' = {}
         /\ \A z \in blocks' : Voted \notin Ancestry[z] \/ z \in Below =>
              (Flagged(z)' <=> Flagged(z))
         /\ \A z \in blocks' : Voted \in Ancestry[z] /\ z # Voted /\ Ancestry[z] \cap Below = {} =>
              Flagged(z)'
<1> DEFINE x == Voted
           n == NextVoted
<1>1. TsInv /\ StackOK /\ FlagsOK /\ stack # {}
  BY VoteStep DEF VoteInv
<1>2. x \in stack /\ x \in blocks /\ x \in Nodes /\ x \in Ancestry[x]
  BY <1>1, VotedIs, AncestryIs
<1>3. /\ shouldFalter' = ((shouldFalter \ {x}) \cup Faltering(x, n)) \cap blocks'
      /\ blocks' \subseteq blocks /\ blocks' \subseteq Nodes
  BY <1>1, VoteStep DEF TsInv, RootOK
<1>4. Ancestry[x] \cap shouldFalter \subseteq {x} /\ shouldFalter \subseteq blocks
  BY <1>1 DEF FlagsOK, Voted
<1>5. Faltering(x, n) \subseteq Children(x)
  BY DEF Faltering
<1>6. \A c \in Children(x) : c \notin Ancestry[x] /\ x \in Ancestry[c] /\ c \in blocks
  BY <1>1, ChildrenAre
<1>7. \A z \in blocks' : \A a \in blocks : a \in Ancestry[z] /\ a # x => a \in blocks'
  BY VoteLeaves
<1>8. \A y \in Below : n \in Ancestry[y] /\ x \in Ancestry[y] /\ n \in Below /\ n \in Children(x)
  BY <1>1, NextIs, VotedIs DEF Below
<1>9. n \in Below \/ n \notin Nodes
  BY <1>1, NextIs
<1>10. Below \subseteq blocks'
  BY VoteLeaves
<1> HIDE DEF x, n
<1>11. Ancestry[x] \cap shouldFalter' = {}
  BY <1>3, <1>4, <1>5, <1>6
<1>12. ASSUME NEW z \in blocks', x \notin Ancestry[z] \/ z \in Below, Flagged(z) PROVE Flagged(z)'
  <2>1. PICK a \in Ancestry[z] : a \in shouldFalter
    BY <1>12 DEF Flagged
  <2>2. CASE a # x
    <3>1. a \in blocks'
      BY <1>4, <1>7, <2>1, <2>2
    <3> QED BY <1>3, <2>1, <2>2, <3>1 DEF Flagged
  <2>3. CASE a = x
    <3>1. z \in Below
      BY <1>12, <2>3
    <3>2. n \in Ancestry[z] /\ n \in blocks' /\ n \in Children(x)
      BY <1>8, <1>10, <3>1
    <3>3. n \in Faltering(x, n)
      BY <2>1, <2>3, <3>2 DEF Faltering
    <3> QED BY <1>3, <3>2, <3>3 DEF Flagged
  <2> QED BY <2>2, <2>3
<1>13. ASSUME NEW z \in blocks', x \notin Ancestry[z] \/ z \in Below, Flagged(z)' PROVE Flagged(z)
  <2>1. PICK a \in Ancestry[z] : a \in shouldFalter'
    BY <1>13 DEF Flagged
  <2>2. z \in Nodes
    BY <1>3
  <2>3. CASE a \in shouldFalter
    BY <2>1, <2>3 DEF Flagged
  <2>4. CASE a \in Faltering(x, n)
    <3>1. a \in Children(x) /\ (x \in shouldFalter \/ a # n)
      BY <2>4 DEF Faltering
    <3>2. x \in Ancestry[z]
      BY <1>6, <2>1, <2>2, <3>1, AncestryTransitive
    <3>3. z \in Below
      BY <1>13, <3>2
    <3>4. a = n
      BY <1>1, <1>8, <2>1, <2>2, <3>1, <3>3, SiblingsConflict
    <3> QED BY <3>1, <3>2, <3>4 DEF Flagged
  <2> QED BY <1>3, <2>1, <2>3, <2>4
<1>14. ASSUME NEW z \in blocks', x \in Ancestry[z], z # x, Ancestry[z] \cap Below = {}
       PROVE  Flagged(z)'
  <2>1. z \in Nodes /\ z \in blocks
    BY <1>3
  <2>2. PICK c \in Ancestry[z] : c \in IDs /\ ParentOf[c] = x
    BY <1>14, <2>1, AncestryChild
  <2>3. c \notin Ancestry[x] /\ c # x /\ c # Genesis
    BY <2>2, AncestryOfChild, BlocksAssumption
  <2>4. c \notin Ancestry[lastAccepted]
    <3>1. lastAccepted \in Ancestry[x]
      BY <1>1, <1>2 DEF TsInv, RootOK, RootedAtLastAccepted
    <3> QED BY <1>2, <2>3, <3>1, AncestryTransitive
  <2>5. c \in blocks /\ c \in Children(x)
    BY <1>1, <2>1, <2>2, <2>3, <2>4 DEF TsInv, RootOK, RootedAtLastAccepted, Children
  <2>6. c \in blocks' /\ c \in Nodes
    BY <1>3, <1>7, <2>2, <2>3, <2>5
  <2>7. c # n
    BY <1>9, <1>14, <2>2, <2>6
  <2>8. c \in Faltering(x, n)
    BY <2>5, <2>7 DEF Faltering
  <2> QED BY <1>3, <2>2, <2>6, <2>8 DEF Flagged
<1> QED BY <1>11, <1>12, <1>13, <1>14 DEF x

(* A turn of vote keeps what the flags stand for. *)
LEMMA VoteKeepsFlags ==
  ASSUME VoteInv, TsVote
  PROVE  FlagsOK'
<1> DEFINE x == Voted
<1>1. TsInv /\ EagerOK /\ StackOK /\ FlagsOK /\ stack # {}
  BY VoteStep DEF VoteInv
<1>2. /\ stack' = Below /\ poll' = poll /\ blocks' \subseteq blocks /\ shouldFalter' \subseteq blocks'
      /\ sb' = [z \in Nodes |-> IF z \notin blocks' THEN NoTrie
                                ELSE IF z = x THEN Recorded(x) ELSE sb[z]]
      /\ eager' = [z \in Nodes |-> IF z \in blocks' THEN eager[z] ELSE NoTrie]
  BY VoteStep
<1>3. /\ x \in stack /\ x \in Nodes /\ x \notin Below /\ Below \subseteq stack
      /\ \A y \in stack : y = x \/ y \in Below
      /\ \A y \in Below : y \notin Ancestry[x] /\ x \in Ancestry[y]
  BY <1>1, VotedIs DEF Below
<1>4. /\ Ancestry[x] \cap shouldFalter' = {}
      /\ \A z \in blocks' : x \notin Ancestry[z] \/ z \in Below => (Flagged(z)' <=> Flagged(z))
      /\ \A z \in blocks' : x \in Ancestry[z] /\ z # x /\ Ancestry[z] \cap Below = {} => Flagged(z)'
  BY VoteFlagged
<1>5. Below # {} => Ancestry[Top(Below)] \cap shouldFalter' \subseteq {Top(Below)}
  <2> SUFFICES ASSUME Below # {} PROVE Ancestry[Top(Below)] \cap shouldFalter' \subseteq {Top(Below)}
    OBVIOUS
  <2>1. Top(Below) \in Children(x)
    BY <1>1, NextIs
  <2>2. Ancestry[Top(Below)] = {Top(Below)} \cup Ancestry[x]
    BY <1>1, <2>1, ChildrenAre
  <2> QED BY <1>4, <2>2
<1>6. sb[x] # NoTrie /\ Recorded(x) = eager[x]
  BY <1>1, RecordedIsEager
<1>7. \A z \in blocks' : ChildVotes(poll, z)' = ChildVotes(poll, z)
  BY <1>2, VoteLeaves DEF ChildVotes
<1> HIDE DEF x
<1>8. ASSUME NEW z \in blocks', sb'[z] # NoTrie
      PROVE  eager'[z] = IF z \in Below THEN TriePoll(Reset(z)', ChildVotes(poll, z)')
                         ELSE IF Ancestry[z] \cap Below # {} THEN TrieUnsuccessful(sb'[z])
                         ELSE Reset(z)'
  <2>1. z \in Nodes /\ z \in blocks /\ eager'[z] = eager[z]
    BY <1>1, <1>2 DEF TsInv, RootOK
  <2>2. CASE z = x
    <3>1. sb'[z] = eager[z]
      BY <1>2, <1>6, <2>1, <2>2
    <3>2. ~Flagged(z)'
      BY <1>4, <2>2 DEF Flagged
    <3>3. Ancestry[z] \cap Below = {}
      BY <1>3, <2>2
    <3> QED BY <1>3, <2>1, <2>2, <3>1, <3>2, <3>3 DEF Reset
  <2>3. CASE z # x
    <3>1. sb'[z] = sb[z] /\ sb[z] # NoTrie
      BY <1>2, <1>8, <2>1, <2>3
    <3>2. eager[z] = IF z \in stack THEN TriePoll(Reset(z), ChildVotes(poll, z))
                     ELSE IF Ancestry[z] \cap stack # {} THEN TrieUnsuccessful(sb[z])
                     ELSE Reset(z)
      BY <1>1, <2>1, <3>1 DEF FlagsOK
    <3>3. CASE z \in Below
      <4>1. Flagged(z)' <=> Flagged(z)
        BY <1>4, <3>3
      <4>2. Reset(z)' = Reset(z)
        BY <3>1, <4>1 DEF Reset
      <4> QED BY <1>3, <1>7, <2>1, <3>2, <3>3, <4>2
    <3>4. CASE z \notin Below /\ Ancestry[z] \cap Below # {}
      <4>1. z \notin stack /\ Ancestry[z] \cap stack # {}
        BY <1>3, <2>3, <3>4
      <4> QED BY <2>1, <3>1, <3>2, <3>4, <4>1
    <3>5. CASE z \notin Below /\ Ancestry[z] \cap Below = {} /\ x \in Ancestry[z]
      <4>1. z \notin stack /\ Ancestry[z] \cap stack # {}
        BY <1>3, <2>3, <3>5
      <4>2. Flagged(z)'
        BY <1>4, <2>3, <3>5
      <4> QED BY Zenon, <2>1, <3>1, <3>2, <3>5, <4>1, <4>2 DEF Reset
    <3>6. CASE z \notin Below /\ Ancestry[z] \cap Below = {} /\ x \notin Ancestry[z]
      <4>1. z \notin stack /\ Ancestry[z] \cap stack = {}
        BY <1>3, <2>3, <3>6
      <4>2. Flagged(z)' <=> Flagged(z)
        BY <1>4, <3>6
      <4> QED BY Zenon, <2>1, <3>1, <3>2, <3>6, <4>1, <4>2 DEF Reset
    <3> QED BY Zenon, <3>3, <3>4, <3>5, <3>6
  <2> QED BY <2>2, <2>3
<1> QED BY <1>2, <1>5, <1>8 DEF FlagsOK

(* The tree of a block above the turn's block has no reset to come. *)
LEMMA AboveIsEager ==
  ASSUME VoteInv, stack # {}, Voted # lastAccepted
  PROVE  eager[ParentOf[Voted]] = sb[ParentOf[Voted]]
<1> DEFINE x == Voted
           q == ParentOf[x]
<1>1. TsInv /\ EagerOK /\ StackOK /\ FlagsOK
  BY DEF VoteInv
<1>2. x \in blocks /\ x \in Nodes /\ \A y \in stack : x \in Ancestry[y]
  BY <1>1, VotedIs
<1>3. x \in IDs /\ q \in blocks /\ sb[q] # NoTrie /\ q \in Nodes
  BY <1>1, <1>2, AboveHasTree
<1>4. x \notin Ancestry[q] /\ Ancestry[x] = {x} \cup Ancestry[q]
  <2>1. x # Genesis
    BY <1>3, BlocksAssumption
  <2> QED BY <1>2, <1>3, <2>1, AncestryOfChild, AncestryIs
<1>5. Ancestry[x] \cap shouldFalter \subseteq {x}
  BY <1>1 DEF FlagsOK, Voted
<1> HIDE DEF x, q
<1>6. ASSUME NEW a \in Ancestry[q] PROVE a \notin stack
  BY <1>2, <1>3, <1>4, AncestryTransitive
<1>7. q \notin stack /\ Ancestry[q] \cap stack = {}
  BY <1>3, <1>6, AncestryIs
<1>8. ~Flagged(q)
  BY <1>4, <1>5 DEF Flagged
<1> QED BY <1>1, <1>3, <1>7, <1>8 DEF FlagsOK, Reset, q, x

(* The tree of a block that is not the last accepted one is decided only   *)
(* when the trees above it are: against it, or for it and to be acted upon *)
(* before.                                                                 *)
LEMMA DecidedIsAbandoned ==
  ASSUME VoteInv, stack # {}, Voted # lastAccepted, TrieFinalized(Recorded(Voted))
  PROVE  Abandoned(Voted)
<1> DEFINE x == Voted
           q == ParentOf[x]
           t == eager[q]
           u == eager[x]
           w == TriePreference(u)
<1>1. TsInv /\ EagerOK /\ StackOK /\ PendingOK
  BY DEF VoteInv
<1>2. x \in blocks /\ x \in Nodes /\ x \in Ancestry[x] /\ x \notin Ancestry[lastAccepted]
  BY <1>1, VotedIs, ProcessingIs, AncestryIs
<1>3. x \in IDs /\ q \in blocks /\ q \in Nodes /\ sb[q] # NoTrie /\ TrieOK(t)
  BY <1>1, <1>2, AboveHasTree
<1>4. sb[x] # NoTrie /\ Recorded(x) = u /\ sb[q] = t
  BY <1>1, RecordedIsEager, AboveIsEager
<1>5. Ancestry[q] \subseteq Ancestry[x]
  <2>1. x # Genesis
    BY <1>3, BlocksAssumption
  <2> QED BY <1>2, <2>1, AncestryIs
<1> HIDE DEF x, q
<1>6. CASE ~Undecided(t, x)
  BY <1>2, <1>4, <1>6 DEF Abandoned, q, x
<1>7. CASE Undecided(t, x)
  <2>1. ChildFollows(t, x, u)
    BY <1>1, <1>2, <1>4, <1>7 DEF EagerOK, q, x
  <2>2. 0 \in Bits
    BY ParametersVerify DEF Bits
  <2>3. TrieOK(u)
    BY <1>1, <1>2, <1>4 DEF EagerOK, TreeOf
  <2>4. Prefix(w, 0) \in DOMAIN u.inst /\ u.inst[Prefix(w, 0)].finalized
    <3>1. TrieFinalized(u)
      BY <1>4 DEF x
    <3> QED BY Zenon, <2>2, <2>3, <3>1, PreferenceIs DEF TrieFinalized, TrieOK
  <2> HIDE DEF t, u, w
  <2>5. \A i \in Bits : t.inst[Prefix(x, i)].finalized /\ t.inst[Prefix(x, i)].pref = IDBits[x][i]
    BY <2>1, <2>4 DEF ChildFollows, Leads
  <2>6. x = TriePreference(t)
    BY <1>3, <2>5, PreferenceUnique
  <2>7. TrieFinalized(sb[q])
    BY <1>4, <2>5, <2>6 DEF TrieFinalized
  <2>8. Abandoned(q)
    BY <1>1, <1>3, <2>7 DEF PendingOK
  <2> QED BY <1>5, <2>8 DEF Abandoned, x
<1> QED BY <1>6, <1>7

(* A turn of vote leaves no decision pending. *)
LEMMA VoteKeepsPending ==
  ASSUME VoteInv, TsVote
  PROVE  PendingOK'
<1> DEFINE x == Voted
           tree == Recorded(x)
           w == TriePreference(tree)
<1>1. TsInv /\ EagerOK /\ StackOK /\ PendingOK /\ stack # {}
  BY VoteStep DEF VoteInv
<1>2. x \in blocks /\ x \in Nodes /\ sb[x] # NoTrie /\ TrieOK(tree) /\ Later(sb[x], tree) /\ TrieOK(sb[x])
  BY <1>1, VotedIs, RecordedIsEager, RecordedOK DEF TreeOf, TsInv, TreesOK
<1>3. /\ sb' = [z \in Nodes |-> IF z \notin blocks' THEN NoTrie
                                ELSE IF z = x THEN tree ELSE sb[z]]
      /\ blocks' \subseteq blocks /\ blocks' \subseteq Nodes
  BY <1>1, VoteStep DEF TsInv, RootOK
<1>4. SUFFICES ASSUME NEW z \in blocks', sb'[z] # NoTrie, TrieFinalized(sb'[z])
               PROVE  Abandoned(z)'
  BY DEF PendingOK
<1>5. z # x => Abandoned(z)
  <2>1. z # x => sb'[z] = sb[z]
    BY <1>3
  <2> QED BY <1>1, <1>3, <1>4, <2>1 DEF PendingOK
<1>6. CASE ~CanAccept(x, tree)
  <2>1. lastAccepted' = lastAccepted /\ blocks' = blocks
    BY <1>6, VoteStep
  <2>2. Abandoned(z)
    <3>1. CASE z = x
      <4>1. TrieFinalized(tree)
        BY <1>2, <1>3, <1>4, <3>1
      <4>2. x # lastAccepted
        BY <1>6, <4>1 DEF CanAccept
      <4> QED BY <1>1, <3>1, <4>1, <4>2, DecidedIsAbandoned
    <3> QED BY <1>5, <3>1
  <2> HIDE DEF tree, x
  <2>3. ASSUME NEW y \in blocks \ {lastAccepted}
        PROVE  Later(sb[ParentOf[y]], sb'[ParentOf[y]]) /\ TrieOK(sb'[ParentOf[y]])
    <3>1. ParentOf[y] \in blocks /\ ParentOf[y] \in Nodes /\ TrieOK(sb[ParentOf[y]])
      BY <1>1, AboveHasTree
    <3> QED BY <1>2, <1>3, <2>1, <3>1, LaterSame
  <2> QED BY <1>1, <1>3, <2>1, <2>2, <2>3, AbandonedKept
<1>7. CASE CanAccept(x, tree)
  <2>1. /\ x = lastAccepted /\ lastAccepted' = w /\ w \in Children(x)
        /\ blocks' = blocks \ ({x} \cup Losers(x, w))
    BY <1>7, VoteStep
  <2>2. z # x /\ Abandoned(z)
    BY <1>5, <2>1
  <2>3. PICK y \in Ancestry[z] \ Ancestry[x] : ~Undecided(sb[ParentOf[y]], y)
    BY <2>1, <2>2 DEF Abandoned
  <2>4. Undecided(tree, w)
    BY DEF Undecided
  <2> HIDE DEF tree, x, w
  <2>5. w \in IDs /\ ParentOf[w] = x /\ Ancestry[w] = {w} \cup Ancestry[x]
    BY <1>1, <2>1, ChildrenAre
  <2>6. y # w
    BY <1>2, <2>3, <2>4, <2>5, UndecidedShrinks
  <2>7. y \notin Ancestry[w]
    BY <2>3, <2>5, <2>6
  <2>8. y \in blocks'
    <3>1. y \in blocks /\ y # x
      <4>1. z \in blocks /\ x \in Ancestry[x]
        BY <1>2, <1>3, AncestryIs
      <4> QED BY <1>1, <2>1, <2>3, <4>1 DEF TsInv, RootOK, RootedAtLastAccepted
    <3> QED BY <2>3, <3>1, VoteLeaves DEF x
  <2>9. ParentOf[y] \in blocks'
    BY <2>1, <2>6, <2>8, VoteLeaves
  <2>10. sb'[ParentOf[y]] = sb[ParentOf[y]]
    BY <1>3, <2>1, <2>9
  <2> QED BY <2>1, <2>3, <2>7, <2>10 DEF Abandoned
<1> QED BY <1>6, <1>7

(* Steps that leave the trees and flags alone keep VoteInv. *)
LEMMA VoteInvKept ==
  ASSUME VoteInv, TsInv',
         UNCHANGED <<blocks, lastAccepted, sb, shouldFalter, stack, eager>>,
         stack = {} \/ (phase' # "idle" /\ poll' = poll)
  PROVE  VoteInv'
<1>1. \A x : Children(x)' = Children(x)
  BY DEF Children
<1>2. EagerOK'
  <2>1. \A x : TreeOf(x, eager[x])' <=> TreeOf(x, eager[x])
    BY <1>1 DEF TreeOf
  <2> QED BY <2>1 DEF VoteInv, EagerOK
<1>3. StackOK'
  BY <1>1 DEF VoteInv, StackOK, PollOK
<1>4. FlagsOK'
  <2>1. \A x : Reset(x)' = Reset(x)
    BY DEF Reset, Flagged
  <2>2. CASE stack = {}
    BY Zenon, <2>1, <2>2 DEF VoteInv, FlagsOK
  <2>3. CASE poll' = poll
    <3>1. \A x : ChildVotes(poll, x)' = ChildVotes(poll, x)
      BY <1>1, <2>3 DEF ChildVotes
    <3> QED BY Zenon, <2>1, <3>1 DEF VoteInv, FlagsOK
  <2> QED BY <2>2, <2>3
<1>5. PendingOK'
  BY DEF VoteInv, PendingOK, Abandoned
<1> QED BY <1>2, <1>3, <1>4, <1>5 DEF VoteInv

(* VoteInv holds after Initialize. *)
LEMMA VoteInitInv ==
  ASSUME TsInit
  PROVE  VoteInv
<1>1. TsInv
  BY TsInitInv
<1>2. \A x \in Nodes : sb[x] = NoTrie /\ eager[x] = NoTrie
  BY DEF TsInit
<1>3. EagerOK
  <2>1. blocks \subseteq Nodes
    BY <1>1 DEF TsInv, RootOK
  <2> QED BY Zenon, <1>2, <2>1 DEF TsInit, EagerOK
<1>4. StackOK
  BY Zenon DEF TsInit, StackOK
<1>5. FlagsOK /\ PendingOK
  BY Zenon, <1>1, <1>2 DEF TsInit, FlagsOK, PendingOK, TsInv, RootOK
<1> QED BY <1>1, <1>3, <1>4, <1>5 DEF VoteInv

(* Every step keeps VoteInv. *)
LEMMA VoteNextInv ==
  ASSUME VoteInv, [TsNext]_tsVars
  PROVE  VoteInv'
<1>1. TsInv'
  BY TsNextInv DEF VoteInv
<1>2. CASE \E x \in IDs : TsAdd(x)
  BY <1>2, TsAddVoteInv
<1>3. CASE \E votes \in Votes : TsRecordPoll(votes)
  BY <1>3, RecordPollVoteInv
<1>4. CASE TsVote
  BY <1>1, <1>4, VoteEager, VoteKeepsStack, VoteKeepsFlags, VoteKeepsPending DEF VoteInv
<1>5. CASE TsVoteFails
  <2>1. /\ UNCHANGED <<blocks, lastAccepted, sb, shouldFalter, stack, eager>>
        /\ phase' # "idle" /\ poll' = poll
    BY <1>5 DEF TsVoteFails
  <2> QED BY <1>1, <2>1, VoteInvKept
<1>6. CASE TsEndPoll
  <2>1. UNCHANGED <<blocks, lastAccepted, sb, shouldFalter, stack, eager>> /\ stack = {}
    BY <1>6 DEF TsEndPoll
  <2> QED BY <1>1, <2>1, VoteInvKept
<1>7. CASE UNCHANGED tsVars
  <2>1. UNCHANGED <<blocks, lastAccepted, sb, shouldFalter, stack, eager>>
          /\ phase' = phase /\ poll' = poll
    BY <1>7 DEF tsVars
  <2>2. stack = {} \/ phase' # "idle"
    BY <2>1 DEF VoteInv, StackOK
  <2> QED BY <1>1, <2>1, <2>2, VoteInvKept
<1> QED BY <1>2, <1>3, <1>4, <1>5, <1>6, <1>7 DEF TsNext

(* RecordPoll and vote: VoteInv is inductive.                              *)
THEOREM VoteInvHolds == TsSpec => []VoteInv
<1>1. TsInit => VoteInv
  BY VoteInitInv
<1>2. VoteInv /\ [TsNext]_tsVars => VoteInv'
  BY VoteNextInv
<1> QED BY <1>1, <1>2, PTL DEF TsSpec

(* Putting resets off with shouldFalter is no different from resetting     *)
(* every tree that a poll did not reach at once (vote).                    *)
THEOREM SnowmanFalterIsReset == TsSpec => []FalterIsReset
<1>1. VoteInv => FalterIsReset
  BY Zenon DEF VoteInv, StackOK, FlagsOK, Reset, Flagged, FalterIsReset
<1> QED BY <1>1, VoteInvHolds, PTL

(* vote never comes to a block that the same poll rejected, and leaves no  *)
(* decided tree behind but those of abandoned blocks.                      *)
THEOREM SnowmanNothingPending == TsSpec => []NothingPending
<1>1. VoteInv => NothingPending
  BY DEF VoteInv, StackOK, PendingOK, NothingPending
<1> QED BY <1>1, VoteInvHolds, PTL
=============================================================================
