-------------------------- MODULE PreferenceProofs --------------------------
(***************************************************************************)
(* The preferred branch of Topological, for any blocks and votes: PrefInv  *)
(* follows it through the loop of RecordPoll, on top of VoteInv.           *)
(***************************************************************************)
EXTENDS VoteProofs

(* The preferred branch: the invariant. *)

(* The branch from x that follows the preferences, in a set of blocks that *)
(* were preferred before, as far as x is one of them.                      *)
Preferred(x) == {y \in preferredIDs : Extends(y, x)}

(* The preferred IDs are a branch above which there are decided blocks     *)
(* only; while a poll is recorded it may be the one that was rejected.     *)
ChainOK ==
  /\ preferredIDs \subseteq IDs
  /\ \A x, y \in preferredIDs : x \in Ancestry[y] \/ y \in Ancestry[x]
  /\ \A x \in preferredIDs : /\ Ancestry[x] \ Ancestry[lastAccepted] \subseteq preferredIDs
                             /\ x \notin Ancestry[lastAccepted]
  /\ preferredIDs \cap blocks # {} =>
       /\ preferredHeights = ByHeight(preferredIDs)
       /\ preference \in preferredIDs /\ preference \in blocks /\ Children(preference) = {}

(* While a poll is recorded, newPreferred is on the branch preferred so    *)
(* far and vote has not been at what extends it.                           *)
PreferOK ==
  /\ newPreferred \in BranchBelow(lastAccepted) \cup {lastAccepted}
  /\ newPreferred \in preferredIDs \/ Preferred(newPreferred) # {} =>
       Preferred(newPreferred) = BranchBelow(newPreferred)
  /\ onPreferredBranch /\ stack # {} => newPreferred = Top(stack)
  /\ ~onPreferredBranch => \A y \in stack : y \notin Ancestry[newPreferred] /\ newPreferred \notin Ancestry[y]
  /\ stack # {} /\ Top(stack) = lastAccepted => onPreferredBranch

PrefInv ==
  /\ VoteInv /\ PreferredBranch
  /\ phase \in {"idle", "vote", "halted"} /\ onPreferredBranch \in BOOLEAN
  /\ phase = "vote" => ChainOK /\ PreferOK

-----------------------------------------------------------------------------
(* Branches of preferences. *)

(* BranchBelow, for any set of blocks and their trees. *)
Follow(B, trees, p) ==
  {x \in B : /\ Extends(x, p)
             /\ \A y \in Ancestry[x] : Extends(y, p) => y = TriePreference(trees[ParentOf[y]])}

(* What a block extends is lower, and is its parent or extended by it. *)
LEMMA ExtendsIs ==
  ASSUME NEW x \in Nodes, NEW y, Extends(x, y)
  PROVE  /\ y \in Nodes /\ y \notin {x} /\ HeightOf[y] < HeightOf[x] /\ x \notin Ancestry[y]
         /\ x \in IDs /\ ParentOf[x] \in Nodes /\ y \in Ancestry[ParentOf[x]]
         /\ ParentOf[x] \in Ancestry[x] /\ Ancestry[x] = {x} \cup Ancestry[ParentOf[x]]
         /\ HeightOf[x] \in Nat /\ HeightOf[y] \in Nat
<1>1. y \in Ancestry[x] /\ x # y
  BY DEF Extends
<1>2. y \in Nodes /\ HeightOf[y] < HeightOf[x] /\ HeightOf[x] \in Nat
  BY <1>1, AncestryIs
<1>3. HeightOf[y] \in Nat /\ (x \in Ancestry[y] /\ x # y => HeightOf[x] < HeightOf[y])
  BY <1>2, AncestryIs
<1>4. x # Genesis
  BY <1>1, AncestryIs
<1>5. /\ x \in IDs /\ ParentOf[x] \in Nodes /\ Ancestry[x] = {x} \cup Ancestry[ParentOf[x]]
  BY <1>4, AncestryIs
<1>6. ParentOf[x] \in Ancestry[ParentOf[x]]
  BY <1>5, AncestryIs
<1> QED BY <1>1, <1>2, <1>3, <1>5, <1>6

(* What extends a block extends what this one extends. *)
LEMMA ExtendsTransitive ==
  ASSUME NEW x \in Nodes, NEW y \in Ancestry[x], NEW z \in Ancestry[y], x # y \/ y # z
  PROVE  Extends(x, z)
<1>1. z \in Ancestry[x] /\ y \in Nodes
  BY AncestryIs, AncestryTransitive
<1>2. x # z
  <2> SUFFICES ASSUME x = z PROVE FALSE
    OBVIOUS
  <2>1. x # y
    BY <1>1
  <2>2. HeightOf[y] < HeightOf[x] /\ HeightOf[x] < HeightOf[y]
    BY <1>1, <2>1, AncestryIs
  <2>3. HeightOf[x] \in Nat /\ HeightOf[y] \in Nat
    BY <1>1, AncestryIs
  <2> QED BY <2>2, <2>3
<1> QED BY <1>1, <1>2 DEF Extends

(* Two blocks that a third one extends are on one branch. *)
LEMMA Comparable ==
  ASSUME NEW x \in Nodes, NEW y \in Ancestry[x], NEW z \in Ancestry[x]
  PROVE  y \in Ancestry[z] \/ Extends(y, z)
<1>1. y \in Nodes /\ z \in Nodes
  BY AncestryIs
<1>2. HeightOf[y] \in Nat /\ HeightOf[z] \in Nat /\ y \in Ancestry[y]
  BY <1>1, AncestryIs
<1>3. y \in Ancestry[z] \/ z \in Ancestry[y]
  BY <1>2, AncestryLinear
<1> QED BY <1>2, <1>3 DEF Extends

(* The blocks of a branch that follows preferences. *)
LEMMA FollowIs ==
  ASSUME NEW B \in SUBSET Nodes, NEW trees, NEW a \in Nodes, NEW x \in Follow(B, trees, a)
  PROVE  /\ x \in B /\ x \in Nodes /\ Extends(x, a) /\ x \in IDs
         /\ \A y \in Ancestry[x] : Extends(y, a) => y = TriePreference(trees[ParentOf[y]])
<1>1. x \in B /\ x \in Nodes /\ Extends(x, a)
  BY DEF Follow
<1> QED BY <1>1, ExtendsIs DEF Follow

(* Such a branch has all blocks on the way. *)
LEMMA FollowAbove ==
  ASSUME NEW B \in SUBSET Nodes, NEW trees, NEW a \in Nodes, NEW x \in Follow(B, trees, a),
         NEW y \in Ancestry[x], Extends(y, a), y \in B
  PROVE  y \in Follow(B, trees, a)
<1>1. x \in Nodes /\ \A z \in Ancestry[x] : Extends(z, a) => z = TriePreference(trees[ParentOf[z]])
  BY FollowIs
<1>2. Ancestry[y] \subseteq Ancestry[x]
  BY <1>1, AncestryTransitive
<1> QED BY <1>1, <1>2 DEF Follow

(* From a block on the branch on, the branch is that block's. *)
LEMMA FollowWithin ==
  ASSUME NEW B \in SUBSET Nodes, NEW trees, NEW a \in Nodes,
         NEW c \in Follow(B, trees, a) \cup {a}
  PROVE  {x \in Follow(B, trees, a) : Extends(x, c)} = Follow(B, trees, c)
<1>1. CASE c = a
  BY <1>1 DEF Follow
<1>2. CASE c \in Follow(B, trees, a)
  <2>1. /\ c \in Nodes /\ Extends(c, a) /\ a \in Ancestry[c] /\ c # a
        /\ \A y \in Ancestry[c] : Extends(y, a) => y = TriePreference(trees[ParentOf[y]])
    BY <1>2, FollowIs DEF Extends
  <2>2. ASSUME NEW x \in Nodes, Extends(x, c) PROVE Extends(x, a)
    <3>1. c \in Ancestry[x] /\ x # c
      BY <2>2 DEF Extends
    <3> QED BY <2>1, <3>1, ExtendsTransitive
  <2>3. ASSUME NEW x \in Follow(B, trees, a), Extends(x, c) PROVE x \in Follow(B, trees, c)
    <3>1. /\ x \in Nodes /\ x \in B
          /\ \A y \in Ancestry[x] : Extends(y, a) => y = TriePreference(trees[ParentOf[y]])
      BY Zenon, FollowIs
    <3>2. \A y \in Ancestry[x] : y \in Nodes
      BY <3>1, AncestryIs
    <3> QED BY <2>2, <2>3, <3>1, <3>2 DEF Follow
  <2>4. ASSUME NEW x \in Follow(B, trees, c) PROVE x \in Follow(B, trees, a) /\ Extends(x, c)
    <3>1. /\ x \in Nodes /\ x \in B /\ Extends(x, c) /\ c \in Ancestry[x]
          /\ \A y \in Ancestry[x] : Extends(y, c) => y = TriePreference(trees[ParentOf[y]])
      BY Zenon, <2>1, FollowIs DEF Extends
    <3>2. ASSUME NEW y \in Ancestry[x], Extends(y, a) PROVE y = TriePreference(trees[ParentOf[y]])
      BY <2>1, <3>1, <3>2, Comparable
    <3> QED BY <2>2, <3>1, <3>2 DEF Follow
  <2> QED BY <2>3, <2>4
<1> QED BY <1>1, <1>2

(* Such a branch does not fork. *)
LEMMA FollowLinear ==
  ASSUME NEW B \in SUBSET Nodes, NEW trees, NEW a \in Nodes,
         NEW x \in Follow(B, trees, a), NEW y \in Follow(B, trees, a)
  PROVE  x \in Ancestry[y] \/ y \in Ancestry[x]
<1> SUFFICES ASSUME x \notin Ancestry[y], y \notin Ancestry[x] PROVE FALSE
  OBVIOUS
<1>1. /\ x \in Nodes /\ Extends(x, a) /\ x \in Ancestry[x] /\ a \in Ancestry[x]
      /\ \A z \in Ancestry[x] : Extends(z, a) => z = TriePreference(trees[ParentOf[z]])
  <2>1. x \in Nodes /\ Extends(x, a)
          /\ \A z \in Ancestry[x] : Extends(z, a) => z = TriePreference(trees[ParentOf[z]])
    BY FollowIs
  <2>2. x \in Ancestry[x] /\ a \in Ancestry[x]
    BY <2>1, AncestryIs DEF Extends
  <2> QED BY <2>1, <2>2
<1>2. /\ y \in Nodes /\ Extends(y, a) /\ a \in Ancestry[y]
      /\ \A z \in Ancestry[y] : Extends(z, a) => z = TriePreference(trees[ParentOf[z]])
  BY FollowIs DEF Extends
<1> DEFINE C == {z \in Ancestry[x] : z \notin Ancestry[y]}
<1>3. C \in SUBSET Nodes /\ C # {}
  BY <1>1, AncestryIs
<1> HIDE DEF C
<1>4. PICK b \in C : \A z \in C : HeightOf[b] <= HeightOf[z]
  BY <1>3, Lowest
<1>5. b \in Ancestry[x] /\ b \notin Ancestry[y] /\ b \in Nodes
  BY <1>3 DEF C
<1>6. Extends(b, a)
  <2>1. b \notin Ancestry[a]
    BY <1>2, <1>5, AncestryTransitive
  <2> QED BY <1>1, <1>5, <2>1, Comparable
<1> DEFINE q == ParentOf[b]
<1>7. b \in IDs /\ q \in Nodes /\ q \in Ancestry[b] /\ a \in Ancestry[q] /\ HeightOf[q] < HeightOf[b]
        /\ HeightOf[b] \in Nat
  <2>1. b # Genesis
    BY <1>5, <1>6, ExtendsIs, BlocksAssumption
  <2> QED BY <1>5, <1>6, <2>1, ExtendsIs, AncestryIs
<1>8. q \in Ancestry[y]
  <2>1. q \in Ancestry[x]
    BY <1>1, <1>5, <1>7, AncestryTransitive
  <2>2. HeightOf[q] \in Nat
    BY <1>7, AncestryIs
  <2>3. q \notin C
    BY <1>4, <1>7, <2>2
  <2> QED BY <2>1, <2>3 DEF C
<1>9. q # y
  BY <1>1, <1>5, <1>7, AncestryTransitive
<1>10. PICK d \in Ancestry[y] : d \in IDs /\ ParentOf[d] = q
  BY <1>2, <1>8, <1>9, AncestryChild
<1>11. Extends(d, a)
  <2>1. d \in Nodes /\ q \in Ancestry[d] /\ d # q
    BY <1>10, AncestryOfChild DEF Nodes
  <2> QED BY <1>7, <2>1, ExtendsTransitive
<1>12. d = b
  BY <1>1, <1>2, <1>5, <1>6, <1>10, <1>11
<1> QED BY <1>5, <1>10, <1>12

(* Which child is on the branch. *)
LEMMA FollowChild ==
  ASSUME NEW B \in SUBSET Nodes, NEW trees, NEW a \in Nodes,
         NEW c \in IDs, c \in B, ParentOf[c] \in Follow(B, trees, a) \cup {a}
  PROVE  /\ c \in Follow(B, trees, a) <=> c = TriePreference(trees[ParentOf[c]])
         /\ Extends(c, a)
<1> DEFINE q == ParentOf[c]
<1>1. c \in Nodes /\ c \in Ancestry[c] /\ q \in Ancestry[c] /\ c # q /\ c # Genesis
  BY AncestryIs, AncestryOfChild, BlocksAssumption DEF Nodes
<1>2. Ancestry[c] = {c} \cup Ancestry[q] /\ q \in Nodes
  BY <1>1, AncestryIs
<1>3. a \in Ancestry[q]
  BY Zenon, FollowIs, AncestryIs DEF Extends
<1>4. Extends(c, a)
  BY <1>1, <1>3, ExtendsTransitive
<1>5. \A y \in Ancestry[q] : Extends(y, a) => y = TriePreference(trees[ParentOf[y]])
  <2>1. CASE q = a
    <3>1. \A y \in Ancestry[a] : ~Extends(y, a)
      <4> SUFFICES ASSUME NEW y \in Ancestry[a], Extends(y, a) PROVE FALSE
        OBVIOUS
      <4>1. y \in Nodes
        BY AncestryIs
      <4> QED BY <4>1, ExtendsIs
    <3> QED BY <2>1, <3>1
  <2>2. CASE q \in Follow(B, trees, a)
    BY <2>2, FollowIs
  <2> QED BY <2>1, <2>2
<1> HIDE DEF q
<1>6. c \in Follow(B, trees, a) <=> c = TriePreference(trees[q])
  BY <1>1, <1>2, <1>4, <1>5 DEF Follow, q
<1> QED BY <1>4, <1>6 DEF q

(* The branch depends on the blocks and the trees from p on only. *)
LEMMA FollowSame ==
  ASSUME NEW B \in SUBSET Nodes, NEW D \in SUBSET Nodes, NEW trees, NEW new, NEW p \in Nodes,
         \A x \in Nodes : Extends(x, p) => (x \in B <=> x \in D),
         \A x \in Nodes : Extends(x, p) /\ (\A y \in Ancestry[x] : Extends(y, p) => y \in B) =>
           TriePreference(new[ParentOf[x]]) = TriePreference(trees[ParentOf[x]]),
         \A x \in B : \A y \in Ancestry[x] : Extends(y, p) => y \in B
  PROVE  Follow(D, new, p) = Follow(B, trees, p)
<1>1. ASSUME NEW x \in Nodes, Extends(x, p), x \in B, NEW y \in Ancestry[x], Extends(y, p)
      PROVE  TriePreference(new[ParentOf[y]]) = TriePreference(trees[ParentOf[y]])
  <2>1. y \in Nodes /\ Ancestry[y] \subseteq Ancestry[x]
    BY AncestryIs, AncestryTransitive
  <2> QED BY <1>1, <2>1
<1> QED BY <1>1 DEF Follow

(* The blocks in consensus: those of a branch that are not decided extend  *)
(* the last accepted block.                                                *)
LEMMA BranchIs ==
  ASSUME TsInv, NEW x \in blocks
  PROVE  /\ x \in Nodes /\ lastAccepted \in Nodes /\ lastAccepted \in Ancestry[x]
         /\ x # lastAccepted => Extends(x, lastAccepted)
         /\ \A y \in Ancestry[x] : /\ Extends(y, lastAccepted) <=> y \notin Ancestry[lastAccepted]
                                   /\ Extends(y, lastAccepted) <=> ~Decided(y)
                                   /\ Extends(y, lastAccepted) => y \in blocks
<1> DEFINE a == lastAccepted
<1>1. x \in Nodes /\ a \in Nodes /\ a \in Ancestry[x] /\ Ancestry[x] \ Ancestry[a] \subseteq blocks
  BY DEF TsInv, RootOK, RootedAtLastAccepted
<1>2. x # a => Extends(x, a)
  BY <1>1 DEF Extends
<1>3. ASSUME NEW y \in Ancestry[x]
      PROVE  /\ Extends(y, a) <=> y \notin Ancestry[a]
             /\ Extends(y, a) <=> ~Decided(y)
             /\ Extends(y, a) => y \in blocks
  <2>1. y \in Nodes /\ (y \in Ancestry[a] \/ Extends(y, a))
    BY <1>1, AncestryIs, Comparable
  <2>2. HeightOf[a] \in Nat /\ HeightOf[y] \in Nat
    BY <1>1, <2>1, AncestryIs
  <2>3. CASE y \in Ancestry[a]
    <3>1. HeightOf[y] <= HeightOf[a]
      BY <1>1, <2>2, <2>3, AncestryIs
    <3>2. ~Extends(y, a)
      BY <2>1, <2>3, ExtendsIs
    <3> QED BY <2>3, <3>1, <3>2 DEF Decided
  <2>4. CASE Extends(y, a)
    <3>1. y \notin Ancestry[a] /\ HeightOf[a] < HeightOf[y]
      BY <2>1, <2>4, ExtendsIs
    <3>2. ~(HeightOf[y] <= HeightOf[a])
      BY <2>2, <3>1
    <3> QED BY <1>1, <2>4, <3>1, <3>2 DEF Decided
  <2> QED BY <2>1, <2>3, <2>4
<1> QED BY <1>1, <1>2, <1>3

(* BranchBelow, with blocks and trees as parameters. *)
LEMMA BranchFollows ==
  ASSUME TsInv
  PROVE  /\ \A p : BranchBelow(p) = Follow(blocks, sb, p)
         /\ blocks \in SUBSET Nodes /\ lastAccepted \in Nodes /\ lastAccepted \in blocks
BY DEF BranchBelow, Follow, TsInv, RootOK

(* The tree of a block prefers a child of it. *)
LEMMA PrefersChild ==
  ASSUME TsInv, NEW x \in blocks, Children(x) # {}
  PROVE  sb[x] # NoTrie /\ TrieOK(sb[x]) /\ TriePreference(sb[x]) \in Children(x)
<1>1. sb[x] # NoTrie /\ TreeOf(x, sb[x])
  BY DEF TsInv, TreesOK, RootOK
<1> QED BY <1>1, PreferenceIs DEF TreeOf

(* The branch ends with a leaf, and with one leaf only. *)
LEMMA BranchEnds ==
  ASSUME TsInv, NEW x \in BranchBelow(lastAccepted) \cup {lastAccepted},
         \A y \in BranchBelow(lastAccepted) : HeightOf[y] <= HeightOf[x]
  PROVE  Children(x) = {}
<1> SUFFICES ASSUME Children(x) # {} PROVE FALSE
  OBVIOUS
<1>1. /\ BranchBelow(lastAccepted) = Follow(blocks, sb, lastAccepted)
      /\ blocks \in SUBSET Nodes /\ lastAccepted \in Nodes /\ lastAccepted \in blocks
  BY BranchFollows
<1>2. x \in blocks /\ x \in Nodes
  <2>1. CASE x = lastAccepted
    BY <1>1, <2>1
  <2>2. CASE x \in Follow(blocks, sb, lastAccepted)
    BY <1>1, <2>2, FollowIs
  <2> QED BY <1>1, <2>1, <2>2
<1> DEFINE c == TriePreference(sb[x])
<1>3. c \in Children(x)
  BY <1>2, PrefersChild
<1>4. c \in IDs /\ c \in blocks /\ ParentOf[c] = x
  BY <1>3, ChildrenAre
<1> HIDE DEF c
<1>5. c \in Follow(blocks, sb, lastAccepted)
  BY <1>1, <1>4, FollowChild DEF c
<1>6. HeightOf[c] = HeightOf[x] + 1 /\ HeightOf[x] \in Nat
  BY <1>2, <1>4, BlocksAssumption
<1> QED BY <1>1, <1>5, <1>6

(* A block of the preferred branch without children is its end. *)
LEMMA BranchLeaf ==
  ASSUME TsInv, NEW x \in BranchBelow(lastAccepted) \cup {lastAccepted}, Children(x) = {},
         NEW y \in BranchBelow(lastAccepted) \cup {lastAccepted}
  PROVE  y \in Ancestry[x]
<1> SUFFICES ASSUME y \notin Ancestry[x] PROVE FALSE
  OBVIOUS
<1>1. /\ BranchBelow(lastAccepted) = Follow(blocks, sb, lastAccepted)
      /\ blocks \in SUBSET Nodes /\ lastAccepted \in Nodes /\ lastAccepted \in blocks
  BY BranchFollows
<1>2. x \in blocks /\ x \in Nodes /\ y \in blocks /\ y \in Nodes
  BY <1>1, FollowIs
<1>3. lastAccepted \in Ancestry[x] /\ lastAccepted \in Ancestry[y]
  BY <1>2, BranchIs
<1>4. x \in Ancestry[y] /\ x # y
  BY <1>1, <1>2, <1>3, FollowLinear, AncestryIs
<1>5. PICK c \in Ancestry[y] : c \in IDs /\ ParentOf[c] = x
  BY <1>2, <1>4, AncestryChild
<1>6. Extends(c, lastAccepted)
  <2>1. c \in Nodes /\ x \in Ancestry[c] /\ c # x
    BY <1>5, AncestryOfChild DEF Nodes
  <2> QED BY <1>3, <2>1, ExtendsTransitive
<1>7. c \in Children(x)
  BY <1>2, <1>5, <1>6, BranchIs, BlocksAssumption DEF Children
<1> QED BY <1>7

(* The preferred branch as it is between polls. *)
BranchOK ==
  /\ preferredIDs = BranchBelow(lastAccepted)
  /\ preferredHeights = ByHeight(preferredIDs)
  /\ preference \in preferredIDs \cup {lastAccepted}
  /\ Children(preference) = {}

(* The end of RecordPoll: the branch from the last accepted block down to  *)
(* the block preferred and from there to a leaf.                           *)
LEMMA PreferStep ==
  ASSUME TsInv, UNCHANGED <<blocks, lastAccepted, sb>>,
         NEW np \in BranchBelow(lastAccepted) \cup {lastAccepted}, Prefer(np),
         np \in preferredIDs => BranchOK
  PROVE  BranchOK'
<1> DEFINE a == lastAccepted
           F == Follow(blocks, sb, a)
           above == {x \in Ancestry[np] : ~Decided(x)}
<1>1. /\ \A p : BranchBelow(p) = Follow(blocks, sb, p)
      /\ blocks \in SUBSET Nodes /\ a \in Nodes /\ a \in blocks
  BY BranchFollows
<1>2. (\A x : Children(x)' = Children(x)) /\ BranchBelow(lastAccepted)' = F
  BY <1>1 DEF Children, BranchBelow, Follow
<1>3. CASE np \in preferredIDs
  <2>1. UNCHANGED <<preference, preferredIDs, preferredHeights>>
    BY <1>3 DEF Prefer
  <2> QED BY <1>1, <1>2, <1>3, <2>1 DEF BranchOK
<1>4. CASE np \notin preferredIDs
  <2>1. np \in F \cup {a}
    BY <1>1
  <2>2. np \in blocks /\ np \in Nodes
    <3>1. CASE np = a
      BY <1>1, <3>1
    <3>2. CASE np \in F
      BY <1>1, <3>2, FollowIs
    <3> QED BY <2>1, <3>1, <3>2
  <2>3. {x \in F : Extends(x, np)} = BranchBelow(np)
    BY <1>1, <2>1, FollowWithin
  <2>4. ASSUME NEW x \in above PROVE x \in F
    <3>1. Extends(x, a) /\ x \notin Ancestry[a] /\ x \in blocks
      BY <2>2, BranchIs
    <3>2. np \in F
      BY <2>1, <3>1
    <3> QED BY <1>1, <3>1, <3>2, FollowAbove
  <2>5. ASSUME NEW x \in F PROVE x \in above \/ Extends(x, np)
    <3>1. x \in Nodes /\ Extends(x, a) /\ x \in blocks
      BY <1>1, FollowIs
    <3>2. CASE np = a
      BY <3>1, <3>2
    <3>3. CASE np \in F
      <4>1. x \in Ancestry[np] \/ np \in Ancestry[x]
        BY <1>1, <3>3, FollowLinear
      <4>2. x \in Ancestry[np] => x \in above
        BY <2>2, <3>1, BranchIs
      <4>3. np \in Ancestry[np]
        BY <2>2, AncestryIs
      <4> QED BY <4>1, <4>2, <4>3 DEF Extends
    <3> QED BY <2>1, <3>2, <3>3
  <2>6. above \cup BranchBelow(np) = F
    BY <2>3, <2>4, <2>5
  <2>7. /\ preferredIDs' = F /\ preferredHeights' = ByHeight(F)
        /\ preference' = CHOOSE x \in F \cup {np} : \A y \in F : HeightOf[y] <= HeightOf[x]
    <3>1. LET branch == above \cup BranchBelow(np)
          IN  /\ preferredIDs' = branch /\ preferredHeights' = ByHeight(branch)
              /\ preference' = CHOOSE x \in branch \cup {np} :
                                 \A y \in branch : HeightOf[y] <= HeightOf[x]
      BY <1>4 DEF Prefer
    <3> QED BY <2>6, <3>1
  <2> DEFINE C == F \cup {np}
  <2>8. C \in SUBSET Nodes /\ C # {}
    BY <1>1, <2>2, FollowIs
  <2>9. \E x \in C : \A y \in C : HeightOf[y] <= HeightOf[x]
    <3> HIDE DEF C
    <3> QED BY <2>8, Highest
  <2>10. preference' \in F \cup {np} /\ \A y \in F : HeightOf[y] <= HeightOf[preference']
    BY <2>7, <2>9
  <2>11. preference' \in F \cup {a}
    BY <2>1, <2>10
  <2>12. Children(preference') = {}
    BY <1>1, <2>10, <2>11, BranchEnds
  <2>13. Children(preference)' = {}
    BY <2>12 DEF Children
  <2> QED BY <1>2, <2>7, <2>11, <2>13 DEF BranchOK
<1> QED BY <1>3, <1>4

(* What vote leaves: if the block preferred was so before, all that is     *)
(* preferred now was.                                                      *)
LEMMA PreferredBefore ==
  ASSUME TsInv, ChainOK, PreferOK, newPreferred \in preferredIDs
  PROVE  BranchOK
<1> DEFINE a == lastAccepted
           np == newPreferred
           F == Follow(blocks, sb, a)
<1>1. /\ \A p : BranchBelow(p) = Follow(blocks, sb, p)
      /\ blocks \in SUBSET Nodes /\ a \in Nodes /\ a \in blocks
  BY BranchFollows
<1>2. np \in F /\ np # a
  <2>1. a \in Ancestry[a]
    BY <1>1, AncestryIs
  <2> QED BY <1>1, <2>1 DEF PreferOK, ChainOK
<1>3. np \in blocks /\ np \in Nodes /\ Extends(np, a)
  BY <1>1, <1>2, FollowIs
<1>4. {x \in F : Extends(x, np)} = Follow(blocks, sb, np)
  BY <1>1, <1>2, FollowWithin
<1>5. Preferred(np) = Follow(blocks, sb, np)
  BY <1>1 DEF PreferOK
<1>6. ASSUME NEW x \in preferredIDs PROVE x \in F
  <2>1. x \in Ancestry[np] \/ np \in Ancestry[x]
    BY DEF ChainOK
  <2>2. CASE x \in Ancestry[np]
    <3>1. x \notin Ancestry[a]
      BY DEF ChainOK
    <3>2. Extends(x, a) /\ x \in blocks
      BY <1>3, <2>2, <3>1, BranchIs
    <3> QED BY <1>1, <1>2, <2>2, <3>2, FollowAbove
  <2>3. CASE np \in Ancestry[x] /\ x # np
    <3>1. x \in Preferred(np)
      BY <2>3 DEF Preferred, Extends
    <3> QED BY <1>4, <1>5, <3>1
  <2> QED BY <1>2, <2>1, <2>2, <2>3
<1>7. ASSUME NEW x \in F PROVE x \in preferredIDs
  <2>1. x \in Nodes /\ Extends(x, a) /\ x \in blocks /\ x \notin Ancestry[a]
    <3>1. x \in Nodes /\ Extends(x, a) /\ x \in blocks
      BY <1>1, FollowIs
    <3> QED BY <3>1, ExtendsIs
  <2>2. CASE x \in Ancestry[np]
    BY <2>1, <2>2 DEF ChainOK
  <2>3. CASE x \notin Ancestry[np]
    <3>1. np \in Ancestry[x] /\ np \in Ancestry[np]
      BY <1>1, <1>2, <1>3, <2>3, FollowLinear, AncestryIs
    <3>2. Extends(x, np)
      BY <2>3, <3>1 DEF Extends
    <3> QED BY <1>4, <1>5, <3>2 DEF Preferred
  <2> QED BY <2>2, <2>3
<1>8. preferredIDs = BranchBelow(lastAccepted)
  BY <1>1, <1>6, <1>7
<1>9. /\ preferredHeights = ByHeight(preferredIDs)
      /\ preference \in preferredIDs /\ Children(preference) = {}
  BY <1>3 DEF ChainOK
<1> QED BY <1>8, <1>9 DEF BranchOK

(* Between polls, the branch is one as ChainOK says. *)
LEMMA BranchChain ==
  ASSUME TsInv, BranchOK
  PROVE  ChainOK
<1> DEFINE a == lastAccepted
<1>1. /\ preferredIDs = Follow(blocks, sb, a)
      /\ blocks \in SUBSET Nodes /\ a \in Nodes /\ a \in blocks
  BY BranchFollows DEF BranchOK
<1>2. \A x, y \in preferredIDs : x \in Ancestry[y] \/ y \in Ancestry[x]
  BY <1>1, FollowLinear
<1>3. ASSUME NEW x \in preferredIDs
      PROVE  x \in IDs /\ x \in blocks /\ x \in Nodes /\ Extends(x, a) /\ x \notin Ancestry[a]
  <2>1. x \in IDs /\ x \in blocks /\ x \in Nodes /\ Extends(x, a)
    BY <1>1, FollowIs
  <2> QED BY <2>1, ExtendsIs
<1>4. ASSUME NEW x \in preferredIDs, NEW y \in Ancestry[x], y \notin Ancestry[a]
      PROVE  y \in preferredIDs
  <2>1. Extends(y, a) /\ y \in blocks
    BY <1>3, <1>4, BranchIs
  <2> QED BY <1>1, <2>1, FollowAbove
<1>5. ASSUME preferredIDs # {} PROVE preference \in preferredIDs
  <2> SUFFICES ASSUME preference = a PROVE FALSE
    BY DEF BranchOK
  <2>1. PICK x \in preferredIDs : TRUE
    BY <1>5
  <2>2. Children(a) = {}
    BY DEF BranchOK
  <2>3. a \in BranchBelow(a) \cup {a} /\ x \in BranchBelow(a) \cup {a}
    BY <2>1 DEF BranchOK
  <2>4. x \in Ancestry[a]
    BY <2>2, <2>3, BranchLeaf
  <2> QED BY <1>3, <2>1, <2>4
<1> QED BY <1>2, <1>3, <1>4, <1>5 DEF ChainOK, BranchOK

(* Pushing the votes keeps PrefInv, also when the vote stack is empty. *)
LEMMA RecordPollPref ==
  ASSUME PrefInv, NEW votes \in Votes, TsRecordPoll(votes)
  PROVE  PrefInv'
<1> DEFINE a == lastAccepted
           p == IF Count(votes, IDs) >= AlphaPreference THEN Pushed(votes) ELSE NoVotes
<1>1. TsInv /\ VoteInv /\ phase = "idle" /\ BranchOK
  BY DEF PrefInv, VoteInv, TsRecordPoll, PreferredBranch, BranchOK
<1>2. VoteInv'
  BY <1>1, RecordPollVoteInv
<1>3. UNCHANGED <<blocks, sb, lastAccepted>> /\ stack' = VoteStack(p)
  BY DEF TsRecordPoll
<1>4. CASE stack' = {}
  <2>1. Prefer(preference) /\ phase' = phase /\ onPreferredBranch' = onPreferredBranch
    BY <1>4 DEF TsRecordPoll
  <2>2. preference \in BranchBelow(a) \cup {a}
    BY <1>1 DEF BranchOK
  <2>3. BranchOK'
    BY <1>1, <1>3, <2>1, <2>2, PreferStep
  <2> QED BY <1>1, <1>2, <2>1, <2>3 DEF PrefInv, PreferredBranch, BranchOK
<1>5. CASE stack' # {}
  <2>1. /\ phase' = "vote" /\ newPreferred' = a /\ onPreferredBranch' = TRUE
        /\ UNCHANGED <<preference, preferredIDs, preferredHeights>>
    BY <1>5 DEF TsRecordPoll
  <2>2. PollOK(p)
    BY <1>1, PushedOK, NoVotesOK
  <2> HIDE DEF p
  <2>3. Top(stack') = a
    BY <1>1, <1>3, <1>5, <2>2, VoteStackTop
  <2>4. (\A x : Children(x)' = Children(x)) /\ \A x : BranchBelow(x)' = BranchBelow(x)
    BY <1>3 DEF Children, BranchBelow
  <2>5. ChainOK'
    <3>1. ChainOK
      BY <1>1, BranchChain
    <3> QED BY <1>3, <2>1, <2>4, <3>1 DEF ChainOK
  <2>6. Preferred(newPreferred)' = BranchBelow(a)
    BY <1>1, <2>1 DEF Preferred, BranchOK, BranchBelow
  <2>7. PreferOK'
    BY <1>3, <2>1, <2>3, <2>4, <2>6 DEF PreferOK
  <2> QED BY <1>2, <2>1, <2>5, <2>7 DEF PrefInv, PreferredBranch
<1> QED BY <1>4, <1>5

(* The end of RecordPoll keeps PrefInv. *)
LEMMA EndPollPref ==
  ASSUME PrefInv, TsEndPoll, VoteInv'
  PROVE  PrefInv'
<1>1. TsInv /\ ChainOK /\ PreferOK /\ phase = "vote"
  BY DEF PrefInv, VoteInv, TsEndPoll
<1>2. /\ UNCHANGED <<blocks, lastAccepted, sb>> /\ phase' = "idle" /\ onPreferredBranch' = FALSE
      /\ Prefer(newPreferred)
  BY DEF TsEndPoll
<1>3. newPreferred \in BranchBelow(lastAccepted) \cup {lastAccepted}
  BY <1>1 DEF PreferOK
<1>4. newPreferred \in preferredIDs => BranchOK
  BY <1>1, PreferredBefore
<1>5. BranchOK'
  BY <1>1, <1>2, <1>3, <1>4, PreferStep
<1> QED BY Zenon, <1>2, <1>5 DEF PrefInv, PreferredBranch, BranchOK

(* The blocks of a branch have different heights. *)
LEMMA ByHeightAt ==
  ASSUME NEW S \in SUBSET Nodes, \A x, y \in S : x \in Ancestry[y] \/ y \in Ancestry[x],
         NEW x \in S
  PROVE  HeightOf[x] \in DOMAIN ByHeight(S) /\ ByHeight(S)[HeightOf[x]] = x
<1> DEFINE z == ByHeight(S)[HeightOf[x]]
<1>1. HeightOf[x] \in DOMAIN ByHeight(S) /\ z = CHOOSE y \in S : HeightOf[y] = HeightOf[x]
  BY DEF ByHeight
<1>2. z \in S /\ HeightOf[z] = HeightOf[x]
  BY <1>1
<1> HIDE DEF z
<1>3. x \in Nodes /\ z \in Nodes /\ HeightOf[x] \in Nat
  BY <1>2, AncestryIs
<1>4. /\ z \in Ancestry[x] /\ z # x => HeightOf[z] < HeightOf[x]
      /\ x \in Ancestry[z] /\ z # x => HeightOf[x] < HeightOf[z]
  BY <1>3, AncestryIs
<1>5. z = x
  BY <1>2, <1>3, <1>4
<1> QED BY <1>1, <1>5 DEF z

(* A block has a tree as soon as it has children (AddChild). *)
LEMMA HasTree ==
  ASSUME TsInv, NEW x \in blocks
  PROVE  sb[x] = NoTrie <=> Children(x) = {}
<1>1. IF sb[x] = NoTrie THEN Children(x) = {} ELSE TreeOf(x, sb[x])
  BY DEF TsInv, TreesOK, RootOK
<1>2. TreeOf(x, sb[x]) => Children(x) # {}
  BY DEF TreeOf, TrieOK
<1> QED BY <1>1, <1>2

(* Add prefers a block whose parent was the end of the branch, and only    *)
(* then is it on the branch.                                               *)
LEMMA AddFollow ==
  ASSUME TsInv, BranchOK, NEW x \in IDs, TsAdd(x)
  PROVE  BranchBelow(lastAccepted)' = IF preference = ParentOf[x] THEN preferredIDs \cup {x}
                                      ELSE preferredIDs
<1> DEFINE a == lastAccepted
           q == ParentOf[x]
           F == Follow(blocks, sb, a)
           G == Follow(blocks', sb', a)
<1>1. /\ ~Processing(x) /\ q \in blocks /\ blocks' = blocks \cup {x}
      /\ sb' = AddChild(sb, q, x) /\ lastAccepted' = a
  BY DEF TsAdd
<1>2. preferredIDs = F /\ blocks \in SUBSET Nodes /\ a \in Nodes /\ a \in blocks
  BY BranchFollows DEF BranchOK
<1>3. BranchBelow(lastAccepted)' = G
  BY <1>1 DEF BranchBelow, Follow
<1>4. x \notin blocks /\ x \in Nodes /\ x # q /\ a \in Ancestry[x]
  BY <1>1, AddedIsNew DEF Nodes
<1>5. blocks' \in SUBSET Nodes /\ q \in Nodes
  BY <1>1, <1>2, <1>4
<1>6. /\ \A z \in Nodes : z # q => sb'[z] = sb[z]
      /\ sb'[q] = IF sb[q] = NoTrie THEN NewTrie(x) ELSE TrieAdd(sb[q], x)
  BY <1>1, <1>5, AddChildIs DEF TsInv, TreesOK
<1>7. ASSUME NEW z \in blocks, z # a
      PROVE  TriePreference(sb'[ParentOf[z]]) = TriePreference(sb[ParentOf[z]])
  <2>1. ParentOf[z] \in blocks /\ z \in Children(ParentOf[z])
    BY <1>7, ProcessingIs
  <2>2. sb[ParentOf[z]] # NoTrie /\ TrieOK(sb[ParentOf[z]]) /\ ParentOf[z] \in Nodes
    BY <1>2, <2>1, PrefersChild
  <2> QED BY <1>6, <2>2, AddPreference
<1> HIDE DEF q, G, F
<1>8. ASSUME NEW y \in blocks, NEW z \in Ancestry[y], Extends(z, a)
      PROVE  TriePreference(sb'[ParentOf[z]]) = TriePreference(sb[ParentOf[z]])
  <2>1. z \in blocks /\ z # a
    BY <1>8, BranchIs DEF Extends
  <2> QED BY <1>7, <2>1
<1>9. F \subseteq G
  BY <1>1, <1>8 DEF F, G, Follow
<1>10. \A y \in G : y = x \/ y \in F
  BY <1>1, <1>8 DEF F, G, Follow
<1>11. x \in G <=> q \in F \cup {a} /\ sb[q] = NoTrie
  <2>1. q \in F \cup {a} => (x \in G <=> x = TriePreference(sb'[q]))
    BY <1>1, <1>2, <1>5, <1>9, FollowChild DEF G, q
  <2>2. sb[q] = NoTrie => x = TriePreference(sb'[q])
    BY <1>6, NewTrieOK, PreferenceIs
  <2>3. sb[q] # NoTrie => x # TriePreference(sb'[q])
    <3> SUFFICES ASSUME sb[q] # NoTrie PROVE x # TriePreference(sb'[q])
      OBVIOUS
    <3>1. TriePreference(sb[q]) \in Children(q) /\ TrieOK(sb[q])
      BY <1>1, HasTree, PrefersChild
    <3>2. TriePreference(sb'[q]) \in Children(q)
      BY <1>6, <3>1, AddPreference
    <3> QED BY <1>4, <3>2 DEF Children
  <2>4. x \in G => q \in F \cup {a}
    <3> SUFFICES ASSUME x \in G, q # a PROVE q \in F
      OBVIOUS
    <3>1. Extends(q, a)
      <4>1. a \in Ancestry[q]
        BY <1>1, BranchIs
      <4> QED BY <4>1 DEF Extends
    <3>2. q \in Ancestry[x]
      BY AncestryOfChild DEF q
    <3>3. q \in G
      BY <1>1, <1>2, <1>5, <3>1, <3>2, FollowAbove DEF G
    <3> QED BY <1>4, <1>10, <3>3
  <2> QED BY <2>1, <2>2, <2>3, <2>4
<1>12. preference = q <=> q \in F \cup {a} /\ sb[q] = NoTrie
  <2>1. sb[q] = NoTrie <=> Children(q) = {}
    BY <1>1, HasTree
  <2>2. preference \in F \cup {a} /\ Children(preference) = {} /\ BranchBelow(a) = F
    BY <1>2 DEF BranchOK
  <2>3. ASSUME q \in F \cup {a}, Children(q) = {} PROVE preference = q
    <3>1. q \in Ancestry[preference] /\ preference \in Ancestry[q]
      BY <2>2, <2>3, BranchLeaf
    <3>2. preference \in Nodes
      BY <1>5, <3>1, AncestryIs
    <3>3. Extends(preference, q) => q \in Nodes /\ preference \notin Ancestry[q]
      BY <3>2, ExtendsIs
    <3> QED BY <3>1, <3>3 DEF Extends
  <2> QED BY <2>1, <2>2, <2>3
<1> QED BY <1>2, <1>3, <1>9, <1>10, <1>11, <1>12 DEF q

(* A block below a branch adds one height (Add). *)
LEMMA ByHeightAdd ==
  ASSUME NEW S \in SUBSET Nodes, \A y, z \in S : y \in Ancestry[z] \/ z \in Ancestry[y],
         NEW x \in Nodes, \A y \in S : y \in Ancestry[x] /\ y # x
  PROVE  ByHeight(S \cup {x}) = [h \in DOMAIN ByHeight(S) \cup {HeightOf[x]} |->
                                   IF h = HeightOf[x] THEN x ELSE ByHeight(S)[h]]
<1> DEFINE T == S \cup {x}
           f == ByHeight(T)
           g == [h \in DOMAIN ByHeight(S) \cup {HeightOf[x]} |->
                   IF h = HeightOf[x] THEN x ELSE ByHeight(S)[h]]
<1>1. T \in SUBSET Nodes /\ \A y, z \in T : y \in Ancestry[z] \/ z \in Ancestry[y]
  BY AncestryIs
<1>2. /\ DOMAIN f = {HeightOf[y] : y \in T} /\ f = [h \in DOMAIN f |-> f[h]]
      /\ DOMAIN ByHeight(S) = {HeightOf[y] : y \in S}
  BY DEF ByHeight
<1>3. \A y \in S : HeightOf[y] # HeightOf[x]
  BY AncestryIs
<1>4. \A y \in T : f[HeightOf[y]] = y
  <2> HIDE DEF T
  <2> QED BY <1>1, ByHeightAt
<1>5. \A y \in S : ByHeight(S)[HeightOf[y]] = y
  BY ByHeightAt
<1> HIDE DEF f
<1>6. DOMAIN f = DOMAIN ByHeight(S) \cup {HeightOf[x]}
  BY <1>2
<1>7. ASSUME NEW h \in DOMAIN f PROVE f[h] = g[h]
  <2>1. PICK y \in T : h = HeightOf[y]
    BY <1>2
  <2>2. f[h] = y
    BY <1>4, <2>1
  <2>3. CASE y = x
    BY <1>6, <2>1, <2>2, <2>3
  <2>4. CASE y \in S
    <3>1. h # HeightOf[x] /\ ByHeight(S)[h] = y
      BY <1>3, <1>5, <2>1, <2>4
    <3> QED BY <1>6, <2>2, <3>1
  <2> QED BY <2>3, <2>4
<1>8. f = g
  BY Zenon, <1>2, <1>6, <1>7
<1> QED BY <1>8 DEF f

(* Add keeps PrefInv. *)
LEMMA TsAddPref ==
  ASSUME PrefInv, NEW x \in IDs, TsAdd(x)
  PROVE  PrefInv'
<1> DEFINE a == lastAccepted
           q == ParentOf[x]
<1>1. TsInv /\ VoteInv /\ phase = "idle" /\ BranchOK
  BY DEF PrefInv, VoteInv, TsAdd, PreferredBranch, BranchOK
<1>2. VoteInv'
  BY <1>1, TsAddVoteInv
<1>3. /\ ~Processing(x) /\ q \in blocks /\ blocks' = blocks \cup {x} /\ lastAccepted' = a
      /\ phase' = "idle" /\ onPreferredBranch' = onPreferredBranch
  BY <1>1 DEF TsAdd
<1>4. x \notin blocks /\ x \in Nodes /\ x # q /\ x # Genesis /\ Children(x) = {}
  BY <1>1, <1>3, AddedIsNew, BlocksAssumption DEF Nodes
<1>5. \A z : z # q => Children(z)' = Children(z)
  BY <1>3 DEF Children
<1>6. BranchBelow(lastAccepted)' = IF preference = q THEN preferredIDs \cup {x} ELSE preferredIDs
  BY <1>1, AddFollow
<1>7. BranchOK'
  <2>1. CASE preference # q
    <3>1. UNCHANGED <<preference, preferredIDs, preferredHeights>>
      BY <2>1 DEF TsAdd
    <3> QED BY <1>1, <1>3, <1>5, <1>6, <2>1, <3>1 DEF BranchOK
  <2>2. CASE preference = q
    <3>1. /\ preference' = x /\ preferredIDs' = preferredIDs \cup {x}
          /\ preferredHeights' = [h \in DOMAIN preferredHeights \cup {HeightOf[x]} |->
                                    IF h = HeightOf[x] THEN x ELSE preferredHeights[h]]
      BY <2>2 DEF TsAdd
    <3>2. /\ preferredIDs \in SUBSET Nodes
          /\ \A y, z \in preferredIDs : y \in Ancestry[z] \/ z \in Ancestry[y]
      <4>1. ChainOK
        BY <1>1, BranchChain
      <4> QED BY <4>1 DEF ChainOK, Nodes
    <3>3. \A y \in preferredIDs : y \in Ancestry[x] /\ y # x
      <4> SUFFICES ASSUME NEW y \in preferredIDs PROVE y \in Ancestry[x] /\ y # x
        OBVIOUS
      <4>1. y \in Ancestry[q]
        BY <1>1, <2>2, BranchLeaf DEF BranchOK
      <4> QED BY <4>1, AncestryOfChild, AncestryTransitive, <1>4
    <3>4. preferredHeights' = ByHeight(preferredIDs')
      <4>1. preferredHeights = ByHeight(preferredIDs)
        BY <1>1 DEF BranchOK
      <4> QED BY <1>4, <3>1, <3>2, <3>3, <4>1, ByHeightAdd
    <3>5. Children(x)' = {}
      BY <1>4, <1>5
    <3> QED BY <1>6, <2>2, <3>1, <3>4, <3>5 DEF BranchOK
  <2> QED BY <2>1, <2>2
<1> QED BY <1>1, <1>2, <1>3, <1>7 DEF PrefInv, PreferredBranch, BranchOK

(* A block taken from a branch takes its height (acceptPreferredChild). *)
LEMMA ByHeightRemove ==
  ASSUME NEW S \in SUBSET Nodes, \A y, z \in S : y \in Ancestry[z] \/ z \in Ancestry[y],
         NEW x \in S
  PROVE  ByHeight(S \ {x}) = [h \in DOMAIN ByHeight(S) \ {HeightOf[x]} |-> ByHeight(S)[h]]
<1> DEFINE T == S \ {x}
           f == ByHeight(T)
           g == [h \in DOMAIN ByHeight(S) \ {HeightOf[x]} |-> ByHeight(S)[h]]
<1>1. T \in SUBSET Nodes /\ \A y, z \in T : y \in Ancestry[z] \/ z \in Ancestry[y]
  OBVIOUS
<1>2. /\ DOMAIN f = {HeightOf[y] : y \in T} /\ f = [h \in DOMAIN f |-> f[h]]
      /\ DOMAIN ByHeight(S) = {HeightOf[y] : y \in S}
  BY DEF ByHeight
<1>3. \A y \in S : ByHeight(S)[HeightOf[y]] = y
  BY ByHeightAt
<1>4. \A y \in T : f[HeightOf[y]] = y
  <2> HIDE DEF T
  <2> QED BY <1>1, ByHeightAt
<1>5. \A y \in S : HeightOf[y] = HeightOf[x] => y = x
  BY <1>3
<1> HIDE DEF f
<1>6. DOMAIN f = DOMAIN ByHeight(S) \ {HeightOf[x]}
  BY <1>2, <1>5
<1>7. ASSUME NEW h \in DOMAIN f PROVE f[h] = g[h]
  <2>1. PICK y \in T : h = HeightOf[y]
    BY <1>2
  <2>2. f[h] = y /\ ByHeight(S)[h] = y
    BY <1>3, <1>4, <2>1
  <2> QED BY <1>6, <2>2
<1>8. f = g
  BY Zenon, <1>2, <1>6, <1>7
<1> QED BY <1>8 DEF f

(* A block extends one child of each of its ancestors. *)
LEMMA Siblings ==
  ASSUME NEW y \in IDs, NEW z \in IDs, ParentOf[y] = ParentOf[z],
         NEW x \in Nodes, y \in Ancestry[x], z \in Ancestry[x]
  PROVE  y = z
<1>1. y \in Nodes /\ z \in Nodes /\ y # Genesis /\ z # Genesis
  BY BlocksAssumption DEF Nodes
<1>2. HeightOf[y] = HeightOf[z] /\ HeightOf[y] \in Nat
  BY <1>1, AncestryIs
<1>3. y \in Ancestry[z] \/ Extends(y, z)
  BY Comparable
<1>4. Extends(y, z) => HeightOf[z] < HeightOf[y]
  BY <1>1, ExtendsIs
<1>5. y \in Ancestry[z] /\ y # z => HeightOf[y] < HeightOf[z]
  BY <1>1, AncestryIs
<1> QED BY <1>2, <1>3, <1>4, <1>5

(* What extends a block extends a child of it. *)
LEMMA ChildToward ==
  ASSUME NEW x \in Nodes, NEW p, Extends(x, p)
  PROVE  \E y \in Ancestry[x] : Extends(y, p) /\ ParentOf[y] = p
<1> DEFINE C == {y \in Ancestry[x] : Extends(y, p)}
<1>1. C \in SUBSET Nodes /\ x \in C
  BY AncestryIs
<1> HIDE DEF C
<1>2. PICK y \in C : \A z \in C : HeightOf[y] <= HeightOf[z]
  BY <1>1, Lowest
<1>3. y \in Nodes /\ y \in Ancestry[x] /\ Extends(y, p)
  BY <1>1 DEF C
<1>4. /\ ParentOf[y] \in Nodes /\ p \in Ancestry[ParentOf[y]] /\ ParentOf[y] \in Ancestry[y]
      /\ y \in IDs /\ HeightOf[y] \in Nat
  BY <1>3, ExtendsIs
<1>5. ASSUME ParentOf[y] # p PROVE FALSE
  <2>1. Extends(ParentOf[y], p)
    BY <1>4, <1>5 DEF Extends
  <2>2. ParentOf[y] \in Ancestry[x]
    BY <1>3, <1>4, AncestryTransitive
  <2>3. HeightOf[y] <= HeightOf[ParentOf[y]]
    BY <1>2, <2>1, <2>2 DEF C
  <2>4. HeightOf[ParentOf[y]] < HeightOf[y] /\ HeightOf[ParentOf[y]] \in Nat
    BY <1>3, <1>4, AncestryIs, BlocksAssumption DEF Nodes
  <2> QED BY <1>4, <2>3, <2>4
<1> QED BY <1>3, <1>5

(* rejectTransitively spares what extends the accepted child. *)
LEMMA ExtendsWinner ==
  ASSUME TsInv, NEW p \in blocks, NEW w \in Children(p), NEW y \in blocks, w \in Ancestry[y]
  PROVE  y \notin Losers(p, w) /\ y # p
<1>1. /\ w \in IDs /\ ParentOf[w] = p /\ y \in Nodes /\ blocks \subseteq Nodes
      /\ \A z \in Children(p) : z \in IDs /\ ParentOf[z] = p
  BY DEF Children, TsInv, RootOK, Nodes
<1>2. y \notin Losers(p, w)
  BY <1>1, Siblings DEF Losers
<1>3. w \notin Ancestry[p]
  BY <1>1, AncestryOfChild
<1> QED BY <1>2, <1>3

-----------------------------------------------------------------------------
(* The preferred branch, in one turn of the loop of vote. *)

(* What a turn of vote does to the preferences. *)
LEMMA VotePrefStep ==
  ASSUME PrefInv, TsVote
  PROVE  LET w == TriePreference(Recorded(Voted))
         IN  /\ TsInv /\ VoteInv /\ StackOK /\ ChainOK /\ PreferOK /\ stack # {}
             /\ Voted \in blocks /\ w \in Children(Voted) /\ w \in blocks /\ w \in IDs
             /\ ParentOf[w] = Voted /\ w \notin Ancestry[Voted] /\ Voted \in Ancestry[w]
             /\ Ancestry[w] = {w} \cup Ancestry[Voted]
             /\ newPreferred' = IF onPreferredBranch THEN w ELSE newPreferred
             /\ onPreferredBranch' = (onPreferredBranch /\ NextVoted = w)
             /\ preference' = preference
             /\ IF CanAccept(Voted, Recorded(Voted))
                THEN /\ preferredIDs' = preferredIDs \ {w}
                     /\ preferredHeights' = [h \in DOMAIN preferredHeights \ {HeightOf[w]} |->
                                               preferredHeights[h]]
                ELSE UNCHANGED <<preferredIDs, preferredHeights>>
<1> DEFINE w == TriePreference(Recorded(Voted))
<1>1. TsInv /\ VoteInv /\ StackOK /\ ChainOK /\ PreferOK /\ stack # {} /\ phase = "vote"
  BY DEF PrefInv, VoteInv, TsVote
<1>2. Voted \in blocks /\ Voted \in stack /\ sb[Voted] # NoTrie
  BY <1>1, VotedIs, RecordedIsEager
<1>3. w \in Children(Voted)
  BY <1>1, <1>2, RecordedOK
<1>4. Recording(Voted, NextVoted) /\ preference' = preference
  BY <1>2 DEF TsVote, Voted, NextVoted, Below
<1>5. /\ newPreferred' = IF onPreferredBranch THEN w ELSE newPreferred
      /\ onPreferredBranch' = (onPreferredBranch /\ NextVoted = w)
  BY <1>4 DEF Recording
<1>6. IF CanAccept(Voted, Recorded(Voted))
      THEN /\ preferredIDs' = preferredIDs \ {w}
           /\ preferredHeights' = [h \in DOMAIN preferredHeights \ {HeightOf[w]} |->
                                     preferredHeights[h]]
      ELSE UNCHANGED <<preferredIDs, preferredHeights>>
  BY <1>4 DEF Recording, AcceptPreferredChild
<1> HIDE DEF w
<1>7. w \in blocks /\ w \in IDs /\ w \in Nodes /\ w # Genesis /\ ParentOf[w] = Voted
  BY <1>1, <1>3 DEF Children, TsInv, RootOK, Nodes
<1>8. w \notin Ancestry[Voted] /\ Voted \in Ancestry[w] /\ Ancestry[w] = {w} \cup Ancestry[Voted]
  BY <1>7, AncestryOfChild, AncestryIs
<1> QED BY <1>1, <1>2, <1>3, <1>4, <1>5, <1>6, <1>7, <1>8 DEF w

(* A turn of vote keeps ChainOK. *)
LEMMA VoteChain ==
  ASSUME PrefInv, TsVote, TsInv'
  PROVE  ChainOK'
<1> DEFINE a == lastAccepted
           x == Voted
           w == TriePreference(Recorded(Voted))
<1>1. /\ TsInv /\ VoteInv /\ ChainOK /\ x \in blocks /\ w \in Children(x) /\ w \in IDs
      /\ w \notin Ancestry[x] /\ Ancestry[w] = {w} \cup Ancestry[x] /\ preference' = preference
  BY VotePrefStep
<1>2. CASE ~CanAccept(x, Recorded(x))
  <2>1. UNCHANGED <<blocks, lastAccepted, preferredIDs, preferredHeights, preference>>
    BY <1>1, <1>2, VotePrefStep, VoteStep
  <2>2. \A z : Children(z)' = Children(z)
    BY <2>1 DEF Children
  <2> QED BY <1>1, <2>1, <2>2 DEF ChainOK
<1>3. CASE CanAccept(x, Recorded(x))
  <2>1. /\ x = a /\ lastAccepted' = w /\ blocks' = blocks \ ({x} \cup Losers(x, w))
        /\ blocks' \subseteq blocks
    BY <1>1, <1>3, VoteStep
  <2>2. /\ preferredIDs' = preferredIDs \ {w}
        /\ preferredHeights' = [h \in DOMAIN preferredHeights \ {HeightOf[w]} |->
                                  preferredHeights[h]]
    BY <1>3, VotePrefStep
  <2>3. \A z \in blocks' : Children(z)' = Children(z)
    BY <1>1, VoteLeaves
  <2> HIDE DEF x, w
  <2>4. /\ preferredIDs' \subseteq IDs
        /\ \A y, z \in preferredIDs' : y \in Ancestry[z] \/ z \in Ancestry[y]
        /\ \A y \in preferredIDs' : /\ Ancestry[y] \ Ancestry[w] \subseteq preferredIDs'
                                    /\ y \notin Ancestry[w]
    BY <1>1, <2>1, <2>2 DEF ChainOK
  <2>5. ASSUME preferredIDs' \cap blocks' # {}
        PROVE  /\ preferredHeights' = ByHeight(preferredIDs')
               /\ preference \in preferredIDs' /\ preference \in blocks'
               /\ Children(preference)' = {}
    <3>1. PICK z \in preferredIDs' : z \in blocks'
      BY <2>5
    <3>2. z \in blocks /\ z \in preferredIDs /\ z # w /\ z \in Nodes
      BY <1>1, <2>1, <2>2, <3>1 DEF TsInv, RootOK
    <3>3. w \in Ancestry[z]
      BY <2>1, <3>1 DEF TsInv, RootOK, RootedAtLastAccepted
    <3>4. w \in preferredIDs
      BY <1>1, <2>1, <3>2, <3>3 DEF ChainOK
    <3>5. /\ preferredHeights = ByHeight(preferredIDs) /\ preference \in preferredIDs
          /\ preference \in blocks /\ Children(preference) = {}
      BY <1>1, <3>2 DEF ChainOK
    <3>6. preferredHeights' = ByHeight(preferredIDs')
      <4>1. /\ preferredIDs \in SUBSET Nodes
            /\ \A y, v \in preferredIDs : y \in Ancestry[v] \/ v \in Ancestry[y]
        BY <1>1 DEF ChainOK, Nodes
      <4> QED BY <2>2, <3>4, <3>5, <4>1, ByHeightRemove
    <3>7. preference # w
      <4>1. Extends(z, w)
        BY <3>2, <3>3 DEF Extends
      <4>2. PICK y \in Ancestry[z] : Extends(y, w) /\ ParentOf[y] = w
        BY <3>2, <4>1, ChildToward
      <4>3. y \in Nodes /\ w \in Ancestry[y] /\ y # w
        BY <3>2, <4>2, AncestryIs DEF Extends
      <4>4. Extends(y, a)
        <5>1. a \in Ancestry[w] /\ a # w
          BY <1>1, <2>1, AncestryIs DEF TsInv, RootOK
        <5> QED BY <4>3, <5>1, ExtendsTransitive
      <4>5. y \in blocks
        BY <1>1, <3>2, <4>2, <4>4, BranchIs
      <4>6. y # Genesis
        BY <4>2, <4>3, ExtendsIs, BlocksAssumption
      <4> QED BY <3>5, <4>2, <4>5, <4>6 DEF Children
    <3>8. w \in Ancestry[preference]
      BY <1>1, <2>1, <3>4, <3>5, <3>7 DEF ChainOK
    <3>9. preference \in blocks'
      BY <1>1, <2>1, <3>5, <3>8, ExtendsWinner
    <3>10. Children(preference)' = {}
      BY <1>1, <2>3, <3>5, <3>9 DEF Children
    <3> QED BY <2>2, <3>5, <3>6, <3>7, <3>9, <3>10
  <2> QED BY <1>1, <2>1, <2>4, <2>5 DEF ChainOK
<1> QED BY <1>2, <1>3

(* Recording a poll at a block leaves the branch from another block that   *)
(* it does not extend.                                                     *)
LEMMA VoteKeepsBranch ==
  ASSUME PrefInv, TsVote, TsInv', NEW p \in blocks', p \notin Ancestry[Voted]
  PROVE  Follow(blocks', sb', p) = Follow(blocks, sb, p)
<1> DEFINE x == Voted
           w == TriePreference(Recorded(Voted))
<1>1. TsInv /\ VoteInv /\ x \in blocks /\ w \in Children(x)
  BY VotePrefStep
<1>2. /\ blocks' \subseteq blocks
      /\ sb' = [z \in Nodes |-> IF z \notin blocks' THEN NoTrie
                                ELSE IF z = x THEN Recorded(x) ELSE sb[z]]
      /\ \/ lastAccepted' = w /\ blocks' = blocks \ ({x} \cup Losers(x, w))
         \/ blocks' = blocks
  BY <1>1, VoteStep
<1>3. blocks \in SUBSET Nodes /\ blocks' \in SUBSET Nodes /\ p \in Nodes /\ p \in blocks
  BY <1>1, <1>2, BranchFollows
<1> HIDE DEF x, w
<1>4. ASSUME NEW y \in Nodes, Extends(y, p) PROVE y \in blocks <=> y \in blocks'
  <2>1. CASE blocks' = blocks
    BY <2>1
  <2>2. CASE lastAccepted' = w /\ blocks' = blocks \ ({x} \cup Losers(x, w))
    <3>1. w \in Ancestry[p]
      BY <2>2 DEF TsInv, RootOK, RootedAtLastAccepted
    <3>2. w \in Ancestry[y]
      BY <1>4, <3>1, AncestryTransitive DEF Extends
    <3> QED BY <1>1, <2>2, <3>2, ExtendsWinner
  <2> QED BY <1>2, <2>1, <2>2
<1>5. ASSUME NEW y \in Nodes, Extends(y, p), \A z \in Ancestry[y] : Extends(z, p) => z \in blocks
      PROVE  TriePreference(sb'[ParentOf[y]]) = TriePreference(sb[ParentOf[y]])
  <2> DEFINE q == ParentOf[y]
  <2>1. q \in Nodes /\ p \in Ancestry[q] /\ q \in Ancestry[y]
    BY <1>5, ExtendsIs
  <2> HIDE DEF q
  <2>2. q \in blocks'
    <3>1. CASE q = p
      BY <3>1
    <3>2. CASE q # p
      <4>1. Extends(q, p)
        BY <2>1, <3>2 DEF Extends
      <4> QED BY <1>4, <1>5, <2>1, <4>1
    <3> QED BY <3>1, <3>2
  <2>3. q # x
    BY <2>1 DEF x
  <2>4. sb'[q] = sb[q]
    BY <1>2, <2>1, <2>2, <2>3
  <2> QED BY <2>4 DEF q
<1>6. ASSUME NEW y \in blocks, NEW z \in Ancestry[y], Extends(z, p) PROVE z \in blocks
  <2>1. lastAccepted \in Ancestry[p] /\ y \in Nodes
    BY <1>1, <1>3, BranchIs
  <2>2. z \in Nodes /\ p \in Ancestry[z] /\ z # p
    BY <1>6, <2>1, AncestryIs DEF Extends
  <2>3. Extends(z, lastAccepted)
    BY <2>1, <2>2, ExtendsTransitive
  <2> QED BY <1>1, <2>3, BranchIs
<1> DEFINE B == blocks
           D == blocks'
           trees == sb
           new == sb'
<1>7. Follow(D, new, p) = Follow(B, trees, p)
  <2> SUFFICES Follow(D, new, p) = Follow(B, trees, p)
    OBVIOUS
  <2>1. /\ B \in SUBSET Nodes /\ D \in SUBSET Nodes
        /\ \A y \in Nodes : Extends(y, p) => (y \in B <=> y \in D)
        /\ \A y \in Nodes : Extends(y, p) /\ (\A z \in Ancestry[y] : Extends(z, p) => z \in B) =>
             TriePreference(new[ParentOf[y]]) = TriePreference(trees[ParentOf[y]])
        /\ \A y \in B : \A z \in Ancestry[y] : Extends(z, p) => z \in B
    BY <1>3, <1>4, <1>5, <1>6
  <2> HIDE DEF B, D, trees, new
  <2> QED BY <1>3, <2>1, FollowSame
<1> QED BY <1>7

(* ... and the way to a block that does not extend it.                     *)
LEMMA VoteKeepsPath ==
  ASSUME PrefInv, TsVote, ~CanAccept(Voted, Recorded(Voted)),
         NEW p \in BranchBelow(lastAccepted) \cup {lastAccepted},
         Voted \notin Ancestry[p] \/ Voted = p
  PROVE  p \in BranchBelow(lastAccepted)' \cup {lastAccepted}
<1> DEFINE a == lastAccepted
<1> SUFFICES ASSUME p # a PROVE p \in BranchBelow(lastAccepted)'
  OBVIOUS
<1>1. TsInv /\ VoteInv
  BY VotePrefStep
<1>2. /\ blocks' = blocks /\ lastAccepted' = a
      /\ sb' = [z \in Nodes |-> IF z \notin blocks' THEN NoTrie
                                ELSE IF z = Voted THEN Recorded(Voted) ELSE sb[z]]
  BY <1>1, VoteStep
<1>3. /\ p \in blocks /\ Extends(p, a)
      /\ \A y \in Ancestry[p] : Extends(y, a) => y = TriePreference(sb[ParentOf[y]])
  BY DEF BranchBelow
<1>4. ASSUME NEW y \in Ancestry[p], Extends(y, a) PROVE y = TriePreference(sb'[ParentOf[y]])
  <2>1. y \in blocks /\ y # a /\ p \in Nodes
    BY <1>1, <1>3, <1>4, BranchIs DEF Extends
  <2>2. ParentOf[y] \in blocks /\ y \in IDs /\ ParentOf[y] \in Nodes /\ ParentOf[y] \in Ancestry[y]
    BY <1>1, <2>1, ProcessingIs, AncestryOfChild
  <2>3. ParentOf[y] # Voted
    <3> SUFFICES ASSUME ParentOf[y] = Voted PROVE FALSE
      OBVIOUS
    <3>1. Voted \in Ancestry[p]
      BY <2>1, <2>2, AncestryTransitive
    <3> QED BY <2>2, <3>1, AncestryOfChild
  <2>4. sb'[ParentOf[y]] = sb[ParentOf[y]]
    BY <1>2, <2>2, <2>3
  <2> QED BY <1>3, <1>4, <2>4
<1> QED BY <1>2, <1>3, <1>4 DEF BranchBelow

(* A turn of vote keeps PreferOK, while the voted branch is the preferred  *)
(* one.                                                                    *)
LEMMA VotePreferOn ==
  ASSUME PrefInv, TsVote, TsInv', onPreferredBranch
  PROVE  PreferOK'
<1> DEFINE a == lastAccepted
           x == Voted
           w == TriePreference(Recorded(Voted))
           can == CanAccept(Voted, Recorded(Voted))
<1>1. /\ TsInv /\ VoteInv /\ StackOK /\ PreferOK /\ stack # {} /\ x \in blocks
      /\ w \in Children(x) /\ w \in blocks /\ w \in IDs /\ ParentOf[w] = x
      /\ w \notin Ancestry[x] /\ x \in Ancestry[w]
      /\ newPreferred' = w /\ onPreferredBranch' = (NextVoted = w)
      /\ IF can THEN preferredIDs' = preferredIDs \ {w} ELSE preferredIDs' = preferredIDs
  BY VotePrefStep
<1>2. /\ stack' = Below
      /\ can => x = a /\ lastAccepted' = w
      /\ ~can => lastAccepted' = a /\ blocks' = blocks
      /\ sb' = [z \in Nodes |-> IF z \notin blocks' THEN NoTrie
                                ELSE IF z = x THEN Recorded(x) ELSE sb[z]]
  BY Zenon, <1>1, VoteStep
<1>3. newPreferred = x
  BY <1>1 DEF PreferOK, Voted
<1>4. x \in BranchBelow(a) \cup {a}
  BY <1>1, <1>3 DEF PreferOK
<1>5. /\ \A p : BranchBelow(p) = Follow(blocks, sb, p)
      /\ blocks \in SUBSET Nodes /\ a \in Nodes /\ a \in blocks /\ x \in Nodes /\ w \in Nodes
  BY <1>1, BranchFollows
<1>6. w \in blocks' /\ lastAccepted' \in blocks' /\ blocks' \in SUBSET Nodes
  BY <1>1, <1>2 DEF TsInv, RootOK
<1>7. Follow(blocks', sb', w) = Follow(blocks, sb, w)
  BY <1>1, <1>6, VoteKeepsBranch
<1>8. w \in BranchBelow(lastAccepted)' \cup {lastAccepted'}
  <2>1. CASE can
    BY <1>2, <2>1
  <2>2. CASE ~can
    <3>1. x \in BranchBelow(lastAccepted)' \cup {a}
      BY <1>4, <2>2, VoteKeepsPath
    <3>2. BranchBelow(lastAccepted)' = Follow(blocks', sb', a)
      BY <1>2, <2>2 DEF BranchBelow, Follow
    <3>3. w = TriePreference(sb'[x])
      BY <1>1, <1>2, <1>5, <2>2
    <3> HIDE DEF w
    <3>4. w \in Follow(blocks', sb', a)
      BY <1>1, <1>5, <1>6, <3>1, <3>2, <3>3, FollowChild
    <3> QED BY <3>2, <3>4
  <2> QED BY <2>1, <2>2
<1> HIDE DEF w, x, can
<1> DEFINE P == {y \in preferredIDs' : Extends(y, w)}
<1>9. ASSUME w \in preferredIDs' \/ P # {}
      PROVE  P = Follow(blocks', sb', w)
  <2>1. PICK z \in preferredIDs' : w \in Ancestry[z]
    BY <1>5, <1>9, AncestryIs DEF Extends
  <2>2. preferredIDs \subseteq IDs /\ z \in preferredIDs /\ z \in Nodes
    BY <1>1, <2>1, VotePrefStep DEF ChainOK, Nodes
  <2>3. \A y \in preferredIDs : w \in Ancestry[y] => Extends(y, x)
    <3> SUFFICES ASSUME NEW y \in preferredIDs, w \in Ancestry[y] PROVE Extends(y, x)
      OBVIOUS
    <3>1. y \in Nodes /\ w # x
      BY <1>1, <1>5, <2>2, AncestryIs DEF Nodes
    <3> QED BY <1>1, <3>1, ExtendsTransitive
  <2>4. Preferred(x) = BranchBelow(x)
    <3>1. Preferred(x) # {}
      BY <2>1, <2>2, <2>3 DEF Preferred
    <3> QED BY <1>1, <1>3, <3>1 DEF PreferOK
  <2> DEFINE F == Follow(blocks, sb, x)
  <2>5. Preferred(x) = F
    BY <1>5, <2>4
  <2>6. w \in F
    <3>1. z \in F
      BY <2>1, <2>2, <2>3, <2>5 DEF Preferred
    <3>2. Extends(w, x)
      BY <1>1, <1>5, AncestryIs DEF Extends
    <3> QED BY <1>1, <1>5, <2>1, <3>1, <3>2, FollowAbove
  <2>7. {y \in F : Extends(y, w)} = Follow(blocks, sb, w)
    BY <1>5, <2>6, FollowWithin
  <2>8. {y \in preferredIDs : Extends(y, w)} = {y \in F : Extends(y, w)}
    <3> HIDE DEF F
    <3> QED BY <2>3, <2>5 DEF Preferred, Extends
  <2>9. P = {y \in preferredIDs : Extends(y, w)}
    BY <1>1 DEF Extends
  <2> QED BY <1>7, <2>7, <2>8, <2>9
<1>10. stack' # {} => NextVoted = Top(stack') /\ NextVoted \in Children(x)
  BY <1>1, <1>2, NextIs DEF x
<1>11. ASSUME NextVoted # w, NEW y \in stack' PROVE y \notin Ancestry[w] /\ w \notin Ancestry[y]
  <2>1. /\ NextVoted \in Ancestry[y] /\ y \in Nodes
        /\ NextVoted \in IDs /\ ParentOf[NextVoted] = x
    BY Zenon, <1>1, <1>2, <1>5, <1>10, <1>11, NextIs, VotedIs DEF Children, Nodes
  <2>2. w \notin Ancestry[y]
    BY <1>1, <1>11, <2>1, Siblings
  <2>3. y \notin Ancestry[w]
    <3> SUFFICES ASSUME y \in Ancestry[w] PROVE FALSE
      OBVIOUS
    <3>1. NextVoted \in Ancestry[w] /\ w \in Ancestry[w]
      BY <1>5, <2>1, AncestryTransitive, AncestryIs
    <3> QED BY <1>1, <1>5, <1>11, <2>1, <3>1, Siblings
  <2> QED BY <2>2, <2>3
<1>12. stack' # {} /\ Top(stack') = lastAccepted' => NextVoted = w
  <2>1. CASE can
    BY <1>1, <1>2, <2>1, AcceptsNext DEF can, w
  <2>2. CASE ~can
    <3>1. a \in Ancestry[x]
      BY <1>1, BranchIs
    <3>2. NextVoted \in Children(x) => NextVoted \notin Ancestry[x]
      <4> SUFFICES ASSUME NextVoted \in Children(x) PROVE NextVoted \notin Ancestry[x]
        OBVIOUS
      <4>1. NextVoted \in IDs /\ ParentOf[NextVoted] = x
        BY <1>5 DEF Children, Nodes
      <4> QED BY <4>1, AncestryOfChild
    <3> QED BY <1>2, <1>10, <2>2, <3>1, <3>2
  <2> QED BY <2>1, <2>2
<1>13. /\ Preferred(newPreferred)' = P
       /\ BranchBelow(newPreferred)' = Follow(blocks', sb', w)
  BY <1>1 DEF Preferred, BranchBelow, Follow
<1> HIDE DEF P
<1> QED BY Zenon, <1>1, <1>8, <1>9, <1>10, <1>11, <1>12, <1>13 DEF PreferOK

(* The voted branch has left the preferred one: the poll is recorded       *)
(* elsewhere, and nothing is accepted.                                     *)
LEMMA VotePreferOff ==
  ASSUME PrefInv, TsVote, TsInv', ~onPreferredBranch
  PROVE  PreferOK'
<1> DEFINE a == lastAccepted
           x == Voted
           np == newPreferred
<1>1. /\ TsInv /\ VoteInv /\ StackOK /\ PreferOK /\ stack # {} /\ x \in blocks
      /\ newPreferred' = np /\ onPreferredBranch' = FALSE
  BY Zenon, VotePrefStep
<1>2. x # a
  BY <1>1 DEF PreferOK, Voted
<1>3. ~CanAccept(x, Recorded(x))
  BY <1>2 DEF CanAccept
<1>4. /\ stack' = Below /\ lastAccepted' = a /\ blocks' = blocks
      /\ UNCHANGED preferredIDs
  BY <1>1, <1>3, VoteStep, VotePrefStep
<1>5. x \in stack /\ x \notin Ancestry[np] /\ np \notin Ancestry[x]
  BY <1>1, VotedIs DEF PreferOK
<1>6. np \in BranchBelow(a) \cup {a} /\ np \in blocks
  BY <1>1 DEF PreferOK, BranchBelow, TsInv, RootOK
<1>7. np \in BranchBelow(lastAccepted)' \cup {a}
  BY <1>3, <1>5, <1>6, VoteKeepsPath
<1>8. Follow(blocks', sb', np) = Follow(blocks, sb, np)
  BY <1>4, <1>5, <1>6, VoteKeepsBranch
<1>9. /\ Preferred(newPreferred)' = Preferred(np)
      /\ BranchBelow(newPreferred)' = BranchBelow(np)
  BY Zenon, <1>1, <1>4, <1>8 DEF Preferred, BranchBelow, Follow
<1>10. stack' # {} => Top(stack') # a
  <2> SUFFICES ASSUME stack' # {} PROVE Top(stack') # a
    OBVIOUS
  <2>1. Top(stack') = NextVoted /\ NextVoted \in Below
    BY <1>1, <1>4, NextIs
  <2>2. a \in Ancestry[x]
    BY <1>1, BranchIs
  <2>3. NextVoted \notin Ancestry[x]
    BY <1>1, <2>1, VotedIs
  <2> QED BY <2>1, <2>2, <2>3
<1>11. \A y \in stack' : y \notin Ancestry[np] /\ np \notin Ancestry[y]
  BY <1>1, <1>4 DEF PreferOK, Below
<1>12. np \in preferredIDs \/ Preferred(np) # {} => Preferred(np) = BranchBelow(np)
  BY <1>1 DEF PreferOK
<1> HIDE DEF np
<1> QED BY <1>1, <1>4, <1>7, <1>9, <1>10, <1>11, <1>12 DEF PreferOK

(* A turn of vote keeps PrefInv. *)
LEMMA VotePref ==
  ASSUME PrefInv, TsVote, VoteInv'
  PROVE  PrefInv'
<1>1. TsInv'
  BY DEF VoteInv
<1>2. ChainOK'
  BY <1>1, VoteChain
<1>3. PreferOK'
  BY <1>1, VotePreferOn, VotePreferOff
<1>4. phase' = "vote" /\ onPreferredBranch' \in BOOLEAN
  BY VotePrefStep, VoteStep
<1> QED BY <1>2, <1>3, <1>4 DEF PrefInv, PreferredBranch

(* PrefInv holds after Initialize. *)
LEMMA PrefInitInv ==
  ASSUME TsInit
  PROVE  PrefInv
<1>1. VoteInv /\ phase = "idle" /\ onPreferredBranch = FALSE
  BY Zenon, VoteInitInv DEF TsInit
<1>2. BranchBelow(lastAccepted) = {}
  BY DEF TsInit, BranchBelow, Extends
<1>3. Children(preference) = {}
  BY DEF TsInit, Children
<1> QED BY Zenon, <1>1, <1>2, <1>3 DEF TsInit, PrefInv, PreferredBranch

(* Every step keeps PrefInv. *)
LEMMA PrefNextInv ==
  ASSUME PrefInv, [TsNext]_tsVars
  PROVE  PrefInv'
<1>1. VoteInv'
  BY VoteNextInv DEF PrefInv
<1>2. CASE \E x \in IDs : TsAdd(x)
  BY <1>2, TsAddPref
<1>3. CASE \E votes \in Votes : TsRecordPoll(votes)
  BY <1>3, RecordPollPref
<1>4. CASE TsVote
  BY <1>1, <1>4, VotePref
<1>5. CASE TsVoteFails
  BY <1>1, <1>5 DEF TsVoteFails, PrefInv, PreferredBranch
<1>6. CASE TsEndPoll
  BY <1>1, <1>6, EndPollPref
<1>7. CASE UNCHANGED tsVars
  <2>1. /\ UNCHANGED <<blocks, lastAccepted, sb, preference, preferredIDs, preferredHeights>>
        /\ UNCHANGED <<phase, stack, newPreferred, onPreferredBranch>>
    BY <1>7 DEF tsVars
  <2>2. /\ (\A x : Children(x)' = Children(x)) /\ (\A x : BranchBelow(x)' = BranchBelow(x))
        /\ \A x : Preferred(x)' = Preferred(x)
    BY <2>1 DEF Children, BranchBelow, Preferred
  <2>3. PreferredBranch' /\ (ChainOK' <=> ChainOK) /\ (PreferOK' <=> PreferOK)
    BY Zenon, <2>1, <2>2 DEF PrefInv, PreferredBranch, ChainOK, PreferOK
  <2> QED BY <1>1, <2>1, <2>3 DEF PrefInv
<1> QED BY <1>2, <1>3, <1>4, <1>5, <1>6, <1>7 DEF TsNext

(* RecordPoll and vote: PrefInv is inductive.                              *)
THEOREM PrefInvHolds == TsSpec => []PrefInv
<1>1. TsInit => PrefInv
  BY PrefInitInv
<1>2. PrefInv /\ [TsNext]_tsVars => PrefInv'
  BY PrefNextInv
<1> QED BY <1>1, <1>2, PTL DEF TsSpec

(* Between polls the preferred IDs and heights are the branch that follows *)
(* every tree's preference, and preference is its last block, although     *)
(* RecordPoll builds the branch again only when the voted block was not    *)
(* preferred before.                                                       *)
THEOREM SnowmanPreferredBranch == TsSpec => []PreferredBranch
<1>1. PrefInv => PreferredBranch
  BY DEF PrefInv
<1> QED BY <1>1, PrefInvHolds, PTL
=============================================================================
