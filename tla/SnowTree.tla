------------------------------ MODULE SnowTree ------------------------------
(***************************************************************************)
(* tree.go: the instances of a trie in a patricia tree.  A unary node      *)
(* stands for the instances of a range of bits on which all choices agree, *)
(* a binary node for one bit on which they differ.  A node that does not   *)
(* reach AlphaPreference is reset at once, what is below it only when a    *)
(* later poll comes through (shouldReset).                                 *)
(***************************************************************************)
EXTENDS Snow

CONSTANT TreeChoices  \* the IDs that compete

VARIABLES
  tree,   \* Tree: [node, shouldReset]
  trie,   \* what the tree is to do: the same calls made on a trie
  added,  \* the choices that Add was called with
  streak  \* for every choice, the polls in a row with AlphaConfidence for it

treeVars == <<tree, trie, added, streak>>

Nil == [kind |-> "nil"]

UnaryNode(choice, decided, common, snow, reset, child) ==
  [kind |-> "unary", preference |-> choice, decidedPrefix |-> decided,
   commonPrefix |-> common, snow |-> snow, shouldReset |-> reset, child |-> child]

Preference(n) == IF n.kind = "unary" THEN n.preference ELSE n.preferences[n.snow.pref]
DecidedPrefix(n) == IF n.kind = "unary" THEN n.decidedPrefix ELSE n.bit
Finalized(n) == n.snow.finalized

NewTree(choice) ==
  [node |-> UnaryNode(choice, 0, NumBits, NewInstance(0), FALSE, Nil), shouldReset |-> FALSE]

-----------------------------------------------------------------------------
(* The four ways unaryNode.Add splits a node on the bit at index, and the   *)
(* state of the new binary node's resets.                                   *)

SplitReset_Forgotten(u) == [bit \in {0, 1} |-> FALSE]

SplitReset(u) == [bit \in {0, 1} |-> u.shouldReset]

Split(u, newChoice, index) ==
  LET bit == IDBits[u.preference][index]
      newChild == UnaryNode(newChoice, index + 1, NumBits, NewInstance(0), FALSE, Nil)
      B(child) ==
        [kind |-> "binary", bit |-> index,
         preferences |-> [i \in {0, 1} |-> IF i = bit THEN u.preference ELSE newChoice],
         snow |-> [u.snow EXCEPT !.pref = bit],
         shouldReset |-> SplitReset(u),
         children |-> [i \in {0, 1} |-> IF i = bit THEN child
                                        ELSE IF child = Nil THEN Nil ELSE newChild]]
      rest == [u EXCEPT !.decidedPrefix = index + 1]
  IN  CASE u.decidedPrefix = u.commonPrefix - 1 -> B(u.child)
        [] u.decidedPrefix # u.commonPrefix - 1 /\ index = u.decidedPrefix -> B(rest)
        [] index # u.decidedPrefix /\ index = u.commonPrefix - 1 ->
             [u EXCEPT !.commonPrefix = index, !.child = B(u.child)]
        [] OTHER -> UnaryNode(u.preference, u.decidedPrefix, index, u.snow, FALSE, B(rest))

RECURSIVE NodeAdd(_, _)
NodeAdd(n, newChoice) ==
  IF n.kind = "unary"
  THEN LET differ == {i \in n.decidedPrefix..(n.commonPrefix - 1) :
                        IDBits[n.preference][i] # IDBits[newChoice][i]}
       IN  CASE Finalized(n) -> n
             [] ~Finalized(n) /\ differ # {} -> Split(n, newChoice, Min(differ))
             [] ~Finalized(n) /\ differ = {} ->
                  IF n.child = Nil THEN n ELSE [n EXCEPT !.child = NodeAdd(@, newChoice)]
  ELSE LET bit == IDBits[newChoice][n.bit]
       IN  IF n.children[bit] = Nil THEN n
           ELSE [n EXCEPT !.children[bit] = NodeAdd(@, newChoice)]

(* node.RecordPoll: self is the node as it is changed in place, node is    *)
(* what the call returns in its place.                                     *)
Returns(self, node) == [self |-> self, node |-> node]

(* What a node does to its own instance before it looks at the votes.      *)
ResetIf(n, reset) ==
  IF ~reset THEN n
  ELSE IF n.kind = "unary"
       THEN [n EXCEPT !.snow = Unsuccessful(@), !.shouldReset = TRUE]
       ELSE [n EXCEPT !.snow = Unsuccessful(@)]

RECURSIVE NodePoll(_, _, _, _)
NodePoll(n, votes, ids, reset) ==
  LET m == ResetIf(n, reset)
  IN
  IF n.kind = "unary"
  THEN LET numVotes == Count(votes, ids)
           failed == [m EXCEPT !.snow = Unsuccessful(@), !.shouldReset = TRUE]
           polled == [m EXCEPT !.snow = UnaryPoll(@, numVotes)]
           c == NodePoll(m.child, votes, ids, m.shouldReset)
           down == [polled EXCEPT !.child = c.self]
           passed == [down EXCEPT !.preference = Preference(c.self), !.shouldReset = FALSE]
           leaf == [polled EXCEPT !.shouldReset = FALSE]
       IN  CASE numVotes < AlphaPreference -> Returns(failed, failed)
             [] numVotes >= AlphaPreference /\ m.child = Nil -> Returns(leaf, leaf)
             [] numVotes >= AlphaPreference /\ m.child # Nil ->
                  IF Finalized(polled) THEN Returns(down, c.node) ELSE Returns(passed, passed)
  ELSE LET For(b) == {x \in ids : IDBits[x][n.bit] = b}
           bit == IF Count(votes, For(1)) >= AlphaPreference THEN 1 ELSE 0
           numVotes == Count(votes, For(bit))
           flagged == [m EXCEPT !.shouldReset = [b \in {0, 1} |-> b # bit \/ reset \/ @[b]]]
           failed == [flagged EXCEPT !.snow = Unsuccessful(@), !.shouldReset[bit] = TRUE]
           polled == [flagged EXCEPT !.snow = BinaryPoll(@, numVotes, bit)]
           c == NodePoll(m.children[bit], votes, For(bit), flagged.shouldReset[bit])
           down == [polled EXCEPT !.children[bit] = c.self]
           passed == [down EXCEPT !.preferences[bit] = Preference(c.node),
                                  !.shouldReset[bit] = FALSE]
           leaf == [polled EXCEPT !.shouldReset[bit] = FALSE]
       IN  CASE numVotes < AlphaPreference -> Returns(failed, failed)
             [] numVotes >= AlphaPreference /\ m.children[bit] = Nil -> Returns(leaf, leaf)
             [] numVotes >= AlphaPreference /\ m.children[bit] # Nil ->
                  IF Finalized(polled) THEN Returns(down, c.node) ELSE Returns(passed, passed)

-----------------------------------------------------------------------------
TreeInit ==
  \E x \in TreeChoices :
    /\ tree = NewTree(x)
    /\ trie = NewTrie(x)
    /\ added = {x}
    /\ streak = [y \in TreeChoices |-> 0]

TreeAdd(x) ==
  /\ x \notin added
  /\ added' = added \cup {x}
  /\ tree' = IF EqualSubset(0, DecidedPrefix(tree.node), Preference(tree.node), x)
             THEN [tree EXCEPT !.node = NodeAdd(@, x)]
             ELSE tree
  /\ trie' = TrieAdd(trie, x)
  /\ UNCHANGED streak

TreePoll(votes) ==
  LET valid == {x \in DOMAIN votes :
                  EqualSubset(0, DecidedPrefix(tree.node), Preference(tree.node), x)}
  IN  /\ tree' = [node |-> NodePoll(tree.node, votes, valid, tree.shouldReset).node,
                  shouldReset |-> FALSE]
      /\ trie' = TriePoll(trie, votes)
      /\ streak' = [x \in TreeChoices |->
                      IF x \in DOMAIN votes /\ votes[x] >= AlphaConfidence
                      THEN IF streak[x] < Beta THEN streak[x] + 1 ELSE Beta
                      ELSE 0]
      /\ UNCHANGED added

TreeUnsuccessfulPoll ==
  /\ tree' = [tree EXCEPT !.shouldReset = TRUE]
  /\ trie' = TrieUnsuccessful(trie)
  /\ streak' = [x \in TreeChoices |-> 0]
  /\ UNCHANGED added

TreeNext ==
  \/ \E x \in TreeChoices : TreeAdd(x)
  \/ \E votes \in [added -> 0..K] : Count(votes, added) <= K /\ TreePoll(votes)
  \/ TreeUnsuccessfulPoll

TreeSpec == TreeInit /\ [][TreeNext]_treeVars

-----------------------------------------------------------------------------
(* The tree prefers, and finalizes, what one snowflake instance for every  *)
(* bit would: sharing instances, splitting a node with its counters        *)
(* (unaryNode.Add) and putting resets off (shouldReset) change nothing.    *)
TreeMatchesTrie ==
  /\ Preference(tree.node) = TriePreference(trie)
  /\ Finalized(tree.node) = TrieFinalized(trie)

(* When RecordPoll finalizes the tree, the last Beta polls in a row gave   *)
(* AlphaConfidence votes to the choice it is finalized on.                 *)
FinalizedByBeta ==
  [][~Finalized(tree.node) /\ Finalized(tree.node)'
       => streak'[Preference(tree.node)'] >= Beta]_treeVars
=============================================================================
