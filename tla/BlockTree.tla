----------------------------- MODULE BlockTree -----------------------------
(***************************************************************************)
(* The blocks that the VM of a snowman chain hands to consensus.  They     *)
(* form a tree and their heights count its levels.                         *)
(***************************************************************************)
EXTENDS Snow

CONSTANTS
  Genesis,   \* the last accepted block at the start
  ParentOf, HeightOf,
  Ancestry   \* a block and the blocks it extends, down to Genesis

Nodes == IDs \cup {Genesis}

ASSUME BlocksAssumption ==
  /\ Genesis \notin IDs
  /\ ParentOf \in [IDs -> Nodes]
  /\ HeightOf \in [Nodes -> Nat]
  /\ Ancestry \in [Nodes -> SUBSET Nodes]
  /\ Ancestry[Genesis] = {Genesis}
  /\ \A x \in IDs : /\ HeightOf[x] = HeightOf[ParentOf[x]] + 1
                    /\ Ancestry[x] = {x} \cup Ancestry[ParentOf[x]]
                    /\ \A y \in Ancestry[ParentOf[x]] : HeightOf[y] < HeightOf[x]

NoVotes == [x \in IDs |-> 0]
=============================================================================
