----------------------------- MODULE MCSnowman -----------------------------
(***************************************************************************)
(* Snowman consensus on four blocks: b1, b2 and b4 conflict and b3 extends *)
(* b4.  The same IDs are the choices of one snowflake tree.                *)
(* A behaviour follows the tree or the chain, never both.                  *)
(***************************************************************************)
EXTENDS SnowTree, Topological

CONSTANTS b1, b2, b3, b4

VARIABLE part

(* b1 and b2 differ in the last bit, b3 in the one before, b4 in the       *)
(* first: the tree of Genesis can decide against b4, and so against what   *)
(* extends it, and still have to choose between b1 and b2.                 *)
MCIDBits == [x \in IDs |-> [i \in Bits |->
  CASE x = b1 -> 0
    [] x = b2 -> IF i = NumBits - 1 THEN 1 ELSE 0
    [] x = b3 -> IF i = NumBits - 2 THEN 1 ELSE 0
    [] x = b4 -> IF i = 0 THEN 1 ELSE 0]]
MCParentOf == [x \in IDs |-> IF x = b3 THEN b4 ELSE Genesis]
MCHeightOf == [x \in Nodes |-> CASE x = Genesis -> 0 [] x = b3 -> 2 [] OTHER -> 1]
MCAncestry == [x \in Nodes |-> {x, Genesis} \cup IF x = Genesis THEN {} ELSE {MCParentOf[x]}]

MCInit == TreeInit /\ TsInit /\ part \in {"tree", "chain"}
            /\ (part = "chain" => added = {b1})

MCNext ==
  /\ UNCHANGED part
  /\ \/ part = "tree" /\ TreeNext /\ UNCHANGED tsVars
     \/ part = "chain" /\ TsNext /\ UNCHANGED treeVars

MCSpec == MCInit /\ [][MCNext]_<<treeVars, tsVars, part>>
=============================================================================
