------------------------------- MODULE Ledger -------------------------------
(***************************************************************************)
(* What the block DAG promises, with no pool, lock, round or goroutine: a  *)
(* set of known blocks that grows one block at a time, each on parents     *)
(* that are known already, and a set of accepted blocks that grows by      *)
(* whole sets of blocks whose parents are accepted with them or before     *)
(* them.  Nothing is ever forgotten.  Blocks stand for their IDs.          *)
(***************************************************************************)
CONSTANTS Root,          \* the genesis block
          ParentsOf(_)   \* the parents a block ID commits to

VARIABLES known, accepted

vars == <<known, accepted>>

Init == known = {Root} /\ accepted = {Root}

(* A block, known or not, is added on known parents. *)
Add ==
  /\ \E id \in known' :
       /\ ParentsOf(id) \subseteq known
       /\ known' = known \cup {id}
  /\ UNCHANGED accepted

(* A set of known blocks is accepted, parents included. *)
Accept ==
  /\ \E S \in SUBSET known :
       /\ accepted' = accepted \cup S
       /\ \A id \in S : ParentsOf(id) \subseteq accepted \cup S
  /\ UNCHANGED known

Next == Add \/ Accept

Spec == Init /\ [][Next]_vars
=============================================================================
