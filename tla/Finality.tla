------------------------------ MODULE Finality ------------------------------
(***************************************************************************)
(* What snowman consensus promises the VM about the blocks it is given:    *)
(* it accepts one chain, block after block, and rejects a block only when  *)
(* it accepts one that conflicts with it.  A decision is never revised.    *)
(***************************************************************************)
CONSTANTS
  Genesis,    \* the block that was the last accepted one at the start
  Candidates, \* all other blocks
  ParentOf,
  Ancestry    \* a block and the blocks it extends, down to Genesis

VARIABLES last, accepted, rejected

decisions == <<last, accepted, rejected>>

Conflicts(x, y) == x \notin Ancestry[y] /\ y \notin Ancestry[x]

FinalityInit == last = Genesis /\ accepted = {} /\ rejected = {}

Decide(x) ==
  /\ x \notin accepted \cup rejected
  /\ ParentOf[x] = last
  /\ last' = x
  /\ accepted' = accepted \cup {x}
  /\ rejected \subseteq rejected'
  /\ rejected' \subseteq Candidates \ accepted'
  /\ \A y \in rejected' \ rejected : Conflicts(x, y)

FinalityNext == \E x \in Candidates : Decide(x)

FinalitySpec == FinalityInit /\ [][FinalityNext]_decisions
=============================================================================
