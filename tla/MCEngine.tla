------------------------------ MODULE MCEngine ------------------------------
(***************************************************************************)
(* The engine of a snowman chain, and the polls it keeps.  Block b1 is an  *)
(* oracle with b4 as its option, b2 and b3 are other children of it; b3 is *)
(* left to the polls, which need three siblings to have a proper prefix.   *)
(* A behaviour follows the engine or the polls, never both.                *)
(***************************************************************************)
EXTENDS SnowmanEngine, Polls

CONSTANTS b1, b2, b3, b4, v1, v2, v3, v4, v5

VARIABLE part

MCIDBits == [x \in IDs |-> [i \in Bits |->
  CASE x = b1 -> 0
    [] x = b2 -> IF i = 2 THEN 1 ELSE 0
    [] x = b3 -> IF i = 0 THEN 0 ELSE 1
    [] x = b4 -> IF i = 0 THEN 1 ELSE 0]]
MCParentOf == [x \in IDs |-> IF x = b1 THEN Genesis ELSE b1]
MCHeightOf == [x \in Nodes |-> CASE x = Genesis -> 0 [] x = b1 -> 1 [] OTHER -> 2]
MCAncestry == [x \in Nodes |-> {x, Genesis} \cup IF x = Genesis THEN {} ELSE {b1}]
MCOptionsOf == [x \in IDs |-> IF x = b1 THEN {b4} ELSE {}]

(* The first poll drew one validator every time, the second drew all. *)
MCSampleOf == [r \in 1..MaxPolls |-> [v \in Validators |->
  IF r = 2 THEN 1 ELSE IF v = v1 THEN K ELSE 0]]

MCInit == EnInit /\ PollsInit /\ part \in {"engine", "polls"}
            /\ (part = "engine" => known = {})

MCNext ==
  /\ UNCHANGED part
  /\ \/ part = "engine" /\ EnNext /\ UNCHANGED pollVars
     \/ part = "polls" /\ PollsNext /\ UNCHANGED enVars

MCSpec ==
  /\ MCInit /\ [][MCNext]_<<enVars, pollVars, part>>
  /\ EnFairness
=============================================================================
