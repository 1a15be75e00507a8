---------------------------- MODULE MCBlockchain ----------------------------
EXTENDS Blockchain, TLC

(* Clients run the same handler, and loops the same rounds.                *)
NodeSymmetry == Permutations(Clients) \cup Permutations(Loops)
=============================================================================
