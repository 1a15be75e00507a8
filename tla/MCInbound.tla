------------------------------ MODULE MCInbound ------------------------------
(***************************************************************************)
(* The inbound path of a node for one chain and two peers: v1 is a         *)
(* validator, u1 is not.                                                   *)
(***************************************************************************)
EXTENDS Peering

CONSTANTS v1, u1, w1

MCStake == [p \in Peers |-> IF p = v1 THEN 1 ELSE 0]
=============================================================================
