-------------------------- MODULE MCReceiveMessage --------------------------
EXTENDS ReceiveMessage, TLC

CONSTANTS l1, l2

(* Message 1 is sent before message 2.                                     *)
InOrder == [m \in Message |-> m]
LaneSymmetry == Permutations(Lane)
=============================================================================
