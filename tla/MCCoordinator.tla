---------------------------- MODULE MCCoordinator ----------------------------
(***************************************************************************)
(* Instances of Coordinator for TLC.                                       *)
(***************************************************************************)
EXTENDS Coordinator, TLC

OneBlock == [i \in Pieces |-> 1]
TwoThenOne == [i \in Pieces |-> IF i = 0 THEN 2 ELSE 1]
SeedBitfield == {Pieces}
\* Together with a `have` of the last piece a peer may have any of two pieces.
FirstOrAll == {{0}, Pieces}
NoIndex == {}
LastAndPastEnd == {NumPieces - 1, NumPieces}
AllPieces == Pieces
NoPieces == {}
AnyControl == ControlState
OnlyPause == {"Paused"}
PeerSymmetry == Permutations(Peers)
=============================================================================
