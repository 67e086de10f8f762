--------------------------- MODULE MCSeededSwarm ---------------------------
(***************************************************************************)
(* An instance of SeededSwarm for TLC.                                     *)
(***************************************************************************)
EXTENDS SeededSwarm

TwoThenOne == [i \in Pieces |-> IF i = 0 THEN 2 ELSE 1]
SeedBitfield == {Pieces}
NoIndex == {}
AllPieces == Pieces
PauseResume == {"Running", "Paused"}
=============================================================================
