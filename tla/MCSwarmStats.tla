---------------------------- MODULE MCSwarmStats ----------------------------
(***************************************************************************)
(* Instances of SwarmStats for TLC.                                        *)
(***************************************************************************)
EXTENDS SwarmStats, TLC

\* A piece whose last byte is zero.
ZeroTail == {<<0, 0>>}
PeerSymmetry == Permutations(Peers)
=============================================================================
