----------------------------- MODULE MCDesktop ------------------------------
(***************************************************************************)
(* An instance of Desktop for TLC.                                         *)
(***************************************************************************)
EXTENDS Desktop

Buttons == {"add", "start", "toggle", "pause", "resume", "list_and_data"}
NoFile == {}
NoFaults == {}
=============================================================================
