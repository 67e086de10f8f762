----------------------------- MODULE MCRegistry -----------------------------
(***************************************************************************)
(* Instances of Registry for TLC.                                          *)
(***************************************************************************)
EXTENDS Registry

AnyCommand == {"add", "start", "pause", "resume", "cancel", "list_and_data"}
StartCommands == {"start", "data_only"}
PauseCommands == {"start", "pause"}
NoFile == {}
Stopped == {[id \in Ids |-> "stopped"]}
AllFaults == {"save", "quit"}
NoFaults == {}
=============================================================================
