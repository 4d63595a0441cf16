------------------------- MODULE MCCommandExecutor -------------------------
(***************************************************************************)
(* The bounds are in the configurations.                                   *)
(***************************************************************************)
EXTENDS CommandExecutor
=============================================================================
