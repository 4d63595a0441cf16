---------------------------- MODULE MCAgentTurn ----------------------------
(***************************************************************************)
(* A tool of every level and of every kind of effect, and a name no tool   *)
(* has; two files of one name in two directories.                          *)
(***************************************************************************)
EXTENDS AgentTurn

MCNames == {"read_file", "write_file", "delete_file", "create_directory",
            "restart_service", "vpn_revoke_user", "no_tool"}
MCLevel == [n \in MCNames |-> LevelOf(n)]
MCAsking == {"write_file", "create_directory", "delete_file", "restart_service"}

MCFileName == [p \in {"/etc/a/app.conf", "/etc/b/app.conf"} |-> "app.conf"]
=============================================================================
