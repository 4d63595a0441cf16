--------------------------- MODULE ToolCatalogue ---------------------------
(***************************************************************************)
(* The tools the model is offered (app/di.py and the ToolSpecs of          *)
(* ai/tools), by what their handlers do, and the security level of each:   *)
(* a name that is neither moderate nor critical is SAFE, and a SAFE tool   *)
(* is run as soon as the model uses it.                                    *)
(***************************************************************************)

CONSTANTS
  VpnToken,  \* VPN_ADMIN_API_TOKEN is set
  SearchKey  \* TAVILY_API_KEY is set

ASSUME CatalogueAssumption == VpnToken \in BOOLEAN /\ SearchKey \in BOOLEAN

-----------------------------------------------------------------------------
(* What the handlers do                                                    *)

(* Nothing is changed: psutil, a program that reads, a directory, a file.  *)
ServerReading ==
  {"get_uptime", "get_cpu_usage", "get_system_info", "get_ram_usage",
   "get_disk_usage", "get_disk_details", "get_processes", "get_network_info",
   "get_service_status", "get_service_logs", "get_system_logs", "search_logs",
   "list_directory", "find_file", "read_file", "full_server_diagnostic"}

ServiceTools == {"start_service", "stop_service", "restart_service"}
FileTools    == {"write_file", "delete_file", "create_directory"}

(* The validators of a white list; a program; a command of the shell. *)
ConfigTools  == {"validate_config"}
ProgramTools == {"execute_command", "execute_shell"}

DockerReading  == {"docker_ps", "docker_stats", "docker_logs", "docker_inspect"}
DockerChanging == {"docker_start", "docker_stop", "docker_restart", "docker_exec"}

VpnReading  == {"vpn_stats", "vpn_list_users", "vpn_get_user",
                "vpn_list_requests", "vpn_audit_log"}
VpnChanging == {"vpn_grant_days", "vpn_reset_traffic", "vpn_decide_request",
                "vpn_revoke_user"}

(* Without the token of the service its tools do not exist. *)
VpnTools == IF VpnToken THEN VpnReading \union VpnChanging ELSE {}

(* Requests to services that only answer. *)
InfoTools == {"get_exchange_rates", "get_crypto_prices", "get_weather"}
WebTools  == IF SearchKey THEN {"web_search"} ELSE {}

(* The project in the workspace, its row, its git, its containers. *)
CodeTools ==
  {"list_projects", "create_project", "list_project_files", "read_code_file",
   "write_code_file", "edit_code_file", "delete_code_file",
   "create_project_directory", "search_code", "find_code_references"}
GitTools ==
  {"git_status", "git_diff", "git_log", "git_init", "git_create_branch",
   "git_checkout", "git_commit"}
TesterTools ==
  {"run_tests", "run_linter", "run_formatter", "run_build",
   "install_dependency", "run_project"}
DeployTools == {"review_project", "prepare_deployment", "deploy_project"}

RuleTools ==
  {"create_monitoring_rule", "list_monitoring_rules",
   "delete_monitoring_rule", "set_monitoring_rule_enabled"}

(* A copy of a file of the workspace goes to the chat. *)
SendTools == {"send_file_to_chat"}

-----------------------------------------------------------------------------
(* build_tool_registry                                                     *)

Registered ==
  UNION {ServerReading, ServiceTools, FileTools, ConfigTools, ProgramTools,
         DockerReading, DockerChanging, RuleTools, CodeTools, TesterTools,
         GitTools, DeployTools, WebTools, InfoTools, SendTools, VpnTools}

Critical ==
  {"execute_shell", "docker_exec", "vpn_revoke_user", "deploy_project"}

Moderate ==
  ((ServiceTools \union DockerChanging \union VpnChanging) \ Critical)
  \union {"delete_file", "execute_command", "create_monitoring_rule",
          "delete_monitoring_rule", "set_monitoring_rule_enabled", "delete_code_file",
          "install_dependency", "run_project", "prepare_deployment", "git_init",
          "git_create_branch", "git_checkout", "git_commit"}

LevelOf(name) ==
  CASE name \notin Registered -> "none"
    [] name \in Critical      -> "critical"
    [] name \in Moderate      -> "moderate"
    [] OTHER                  -> "safe"
=============================================================================
