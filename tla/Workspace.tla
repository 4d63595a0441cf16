----------------------------- MODULE Workspace -----------------------------
(***************************************************************************)
(* One project of the code workspace and the tools that work on it at the  *)
(* same time: the files, git, the sandbox, the deployment and the row of   *)
(* the registry (coding/workspace.py, ai/tools/code_tools.py).  Nothing    *)
(* keeps two turns out of the same project; a turn runs one tool at a      *)
(* time.  Reads and writes of files are synchronous, so each is a part of  *)
(* the step that makes it; a select and the write it leads to are two.     *)
(***************************************************************************)
EXTENDS GitRepo, Sandbox, Deployment

CONSTANT MaxStarts  \* bound on the starts of tools, and of the bot again

ASSUME WorkspaceAssumption == MaxStarts \in Nat

VARIABLES
  row,      \* the status in the registry; "none": there is no row
  rpc,      \* the statement a turn awaits
  sets,     \* the status it is going to set
  starts    \* how many there were

registry == <<row, rpc, sets, starts>>
vars == <<files, git, sandbox, deployment, registry>>

Outcomes == {"tests_passed", "build_ok", "runs_ok", "deployed", "deploy_failed"}
Statuses == {"created"} \union Outcomes

RegistryTypeOK ==
  /\ row \in Statuses \union {"none"}
  /\ rpc \in [Turns -> {"idle", "find", "insert", "update"}]
  /\ sets \in [Turns -> Statuses]
  /\ starts \in 0..MaxStarts

(* The variables hold what they are meant to hold, and a turn awaits one   *)
(* program, client or statement at a time (the tools of one answer of the  *)
(* model are run one after the other). *)
TypeOK ==
  /\ FilesTypeOK /\ GitTypeOK /\ SandboxTypeOK /\ DeploymentTypeOK /\ RegistryTypeOK
  /\ \A t \in Turns :
       LET busy == {pc \in {"git", "sandbox", "deployment", "registry"} :
                      CASE pc = "git"        -> gpc[t] # "idle"
                        [] pc = "sandbox"    -> spc[t] # "idle"
                        [] pc = "deployment" -> dpc[t] # "idle"
                        [] pc = "registry"   -> rpc[t] # "idle"}
       IN \A a, b \in busy : a = b

(* No project, or one that was worked on before; one that was copied to by *)
(* hand has no row. *)
Init ==
  /\ FilesInit /\ GitInit /\ SandboxInit /\ DeploymentInit
  /\ row = "none" \/ (present /\ row = "created")
  /\ artifacts = present /\ (cont = "up" => row = "created")
  /\ rpc = [t \in Turns |-> "idle"]
  /\ sets = [t \in Turns |-> "created"]
  /\ starts = 0

(* Bug: the tools of one answer are started without waiting for the        *)
(* registry. *)
FreeOfPrograms(t) == gpc[t] = "idle" /\ spc[t] = "idle" /\ dpc[t] = "idle"

Free(t) == gpc[t] = "idle" /\ spc[t] = "idle" /\ dpc[t] = "idle" /\ rpc[t] = "idle"

-----------------------------------------------------------------------------
(* The registry                                                            *)

Stays == UNCHANGED <<git, sandbox, deployment>>

Await(t, pc) == rpc' = [rpc EXCEPT ![t] = pc]

(* create_project: mkdir and what it puts there, then                      *)
(* _sync_project_registry.  A directory that exists is refused. *)
CreateProject(t) ==
  /\ ~present
  /\ present' = TRUE
  /\ Await(t, "find")
  /\ UNCHANGED <<work, made, undone, owner, row, sets>> /\ Stays

(* write_code_file; a tree that is full, which the bound makes, is         *)
(* overwritten with what it holds. *)
WriteCode(t) ==
  /\ present
  /\ Change \/ UNCHANGED files
  /\ Await(t, "find")
  /\ UNCHANGED <<row, sets>> /\ Stays

(* edit_code_file, delete_code_file, create_project_directory: no row is   *)
(* looked for. *)
EditCode(t) ==
  /\ Change
  /\ UNCHANGED <<row, rpc, sets>> /\ Stays

(* _sync_project_registry: the select and the insert. *)
Find(t) ==
  /\ rpc[t] = "find"
  /\ Await(t, IF row = "none" THEN "insert" ELSE "idle")
  /\ UNCHANGED <<files, row, sets, starts>> /\ Stays

(* Bug: the insert replaces what another turn has put there. *)
Replace(t) ==
  /\ rpc[t] = "insert"
  /\ row' = "created"
  /\ Await(t, "idle")
  /\ UNCHANGED <<files, sets, starts>> /\ Stays

(* The name is unique: the later of two inserts raises, and the tool       *)
(* reports an error although the file was written. *)
Insert(t) ==
  /\ rpc[t] = "insert"
  /\ row' = IF row = "none" THEN "created" ELSE row
  /\ Await(t, "idle")
  /\ UNCHANGED <<files, sets, starts>> /\ Stays

(* What a tool may have come to that is kept as the status. *)
OutcomesOf(t) ==
  CASE spc[t] = "ok"        -> {"tests_passed", "build_ok", "runs_ok"}
    [] dpc[t] = "healthy"   -> {"deployed"}
    [] dpc[t] = "unhealthy" -> {"deploy_failed"}
    [] OTHER -> {}

(* _set_status after a run, set_project_status after the probes: the       *)
(* select.  A project without a row has no status, and an attribute that   *)
(* is given the value it has is not written. *)
Select(t) ==
  /\ Goes(t, "idle") /\ Awaits(t, "idle")
  /\ \E outcome \in OutcomesOf(t) :
       IF row \in {"none", outcome} THEN UNCHANGED <<rpc, sets>>
       ELSE Await(t, "update") /\ sets' = [sets EXCEPT ![t] = outcome]
  /\ UNCHANGED <<files, git, row, starts, task, ctr, removal, broken, outlived>>
  /\ UNCHANGED <<artifacts, image, cont, served, tries, builder, told, lost>>

Update(t) ==
  /\ rpc[t] = "update"
  /\ row' = sets[t] /\ sets' = [sets EXCEPT ![t] = "created"]
  /\ Await(t, "idle")
  /\ UNCHANGED <<files, starts>> /\ Stays

RegistryStep(t) == Find(t) \/ Insert(t) \/ Select(t) \/ Update(t)

-----------------------------------------------------------------------------
(* The tools and the turns                                                 *)

StartTool(t) ==
  /\ Free(t) /\ starts < MaxStarts /\ starts' = starts + 1
  /\ \/ GitStart(t) /\ UNCHANGED <<sandbox, deployment, row, rpc, sets>>
     \/ SandboxStart(t) /\ UNCHANGED <<git, deployment, row, rpc, sets>>
     \/ DeploymentStart(t) /\ UNCHANGED <<git, sandbox, row, rpc, sets>>
     \/ CreateProject(t) \/ WriteCode(t) \/ EditCode(t)

ToolStep(t) ==
  \/ GitStep(t) /\ UNCHANGED <<sandbox, deployment, registry>>
  \/ SandboxStep(t) /\ UNCHANGED <<git, deployment, registry>>
  \/ DeploymentStep(t) /\ UNCHANGED <<git, sandbox, registry>>
  \/ RegistryStep(t)

Daemon ==
  \/ \E t \in Turns : DaemonStep(t) /\ UNCHANGED <<git, deployment, registry>>
  \/ (ContainerDies \/ ContainerRestarts) /\ UNCHANGED <<git, sandbox, registry>>

(* The bot is stopped and started again: what was awaited is lost, what    *)
(* the daemon was told goes on. *)
Crash ==
  /\ starts < MaxStarts /\ starts' = starts + 1
  /\ \E t \in Turns : ~Free(t)
  /\ gpc' = [t \in Turns |-> "idle"]
  /\ outlived' = outlived \union {t \in Turns : In(t, "client") \/ In(t, "cleanup")}
  /\ spc' = [t \in Turns |-> "idle"]
  /\ lost' = (lost \/ \E t \in Turns : dpc[t] = "start" /\ cont # "up")
  /\ dpc' = [t \in Turns |-> "idle"]
  /\ rpc' = [t \in Turns |-> "idle"] /\ sets' = [t \in Turns |-> "created"]
  /\ tries' = [t \in Turns |-> 0]
  /\ UNCHANGED <<files, repo, head, tips, commits, index, reports, seen, switched, misled>>
  /\ UNCHANGED <<task, ctr, removal, broken>>
  /\ UNCHANGED <<artifacts, image, cont, served, builder, told>>
  /\ UNCHANGED row

Next == Daemon \/ Crash \/ \E t \in Turns : StartTool(t) \/ ToolStep(t)

Spec == Init /\ [][Next]_vars

-----------------------------------------------------------------------------
(* Properties                                                              *)

(* A project that is registered never goes back to "created", however the  *)
(* select of one turn and the write of another interleave: write_code_file *)
(* looks for the row again after every file (code_tools.py:75-81). *)
ProgressIsKept == [][row # "none" => row' \in {row} \union Outcomes]_row
=============================================================================
