------------------------------ MODULE Sandbox ------------------------------
(***************************************************************************)
(* coding/sandbox.py, coding/tester.py and the tools of                    *)
(* ai/tools/tester_tools.py that run something in a project: the docker    *)
(* client is a program of the bot, the container is the daemon's, and      *)
(* either may outlive the other.                                           *)
(*                                                                         *)
(* A step is one call of the client, the chown in its thread, or one step  *)
(* of the daemon (outside this repository, modelled by what the code asks  *)
(* of it).  The names of containers are random, so every turn has its own; *)
(* the model lets a turn whose container has survived start no other.      *)
(***************************************************************************)
EXTENDS ProjectFiles

CONSTANT Rooted  \* the bot runs as root, as it does in its container

ASSUME SandboxAssumption == Rooted \in BOOLEAN

VARIABLES
  spc,      \* what run_in_sandbox awaits
  task,     \* what is run
  ctr,      \* the container: not asked for, asked for, there, gone
  removal,  \* history: what docker rm -f did about one that is still there
  broken,   \* history: of these, whose client ended without being answered
  outlived  \* history: of these, whose run a crash of the bot cut off

sandbox == <<spc, task, ctr, removal, broken, outlived>>

(* "check": run_tests, run_build or run_project, whose success is kept as  *)
(* the status; run_linter is one whose success is not.  "format": the      *)
(* formatter, and install_dependency, which writes as well. *)
Tasks == {"check", "format"}

SandboxTypeOK ==
  /\ spc \in [Turns -> {"idle", "chown", "client", "cleanup", "ok"}]
  /\ task \in [Turns -> Tasks]
  /\ ctr \in [Turns -> {"none", "asked", "up", "gone"}]
  /\ removal \in [Turns -> {"none", "failed", "early"}]
  /\ broken \subseteq Turns /\ outlived \subseteq Turns

SandboxInit ==
  /\ spc = [t \in Turns |-> "idle"] /\ task = [t \in Turns |-> "check"]
  /\ ctr = [t \in Turns |-> "none"]
  /\ removal = [t \in Turns |-> "none"] 
  /\ broken = {} /\ outlived = {}

-----------------------------------------------------------------------------
(* run_in_sandbox                                                          *)

In(t, pc) == spc[t] = pc
Goes(t, pc) == spc' = [spc EXCEPT ![t] = pc]
Container(t, c) == ctr' = [ctr EXCEPT ![t] = c]

Forgets(t) ==
  /\ removal' = [removal EXCEPT ![t] = "none"]
  /\ broken' = broken \ {t} /\ outlived' = outlived \ {t}

(* The image is looked for first.  Where it is missing, or docker does not *)
(* answer in time, nothing happens at all. *)
StartTask(t, k) ==
  /\ In(t, "idle") /\ present /\ ctr[t] \in {"none", "gone"}
  /\ Goes(t, "chown") /\ Container(t, "none")
  /\ task' = [task EXCEPT ![t] = k]
  /\ Forgets(t)
  /\ UNCHANGED files

(* What cannot be handed over is skipped; then docker run is started. *)
Chown(t) ==
  /\ In(t, "chown")
  /\ IF Rooted THEN owner' \in {owner, "sandbox"} ELSE UNCHANGED owner
  /\ Goes(t, "client") /\ Container(t, "asked")
  /\ UNCHANGED <<present, work, made, undone, task, removal, broken, outlived>>

(* The client waits until --rm has removed the container.  A run that has  *)
(* succeeded goes on to the status of the project, where it has one. *)
ClientReturns(t) ==
  /\ In(t, "client") /\ ctr[t] = "gone"
  /\ Goes(t, "idle") \/ (task[t] = "check" /\ Goes(t, "ok"))
  /\ UNCHANGED <<files, task, ctr, removal, broken, outlived>>

(* The daemon refuses, or the client cannot reach it; or the client ends   *)
(* with an error, or the executor raises, while the daemon goes on.  None  *)
(* of these is a timeout, and nothing is removed. *)
ClientFails(t) ==
  /\ In(t, "client")
  /\ \/ ctr[t] = "asked" /\ Container(t, "none") /\ UNCHANGED broken
     \/ ctr[t] \in {"asked", "up"} /\ broken' = broken \union {t} /\ UNCHANGED ctr
  /\ Goes(t, "idle")
  /\ UNCHANGED <<files, task, removal, outlived>>

(* Bug: a client that was killed is taken for a run that has ended. *)
TimesOutAndReturns(t) ==
  /\ In(t, "client")
  /\ Goes(t, "idle")
  /\ UNCHANGED <<files, task, ctr, removal, broken, outlived>>

(* The executor has killed the client and says so. *)
ClientTimesOut(t) ==
  /\ In(t, "client")
  /\ Goes(t, "cleanup")
  /\ UNCHANGED <<files, task, ctr, removal, broken, outlived>>

(* docker rm -f, whose outcome nobody reads: a container that is still to  *)
(* be made is not found, and one that is there may resist. *)
Cleanup(t) ==
  /\ In(t, "cleanup")
  /\ \/ ctr[t] \in {"up", "gone"} /\ Container(t, "gone") /\ UNCHANGED removal
     \/ ctr[t] = "asked" /\ removal' = [removal EXCEPT ![t] = "early"] /\ UNCHANGED ctr
     \/ ctr[t] = "up" /\ removal' = [removal EXCEPT ![t] = "failed"] /\ UNCHANGED ctr
  /\ Goes(t, "idle")
  /\ UNCHANGED <<files, task, broken, outlived>>

-----------------------------------------------------------------------------
(* The daemon                                                              *)

DaemonStarts(t) ==
  /\ ctr[t] = "asked"
  /\ Container(t, "up")
  /\ UNCHANGED <<files, spc, task, removal, broken, outlived>>

(* ruff format, npm install and their like. *)
ProgramWrites(t) ==
  /\ ctr[t] = "up" /\ task[t] = "format"
  /\ Change
  /\ UNCHANGED sandbox

ContainerEnds(t) ==
  /\ ctr[t] = "up"
  /\ Container(t, "gone")
  /\ Forgets(t)
  /\ UNCHANGED <<files, spc, task>>

SandboxStart(t) == \E k \in Tasks : StartTask(t, k)

SandboxStep(t) ==
  \/ Chown(t) \/ ClientReturns(t) \/ ClientFails(t) \/ ClientTimesOut(t) \/ Cleanup(t)

DaemonStep(t) == DaemonStarts(t) \/ ProgramWrites(t) \/ ContainerEnds(t)

-----------------------------------------------------------------------------
(* Properties                                                              *)

(* "--rm and forced removal on timeout" (sandbox.py:8): nothing of a run   *)
(* is left in docker once the tool has answered, and so nothing goes on    *)
(* writing to the project, except where docker rm itself came too early or *)
(* failed, which nobody notices (sandbox.py:127), where the client or the  *)
(* executor broke off without a timeout (sandbox.py:122), or where the bot *)
(* was stopped during the run (nothing removes such containers at the next *)
(* start). *)
SurvivorNeedsFailedRemoval ==
  \A t \in Turns :
    (In(t, "idle") /\ ctr[t] \in {"asked", "up"}) =>
      removal[t] \in {"failed", "early"} \/ t \in broken \union outlived

(* "The timeout is exceeded, the container is destroyed" (sandbox.py:141): *)
(* once that was said, no container is left. *)
DestroyedAsSaid ==
  \A t \in Turns : removal[t] # "none" => ctr[t] \in {"none", "gone"}
=============================================================================
