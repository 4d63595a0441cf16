----------------------------- MODULE AgentTurn -----------------------------
(***************************************************************************)
(* A turn with what its tools do to the server: AgentLoop decides when a   *)
(* tool is run, ToolCatalogue gives the levels and what the handlers do,   *)
(* ServerFiles and RemoteActions are what they do it to.  A tool is        *)
(* awaited before the loop goes on, so it is a part of the loop's step.    *)
(*                                                                         *)
(* What the tools of the workspace do is modelled in Workspace, those of   *)
(* the rules in MonitorWorker; here they, and the ones that only read,     *)
(* leave everything as it is.                                              *)
(***************************************************************************)
EXTENDS AgentLoop, ToolCatalogue, ServerFiles, RemoteActions

ASSUME TurnAssumption == Level = [n \in Names |-> LevelOf(n)]

effects  == <<storage, remote>>
turnVars == <<vars, effects>>

TurnTypeOK == TypeOK /\ FilesTypeOK /\ RemoteTypeOK

TurnInit == Init /\ FilesInit /\ RemoteInit

-----------------------------------------------------------------------------
(* What the handler of a tool does                                         *)

FileEffect(tool) ==
  \E p \in Paths :
    \/ tool = "write_file" /\ WriteFile(p)
    \/ tool = "delete_file" /\ DeleteFile(p)
    \/ tool = "create_directory" /\ CreateDirectory(p)

VpnEffect(tool) == tool \in VpnChanging /\ VpnRequest

CommandEffect(tool) ==
  tool \in ServiceTools \union DockerChanging \union ProgramTools /\ Command

ActingTools ==
  FileTools \union ServiceTools \union DockerChanging \union ProgramTools \union VpnChanging

LooksOnly(tool) ==
  tool \notin ActingTools /\ UNCHANGED <<storage, flying, applied, told>>

Effect(tool) ==
  \/ FileEffect(tool) /\ UNCHANGED <<flying, applied, told>>
  \/ (VpnEffect(tool) \/ CommandEffect(tool)) /\ UNCHANGED storage
  \/ LooksOnly(tool)

(* A tool that is not run has refused: wrong parameters, a path that is    *)
(* not allowed, a directory in place of a file, the deny-list, a rate      *)
(* limit, a service without an answer of any kind. *)
IfRun(position) ==
  IF runs' # runs THEN Effect(uses[position])
  ELSE UNCHANGED <<storage, flying, applied, told>>

-----------------------------------------------------------------------------
(* The turn                                                                *)

TurnRunSafe == RunSafe /\ IfRun(Now) /\ UNCHANGED pressed

(* The steps of the loop that run nothing. *)
TurnGoesOn ==
  /\ (\E us \in Responses : Respond(us)) \/ Answer \/ RefuseUnknown \/ AskUser \/ RefuseSecond \/ EndRound
  /\ UNCHANGED effects

TurnResume(approved) ==
  /\ Resume(approved) /\ IfRun(pending)
  /\ pressed' = IF approved THEN pressed + 1 ELSE pressed

(* The rest of the server. *)
Elsewhere ==
  /\ \/ (NextSecond \/ \E p \in Paths : EditOutside(p)) /\ UNCHANGED remote
     \/ Settle /\ UNCHANGED storage
  /\ UNCHANGED vars

TurnStep == TurnRunSafe \/ TurnGoesOn

TurnNext ==
  \/ TurnStep
  \/ \E approved \in BOOLEAN : TurnResume(approved)
  \/ Elsewhere

(* The turn is one coroutine and every call in it has a timeout; neither   *)
(* the user nor the rest of the server has to do anything. *)
TurnSpec == TurnInit /\ [][TurnNext]_turnVars /\ WF_turnVars(TurnStep)

-----------------------------------------------------------------------------
(* Properties                                                              *)

(* What cannot be undone by the bot waits for a press, and a press is good *)
(* for one such thing: together the removals of files, the actions of      *)
(* services, containers, programs and of the VPN, those included that may  *)
(* still happen after a timeout, are never more than the presses. *)
EffectsArePressed == deleted + applied + flying <= pressed
=============================================================================
