---------------------------- MODULE Deployment ----------------------------
(***************************************************************************)
(* coding/deploy.py and ai/tools/deploy_tools.py: the artifacts of a       *)
(* deployment are written, an image is built from them, the old container  *)
(* is removed, a new one is started under the same name and probed.        *)
(*                                                                         *)
(* A step is one call of the docker client or one probe.  Docker (outside  *)
(* this repository) is modelled by what the code asks of it: a name is     *)
(* given once, and a client that was killed may have been heard.  A probe  *)
(* finds a container that is up healthy or not; the port alone is enough   *)
(* for it, and where the bot has a network of its own it finds nothing.    *)
(***************************************************************************)
EXTENDS ProjectFiles

CONSTANT Retries  \* of the healthcheck

ASSUME DeploymentAssumption == Retries \in Nat \ {0}

VARIABLES
  artifacts, \* prepare_all has written deploy/
  image,     \* the edits in the image that has the tag latest
  cont,      \* the container of that name: none, up, dead
  served,    \* the edits it was started with
  dpc,       \* the client a turn awaits
  tries,     \* attempt
  builder,   \* history: the turn whose build is the last one
  told,      \* history: of these, who was told that the deployment is done
  lost       \* history: the container was lost by a failed start or by itself

deployment == <<artifacts, image, cont, served, dpc, tries, builder, told, lost>>

DeploymentTypeOK ==
  /\ artifacts \in BOOLEAN
  /\ image \subseteq Edits /\ served \subseteq Edits
  /\ cont \in {"none", "up", "dead"}
  /\ dpc \in [Turns -> {"idle", "build", "remove", "start", "probe", "healthy", "unhealthy"}]
  /\ tries \in [Turns -> 0..(Retries - 1)]
  /\ builder \subseteq Turns /\ told \subseteq builder
  /\ lost \in BOOLEAN

DeploymentInit ==
  /\ artifacts \in BOOLEAN
  /\ cont \in {"none", "up"} /\ image = {} /\ served = {}
  /\ dpc = [t \in Turns |-> "idle"] /\ tries = [t \in Turns |-> 0]
  /\ builder = {} /\ told = {} /\ lost = FALSE

-----------------------------------------------------------------------------
(* prepare_deployment                                                      *)

(* Dockerfile, compose file, systemd unit and nginx fragment are           *)
(* overwritten; .env.example only if it is not there.  The new text is one *)
(* more edit of the tree, and one that may leave nothing of another. *)
PrepareAll(t) ==
  /\ dpc[t] = "idle"
  /\ artifacts' = TRUE
  /\ Change
  /\ UNCHANGED <<image, cont, served, dpc, tries, builder, told, lost>>

-----------------------------------------------------------------------------
(* build_and_start_container                                               *)

Awaits(t, pc) == dpc' = [dpc EXCEPT ![t] = pc]

StartDeploy(t) ==
  /\ dpc[t] = "idle" /\ present
  /\ Awaits(t, "build")
  /\ UNCHANGED <<files, artifacts, image, cont, served, tries, builder, told, lost>>

Build(t) ==
  /\ dpc[t] = "build" /\ artifacts
  /\ image' = work
  /\ builder' = {t} /\ told' = {}
  /\ Awaits(t, "remove")
  /\ UNCHANGED <<files, artifacts, cont, served, tries, lost>>

(* A client killed after ten minutes may have left the tag on its image. *)
BuildFails(t) ==
  /\ dpc[t] = "build"
  /\ \/ UNCHANGED <<image, builder, told>>
     \/ artifacts /\ image' = work /\ builder' = {} /\ told' = {}
  /\ Awaits(t, "idle")
  /\ UNCHANGED <<files, artifacts, cont, served, tries, lost>>

(* docker rm -f, whose outcome nobody reads. *)
Remove(t) ==
  /\ dpc[t] = "remove"
  /\ cont' \in {cont, "none"}
  /\ Awaits(t, "start")
  /\ UNCHANGED <<files, artifacts, image, served, tries, builder, told, lost>>

(* Bug: the result of docker run is not read either. *)
RunUnread(t) ==
  /\ dpc[t] = "start"
  /\ IF cont = "none" THEN cont' = "up" /\ served' = image ELSE UNCHANGED <<cont, served>>
  /\ Awaits(t, "probe")
  /\ UNCHANGED <<files, artifacts, image, tries, builder, told, lost>>

Run(t) ==
  /\ dpc[t] = "start" /\ cont = "none"
  /\ cont' = "up" /\ served' = image
  /\ lost' = FALSE
  /\ Awaits(t, "probe")
  /\ UNCHANGED <<files, artifacts, image, tries, builder, told>>

(* The name is taken and nothing happens; the port is taken and a          *)
(* container that is not running keeps the name; the client is killed      *)
(* after it was heard. *)
RunFails(t) ==
  /\ dpc[t] = "start"
  /\ IF cont = "none"
     THEN cont' \in {"none", "dead", "up"} /\ served' = image
     ELSE UNCHANGED <<cont, served>>
  /\ lost' = (cont' # "up")
  /\ Awaits(t, "idle")
  /\ UNCHANGED <<files, artifacts, image, tries, builder, told>>

-----------------------------------------------------------------------------
(* healthcheck                                                             *)

(* The answer follows, and the status of the project. *)
Healthy(t) ==
  /\ dpc[t] = "probe" /\ cont = "up"
  /\ told' = told \union (builder \intersect {t})
  /\ tries' = [tries EXCEPT ![t] = 0]
  /\ Awaits(t, "healthy")
  /\ UNCHANGED <<files, artifacts, image, cont, served, builder, lost>>

ProbeFails(t) ==
  /\ dpc[t] = "probe"
  /\ IF tries[t] + 1 < Retries
     THEN tries' = [tries EXCEPT ![t] = @ + 1] /\ UNCHANGED dpc
     ELSE tries' = [tries EXCEPT ![t] = 0] /\ Awaits(t, "unhealthy")
  /\ UNCHANGED <<files, artifacts, image, cont, served, builder, told, lost>>

(* The program in the container ends and its restarts fail, or it is       *)
(* started again. *)
ContainerDies ==
  /\ cont = "up" /\ cont' = "dead" /\ lost' = TRUE
  /\ UNCHANGED <<files, artifacts, image, served, dpc, tries, builder, told>>

ContainerRestarts ==
  /\ cont = "dead" /\ cont' = "up" /\ lost' = FALSE
  /\ UNCHANGED <<files, artifacts, image, served, dpc, tries, builder, told>>

DeploymentStart(t) == PrepareAll(t) \/ StartDeploy(t)

DeploymentStep(t) ==
  \/ Build(t) \/ BuildFails(t) \/ Remove(t) \/ Run(t) \/ RunFails(t)
  \/ Healthy(t) \/ ProbeFails(t)

-----------------------------------------------------------------------------
(* Properties                                                              *)

(* Once the operator has been told that a deployment is done, and nobody   *)
(* has built the project again, what is served is the tree that was built: *)
(* neither a removal whose outcome is not read, nor another turn that      *)
(* deploys the same project at the same time, leaves something else behind *)
(* the port.  Only a start that failed, a container that died or a         *)
(* replacement under way leave nothing there. *)
DeployedIsServed ==
  told # {} =>
    \/ cont = "up" /\ served = image
    \/ cont # "up" /\ (lost \/ \E u \in Turns : dpc[u] = "start")
=============================================================================
