--------------------------- MODULE RemoteActions ---------------------------
(***************************************************************************)
(* The tools that have somebody else act: the VPN service, asked over HTTP *)
(* (ai/tools/vpn_tools.py), and systemd, docker and other programs, run by *)
(* CommandExecutor (server/services.py, server/docker_manager.py).  The    *)
(* caller stops waiting after a while; what was asked for may have been    *)
(* done, may be lost, or may be done later.                                *)
(***************************************************************************)
EXTENDS Integers

VARIABLES
  flying,   \* what was asked for and may still be done, nobody waiting for it
  pressed,  \* history: how many uses of a tool the user has approved
  applied,  \* history: how often what was asked for has been done
  told      \* history: how often a tool of the VPN has said that it was

remote == <<flying, pressed, applied, told>>

RemoteTypeOK == flying \in Nat /\ pressed \in Nat /\ applied \in Nat /\ told \in Nat

RemoteInit == flying = 0 /\ pressed = 0 /\ applied = 0 /\ told = 0

-----------------------------------------------------------------------------

Done      == applied' = applied + 1 /\ UNCHANGED flying
DoneLater == flying' = flying + 1 /\ UNCHANGED applied
NotDone   == UNCHANGED <<flying, applied>>

(* Bug: a request that got no answer is sent once more. *)
VpnRequestRetried ==
  \/ Done /\ told' = told + 1
  \/ applied' = applied + 2 /\ told' = told + 1 /\ UNCHANGED flying
  \/ NotDone /\ UNCHANGED told

(* _vpn_request.  An answer without "ok": false tells that it was done, an *)
(* error that is JSON and has no "ok" as well; any other error, an answer  *)
(* that is not JSON, and no answer within 20 seconds do not tell that it   *)
(* was not. *)
VpnRequest ==
  \/ (Done \/ NotDone) /\ told' = told + 1
  \/ (Done \/ DoneLater \/ NotDone) /\ UNCHANGED told

(* systemctl, docker, a program, a command of the shell: the result is     *)
(* what was printed, and says that it was done only by its words           *)
(* (_format_command_result).  A program that is killed at the timeout may  *)
(* have handed the work to a daemon. *)
Command == (Done \/ DoneLater \/ NotDone) /\ UNCHANGED told

(* What nobody waits for any more is done, or is not. *)
Settle ==
  /\ flying > 0
  /\ flying' = flying - 1
  /\ applied' = applied + 1 \/ UNCHANGED applied
  /\ UNCHANGED <<pressed, told>>

-----------------------------------------------------------------------------
(* Properties                                                              *)

(* vpn_tools.py:213-214, 225, 234, 269-274: what a tool of the VPN reports *)
(* as done was done. *)
ToldIsDone == told <= applied
=============================================================================
