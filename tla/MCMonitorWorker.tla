-------------------------- MODULE MCMonitorWorker --------------------------
(***************************************************************************)
(* Every tool is called once, and the process restarts once.               *)
(***************************************************************************)
EXTENDS MonitorWorker

Busy == [e \in Events |-> 1]
=============================================================================
