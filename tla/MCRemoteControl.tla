-------------------------- MODULE MCRemoteControl --------------------------
(***************************************************************************)
(* A small instance of RemoteControl for TLC, under the task's own fairness.  *)
(***************************************************************************)
EXTENDS RemoteControl
=============================================================================
