-------------------------- MODULE MCMediaSupervisor --------------------------
(***************************************************************************)
(* Small instances of MediaSupervisor for TLC.                              *)
(***************************************************************************)
EXTENDS MediaSupervisor
=============================================================================
