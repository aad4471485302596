-------------------------- MODULE MCMediaPublisher --------------------------
(***************************************************************************)
(* A small instance of MediaPublisher for TLC.                              *)
(***************************************************************************)
EXTENDS MediaPublisher
=============================================================================
