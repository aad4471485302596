-------------------------- MODULE MCRecordingAsset --------------------------
(***************************************************************************)
(* A small instance of RecordingAsset for TLC.                              *)
(***************************************************************************)
EXTENDS RecordingAsset

CONSTANTS h1, h2, f1, j1
=============================================================================
