--------------------------- MODULE MCRemoteAssist ---------------------------
(***************************************************************************)
(* A small instance of RemoteAssist for TLC.                                *)
(***************************************************************************)
EXTENDS RemoteAssist

CONSTANTS s1, s2
=============================================================================
