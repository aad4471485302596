-------------------------- MODULE MCBrowserVisits --------------------------
(***************************************************************************)
(* A small instance of BrowserVisits for TLC.                                *)
(***************************************************************************)
EXTENDS BrowserVisits
=============================================================================
