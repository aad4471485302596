---------------------------- MODULE MCSyncOutbox ----------------------------
(***************************************************************************)
(* Small instances of SyncOutbox for TLC.                                   *)
(***************************************************************************)
EXTENDS SyncOutbox

\* An input bucket and an activity sample ahead of a second bucket, one image.
MixedTables == [r \in Row |-> IF r = 1 \/ r = 3 THEN "keystroke"
                              ELSE IF r = 2 THEN "activity" ELSE "screenshot"]

\* Two device-state intervals, which never ask for another batch, and an image.
OsStateTables == [r \in Row |-> IF r = 3 THEN "screenshot" ELSE "os_state"]
=============================================================================
