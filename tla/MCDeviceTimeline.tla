------------------------- MODULE MCDeviceTimeline -------------------------
(***************************************************************************)
(* A small instance of DeviceTimeline for TLC: days of four units, a rule for    *)
(* the nights that begin on a Monday, one for Monday's office hours, one whose    *)
(* time zone does not parse.  The clocks go forward a unit on Monday and back a    *)
(* unit on Tuesday, so one day has three units and one has five.                 *)
(***************************************************************************)
EXTENDS DeviceTimeline

MCRule(zone, start, end) ==
  [enabled |-> TRUE, zone |-> zone, days |-> {0}, start |-> start, end |-> end]

MCRules == {NoRule, MCRule(TRUE, 3, 2), MCRule(TRUE, 1, 3), MCRule(FALSE, 0, 4)}
MCOffset(t) == IF t \in 2..5 THEN 1 ELSE 0
MCIdles == {0, 2}
MCJumps == {-2, 1, 2, 5}
=============================================================================
