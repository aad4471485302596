--------------------------- MODULE MCMediaSession ---------------------------
(***************************************************************************)
(* Small instances of MediaSession for TLC.                                 *)
(***************************************************************************)
EXTENDS MediaSession, TLC

CONSTANTS v1, v2, l1, l2, s1, s2

\* One tab for each of two users.
MCOwner == [l \in Lease |-> IF l = l1 THEN v1 ELSE v2]

\* Policies an instance uses: every setting, recording always on, live view only.
AllPolicies == BOOLEAN \X BOOLEAN
Recording == {<<TRUE, TRUE>>}
LiveOnly == {<<TRUE, FALSE>>}

\* Rows are interchangeable, and so are the two users together with their tabs.
SwapViewers == (v1 :> v2 @@ v2 :> v1 @@ l1 :> l2 @@ l2 :> l1)
MCSymmetry == Permutations(Session) \cup {SwapViewers}
              \cup {p @@ SwapViewers : p \in Permutations(Session)}
=============================================================================
