-------------------------- MODULE SessionLifecycle --------------------------
(***************************************************************************)
(* What the media control plane promises of every media session, whoever    *)
(* drives it: a session is requested once, moves only along the edges of    *)
(* state.go, one session at a time, and stays where it ended.               *)
(* MediaSession implements this specification.                              *)
(***************************************************************************)
EXTENDS MediaState

CONSTANT Session        \* identities of media_sessions rows

VARIABLE state          \* the state column, "absent" before the row exists

Init == state = [s \in Session |-> "absent"]

Request(s) ==
  /\ state[s] = "absent"
  /\ state' = [state EXCEPT ![s] = "requested"]

Move(s) ==
  /\ state[s] \in State
  /\ \E to \in transitions[state[s]] : state' = [state EXCEPT ![s] = to]

Next == \E s \in Session : Request(s) \/ Move(s)

Spec == Init /\ [][Next]_state

=============================================================================
