----------------------------- MODULE MediaState -----------------------------
(***************************************************************************)
(* The media session state machine of the backend                          *)
(* (apps/backend/internal/media/state.go): the states a media_sessions row  *)
(* may hold and the moves between them.                                     *)
(***************************************************************************)

State == {"requested", "authorizing", "waiting_for_agent", "negotiating",
          "live", "reconnecting", "ending", "ended", "failed"}

Terminal(s) == s \in {"ended", "failed"}

\* JoinViewerSession, TouchViewerSession and the token handlers refuse a session
\* that is over or being torn down.
OpenToViewers(s) == s \in State \ {"ending", "ended", "failed"}

\* The path of a session that works, with the reconnect cycle.
Forward == {<<"requested", "authorizing">>, <<"authorizing", "waiting_for_agent">>,
            <<"waiting_for_agent", "negotiating">>, <<"negotiating", "live">>,
            <<"live", "reconnecting">>, <<"reconnecting", "live">>}

\* Anything not over can be torn down, end or fail.
transitions ==
  [s \in State |->
     IF Terminal(s) THEN {}
     ELSE {to \in State : \/ <<s, to>> \in Forward
                          \/ to \in {"ended", "failed"}
                          \/ to = "ending" /\ s # "ending"}]

CanTransition(from, to) == to \in transitions[from]

\* Re-entering the current state is accepted, a retried callback must not fail.
Transition(from, to) ==
  /\ from \in State
  /\ to \in State
  /\ from = to \/ CanTransition(from, to)

\* What a publisher may say about itself (handlers/media.go agentReportableStates).
AgentReportable == {"negotiating", "live", "reconnecting", "ended", "failed"}

=============================================================================
