-------------------------- MODULE PublisherProcess --------------------------
(***************************************************************************)
(* What the agent may rely on of a media publisher process: the order of the  *)
(* events it sends (agent_ipc.rs), that "capturing" is said only after a frame  *)
(* was published, that a lost capture is announced before it is recovered, and  *)
(* that nothing but metrics follows a fatal event.  MediaPublisher implements   *)
(* this specification; MediaSupervisor is built on it.                          *)
(***************************************************************************)
EXTENDS Naturals, Sequences

CONSTANTS
  Proc,       \* publisher processes
  PipeSize,   \* bound: events the pipe holds before a write blocks
  MaxFrames   \* bound: where frames_published stops counting

ASSUME ProcessAssumption == PipeSize \in Nat \ {0} /\ MaxFrames \in Nat

VARIABLES
  phase,      \* what the process has said of itself last
  fresh,      \* a frame was published since the capture was last built
  frames,     \* frames_published
  pipe,       \* events written and not read
  open        \* the agent's end of the pipe exists

procVars == <<phase, fresh, frames, pipe, open>>

Live == {"publishing", "reconnecting", "capturing"}
Phase == Live \cup {"unborn", "idle", "starting", "dying", "gone"}

StateEvent(s) == [event |-> "state", state |-> s]
FatalEvent(c) == [event |-> "fatal", code |-> c]
MetricsEvent(n) == [event |-> "metrics", published |-> n]
Codes == {"connection_failed", "capture_failed", "room_disconnected"}
Event ==
  {StateEvent(s) : s \in Live \cup {"idle", "starting", "stopped"}}
    \cup {FatalEvent(c) : c \in Codes} \cup {MetricsEvent(n) : n \in 0..MaxFrames}

Init ==
  /\ phase = [p \in Proc |-> "unborn"]
  /\ fresh = [p \in Proc |-> FALSE]
  /\ frames = [p \in Proc |-> 0]
  /\ pipe = [p \in Proc |-> <<>>]
  /\ open = [p \in Proc |-> TRUE]

\* write_event: one line, flushed; a write to a closed pipe is given up.
Emit(p, e) ==
  IF open[p]
  THEN /\ Len(pipe[p]) < PipeSize
       /\ pipe' = [pipe EXCEPT ![p] = Append(@, e)]
  ELSE UNCHANGED pipe

Says(p, from, s) ==
  /\ phase[p] \in from
  /\ phase' = [phase EXCEPT ![p] = s]
  /\ Emit(p, StateEvent(s))
  /\ UNCHANGED <<frames, open>>

Begin(p) == Says(p, {"unborn"}, "idle") /\ UNCHANGED fresh
Open(p) == Says(p, Live \cup {"idle"}, "starting") /\ UNCHANGED fresh
Enter(p) == Says(p, {"starting"}, "publishing") /\ fresh' = [fresh EXCEPT ![p] = FALSE]
Lose(p) == Says(p, Live, "reconnecting") /\ fresh' = [fresh EXCEPT ![p] = FALSE]
Capture(p) == fresh[p] /\ Says(p, {"publishing", "reconnecting"}, "capturing") /\ UNCHANGED fresh

\* A capture is built again without a word: a silent one, or another attempt.
Probe(p) ==
  /\ phase[p] \in Live
  /\ fresh' = [fresh EXCEPT ![p] = FALSE]
  /\ UNCHANGED <<phase, frames, pipe, open>>

Frame(p) ==
  /\ phase[p] \in Live
  /\ frames' = [frames EXCEPT ![p] = IF @ < MaxFrames THEN @ + 1 ELSE @]
  /\ fresh' = [fresh EXCEPT ![p] = TRUE]
  /\ UNCHANGED <<phase, pipe, open>>

Metrics(p) ==
  /\ phase[p] \notin {"unborn", "gone"}
  /\ Emit(p, MetricsEvent(frames[p]))
  /\ UNCHANGED <<phase, fresh, frames, open>>

\* SetControl is answered with a publishing state, whatever the capture does.
ControlSet(p) ==
  /\ phase[p] \in Live \cup {"idle"}
  /\ Emit(p, StateEvent("publishing"))
  /\ UNCHANGED <<phase, fresh, frames, open>>

Stopped(p) ==
  /\ phase[p] \in Live \cup {"idle"}
  /\ phase' = [phase EXCEPT ![p] = "dying"]
  /\ Emit(p, StateEvent("stopped"))
  /\ UNCHANGED <<fresh, frames, open>>

Fail(p, code) ==
  /\ phase[p] \in (IF code = "connection_failed" THEN {"starting"} ELSE Live)
  /\ phase' = [phase EXCEPT ![p] = "dying"]
  /\ Emit(p, FatalEvent(code))
  /\ UNCHANGED <<fresh, frames, open>>

\* It returns, crashes or is killed: what it wrote is all that is left of it.
Gone(p) ==
  /\ phase[p] # "gone"
  /\ phase' = [phase EXCEPT ![p] = "gone"]
  /\ fresh' = [fresh EXCEPT ![p] = FALSE] /\ frames' = [frames EXCEPT ![p] = 0]
  /\ UNCHANGED <<pipe, open>>

\* The agent's side: it reads, and it closes.
Take(p) ==
  /\ pipe[p] # <<>>
  /\ pipe' = [pipe EXCEPT ![p] = Tail(@)]
  /\ UNCHANGED <<phase, fresh, frames, open>>

Close(p) ==
  /\ open[p]
  /\ open' = [open EXCEPT ![p] = FALSE]
  /\ pipe' = [pipe EXCEPT ![p] = <<>>]
  /\ UNCHANGED <<phase, fresh, frames>>

\* Several are killed at once, some of them perhaps gone already.
Killed(ps) ==
  /\ phase' = [p \in Proc |-> IF p \in ps THEN "gone" ELSE phase[p]]
  /\ fresh' = [p \in Proc |-> fresh[p] /\ p \notin ps]
  /\ frames' = [p \in Proc |-> IF p \in ps THEN 0 ELSE frames[p]]

\* The agent dies: every end it holds is closed at once, and its jobs kill what is in them.
AgentDies(jobbed, cut) ==
  /\ jobbed \subseteq cut
  /\ Killed(jobbed)
  /\ open' = [p \in Proc |-> open[p] /\ p \notin cut]
  /\ pipe' = [p \in Proc |-> IF p \in cut THEN <<>> ELSE pipe[p]]

Step(p) ==
  \/ Begin(p) \/ Open(p) \/ Enter(p) \/ Lose(p) \/ Capture(p) \/ Probe(p) \/ Frame(p)
  \/ Metrics(p) \/ ControlSet(p) \/ Stopped(p) \/ (\E c \in Codes : Fail(p, c)) \/ Gone(p)

Next ==
  \/ \E p \in Proc : Step(p) \/ Take(p) \/ Close(p)
  \/ \E jobbed, cut \in SUBSET Proc : AgentDies(jobbed, cut)

Spec == Init /\ [][Next]_procVars

=============================================================================
