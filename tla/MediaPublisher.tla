--------------------------- MODULE MediaPublisher ---------------------------
(***************************************************************************)
(* The media publisher process (native/media-publisher/src/windows_main.rs):  *)
(* its main thread, which takes the agent's commands and otherwise checks the   *)
(* capture every HEALTH_INTERVAL; the capture, which is rebuilt after a sleep,   *)
(* a display change, a closed item or a silence; the metrics ticker; and remote *)
(* control, taken from RemoteControl.                                           *)
(*                                                                           *)
(* Time is cut down to what the checks compare: the wall-clock gap of a sleep,   *)
(* the retry time being due, and silence in units of STALL_PROBE_MIN.            *)
(***************************************************************************)
EXTENDS RemoteControl

CONSTANTS
  MaxRounds,    \* MAX_RECOVERY_ROUNDS
  ProbeMax,     \* STALL_PROBE_MAX in units of STALL_PROBE_MIN
  MaxFaults,    \* bound: sleeps, closed items and display changes
  MaxCommands,  \* bound: commands the agent sends
  PipeSize, MaxFrames   \* bounds, see PublisherProcess

ASSUME PublisherAssumption ==
  /\ MaxRounds \in Nat \ {0} /\ ProbeMax \in Nat \ {0} /\ MaxFaults \in Nat
  /\ MaxCommands \in Nat /\ PipeSize \in Nat \ {0} /\ MaxFrames \in Nat \ {0}

VARIABLES
  main,       \* where the main thread is
  opening,    \* it is inside start_first
  trigger,    \* why the capture is being built
  capture,    \* Live.session: "dead" still runs and will never deliver
  rounds,     \* Live.recovery_rounds
  pending,    \* Live.pending_issue is a stalled capture or another loss
  retryDue,   \* Live.retry_at is over
  gap,        \* the next tick will find SUSPEND_GAP of wall-clock time gone
  display,    \* the display differs from the one the capture was built on
  quiet,      \* silence so far
  probe,      \* Live.stall_limit
  lively,     \* frames have come later than the one the rebuild waited for
  faults,     \* bound
  commands,   \* commands not yet taken
  sent,       \* bound: commands the agent has sent
  agentGone,  \* the agent's end of the pipe is closed
  said,       \* history: the state the viewer was told last by the capture
  fresh, frames, pipe   \* see PublisherProcess

mainVars == <<main, opening, trigger>>
captureVars == <<capture, rounds, pending, retryDue, gap, display, quiet, probe, lively>>
agentVars == <<commands, sent, agentGone>>
outVars == <<said, fresh, frames, pipe>>
vars == <<mainVars, captureVars, faults, agentVars, outVars, controlVars>>

Capturing == main \in {"build", "pause", "live", "failing", "stopping"}
Running == main \notin {"unborn", "gone"}

\* The process as the agent knows it.
Phase ==
  IF main \in {"unborn", "idle", "dying", "gone"} THEN main
  ELSE IF main = "connect" THEN "starting"
  ELSE IF said = "none" THEN "idle" ELSE said

Process == INSTANCE PublisherProcess WITH
  Proc <- {"it"}, phase <- [p \in {"it"} |-> Phase],
  fresh <- [p \in {"it"} |-> fresh /\ main # "gone"],
  frames <- [p \in {"it"} |-> IF main = "gone" THEN 0 ELSE frames], pipe <- [p \in {"it"} |-> pipe],
  open <- [p \in {"it"} |-> ~agentGone]

Emit(e) ==
  IF agentGone THEN UNCHANGED pipe
  ELSE Len(pipe) < PipeSize /\ pipe' = Append(pipe, e)

Say(s) == Emit(Process!StateEvent(s)) /\ said' = s
Fatal(code) == Emit(Process!FatalEvent(code)) /\ UNCHANGED said

Init ==
  /\ InitControl
  /\ main = "unborn" /\ opening = FALSE /\ trigger = "first"
  /\ capture = "none" /\ rounds = 0 /\ pending = "none" /\ retryDue = FALSE
  /\ gap = FALSE /\ display = FALSE /\ quiet = 0 /\ probe = 1 /\ lively = FALSE
  /\ faults = 0 /\ commands = <<>> /\ sent = 0 /\ agentGone = FALSE
  /\ said = "none" /\ fresh = FALSE /\ frames = 0 /\ pipe = <<>>

---------------------------------------------------------------------------
(* The agent: commands, reading, and closing the pipe. *)

AgentSends(c) ==
  /\ Running /\ ~agentGone /\ sent < MaxCommands
  /\ commands' = Append(commands, c)
  /\ sent' = sent + 1
  /\ UNCHANGED <<mainVars, captureVars, faults, agentGone, outVars, controlVars>>

AgentReads ==
  /\ pipe # <<>>
  /\ pipe' = Tail(pipe)
  /\ UNCHANGED <<mainVars, captureVars, faults, agentVars, said, fresh, frames, controlVars>>

AgentCloses ==
  /\ Running /\ ~agentGone
  /\ agentGone' = TRUE
  /\ pipe' = <<>>
  /\ UNCHANGED <<mainVars, captureVars, faults, commands, sent, said, fresh, frames, controlVars>>

\* ActiveSession::stop, a lost job object, or a crash.
Killed ==
  /\ Running
  /\ main' = "gone"
  /\ capture' = "none"
  /\ KillControl
  /\ UNCHANGED <<opening, trigger, rounds, pending, retryDue, gap, display, quiet, probe, lively,
                 faults, agentVars, outVars>>

---------------------------------------------------------------------------
(* The screen. *)

Fault == faults < MaxFaults /\ faults' = faults + 1 /\ (capture # "none" \/ main = "live")

\* The machine sleeps: the graphics device does not survive it.
Sleep ==
  /\ Fault
  /\ capture' = (IF capture = "none" THEN "none" ELSE "dead") /\ gap' = TRUE
  /\ UNCHANGED <<mainVars, rounds, pending, retryDue, display, quiet, probe, lively, agentVars,
                 outVars, controlVars>>

\* The capture item closes, and the capture thread ends.
ItemCloses ==
  /\ Fault /\ capture # "none"
  /\ capture' = "finished"
  /\ UNCHANGED <<mainVars, rounds, pending, retryDue, gap, display, quiet, probe, lively,
                 agentVars, outVars, controlVars>>

DisplayChanges ==
  /\ Fault
  /\ display' = TRUE
  /\ capture' \in {capture} \cup (IF capture = "none" THEN {} ELSE {"dead"})
  /\ UNCHANGED <<mainVars, rounds, pending, retryDue, gap, quiet, probe, lively, agentVars,
                 outVars, controlVars>>

\* A frame reaches the WebRTC source; a fresh capture always delivers one.
FrameArrives ==
  /\ capture = "good"
  /\ frames' = (IF frames < MaxFrames THEN frames + 1 ELSE frames) /\ fresh' = TRUE /\ quiet' = 0
  /\ lively' \in {lively, TRUE}
  /\ UNCHANGED <<mainVars, capture, rounds, pending, retryDue, gap, display, probe, faults,
                 agentVars, said, pipe, controlVars>>

\* STALL_PROBE_MIN more without a frame: an idle desktop, or a dead capture.
Silence ==
  /\ main = "live" /\ capture # "none" /\ quiet < ProbeMax
  /\ quiet' = quiet + 1
  /\ UNCHANGED <<mainVars, capture, rounds, pending, retryDue, gap, display, probe, lively, faults,
                 agentVars, outVars, controlVars>>

RetryTime ==
  /\ main \in {"live", "pause"} /\ capture = "none" /\ ~retryDue
  /\ retryDue' = TRUE
  /\ UNCHANGED <<mainVars, capture, rounds, pending, gap, display, quiet, probe, lively, faults,
                 agentVars, outVars, controlVars>>

---------------------------------------------------------------------------
(* Building the capture. *)

\* rebuild, as far as tearing down and announcing: a stall probe is not announced.
Rebuild(why) ==
  /\ main' = "build" /\ trigger' = why
  /\ capture' = "none" /\ fresh' = FALSE /\ retryDue' = FALSE
  /\ IF why = "lost" THEN Say("reconnecting") ELSE UNCHANGED <<said, pipe>>

\* One of CAPTURE_START_ATTEMPTS starts: the capture runs, good or not.
StartAttempt ==
  /\ main = "build" /\ capture = "none"
  /\ capture' \in {"good", "dead"}
  /\ UNCHANGED <<mainVars, rounds, pending, retryDue, gap, display, quiet, probe, lively, faults,
                 agentVars, outVars, controlVars>>

Doubled(n) == IF 2 * n > ProbeMax THEN ProbeMax ELSE 2 * n
Limited == IF lively THEN 1 ELSE probe

\* Variant (mutant): the capture is ready as soon as it runs.
ReadyAtOnce == main = "build" /\ capture # "none"

\* start_capture_with_recovery waits for a frame that was published, and takes the capture
\* even if its item has closed since.
FrameSeen == main = "build" /\ capture # "none" /\ fresh

\* The recovered capture: bookkeeping starts afresh, the viewer is told unless it was a probe.
Built ==
  /\ FrameSeen
  /\ main' = "live" /\ opening' = FALSE
  /\ rounds' = 0 /\ retryDue' = FALSE /\ gap' = FALSE /\ display' = FALSE
  /\ lively' = FALSE /\ quiet' = 0
  /\ probe' = IF trigger = "stalled" THEN Doubled(Limited) ELSE 1
  /\ IF trigger = "stalled" THEN UNCHANGED <<said, pipe>> ELSE Say("capturing")
  /\ UNCHANGED <<trigger, capture, pending, faults, agentVars, fresh, frames, controlVars>>

\* Variant (mutant): a probe that finds a dead capture says nothing.
BuildFailsSilently ==
  /\ main = "build"
  /\ capture' = "none" /\ rounds' = rounds + 1 /\ pending' = "lost"
  /\ retryDue' = FALSE /\ gap' = FALSE
  /\ main' = IF rounds + 1 >= MaxRounds THEN "failing" ELSE IF opening THEN "pause" ELSE "live"
  /\ UNCHANGED <<opening, trigger, display, quiet, probe, lively, faults, agentVars, outVars,
                 controlVars>>

\* Every attempt of the round failed: another round later, or the end.
BuildFails ==
  /\ main = "build"
  /\ capture' = "none" /\ rounds' = rounds + 1 /\ pending' = "lost"
  /\ retryDue' = FALSE /\ gap' = FALSE
  /\ main' = IF rounds + 1 >= MaxRounds THEN "failing" ELSE IF opening THEN "pause" ELSE "live"
  /\ IF trigger = "stalled" THEN Say("reconnecting") ELSE UNCHANGED <<said, pipe>>
  /\ fresh' = FALSE
  /\ UNCHANGED <<opening, trigger, display, quiet, probe, lively, faults, agentVars, frames,
                 controlVars>>

\* start_first sleeps until the retry and tries again, taking no command meanwhile.
Retry ==
  /\ main = "pause" /\ retryDue
  /\ Rebuild("lost")
  /\ UNCHANGED <<opening, rounds, pending, gap, display, quiet, probe, lively, faults, agentVars,
                 frames, controlVars>>

\* MAX_RECOVERY_ROUNDS: the live session is dropped and the agent told.
GiveUp ==
  /\ main = "failing"
  /\ DropControl
  /\ Fatal("capture_failed")
  /\ main' = "dying"
  /\ UNCHANGED <<opening, trigger, captureVars, faults, agentVars, fresh, frames>>

---------------------------------------------------------------------------
(* A health tick: recv_timeout ran out with no command. *)

Ticking == main = "live" /\ commands = <<>> /\ ~agentGone

RoomEnded ==
  /\ Ticking /\ roomGone
  /\ DropControl
  /\ Fatal("room_disconnected")
  /\ main' = "dying" /\ capture' = "none"
  /\ UNCHANGED <<opening, trigger, rounds, pending, retryDue, gap, display, quiet, probe, lively,
                 faults, agentVars, fresh, frames>>

\* Variant (mutant): a silent capture is left alone.
IssueButSilence ==
  IF gap \/ capture = "finished" \/ display THEN "lost"
  ELSE IF capture = "none" THEN pending ELSE "none"

\* check_capture: the reason to rebuild, in the order the code asks for one.
Issue ==
  IF gap \/ capture = "finished" \/ display THEN "lost"
  ELSE IF capture = "none" THEN pending
  ELSE IF quiet >= Limited THEN "stalled" ELSE "none"

Recover ==
  /\ Ticking /\ ~roomGone
  /\ capture = "none" => retryDue
  /\ Issue # "none"
  /\ Rebuild(Issue)
  /\ gap' = FALSE
  /\ display' = IF gap \/ capture \in {"none", "finished"} THEN display ELSE FALSE
  /\ UNCHANGED <<opening, rounds, pending, quiet, probe, lively, faults, agentVars, frames,
                 controlVars>>

\* Waiting for the retry, a tick notices a sleep and forgets it.
TickWhileWaiting ==
  /\ Ticking /\ ~roomGone /\ capture = "none" /\ ~retryDue /\ gap
  /\ gap' = FALSE
  /\ UNCHANGED <<mainVars, capture, rounds, pending, retryDue, display, quiet, probe, lively,
                 faults, agentVars, outVars, controlVars>>

---------------------------------------------------------------------------
(* The main thread takes a command. *)

Takes(c) == main \in {"idle", "live"} /\ commands # <<>> /\ Head(commands) = c
            /\ commands' = Tail(commands)

TakeStart ==
  /\ Takes("start")
  /\ DropControl
  /\ Emit(Process!StateEvent("starting"))
  /\ main' = "connect"
  /\ capture' = "none" /\ rounds' = 0 /\ pending' = "none" /\ retryDue' = FALSE /\ gap' = FALSE
  /\ display' = FALSE /\ quiet' = 0 /\ probe' = 1 /\ lively' = FALSE
  /\ UNCHANGED <<opening, trigger, faults, sent, agentGone, said, fresh, frames>>

\* LiveKitPublisher::connect, start_control, Live::new and the first capture.
Connected ==
  /\ main = "connect"
  /\ StartControl
  /\ Say("publishing")
  /\ main' = "build" /\ trigger' = "first" /\ opening' = TRUE
  /\ fresh' = FALSE
  /\ UNCHANGED <<captureVars, faults, agentVars, frames>>

ConnectFails ==
  /\ main = "connect"
  /\ Fatal("connection_failed")
  /\ main' = "dying"
  /\ UNCHANGED <<opening, trigger, captureVars, faults, agentVars, fresh, frames, controlVars>>

TakeSetControl(on) ==
  /\ Takes(IF on THEN "arm" ELSE "disarm")
  /\ IF on THEN Arm ELSE Disarm
  /\ Emit(Process!StateEvent("publishing"))
  /\ UNCHANGED <<mainVars, captureVars, faults, sent, agentGone, said, fresh, frames>>

\* Stop disarms before it stops the capture.
TakeStop ==
  /\ Takes("stop")
  /\ Disarm
  /\ main' = "stopping"
  /\ UNCHANGED <<opening, trigger, captureVars, faults, sent, agentGone, outVars>>

StopDone ==
  /\ main = "stopping"
  /\ DropControl
  /\ Emit(Process!StateEvent("stopped"))
  /\ main' = "dying" /\ capture' = "none"
  /\ UNCHANGED <<opening, trigger, rounds, pending, retryDue, gap, display, quiet, probe, lively,
                 faults, agentVars, said, fresh, frames>>

\* Variant (mutant): a closed pipe does not stop the capture.
PipeClosedIgnored ==
  /\ main = "idle" /\ commands = <<>> /\ agentGone
  /\ DropControl
  /\ main' = "gone" /\ capture' = "none"
  /\ UNCHANGED <<opening, trigger, rounds, pending, retryDue, gap, display, quiet, probe, lively,
                 faults, agentVars, outVars>>

\* A closed pipe means the agent is gone, and the process goes too.
PipeClosed ==
  /\ main \in {"idle", "live"} /\ commands = <<>> /\ agentGone
  /\ DropControl
  /\ main' = "gone" /\ capture' = "none"
  /\ UNCHANGED <<opening, trigger, rounds, pending, retryDue, gap, display, quiet, probe, lively,
                 faults, agentVars, outVars>>

\* A line that is no command ends the process.
TakeGarbage ==
  /\ Takes("garbage")
  /\ DropControl
  /\ main' = "gone" /\ capture' = "none"
  /\ UNCHANGED <<opening, trigger, rounds, pending, retryDue, gap, display, quiet, probe, lively,
                 faults, sent, agentGone, outVars>>

ProcessReturns ==
  /\ main = "dying"
  /\ DropControl
  /\ main' = "gone" /\ capture' = "none"
  /\ UNCHANGED <<opening, trigger, rounds, pending, retryDue, gap, display, quiet, probe, lively,
                 faults, agentVars, outVars>>

PipeConnects ==
  /\ main = "unborn"
  /\ Emit(Process!StateEvent("idle"))
  /\ main' = "idle"
  /\ UNCHANGED <<opening, trigger, captureVars, faults, agentVars, said, fresh, frames,
                 controlVars>>

\* The ticker thread; it ends at the first write that fails.
Ticker ==
  /\ Running /\ ~agentGone
  /\ Emit(Process!MetricsEvent(frames))
  /\ UNCHANGED <<mainVars, captureVars, faults, agentVars, said, fresh, frames, controlVars>>

---------------------------------------------------------------------------
Command == {"start", "arm", "disarm", "stop", "garbage"}

Control ==
  /\ RoomSteps
  /\ UNCHANGED <<mainVars, captureVars, faults, agentVars, outVars>>

MainThread ==
  \/ PipeConnects \/ TakeStart \/ Connected \/ ConnectFails
  \/ TakeSetControl(TRUE) \/ TakeSetControl(FALSE)
  \/ TakeStop \/ StopDone \/ TakeGarbage \/ PipeClosed \/ ProcessReturns
  \/ RoomEnded \/ Recover \/ TickWhileWaiting
  \/ Retry \/ GiveUp \/ StartAttempt \/ Built \/ BuildFails

Next ==
  \/ MainThread \/ Ticker \/ Control
  \/ (\E c \in Command : AgentSends(c)) \/ AgentReads \/ AgentCloses \/ Killed
  \/ Sleep \/ ItemCloses \/ DisplayChanges \/ FrameArrives \/ Silence \/ RetryTime

Spec == Init /\ [][Next]_vars

\* The main thread runs, and a write of it that waits for room in the pipe is not
\* overtaken by the ticker for ever; time passes, and the agent reads its pipe.
FairSpec ==
  /\ Spec
  /\ SF_vars(MainThread) /\ WF_vars(RetryTime) /\ WF_vars(Silence) /\ WF_vars(AgentReads)

---------------------------------------------------------------------------
(* Properties. *)

\* A capture that is known to be lost, or is being built again for a loss, was
\* announced: the last thing the viewer was told of it is not "capturing".
LossAnnounced ==
  /\ main = "live" /\ capture = "none" => said = "reconnecting"
  /\ main \in {"build", "pause"} /\ trigger = "lost" => said = "reconnecting"

\* A capture that stops delivering is noticed: it is rebuilt, or the process ends.
LostCaptureSettles == main = "live" /\ capture \in {"dead", "finished", "none"}
                        ~> capture = "good" \/ main = "gone"

\* The process never outlives the agent (windows_main.rs: "the sidecar must never
\* outlive the agent and keep capturing the screen").
NeverOutlivesAgent == agentGone ~> main = "gone"

\* The process keeps the promises the agent is built on.
ImplementsProcess == Process!Spec

=============================================================================
