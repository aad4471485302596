--------------------------- MODULE RemoteControl ---------------------------
(***************************************************************************)
(* Remote control inside the media publisher process: the emergency-stop      *)
(* gate that the main thread flips (control.rs), the ordered, rate-limited     *)
(* stream of control frames of the room's data channel, the injector that      *)
(* remembers what it holds down (input_injector.rs), and the one task that     *)
(* runs them (livekit_publisher.rs).                                           *)
(*                                                                           *)
(* Frames are judged and applied in two steps, because the main thread can     *)
(* disarm the gate between them.  SendInput may refuse any event.  A frame is  *)
(* its kind, the key or button it is about and its sequence number; a "move"    *)
(* stands for every frame that presses and releases nothing.                   *)
(***************************************************************************)
EXTENDS Naturals, Sequences, FiniteSets

CONSTANTS
  Input,      \* keys and mouse buttons
  MaxSeq,     \* bound: sequence numbers the viewer uses
  Limit,      \* MAX_MESSAGES_PER_SEC
  MaxStops,   \* bound: how often the gate is disarmed
  MaxQueue    \* bound: room events waiting for the task

ASSUME ControlAssumption ==
  /\ MaxSeq \in Nat /\ Limit \in Nat \ {0} /\ MaxStops \in Nat /\ MaxQueue \in Nat \ {0}

VARIABLES
  armed,      \* ControlGate.armed
  stops,      \* ControlGate.disarm_epoch
  seenStops,  \* the task's copy of it
  lastSeq,    \* ControlStream.last_seq
  spent,      \* RateWindow.count
  inbound,    \* room events the task has not received
  task,       \* where the control task is
  frame,      \* the frame it has accepted
  held,       \* InputInjector.held_keys and held_buttons
  down,       \* what the desktop has pressed on our behalf
  roomGone,   \* LiveKitPublisher.disconnected
  refused,    \* history: inputs whose last release SendInput refused
  owed,       \* history: inputs down at a disarm and not released since
  late        \* history: frames applied since the gate was disarmed

gateVars == <<armed, stops>>
streamVars == <<lastSeq, spent, frame>>
desktopVars == <<held, down, refused, owed>>
controlVars == <<gateVars, streamVars, desktopVars, seenStops, inbound, task, roomGone, late>>

Kind == {"move", "press", "release", "malformed", "oversized"}
Frame == [kind : Kind, input : Input, seq : 1..MaxSeq]
RoomEvent == {[data |-> f] : f \in Frame} \cup {[lost |-> TRUE]}
NoFrame == [kind |-> "none"]

\* SendInput takes the releases of ok and refuses those of all \ ok.
Released(all, ok) ==
  /\ down' = down \ ok
  /\ refused' = (refused \ ok) \cup ((all \ ok) \cap down)
  /\ owed' = owed \ all

ReleaseAll ==
  /\ \E ok \in SUBSET held : Released(held, ok)
  /\ held' = {}

InitControl ==
  /\ armed = FALSE /\ stops = 0 /\ seenStops = 0
  /\ lastSeq = 0 /\ spent = 0 /\ frame = NoFrame
  /\ inbound = <<>> /\ task = "off" /\ roomGone = FALSE
  /\ held = {} /\ down = {} /\ refused = {} /\ owed = {}
  /\ late = 0

---------------------------------------------------------------------------
(* The gate, from the main thread. *)

Arm ==
  /\ armed' = TRUE
  /\ late' = 0
  /\ UNCHANGED <<stops, streamVars, desktopVars, seenStops, inbound, task, roomGone>>

Disarmed ==
  /\ stops < MaxStops
  /\ armed' = FALSE
  /\ stops' = stops + 1
  /\ late' = IF armed THEN 0 ELSE late

Disarm ==
  /\ Disarmed
  /\ owed' = owed \cup held
  /\ UNCHANGED <<streamVars, held, down, refused, seenStops, inbound, task, roomGone>>

---------------------------------------------------------------------------
(* The room. *)

\* start_control: the task takes the room's events.
StartControl ==
  /\ task' = "select"
  /\ seenStops' = stops
  /\ lastSeq' = 0 /\ spent' = 0 /\ frame' = NoFrame
  /\ UNCHANGED <<gateVars, desktopVars, inbound, roomGone, late>>

\* The viewer's frames reach the room in any order; the link may end for good.
RoomDelivers(e) ==
  /\ task \in {"select", "apply"}
  /\ Len(inbound) < MaxQueue
  /\ [lost |-> TRUE] \notin {inbound[i] : i \in DOMAIN inbound}
  /\ inbound' = Append(inbound, e)
  /\ UNCHANGED <<gateVars, streamVars, desktopVars, seenStops, task, roomGone, late>>

\* A second has passed since RateWindow.started.
NewWindow ==
  /\ spent > 0
  /\ spent' = 0
  /\ UNCHANGED <<gateVars, lastSeq, frame, desktopVars, seenStops, inbound, task, roomGone, late>>

---------------------------------------------------------------------------
(* The control task. *)

Stale == stops # seenStops

\* Variant (mutant): the loop looks at the flag only, not at the generation.
TickOnFlagOnly ==
  /\ task = "select"
  /\ ~armed /\ (held # {} \/ Stale)
  /\ ReleaseAll
  /\ seenStops' = stops
  /\ UNCHANGED <<gateVars, streamVars, inbound, task, roomGone, late>>

\* release_tick: a disarm generation not seen yet, or a disarmed gate, releases everything.
Tick ==
  /\ task = "select"
  /\ Stale \/ (~armed /\ held # {})
  /\ ReleaseAll
  /\ seenStops' = stops
  /\ UNCHANGED <<gateVars, streamVars, inbound, task, roomGone, late>>

Data == task = "select" /\ inbound # <<>> /\ Head(inbound) # [lost |-> TRUE]

Acceptable(f) == f.kind \notin {"malformed", "oversized"} /\ f.seq > lastSeq

\* Variant (mutant): the gate is looked at when the frame is applied, not before.
AcceptUngated ==
  /\ Data
  /\ LET f == Head(inbound).data IN
     /\ spent < Limit /\ Acceptable(f)
     /\ frame' = f /\ lastSeq' = f.seq /\ spent' = spent + 1
  /\ inbound' = Tail(inbound)
  /\ task' = "apply"
  /\ UNCHANGED <<gateVars, desktopVars, seenStops, roomGone, late>>

\* ControlStream::accept lets a frame through.
Accept ==
  /\ Data
  /\ LET f == Head(inbound).data IN
     /\ armed /\ spent < Limit /\ Acceptable(f)
     /\ frame' = f /\ lastSeq' = f.seq /\ spent' = spent + 1
  /\ inbound' = Tail(inbound)
  /\ task' = "apply"
  /\ UNCHANGED <<gateVars, desktopVars, seenStops, roomGone, late>>

\* It refuses one: only a frame that passed the gate and the size limit is counted in the
\* rate window, while there is room in it.
Refuse ==
  /\ Data
  /\ ~(armed /\ spent < Limit /\ Acceptable(Head(inbound).data))
  /\ spent' = IF armed /\ spent < Limit /\ Head(inbound).data.kind # "oversized"
                THEN spent + 1 ELSE spent
  /\ inbound' = Tail(inbound)
  /\ UNCHANGED <<gateVars, lastSeq, frame, desktopVars, seenStops, task, roomGone, late>>

\* The injector refuses a frame before it changes what is held: an unknown monitor
\* or key code, or a pointer move that SendInput refused.
NotApplied == UNCHANGED desktopVars

\* Variant (mutant): the press is sent before it is remembered, and remembering is lost.
PressUntracked(i) ==
  /\ held' = held
  /\ down' \in {down, down \cup {i}}
  /\ UNCHANGED <<refused, owed>>

Press(i) ==
  /\ held' = held \cup {i}
  /\ down' \in {down, down \cup {i}}
  /\ UNCHANGED <<refused, owed>>

Release(i) ==
  /\ held' = held \ {i}
  /\ \E ok \in SUBSET {i} : Released({i}, ok)

Apply ==
  /\ task = "apply"
  /\ \/ NotApplied
     \/ frame.kind = "press" /\ Press(frame.input)
     \/ frame.kind = "release" /\ Release(frame.input)
  /\ late' = IF armed THEN late ELSE late + 1
  /\ frame' = NoFrame
  /\ task' = "select"
  /\ UNCHANGED <<gateVars, lastSeq, spent, seenStops, inbound, roomGone>>

\* RoomEvent::Disconnected: disarm, release, tell the main thread, end.  When the room
\* drops its event channel without that event, the main thread is not told.
RoomLost ==
  /\ task = "select" /\ inbound # <<>> /\ Head(inbound) = [lost |-> TRUE]
  /\ Disarmed
  /\ ReleaseAll
  /\ roomGone' \in {roomGone, TRUE}
  /\ task' = "ended"
  /\ inbound' = <<>>
  /\ UNCHANGED <<streamVars, seenStops>>

\* The publisher is dropped: its runtime aborts the task where it waits, and the
\* injector's Drop releases what it holds.
DropControl ==
  /\ task \in {"off", "select", "ended"}
  /\ ReleaseAll
  /\ task' = "off"
  /\ inbound' = <<>>
  /\ roomGone' = FALSE
  /\ UNCHANGED <<gateVars, streamVars, seenStops, late>>

\* TerminateProcess: nothing of the above runs, and what is pressed stays pressed.
KillControl ==
  /\ task' = "killed"
  /\ held' = {} /\ owed' = {} /\ inbound' = <<>> /\ frame' = NoFrame
  /\ UNCHANGED <<gateVars, lastSeq, spent, down, refused, seenStops, roomGone, late>>

ControlTask == Tick \/ Accept \/ Refuse \/ Apply \/ RoomLost

RoomSteps == NewWindow \/ (\E e \in RoomEvent : RoomDelivers(e)) \/ ControlTask

NextControl ==
  \/ Arm \/ Disarm
  \/ (task = "off" /\ StartControl)
  \/ DropControl \/ KillControl
  \/ RoomSteps

ControlSpec == InitControl /\ [][NextControl]_controlVars

\* The release tick comes first in the task's biased select; SendInput returns.
FairControlSpec == ControlSpec /\ SF_controlVars(Tick) /\ WF_controlVars(Apply)

---------------------------------------------------------------------------
(* Properties. *)

ControlTypeOK ==
  /\ armed \in BOOLEAN /\ roomGone \in BOOLEAN
  /\ stops \in 0..MaxStops /\ seenStops \in 0..MaxStops
  /\ lastSeq \in 0..MaxSeq /\ spent \in 0..Limit
  /\ inbound \in Seq(RoomEvent)
  /\ task \in {"off", "select", "apply", "ended", "killed"}
  /\ frame \in Frame \cup {NoFrame} /\ (task = "apply" => frame \in Frame)
  /\ held \subseteq Input /\ down \subseteq Input
  /\ refused \subseteq Input /\ owed \subseteq Input
  /\ late \in Nat

\* Nothing is left pressed on the employee's machine that the injector does not
\* know it holds, except what SendInput itself refused to release and what a killed
\* process held
\* (input_injector.rs: "Every key and button we press is remembered until it is released").
StuckOnlyIfRefused == task # "killed" => down \subseteq held \cup refused

\* At most one frame, the one already accepted, is applied after an emergency stop.
OneLateFrame == late <= 1

\* Whatever is pressed when the gate is disarmed is released, even when the gate is
\* armed again at once and no further frame comes.
StopReleases == \A i \in Input : i \in owed ~> i \notin owed

=============================================================================
