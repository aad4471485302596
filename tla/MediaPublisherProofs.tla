------------------------ MODULE MediaPublisherProofs ------------------------
(***************************************************************************)
(* Theorems about the media publisher process: remote control by itself       *)
(* (RemoteControl), then the process that runs it (MediaPublisher), for any     *)
(* keys and buttons and any bounds.                                           *)
(***************************************************************************)
EXTENDS MediaPublisher, TLAPS

-----------------------------------------------------------------------------
(* Remote control. *)

\* A frame that was accepted before an emergency stop is the only one that can still
\* be applied after it, and it has not been yet.
LateBounded ==
  /\ late <= 1
  /\ ~armed /\ task = "apply" => late = 0

\* The ranges, in two halves the provers take one at a time.
GateTypes ==
  /\ armed \in BOOLEAN /\ roomGone \in BOOLEAN
  /\ stops \in 0..MaxStops /\ seenStops \in 0..MaxStops
  /\ lastSeq \in 0..MaxSeq /\ spent \in 0..Limit /\ late \in Nat

TaskTypes ==
  /\ inbound \in Seq(RoomEvent)
  /\ task \in {"off", "select", "apply", "ended", "killed"}
  /\ frame \in Frame \cup {NoFrame} /\ (task = "apply" => frame \in Frame)
  /\ held \subseteq Input /\ down \subseteq Input
  /\ refused \subseteq Input /\ owed \subseteq Input

ControlInv == ControlTypeOK /\ StuckOnlyIfRefused /\ LateBounded

-----------------------------------------------------------------------------
\* What the head of the queue holds.
LEMMA HeadFrame ==
  ASSUME ControlTypeOK, Data
  PROVE  /\ Head(inbound).data \in Frame
         /\ Tail(inbound) \in Seq(RoomEvent)
<1>1. Head(inbound) \in RoomEvent /\ Tail(inbound) \in Seq(RoomEvent)
  BY DEF ControlTypeOK, Data
<1>2. PICK f \in Frame : Head(inbound) = [data |-> f]
  BY <1>1 DEF Data, RoomEvent
<1>3. Head(inbound).data = f
  BY <1>2
<1> QED  BY <1>1, <1>2, <1>3

\* Whatever is held is released or refused; nothing else changes.
LEMMA ReleaseFacts ==
  ASSUME ControlTypeOK, ReleaseAll
  PROVE  /\ held' = {} /\ down' \subseteq Input /\ refused' \subseteq Input
         /\ owed' \subseteq Input
         /\ down \subseteq held \cup refused => down' \subseteq refused'
<1>1. PICK ok \in SUBSET held : Released(held, ok)
  BY DEF ReleaseAll
<1> QED  BY <1>1 DEF ControlTypeOK, ReleaseAll, Released

LEMMA ControlInit == InitControl => ControlInv
<1>1. 0 \in 0..MaxStops /\ 0 \in 0..MaxSeq /\ 0 \in 0..Limit
  BY ControlAssumption
<1> SUFFICES ASSUME InitControl PROVE ControlInv
  OBVIOUS
<1>2. GateTypes
  BY <1>1 DEF InitControl, GateTypes
<1>3. TaskTypes
  BY DEF InitControl, TaskTypes
<1>4. StuckOnlyIfRefused /\ LateBounded
  BY DEF InitControl, StuckOnlyIfRefused, LateBounded
<1> QED  BY <1>2, <1>3, <1>4 DEF ControlInv, ControlTypeOK, GateTypes, TaskTypes

-----------------------------------------------------------------------------
LEMMA ControlStep == ControlInv /\ [NextControl]_controlVars => ControlInv'
<1> SUFFICES ASSUME ControlInv, [NextControl]_controlVars PROVE ControlInv'
  OBVIOUS
<1> USE ControlAssumption DEF ControlInv, ControlTypeOK, StuckOnlyIfRefused, LateBounded,
        gateVars, streamVars, desktopVars
<1>1. CASE Arm
  <2>1. GateTypes' /\ LateBounded'
    BY <1>1 DEF Arm, GateTypes
  <2>2. TaskTypes' /\ StuckOnlyIfRefused'
    BY <1>1 DEF Arm, TaskTypes
  <2> QED  BY <2>1, <2>2 DEF GateTypes, TaskTypes
<1>2. CASE Disarm
  <2>3. /\ armed' \in BOOLEAN
        /\ UNCHANGED <<roomGone, seenStops, lastSeq, spent>>
    BY <1>2 DEF Disarm, Disarmed
  <2>4. stops' \in 0..MaxStops /\ late' \in Nat /\ LateBounded'
    BY <1>2 DEF Disarm, Disarmed
  <2>1. GateTypes' /\ LateBounded'
    BY <2>3, <2>4 DEF GateTypes
  <2>2. TaskTypes' /\ StuckOnlyIfRefused'
    BY <1>2 DEF Disarm, TaskTypes
  <2> QED  BY <2>1, <2>2 DEF GateTypes, TaskTypes
<1>3. CASE task = "off" /\ StartControl
  <2>1. GateTypes' /\ LateBounded'
    BY <1>3 DEF StartControl, GateTypes
  <2>2. TaskTypes' /\ StuckOnlyIfRefused'
    BY <1>3 DEF StartControl, TaskTypes
  <2> QED  BY <2>1, <2>2 DEF GateTypes, TaskTypes
<1>4. CASE DropControl
  <2>4. GateTypes'
    BY <1>4 DEF DropControl, GateTypes
  <2>5. TaskTypes'
    BY <1>4, ReleaseFacts DEF DropControl, TaskTypes
  <2>1. ControlTypeOK'
    BY <2>4, <2>5 DEF GateTypes, TaskTypes
  <2>2. StuckOnlyIfRefused'
    BY <1>4, ReleaseFacts DEF DropControl
  <2>3. LateBounded'
    BY <1>4 DEF DropControl
  <2> QED  BY <2>1, <2>2, <2>3
<1>5. CASE KillControl
  BY <1>5 DEF KillControl
<1>6. CASE NewWindow
  BY <1>6 DEF NewWindow
<1>7. ASSUME NEW e \in RoomEvent, RoomDelivers(e) PROVE ControlInv'
  BY <1>7 DEF RoomDelivers
<1>8. CASE Tick
  <2>1. ControlTypeOK'
    BY <1>8, ReleaseFacts DEF Tick
  <2>2. StuckOnlyIfRefused'
    BY <1>8, ReleaseFacts DEF Tick
  <2>3. LateBounded'
    BY <1>8 DEF Tick
  <2> QED  BY <2>1, <2>2, <2>3
<1>9. CASE Accept
  <2> DEFINE f == Head(inbound).data
  <2>1. /\ f \in Frame /\ armed /\ spent < Limit
        /\ frame' = f /\ lastSeq' = f.seq /\ spent' = spent + 1
        /\ inbound' \in Seq(RoomEvent) /\ task' = "apply" /\ task = "select"
        /\ UNCHANGED <<gateVars, desktopVars, seenStops, roomGone, late>>
    BY <1>9, HeadFrame DEF Accept, Data
  <2> HIDE DEF f
  <2>2. f.seq \in 0..MaxSeq
    BY <2>1 DEF Frame
  <2>3. ControlTypeOK'
    BY <2>1, <2>2
  <2> QED  BY <2>1, <2>3
<1>10. CASE Refuse
  <2>1. inbound' \in Seq(RoomEvent)
    BY <1>10, HeadFrame DEF Refuse
  <2>2. spent' \in 0..Limit
    BY <1>10 DEF Refuse
  <2> QED  BY <1>10, <2>1, <2>2 DEF Refuse
<1>11. CASE Apply
  <2>1. /\ frame \in Frame /\ task = "apply" /\ task' = "select" /\ frame' = NoFrame
        /\ late' = IF armed THEN late ELSE late + 1
        /\ UNCHANGED <<gateVars, lastSeq, spent, seenStops, inbound, roomGone>>
    BY <1>11 DEF Apply
  <2>2. frame.input \in Input
    BY <2>1 DEF Frame
  <2>3. /\ held' \subseteq Input /\ down' \subseteq Input
        /\ refused' \subseteq Input /\ owed' \subseteq Input
        /\ down' \subseteq held' \cup refused'
    <3>1. CASE NotApplied
      BY <2>1, <3>1 DEF NotApplied
    <3>2. CASE Press(frame.input)
      BY <2>1, <2>2, <3>2 DEF Press
    <3>3. CASE Release(frame.input)
      <4>1. PICK ok \in SUBSET {frame.input} : Released({frame.input}, ok)
        BY <3>3 DEF Release
      <4> QED  BY <2>1, <2>2, <3>3, <4>1 DEF Release, Released
    <3> QED  BY <1>11, <3>1, <3>2, <3>3 DEF Apply
  <2>4. LateBounded'
    BY <2>1
  <2> QED  BY <2>1, <2>3, <2>4
<1>12. CASE RoomLost
  <2>6. /\ armed' \in BOOLEAN /\ roomGone' \in BOOLEAN
        /\ UNCHANGED <<seenStops, lastSeq, spent>>
    BY <1>12 DEF RoomLost, Disarmed
  <2>7. stops' \in 0..MaxStops /\ late' \in Nat
    BY <1>12 DEF RoomLost, Disarmed
  <2>4. GateTypes'
    BY <2>6, <2>7 DEF GateTypes
  <2>5. TaskTypes'
    BY <1>12, ReleaseFacts DEF RoomLost, TaskTypes
  <2>1. ControlTypeOK'
    BY <2>4, <2>5 DEF GateTypes, TaskTypes
  <2>2. StuckOnlyIfRefused'
    BY <1>12, ReleaseFacts DEF RoomLost
  <2>3. LateBounded'
    BY <1>12 DEF RoomLost, Disarmed
  <2> QED  BY <2>1, <2>2, <2>3
<1>13. CASE UNCHANGED controlVars
  BY <1>13 DEF controlVars
<1> QED
  BY <1>1, <1>2, <1>3, <1>4, <1>5, <1>6, <1>7, <1>8, <1>9, <1>10, <1>11, <1>12, <1>13
     DEF NextControl, RoomSteps, ControlTask

THEOREM ControlInvariance == ControlSpec => []ControlInv
BY ControlInit, ControlStep, PTL DEF ControlSpec

\* Every variable keeps to its range, the rate window included (ControlTypeOK).
THEOREM ControlTyped == ControlSpec => []ControlTypeOK
<1>1. ControlInv => ControlTypeOK
  BY DEF ControlInv
<1> QED  BY <1>1, ControlInvariance, PTL

\* Until the process is killed, nothing stays pressed that the injector has forgotten,
\* except what SendInput refused to release (StuckOnlyIfRefused).
THEOREM NothingForgotten == ControlSpec => []StuckOnlyIfRefused
<1>1. ControlInv => StuckOnlyIfRefused
  BY DEF ControlInv
<1> QED  BY <1>1, ControlInvariance, PTL

\* One frame at most is applied after an emergency stop (OneLateFrame).
THEOREM StopHolds == ControlSpec => []OneLateFrame
<1>1. ControlInv => OneLateFrame
  BY DEF ControlInv, LateBounded, OneLateFrame
<1> QED  BY <1>1, ControlInvariance, PTL

-----------------------------------------------------------------------------
(* The process: what holds of its main thread at every place. *)

PublisherTypes ==
  /\ main \in {"unborn", "idle", "connect", "build", "pause", "live", "failing", "stopping",
              "dying", "gone"}
  /\ opening \in BOOLEAN /\ trigger \in {"first", "lost", "stalled"}
  /\ capture \in {"none", "good", "dead", "finished"} /\ rounds \in 0..MaxRounds
  /\ pending \in {"none", "lost"} /\ retryDue \in BOOLEAN
  /\ gap \in BOOLEAN /\ display \in BOOLEAN /\ lively \in BOOLEAN
  /\ quiet \in 0..ProbeMax /\ probe \in 1..ProbeMax
  /\ faults \in 0..MaxFaults /\ sent \in 0..MaxCommands
  /\ commands \in Seq(Command) /\ agentGone \in BOOLEAN
  /\ said \in {"none", "publishing", "reconnecting", "capturing"}
  /\ fresh \in BOOLEAN /\ frames \in 0..MaxFrames
  /\ pipe \in Seq(Process!Event) /\ Len(pipe) <= PipeSize

\* A capture runs only while it is being built or used, and the viewer knows of it.
CapturePlaced ==
  /\ capture # "none" => main \in {"build", "live", "stopping"} /\ said # "none"
  /\ main \in {"build", "pause", "live", "failing"} => said # "none"
  /\ main \in {"unborn", "idle"} => said = "none"

\* The first capture of a session is built inside start_first, before any other word.
FirstInOpening == main = "build" /\ trigger = "first" => opening /\ said = "publishing"

\* After MAX_RECOVERY_ROUNDS rounds the main thread goes on to give up.
RoundsLeft == main \in {"connect", "build", "pause", "live"} => rounds < MaxRounds

\* No control task is left over when a new one is started.
TaskOff == main = "connect" => task = "off"

PipeShut == agentGone => pipe = <<>>

PublisherInv ==
  /\ PublisherTypes /\ CapturePlaced /\ FirstInOpening /\ RoundsLeft /\ TaskOff /\ PipeShut
  /\ LossAnnounced


-----------------------------------------------------------------------------
\* Events are written one at a time, to a pipe that has room and a reader.
LEMMA Events ==
  /\ \A s \in {"idle", "starting", "stopped", "publishing", "reconnecting", "capturing"} :
       Process!StateEvent(s) \in Process!Event
  /\ \A c \in {"connection_failed", "capture_failed", "room_disconnected"} :
       Process!FatalEvent(c) \in Process!Event
  /\ \A n \in 0..MaxFrames : Process!MetricsEvent(n) \in Process!Event
BY DEF Process!Event, Process!Live, Process!Codes

LEMMA EmitFacts ==
  ASSUME PublisherTypes, PipeShut, NEW e \in Process!Event, Emit(e)
  PROVE  /\ pipe' \in Seq(Process!Event) /\ Len(pipe') <= PipeSize
         /\ agentGone => pipe' = <<>>
BY PublisherAssumption DEF PublisherTypes, PipeShut, Emit

\* The bounds that counters start from and are counted up to.
LEMMA Bounds ==
  /\ 0 \in 0..MaxRounds /\ 0 \in 0..ProbeMax /\ 1 \in 1..ProbeMax
  /\ 0 \in 0..MaxFaults /\ 0 \in 0..MaxCommands /\ 0 \in 0..MaxFrames
  /\ \A n \in 1..ProbeMax : Doubled(n) \in 1..ProbeMax
  /\ \A n \in 0..MaxFrames : (IF n < MaxFrames THEN n + 1 ELSE n) \in 0..MaxFrames
  /\ \A n \in 0..MaxRounds : n < MaxRounds => n + 1 \in 0..MaxRounds
BY PublisherAssumption DEF Doubled

LEMMA PublisherInit == Init => PublisherInv
<1> SUFFICES ASSUME Init PROVE PublisherInv
  OBVIOUS
<1>1. /\ pipe \in Seq(Process!Event) /\ Len(pipe) <= PipeSize
      /\ commands \in Seq(Command)
  BY PublisherAssumption DEF Init
<1>2. PublisherTypes
  BY <1>1, Bounds, Zenon DEF Init, PublisherTypes
<1> QED
  BY <1>2 DEF Init, PublisherInv, CapturePlaced, FirstInOpening, RoundsLeft, TaskOff, PipeShut,
       LossAnnounced, InitControl

\* Without a control task the room does nothing that starts one.
LEMMA RoomKeepsOff == task = "off" /\ RoomSteps => task' = "off"
BY DEF RoomSteps, NewWindow, RoomDelivers, ControlTask, Tick, Accept, Refuse, Apply, RoomLost, Data

LEMMA PublisherStep == PublisherInv /\ [Next]_vars => PublisherInv'
<1> SUFFICES ASSUME PublisherInv, [Next]_vars PROVE PublisherInv'
  OBVIOUS
<1> USE PublisherAssumption DEF PublisherInv, mainVars, captureVars, agentVars, outVars
<1> DEFINE Places == CapturePlaced /\ FirstInOpening /\ RoundsLeft /\ TaskOff /\ LossAnnounced
<1>1. CASE PipeConnects
  <2>1. pipe' \in Seq(Process!Event) /\ Len(pipe') <= PipeSize /\ PipeShut'
    BY <1>1, Events, EmitFacts DEF PipeConnects, PipeShut
  <2>2. PublisherTypes'
    BY <1>1, <2>1 DEF PipeConnects, PublisherTypes
  <2>3. Places'
    BY <1>1 DEF PipeConnects, PublisherTypes, CapturePlaced, FirstInOpening, RoundsLeft,
       TaskOff, LossAnnounced
  <2> QED  BY <2>1, <2>2, <2>3
<1>2. CASE TakeStart
  <2>1. pipe' \in Seq(Process!Event) /\ Len(pipe') <= PipeSize /\ PipeShut'
    BY <1>2, Events, EmitFacts DEF TakeStart, Takes, PipeShut
  <2>2. PublisherTypes'
    <3>1. commands' \in Seq(Command)
      BY <1>2 DEF TakeStart, Takes, PublisherTypes
    <3> QED  BY <1>2, <2>1, <3>1, Bounds, Zenon DEF TakeStart, PublisherTypes
  <2>3. Places'
    BY <1>2, Bounds DEF TakeStart, Takes, DropControl, PublisherTypes, CapturePlaced, FirstInOpening, RoundsLeft,
       TaskOff, LossAnnounced
  <2> QED  BY <2>1, <2>2, <2>3
<1>3. CASE Connected
  <2>1. pipe' \in Seq(Process!Event) /\ Len(pipe') <= PipeSize /\ PipeShut'
    BY <1>3, Events, EmitFacts DEF Connected, Say, StartControl, PipeShut
  <2>2. PublisherTypes'
    BY <1>3, <2>1 DEF Connected, Say, StartControl, PublisherTypes
  <2>3. Places'
    BY <1>3 DEF Connected, Say, StartControl, PublisherTypes, CapturePlaced, FirstInOpening, RoundsLeft,
       TaskOff, LossAnnounced
  <2> QED  BY <2>1, <2>2, <2>3
<1>4. CASE ConnectFails
  <2>1. pipe' \in Seq(Process!Event) /\ Len(pipe') <= PipeSize /\ PipeShut'
    BY <1>4, Events, EmitFacts DEF ConnectFails, Fatal, PipeShut
  <2>2. PublisherTypes'
    BY <1>4, <2>1 DEF ConnectFails, Fatal, PublisherTypes
  <2>3. Places'
    BY <1>4 DEF ConnectFails, Fatal, PublisherTypes, CapturePlaced, FirstInOpening, RoundsLeft,
       TaskOff, LossAnnounced
  <2> QED  BY <2>1, <2>2, <2>3
<1>5. CASE TakeSetControl(TRUE)
  <2>1. pipe' \in Seq(Process!Event) /\ Len(pipe') <= PipeSize /\ PipeShut'
    BY <1>5, Events, EmitFacts DEF TakeSetControl, Takes, Arm, PipeShut
  <2>2. PublisherTypes'
    BY <1>5, <2>1 DEF TakeSetControl, Takes, Arm, PublisherTypes
  <2>3. Places'
    BY <1>5 DEF TakeSetControl, Takes, Arm, PublisherTypes, CapturePlaced, FirstInOpening, RoundsLeft,
       TaskOff, LossAnnounced
  <2> QED  BY <2>1, <2>2, <2>3
<1>6. CASE TakeSetControl(FALSE)
  <2>1. pipe' \in Seq(Process!Event) /\ Len(pipe') <= PipeSize /\ PipeShut'
    BY <1>6, Events, EmitFacts DEF TakeSetControl, Takes, Disarm, Disarmed, PipeShut
  <2>2. PublisherTypes'
    BY <1>6, <2>1 DEF TakeSetControl, Takes, Disarm, Disarmed, PublisherTypes
  <2>3. Places'
    BY <1>6 DEF TakeSetControl, Takes, Disarm, Disarmed, PublisherTypes, CapturePlaced, FirstInOpening, RoundsLeft,
       TaskOff, LossAnnounced
  <2> QED  BY <2>1, <2>2, <2>3
<1>7. CASE TakeStop
  <2>1. pipe' \in Seq(Process!Event) /\ Len(pipe') <= PipeSize /\ PipeShut'
    BY <1>7 DEF TakeStop, Takes, Disarm, Disarmed, PipeShut, PublisherTypes
  <2>2. PublisherTypes'
    BY <1>7, <2>1 DEF TakeStop, Takes, Disarm, Disarmed, PublisherTypes
  <2>3. Places'
    BY <1>7 DEF TakeStop, Takes, Disarm, Disarmed, PublisherTypes, CapturePlaced, FirstInOpening, RoundsLeft,
       TaskOff, LossAnnounced
  <2> QED  BY <2>1, <2>2, <2>3
<1>8. CASE StopDone
  <2>1. pipe' \in Seq(Process!Event) /\ Len(pipe') <= PipeSize /\ PipeShut'
    BY <1>8, Events, EmitFacts DEF StopDone, PipeShut
  <2>2. PublisherTypes'
    BY <1>8, <2>1 DEF StopDone, PublisherTypes
  <2>3. Places'
    BY <1>8 DEF StopDone, PublisherTypes, CapturePlaced, FirstInOpening, RoundsLeft,
       TaskOff, LossAnnounced
  <2> QED  BY <2>1, <2>2, <2>3
<1>9. CASE TakeGarbage
  <2>1. pipe' \in Seq(Process!Event) /\ Len(pipe') <= PipeSize /\ PipeShut'
    BY <1>9 DEF TakeGarbage, Takes, PipeShut, PublisherTypes
  <2>2. PublisherTypes'
    BY <1>9, <2>1 DEF TakeGarbage, Takes, PublisherTypes
  <2>3. Places'
    BY <1>9 DEF TakeGarbage, Takes, PublisherTypes, CapturePlaced, FirstInOpening, RoundsLeft,
       TaskOff, LossAnnounced
  <2> QED  BY <2>1, <2>2, <2>3
<1>10. CASE PipeClosed
  <2>1. pipe' \in Seq(Process!Event) /\ Len(pipe') <= PipeSize /\ PipeShut'
    BY <1>10 DEF PipeClosed, PipeShut, PublisherTypes
  <2>2. PublisherTypes'
    BY <1>10, <2>1 DEF PipeClosed, PublisherTypes
  <2>3. Places'
    BY <1>10 DEF PipeClosed, PublisherTypes, CapturePlaced, FirstInOpening, RoundsLeft,
       TaskOff, LossAnnounced
  <2> QED  BY <2>1, <2>2, <2>3
<1>11. CASE ProcessReturns
  <2>1. pipe' \in Seq(Process!Event) /\ Len(pipe') <= PipeSize /\ PipeShut'
    BY <1>11 DEF ProcessReturns, PipeShut, PublisherTypes
  <2>2. PublisherTypes'
    BY <1>11, <2>1 DEF ProcessReturns, PublisherTypes
  <2>3. Places'
    BY <1>11 DEF ProcessReturns, PublisherTypes, CapturePlaced, FirstInOpening, RoundsLeft,
       TaskOff, LossAnnounced
  <2> QED  BY <2>1, <2>2, <2>3
<1>12. CASE RoomEnded
  <2>1. pipe' \in Seq(Process!Event) /\ Len(pipe') <= PipeSize /\ PipeShut'
    BY <1>12, Events, EmitFacts DEF RoomEnded, Ticking, Fatal, PipeShut
  <2>2. PublisherTypes'
    BY <1>12, <2>1 DEF RoomEnded, Ticking, Fatal, PublisherTypes
  <2>3. Places'
    BY <1>12 DEF RoomEnded, Ticking, Fatal, PublisherTypes, CapturePlaced, FirstInOpening, RoundsLeft,
       TaskOff, LossAnnounced
  <2> QED  BY <2>1, <2>2, <2>3
<1>13. CASE Recover
  <2>1. pipe' \in Seq(Process!Event) /\ Len(pipe') <= PipeSize /\ PipeShut'
    BY <1>13, Events, EmitFacts DEF Recover, Ticking, Rebuild, Say, Issue, Limited, PipeShut, PublisherTypes
  <2>2. PublisherTypes'
    BY <1>13, <2>1 DEF Recover, Ticking, Rebuild, Say, Issue, Limited, PublisherTypes
  <2>3. Places'
    BY <1>13 DEF Recover, Ticking, Rebuild, Say, Issue, Limited, PublisherTypes, CapturePlaced, FirstInOpening, RoundsLeft,
       TaskOff, LossAnnounced
  <2> QED  BY <2>1, <2>2, <2>3
<1>14. CASE TickWhileWaiting
  <2>1. pipe' \in Seq(Process!Event) /\ Len(pipe') <= PipeSize /\ PipeShut'
    BY <1>14 DEF TickWhileWaiting, Ticking, PipeShut, PublisherTypes
  <2>2. PublisherTypes'
    BY <1>14, <2>1 DEF TickWhileWaiting, Ticking, PublisherTypes
  <2>3. Places'
    BY <1>14 DEF TickWhileWaiting, Ticking, PublisherTypes, CapturePlaced, FirstInOpening, RoundsLeft,
       TaskOff, LossAnnounced
  <2> QED  BY <2>1, <2>2, <2>3
<1>15. CASE Retry
  <2>1. pipe' \in Seq(Process!Event) /\ Len(pipe') <= PipeSize /\ PipeShut'
    BY <1>15, Events, EmitFacts DEF Retry, Rebuild, Say, PipeShut
  <2>2. PublisherTypes'
    BY <1>15, <2>1 DEF Retry, Rebuild, Say, PublisherTypes
  <2>3. Places'
    BY <1>15 DEF Retry, Rebuild, Say, PublisherTypes, CapturePlaced, FirstInOpening, RoundsLeft,
       TaskOff, LossAnnounced
  <2> QED  BY <2>1, <2>2, <2>3
<1>16. CASE GiveUp
  <2>1. pipe' \in Seq(Process!Event) /\ Len(pipe') <= PipeSize /\ PipeShut'
    BY <1>16, Events, EmitFacts DEF GiveUp, Fatal, PipeShut
  <2>2. PublisherTypes'
    BY <1>16, <2>1 DEF GiveUp, Fatal, PublisherTypes
  <2>3. Places'
    BY <1>16 DEF GiveUp, Fatal, PublisherTypes, CapturePlaced, FirstInOpening, RoundsLeft,
       TaskOff, LossAnnounced
  <2> QED  BY <2>1, <2>2, <2>3
<1>17. CASE StartAttempt
  <2>1. pipe' \in Seq(Process!Event) /\ Len(pipe') <= PipeSize /\ PipeShut'
    BY <1>17 DEF StartAttempt, PipeShut, PublisherTypes
  <2>2. PublisherTypes'
    BY <1>17, <2>1 DEF StartAttempt, PublisherTypes
  <2>3. Places'
    BY <1>17 DEF StartAttempt, PublisherTypes, CapturePlaced, FirstInOpening, RoundsLeft,
       TaskOff, LossAnnounced
  <2> QED  BY <2>1, <2>2, <2>3
<1>18. CASE Built
  <2>1. pipe' \in Seq(Process!Event) /\ Len(pipe') <= PipeSize /\ PipeShut'
    BY <1>18, Events, EmitFacts DEF Built, FrameSeen, Say, Doubled, Limited, PipeShut, PublisherTypes
  <2>2. PublisherTypes'
    <3>1. Limited \in 1..ProbeMax
      BY Bounds DEF Limited, PublisherTypes
    <3>2. probe' \in 1..ProbeMax
      BY <1>18, <3>1, Bounds DEF Built
    <3> QED  BY <1>18, <2>1, <3>2, Bounds DEF Built, FrameSeen, Say, PublisherTypes
  <2>3. Places'
    BY <1>18 DEF Built, FrameSeen, Say, Doubled, Limited, PublisherTypes, CapturePlaced, FirstInOpening, RoundsLeft,
       TaskOff, LossAnnounced
  <2> QED  BY <2>1, <2>2, <2>3
<1>19. CASE BuildFails
  <2>1. pipe' \in Seq(Process!Event) /\ Len(pipe') <= PipeSize /\ PipeShut'
    BY <1>19, Events, EmitFacts DEF BuildFails, Say, PipeShut, PublisherTypes
  <2>2. PublisherTypes'
    BY <1>19, <2>1, Bounds DEF BuildFails, Say, PublisherTypes, RoundsLeft
  <2>3. Places'
    BY <1>19 DEF BuildFails, Say, PublisherTypes, CapturePlaced, FirstInOpening, RoundsLeft,
       TaskOff, LossAnnounced
  <2> QED  BY <2>1, <2>2, <2>3
<1>20. ASSUME NEW c \in Command, AgentSends(c) PROVE PublisherInv'
  <2>1. pipe' \in Seq(Process!Event) /\ Len(pipe') <= PipeSize /\ PipeShut'
    BY <1>20 DEF AgentSends, Running, PipeShut, PublisherTypes
  <2>2. PublisherTypes'
    BY <1>20, <2>1 DEF AgentSends, Running, PublisherTypes
  <2>3. Places'
    BY <1>20 DEF AgentSends, Running, controlVars, PublisherTypes, CapturePlaced, FirstInOpening, RoundsLeft,
       TaskOff, LossAnnounced
  <2> QED  BY <2>1, <2>2, <2>3
<1>21. CASE Ticker
  <2>1. pipe' \in Seq(Process!Event) /\ Len(pipe') <= PipeSize /\ PipeShut'
    BY <1>21, Events, EmitFacts DEF Ticker, Running, PipeShut, PublisherTypes
  <2>2. PublisherTypes'
    BY <1>21, <2>1 DEF Ticker, Running, PublisherTypes
  <2>3. Places'
    BY <1>21 DEF Ticker, Running, controlVars, PublisherTypes, CapturePlaced, FirstInOpening, RoundsLeft,
       TaskOff, LossAnnounced
  <2> QED  BY <2>1, <2>2, <2>3
<1>22. CASE Control
  <2>1. pipe' \in Seq(Process!Event) /\ Len(pipe') <= PipeSize /\ PipeShut'
    BY <1>22 DEF Control, PipeShut, PublisherTypes
  <2>2. PublisherTypes'
    BY <1>22, <2>1 DEF Control, PublisherTypes
  <2>3. Places'
    BY <1>22, RoomKeepsOff DEF Control, PublisherTypes, CapturePlaced, FirstInOpening, RoundsLeft,
       TaskOff, LossAnnounced
  <2> QED  BY <2>1, <2>2, <2>3
<1>23. CASE AgentReads
  <2>1. pipe' \in Seq(Process!Event) /\ Len(pipe') <= PipeSize /\ PipeShut'
    BY <1>23 DEF AgentReads, PipeShut, PublisherTypes
  <2>2. PublisherTypes'
    BY <1>23, <2>1 DEF AgentReads, PublisherTypes
  <2>3. Places'
    BY <1>23 DEF AgentReads, controlVars, PublisherTypes, CapturePlaced, FirstInOpening, RoundsLeft,
       TaskOff, LossAnnounced
  <2> QED  BY <2>1, <2>2, <2>3
<1>24. CASE AgentCloses
  <2>1. pipe' \in Seq(Process!Event) /\ Len(pipe') <= PipeSize /\ PipeShut'
    BY <1>24 DEF AgentCloses, Running, PipeShut, PublisherTypes
  <2>2. PublisherTypes'
    BY <1>24, <2>1 DEF AgentCloses, Running, PublisherTypes
  <2>3. Places'
    BY <1>24 DEF AgentCloses, Running, controlVars, PublisherTypes, CapturePlaced, FirstInOpening, RoundsLeft,
       TaskOff, LossAnnounced
  <2> QED  BY <2>1, <2>2, <2>3
<1>25. CASE Killed
  <2>1. pipe' \in Seq(Process!Event) /\ Len(pipe') <= PipeSize /\ PipeShut'
    BY <1>25 DEF Killed, Running, KillControl, PipeShut, PublisherTypes
  <2>2. PublisherTypes'
    BY <1>25, <2>1 DEF Killed, Running, KillControl, PublisherTypes
  <2>3. Places'
    BY <1>25 DEF Killed, Running, KillControl, PublisherTypes, CapturePlaced, FirstInOpening, RoundsLeft,
       TaskOff, LossAnnounced
  <2> QED  BY <2>1, <2>2, <2>3
<1>26. CASE Sleep
  <2>1. pipe' \in Seq(Process!Event) /\ Len(pipe') <= PipeSize /\ PipeShut'
    BY <1>26 DEF Sleep, Fault, PipeShut, PublisherTypes
  <2>2. PublisherTypes'
    BY <1>26, <2>1 DEF Sleep, Fault, PublisherTypes
  <2>3. Places'
    BY <1>26 DEF Sleep, Fault, PublisherTypes, CapturePlaced, FirstInOpening, RoundsLeft,
       TaskOff, LossAnnounced
  <2> QED  BY <2>1, <2>2, <2>3
<1>27. CASE ItemCloses
  <2>1. pipe' \in Seq(Process!Event) /\ Len(pipe') <= PipeSize /\ PipeShut'
    BY <1>27 DEF ItemCloses, Fault, PipeShut, PublisherTypes
  <2>2. PublisherTypes'
    BY <1>27, <2>1 DEF ItemCloses, Fault, PublisherTypes
  <2>3. Places'
    BY <1>27 DEF ItemCloses, Fault, PublisherTypes, CapturePlaced, FirstInOpening, RoundsLeft,
       TaskOff, LossAnnounced
  <2> QED  BY <2>1, <2>2, <2>3
<1>28. CASE DisplayChanges
  <2>1. pipe' \in Seq(Process!Event) /\ Len(pipe') <= PipeSize /\ PipeShut'
    BY <1>28 DEF DisplayChanges, Fault, PipeShut, PublisherTypes
  <2>2. PublisherTypes'
    BY <1>28, <2>1 DEF DisplayChanges, Fault, PublisherTypes
  <2>3. Places'
    BY <1>28 DEF DisplayChanges, Fault, PublisherTypes, CapturePlaced, FirstInOpening, RoundsLeft,
       TaskOff, LossAnnounced
  <2> QED  BY <2>1, <2>2, <2>3
<1>29. CASE FrameArrives
  <2>1. pipe' \in Seq(Process!Event) /\ Len(pipe') <= PipeSize /\ PipeShut'
    BY <1>29 DEF FrameArrives, PipeShut, PublisherTypes
  <2>2. PublisherTypes'
    <3>1. frames' \in 0..MaxFrames
      BY <1>29, Bounds DEF FrameArrives, PublisherTypes
    <3>2. lively' \in BOOLEAN /\ fresh' \in BOOLEAN /\ quiet' \in 0..ProbeMax
      BY <1>29, Bounds DEF FrameArrives, PublisherTypes
    <3>3. UNCHANGED <<main, opening, trigger, capture, rounds, pending, retryDue, gap, display,
                      probe, faults, commands, sent, agentGone, said>>
      BY <1>29 DEF FrameArrives
    <3> QED  BY <2>1, <3>1, <3>2, <3>3 DEF PublisherTypes
  <2>3. Places'
    BY <1>29 DEF FrameArrives, PublisherTypes, CapturePlaced, FirstInOpening, RoundsLeft,
       TaskOff, LossAnnounced
  <2> QED  BY <2>1, <2>2, <2>3
<1>30. CASE Silence
  <2>1. pipe' \in Seq(Process!Event) /\ Len(pipe') <= PipeSize /\ PipeShut'
    BY <1>30 DEF Silence, PipeShut, PublisherTypes
  <2>2. PublisherTypes'
    BY <1>30, <2>1 DEF Silence, PublisherTypes
  <2>3. Places'
    BY <1>30 DEF Silence, PublisherTypes, CapturePlaced, FirstInOpening, RoundsLeft,
       TaskOff, LossAnnounced
  <2> QED  BY <2>1, <2>2, <2>3
<1>31. CASE RetryTime
  <2>1. pipe' \in Seq(Process!Event) /\ Len(pipe') <= PipeSize /\ PipeShut'
    BY <1>31 DEF RetryTime, PipeShut, PublisherTypes
  <2>2. PublisherTypes'
    BY <1>31, <2>1 DEF RetryTime, PublisherTypes
  <2>3. Places'
    BY <1>31 DEF RetryTime, PublisherTypes, CapturePlaced, FirstInOpening, RoundsLeft,
       TaskOff, LossAnnounced
  <2> QED  BY <2>1, <2>2, <2>3
<1>32. CASE UNCHANGED vars
  BY <1>32 DEF vars, controlVars, PublisherTypes, CapturePlaced, FirstInOpening, RoundsLeft, TaskOff,
       PipeShut, LossAnnounced
<1> QED
  BY <1>1, <1>2, <1>3, <1>4, <1>5, <1>6, <1>7, <1>8, <1>9, <1>10, <1>11, <1>12, <1>13, <1>14, <1>15, <1>16, <1>17, <1>18, <1>19, <1>20, <1>21, <1>22, <1>23, <1>24, <1>25, <1>26, <1>27, <1>28, <1>29, <1>30, <1>31, <1>32
     DEF Next, MainThread

THEOREM PublisherInvariance == Spec => []PublisherInv
BY PublisherInit, PublisherStep, PTL DEF Spec

\* A loss of the capture the main thread knows of was announced (LossAnnounced).
THEOREM LossTold == Spec => []LossAnnounced
<1>1. PublisherInv => LossAnnounced
  BY DEF PublisherInv
<1> QED  BY <1>1, PublisherInvariance, PTL

\* Everything keeps its type: places, counters within their bounds, a pipe of events that
\* holds no more than it has room for.
THEOREM PublisherTyped == Spec => []PublisherTypes
<1>1. PublisherInv => PublisherTypes
  BY DEF PublisherInv
<1> QED  BY <1>1, PublisherInvariance, PTL

\* The screen is captured only by a process that has told the agent that it publishes, and
\* that the main thread is building, watching or stopping: none before Start was answered,
\* while a retry is awaited, or after a fatal event (CapturePlaced).
THEOREM CaptureAnnounced == Spec => []CapturePlaced
<1>1. PublisherInv => CapturePlaced
  BY DEF PublisherInv
<1> QED  BY <1>1, PublisherInvariance, PTL

-----------------------------------------------------------------------------
(* The agent's reader leaves its loop at a fatal event, and puts the indicator out  *)
(* at "stopped": a process says nothing after either but its ticker's metrics.     *)

FinalEvent(e) == e.event = "fatal" \/ (e.event = "state" /\ e.state = "stopped")
Unfinished == \A i \in 1..Len(pipe) : ~FinalEvent(pipe[i])

\* After the last word of the process only metrics follow.
NothingAfterFinal ==
  \A i, j \in 1..Len(pipe) : i < j /\ FinalEvent(pipe[i]) => pipe[j].event = "metrics"

FinalInv == NothingAfterFinal /\ (main \notin {"dying", "gone"} => Unfinished)

LEMMA FinalInit == Init => FinalInv
BY DEF Init, FinalInv, NothingAfterFinal, Unfinished

LEMMA EmitAppends ==
  ASSUME PublisherTypes, NEW e \in Process!Event, Emit(e)
  PROVE  \/ pipe' = pipe
         \/ /\ Len(pipe') = Len(pipe) + 1 /\ pipe'[Len(pipe) + 1] = e
            /\ \A i \in 1..Len(pipe) : pipe'[i] = pipe[i]
BY DEF PublisherTypes, Emit

\* An event of a process that had not said its last word, or metrics of any process.
LEMMA EmitFinal ==
  ASSUME PublisherTypes, FinalInv, NEW e \in Process!Event, Emit(e),
         main \notin {"dying", "gone"} \/ e.event = "metrics"
  PROVE  /\ NothingAfterFinal'
         /\ Unfinished /\ ~FinalEvent(e) => Unfinished'
<1>1. Len(pipe) \in Nat
  BY DEF PublisherTypes
<1>2. CASE pipe' = pipe
  BY <1>2 DEF FinalInv, NothingAfterFinal, Unfinished
<1>3. CASE /\ Len(pipe') = Len(pipe) + 1 /\ pipe'[Len(pipe) + 1] = e
           /\ \A i \in 1..Len(pipe) : pipe'[i] = pipe[i]
  <2>1. NothingAfterFinal'
    <3> SUFFICES ASSUME NEW i \in 1..Len(pipe'), NEW j \in 1..Len(pipe'),
                        i < j, FinalEvent(pipe'[i])
                 PROVE  pipe'[j].event = "metrics"
      BY DEF NothingAfterFinal, FinalEvent
    <3>1. i \in 1..Len(pipe) /\ FinalEvent(pipe[i])
      BY <1>1, <1>3
    <3>2. CASE j \in 1..Len(pipe)
      BY <1>3, <3>1, <3>2 DEF FinalInv, NothingAfterFinal
    <3>3. CASE j = Len(pipe) + 1
      BY <1>3, <3>1, <3>3 DEF FinalInv, Unfinished
    <3> QED  BY <1>1, <1>3, <3>2, <3>3
  <2>2. Unfinished /\ ~FinalEvent(e) => Unfinished'
    BY <1>1, <1>3 DEF Unfinished, FinalEvent
  <2> QED  BY <2>1, <2>2
<1> QED  BY <1>2, <1>3, EmitAppends

LEMMA ReadFinal ==
  ASSUME PublisherTypes, FinalInv, AgentReads
  PROVE  FinalInv'
<1>1. /\ Len(pipe) \in Nat /\ Len(pipe') = Len(pipe) - 1
      /\ \A i \in 1..Len(pipe') : i + 1 \in 1..Len(pipe) /\ pipe'[i] = pipe[i + 1]
  BY DEF AgentReads, PublisherTypes
<1>2. NothingAfterFinal'
  BY <1>1 DEF FinalInv, NothingAfterFinal, FinalEvent
<1>3. main' \notin {"dying", "gone"} => Unfinished'
  BY <1>1 DEF FinalInv, Unfinished, FinalEvent, AgentReads, mainVars
<1> QED  BY <1>2, <1>3 DEF FinalInv

LEMMA EventKinds ==
  /\ \A s \in {"idle", "starting", "publishing", "reconnecting", "capturing"} :
       ~FinalEvent(Process!StateEvent(s))
  /\ \A n \in 0..MaxFrames : /\ Process!MetricsEvent(n).event = "metrics"
                             /\ ~FinalEvent(Process!MetricsEvent(n))
BY DEF FinalEvent, Process!StateEvent, Process!MetricsEvent

LEMMA FinalStep == PublisherInv /\ FinalInv /\ [Next]_vars => FinalInv'
<1> SUFFICES ASSUME PublisherInv, FinalInv, [Next]_vars PROVE FinalInv'
  OBVIOUS
<1> USE DEF PublisherInv, mainVars, captureVars, agentVars, outVars
<1>0. ASSUME UNCHANGED pipe, main \in {"dying", "gone"} => main' \in {"dying", "gone"}
      PROVE  FinalInv'
  BY <1>0 DEF FinalInv, NothingAfterFinal, Unfinished
<1>1. ASSUME NEW s \in {"idle", "starting", "publishing", "reconnecting", "capturing"},
             Emit(Process!StateEvent(s)), main \notin {"dying", "gone"}
      PROVE  FinalInv'
  BY <1>1, Events, EventKinds, EmitFinal, Zenon DEF FinalInv
<1>2. ASSUME NEW e \in Process!Event, Emit(e), main \notin {"dying", "gone"}, main' = "dying"
      PROVE  FinalInv'
  BY <1>2, EmitFinal, Zenon DEF FinalInv
<1>3. CASE MainThread
  <2>1. CASE PipeConnects
    BY <1>1, <2>1 DEF PipeConnects
  <2>2. CASE TakeStart
    BY <1>1, <2>2 DEF TakeStart, Takes
  <2>3. CASE Connected
    BY <1>1, <2>3 DEF Connected, Say
  <2>4. CASE ConnectFails
    BY <1>2, <2>4, Events DEF ConnectFails, Fatal
  <2>5. CASE TakeSetControl(TRUE) \/ TakeSetControl(FALSE)
    BY <1>1, <2>5 DEF TakeSetControl, Takes
  <2>6. CASE StopDone
    BY <1>2, <2>6, Events DEF StopDone
  <2>7. CASE RoomEnded \/ GiveUp
    BY <1>2, <2>7, Events DEF RoomEnded, GiveUp, Fatal, Ticking
  <2>8. CASE Recover \/ Retry
    <3>1. main \notin {"dying", "gone"} /\ main' = "build"
      BY <2>8 DEF Recover, Retry, Rebuild, Ticking
    <3>2. UNCHANGED pipe \/ Emit(Process!StateEvent("reconnecting"))
      BY <2>8 DEF Recover, Retry, Rebuild, Say
    <3> QED  BY <1>0, <1>1, <3>1, <3>2
  <2>9. CASE Built
    BY <1>0, <1>1, <2>9 DEF Built, FrameSeen, Say
  <2>10. CASE BuildFails
    BY <1>0, <1>1, <2>10 DEF BuildFails, Say
  <2>11. CASE TakeStop \/ TakeGarbage \/ PipeClosed \/ ProcessReturns
    BY <1>0, <2>11 DEF TakeStop, TakeGarbage, PipeClosed, ProcessReturns, Takes
  <2>12. CASE TickWhileWaiting \/ StartAttempt
    BY <1>0, <2>12 DEF TickWhileWaiting, StartAttempt
  <2> QED
    BY <1>3, <2>1, <2>2, <2>3, <2>4, <2>5, <2>6, <2>7, <2>8, <2>9, <2>10, <2>11, <2>12 DEF MainThread
<1>4. CASE Ticker
  <2>1. Process!MetricsEvent(frames) \in Process!Event /\ Emit(Process!MetricsEvent(frames))
        /\ UNCHANGED main /\ frames \in 0..MaxFrames
    BY <1>4, Events DEF Ticker, PublisherTypes
  <2> QED  BY <2>1, EventKinds, EmitFinal, Zenon DEF FinalInv
<1>5. CASE AgentReads
  BY <1>5, ReadFinal
<1>6. CASE AgentCloses
  BY <1>6 DEF AgentCloses, FinalInv, NothingAfterFinal, Unfinished
<1>7. CASE Control \/ Killed \/ (\E c \in Command : AgentSends(c))
  BY <1>0, <1>7 DEF Control, Killed, AgentSends
<1>8. CASE Sleep \/ ItemCloses \/ DisplayChanges \/ FrameArrives \/ Silence \/ RetryTime
  BY <1>0, <1>8 DEF Sleep, ItemCloses, DisplayChanges, FrameArrives, Silence, RetryTime
<1>9. CASE UNCHANGED vars
  BY <1>0, <1>9 DEF vars
<1> QED  BY <1>3, <1>4, <1>5, <1>6, <1>7, <1>8, <1>9 DEF Next

\* A reader that leaves at "fatal" misses nothing, and an indicator put out by "stopped" is
\* not lit again: the process says no more of its state, wherever it ended, though its
\* ticker still runs (NothingAfterFinal).
THEOREM LastWord == Spec => []NothingAfterFinal
<1>1. FinalInv => NothingAfterFinal
  BY DEF FinalInv
<1> QED  BY <1>1, FinalInit, FinalStep, PublisherInvariance, PTL DEF Spec

-----------------------------------------------------------------------------
(* Every step of the process is a step of remote control, or leaves it alone. *)

LEMMA ControlRefined == PublisherInv /\ [Next]_vars => [NextControl]_controlVars
<1> SUFFICES ASSUME PublisherInv, [Next]_vars PROVE [NextControl]_controlVars
  OBVIOUS
<1> USE DEF NextControl
<1>1. CASE MainThread
  <2>1. CASE Connected
    BY <1>1, <2>1 DEF Connected, PublisherInv, TaskOff
  <2>2. CASE TakeStart \/ StopDone \/ TakeGarbage \/ PipeClosed \/ ProcessReturns \/ RoomEnded \/ GiveUp
    BY <2>2 DEF TakeStart, StopDone, TakeGarbage, PipeClosed, ProcessReturns, RoomEnded, GiveUp
  <2>3. CASE TakeSetControl(TRUE) \/ TakeSetControl(FALSE) \/ TakeStop
    BY <2>3 DEF TakeSetControl, TakeStop
  <2>4. CASE PipeConnects \/ ConnectFails \/ Recover \/ TickWhileWaiting \/ Retry \/ StartAttempt
             \/ Built \/ BuildFails
    BY <2>4 DEF PipeConnects, ConnectFails, Recover, TickWhileWaiting, Retry, StartAttempt, Built,
       BuildFails
  <2> QED  BY <1>1, <2>1, <2>2, <2>3, <2>4 DEF MainThread
<1>2. CASE Control \/ Killed
  BY <1>2 DEF Control, Killed
<1>3. CASE Ticker \/ (\E c \in Command : AgentSends(c)) \/ AgentReads \/ AgentCloses
  BY <1>3 DEF Ticker, AgentSends, AgentReads, AgentCloses
<1>4. CASE Sleep \/ ItemCloses \/ DisplayChanges \/ FrameArrives \/ Silence \/ RetryTime
  BY <1>4 DEF Sleep, ItemCloses, DisplayChanges, FrameArrives, Silence, RetryTime
<1>5. CASE UNCHANGED vars
  BY <1>5 DEF vars
<1> QED  BY <1>1, <1>2, <1>3, <1>4, <1>5 DEF Next

\* What the main thread does to remote control, in any order and between any two steps of
\* its task, is what RemoteControl allows; so its theorems hold inside the process.
THEOREM RunsControl == Spec => ControlSpec
<1>1. Init => InitControl
  BY DEF Init
<1> QED  BY <1>1, ControlRefined, PublisherInvariance, PTL DEF Spec, ControlSpec

\* Inside the process too at most one frame is applied after an emergency stop, whatever
\* the main thread was doing when it came (OneLateFrame).
THEOREM StopHoldsInside == Spec => []OneLateFrame
BY RunsControl, StopHolds, PTL

-----------------------------------------------------------------------------
(* The process keeps the promises of PublisherProcess. *)

LEMMA EmitRefined ==
  ASSUME NEW e, Emit(e), UNCHANGED agentGone
  PROVE  Process!Emit("it", e) /\ UNCHANGED [p \in {"it"} |-> ~agentGone]
BY DEF Emit, Process!Emit

LEMMA SaysRefined ==
  ASSUME NEW from, NEW s, Phase \in from, Phase' = s, Emit(Process!StateEvent(s)),
         UNCHANGED <<agentGone, frames>>, main # "gone", main' # "gone"
  PROVE  Process!Says("it", from, s)
BY EmitRefined DEF Process!Says

LEMMA ProcessInit == Init => Process!Init
BY DEF Init, Process!Init, Phase

LEMMA GoneRefined ==
  ASSUME PublisherTypes, main # "gone", main' = "gone", UNCHANGED <<pipe, agentGone>>
  PROVE  Process!Gone("it")
<1>1. Phase # "gone" /\ Phase' = "gone"
  BY DEF Phase, PublisherTypes
<1> QED  BY <1>1 DEF Process!Gone

LEMMA ProbeRefined ==
  ASSUME Phase \in Process!Live, UNCHANGED <<Phase, frames, pipe, agentGone>>, fresh' = FALSE,
         main # "gone", main' # "gone"
  PROVE  Process!Probe("it")
BY DEF Process!Probe

LEMMA FailRefined ==
  ASSUME NEW code, Phase \in (IF code = "connection_failed" THEN {"starting"} ELSE Process!Live),
         Phase' = "dying", Fatal(code), UNCHANGED <<agentGone, frames, fresh>>,
         main # "gone", main' # "gone"
  PROVE  Process!Fail("it", code)
<1>1. Process!Emit("it", Process!FatalEvent(code)) /\ UNCHANGED [p \in {"it"} |-> ~agentGone]
  BY EmitRefined DEF Fatal
<1> QED  BY <1>1 DEF Process!Fail

LEMMA StutterRefined ==
  ASSUME UNCHANGED <<Phase, fresh, frames, pipe, agentGone>>, main' = "gone" <=> main = "gone"
  PROVE  UNCHANGED Process!procVars
BY DEF Process!procVars

\* What the agent thinks of the process, by the place of its main thread.
LEMMA PhaseFacts ==
  ASSUME PublisherInv
  PROVE  /\ main \in {"build", "pause", "live", "failing"} =>
              Phase = said /\ Phase \in Process!Live /\ main # "gone"
         /\ main \in {"idle", "live", "stopping"} =>
              Phase \in Process!Live \cup {"idle"} /\ main # "gone"
         /\ main = "connect" => Phase = "starting" /\ main # "gone"
BY DEF PublisherInv, PublisherTypes, CapturePlaced, Phase, Process!Live

LEMMA ProcessStep == PublisherInv /\ [Next]_vars => [Process!Next]_(Process!procVars)
<1> SUFFICES ASSUME PublisherInv, [Next]_vars PROVE [Process!Next]_(Process!procVars)
  OBVIOUS
<1> DEFINE Done == Process!Step("it") \/ Process!Take("it") \/ Process!Close("it")
                     \/ UNCHANGED Process!procVars
<1>0. SUFFICES Done
  BY DEF Process!Next
<1> USE DEF mainVars, captureVars, agentVars, outVars, Process!Step
<1>1. CASE PipeConnects
  <2>1. Process!Says("it", {"unborn"}, "idle") /\ UNCHANGED [p \in {"it"} |-> fresh /\ main # "gone"]
    BY <1>1, SaysRefined DEF PipeConnects, Phase
  <2> QED  BY <2>1 DEF Process!Begin
<1>2. CASE TakeStart
  <2>1. /\ Process!Says("it", Process!Live \cup {"idle"}, "starting")
        /\ UNCHANGED [p \in {"it"} |-> fresh /\ main # "gone"]
    <3>1. Phase \in Process!Live \cup {"idle"} /\ main # "gone"
      BY <1>2, PhaseFacts DEF TakeStart, Takes
    <3>2. Phase' = "starting" /\ main' # "gone"
      BY <1>2 DEF TakeStart, Phase
    <3> QED  BY <1>2, <3>1, <3>2, SaysRefined DEF TakeStart
  <2> QED  BY <2>1 DEF Process!Open
<1>3. CASE Connected
  <2>1. Phase = "starting" /\ Phase' = "publishing"
    BY <1>3 DEF Connected, Say, Phase
  <2>2. Process!Says("it", {"starting"}, "publishing")
    BY <1>3, <2>1, SaysRefined DEF Connected, Say
  <2> QED  BY <1>3, <2>2 DEF Process!Enter, Connected
<1>4. CASE ConnectFails
  <2>1. Process!Fail("it", "connection_failed")
    BY <1>4, FailRefined DEF ConnectFails, Phase
  <2> QED  BY <2>1 DEF Process!Codes
<1>5. CASE TakeSetControl(TRUE) \/ TakeSetControl(FALSE)
  <2>1. Phase \in Process!Live \cup {"idle"}
    BY <1>5, PhaseFacts DEF TakeSetControl, Takes
  <2>2. UNCHANGED <<main, said, fresh, frames, agentGone>> /\ Emit(Process!StateEvent("publishing"))
    BY <1>5 DEF TakeSetControl
  <2> QED  BY <2>1, <2>2, EmitRefined DEF Process!ControlSet, Phase
<1>6. CASE TakeStop
  <2>1. Phase' = Phase
    BY <1>6 DEF TakeStop, Takes, Phase, PublisherInv, CapturePlaced
  <2> QED  BY <1>6, <2>1, StutterRefined DEF TakeStop, Takes
<1>7. CASE StopDone
  <2>1. Phase \in Process!Live \cup {"idle"} /\ Phase' = "dying"
    BY <1>7, PhaseFacts DEF StopDone, Phase
  <2>2. UNCHANGED <<fresh, frames, agentGone>> /\ Emit(Process!StateEvent("stopped"))
    BY <1>7 DEF StopDone
  <2> QED  BY <1>7, <2>1, <2>2, EmitRefined DEF Process!Stopped, StopDone
<1>8. CASE TakeGarbage \/ PipeClosed \/ ProcessReturns \/ Killed
  BY <1>8, GoneRefined DEF TakeGarbage, PipeClosed, ProcessReturns, Killed, Takes, Running,
     PublisherInv
<1>9. CASE RoomEnded
  <2>1. Phase \in Process!Live /\ Phase' = "dying"
    BY <1>9, PhaseFacts DEF RoomEnded, Ticking, Phase
  <2>2. Process!Fail("it", "room_disconnected")
    BY <1>9, <2>1, FailRefined DEF RoomEnded, Ticking
  <2> QED  BY <2>2 DEF Process!Codes
<1>10. ASSUME NEW why \in {"lost", "stalled"}, Rebuild(why), main \in {"live", "pause"},
              UNCHANGED <<frames, agentGone>>
       PROVE  Done
  <2>1. Phase = said /\ Phase \in Process!Live
    BY <1>10, PhaseFacts
  <2>2. CASE why = "lost"
    <3>1. Phase' = "reconnecting" /\ Emit(Process!StateEvent("reconnecting"))
      BY <1>10, <2>2 DEF Rebuild, Say, Phase
    <3>2. Process!Says("it", Process!Live, "reconnecting")
      BY <1>10, <2>1, <3>1, SaysRefined DEF Rebuild
    <3> QED  BY <1>10, <3>2 DEF Process!Lose, Rebuild
  <2>3. CASE why = "stalled"
    <3>1. Phase' = Phase
      BY <1>10, <2>1, <2>3 DEF Rebuild, Phase
    <3>2. Process!Probe("it")
      BY <1>10, <2>1, <2>3, <3>1, ProbeRefined DEF Rebuild
    <3> QED  BY <3>2
  <2> QED  BY <2>2, <2>3
<1>11. CASE Recover
  <2>1. Issue \in {"lost", "stalled"}
    BY <1>11 DEF Recover, Issue, PublisherInv, PublisherTypes
  <2> QED  BY <1>10, <1>11, <2>1 DEF Recover, Ticking
<1>12. CASE Retry
  BY <1>10, <1>12 DEF Retry
<1>13. CASE TickWhileWaiting \/ StartAttempt
  BY <1>13, StutterRefined DEF TickWhileWaiting, StartAttempt, Phase
<1>14. CASE GiveUp
  <2>1. Phase \in Process!Live /\ Phase' = "dying"
    BY <1>14, PhaseFacts DEF GiveUp, Phase
  <2>2. Process!Fail("it", "capture_failed")
    BY <1>14, <2>1, FailRefined DEF GiveUp
  <2> QED  BY <2>2 DEF Process!Codes
<1>15. CASE Built
  <2>1. main = "build" /\ fresh /\ main' = "live" /\ UNCHANGED <<fresh, frames, agentGone>>
    BY <1>15 DEF Built, FrameSeen
  <2>2. CASE trigger = "stalled"
    BY <1>15, <2>1, <2>2, StutterRefined DEF Built, Phase
  <2>3. CASE trigger # "stalled"
    <3>1. Phase \in {"publishing", "reconnecting"}
      BY <2>1, <2>3, PhaseFacts DEF PublisherInv, PublisherTypes, FirstInOpening, LossAnnounced
    <3>2. Phase' = "capturing" /\ Emit(Process!StateEvent("capturing"))
      BY <1>15, <2>1, <2>3 DEF Built, Say, Phase
    <3>3. Process!Says("it", {"publishing", "reconnecting"}, "capturing")
      BY <2>1, <3>1, <3>2, SaysRefined
    <3> QED  BY <2>1, <3>3 DEF Process!Capture
  <2> QED  BY <2>2, <2>3
<1>16. CASE BuildFails
  <2>1. main = "build" /\ main' \in {"failing", "pause", "live"} /\ fresh' = FALSE
        /\ UNCHANGED <<frames, agentGone>>
    BY <1>16 DEF BuildFails
  <2>2. Phase = said /\ Phase \in Process!Live
    BY <2>1, PhaseFacts
  <2>3. CASE trigger = "stalled"
    <3>1. Phase' = "reconnecting" /\ Emit(Process!StateEvent("reconnecting"))
      BY <1>16, <2>1, <2>3 DEF BuildFails, Say, Phase
    <3>2. Process!Says("it", Process!Live, "reconnecting")
      BY <2>1, <2>2, <3>1, SaysRefined
    <3> QED  BY <2>1, <3>2 DEF Process!Lose
  <2>4. CASE trigger # "stalled"
    <3>1. Phase' = Phase /\ UNCHANGED pipe
      BY <1>16, <2>1, <2>2, <2>4 DEF BuildFails, Phase
    <3>2. Process!Probe("it")
      BY <2>1, <2>2, <3>1, ProbeRefined
    <3> QED  BY <3>2
  <2> QED  BY <2>3, <2>4
<1>17. CASE Ticker
  <2>1. Emit(Process!MetricsEvent(frames)) /\ UNCHANGED <<main, said, fresh, frames, agentGone>>
        /\ main \notin {"unborn", "gone"}
    BY <1>17 DEF Ticker, Running
  <2>2. Phase \notin {"unborn", "gone"}
    BY <2>1 DEF Phase, PublisherInv, PublisherTypes
  <2> QED  BY <2>1, <2>2, EmitRefined DEF Process!Metrics, Phase
<1>18. CASE Control
  BY <1>18, StutterRefined DEF Control, Phase
<1>19. ASSUME NEW c \in Command, AgentSends(c) PROVE Done
  BY <1>19, StutterRefined DEF AgentSends, Phase
<1>20. CASE AgentReads
  BY <1>20 DEF AgentReads, Process!Take, Phase
<1>21. CASE AgentCloses
  BY <1>21 DEF AgentCloses, Process!Close, Phase
<1>22. CASE Sleep \/ ItemCloses \/ DisplayChanges \/ Silence \/ RetryTime
  BY <1>22, StutterRefined DEF Sleep, ItemCloses, DisplayChanges, Silence, RetryTime, Fault, Phase
<1>23. CASE FrameArrives
  <2>1. Phase \in Process!Live /\ main # "gone"
    BY <1>23 DEF FrameArrives, Phase, PublisherInv, PublisherTypes, CapturePlaced, Process!Live
  <2> QED  BY <1>23, <2>1 DEF FrameArrives, Process!Frame, Phase
<1>24. CASE UNCHANGED vars
  BY <1>24, StutterRefined DEF vars, Phase
<1> QED
  BY <1>1, <1>2, <1>3, <1>4, <1>5, <1>6, <1>7, <1>8, <1>9, <1>11, <1>12, <1>13, <1>14, <1>15,
     <1>16, <1>17, <1>18, <1>19, <1>20, <1>21, <1>22, <1>23, <1>24 DEF Next, MainThread

\* The process keeps the promises the agent is built on (ImplementsProcess): the order of its
\* events, "capturing" only after a frame, a loss announced before its recovery.
THEOREM Implements == Spec => ImplementsProcess
<1>1. Spec => Process!Spec
  BY ProcessInit, ProcessStep, PublisherInvariance, PTL DEF Spec, Process!Spec
<1> QED  BY <1>1 DEF ImplementsProcess

=============================================================================
