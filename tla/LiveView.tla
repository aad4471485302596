------------------------------ MODULE LiveView ------------------------------
(***************************************************************************)
(* A device's live view: viewers' streams and the newest frame in the backend's *)
(* memory (live/hub.go, handlers/live_view.go), renewals pushed to the agent over  *)
(* its command stream (live/commands.go, sync/commands.rs), and the agent's capture *)
(* loop, which also asks for itself now and then (sync/live_view.rs).               *)
(*                                                                           *)
(* A frame is "newest" or, once a newer one has been put, "stale".  A renewal is    *)
(* a message on the wire, as late as the network makes it; the deadline it sets     *)
(* counts down in status-poll periods.  The device is open, has a private           *)
(* application in front, is closed by policy, or is signed out.                     *)
(*                                                                           *)
(* PutFrame holds the hub's mutex over its operations on the channels, so nothing   *)
(* else of the hub's comes between them, except a viewer reading its channel.       *)
(***************************************************************************)
EXTENDS Integers, FiniteSets

CONSTANTS
  Viewer,    \* streams of authorized owners
  TTL,       \* LiveViewTTL, in status-poll periods
  WireCap,   \* bound: renewals on their way to the agent (the bus buffers 8)
  MaxFaults  \* bound: broken streams, lost requests, failed captures, restarts of the backend

ASSUME LiveViewAssumption ==
  /\ IsFiniteSet(Viewer)
  /\ TTL \in Nat \ {0} /\ WireCap \in Nat \ {0} /\ MaxFaults \in Nat

VARIABLES
  watching,  \* the hub's subscribers for this device
  chan,      \* what waits in each subscriber's channel, one frame at most
  held,      \* the hub holds a frame that has not expired
  hand,      \* PutFrame's next operation on each subscriber's channel
  late,      \* an upload the agent has given up, still being served (one at a time)
  allowed,   \* AuthorizeDeviceAgent: the device is monitored and not archived
  device,    \* what the employee's side lets the loop see
  stream,    \* the agent's command stream: up, broken (its end not yet noticed), down
  wire,      \* renewals published and not yet applied
  left,      \* LiveViewSignal.until_ms: periods that remain
  pc,        \* the capture loop
  req,       \* its outstanding request and what the backend made of it
  pollDue,   \* next_status_poll has come
  owed,      \* history: subscribers that have not read the frame put last
  credit,    \* history: frames that signals sent before the last viewer left may still cost
  stray,     \* history: frames taken since the device stopped being open
  faults     \* history: faults so far

hubVars == <<watching, chan, held, hand, late, owed>>
linkVars == <<stream, wire>>
loopVars == <<pc, req, pollDue>>
historyVars == <<credit, stray>>
liveVars == <<hubVars, allowed, device, linkVars, left, loopVars, historyVars, faults>>

Device == {"open", "private", "closed", "signedOut"}
Served == {"sent", "authorized", "watched", "putting"}
Request == Served \cup {"none", "yes", "no", "refused", "stored"}

LiveInit ==
  /\ watching = {} /\ chan = [v \in Viewer |-> "none"] /\ held = FALSE
  /\ hand = [v \in Viewer |-> "done"] /\ late = "none" /\ owed = {}
  /\ allowed = TRUE /\ device = "open"
  /\ stream = "down" /\ wire = 0 /\ left = 0
  /\ pc = "top" /\ req = "none" /\ pollDue = TRUE
  /\ credit = 0 /\ stray = 0 /\ faults = 0

Fault ==
  /\ faults < MaxFaults
  /\ faults' = faults + 1

---------------------------------------------------------------------------
(* The hub. *)

\* What may still make the agent take a frame: renewals on the wire, an answer that
\* says yes, and the authorization it holds or has just acted on.
Taking == pc \in {"gate", "look", "shoot", "blind"}
Unpaid == wire + (IF req = "yes" THEN 1 ELSE 0) + (IF left > 0 \/ Taking THEN 1 ELSE 0)

\* The hub's mutex is held by a PutFrame.
Busy == "putting" \in {req, late}

Remaining(subs) ==
  /\ ~Busy
  /\ watching' = subs /\ owed' = owed \cap subs
  /\ chan' = [v \in Viewer |-> IF v \in subs THEN chan[v] ELSE "none"]
  /\ credit' = IF subs = {} THEN Unpaid ELSE 0

\* Publish: an agent that is not connected, or whose buffer is full, is passed over.
Published(n) ==
  IF stream # "up" THEN wire ELSE IF wire + n > WireCap THEN WireCap ELSE wire + n

\* Stream: the owner's player subscribes, is given the frame the hub holds, and the
\* agent is told at once.
Watch(v) ==
  /\ ~Busy /\ v \notin watching /\ allowed
  /\ watching' = watching \cup {v}
  /\ owed' = IF held THEN owed \cup {v} ELSE owed
  /\ chan' = [chan EXCEPT ![v] = IF held THEN "newest" ELSE "none"]
  /\ wire' = Published(1)
  /\ credit' = 0
  /\ UNCHANGED <<held, hand, late, allowed, device, stream, left, loopVars, stray, faults>>

\* The tab is closed: cancel removes this subscriber only.
Leave(v) ==
  /\ v \in watching
  /\ Remaining(watching \ {v})
  /\ UNCHANGED <<held, hand, late, allowed, device, linkVars, left, loopVars, stray, faults>>

ViewerReads(v) ==
  /\ chan[v] # "none"
  /\ chan' = [chan EXCEPT ![v] = "none"]
  /\ owed' = IF chan[v] = "newest" THEN owed \ {v} ELSE owed
  /\ UNCHANGED <<watching, held, hand, late, allowed, device, linkVars, left, loopVars,
                 historyVars, faults>>

\* The 30 seconds of a frame are over.
FrameExpires ==
  /\ held
  /\ held' = FALSE
  /\ UNCHANGED <<watching, chan, hand, late, owed, allowed, device, linkVars, left, loopVars,
                 historyVars, faults>>

\* evictOverflowLocked: another session's first frame needs the room.
Evicted ==
  /\ watching # {} /\ Fault
  /\ Remaining({})
  /\ held' = FALSE
  /\ UNCHANGED <<hand, late, allowed, device, linkVars, left, loopVars, stray>>

\* The process is replaced: its memory and every connection to it are gone.
BackendRestarts ==
  /\ Fault
  /\ watching' = {} /\ chan' = [v \in Viewer |-> "none"] /\ held' = FALSE
  /\ hand' = [v \in Viewer |-> "done"] /\ late' = "none" /\ owed' = {}
  /\ stream' = IF stream = "up" THEN "broken" ELSE stream
  /\ wire' = 0
  /\ req' = "none"
  /\ pc' = IF pc = "asking" THEN "check" ELSE IF pc = "uploading" THEN "top" ELSE pc
  /\ pollDue' = (pollDue /\ pc # "asking")
  /\ credit' = (IF watching = {} THEN credit ELSE IF left > 0 \/ Taking THEN 1 ELSE 0)
                 + (IF pc = "uploading" THEN 1 ELSE 0)
  /\ UNCHANGED <<allowed, device, left, stray>>

SetAllowed(value) ==
  /\ allowed # value
  /\ allowed' = value
  /\ UNCHANGED <<hubVars, device, linkVars, left, loopVars, historyVars, faults>>

---------------------------------------------------------------------------
(* The authorization: a deadline, not a switch (LiveViewSignal). *)

Active == left > 0

Renew == left' = TTL

Clear == left' = 0

---------------------------------------------------------------------------
(* The command stream. *)

Connect ==
  /\ stream = "down" /\ device # "signedOut" /\ allowed
  /\ stream' = "up"
  /\ UNCHANGED <<hubVars, allowed, device, wire, left, loopVars, historyVars, faults>>

\* apply: only a renewal reaches the loop.
Apply ==
  /\ wire > 0
  /\ wire' = wire - 1
  /\ Renew
  /\ UNCHANGED <<hubVars, allowed, device, stream, loopVars, historyVars, faults>>

StreamBreaks ==
  /\ stream = "up" /\ Fault
  /\ stream' = "broken"
  /\ wire' = 0
  /\ UNCHANGED <<hubVars, allowed, device, left, loopVars, historyVars>>

\* An attempt that does not come about, for want of a session or of an answer, clears the
\* authorization too, and is made again and again.
AttemptFails ==
  /\ stream = "down"
  /\ Clear
  /\ UNCHANGED <<hubVars, allowed, device, linkVars, loopVars, historyVars, faults>>

\* The stream's end clears the authorization, whoever gave it.
StreamEnds ==
  /\ stream = "broken"
  /\ stream' = "down"
  /\ Clear
  /\ UNCHANGED <<hubVars, allowed, device, wire, loopVars, historyVars, faults>>

---------------------------------------------------------------------------
(* The capture loop. *)

SetDevice(value) ==
  /\ device # value
  /\ device' = value
  /\ stray' = 0
  /\ UNCHANGED <<hubVars, allowed, linkVars, left, loopVars, credit, faults>>

SignedOut ==
  /\ pc = "top" /\ device = "signedOut" /\ Active
  /\ Clear
  /\ UNCHANGED <<hubVars, allowed, device, linkVars, loopVars, historyVars, faults>>

AskStatus ==
  /\ pc = "top" /\ device # "signedOut" /\ pollDue
  /\ pc' = "asking" /\ req' = "sent"
  /\ UNCHANGED <<hubVars, allowed, device, linkVars, left, pollDue, historyVars, faults>>

\* AgentStatus: a viewer is the only thing that makes it say yes.
StatusServed ==
  /\ ~Busy /\ pc = "asking" /\ req = "sent"
  /\ req' = IF allowed /\ watching # {} THEN "yes" ELSE "no"
  /\ UNCHANGED <<hubVars, allowed, device, linkVars, left, pc, pollDue, historyVars, faults>>

\* Variant (mutant): the status poll only withdraws.
StatusNeverRenews ==
  /\ req \in {"yes", "no"}
  /\ IF req = "yes" THEN UNCHANGED left ELSE Clear
  /\ req' = "none" /\ pc' = "check" /\ pollDue' = FALSE
  /\ UNCHANGED <<hubVars, allowed, device, linkVars, historyVars, faults>>

StatusAnswered ==
  /\ req \in {"yes", "no"}
  /\ IF req = "yes" THEN Renew ELSE Clear
  /\ req' = "none" /\ pc' = "check" /\ pollDue' = FALSE
  /\ UNCHANGED <<hubVars, allowed, device, linkVars, historyVars, faults>>

StatusFails ==
  /\ pc = "asking" /\ Fault
  /\ req' = "none" /\ pc' = "check" /\ pollDue' = FALSE
  /\ UNCHANGED <<hubVars, allowed, device, linkVars, left, historyVars>>

CheckActive ==
  /\ pc = "check" \/ (pc = "top" /\ device # "signedOut" /\ ~pollDue /\ Active)
  /\ pc' = IF Active THEN "gate" ELSE "top"
  /\ UNCHANGED <<hubVars, allowed, device, linkVars, left, req, pollDue, historyVars, faults>>

\* Variant (mutant): an open view is not asked again.
GateOnce ==
  /\ pc = "gate"
  /\ pc' = "look"
  /\ UNCHANGED <<hubVars, allowed, device, linkVars, left, req, pollDue, historyVars, faults>>

\* capture_permitted, before every frame: it does not look at the session.
Gate ==
  /\ pc = "gate"
  /\ pc' = IF device = "closed" THEN "top" ELSE "look"
  /\ UNCHANGED <<hubVars, allowed, device, linkVars, left, req, pollDue, historyVars, faults>>

\* capture_remote_frame: should_skip decides by the application in front.  When the window
\* query answers nothing, the screen is read without it.
Look ==
  /\ pc = "look"
  /\ \/ pc' = IF device = "private" THEN "top" ELSE "shoot"
     \/ pc' = "blind"
  /\ UNCHANGED <<hubVars, allowed, device, linkVars, left, req, pollDue, historyVars, faults>>

Shoot ==
  /\ pc \in {"shoot", "blind"}
  /\ pc' = "uploading" /\ req' = "sent"
  /\ stray' = IF device = "open" THEN 0
              ELSE IF device = "private" /\ pc = "blind" THEN stray ELSE stray + 1
  /\ credit' = IF watching = {} THEN credit - 1 ELSE 0
  /\ UNCHANGED <<hubVars, allowed, device, linkVars, left, pollDue, faults>>

\* No monitor, or one that cannot be read.
CaptureFails ==
  /\ pc \in {"shoot", "blind"} /\ Fault
  /\ pc' = "top"
  /\ UNCHANGED <<hubVars, allowed, device, linkVars, left, req, pollDue, historyVars>>

---------------------------------------------------------------------------
(* UploadFrame: authorize, look for a subscriber, store. *)

\* One handler's step, for the upload the agent waits for or for one it has given up.
Handle(from, to) ==
  \/ pc = "uploading" /\ req = from /\ req' = to /\ UNCHANGED late
  \/ late = from /\ late' = (IF to \in Served THEN to ELSE "none") /\ UNCHANGED req

UploadAuthorized ==
  /\ Handle("sent", IF allowed THEN "authorized" ELSE "refused")
  /\ UNCHANGED <<watching, chan, held, hand, owed, allowed, device, linkVars, left, pc, pollDue,
                 historyVars, faults>>

UploadChecked ==
  /\ ~Busy
  /\ Handle("authorized", IF watching = {} THEN "refused" ELSE "watched")
  /\ UNCHANGED <<watching, chan, held, hand, owed, allowed, device, linkVars, left, pc, pollDue,
                 historyVars, faults>>

\* PutFrame takes the mutex; what is still in a channel is now an older frame.
PutFrame ==
  /\ ~Busy
  /\ Handle("watched", "putting")
  /\ held' = TRUE /\ owed' = watching
  /\ hand' = [v \in Viewer |-> IF v \in watching THEN "send" ELSE "done"]
  /\ chan' = [v \in Viewer |-> IF chan[v] = "newest" THEN "stale" ELSE chan[v]]
  /\ UNCHANGED <<watching, allowed, device, linkVars, left, pc, pollDue, historyVars, faults>>

\* ch <- frame, if there is room.  One subscriber is finished before the next.
TrySend(v) ==
  /\ hand[v] = "send" /\ \A w \in Viewer : hand[w] \in {"send", "done"}
  /\ IF chan[v] = "none"
       THEN hand' = [hand EXCEPT ![v] = "done"] /\ chan' = [chan EXCEPT ![v] = "newest"]
       ELSE hand' = [hand EXCEPT ![v] = "drain"] /\ UNCHANGED chan
  /\ UNCHANGED <<watching, held, late, owed, allowed, device, linkVars, left, loopVars,
                 historyVars, faults>>

\* Variant (mutant): a subscriber that has emptied its channel meanwhile needs nothing more.
DrainOrDone(v) ==
  /\ hand[v] = "drain"
  /\ hand' = [hand EXCEPT ![v] = IF chan[v] = "none" THEN "done" ELSE "resend"]
  /\ chan' = [chan EXCEPT ![v] = "none"]
  /\ UNCHANGED <<watching, held, late, owed, allowed, device, linkVars, left, loopVars,
                 historyVars, faults>>

\* <-ch, if anything is left to take.
Drain(v) ==
  /\ hand[v] = "drain"
  /\ hand' = [hand EXCEPT ![v] = "resend"]
  /\ chan' = [chan EXCEPT ![v] = "none"]
  /\ UNCHANGED <<watching, held, late, owed, allowed, device, linkVars, left, loopVars,
                 historyVars, faults>>

\* ch <- frame again, if there is room.
Resend(v) ==
  /\ hand[v] = "resend"
  /\ hand' = [hand EXCEPT ![v] = "done"]
  /\ chan' = [chan EXCEPT ![v] = IF chan[v] = "none" THEN "newest" ELSE chan[v]]
  /\ UNCHANGED <<watching, held, late, owed, allowed, device, linkVars, left, loopVars,
                 historyVars, faults>>

FramePut ==
  /\ \A v \in Viewer : hand[v] = "done"
  /\ Handle("putting", "stored")
  /\ UNCHANGED <<watching, chan, held, hand, owed, allowed, device, linkVars, left, pc, pollDue,
                 historyVars, faults>>

UploadStored ==
  /\ req = "stored"
  /\ req' = "none" /\ pc' = "top"
  /\ UNCHANGED <<hubVars, allowed, device, linkVars, left, pollDue, historyVars, faults>>

\* Variant (mutant): a refusal is an error like any other.
RefusalKeepsGoing ==
  /\ req = "refused"
  /\ req' = "none" /\ pc' = "top"
  /\ UNCHANGED <<hubVars, allowed, device, linkVars, left, pollDue, historyVars, faults>>

\* 409 or 403: nobody is watching any more.
UploadRefused ==
  /\ req = "refused"
  /\ Clear
  /\ req' = "none" /\ pc' = "top"
  /\ UNCHANGED <<hubVars, allowed, device, linkVars, pollDue, historyVars, faults>>

\* No answer: the loop knows nothing and goes on, while the backend may serve the request yet.
UploadFails ==
  /\ pc = "uploading" /\ Fault
  /\ req' = "none" /\ pc' = "top"
  /\ late' \in IF Busy THEN {"putting"} ELSE {late} \cup ({req} \cap Served)
  /\ credit' = IF watching = {} THEN credit + 1 ELSE 0
  /\ UNCHANGED <<watching, chan, held, hand, owed, allowed, device, linkVars, left, pollDue, stray>>

\* A status-poll period, and a renewal by every stream.  The loop's own steps take no
\* time beside it; requests and messages may take any number of them.
Tick ==
  /\ pc \in {"top", "asking", "uploading"}
  /\ left' = IF left > 0 THEN left - 1 ELSE 0
  /\ pollDue' = TRUE
  /\ wire' = Published(Cardinality(watching))
  /\ UNCHANGED <<hubVars, allowed, device, stream, pc, req, historyVars, faults>>

Loop ==
  \/ SignedOut \/ AskStatus \/ StatusAnswered \/ CheckActive \/ Gate \/ Look \/ Shoot
  \/ UploadStored \/ UploadRefused

Putting == \E v \in Viewer : TrySend(v) \/ Drain(v) \/ Resend(v)

Serving == StatusServed \/ UploadAuthorized \/ UploadChecked \/ PutFrame \/ Putting \/ FramePut

LiveNext ==
  \/ \E v \in Viewer : Watch(v) \/ Leave(v) \/ ViewerReads(v)
  \/ FrameExpires \/ Evicted \/ BackendRestarts
  \/ \E value \in BOOLEAN : SetAllowed(value)
  \/ \E value \in Device : SetDevice(value)
  \/ Connect \/ AttemptFails \/ Apply \/ StreamBreaks \/ StreamEnds
  \/ Loop \/ Serving \/ StatusFails \/ UploadFails \/ CaptureFails
  \/ Tick

LiveSpec == LiveInit /\ [][LiveNext]_liveVars

\* The threads run, the backend answers, time passes; the stream need never come up, and
\* every failed attempt clears the deadline again.  The loop renews it and looks at it
\* without waiting in between, so a clear cannot come between the two every time.
FairLiveSpec ==
  /\ LiveSpec
  /\ WF_liveVars(Loop) /\ WF_liveVars(Serving) /\ WF_liveVars(Tick)
  /\ WF_liveVars(Apply) /\ WF_liveVars(StreamEnds)
  /\ SF_liveVars(pc = "check" /\ Active /\ CheckActive)

---------------------------------------------------------------------------
(* Properties. *)

LiveTypeOK ==
  /\ watching \subseteq Viewer
  /\ chan \in [Viewer -> {"none", "newest", "stale"}]
  /\ held \in BOOLEAN /\ hand \in [Viewer -> {"done", "send", "drain", "resend"}]
  /\ late \in Served \cup {"none"} /\ owed \subseteq Viewer
  /\ allowed \in BOOLEAN /\ device \in Device
  /\ stream \in {"up", "broken", "down"} /\ wire \in 0..WireCap
  /\ left \in 0..TTL
  /\ pc \in {"top", "asking", "check", "gate", "look", "shoot", "blind", "uploading"}
  /\ req \in Request /\ pollDue \in BOOLEAN
  /\ credit \in Int /\ stray \in Nat /\ faults \in 0..MaxFaults

\* Once PutFrame has done with a viewer's channel, whatever the viewer read in between, the
\* frame put last waits there until it has been read, and never an older one (hub.go:
\* "viewers always get the newest frame").
NewestNext ==
  \A v \in Viewer : hand[v] = "done" =>
    /\ chan[v] # "stale"
    /\ v \in owed => chan[v] = "newest"

\* After the last viewer has gone, every frame the agent still takes is paid for by a
\* signal sent before, or by an upload whose answer was lost: there is no other way for
\* capture to outlive its viewers (commands.rs: "never leave it running after the viewer
\* has gone").
StrayFramesPaid == watching = {} => credit >= 0

\* When the employee's side stops being open (a pause, a schedule's end, signing out, a
\* private application that the window query sees), one frame at most is taken after it: the
\* one whose checks had been passed (live_view.rs: "Policy is re-checked on every frame").
\* Frames taken of a private application because the query answered nothing do not count.
OneFrameAfterClosing == stray <= 1

\* The skip list as its comment has it, without that exception (trackers/mod.rs: "remains
\* authoritative even during support").
SkipListHolds == [][pc = "blind" /\ pc' = "uploading" => device # "private"]_liveVars

\* A viewer who stays is shown a frame although the command stream never comes up and each
\* failed attempt clears the deadline, unless the device is not open or not allowed
\* (live_view.go: "an attached viewer still starts and renews capture").
ViewerIsServed ==
  \A v \in Viewer :
    v \in watching ~> chan[v] # "none" \/ v \notin watching \/ device # "open" \/ ~allowed
=============================================================================
