# BiBoTracking: a verification development

TLA+ models, TLC runs and TLAPS proofs for the BiBoTracking monorepo (Go backend, Rust
desktop agent, browser extension, web dashboard). The models are translated from the
source; `PROJECT.json` maps every definition to the lines it stands for.

## 1. Inventory of the system

| Part | State it keeps | Operations | Hard behaviour |
|---|---|---|---|
| Media state machine (`backend/internal/media/state.go`) | nine session states | `Transition`, `CanTransition` | idempotent re-entry, terminal states |
| Media control plane (`handlers/media.go`, `store/media.go`) | `media_sessions`, `viewer_sessions` | `StartLive`, `ViewerToken`, `Heartbeat`, `Stop`, `AgentSession`, `PublisherToken`, `AgentState`, scheduled recordings, rotation sweep | several transactions per request, cancelled contexts, leases, expiry racing joins |
| Recording assets (`store/recording.go`, `handlers/recording.go`, half of `handlers/media.go`) | `recording_assets`, egress jobs, objects in a bucket | start, stop, finalize, recover, verify, retain, delete | calls outside transactions, goroutines lost in a restart, three concurrent readers of the bucket |
| Outbox and sync worker (`desktop/src-tauri/src/sync/worker.rs`, `storage/mod.rs`) | SQLite rows with `synced` | tracker writes, batches, image uploads, retention | writes during a request, lost answers, retries, pause, restart |
| Ingest (`handlers/sync.go`, `store/sync.go`, `handlers/screenshot.go`) | replica rows keyed by `client_uuid` | `SyncBatch`, `Upload` | duplicates, acknowledge-and-drop while paused |
| Presence (`sync/presence.rs`, `handlers/presence.go`) | last heartbeat, the monitoring flag of the agent | heartbeat, live still frame | flag changes in the middle of a sync pass |
| Remote assistance (`store/remote_assist.go`, `handlers/remote_assist.go`, `sync/remote_assist.rs`) | session rows, actions, frames, the employee's indicator | request, decide, act, stop, expire | consent, one-shot actions, stop racing frames |
| Live hub and command bus (`live/`, `handlers/live_view.go`) | latest frame and subscribers per session, commands on their way | `PutFrame`, `Subscribe`, `DropSession`, renew | slow subscribers, late renewals, restart |
| Desktop live view (`sync/live_view.rs`, `sync/commands.rs`) | the deadline until which capture is authorized | renew, poll the status, capture, upload | two sources renew one deadline, policy changes in the middle of a frame |
| Desktop media supervisor (`media/mod.rs`, `media/pipe.rs`) | the publisher process, restart counter, status shown on the machine | poll, start, stop, restart, event reader threads | poll grace against backend expiry, bounded restarts, readers of old processes |
| Native media publisher (`native/media-publisher`) | capture, room, event pipe, control gate, held keys | start, stop, rebuild, publish; accept and apply control frames | dead and silent captures, a vanished agent, emergency stop racing a frame |
| Tasks (`store/tasks.go`) | tasks, work sessions | start, stop, complete | one open work session per employee over several devices |
| Devices, monitoring profiles (`store/device.go`, `store/monitoring_profile.go`) | `monitoring_enabled`, profiles | resolve, set | settings changing under a running request |
| Trackers, OS state (`trackers/`) | open interval of each core, pending browser fallback | poll, split, close, schedule decision | sleep, clock set back, idle found out late, nights of the schedule |
| Local server and browser extension (`server/mod.rs`, `apps/extension`) | the extension's open visit and outbox, time of its last sign of life | checkpoint, flush, discover, ingest | service worker killed at any time, full outbox, two observers of one page |
| Organisation, owner, reports, auth, configuration | tables | CRUD, aggregation | none of protocol interest |
| Web dashboard, design, monitor service, tray, settings | UI | | not modelled |

How they interact. The desktop agent polls the backend (`AgentSession` every second, the
heartbeat and remote-assist polls every few seconds, a sync pass every five minutes and
more); the backend never calls the agent. Browsers call the same backend. Every backend
handler works through PostgreSQL statements, so a transaction is the unit of atomicity and
a request may stop between two of them: its context is cancelled with the connection, and
a process restart loses every goroutine. The media provider (LiveKit) and the bucket (S3)
are called between transactions. In the agent, the trackers, the sync worker and the
presence loop share SQLite and a few atomics. The agent starts the native publisher as a child
process; commands go to it and its events come back through one named pipe, which the agent
reads with one thread per process; the publisher takes control frames from the room's data
channel by itself. The
browser extension posts to a server on the loopback.

Correctness, per part: a device has one open session of a kind; a watcher is never cut off
and a lapsed lease never comes back; nobody is captured without a viewer or a recording
policy; a recording rotates and its file settles, is kept for its thirty days and is then
gone for good; nothing leaves the outbox unseen, nothing at the backend goes back to an
older total, and everything drains; remote actions run once and only with consent; nothing
stays pressed and nothing is applied after an emergency stop but the frame in hand; a
publisher captures only while the supervisor holds it, never outlives the agent and says when
it has lost its picture; every second of the day is in one interval and every counted poll in
one sample; browsing time is stored once, but for what comes after the fallback's patience; a live still view shows the newest frame and ends
with its viewers. The hazards behind these are listed, each at its line, in
`PROJECT.json`.

## 2. Modules

| Module | What it is |
|---|---|
| `MediaState` | the states and edges of `state.go` as operators |
| `SessionLifecycle` | the abstract specification: what the control plane promises of a session's state |
| `MediaSession` | the control plane for one device; implements `SessionLifecycle` |
| `MCMediaSession` | instances: owner of each lease, policy sets, symmetry |
| `MediaSessionProofs` | the theorems about `MediaSession` |
| `RecordingAsset`, `MCRecordingAsset` | one recorded chunk: row, egress jobs, object |
| `RecordingAssetProofs` | the theorems about `RecordingAsset` |
| `SyncOutbox`, `MCSyncOutbox` | outbox, sync pass, ingest |
| `RemoteAssist`, `MCRemoteAssist` | remote assistance of one device: rows, owner, agent loop, Stop control |
| `RemoteAssistProofs` | the theorems about `RemoteAssist` |
| `RemoteControl`, `MCRemoteControl` | control frames inside the publisher: gate, rate limit, injector |
| `PublisherProcess` | the abstract specification: what the agent may rely on of a publisher process |
| `MediaPublisher`, `MCMediaPublisher` | the publisher process; extends `RemoteControl`, implements `PublisherProcess` |
| `MediaPublisherProofs` | the theorems about `RemoteControl` and `MediaPublisher` |
| `MediaSupervisor`, `MCMediaSupervisor` | the agent's supervisor and readers, composed with `PublisherProcess` |
| `MediaSupervisorProofs` | the theorems about `MediaSupervisor` and of processes that keep to `PublisherProcess` |
| `MonitoringSchedule` | the schedule decision and the windows it stands for |
| `DeviceTimeline`, `MCDeviceTimeline` | the poll loop with `WindowTracker` and `StateTracker`; uses `MonitoringSchedule` |
| `DeviceTimelineProofs` | the theorems about `DeviceTimeline` and the schedule |
| `BrowserVisits`, `MCBrowserVisits` | the extension, its outbox, the loopback server and the fallback |
| `OutboxProofs` | the theorems about `SyncOutbox` and `BrowserVisits`, the two outboxes of the desktop |
| `LiveView`, `MCLiveView` | live still view: hub, command stream, agent's loop |
| `LiveViewProofs` | the theorems about `LiveView` |

### MediaSession

One enrolled device. `kind`, `state`, `code`, `age`, `endAge` are columns of
`media_sessions` (identities in `Session`; `"absent"` is a row that does not exist yet);
`leaseOf`, `leaseOpen`, `leaseAge` are `viewer_sessions`. `endedBy` stands for the audit
row written with a terminal move. `opener`, `minting`, `starting`, `swept`, `liveWanted`,
`pollStep` and `pollSession` are the program counters of requests that span several
transactions; `capture` is the session of the agent's latest poll answer and `told` every
session it ever learned, because it may still report on an old one.

`Lifecycle == INSTANCE SessionLifecycle WITH Session <- Session, state <- state` is the
refinement mapping. Each action is one transaction with the code around it up to the next one. `AbortOpen` and
`PollFails` are the cancelled context and the restart. A poll that opens a recording takes the
same steps as a viewer's request ("opening", "reopening") and then falls through, like one
that joins a recording, to the re-check before it answers. An INSERT may also lose to a
session that is over by the time it is looked for (`WinnerOver`). Times are ages that stop at the
threshold the code compares them with, so `Tick` is the only clock.

Abstractions. The monitoring check and the advance of `AgentState` and `PublisherToken`
are one step (the check only refuses more). Rooms, tokens, tracks, metrics and the
one-hour back-off after a quota failure are left out, as are the gates of `StartLive` that
only refuse (device online, screen policy). `stopRecording`'s outcome (`RecordingOutcome`)
is a choice, because the asset that decides it lives in `RecordingAsset`. An instance
whose rows are all used answers polls as if the recording policy were off (`Exhausted`):
this is the bound on the number of sessions.

### RecordingAsset

One chunk, that is one `recording_assets` row. `session` is "open" until any of the ends
of `MediaSession` happens. `Starter` are concurrent accepted "live" reports, `Finalizer`
concurrent teardowns, `Checker` the three readers of the bucket. `startStep`, `endStep`
and `checkStep` say where each is, and each finalizer and checker has the age of the session
it read (`endAge`, `checkAge`), which it may use later: every repeated terminal report writes
`ended_at` again (`EndSession`) and so starts the deadline anew. Playback takes an empty
object, the sweep and the list do not; `Restart` resets them all and keeps rows, jobs and
objects. The provider is modelled from its use: starting a job may fail, a stop may not
confirm, a job may end by itself, a file appears only after its job ended and before the
thirty days are over, a verification may fail and then changes nothing. `last_checked_at`
(the back-off between two verifications) and the `LIMIT`s of the sweep are left out: they
only delay.

### SyncOutbox

A row is a primary key with a version: 0 is no row, and each count of a bucket or resend
of a visit adds one. `synced` is the column; `stored` what the backend holds; `batch` what
the pass has read. The pass awaits every request, so trackers (`Write`), retention
(`Prune`), the presence loop (`Heartbeat`, `LiveFrame`) and the owner's switch interleave
with its steps. `late` is a request the client gave up on (30 seconds) that the backend
still serves; passes are at least five minutes apart, so it is served or dead before the
next one (`StartPass`). `discarded` and `pruned` are history variables of the properties.
`Crash` loses the pass and keeps SQLite. Row contents are abstract: a row the backend
would refuse as invalid (which rejects its whole batch) is not modelled.

### RemoteAssist

One device. `status` and `overdue` (`expires_at` has passed) are the session rows, `row` and
`actionOf` the input actions, whose ids are the sequence's order. An INSERT takes its id
and commits later (`EnqueueRemoteAssistAction`, `EnqueueReturns`), so rows become visible
in any order, also after their session was ended. The agent's loop is one thread that
awaits its requests: `step` says what it waits for, `active`, `lastId`, `inbox` are its
locals, `shown` and `stop` the state it shares with the Stop control, whose press looks
and stores in two steps (`PressStop`, `StoreStop`). `window` is the indicator with that
button: it may fail to be built, which the agent only logs (`ShowIndicator`), and the employee
may close it by other means (`CloseIndicator`), which nobody notices. Any answer may be lost after the
backend served it; `Restart` loses everything the agent knows. `consent` and `handed` are
history variables. `BatchLimit` is the 64 of the poll. The expiry of the device
(`expireRemoteAssist`) runs as a first, separate transaction of requests and polls;
together with what follows it is one step, because what follows re-checks what it needs.
The gates of a request (online, monitored, Windows) only refuse and are left out, as is a
late request of the agent that the backend serves after the client gave up, which differs
from a lost answer only in its time. The frames of a session are left out.

### RemoteControl

The task that applies control frames inside the publisher process. `armed` and `stops` are
the gate, which only the main thread arms; `seenStops` is the task's copy of the disarm
generation; `inbound` is what the room has delivered and the task has not taken. Accepting a
frame and applying it are two steps, because the main thread can disarm the gate in between.
`held` is what the injector remembers, `down` what the desktop has pressed: `SendInput` may
refuse any event. An oversized frame is refused before the window is looked at. The task ends in two ways: `DropControl` (its runtime aborts it where it
waits, `Drop` releases) and `KillControl` (`TerminateProcess`, nothing runs). `refused`,
`owed` and `late` are history variables. A "move" stands for every frame that presses and
releases nothing; acknowledgements, coordinates and texts are left out. The monitor layout is
read once, at the start of the task, which the model does not look at. A room that is lost
either says so or closes its event channel silently (`RoomLost`).

### PublisherProcess, MediaPublisher

`PublisherProcess` is what the agent relies on: a process says "capturing" only after a frame
was published since the capture was last built, "reconnecting" before a lost capture is
recovered, and nothing but metrics after a fatal event. `MediaPublisher` is the process: the
main thread (commands, a health tick when none came, `start_first`, rebuilds, giving up after
`MaxRounds`), the capture, the metrics ticker, and `RemoteControl`, which it extends. A fresh
capture may be "dead": it runs and never delivers. `Issue` is `check_capture` in the order of
its tests. The two are tied by `Process == INSTANCE PublisherProcess WITH ...`, whose mapping
derives the phase the agent knows from the main thread and from what was said last. Frames
only count up to `MaxFrames`; sizes, rates and codecs are left out.

### MediaSupervisor

The agent, on top of `PublisherProcess` (EXTENDS): its processes do whatever that
specification allows once they are started. `super` is the place of the supervisor task in
its loop and in `start_session`; `reader` is where each event-reader thread is, which goes on
after its process was replaced. The machine blocks capture (`block`) at any moment, the
backend opens and ends sessions, and calls are lost while `up` is false. `Crash` closes every
handle of the agent at once (`AgentDies` of `PublisherProcess`) and so kills what is
in the job object (the active process and a process already contained); a process launched
and not yet contained only loses its pipe. `overdue` and `lost` are history variables.

### MonitoringSchedule, DeviceTimeline

`MonitoringSchedule` has the decision of `MonitoringRule::active_at` beside the windows an
owner means by the rule. An instant is absolute; `Offset` is what the time zone adds to it and
may change, so a local day may be shorter or longer than `DayLength`. As in the code, "the day
before" is the local day 24 hours ago (`Day(t - DayLength)`). `Steady` says where that is
yesterday. `DeviceTimeline` is the poll loop: one action (`Poll`) is one turn, with the clock,
the idle time the system reports (which does not follow the clock) and the window in focus
chosen by the environment; both cores advance in it as in `run()`. `Jumps` has a late poll, a
sleep (beyond `SuspendGap`) and a clock set back. `stretch` and `tally` are history variables:
where the rows since the last (re)start began and what they add up to, and the seconds stored
or dropped less those counted.

### BrowserVisits

The extension's open visit and outbox, its flush (one request in flight, the batch leaves the
head of whatever the outbox then is), the loopback server (cap, sign of life before storing,
a row that fails ends the batch, upsert by key), and the fallback with its patience. The clock
counts units of about thirty seconds. A key is the start of a segment: a segment that is sent
again has the same one. The service worker may be ended whenever it is idle and in the middle
of a flush (`WorkerRestarts`) or between the two writes of a step, which loses the segment
(`StepCut`); each start of it creates the checkpoint alarm anew, so the alarm may be put off
again and again (`postponed`), up to the bound on the clock. The pages of a browser without the
extension are the fallback's alone (`Foreign`, `Wander`). `lost`, `evicted` and `orphans` are
history variables: `orphans` are the segments left in the outbox when the browser is closed and
those the extension held when the fallback gave up waiting for an alarm that had been put off.
Pairing, the secret and the popup are left out; `linked` says whether the extension has the
current token.

### LiveView

The hub's entry of one device (`watching`, a channel of one per viewer, the frame it holds),
the command stream with renewals on the `wire`, the agent's deadline (`left`, in periods of
the status poll) and its loop (`pc`, `req`). A frame is "newest" or, once another was put,
"stale". `PutFrame` takes the mutex and `hand` has the operation it does next on each channel
(`TrySend`, `Drain`, `Resend`, then `FramePut`): only a viewer that reads comes between them.
`owed` remembers who has not read the frame put last; `late` is an upload that is still served
after the agent gave it up. A window query that answers nothing lets a frame be taken without
the skip list (`Look`, "blind"), a capture may fail (`CaptureFails`), and a connection attempt
that fails clears the deadline like a stream that ends (`AttemptFails`). `credit` counts
what signals sent before the last viewer left may still cost, `stray` the frames taken after
the employee's side closed. Other devices appear as the eviction they may cause.

## 3. Runs

| Run | Shows | Bounds |
|---|---|---|
| `media_live` | one open session per kind, no watcher cut off, lapsed leases stay lapsed, refinement of `SessionLifecycle` | 2 sessions, 2 users with a tab each, live only, lease TTL 2 ticks, cooldown 1 (811 718 states): a join races a stop of the other user and an expiry on the same or on the next session |
| `media_progress` | a recording ends; an unwatched capture is withdrawn, and so is any session that is over | 1 session, 1 tab, all four policy settings changing at any time (123 336 states) |
| `recording_asset` | a ready row has its file, deletion only when due and for good, every chunk settles unless repeated reports restart its deadline for ever | 2 starters, 1 finalizer, 3 checkers, 1 job, deadline 1 tick (220 471 states): a report that reopens a row after its teardown, one that restarts a deadline in the middle of a teardown and a verification that is stale when used all happen |
| `sync_outbox` | nothing acknowledged unseen, no regress | 4 rows in 3 tables, batches of 1, 2 versions: a pass takes several batches, a bucket changes in flight |
| `sync_drains` | the outbox drains | 3 rows (two device states, which never ask for another batch, and an image) |
| `remote_assist` | consent first, input only under an indicator that was opened or found unbuildable, each action once, Stop works without the network, control ends | 2 sessions, 2 actions, polls of 1 action (233 323 states): late consent, a session that follows another, an action of the earlier one, a second poll, an indicator that fails or is closed |
| `remote_control` | nothing pressed is forgotten, one late frame at most, what is held at a stop is released | 2 inputs, 2 sequence numbers, 2 frames a second, 2 stops, 1 room event waiting (141 138 states): a stop, a new arming and a frame between acceptance and application |
| `media_publisher` | losses are announced, refinement of `PublisherProcess`, a lost capture is rebuilt or the process ends, the process goes with the agent | 2 recovery rounds, probes up to 2, 1 fault, 2 commands, 1 event in the pipe, frames up to 2, no inputs, 3 stops (309 313 states): every reason to rebuild, a full pipe, giving up |
| `media_supervisor` | only the held publisher captures, a blocked poll reads nothing, giving up ends the session, stopping within the grace | 2 sessions, 2 processes, 1 restart, grace 2, 1 fault, 1 event in the pipe (1.8 million states): a reader that outlives its process, a crash in each part of the start, an outage longer than the grace |
| `device_timeline` | the rows cover the time, polls are counted once, what is collected keeps to the schedule | days of 4 units of which one is a unit short and one a unit long, clock to 10, threshold 2, suspend gap 3, chunks of 3, jumps -2, 1, 2 and 5, four rules (22 408 states) |
| `browser_visits` | browsing is stored once but for what comes late, losses are reported, the outbox drains | 2 pages and 1 of another browser, clock to 4, checkpoint 2, grace 3, chunk 2, outbox 3, batches of 2, 1 fault (548 262 states): the fallback loses patience while a segment is on its way, and while the alarm is put off; a full outbox during a request; a worker ended in each place |
| `live_view` | the newest frame next, strays are paid for, one frame after closing, a viewer is served | 2 viewers, deadline 2 periods, 1 renewal on the wire, 1 fault (521 336 states): a viewer reads between any two operations on its channel |

Two sessions are enough for what crosses sessions (a new session after the old one ended,
a report about the old one); two viewers for "the last of several"; ages only matter
against their thresholds. Every bound is a constant of the configuration, and most of the
safety properties are proved without it (section 4). Type invariants are not among the runs:
they are proved for every value of the constants. `CHECK_DEADLOCK FALSE` where an instance really stops: all
identities are used up and nothing else is enabled.

### Fairness

* `MediaSession`: time passes; the agent polls every second and, of infinitely many polls,
  some are served (strong fairness of the poll's later steps, because `PollFails` can
  interrupt each); the sweep runs on a timer; a request that is not abandoned goes on.
  Nobody is assumed to view, stop or administer anything. `RotationGuaranteed` uses none
  of the poll's fairness: it is the sweep's.
* `RecordingAsset`: the maintenance goroutine runs every minute and its statements and
  verifications succeed infinitely often if tried infinitely often. Finalizers, whose
  goroutines may be lost, have no fairness; nor has a live report. `AssetSettles` has one way
  out, stated in it: a publisher that repeats its terminal report for ever restarts the
  deadline for ever.
* `RemoteAssist`: the agent's loop goes on and its requests return, if only with an error
  (the client has a timeout), a pressed Stop is stored, time passes. `StopHonoured` needs no
  more: no request has to get through. `ControlEnds` assumes in its statement
  (`StatusAnswered`) that of infinitely many status polls one is answered.
* `SyncOutbox`: passes are repeated for ever, and a request repeated for ever gets through
  some time. `PendingDrains` also assumes that the owner stops flipping the monitoring
  switch: a device paused and resumed between the two reads of the flag in every single
  pass would neither upload nor discard its images.
* `RemoteControl`: the release tick comes first in the task's biased select, so a tick that is
  enabled again and again is taken (strong fairness); `SendInput` returns.
* `MediaPublisher`: the main thread runs and a write that waits for room in the pipe is not
  overtaken by the ticker for ever (strong fairness); retry times and silences pass; the agent
  reads its pipe until it closes it. Nothing is assumed of commands, frames or the display.
* `BrowserVisits`: time, the alarm, promises and the server go on, and the agent and the
  browser are started again. Answers may be lost as often as the bound on faults allows.
  Restarts of the worker may put the alarm off, but not for ever: at the bound on the clock it
  fires.
* `LiveView`: the threads run, the backend answers, time passes and a stream that broke is
  noticed. The stream need never come up: `ViewerIsServed` rests on the status poll. Each failed
  attempt to connect clears the deadline that poll renews, and the two are different tasks; the
  loop looks at the deadline right after the answer, without waiting in between, so strong
  fairness says that a clear does not fall into that gap every single time (attempts are
  seconds apart, with a growing pause).
* `MediaSupervisor` and `DeviceTimeline` state no liveness and assume no fairness.

### Where code and comments disagree

Thirteen configurations are kept beside the runs. Each gives TLC one property, taken from a
comment, a document or a test, and TLC answers with a counterexample; run one with
`tlc -workers 2 -config X.cfg MCModule`.

* `MediaTerminalRewrite.cfg` (`MCMediaSession`, `TerminalNeverChanges`). `media/state.go:107`:
  "Terminal reports whether a session in this state can never change again." `Transition`
  accepts from == to, so a repeated terminal report writes the row again
  (`store/media.go:364`): failure code and `ended_at` take the later values, and a TIMEOUT
  over PROVIDER_UNAVAILABLE takes the row out of what `RecentRecordingFailure` looks for.
* `MediaOpeningTimesOut.cfg` (`MCMediaSession`, `OpeningTimesOut`). `media/state_test.go:56`:
  "Every non-terminal state can fail: each of them has a timeout". A live session whose
  request is abandoned after the INSERT (`handlers/media.go:459`) stays in requested or
  authorizing: the agent's poll reads later states only and the sweep ends only recordings.
* `MediaLiveBesideRecording.cfg` (`MCMediaSession`, `LiveJoinsRecording`).
  `media/provider.go:38-40`: "recording alongside a live view is the same screen track
  subscribed by a second consumer, not a second session". The check for an open recording and
  the INSERT are two transactions (`handlers/media.go:417`), the index is per kind.
* `RecordingRestamped.cfg` (`MCRecordingAsset`, `NeverProcessingForEver`).
  `handlers/recording.go:68-70` takes the deadline for the reason that "processing" cannot be a
  permanent state. A publisher that goes on repeating its terminal report rewrites `ended_at`
  (`store/media.go:368-383`), the row copies it (`store/recording.go:116-120`), and a chunk
  without a file waits for its 45 minutes anew each time.
* `RemoteAssistUnseen.cfg` (`MCRemoteAssist`, `StopControlUp`). `sync/remote_assist.rs:5`:
  "Every session keeps an always-on-top Stop control visible". `show_indicator` only logs a
  window that cannot be built (line 284), and nothing notices one that was closed: the session
  goes on, with input executed.
* `RemoteAssistSkipped.cfg` (`MCRemoteAssist`, `NothingSkipped`).
  `store/remote_assist.go:279-280`: "atomically hands the employee agent each queued action
  once". Ids are taken at the INSERT and visible at the commit; an action that commits after
  one with a higher id was polled is excluded by `a.id > $3` for ever (line 289).
* `SyncLostUpdate.cfg` (`MCSyncOutbox`, `SyncedIsUpToDate`). `storage/mod.rs:274`: "A re-count
  is a mutation, so it resets `synced = 0` and bumps `updated_at` — an already-synced bucket
  re-syncs with its new total". A bucket counted while its batch is in flight is marked synced
  afterwards (`sync/worker.rs:241`), with the earlier total at the backend.
* `SyncPrunedUnsent.cfg` (`MCSyncOutbox`, `PrunesOnlySynced`).
  `docs/11-backend-and-sync.md:202`: "Local retention/cleanup runs independently and only
  prunes files already marked `synced = 1`". `delete_screenshots_before` (`storage/mod.rs:435`)
  looks at the age alone.
* `DeviceTimelineSleep.cfg` (`MCDeviceTimeline`, `SleepIsItsOwnInterval`). `os_state.rs`: a
  jump in the clock "is emitted as its own interval rather than being silently absorbed into whatever was
  open". A sleep that ends while nothing may be collected (the lid closed at work, opened
  after the schedule's end, or in a pause) takes the early return of `tick`
  (`trackers/os_state.rs:94`), which closes the open interval at the new time: the whole sleep
  is stored as active or idle.
* `DeviceTimelineShortDay.cfg` (`MCDeviceTimeline`, `NightsBelongToTheirDay`). The backend's
  `monitoring_profile.go:491`, on the same rules: "Overnight windows use the day on which the
  window starts". The agent takes 24 hours off the local time (`trackers/mod.rs:166`), so early
  in the morning after the clocks were put forward "yesterday" is the day before yesterday.
* `BrowserVisitsPostponed.cfg` (`MCBrowserVisits`, `NeverTwiceAtAll`). `trackers/mod.rs`: the
  fallback "yields to it so one browsing interval is never stored twice". Every start of the
  service worker creates the checkpoint alarm anew (`background.js:389`); restarts that come
  sooner than its period keep the extension silent for longer than the fallback's patience, and
  the segment it sends afterwards covers time the fallback has stored.
* `LiveViewBlind.cfg` (`MCLiveView`, `SkipListHolds`). `trackers/mod.rs`, on a frame of the live
  view: the skip list "remains authoritative even during support". It is asked only when
  `active_window()` answers (lines 756-762); when it answers nothing the screen is captured,
  whatever is in front.
* `BrowserVisitsOverflow.cfg` (`MCBrowserVisits`, `AcceptedBeforeDropped`). `background.js`:
  "Segments leave the outbox only once the app has accepted them". When the outbox overflows
  while a batch is posted, the front of the queue is no longer that batch, and the answer
  removes as many segments as were sent: newer ones, never sent and not reported as dropped.

Smaller ones, met while reading and not stated as properties: keystrokes typed in a pause that
began less than 15 seconds before are stored (`trackers/mod.rs:586-592`); browsing during a
pause is ingested by the extension after the pause; `/whoami` counts as a sign of life of the
extension (`server/mod.rs:157-162`), whoever asks; the agent never sends `SetControl`, and the
publisher would answer it with "publishing" while it is reconnecting; the reader of a replaced
process may clear the status of the next one of the same session (`media/mod.rs:96-98`); the new
reader then finds no status at its next event and ends (line 913), so the indicator on the
machine stays off while that process captures; `TerminateProcess` keeps
`release_all` from running; `sync/commands.rs` says that capture must never outlive the
connection that authorized it, while the status poll renews the same deadline.

## 4. Proofs

Each module of proofs extends its component's and holds for every value of the constants
under the named assumptions of the module (disjoint identities, positive bounds; no size).

* `MediaSessionProofs`: `Typed`, `OneOpen`, `WatchersKept`, `LapsedForGood`,
  `OverIsFinal`, `Implements`. Every step of the control plane changes at most one
  row, by one of three moves (kept, inserted, moved along an edge of the state machine),
  and leases by the moves of `LeaseStep`; these two lemmas carry all the theorems. The
  strengthening (`RowConstraints`) ties failure codes and ending actors to the states that
  may have them.
* `RecordingAssetProofs`: `Typed`, `FileKept`, `FileDeletedWhenDue`, `RowDeletedForGood`.
  `ReadyHasObject` is not inductive: a verification taken before the file was deleted may be
  used after it. The strengthening says that a retention is due only when the session is
  over, nobody is starting a job and the status is settled (`DueIsSettled`), that a deleted
  row was due (`DeletedIsDue`), that the sweep deletes only what is due (`SweepHoldsDue`)
  and that a verification in hand is of a file that is still there or was due
  (`FoundStays`). The thirty days enter through the guard of `RetentionPasses`: they do not
  pass while a request that began before the chunk ended is still running.
* `OutboxProofs`, first part: `SyncTyped`, `AckedIsKnown`, `NoRegress`. What a request carries
  was read from rows that only grow, so stored <= carried <= local for the batch in flight
  (`InFlight`) and for a request the client gave up on (`Overdue`). The latter is why the
  pause between passes matters: the guard `late = Nothing` of `StartPass` says that five
  minutes are longer than the backend serves a request abandoned after thirty seconds.
* `OutboxProofs`, second part: `VisitsTyped`, `StoredOnce`, `LossReported`. `NeverTwice` looks
  only at what is stored; the invariant (`VisitsInv`) has to speak of everything that may still
  be. Each side tells of pieces that do not overlap (`ExtensionApart`, `FallbackApart`); what
  the fallback watches began after all that the extension has stored (`ObservedAfterRows`);
  what it saw of another browser is not the extension's at all (`ForeignApart`); and what the
  fallback has stored, the extension does not send (`StoredAlone`). The last one is
  the argument of the code. The fallback stores what it saw only when it has heard nothing for
  its patience, and the patience is longer than the extension's alarm period
  (`RipeBeforeAlarm`, from `VisitsAssumption`): an alarm that no restart has put off has fired in
  between, and either its flush is not over or it had nothing to tell of that piece (`AlarmTold`),
  because what was observed at a poll the extension saw as well (`BothSee`). When a restart has put
  it off the argument fails, and what the extension then holds is in `orphans`, outside the claim,
  as is what it holds while its browser is closed; `BrowserVisitsPostponed.cfg` shows the double
  row. `LossIsReported` rests on `BatchHeads`: until something is evicted, the request in flight is
  the head of the outbox.
* `RemoteAssistProofs`: `Typed`, `Consented`, `ControlShown`, `OnceOnly`, `StaysOver`.
  Whatever step they are part of, statements on sessions are `StatusMove`s and those on
  actions `RowMove`s; the strengthening adds that the answer the loop is about to act on is
  backed by consent (`AnswerConsented`), that an action handed out has left the queue
  (`HandedLeft`) and that what waits to be executed has its row (`InboxSettled`). `ControlShown`
  says that what is executed belongs to the session the Stop control would end; whether its
  window is up is what `RemoteAssistUnseen.cfg` refutes.
* `MediaPublisherProofs`, first part: `ControlTyped`, `NothingForgotten`, `StopHolds`, of
  `RemoteControl` by itself. `OneLateFrame` is not
  inductive: the strengthening (`LateBounded`) says that nothing is late yet while a frame is
  waiting to be applied, which holds because nothing is accepted past a closed gate.
* `MediaPublisherProofs`, second part: `PublisherTyped`, `LossTold`, `CaptureAnnounced`,
  `LastWord`, `RunsControl`, `StopHoldsInside`, `Implements`, of the whole process. The invariant
  (`PublisherInv`) says for every place of the main thread what the capture may be and what was
  said of it (`CapturePlaced`, `FirstInOpening`, `LossAnnounced`), that a rebuild begins with a
  round left (`RoundsLeft`), that no control task is left over when one is started (`TaskOff`)
  and that a closed pipe is empty (`PipeShut`). From it every action is shown to be a step of
  `RemoteControl` or to leave it alone (`RunsControl`; without `TaskOff` the task of the next Start would not be one
  of `RemoteControl`), so that `StopHolds` also
  holds inside the process, and to be a step of `PublisherProcess` under the mapping (`Implements`),
  by one lemma per kind of step (`SaysRefined`, `ProbeRefined`, `FailRefined`, `GoneRefined`,
  `StutterRefined`). `LastWord` needs that the pipe holds no fatal event or "stopped" before the
  main thread is past them (`FinalInv`): metrics may follow, because the ticker is another thread.
* `MediaSupervisorProofs`: `Typed`, `OneCapture`, `BlockHolds`, `GivenUp`, `GraceHolds`. The
  strengthening says where the active process and the one being started are in the loop and
  that all others are gone or were never sent a Start (`ActiveOwns`), that the counter belongs
  to the session it stopped (`StrikesCounted`) and that polls overdue are failed polls
  (`OverduePolls`).
* `MediaSupervisorProofs`, on the processes: `FatalIsTheEnd`, `ProcessesKeepTheirWord`,
  `ReportedIsOver`. The first is a theorem of `PublisherProcess` alone (`ProcInv`); the second
  says that the supervisor, with its kills, its crash and its readers, asks of the processes
  nothing that `PublisherProcess` does not allow, so that what was proved of that
  specification holds here; the third uses it: a reader heard of a terminal
  failure from a fatal event in the pipe, which is the last of the process, so a session is
  failed for what its publisher said only when that publisher does not capture any more.
* `DeviceTimelineProofs`: `ScheduleDecision`, `Typed`, `NothingLost`, `Ordered`, `CountedOnce`,
  `ScheduleKept`. `ScheduleDecision` is arithmetic on the early returns of `active_at`: for any
  offset function and at every `Steady` instant the decision is the window's, because there 24
  hours ago was yesterday (`Quotient`, `InstantFacts`). `ScheduleKept` carries it to what the
  cores hold open after a poll (`AllowedAsMeant`). For the rows, the lemmas about one push (`RowFacts`) and two rows in succession (`JoinFacts`) carry
  the poll; the strengthening (`OpenBegan`) is that what is open began before the last tick.
* `LiveViewProofs`: `Typed`, `NewestFirst`, `PaidFor`, `ClosingHolds`. `StrayFramesPaid`
  follows from `CreditCovers`: the credit is never less than what is owed, signal by signal;
  `StrayBounded` ties a stray frame to the place in the loop, past its last check. `NewestFirst`
  needs what each half-done channel holds (`Delivered`): once its
  channel has been drained it is empty, and only this PutFrame writes to it until it is done, so
  the second send finds room whenever the viewer reads.

Every safety and action property of the runs, and both refinements, are stated by a theorem.
The invariants were first given to TLC as invariants of the runs' instances, where the steps
that break a weaker form show up as short traces (`RoundsLeft` had to speak of the
connection, `AlarmTold` of a flush that is still going on).

Only model-checked: the liveness properties (`RotationGuaranteed`, `AbandonedCaptureStops`, `OverIsWithdrawn`,
`AssetSettles`, `PendingDrains`, `StopHonoured`, `ControlEnds`, `StopReleases`,
`LostCaptureSettles`, `NeverOutlivesAgent`, `OutboxDrains`, `ViewerIsServed`): they need
fairness and ENABLED, which are out of the prover's reach. No module declares a recursive
operator, so no proof rests on an induction over data.

## 5. What is composed, and what is left

`SessionLifecycle` is implemented by `MediaSession` (proved: `Implements`); `PublisherProcess`
is implemented by `MediaPublisher` (proved: `Implements`) and by the processes of
`MediaSupervisor` (proved: `ProcessesKeepTheirWord`), so the two meet in it: what the agent
relies on is what the process does. `RemoteControl` runs inside
`MediaPublisher` (proved: `RunsControl`); `MonitoringSchedule` decides in `DeviceTimeline`. Not composed: the agent's
supervisor with the backend's sessions (the supervisor sees one open session per device that
ends at any moment, which is weaker than what `MediaSession` guarantees), the trackers with
the outbox (an outbox row is any row), and the live hub with many devices.

## 6. Not modelled

Listed with its reason in `PROJECT.json` under `components`: UI, tray, settings, the desktop's
process supervisor, reports, authentication (the hourly token refresh of the agent included),
configuration, CRUD of organisations, the prober in `apps/monitor`, capture and encoding in the
native publisher. Tasks and work sessions are one transaction each under a unique index and
leave nothing between two steps. Of modelled components: the frames of remote assistance, the
limit on the hub's sessions, tokens and rooms, the back-off for recording quotas, and refused
rows of the ingest.
