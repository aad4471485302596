--------------------------- MODULE DeviceTimeline ---------------------------
(***************************************************************************)
(* What the desktop agent records of a working day: the poll loop with its two  *)
(* pure cores, WindowTracker (which application had focus, in counted seconds,   *)
(* trackers/mod.rs) and StateTracker (active, idle, suspended, in wall-clock      *)
(* intervals, os_state.rs).                                                     *)
(*                                                                           *)
(* A poll reads the clock, the idle time, the switches and the window, and lets  *)
(* both cores advance.  The time between two polls is the environment's: a        *)
(* second, a few under load, more than SuspendGap over a sleep, less than none    *)
(* when the clock is set back.  Titles and process ids are left out.              *)
(***************************************************************************)
EXTENDS Integers, Sequences

CONSTANTS
  App,          \* applications
  Rules,        \* monitoring rules the policy may set (NoRule included)
  NoRule,       \* the category has no rule
  None,         \* nothing is open
  DayLength,    \* clock units in a day
  Offset(_),    \* what the rules' time zone adds to the clock
  Threshold,    \* idle_threshold_s
  SuspendGap,   \* SUSPEND_GAP_S
  StateChunk,   \* MAX_STATE_CHUNK_S
  WindowChunk,  \* MAX_CHUNK_S
  Idles,        \* readings of the platform's idle counter
  Jumps,        \* how far the clock may move between two polls
  MaxTime       \* bound: the clock

ASSUME TimelineAssumption ==
  /\ DayLength \in Nat \ {0} /\ Threshold \in Nat \ {0} /\ SuspendGap \in Nat /\ StateChunk \in Nat \ {0}
  /\ WindowChunk \in Nat \ {0} /\ Idles \subseteq Nat /\ Jumps \subseteq Int /\ MaxTime \in Nat
  /\ \A t \in (-DayLength)..MaxTime : Offset(t) \in Int

Schedule == INSTANCE MonitoringSchedule WITH DayLength <- DayLength, Offset <- Offset

State == {"active", "idle"}

VARIABLES
  now,        \* wall clock at the latest poll
  stopped,    \* paused by the employee or switched off by the owner
  rule,       \* the rule of the category, or NoRule
  interval,   \* WindowTracker.current
  open,       \* StateTracker.current
  lastTick,   \* StateTracker.last_tick
  rows,       \* the OS-state rows of the latest poll
  stretch,    \* history: [from, total] of the rows since the timeline (re)started
  tally       \* history: seconds stored or trimmed, less the polls that counted one

switchVars == <<stopped, rule>>
windowVars == <<interval, tally>>
stateVars == <<open, lastTick, rows, stretch>>
timelineVars == <<now, switchVars, windowVars, stateVars>>

Interval == [app : App, dur : 0..(WindowChunk + MaxTime)]
OpenState == [state : State, start : 0..MaxTime]
Row == [state : State \cup {"suspended"}, start : 0..MaxTime, end : 0..MaxTime]
Stretch == [from : 0..MaxTime, total : Int]

ASSUME TimelineDistinct ==
  /\ NoRule \in Rules /\ Rules \ {NoRule} \subseteq Schedule!Rule
  /\ None \notin Interval /\ None \notin OpenState /\ None \notin Stretch
  /\ None \notin 0..MaxTime /\ None \notin App

TimelineInit ==
  /\ now = 0 /\ stopped = FALSE /\ rule = NoRule
  /\ interval = None
  /\ open = None /\ lastTick = None /\ rows = <<>>
  /\ stretch = None
  /\ tally = 0

---------------------------------------------------------------------------
(* The switches. *)

\* category_allowed: pause and fleet switch, then the schedule.
Allowed(t) == ~stopped /\ (rule = NoRule \/ Schedule!ActiveAt(rule, t))

SetStopped(value) ==
  /\ stopped # value
  /\ stopped' = value
  /\ UNCHANGED <<now, rule, windowVars, stateVars>>

\* replace_monitoring_rules
SetRule(r) ==
  /\ rule # r
  /\ rule' = r
  /\ UNCHANGED <<now, stopped, windowVars, stateVars>>

---------------------------------------------------------------------------
(* WindowTracker. *)

Held == IF interval = None THEN 0 ELSE interval.dur

Largest(a, b) == IF a >= b THEN a ELSE b

\* close_idle: the seconds counted before idleness was noticed are dropped.
CloseIdle ==
  /\ LET stored == Largest(Held - Threshold, 0)
         trimmed == IF Held > Threshold THEN Threshold ELSE Held
     IN tally' = tally + stored + trimmed
  /\ interval' = None

\* close: no window has focus.
CloseNow ==
  /\ tally' = tally + Held
  /\ interval' = None

Tracks(app) == interval # None /\ interval.app = app

\* Variant (mutant): the open interval goes on counting from what it has stored.
SameWindowKeepsCount(app) ==
  LET dur == interval.dur + 1 IN
  /\ Tracks(app)
  /\ tally' = tally - 1 + (IF dur >= WindowChunk THEN dur ELSE 0)
  /\ interval' = [interval EXCEPT !.dur = dur]

SameWindow(app) ==
  LET dur == interval.dur + 1 IN
  /\ Tracks(app)
  /\ tally' = tally - 1 + (IF dur >= WindowChunk THEN dur ELSE 0)
  /\ interval' = [interval EXCEPT !.dur = IF dur >= WindowChunk THEN 0 ELSE dur]

OtherWindow(app) ==
  /\ ~Tracks(app)
  /\ tally' = tally - 1 + Held
  /\ interval' = [app |-> app, dur |-> 1]

WindowTick(present, win) ==
  \/ ~present /\ CloseIdle
  \/ present /\ win = None /\ CloseNow
  \/ present /\ win # None /\ (SameWindow(win) \/ OtherWindow(win))

---------------------------------------------------------------------------
(* StateTracker. *)

\* push: an empty interval is never stored.
RowOf(state, start, end) ==
  IF end > start THEN <<[state |-> state, start |-> start, end |-> end]>> ELSE <<>>

CloseAt(t) == IF open = None THEN <<>> ELSE RowOf(open.state, open.start, t)

Slept(t) == lastTick # None /\ t - lastTick > SuspendGap

Duration(r) == r.end - r.start

\* A poll stores two rows at most.
Covered(out) ==
  IF out = <<>> THEN 0
  ELSE Duration(out[1]) + (IF Len(out) = 1 THEN 0 ELSE Duration(out[2]))

\* Not collecting: what is open is closed and the timeline stops.
Stop(t) ==
  /\ rows' = CloseAt(t)
  /\ open' = None /\ lastTick' = None /\ stretch' = None

\* Where the timeline goes on: after a sleep and after a clock set back nothing is open.
Continued(t) ==
  IF Slept(t) \/ (open # None /\ t < open.start) THEN None ELSE open

SleepRows(t) ==
  IF Slept(t) THEN CloseAt(lastTick) \o RowOf("suspended", lastTick, t) ELSE <<>>

\* Idleness is noticed Threshold after it began; the boundary goes back to there.
Boundary(cur, desired, t) ==
  IF desired = "idle" THEN Largest(t - Threshold, cur.start) ELSE t

\* Variant (mutant): the new interval opens at the poll, not at the shared boundary.
AdvanceFromPoll(cur, desired, t) ==
  IF cur = None THEN [out |-> <<>>, open |-> [state |-> desired, start |-> t]]
  ELSE IF cur.state # desired
  THEN [out |-> RowOf(cur.state, cur.start, Boundary(cur, desired, t)),
        open |-> [state |-> desired, start |-> t]]
  ELSE IF t - cur.start >= StateChunk
  THEN [out |-> RowOf(cur.state, cur.start, t), open |-> [cur EXCEPT !.start = t]]
  ELSE [out |-> <<>>, open |-> cur]

Advance(cur, desired, t) ==
  IF cur = None THEN [out |-> <<>>, open |-> [state |-> desired, start |-> t]]
  ELSE IF cur.state # desired
  THEN LET b == Boundary(cur, desired, t) IN
       [out |-> RowOf(cur.state, cur.start, b), open |-> [state |-> desired, start |-> b]]
  ELSE IF t - cur.start >= StateChunk
  THEN [out |-> RowOf(cur.state, cur.start, t), open |-> [cur EXCEPT !.start = t]]
  ELSE [out |-> <<>>, open |-> cur]

Collect(t, idle) ==
  LET desired == IF idle >= Threshold THEN "idle" ELSE "active"
      next == Advance(Continued(t), desired, t)
      restarted == stretch = None \/ (open # None /\ t < open.start /\ ~Slept(t))
  IN
  /\ rows' = SleepRows(t) \o next.out
  /\ open' = next.open
  /\ lastTick' = t
  /\ stretch' = IF restarted THEN [from |-> t, total |-> 0]
                ELSE [stretch EXCEPT !.total = @ + Covered(rows')]

StateTick(t, idle, allowed) ==
  IF allowed THEN Collect(t, idle) ELSE Stop(t)

---------------------------------------------------------------------------
(* The poll loop. *)

\* One turn of run(): the idle counter is the platform's own and says nothing of the
\* wall clock; the window in focus is read only when somebody is there to use it.
Poll(jump, idle, win) ==
  LET t == now + jump
      allowed == Allowed(t)
      present == allowed /\ idle < Threshold
  IN
  /\ t \in 0..MaxTime
  /\ now' = t
  /\ WindowTick(present, win)
  /\ StateTick(t, idle, allowed)
  /\ UNCHANGED <<switchVars>>

TimelineNext ==
  \/ \E value \in BOOLEAN : SetStopped(value)
  \/ \E r \in Rules : SetRule(r)
  \/ \E jump \in Jumps, idle \in Idles, win \in App \cup {None} : Poll(jump, idle, win)

TimelineSpec == TimelineInit /\ [][TimelineNext]_timelineVars

---------------------------------------------------------------------------
(* Properties. *)

TimelineTypeOK ==
  /\ now \in 0..MaxTime
  /\ stopped \in BOOLEAN /\ rule \in Rules
  /\ interval \in Interval \cup {None}
  /\ open \in OpenState \cup {None}
  /\ lastTick \in (0..MaxTime) \cup {None}
  /\ rows \in Seq(Row) /\ Len(rows) <= 2
  /\ stretch \in Stretch \cup {None} /\ tally \in Int
  /\ (open = None) = (lastTick = None) /\ (open = None) = (stretch = None)

\* The rows stored since the timeline started, or since the clock was set back, cover
\* exactly the time up to the interval that is open: nothing is missing between two rows
\* and nothing is covered twice (os_state.rs: "emitted intervals are contiguous and never
\* overlap, so for any window sum(durations) equals the wall-clock time").
EverySecondAccounted ==
  open # None => stretch.total = open.start - stretch.from

\* The rows of one poll follow on each other and end before the interval that is open.
RowsInOrder ==
  /\ \A i \in 1..(Len(rows) - 1) : rows[i].end = rows[i + 1].start
  /\ rows # <<>> /\ open # None => rows[Len(rows)].end = open.start

\* Every poll that found somebody at work is counted in exactly one sample, is still in
\* the open interval, or was dropped with the grace before an idle spell.
EveryPollCountedOnce == tally + Held = 0

\* A poll leaves the OS-state timeline running exactly when nothing is paused and the
\* owner's rule has a window at that instant, and an application's interval only then,
\* whatever late polls, sleeps, clocks set back, midnights, clock changes and rules
\* replaced came in between (trackers/mod.rs, category_allowed and active_at).  Left out
\* are the minutes in which a clock change moves "24 hours ago" off yesterday
\* (Schedule!Steady).
Meant(t) == ~stopped /\ (rule = NoRule \/ Schedule!InWindow(rule, t))

CollectsAsMeant ==
  /\ open' # None <=> Meant(now')
  /\ interval' # None => Meant(now')

ScheduleMeansItsWindows ==
  [][now' # now /\ (rule = NoRule \/ Schedule!Steady(rule, now')) => CollectsAsMeant]_timelineVars

\* The same without the exception (monitoring_profile.go of the backend, on the same
\* rules: "Overnight windows use the day on which the window starts").
NightsBelongToTheirDay == [][now' # now => CollectsAsMeant]_timelineVars

\* A sleep is an interval of its own: no active or idle row covers one
\* (os_state.rs: "is emitted as its own interval rather than being silently absorbed
\* into whatever was open").
SleepIsItsOwnInterval ==
  [][now' - now > SuspendGap /\ lastTick # None =>
       \A i \in DOMAIN rows' : rows'[i].state # "suspended" => rows'[i].end <= lastTick]_timelineVars

=============================================================================
