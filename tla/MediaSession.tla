---------------------------- MODULE MediaSession ----------------------------
(***************************************************************************)
(* The media control plane of the backend for one enrolled device: the      *)
(* media_sessions and viewer_sessions rows, the HTTP handlers and sweeper    *)
(* that change them, and what the desktop agent has last been told.          *)
(*                                                                           *)
(* Every action is one database transaction of a handler; a handler that     *)
(* commits several is cut at its commits, and can be abandoned between them   *)
(* (the request context is cancelled, the process restarts).                 *)
(*                                                                           *)
(* Time is kept as ages that stop growing at the threshold the code compares *)
(* them with: last_seen_at against LeaseTTL (90 seconds), started_at against  *)
(* LeaseTTL and ChunkAge (5 minutes), ended_at against Cooldown (15 minutes). *)
(***************************************************************************)
EXTENDS MediaState, Naturals, FiniteSets

CONSTANTS
  Session,        \* identities of media_sessions rows (bounds how many exist)
  Lease,          \* identities of viewer_sessions rows, one per browser tab
  Viewer,         \* dashboard users
  Owner,          \* the user each lease is for: viewer_user_id
  NoSession,
  NoCode,         \* the NULL failure_code
  LeaseTTL, ChunkAge, Cooldown,   \* thresholds, in ticks
  AgentFailure,   \* failure codes the agent reports
  Policies        \* the <<monitoring, recordingPolicy>> settings in use

ASSUME DataAssumption ==
  /\ NoSession \notin Session
  /\ Owner \in [Lease -> Viewer]
  /\ NoCode \notin AgentFailure \cup {"ROOM_FAILED", "PROVIDER_UNAVAILABLE", "TIMEOUT"}
  /\ Policies \subseteq BOOLEAN \X BOOLEAN

ASSUME TimeAssumption ==
  /\ LeaseTTL \in Nat \ {0}
  /\ ChunkAge \in Nat
  /\ Cooldown \in Nat
  /\ LeaseTTL <= ChunkAge

VARIABLES
  kind, state, code,   \* media_sessions: kind, state, failure_code
  age,                 \* time since started_at
  endAge,              \* time since ended_at
  endedBy,             \* the actor the audit trail names for the terminal move
  leaseOf,             \* viewer_sessions: the session of each lease
  leaseOpen,           \* leases with left_at IS NULL
  leaseAge,            \* time since last_seen_at
  minting,             \* leases whose viewer token is being minted
  liveWanted,          \* a StartLive request has found no open recording
  opener,              \* next step of the request that inserted the session
  starting,            \* recordings whose egress job is being started
  swept,               \* recordings the rotation sweep has read and not handled
  monitoring,          \* devices.monitoring_enabled
  recordingPolicy,     \* the recording key is enabled and inside its schedule
  pollStep, pollSession,  \* the AgentSession request in progress and its session
  told,                \* sessions whose id some poll answer carried
  capture              \* the session in the agent's latest poll answer

rowVars == <<kind, state, code, age, endAge, endedBy>>
leaseVars == <<leaseOf, leaseOpen, leaseAge, minting>>
openVars == <<liveWanted, opener>>
workVars == <<starting, swept>>
policyVars == <<monitoring, recordingPolicy>>
agentVars == <<pollStep, pollSession, told, capture>>

vars == <<rowVars, leaseVars, openVars, workVars, policyVars, agentVars>>

Kind == {"live", "recording"}
FailureCode == AgentFailure \cup {"ROOM_FAILED", "PROVIDER_UNAVAILABLE", "TIMEOUT"}
Actor == {"nobody", "viewer", "expiry", "agent", "scheduler", "provider"}
OpenerStep == {"none", "create_room", "authorize", "await_agent"}

\* The partial unique index: rows that are not over, of one kind.
OpenRows(k) == {s \in Session : kind[s] = k /\ state[s] \in State /\ ~Terminal(state[s])}

LeasesOn(s) == {l \in leaseOpen : leaseOf[l] = s}
Fresh(l) == leaseAge[l] < LeaseTTL
Watched(s) == \E l \in LeasesOn(s) : Fresh(l)

-----------------------------------------------------------------------------
Init ==
  /\ kind = [s \in Session |-> "live"]
  /\ state = [s \in Session |-> "absent"]
  /\ code = [s \in Session |-> NoCode]
  /\ age = [s \in Session |-> 0]
  /\ endAge = [s \in Session |-> 0]
  /\ endedBy = [s \in Session |-> "nobody"]
  /\ leaseOf = [l \in Lease |-> NoSession]
  /\ leaseOpen = {}
  /\ leaseAge = [l \in Lease |-> 0]
  /\ minting = {}
  /\ liveWanted = FALSE
  /\ opener = [s \in Session |-> "none"]
  /\ starting = {}
  /\ swept = {}
  /\ \E p \in Policies : monitoring = p[1] /\ recordingPolicy = p[2]
  /\ pollStep = "idle"
  /\ pollSession = NoSession
  /\ told = {}
  /\ capture = NoSession

-----------------------------------------------------------------------------
(***************************************************************************)
(* The row                                                                  *)
(***************************************************************************)

\* UPDATE media_sessions under the row lock, as AdvanceMediaSession writes it.
SetState(s, to, failure, who) ==
  /\ state' = [state EXCEPT ![s] = to]
  /\ code' = [code EXCEPT ![s] = IF to = "failed" THEN failure ELSE NoCode]
  /\ endAge' = IF Terminal(to) THEN [endAge EXCEPT ![s] = 0] ELSE endAge
  /\ endedBy' = IF Terminal(to) THEN [endedBy EXCEPT ![s] = who] ELSE endedBy
  /\ UNCHANGED <<kind, age>>

AdvanceMediaSession(s, to, failure, who) ==
  /\ Transition(state[s], to)
  /\ SetState(s, to, failure, who)

\* Callers that ignore the error of an illegal transition.
TryAdvance(s, to, failure, who) ==
  \/ AdvanceMediaSession(s, to, failure, who)
  \/ ~Transition(state[s], to) /\ UNCHANGED rowVars

\* Mutant: no partial unique index behind the INSERT.
InsertRowNoIndex(s, k) ==
  /\ state[s] = "absent"
  /\ kind' = [kind EXCEPT ![s] = k]
  /\ state' = [state EXCEPT ![s] = "requested"]
  /\ opener' = [opener EXCEPT ![s] = "create_room"]
  /\ UNCHANGED <<code, age, endAge, endedBy>>

\* The INSERT of OpenMediaSession; the caller goes on to create the room.
InsertRow(s, k) ==
  /\ state[s] = "absent"
  /\ OpenRows(k) = {}
  /\ kind' = [kind EXCEPT ![s] = k]
  /\ state' = [state EXCEPT ![s] = "requested"]
  /\ opener' = [opener EXCEPT ![s] = "create_room"]
  /\ UNCHANGED <<code, age, endAge, endedBy>>

\* The INSERT lost to a row that was over again when OpenMediaSession read it.
WinnerOver(k) == \E s \in Session : kind[s] = k /\ Terminal(state[s])

-----------------------------------------------------------------------------
(***************************************************************************)
(* StartLive and the steps after its INSERT, shared with scheduled          *)
(* recordings                                                               *)
(***************************************************************************)

\* A recording is opened inside the agent's own poll, which waits for it and fails
\* when it cannot be opened.
Waits(s) == pollSession = s /\ pollStep \in {"opening", "reopening"}

HangUp(s) ==
  /\ pollStep' = IF Waits(s) THEN "idle" ELSE pollStep
  /\ pollSession' = IF Waits(s) THEN NoSession ELSE pollSession
  /\ UNCHANGED <<capture, told>>

StartLiveCheck ==
  /\ monitoring
  /\ ~liveWanted
  /\ OpenRows("recording") = {}
  /\ liveWanted' = TRUE
  /\ UNCHANGED <<rowVars, leaseVars, opener, workVars, policyVars, agentVars>>

\* OpenMediaSession either joins the open live session or inserts one; the
\* losing side of a concurrent INSERT reads the winner's row, which is the join.
StartLive ==
  /\ liveWanted
  /\ liveWanted' = FALSE
  /\ \/ /\ OpenRows("live") # {} \/ WinnerOver("live")
        /\ UNCHANGED <<rowVars, opener>>
     \/ \E s \in Session : InsertRow(s, "live")
  /\ UNCHANGED <<leaseVars, workVars, policyVars, agentVars>>

CreateRoom(s) ==
  /\ opener[s] = "create_room"
  /\ \/ /\ opener' = [opener EXCEPT ![s] = "authorize"]
        /\ UNCHANGED <<rowVars, agentVars>>
     \/ /\ opener' = [opener EXCEPT ![s] = "none"]
        /\ TryAdvance(s, "failed", "ROOM_FAILED", "provider")
        /\ HangUp(s)
  /\ UNCHANGED <<leaseVars, liveWanted, workVars, policyVars>>

Authorize(s) ==
  /\ opener[s] = "authorize"
  /\ \/ /\ AdvanceMediaSession(s, "authorizing", NoCode, "nobody")
        /\ opener' = [opener EXCEPT ![s] = "await_agent"]
        /\ UNCHANGED agentVars
     \/ /\ ~Transition(state[s], "authorizing")
        /\ opener' = [opener EXCEPT ![s] = "none"]
        /\ HangUp(s)
        /\ UNCHANGED rowVars
  /\ UNCHANGED <<leaseVars, liveWanted, workVars, policyVars>>

Answer(s) ==
  /\ pollStep' = "idle"
  /\ pollSession' = NoSession
  /\ capture' = s
  /\ told' = IF s = NoSession THEN told ELSE told \cup {s}

\* The poll has its recording: one that rotated answers with it, one that found nothing
\* to serve goes on to look at its policy and age.
Opened(s, rotated) ==
  IF rotated THEN Answer(s)
             ELSE pollStep' = "serve" /\ pollSession' = s /\ UNCHANGED <<capture, told>>

AwaitAgent(s) ==
  /\ opener[s] = "await_agent"
  /\ opener' = [opener EXCEPT ![s] = "none"]
  /\ \/ /\ AdvanceMediaSession(s, "waiting_for_agent", NoCode, "nobody")
        /\ \/ Waits(s) /\ Opened(s, pollStep = "reopening")
           \/ ~Waits(s) /\ UNCHANGED agentVars
     \/ /\ ~Transition(state[s], "waiting_for_agent")
        /\ HangUp(s)
        /\ UNCHANGED rowVars
  /\ UNCHANGED <<leaseVars, liveWanted, workVars, policyVars>>

\* The client disconnects (its context cancels every further statement), a
\* statement fails or the process restarts: the row stays as it was.
AbortOpen(s) ==
  /\ opener[s] # "none"
  /\ opener' = [opener EXCEPT ![s] = "none"]
  /\ HangUp(s)
  /\ UNCHANGED <<rowVars, leaseVars, liveWanted, workVars, policyVars>>

-----------------------------------------------------------------------------
(***************************************************************************)
(* Viewers                                                                  *)
(***************************************************************************)

\* Mutant: the lease is inserted without rereading the state under the lock.
JoinWithoutLock(l, s) ==
  /\ leaseOf[l] = NoSession
  /\ state[s] \in State
  /\ leaseOf' = [leaseOf EXCEPT ![l] = s]
  /\ leaseOpen' = leaseOpen \cup {l}
  /\ minting' = minting \cup {l}
  /\ UNCHANGED <<rowVars, leaseAge, openVars, workVars, policyVars, agentVars>>

\* ViewerToken commits the lease, then asks the provider for the token.
JoinViewerSession(l, s) ==
  /\ leaseOf[l] = NoSession
  /\ OpenToViewers(state[s])
  /\ leaseOf' = [leaseOf EXCEPT ![l] = s]
  /\ leaseOpen' = leaseOpen \cup {l}
  /\ minting' = minting \cup {l}
  /\ UNCHANGED <<rowVars, leaseAge, openVars, workVars, policyVars, agentVars>>

MintViewerToken(l) ==
  /\ l \in minting
  /\ minting' = minting \ {l}
  /\ leaseOpen' \in {leaseOpen, leaseOpen \ {l}}     \* LeaveViewerLease on failure
  /\ UNCHANGED <<rowVars, leaseOf, leaseAge, openVars, workVars, policyVars, agentVars>>

\* A request names one lease of the user or, with no viewer_session_id, them all.
Selection(v) == {{l \in Lease : Owner[l] = v}} \cup {{l} : l \in {k \in Lease : Owner[k] = v}}

\* Mutant: the renewal does not require last_seen_at to be within the TTL.
TouchResurrects(s, L) ==
  /\ OpenToViewers(state[s])
  /\ L \cap LeasesOn(s) # {}
  /\ leaseAge' = [l \in Lease |-> IF l \in L \cap LeasesOn(s) THEN 0 ELSE leaseAge[l]]
  /\ UNCHANGED <<rowVars, leaseOf, leaseOpen, minting, openVars, workVars, policyVars,
                 agentVars>>

TouchViewerSession(s, L) ==
  LET renewed == {l \in L \cap LeasesOn(s) : Fresh(l)}
  IN  /\ OpenToViewers(state[s])
      /\ renewed # {}
      /\ leaseAge' = [l \in Lease |-> IF l \in renewed THEN 0 ELSE leaseAge[l]]
      /\ UNCHANGED <<rowVars, leaseOf, leaseOpen, minting, openVars, workVars,
                     policyVars, agentVars>>

\* Mutant: the last viewer ends the session without asking whether it is over.
LeaveEndsTerminal(s, L) ==
  /\ kind[s] = "live"
  /\ state[s] \in State
  /\ leaseOpen' = leaseOpen \ {l \in L : leaseOf[l] = s}
  /\ IF \E l \in LeasesOn(s) \ L : Fresh(l)
       THEN UNCHANGED rowVars
       ELSE SetState(s, "ended", NoCode, "viewer")
  /\ UNCHANGED <<leaseOf, leaseAge, minting, openVars, workVars, policyVars, agentVars>>

LeaveMediaViewerAndMaybeEnd(s, L) ==
  LET remaining == {l \in LeasesOn(s) \ L : Fresh(l)}
  IN  /\ kind[s] = "live"
      /\ state[s] \in State
      /\ leaseOpen' = leaseOpen \ {l \in L : leaseOf[l] = s}
      /\ \/ /\ ~Terminal(state[s])
            /\ remaining = {}
            /\ SetState(s, "ended", NoCode, "viewer")
         \/ /\ Terminal(state[s]) \/ remaining # {}
            /\ UNCHANGED rowVars
      /\ UNCHANGED <<leaseOf, leaseAge, minting, openVars, workVars, policyVars, agentVars>>

\* Stop on a shared recording only releases the viewer.
LeaveViewerSession(s, v) ==
  /\ kind[s] = "recording"
  /\ state[s] \in State
  /\ leaseOpen' = leaseOpen \ {l \in LeasesOn(s) : Owner[l] = v}
  /\ UNCHANGED <<rowVars, leaseOf, leaseAge, minting, openVars, workVars, policyVars, agentVars>>

-----------------------------------------------------------------------------
(***************************************************************************)
(* The agent's poll (AgentSession)                                          *)
(***************************************************************************)

Pending == {s \in Session : /\ monitoring
                            /\ state[s] \in {"waiting_for_agent", "negotiating",
                                             "live", "reconnecting"}}

\* ORDER BY recording first; the unique index leaves one candidate of each kind.
Preferred == {s \in Pending : kind[s] = "recording" \/
                                \A r \in Pending : kind[r] # "recording"}

\* With existing_only the poll never opens a recording.
Poll ==
  /\ pollStep = "idle"
  /\ \/ /\ \E s \in Preferred : pollStep' = "serve" /\ pollSession' = s
        /\ UNCHANGED <<capture, told>>
     \/ /\ Pending = {}
        /\ Answer(NoSession)
     \/ /\ Pending = {}
        /\ pollStep' = "open"
        /\ UNCHANGED <<pollSession, capture, told>>
  /\ UNCHANGED <<rowVars, leaseVars, openVars, workVars, policyVars>>

\* stopRecording and the sweep fail a session that never got a recording asset.
RecordingOutcome == {<<"ended", NoCode>>, <<"failed", "TIMEOUT">>}

PollRecording ==
  /\ pollStep = "serve"
  /\ kind[pollSession] = "recording"
  /\ \/ /\ ~recordingPolicy \/ age[pollSession] >= ChunkAge
        /\ \E o \in RecordingOutcome : TryAdvance(pollSession, o[1], o[2], "scheduler")
        /\ \/ ~recordingPolicy /\ Answer(NoSession)
           \/ /\ recordingPolicy
              /\ pollStep' = "rotate"
              /\ pollSession' = NoSession
              /\ UNCHANGED <<capture, told>>
     \/ /\ recordingPolicy
        /\ age[pollSession] < ChunkAge
        /\ Answer(pollSession)
        /\ UNCHANGED rowVars
  /\ UNCHANGED <<leaseVars, openVars, workVars, policyVars>>

\* Mutant: lapsed leases are not closed before the open ones are counted.
PollLiveKeepsLapsed ==
  LET s == pollSession
  IN  /\ pollStep = "serve"
      /\ kind[s] = "live"
      /\ IF Terminal(state[s])
           THEN UNCHANGED rowVars /\ Answer(NoSession)
           ELSE IF age[s] >= LeaseTTL /\ LeasesOn(s) = {}
                  THEN SetState(s, "ended", NoCode, "expiry") /\ Answer(NoSession)
                  ELSE UNCHANGED rowVars /\ Answer(s)
      /\ UNCHANGED <<leaseVars, openVars, workVars, policyVars>>

\* ExpireUnwatchedMediaSession, and the answer that follows its commit.
PollLive ==
  LET s == pollSession
      live == {l \in LeasesOn(s) : Fresh(l)}
  IN  /\ pollStep = "serve"
      /\ kind[s] = "live"
      /\ \/ /\ Terminal(state[s])
            /\ Answer(NoSession)
            /\ UNCHANGED <<rowVars, leaseOpen>>
         \/ /\ ~Terminal(state[s])
            /\ leaseOpen' = leaseOpen \ {l \in LeasesOn(s) : ~Fresh(l)}
            /\ \/ /\ age[s] >= LeaseTTL
                  /\ live = {}
                  /\ SetState(s, "ended", NoCode, "expiry")
                  /\ Answer(NoSession)
               \/ /\ age[s] < LeaseTTL \/ live # {}
                  /\ UNCHANGED rowVars
                  /\ Answer(s)
      /\ UNCHANGED <<leaseOf, leaseAge, minting, openVars, workVars, policyVars>>

\* RecentRecordingFailure: the codes that back the scheduler off.
Cooling == \E s \in Session :
             /\ kind[s] = "recording"
             /\ state[s] = "failed"
             /\ code[s] \in {"PROVIDER_UNAVAILABLE", "ENCODER_FAILED",
                             "CAPTURE_FAILED", "ROOM_FAILED"}
             /\ endAge[s] < Cooldown

\* Bound: an instance whose rows are all used answers as if the policy were off.
Exhausted == \A s \in Session : state[s] # "absent"

\* Mutant: a poll that opened nothing is answered with an error, not with no session.
NothingOpenedFails ==
  /\ pollStep' = "idle"
  /\ UNCHANGED <<pollSession, capture, told>>

\* Nothing to open is no session for an idle device, but an error (500) for a poll that
\* has just rotated a chunk: that agent keeps what it knew.
NothingOpened ==
  \/ pollStep = "open" /\ Answer(NoSession)
  \/ pollStep = "rotate" /\ pollStep' = "idle" /\ UNCHANGED <<pollSession, capture, told>>

OpenScheduledRecording ==
  /\ pollStep \in {"open", "rotate"}
  /\ \/ /\ \/ ~recordingPolicy \/ ~monitoring \/ Cooling \/ WinnerOver("recording")
           \/ Exhausted /\ OpenRows("recording") = {}
        /\ NothingOpened
        /\ UNCHANGED <<rowVars, opener>>
     \/ /\ recordingPolicy /\ monitoring /\ ~Cooling
        /\ \/ /\ \E s \in OpenRows("recording") : Opened(s, pollStep = "rotate")
              /\ UNCHANGED <<rowVars, opener>>
           \/ /\ \E s \in Session : InsertRow(s, "recording") /\ pollSession' = s
              /\ pollStep' = IF pollStep = "open" THEN "opening" ELSE "reopening"
              /\ UNCHANGED <<capture, told>>
  /\ UNCHANGED <<leaseVars, liveWanted, workVars, policyVars>>

\* The poll fails or times out on the way: the agent keeps what it knew.
PollFails ==
  /\ pollStep # "idle"
  /\ pollStep' = "idle"
  /\ pollSession' = NoSession
  /\ UNCHANGED <<rowVars, leaseVars, openVars, workVars, policyVars, capture, told>>

-----------------------------------------------------------------------------
(***************************************************************************)
(* The publisher                                                            *)
(***************************************************************************)

\* Only the move matters: from any later state the best-effort advance fails.
PublisherToken(s) ==
  /\ monitoring
  /\ s \in told
  /\ state[s] = "waiting_for_agent"
  /\ AdvanceMediaSession(s, "negotiating", NoCode, "nobody")
  /\ UNCHANGED <<leaseVars, openVars, workVars, policyVars, agentVars>>

AgentState(s, to, failure) ==
  /\ monitoring
  /\ s \in told
  /\ to \in AgentReportable
  /\ AdvanceMediaSession(s, to, failure, "agent")
  /\ starting' = IF to = "live" /\ kind[s] = "recording" THEN starting \cup {s} ELSE starting
  /\ UNCHANGED <<leaseVars, openVars, swept, policyVars, agentVars>>

\* startRecording returns: an error fails the session in its own transaction.
StartRecordingReturns(s) ==
  /\ s \in starting
  /\ starting' = starting \ {s}
  /\ \/ UNCHANGED rowVars
     \/ TryAdvance(s, "failed", "PROVIDER_UNAVAILABLE", "provider")
  /\ UNCHANGED <<leaseVars, openVars, swept, policyVars, agentVars>>

-----------------------------------------------------------------------------
(***************************************************************************)
(* Rotation sweep, administration and time                                  *)
(***************************************************************************)

\* Mutant: the sweep reads the states the agent's poll reads.
SweepListPending ==
  /\ swept = {}
  /\ swept' = {s \in OpenRows("recording") : s \in Pending /\ age[s] >= ChunkAge}
  /\ UNCHANGED <<rowVars, leaseVars, openVars, starting, policyVars, agentVars>>

SweepList ==
  /\ swept = {}
  /\ swept' = {s \in OpenRows("recording") : age[s] >= ChunkAge}
  /\ UNCHANGED <<rowVars, leaseVars, openVars, starting, policyVars, agentVars>>

SweepExpiredRecording(s) ==
  /\ s \in swept
  /\ swept' = swept \ {s}
  /\ \E o \in RecordingOutcome : TryAdvance(s, o[1], o[2], "scheduler")
  /\ UNCHANGED <<leaseVars, openVars, starting, policyVars, agentVars>>

SetPolicy ==
  /\ \E p \in Policies : monitoring' = p[1] /\ recordingPolicy' = p[2]
  /\ UNCHANGED <<rowVars, leaseVars, openVars, workVars, agentVars>>

Grow(n, bound) == IF n < bound THEN n + 1 ELSE n

Counts(l) == \E s \in Session : l \in LeasesOn(s) /\ ~Terminal(state[s])

\* Only ages that are read again grow: of open rows, failed recordings, and leases that
\* are open on an open row.
Tick ==
  /\ age' = [s \in Session |->
               IF state[s] \in State /\ ~Terminal(state[s]) THEN Grow(age[s], ChunkAge) ELSE age[s]]
  /\ endAge' = [s \in Session |->
               IF kind[s] = "recording" /\ state[s] = "failed" THEN Grow(endAge[s], Cooldown)
                                                               ELSE endAge[s]]
  /\ leaseAge' = [l \in Lease |->
               IF Counts(l) THEN Grow(leaseAge[l], LeaseTTL) ELSE leaseAge[l]]
  /\ UNCHANGED <<kind, state, code, endedBy, leaseOf, leaseOpen, minting, openVars,
                 workVars, policyVars, agentVars>>

-----------------------------------------------------------------------------
Opening == \/ StartLiveCheck
           \/ StartLive
           \/ \E s \in Session : CreateRoom(s) \/ Authorize(s) \/ AwaitAgent(s) \/ AbortOpen(s)

Viewing == \/ \E l \in Lease, s \in Session : JoinViewerSession(l, s)
           \/ \E l \in Lease : MintViewerToken(l)
           \/ \E v \in Viewer, s \in Session :
                \/ \E L \in Selection(v) : \/ TouchViewerSession(s, L)
                                           \/ LeaveMediaViewerAndMaybeEnd(s, L)
                \/ LeaveViewerSession(s, v)

AgentPolling == Poll \/ PollRecording \/ PollLive \/ OpenScheduledRecording \/ PollFails

Publishing == \E s \in Session :
                \/ PublisherToken(s)
                \/ \E to \in AgentReportable, f \in AgentFailure : AgentState(s, to, f)
                \/ StartRecordingReturns(s)

Maintenance == SweepList \/ SetPolicy \/ Tick \/ \E s \in Session : SweepExpiredRecording(s)

Next == Opening \/ Viewing \/ AgentPolling \/ Publishing \/ Maintenance

Spec == Init /\ [][Next]_vars

\* The agent polls every second and some poll gets through (SF); the sweep runs on a
\* timer; a request that is not abandoned runs on; time passes. Nothing makes a
\* viewer or an administrator act.
Fairness ==
  /\ WF_vars(Tick)
  /\ WF_vars(Poll) /\ SF_vars(PollRecording) /\ SF_vars(PollLive)
  /\ SF_vars(OpenScheduledRecording)
  /\ WF_vars(SweepList)
  /\ \A s \in Session : /\ WF_vars(SweepExpiredRecording(s))
                        /\ WF_vars(CreateRoom(s) \/ Authorize(s) \/ AwaitAgent(s))
                        /\ WF_vars(StartRecordingReturns(s))

FairSpec == Spec /\ Fairness

-----------------------------------------------------------------------------
(***************************************************************************)
(* Properties                                                               *)
(***************************************************************************)

\* The columns hold what the schema allows; in particular a failure code only stands
\* on a failed row (media_sessions_failure_code_only_on_failure) and an ending actor
\* only on a row that is over (media_sessions_terminal_has_end).
RowConstraints ==
  \A s \in Session : /\ code[s] # NoCode => state[s] = "failed"
                     /\ (endedBy[s] # "nobody") <=> Terminal(state[s])

RowTypeOK ==
  /\ kind \in [Session -> Kind]
  /\ state \in [Session -> State \cup {"absent"}]
  /\ code \in [Session -> FailureCode \cup {NoCode}]
  /\ age \in [Session -> 0..ChunkAge]
  /\ endAge \in [Session -> 0..Cooldown]
  /\ endedBy \in [Session -> Actor]
  /\ RowConstraints

LeaseTypeOK ==
  /\ leaseOf \in [Lease -> Session \cup {NoSession}]
  /\ leaseOpen \subseteq Lease
  /\ leaseAge \in [Lease -> 0..LeaseTTL]
  /\ minting \subseteq Lease

RequestTypeOK ==
  /\ liveWanted \in BOOLEAN
  /\ opener \in [Session -> OpenerStep]
  /\ starting \subseteq Session
  /\ swept \subseteq Session
  /\ monitoring \in BOOLEAN
  /\ recordingPolicy \in BOOLEAN

AgentTypeOK ==
  /\ pollStep \in {"idle", "serve", "open", "rotate", "opening", "reopening"}
  /\ pollSession \in Session \cup {NoSession}
  /\ pollStep \in {"serve", "opening", "reopening"} =>
        pollSession \in Session /\ state[pollSession] \in State
  /\ told \subseteq Session
  /\ capture \in Session \cup {NoSession}

TypeOK == RowTypeOK /\ LeaseTypeOK /\ RequestTypeOK /\ AgentTypeOK

\* Two viewers, or a viewer and the scheduler, never leave the device with two open
\* sessions of one kind (OpenMediaSession, "rather than racing to create two").
OneOpenPerKind ==
  \A k \in Kind : \A r, s \in OpenRows(k) : r = s

\* Neither the last-viewer stop nor the expiry cuts off a viewer whose lease is
\* current: a join or a heartbeat that committed is always seen ("an expiry cannot
\* race a successfully committed heartbeat", TouchViewerSession).
NoWatcherCutOff ==
  \A s \in Session : endedBy[s] \in {"viewer", "expiry"} => ~Watched(s)

\* A lease that was closed or has lapsed never counts as a viewer again: a heartbeat
\* cannot resurrect it (TouchViewerSession).
Lapsed(l) == leaseOf[l] # NoSession /\ (l \notin leaseOpen \/ ~Fresh(l))
LapsedStaysLapsed == [][\A l \in Lease : Lapsed(l) => Lapsed(l)']_vars

\* The five-minute boundary is a server guarantee (StartRecordingMaintenance): every
\* recording ends, whatever the agent does and wherever the request that opened it
\* was abandoned.
RotationGuaranteed ==
  \A s \in Session : (kind[s] = "recording" /\ state[s] \in State) ~> Terminal(state[s])

\* A live session nobody watches any more is withdrawn from the agent (expireUnwatched).
AbandonedCaptureStops ==
  \A s \in Session :
    (capture = s /\ kind[s] = "live" /\ ~Watched(s)) ~> (capture # s \/ Watched(s))

\* A session that is over, whoever ended it and by whichever handler, is withdrawn from
\* the agent by its own polls, although a poll may have read the row before it ended,
\* may name it late, may fail, or may rotate and find nothing to open (AgentSession).
OverIsWithdrawn ==
  \A s \in Session : (capture = s /\ Terminal(state[s])) ~> capture # s

\* The rows implement the abstract life cycle: every change of every handler is a
\* request or one edge of state.go.
Lifecycle == INSTANCE SessionLifecycle WITH Session <- Session, state <- state
ImplementsLifecycle == Lifecycle!Spec

\* "Terminal reports whether a session in this state can never change again"
\* (state.go:108).
TerminalNeverChanges ==
  [][\A s \in Session : Terminal(state[s]) =>
        /\ state'[s] = state[s]
        /\ code'[s] = code[s]]_vars

\* "Every non-terminal state can fail: each of them has a timeout" (state_test.go:56),
\* here of the states only the backend can move a session out of.
OpeningTimesOut ==
  \A s \in Session : state[s] \in {"requested", "authorizing"}
                        ~> state[s] \notin {"requested", "authorizing"}

\* "Continuous recording already has the device publishing. A live viewer subscribes
\* to that same room" (handlers/media.go, StartLive): there is no live session beside
\* an open recording.
LiveJoinsRecording == OpenRows("live") = {} \/ OpenRows("recording") = {}
=============================================================================
