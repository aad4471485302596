------------------------- MODULE MediaSessionProofs -------------------------
(***************************************************************************)
(* Theorems about MediaSession, for any number of sessions, leases and      *)
(* viewers and any thresholds.                                              *)
(***************************************************************************)
EXTENDS MediaSession, TLAPS

-----------------------------------------------------------------------------
(***************************************************************************)
(* The state machine                                                        *)
(***************************************************************************)

\* Every edge stays inside State, a session that is over has none, and any other
\* session can be ended.
LEMMA TransitionFacts ==
  ASSUME NEW s \in State
  PROVE  /\ transitions[s] \subseteq State
         /\ Terminal(s) => transitions[s] = {}
         /\ ~Terminal(s) => "ended" \in transitions[s]
BY DEF transitions, State, Terminal, Forward

-----------------------------------------------------------------------------
(***************************************************************************)
(* Rows.  Every step of Next leaves the rows as they are up to their ages,  *)
(* inserts one, or moves one along an edge of the state machine.            *)
(***************************************************************************)

AgesTypeOK == /\ age \in [Session -> 0..ChunkAge]
              /\ endAge \in [Session -> 0..Cooldown]

RowKept == UNCHANGED <<kind, state, code, endedBy>> /\ AgesTypeOK'

RowInsert == \E s \in Session, k \in Kind : InsertRow(s, k)

\* A move that ends a row for want of viewers leaves it unwatched.
RowMove ==
  \E s \in Session, to \in State, f \in FailureCode \cup {NoCode}, who \in Actor :
    /\ AdvanceMediaSession(s, to, f, who)
    /\ Terminal(to) => who # "nobody"
    /\ who \in {"viewer", "expiry"} => ~Watched(s)'

RowStep == RowKept \/ RowInsert \/ RowMove

LEMMA TryAdvanceRowStep ==
  ASSUME RowTypeOK,
         NEW s \in Session, NEW to \in State, NEW f \in FailureCode \cup {NoCode},
         NEW who \in Actor \ {"nobody", "viewer", "expiry"},
         TryAdvance(s, to, f, who)
  PROVE  RowStep
<1>1. CASE AdvanceMediaSession(s, to, f, who)
  BY <1>1 DEF RowStep, RowMove
<1>2. CASE UNCHANGED rowVars
  BY <1>2 DEF RowStep, RowKept, AgesTypeOK, rowVars, RowTypeOK
<1> QED BY <1>1, <1>2 DEF TryAdvance

LEMMA KeptRowStep ==
  ASSUME RowTypeOK, UNCHANGED rowVars
  PROVE  RowStep
BY DEF RowStep, RowKept, AgesTypeOK, rowVars, RowTypeOK

\* Ending an open row for want of viewers is an edge of the state machine.
LEMMA EndRowStep ==
  ASSUME RowTypeOK, NEW s \in Session, NEW who \in {"viewer", "expiry"},
         state[s] \in State, ~Terminal(state[s]),
         SetState(s, "ended", NoCode, who), ~Watched(s)'
  PROVE  RowStep
<1>1. "ended" \in State
  BY DEF State
<1>2. Transition(state[s], "ended")
  BY <1>1, TransitionFacts DEF Transition, CanTransition
<1>3. AdvanceMediaSession(s, "ended", NoCode, who)
  BY <1>2 DEF AdvanceMediaSession
<1>4. who \in Actor /\ who # "nobody"
  BY DEF Actor
<1>5. RowMove
  BY <1>1, <1>3, <1>4 DEF RowMove
<1> QED BY <1>5 DEF RowStep

LEMMA RowSteps ==
  ASSUME TypeOK, [Next]_vars
  PROVE  RowStep
<1> USE DEF TypeOK
<1>a. /\ {"failed", "ended", "authorizing", "waiting_for_agent", "negotiating"} \subseteq State
      /\ AgentReportable \subseteq State
      /\ {NoCode, "ROOM_FAILED", "PROVIDER_UNAVAILABLE", "TIMEOUT"} \subseteq FailureCode \cup {NoCode}
      /\ AgentFailure \subseteq FailureCode \cup {NoCode}
      /\ {"provider", "scheduler", "agent"} \subseteq Actor \ {"nobody", "viewer", "expiry"}
      /\ "nobody" \in Actor
      /\ \A o \in RecordingOutcome : o[1] \in State /\ o[2] \in FailureCode \cup {NoCode}
  BY DEF State, AgentReportable, FailureCode, Actor, RecordingOutcome
<1>b. ASSUME NEW s \in Session, NEW to \in {"authorizing", "waiting_for_agent", "negotiating"},
             AdvanceMediaSession(s, to, NoCode, "nobody")
      PROVE  RowStep
  BY <1>a, <1>b DEF RowStep, RowMove, Terminal
<1>c. \A s \in Session : InsertRow(s, "live") \/ InsertRow(s, "recording") => RowStep
  BY DEF RowStep, RowInsert, Kind
<1>d. ASSUME NEW s \in Session, NEW o \in RecordingOutcome,
             TryAdvance(s, o[1], o[2], "scheduler")
      PROVE  RowStep
  BY <1>a, <1>d, TryAdvanceRowStep
<1>1. CASE UNCHANGED vars
  BY <1>1, KeptRowStep DEF vars, rowVars
<1>2. CASE Opening
  <2>1. CASE StartLiveCheck
    BY <2>1, KeptRowStep DEF StartLiveCheck
  <2>2. CASE StartLive
    BY <2>2, <1>c, KeptRowStep DEF StartLive
  <2>3. ASSUME NEW s \in Session, CreateRoom(s) PROVE RowStep
    BY <2>3, <1>a, KeptRowStep, TryAdvanceRowStep DEF CreateRoom
  <2>4. ASSUME NEW s \in Session, Authorize(s) PROVE RowStep
    BY <2>4, <1>b, KeptRowStep DEF Authorize
  <2>5. ASSUME NEW s \in Session, AwaitAgent(s) PROVE RowStep
    BY <2>5, <1>b, KeptRowStep DEF AwaitAgent
  <2>6. ASSUME NEW s \in Session, AbortOpen(s) PROVE RowStep
    BY <2>6, KeptRowStep DEF AbortOpen
  <2> QED BY <1>2, <2>1, <2>2, <2>3, <2>4, <2>5, <2>6 DEF Opening
<1>3. CASE Viewing
  <2>1. ASSUME NEW l \in Lease, NEW s \in Session, JoinViewerSession(l, s) PROVE RowStep
    BY <2>1, KeptRowStep DEF JoinViewerSession
  <2>2. ASSUME NEW l \in Lease, MintViewerToken(l) PROVE RowStep
    BY <2>2, KeptRowStep DEF MintViewerToken
  <2>3. ASSUME NEW s \in Session, NEW L, TouchViewerSession(s, L) PROVE RowStep
    BY <2>3, KeptRowStep DEF TouchViewerSession
  <2>4. ASSUME NEW s \in Session, NEW L, LeaveMediaViewerAndMaybeEnd(s, L) PROVE RowStep
    <3>1. CASE UNCHANGED rowVars
      BY <3>1, KeptRowStep
    <3>2. CASE /\ ~Terminal(state[s])
               /\ {l \in LeasesOn(s) \ L : Fresh(l)} = {}
               /\ SetState(s, "ended", NoCode, "viewer")
      <4>1. /\ state[s] \in State
            /\ leaseOpen' = leaseOpen \ {l \in L : leaseOf[l] = s}
            /\ leaseOf' = leaseOf /\ leaseAge' = leaseAge
        BY <2>4 DEF LeaveMediaViewerAndMaybeEnd
      <4>2. ~Watched(s)'
        BY <3>2, <4>1 DEF Watched, LeasesOn, Fresh
      <4> QED BY <3>2, <4>1, <4>2, EndRowStep
    <3> QED BY <2>4, <3>1, <3>2 DEF LeaveMediaViewerAndMaybeEnd
  <2>5. ASSUME NEW s \in Session, NEW v \in Viewer, LeaveViewerSession(s, v) PROVE RowStep
    BY <2>5, KeptRowStep DEF LeaveViewerSession
  <2> QED BY <1>3, <2>1, <2>2, <2>3, <2>4, <2>5 DEF Viewing
<1>4. CASE AgentPolling
  <2>1. CASE Poll
    BY <2>1, KeptRowStep DEF Poll
  <2>2. CASE PollRecording
    <3>1. pollSession \in Session
      BY <2>2 DEF PollRecording, AgentTypeOK
    <3> QED BY <2>2, <3>1, <1>d, KeptRowStep DEF PollRecording
  <2>3. CASE PollLive
    <3>1. pollSession \in Session /\ state[pollSession] \in State
      BY <2>3 DEF PollLive, AgentTypeOK
    <3>2. CASE UNCHANGED rowVars
      BY <3>2, KeptRowStep
    <3>3. CASE /\ ~Terminal(state[pollSession])
               /\ leaseOpen' = leaseOpen \ {l \in LeasesOn(pollSession) : ~Fresh(l)}
               /\ {l \in LeasesOn(pollSession) : Fresh(l)} = {}
               /\ SetState(pollSession, "ended", NoCode, "expiry")
      <4>1. leaseOf' = leaseOf /\ leaseAge' = leaseAge
        BY <2>3 DEF PollLive
      <4>2. ASSUME NEW s \in Session, s = pollSession PROVE ~Watched(s)'
        BY <3>3, <4>1, <4>2 DEF Watched, LeasesOn, Fresh
      <4>3. PICK s \in Session : s = pollSession
        BY <3>1
      <4> QED BY <3>1, <3>3, <4>2, <4>3, EndRowStep
    <3> QED BY <2>3, <3>2, <3>3 DEF PollLive
  <2>4. CASE OpenScheduledRecording
    BY <2>4, <1>c, KeptRowStep DEF OpenScheduledRecording
  <2>5. CASE PollFails
    BY <2>5, KeptRowStep DEF PollFails
  <2> QED BY <1>4, <2>1, <2>2, <2>3, <2>4, <2>5 DEF AgentPolling
<1>5. CASE Publishing
  <2>1. ASSUME NEW s \in Session, PublisherToken(s) PROVE RowStep
    BY <2>1, <1>b DEF PublisherToken
  <2>2. ASSUME NEW s \in Session, NEW to \in AgentReportable, NEW f \in AgentFailure,
               AgentState(s, to, f)
        PROVE  RowStep
    <3>1. AdvanceMediaSession(s, to, f, "agent")
      BY <2>2 DEF AgentState
    <3> QED BY <3>1, <1>a, TryAdvanceRowStep DEF TryAdvance
  <2>3. ASSUME NEW s \in Session, StartRecordingReturns(s) PROVE RowStep
    BY <2>3, <1>a, KeptRowStep, TryAdvanceRowStep DEF StartRecordingReturns
  <2> QED BY <1>5, <2>1, <2>2, <2>3 DEF Publishing
<1>6. CASE Maintenance
  <2>1. CASE SweepList
    BY <2>1, KeptRowStep DEF SweepList
  <2>2. CASE SetPolicy
    BY <2>2, KeptRowStep DEF SetPolicy
  <2>3. CASE Tick
    BY <2>3, TimeAssumption DEF Tick, Grow, RowStep, RowKept, AgesTypeOK, RowTypeOK
  <2>4. ASSUME NEW s \in Session, SweepExpiredRecording(s) PROVE RowStep
    BY <2>4, <1>d DEF SweepExpiredRecording
  <2> QED BY <1>6, <2>1, <2>2, <2>3, <2>4 DEF Maintenance
<1> QED BY <1>1, <1>2, <1>3, <1>4, <1>5, <1>6 DEF Next

\* A move changes one row's state along an edge, or re-enters it.
LEMMA MoveFacts ==
  ASSUME RowTypeOK, RowStep
  PROVE  /\ \A s \in Session : state[s] \in State => state'[s] \in State
         /\ \A s \in Session : Terminal(state[s]) => state'[s] = state[s]
         /\ state' # state =>
              \E s \in Session :
                /\ \A r \in Session \ {s} : state'[r] = state[r]
                /\ \/ state[s] = "absent" /\ state' = [state EXCEPT ![s] = "requested"]
                   \/ /\ state[s] \in State
                      /\ \E to \in transitions[state[s]] : state' = [state EXCEPT ![s] = to]
<1>1. CASE RowKept
  BY <1>1 DEF RowKept
<1>2. ASSUME NEW s \in Session, NEW k \in Kind, InsertRow(s, k)
      PROVE  /\ state[s] = "absent"
             /\ state' = [state EXCEPT ![s] = "requested"]
  BY <1>2 DEF InsertRow
<1>3. ASSUME NEW s \in Session, NEW to \in State,
             NEW f \in FailureCode \cup {NoCode}, NEW who \in Actor,
             AdvanceMediaSession(s, to, f, who)
      PROVE  /\ state' = [state EXCEPT ![s] = to]
             /\ state[s] \in State
             /\ to = state[s] \/ to \in transitions[state[s]]
             /\ Terminal(state[s]) => to = state[s]
  BY <1>3, TransitionFacts DEF AdvanceMediaSession, SetState, Transition, CanTransition
<1>4. CASE RowInsert
  BY <1>2, <1>4 DEF RowInsert, RowTypeOK, State, Terminal
<1>5. CASE RowMove
  <2>1. PICK s \in Session, to \in State, f \in FailureCode \cup {NoCode}, who \in Actor :
          AdvanceMediaSession(s, to, f, who)
    BY <1>5 DEF RowMove
  <2>2. /\ state' = [state EXCEPT ![s] = to]
        /\ state[s] \in State
        /\ to = state[s] \/ to \in transitions[state[s]]
        /\ Terminal(state[s]) => to = state[s]
    BY <2>1, <1>3
  <2>3. \A r \in Session \ {s} : state'[r] = state[r]
    BY <2>2 DEF RowTypeOK
  <2>4. state'[s] = to
    BY <2>2 DEF RowTypeOK
  <2>5. state' # state => to \in transitions[state[s]]
    BY <2>2 DEF RowTypeOK
  <2> QED BY <2>2, <2>3, <2>4, <2>5
<1> QED BY <1>1, <1>4, <1>5 DEF RowStep

LEMMA RowsTyped ==
  ASSUME RowTypeOK, RowStep
  PROVE  RowTypeOK'
<1>0. "requested" \in State /\ ~Terminal("requested") /\ ~Terminal("absent")
  BY DEF State, Terminal
<1>1. CASE RowKept
  BY <1>1 DEF RowKept, AgesTypeOK, RowTypeOK, RowConstraints
<1>2. CASE RowInsert
  <2>1. PICK s \in Session, k \in Kind : InsertRow(s, k)
    BY <1>2 DEF RowInsert
  <2>2. RowConstraints'
    BY <2>1, <1>0 DEF InsertRow, RowTypeOK, RowConstraints, Terminal
  <2> QED BY <2>1, <2>2, <1>0 DEF InsertRow, RowTypeOK
<1>3. CASE RowMove
  <2>1. PICK s \in Session, to \in State, f \in FailureCode \cup {NoCode}, who \in Actor :
          AdvanceMediaSession(s, to, f, who) /\ (Terminal(to) => who # "nobody")
    BY <1>3 DEF RowMove
  <2>2. SetState(s, to, f, who) /\ Transition(state[s], to) /\ state[s] \in State
    BY <2>1 DEF AdvanceMediaSession, Transition
  <2>3. Terminal(state[s]) => to = state[s]
    BY <2>2, TransitionFacts DEF Transition, CanTransition
  <2>4. RowConstraints'
    <3> SUFFICES ASSUME NEW r \in Session
                 PROVE  /\ code'[r] # NoCode => state'[r] = "failed"
                        /\ (endedBy'[r] # "nobody") <=> Terminal(state'[r])
      BY DEF RowConstraints
    <3>1. CASE r = s
      BY <3>1, <2>1, <2>2, <2>3 DEF SetState, RowTypeOK, RowConstraints, Terminal
    <3>2. CASE r # s
      BY <3>2, <2>2 DEF SetState, RowTypeOK, RowConstraints
    <3> QED BY <3>1, <3>2
  <2>5. 0 \in 0..Cooldown
    BY TimeAssumption
  <2>6. /\ kind' \in [Session -> Kind]
        /\ state' \in [Session -> State \cup {"absent"}]
        /\ age' \in [Session -> 0..ChunkAge]
    BY <2>2 DEF SetState, RowTypeOK
  <2>7. code' \in [Session -> FailureCode \cup {NoCode}]
    BY <2>2 DEF SetState, RowTypeOK
  <2>8. endAge' \in [Session -> 0..Cooldown] /\ endedBy' \in [Session -> Actor]
    BY <2>2, <2>5 DEF SetState, RowTypeOK
  <2> QED BY <2>4, <2>6, <2>7, <2>8 DEF RowTypeOK
<1> QED BY <1>1, <1>2, <1>3 DEF RowStep

-----------------------------------------------------------------------------
(***************************************************************************)
(* Leases.  The only step after which a session is watched that was not     *)
(* before is the insertion of a lease on a session open to viewers, and it   *)
(* leaves the rows alone.                                                    *)
(***************************************************************************)

LeasesOnly == /\ UNCHANGED rowVars
              /\ \A s \in Session : Watched(s)' /\ ~Watched(s) => OpenToViewers(state[s])

LeaseStep == \/ UNCHANGED leaseVars
             \/ \A s \in Session : Watched(s)' => Watched(s)
             \/ LeasesOnly

LEMMA LeaseSteps ==
  ASSUME TypeOK, [Next]_vars
  PROVE  LeaseTypeOK' /\ LeaseStep
<1> USE DEF TypeOK
<1>a. UNCHANGED leaseVars => LeaseTypeOK' /\ LeaseStep
  BY DEF leaseVars, LeaseTypeOK, LeaseStep
<1>b. ASSUME leaseOf' = leaseOf, leaseAge' = leaseAge, minting' \subseteq minting,
             leaseOpen' \subseteq leaseOpen
      PROVE  LeaseTypeOK' /\ LeaseStep
  BY <1>b DEF LeaseTypeOK, LeaseStep, Watched, LeasesOn, Fresh
<1>1. CASE UNCHANGED vars
  BY <1>1, <1>a DEF vars, leaseVars
<1>2. CASE Opening
  BY <1>2, <1>a DEF Opening, StartLiveCheck, StartLive, CreateRoom, Authorize, AwaitAgent,
                    AbortOpen
<1>3. CASE Viewing
  <2>1. ASSUME NEW l \in Lease, NEW s \in Session, JoinViewerSession(l, s)
        PROVE  LeaseTypeOK' /\ LeaseStep
    <3>1. LeaseTypeOK'
      BY <2>1 DEF JoinViewerSession, LeaseTypeOK
    <3>2. /\ leaseOf[l] = NoSession /\ OpenToViewers(state[s]) /\ UNCHANGED rowVars
          /\ leaseOf' = [leaseOf EXCEPT ![l] = s]
          /\ leaseOpen' = leaseOpen \cup {l}
          /\ leaseAge' = leaseAge
      BY <2>1 DEF JoinViewerSession
    <3>3. ASSUME NEW r \in Session, Watched(r)', ~Watched(r) PROVE r = s
      BY <3>2, <3>3 DEF Watched, LeasesOn, Fresh, LeaseTypeOK
    <3> QED BY <3>1, <3>2, <3>3 DEF LeaseStep, LeasesOnly
  <2>2. ASSUME NEW l \in Lease, MintViewerToken(l) PROVE LeaseTypeOK' /\ LeaseStep
    BY <2>2, <1>b DEF MintViewerToken
  <2>3. ASSUME NEW s \in Session, NEW L, TouchViewerSession(s, L)
        PROVE  LeaseTypeOK' /\ LeaseStep
    <3>1. /\ UNCHANGED <<leaseOf, leaseOpen, minting>>
          /\ leaseAge' = [l \in Lease |-> IF l \in {k \in L \cap LeasesOn(s) : Fresh(k)}
                                            THEN 0 ELSE leaseAge[l]]
      BY <2>3 DEF TouchViewerSession
    <3>2. LeaseTypeOK'
      BY <3>1, TimeAssumption DEF LeaseTypeOK
    <3>3. \A l \in leaseOpen' : Fresh(l)' => Fresh(l)
      BY <3>1 DEF Fresh, LeaseTypeOK
    <3>4. \A r \in Session : Watched(r)' => Watched(r)
      BY <3>1, <3>3 DEF Watched, LeasesOn
    <3> QED BY <3>2, <3>4 DEF LeaseStep
  <2>4. ASSUME NEW s \in Session, NEW L, LeaveMediaViewerAndMaybeEnd(s, L)
        PROVE  LeaseTypeOK' /\ LeaseStep
    BY <2>4, <1>b DEF LeaveMediaViewerAndMaybeEnd
  <2>5. ASSUME NEW s \in Session, NEW v \in Viewer, LeaveViewerSession(s, v)
        PROVE  LeaseTypeOK' /\ LeaseStep
    BY <2>5, <1>b DEF LeaveViewerSession
  <2> QED BY <1>3, <2>1, <2>2, <2>3, <2>4, <2>5 DEF Viewing
<1>4. CASE AgentPolling
  <2>1. CASE PollLive
    BY <2>1, <1>b DEF PollLive
  <2> QED BY <1>4, <2>1, <1>a DEF AgentPolling, Poll, PollRecording, OpenScheduledRecording, NothingOpened,
                                  PollFails
<1>5. CASE Publishing
  BY <1>5, <1>a DEF Publishing, PublisherToken, AgentState, StartRecordingReturns
<1>6. CASE Maintenance
  <2>1. CASE Tick
    <3>1. /\ UNCHANGED <<leaseOf, leaseOpen, minting>>
          /\ leaseAge' = [l \in Lease |-> IF Counts(l) THEN Grow(leaseAge[l], LeaseTTL)
                                                      ELSE leaseAge[l]]
      BY <2>1 DEF Tick
    <3>2. LeaseTypeOK'
      BY <3>1, TimeAssumption DEF LeaseTypeOK, Grow
    <3>3. \A l \in leaseOpen : Fresh(l)' => Fresh(l)
      BY <3>1, TimeAssumption DEF Fresh, LeaseTypeOK, Grow
    <3>4. \A r \in Session : Watched(r)' => Watched(r)
      BY <3>1, <3>3 DEF Watched, LeasesOn
    <3> QED BY <3>2, <3>4 DEF LeaseStep
  <2> QED BY <1>6, <2>1, <1>a DEF Maintenance, SweepList, SetPolicy, SweepExpiredRecording
<1> QED BY <1>1, <1>2, <1>3, <1>4, <1>5, <1>6 DEF Next

-----------------------------------------------------------------------------
(***************************************************************************)
(* Requests, policy and the agent                                           *)
(***************************************************************************)

LEMMA RequestsTyped ==
  ASSUME TypeOK, [Next]_vars
  PROVE  RequestTypeOK'
<1> USE DEF TypeOK
<1>a. UNCHANGED <<openVars, workVars, policyVars>> => RequestTypeOK'
  BY DEF openVars, workVars, policyVars, RequestTypeOK
<1>1. CASE UNCHANGED vars
  BY <1>1, <1>a DEF vars
<1>2. CASE Opening
  <2>1. UNCHANGED <<workVars, policyVars>>
    BY <1>2 DEF Opening, StartLiveCheck, StartLive, CreateRoom, Authorize, AwaitAgent, AbortOpen
  <2>2. liveWanted' \in BOOLEAN
    BY <1>2 DEF Opening, StartLiveCheck, StartLive, CreateRoom, Authorize, AwaitAgent, AbortOpen,
                RequestTypeOK
  <2>3. opener' \in [Session -> OpenerStep]
    BY <1>2 DEF Opening, StartLiveCheck, StartLive, CreateRoom, Authorize, AwaitAgent, AbortOpen,
                InsertRow, RequestTypeOK, OpenerStep
  <2> QED BY <2>1, <2>2, <2>3 DEF RequestTypeOK, workVars, policyVars
<1>3. CASE Viewing
  BY <1>3, <1>a DEF Viewing, JoinViewerSession, MintViewerToken, TouchViewerSession,
                    LeaveMediaViewerAndMaybeEnd, LeaveViewerSession
<1>4. CASE AgentPolling
  <2>1. CASE OpenScheduledRecording
    <3>1. UNCHANGED <<liveWanted, workVars, policyVars>>
      BY <2>1 DEF OpenScheduledRecording
    <3>2. opener' \in [Session -> OpenerStep]
      BY <2>1 DEF OpenScheduledRecording, InsertRow, RequestTypeOK, OpenerStep
    <3> QED BY <3>1, <3>2 DEF RequestTypeOK, workVars, policyVars
  <2> QED BY <1>4, <2>1, <1>a DEF AgentPolling, Poll, PollRecording, PollLive, PollFails
<1>5. CASE Publishing
  BY <1>5 DEF Publishing, PublisherToken, AgentState, StartRecordingReturns, RequestTypeOK,
              openVars, workVars, policyVars
<1>6. CASE Maintenance
  <2>1. CASE SweepList
    BY <2>1 DEF SweepList, OpenRows, RequestTypeOK, openVars, policyVars
  <2>2. CASE SetPolicy
    BY <2>2, DataAssumption DEF SetPolicy, RequestTypeOK, openVars, workVars
  <2>3. CASE Tick
    BY <2>3, <1>a DEF Tick
  <2>4. ASSUME NEW s \in Session, SweepExpiredRecording(s) PROVE RequestTypeOK'
    BY <2>4 DEF SweepExpiredRecording, RequestTypeOK, openVars, policyVars
  <2> QED BY <1>6, <2>1, <2>2, <2>3, <2>4 DEF Maintenance
<1> QED BY <1>1, <1>2, <1>3, <1>4, <1>5, <1>6 DEF Next

\* The row an answer is being prepared for exists, whatever happens to it meanwhile.
LEMMA AgentTyped ==
  ASSUME TypeOK, [Next]_vars
  PROVE  AgentTypeOK'
<1> USE DEF TypeOK
<1>0. \A s \in Session : state[s] \in State => state'[s] \in State
  BY RowSteps, MoveFacts
<1>a. UNCHANGED agentVars => AgentTypeOK'
  BY <1>0 DEF agentVars, AgentTypeOK
<1>b. \A s \in Session \cup {NoSession} : Answer(s) => AgentTypeOK'
  BY DEF Answer, AgentTypeOK
<1>1. CASE UNCHANGED vars
  BY <1>1, <1>a DEF vars
<1>2. CASE Opening
  <2>1. ASSUME NEW s \in Session, HangUp(s) PROVE AgentTypeOK'
    BY <2>1, <1>0 DEF HangUp, AgentTypeOK
  <2>2. ASSUME NEW s \in Session, AwaitAgent(s) PROVE AgentTypeOK'
    <3>1. CASE HangUp(s) \/ UNCHANGED agentVars
      BY <3>1, <2>1, <1>a
    <3>2. CASE Waits(s) /\ Opened(s, pollStep = "reopening")
      <4>1. state[s] \in State
        BY <3>2 DEF Waits, AgentTypeOK
      <4> QED BY <3>2, <4>1, <1>0, <1>b DEF Opened, AgentTypeOK
    <3> QED BY <2>2, <3>1, <3>2 DEF AwaitAgent
  <2> QED BY <1>2, <2>1, <2>2, <1>a DEF Opening, StartLiveCheck, StartLive, CreateRoom, Authorize,
                                        AbortOpen
<1>3. CASE Viewing
  BY <1>3, <1>a DEF Viewing, JoinViewerSession, MintViewerToken, TouchViewerSession,
                    LeaveMediaViewerAndMaybeEnd, LeaveViewerSession
<1>4. CASE AgentPolling
  <2>1. CASE Poll
    <3>1. CASE \E s \in Preferred : pollStep' = "serve" /\ pollSession' = s
                                    /\ UNCHANGED <<capture, told>>
      <4>1. \A s \in Preferred : s \in Session /\ state[s] \in State
        BY DEF Preferred, Pending, State
      <4> QED BY <3>1, <4>1, <1>0 DEF AgentTypeOK
    <3>2. CASE pollStep' = "open" /\ UNCHANGED <<pollSession, capture, told>>
      BY <3>2 DEF AgentTypeOK
    <3> QED BY <2>1, <3>1, <3>2, <1>b DEF Poll
  <2>2. CASE PollRecording
    <3>1. pollSession \in Session
      BY <2>2 DEF PollRecording, AgentTypeOK
    <3>2. CASE pollStep' = "rotate" /\ pollSession' = NoSession /\ UNCHANGED <<capture, told>>
      BY <3>2 DEF AgentTypeOK
    <3> QED BY <2>2, <3>1, <3>2, <1>b DEF PollRecording
  <2>3. CASE PollLive
    <3>1. pollSession \in Session
      BY <2>3 DEF PollLive, AgentTypeOK
    <3> QED BY <2>3, <3>1, <1>b DEF PollLive
  <2>4. CASE OpenScheduledRecording
    <3>1. CASE NothingOpened
      BY <3>1, <1>b DEF NothingOpened, AgentTypeOK
    <3>2. ASSUME NEW s \in OpenRows("recording"), Opened(s, pollStep = "rotate")
          PROVE  AgentTypeOK'
      <4>1. s \in Session /\ state[s] \in State
        BY DEF OpenRows
      <4> QED BY <3>2, <4>1, <1>0, <1>b DEF Opened, AgentTypeOK
    <3>3. ASSUME NEW s \in Session, InsertRow(s, "recording"), pollSession' = s,
                 pollStep' \in {"opening", "reopening"}, UNCHANGED <<capture, told>>
          PROVE  AgentTypeOK'
      <4>1. state'[s] \in State
        BY <3>3 DEF InsertRow, RowTypeOK, State
      <4> QED BY <3>3, <4>1 DEF AgentTypeOK
    <3> QED BY <2>4, <3>1, <3>2, <3>3 DEF OpenScheduledRecording
  <2>5. CASE PollFails
    BY <2>5 DEF PollFails, AgentTypeOK
  <2> QED BY <1>4, <2>1, <2>2, <2>3, <2>4, <2>5 DEF AgentPolling
<1>5. CASE Publishing
  BY <1>5, <1>a DEF Publishing, PublisherToken, AgentState, StartRecordingReturns
<1>6. CASE Maintenance
  BY <1>6, <1>a DEF Maintenance, SweepList, SetPolicy, Tick, SweepExpiredRecording
<1> QED BY <1>1, <1>2, <1>3, <1>4, <1>5, <1>6 DEF Next

-----------------------------------------------------------------------------
(***************************************************************************)
(* Theorems                                                                 *)
(***************************************************************************)

LEMMA InitTyped == Init => TypeOK
<1> SUFFICES ASSUME Init PROVE TypeOK
  OBVIOUS
<1>1. 0 \in 0..ChunkAge /\ 0 \in 0..Cooldown /\ 0 \in 0..LeaseTTL
  BY TimeAssumption
<1>2. "absent" \notin State /\ ~Terminal("absent")
  BY DEF State, Terminal
<1>3. RowTypeOK
  BY <1>1, <1>2 DEF Init, RowTypeOK, RowConstraints, Kind, Actor
<1>4. LeaseTypeOK
  BY <1>1 DEF Init, LeaseTypeOK
<1>5. RequestTypeOK
  BY DataAssumption DEF Init, RequestTypeOK, OpenerStep
<1>6. AgentTypeOK
  BY DEF Init, AgentTypeOK
<1> QED BY <1>3, <1>4, <1>5, <1>6 DEF TypeOK

LEMMA StepTyped == TypeOK /\ [Next]_vars => TypeOK'
BY RowSteps, RowsTyped, LeaseSteps, RequestsTyped, AgentTyped DEF TypeOK

\* The columns of the two tables, the requests in progress and the agent's poll always
\* hold values the schema allows, and a poll in progress always names an existing row.
THEOREM Typed == Spec => []TypeOK
BY InitTyped, StepTyped, PTL DEF Spec

\* One step cannot leave two open rows of a kind: an INSERT needs none, and a move
\* opens nothing.
LEMMA StepOneOpen == TypeOK /\ OneOpenPerKind /\ [Next]_vars => OneOpenPerKind'
<1> SUFFICES ASSUME TypeOK, OneOpenPerKind, [Next]_vars PROVE OneOpenPerKind'
  OBVIOUS
<1> USE DEF TypeOK
<1>1. RowStep
  BY RowSteps
<1>2. \A s \in Session : Terminal(state[s]) => state'[s] = state[s]
  BY <1>1, MoveFacts
<1>3. CASE RowKept
  BY <1>3 DEF RowKept, OneOpenPerKind, OpenRows
<1>4. CASE RowInsert
  <2>1. PICK s \in Session, k \in Kind : InsertRow(s, k)
    BY <1>4 DEF RowInsert
  <2>2. /\ OpenRows(k)' \subseteq {s}
        /\ \A j \in Kind \ {k} : OpenRows(j)' \subseteq OpenRows(j)
    BY <2>1 DEF InsertRow, OpenRows, RowTypeOK
  <2> QED BY <2>2 DEF OneOpenPerKind
<1>5. CASE RowMove
  <2>1. PICK s \in Session, to \in State, f \in FailureCode \cup {NoCode}, who \in Actor :
          AdvanceMediaSession(s, to, f, who)
    BY <1>5 DEF RowMove
  <2>2. /\ kind' = kind
        /\ state[s] \in State
        /\ \A r \in Session \ {s} : state'[r] = state[r]
    BY <2>1 DEF AdvanceMediaSession, SetState, Transition, RowTypeOK
  <2>3. \A k \in Kind : OpenRows(k)' \subseteq OpenRows(k)
    BY <2>2, <1>2 DEF OpenRows
  <2> QED BY <2>3 DEF OneOpenPerKind
<1> QED BY <1>1, <1>3, <1>4, <1>5 DEF RowStep

\* However the requests of viewers, the scheduler and the agent interleave, the device
\* never has two open sessions of one kind.
THEOREM OneOpen == Spec => []OneOpenPerKind
<1>1. Init => OneOpenPerKind
  BY DEF Init, OneOpenPerKind, OpenRows, State
<1> QED BY <1>1, StepOneOpen, Typed, PTL DEF Spec

\* Whoever ends a row for want of viewers does it when nobody watches, and nobody can
\* join it or come back to it afterwards.
LEMMA StepNoCutOff == TypeOK /\ TypeOK' /\ NoWatcherCutOff /\ [Next]_vars => NoWatcherCutOff'
<1> SUFFICES ASSUME TypeOK, TypeOK', NoWatcherCutOff, [Next]_vars,
                    NEW s \in Session, endedBy'[s] \in {"viewer", "expiry"}, Watched(s)'
             PROVE  FALSE
  BY DEF NoWatcherCutOff
<1> USE DEF TypeOK
<1>1. endedBy'[s] = endedBy[s]
  <2>1. CASE RowKept
    BY <2>1 DEF RowKept
  <2>2. CASE RowInsert
    BY <2>2 DEF RowInsert, InsertRow
  <2>3. CASE RowMove
    <3>1. PICK r \in Session, to \in State, f \in FailureCode \cup {NoCode}, who \in Actor :
            /\ AdvanceMediaSession(r, to, f, who)
            /\ who \in {"viewer", "expiry"} => ~Watched(r)'
      BY <2>3 DEF RowMove
    <3>2. endedBy' = endedBy \/ endedBy' = [endedBy EXCEPT ![r] = who]
      BY <3>1 DEF AdvanceMediaSession, SetState
    <3>3. r = s /\ endedBy' = [endedBy EXCEPT ![r] = who] => FALSE
      BY <3>1 DEF RowTypeOK
    <3> QED BY <3>2, <3>3 DEF RowTypeOK
  <2> QED BY RowSteps, <2>1, <2>2, <2>3 DEF RowStep
<1>2. ~Watched(s)
  BY <1>1 DEF NoWatcherCutOff
<1>3. LeasesOnly /\ OpenToViewers(state[s])
  <2>1. LeaseStep
    BY LeaseSteps
  <2>2. CASE UNCHANGED leaseVars
    BY <2>2, <1>2 DEF leaseVars, Watched, LeasesOn, Fresh
  <2> QED BY <2>1, <2>2, <1>2 DEF LeaseStep, LeasesOnly
<1>4. Terminal(state[s])
  BY <1>1 DEF RowTypeOK, RowConstraints
<1> QED BY <1>3, <1>4 DEF OpenToViewers, Terminal

\* Neither the stop of the last viewer nor the expiry ends a session whose viewer's
\* lease is current, for any number of viewers, tabs and concurrent requests.
THEOREM WatchersKept == Spec => []NoWatcherCutOff
<1>1. Init => NoWatcherCutOff
  BY DEF Init, NoWatcherCutOff
<1> QED BY <1>1, StepNoCutOff, Typed, PTL DEF Spec

\* A lease that is closed, or that lapsed while open, is never a viewer again.
LEMMA StepLapsed ==
  TypeOK /\ [Next]_vars => [\A l \in Lease : Lapsed(l) => Lapsed(l)']_vars
<1> SUFFICES ASSUME TypeOK, [Next]_vars, NEW l \in Lease, Lapsed(l) PROVE Lapsed(l)'
  OBVIOUS
<1> USE DEF TypeOK
<1>0. leaseOf[l] # NoSession /\ (l \notin leaseOpen \/ ~Fresh(l))
  BY DEF Lapsed
<1>a. ASSUME leaseOf' = leaseOf, leaseAge' = leaseAge, leaseOpen' \subseteq leaseOpen
      PROVE  Lapsed(l)'
  BY <1>a, <1>0 DEF Lapsed, Fresh
<1>1. CASE UNCHANGED leaseVars
  BY <1>1, <1>a DEF leaseVars
<1>2. ASSUME NEW k \in Lease, NEW s \in Session, JoinViewerSession(k, s) PROVE Lapsed(l)'
  BY <1>2, <1>0 DEF JoinViewerSession, Lapsed, Fresh, LeaseTypeOK
<1>3. ASSUME NEW k \in Lease, MintViewerToken(k) PROVE Lapsed(l)'
  BY <1>3, <1>a DEF MintViewerToken
<1>4. ASSUME NEW s \in Session, NEW L, TouchViewerSession(s, L) PROVE Lapsed(l)'
  <2>1. l \notin {k \in L \cap LeasesOn(s) : Fresh(k)}
    BY <1>0 DEF LeasesOn
  <2> QED BY <1>4, <1>0, <2>1 DEF TouchViewerSession, Lapsed, Fresh, LeaseTypeOK
<1>5. ASSUME NEW s \in Session, NEW L, LeaveMediaViewerAndMaybeEnd(s, L) PROVE Lapsed(l)'
  BY <1>5, <1>a DEF LeaveMediaViewerAndMaybeEnd
<1>6. ASSUME NEW s \in Session, NEW v \in Viewer, LeaveViewerSession(s, v) PROVE Lapsed(l)'
  BY <1>6, <1>a DEF LeaveViewerSession
<1>7. CASE PollLive
  BY <1>7, <1>a DEF PollLive
<1>8. CASE Tick
  <2>1. /\ leaseOf' = leaseOf /\ leaseOpen' = leaseOpen
        /\ leaseAge'[l] = IF Counts(l) THEN Grow(leaseAge[l], LeaseTTL) ELSE leaseAge[l]
    BY <1>8 DEF Tick
  <2>2. ~Fresh(l) => ~Fresh(l)'
    BY <2>1, TimeAssumption DEF Fresh, Grow, LeaseTypeOK
  <2> QED BY <1>0, <2>1, <2>2 DEF Lapsed
<1>9. CASE Viewing
  BY <1>9, <1>2, <1>3, <1>4, <1>5, <1>6 DEF Viewing
<1>10. CASE Opening
  BY <1>10, <1>1 DEF Opening, StartLiveCheck, StartLive, CreateRoom, Authorize, AwaitAgent,
                     AbortOpen
<1>11. CASE AgentPolling
  BY <1>11, <1>1, <1>7 DEF AgentPolling, Poll, PollRecording, OpenScheduledRecording, NothingOpened, PollFails
<1>12. CASE Publishing
  BY <1>12, <1>1 DEF Publishing, PublisherToken, AgentState, StartRecordingReturns
<1>13. CASE Maintenance
  BY <1>13, <1>1, <1>8 DEF Maintenance, SweepList, SetPolicy, SweepExpiredRecording
<1>14. CASE UNCHANGED vars
  BY <1>14, <1>1 DEF vars
<1> QED BY <1>9, <1>10, <1>11, <1>12, <1>13, <1>14 DEF Next

\* A heartbeat, a rejoin or a late mint never makes a lapsed or closed lease current.
THEOREM LapsedForGood == Spec => LapsedStaysLapsed
BY StepLapsed, Typed, PTL DEF Spec, LapsedStaysLapsed

\* What holds of the claim that TerminalNeverChanges makes of the whole row: no handler, late
\* report, sweep or retry changes the state of a session that is over, or what it was a
\* session of.
StateIsFinal ==
  [][\A s \in Session : Terminal(state[s]) => state'[s] = state[s] /\ kind'[s] = kind[s]]_vars

LEMMA StepFinal ==
  ASSUME TypeOK, [Next]_vars, NEW s \in Session, Terminal(state[s])
  PROVE  state'[s] = state[s] /\ kind'[s] = kind[s]
<1>1. RowStep /\ RowTypeOK
  BY RowSteps DEF TypeOK
<1>2. state'[s] = state[s]
  BY <1>1, MoveFacts
<1>3. kind' = kind \/ \E r \in Session, k \in Kind : state[r] = "absent" /\ kind' = [kind EXCEPT ![r] = k]
  BY <1>1 DEF RowStep, RowKept, RowInsert, InsertRow, RowMove, AdvanceMediaSession, SetState
<1> QED  BY <1>1, <1>2, <1>3 DEF RowTypeOK, Terminal

\* A session that is over stays in the state it ended in, for any number of late or repeated
\* reports (StateIsFinal).
THEOREM OverIsFinal == Spec => StateIsFinal
<1>1. TypeOK /\ [Next]_vars =>
        [\A s \in Session : Terminal(state[s]) => state'[s] = state[s] /\ kind'[s] = kind[s]]_vars
  BY StepFinal
<1> QED  BY <1>1, Typed, PTL DEF Spec, StateIsFinal

LEMMA StepRefines == TypeOK /\ [Next]_vars => [Lifecycle!Next]_state
<1> SUFFICES ASSUME TypeOK, [Next]_vars, state' # state PROVE Lifecycle!Next
  OBVIOUS
<1>1. PICK s \in Session :
        \/ state[s] = "absent" /\ state' = [state EXCEPT ![s] = "requested"]
        \/ /\ state[s] \in State
           /\ \E to \in transitions[state[s]] : state' = [state EXCEPT ![s] = to]
  BY RowSteps, MoveFacts DEF TypeOK
<1>2. State = Lifecycle!State /\ transitions = Lifecycle!transitions
  BY DEF State, Lifecycle!State, transitions, Lifecycle!transitions, Forward, Lifecycle!Forward,
         Terminal, Lifecycle!Terminal
<1> QED BY <1>1, <1>2 DEF Lifecycle!Next, Lifecycle!Request, Lifecycle!Move

\* Every handler, with every other, implements the abstract life cycle: a session is
\* requested once, moves along the edges of state.go, and its state stays where it ended.
THEOREM Implements == Spec => ImplementsLifecycle
<1>1. Init => Lifecycle!Init
  BY DEF Init, Lifecycle!Init
<1> QED BY <1>1, StepRefines, Typed, PTL DEF Spec, ImplementsLifecycle, Lifecycle!Spec

=============================================================================
