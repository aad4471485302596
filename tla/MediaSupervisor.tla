-------------------------- MODULE MediaSupervisor --------------------------
(***************************************************************************)
(* The agent's side of live media (desktop media/mod.rs): the supervisor task  *)
(* that polls the backend for a session, starts and kills the publisher         *)
(* process, and one event-reader thread per process, which relays what the      *)
(* process says to the status shown on the machine and to the backend.  The     *)
(* processes behave as PublisherProcess says.                                  *)
(*                                                                           *)
(* The employee's machine blocks capture (a pause, a lock screen, a policy) at  *)
(* any moment; the backend opens and ends sessions, and calls to it may fail.   *)
(***************************************************************************)
EXTENDS PublisherProcess, FiniteSets

CONSTANTS
  Session,      \* media sessions
  MaxRestarts,  \* MAX_PUBLISHER_RESTARTS
  Grace,        \* POLL_GRACE, in failed polls
  MaxFaults     \* bound: blocks of capture, outages of the backend, crashes of the agent

ASSUME SupervisorAssumption ==
  /\ Proc \subseteq Nat \ {0} /\ IsFiniteSet(Proc)
  /\ {"none", "error"} \cap Session = {}
  /\ MaxRestarts \in Nat /\ Grace \in Nat \ {0}
  /\ MaxFaults \in Nat

VARIABLES
  wanted,     \* the backend's open session of this device
  over,       \* sessions that have ended
  up,         \* the backend can be reached
  block,      \* capture_block: "none", "paused" (pauses_live) or "policy"
  super,      \* where the supervisor is
  pollBlock,  \* block at the start of the poll
  answer,     \* what the poll brought
  age,        \* failed polls since last_poll_ok
  overdue,    \* history: polls answered since the active publisher's session is over
  active,     \* the process of ActiveSession, 0 for none
  sess,       \* the session a process was started for
  target,     \* process start_session is working on
  restarts,   \* (session, unexpected exits)
  current,    \* MediaStatus.current_session
  lit,        \* MediaStatus.active, the indicator
  reader,     \* event readers
  terminal,   \* ActiveSession.terminal
  lost,       \* history: a call to the backend may have been lost
  faults      \* bound

backendVars == <<wanted, over, up, lost>>
pollVars == <<pollBlock, answer, age, overdue>>
startVars == <<sess, target>>
statusVars == <<current, lit>>
readerVars == <<reader, terminal>>
vars == <<procVars, backendVars, block, super, pollVars, active, startVars, restarts,
          statusVars, readerVars, faults>>

None == "none"
\* set_state: the states of a process in which the screen is being read.
Indicated == {"capturing", "publishing"}

Alive(p) == phase[p] \notin {"unborn", "gone"}
Spawned(p) == sess[p] # None
Started(p) == reader[p] # "none"   \* it was sent a Start

SupInit ==
  /\ Init
  /\ wanted = None /\ over = {} /\ up = TRUE /\ lost = FALSE
  /\ block = "none"
  /\ super = "top" /\ pollBlock = FALSE /\ answer = None /\ age = 0 /\ overdue = 0
  /\ active = 0 /\ sess = [p \in Proc |-> None] /\ target = 0
  /\ restarts = [id |-> None, n |-> 0]
  /\ current = None /\ lit = FALSE
  /\ reader = [p \in Proc |-> "none"] /\ terminal = [p \in Proc |-> FALSE]
  /\ faults = 0

---------------------------------------------------------------------------
(* The backend, the link and the machine. *)

Faulty == faults < MaxFaults /\ faults' = faults + 1

Request(s) ==
  /\ wanted = None /\ s \notin over
  /\ wanted' = s
  /\ UNCHANGED <<procVars, over, up, lost, block, super, pollVars, active, startVars,
                 restarts, statusVars, readerVars, faults>>

Withdraw ==
  /\ wanted # None
  /\ over' = over \cup {wanted} /\ wanted' = None
  /\ UNCHANGED <<procVars, up, lost, block, super, pollVars, active, startVars,
                 restarts, statusVars, readerVars, faults>>

Outage ==
  /\ up /\ Faulty
  /\ up' = FALSE /\ lost' = TRUE
  /\ UNCHANGED <<procVars, wanted, over, block, super, pollVars, active, startVars,
                 restarts, statusVars, readerVars>>

Back ==
  /\ ~up /\ up' = TRUE
  /\ UNCHANGED <<procVars, wanted, over, lost, block, super, pollVars, active, startVars,
                 restarts, statusVars, readerVars, faults>>

Block(b) ==
  /\ block = "none" /\ Faulty
  /\ block' = b
  /\ UNCHANGED <<procVars, backendVars, super, pollVars, active, startVars, restarts,
                 statusVars, readerVars>>

Unblock ==
  /\ block # "none" /\ block' = "none"
  /\ UNCHANGED <<procVars, backendVars, super, pollVars, active, startVars, restarts,
                 statusVars, readerVars, faults>>

\* report: a failure ends the session at the backend, when the call arrives.
Fails(s) ==
  /\ IF up /\ wanted = s THEN wanted' = None /\ over' = over \cup {s}
     ELSE UNCHANGED <<wanted, over>>
  /\ UNCHANGED <<up, lost>>

---------------------------------------------------------------------------
(* A process is what PublisherProcess allows, once it runs and was sent what it  *)
(* answers; the agent sends one Start and nothing else.  Reports of metrics and  *)
(* of the first frame change nothing the backend or the supervisor decides by,   *)
(* and are left out.                                                             *)

ProcStep(p) ==
  /\ Spawned(p) /\ phase[p] # "gone"
  /\ \/ Begin(p)
     \/ phase[p] = "idle" /\ Started(p) /\ Open(p)
     \/ Enter(p) \/ Lose(p) \/ Capture(p) \/ Frame(p)
     \/ \E c \in Codes : Fail(p, c)
     \/ Gone(p)
  /\ UNCHANGED <<backendVars, block, super, pollVars, active, startVars, restarts,
                 statusVars, readerVars, faults>>

---------------------------------------------------------------------------
(* The supervisor. *)

ClearStatus == current' = None /\ lit' = FALSE

\* ActiveSession::stop: TerminateProcess, and the status is cleared.
StopActive ==
  IF active = 0 THEN UNCHANGED <<procVars, active, statusVars>>
  ELSE Killed({active}) /\ UNCHANGED <<pipe, open>> /\ active' = 0 /\ ClearStatus

\* Variant (mutant): only the poll loop looks at the block.
TopIgnoresBlock ==
  /\ super = "top"
  /\ UNCHANGED <<procVars, active, statusVars>>
  /\ super' = "poll" /\ pollBlock' = (block # "none")
  /\ UNCHANGED <<backendVars, block, answer, age, overdue, startVars, restarts, readerVars, faults>>

Top ==
  /\ super = "top"
  /\ IF block # "none" THEN StopActive ELSE UNCHANGED <<procVars, active, statusVars>>
  /\ super' = "poll" /\ pollBlock' = (block # "none")
  /\ UNCHANGED <<backendVars, block, answer, age, overdue, startVars, restarts, readerVars, faults>>

\* While an unblocked poll is out the block is looked at again; Top stands for the
\* looks taken between two polls.
Watch ==
  /\ super = "poll" /\ ~pollBlock
  /\ block # "none" /\ active # 0
  /\ StopActive
  /\ UNCHANGED <<backendVars, block, super, pollVars, startVars, restarts, readerVars,
                 faults>>

\* agent_media_session, or its timeout.
Answer ==
  /\ super = "poll"
  /\ answer' \in (IF up THEN {wanted, "error"} ELSE {"error"})
  /\ answer' = "error" => ~up
  /\ age' = IF answer' # "error" THEN 0 ELSE IF age < Grace THEN age + 1 ELSE age
  /\ overdue' = IF active = 0 \/ sess[active] = wanted THEN 0
                ELSE IF overdue < Grace THEN overdue + 1 ELSE overdue
  /\ super' = "handle" /\ pollBlock' = FALSE
  /\ UNCHANGED <<procVars, backendVars, block, active, startVars, restarts,
                 statusVars, readerVars, faults>>

\* The supervisor is done with the answer.
Done == super' = "top" /\ answer' = None /\ pollBlock' = FALSE

Counted(s) == IF restarts.id = s THEN restarts ELSE [id |-> s, n |-> 0]

\* Variant (mutant): a poll that cannot be answered never stops the publisher.
HandleErrorNoGrace ==
  /\ super = "handle" /\ answer = "error"
  /\ Done
  /\ UNCHANGED <<procVars, active, statusVars, backendVars, block, age, overdue, startVars, restarts, readerVars, faults>>

HandleError ==
  /\ super = "handle" /\ answer = "error"
  /\ IF age >= Grace THEN StopActive ELSE UNCHANGED <<procVars, active, statusVars>>
  /\ Done
  /\ UNCHANGED <<backendVars, block, age, overdue, startVars, restarts, readerVars, faults>>

HandleNothing ==
  /\ super = "handle" /\ answer = None
  /\ StopActive
  /\ Done
  /\ UNCHANGED <<backendVars, block, age, overdue, startVars, restarts, readerVars, faults>>

\* A pause keeps a live session and says why; any other block fails it.
HandleBlocked ==
  /\ super = "handle" /\ answer \in Session /\ block # "none"
  /\ StopActive
  /\ restarts' = Counted(answer)
  /\ IF block = "paused" THEN UNCHANGED backendVars ELSE Fails(answer)
  /\ Done
  /\ UNCHANGED <<block, age, overdue, startVars, readerVars, faults>>

Handles == super = "handle" /\ answer \in Session /\ block = "none"
Same == active # 0 /\ sess[active] = answer

\* Variant (mutant): the publisher of the session before is left running.
HandleNewKeepsOld ==
  /\ Handles /\ ~Same
  /\ UNCHANGED <<procVars, statusVars>> /\ active' = 0
  /\ restarts' = Counted(answer)
  /\ super' = "token"
  /\ UNCHANGED <<backendVars, block, pollVars, startVars, readerVars, faults>>

HandleNew ==
  /\ Handles /\ ~Same
  /\ StopActive
  /\ restarts' = Counted(answer)
  /\ super' = "token"
  /\ UNCHANGED <<backendVars, block, pollVars, startVars, readerVars, faults>>

\* Variant (mutant): exits are counted and never acted on.
StrikeUnreported(s) ==
  /\ restarts' = [id |-> s, n |-> IF restarts.n > MaxRestarts THEN restarts.n ELSE restarts.n + 1]
  /\ UNCHANGED backendVars

\* One more failure of the session's publisher: after MaxRestarts the session fails.
Strike(s) ==
  /\ restarts' = [id |-> s, n |-> IF restarts.n > MaxRestarts THEN restarts.n ELSE restarts.n + 1]
  /\ IF restarts.n + 1 > MaxRestarts THEN Fails(s)
     ELSE UNCHANGED backendVars

\* exit_kind: a terminal failure was reported by the reader, anything else is a strike.
HandleExited ==
  /\ Handles /\ Same /\ ~Alive(active)
  /\ active' = 0 /\ ClearStatus
  /\ IF terminal[active] THEN restarts' = Counted(answer) /\ UNCHANGED backendVars
     ELSE Strike(answer)
  /\ Done
  /\ UNCHANGED <<procVars, block, age, overdue, startVars, readerVars, faults>>

HandleSame ==
  /\ Handles /\ Same /\ Alive(active)
  /\ restarts' = Counted(answer)
  /\ Done
  /\ UNCHANGED <<procVars, active, statusVars, backendVars, block, age, overdue, startVars,
                 readerVars, faults>>

---------------------------------------------------------------------------
(* start_session, for the session the poll brought. *)

\* media_publisher_token, only for the device's open session; then the pipe is created
\* and the process launched, and after that put in the job.
Spawn(p) ==
  /\ super = "token" /\ up /\ wanted = answer /\ block = "none"
  /\ ~Spawned(p) /\ \A q \in Proc : ~Spawned(q) => p <= q
  /\ sess' = [sess EXCEPT ![p] = answer]
  /\ target' = p
  /\ super' = "contain"
  /\ UNCHANGED <<procVars, active, statusVars, backendVars, block, pollVars,
                 restarts, readerVars, faults>>

Contain ==
  /\ super = "contain"
  /\ super' = "connect"
  /\ UNCHANGED <<procVars, active, statusVars, backendVars, block, pollVars, startVars,
                 restarts, readerVars, faults>>

\* The process has connected, capture is still allowed: Start is written, the status
\* begins and the event reader is spawned.
Write ==
  /\ super = "connect" /\ phase[target] = "idle" /\ block = "none"
  /\ active' = target /\ target' = 0
  /\ current' = answer /\ lit' = FALSE /\ overdue' = 0
  /\ reader' = [reader EXCEPT ![target] = "read"]
  /\ Done
  /\ UNCHANGED <<procVars, backendVars, block, age, sess, restarts, terminal, faults>>

\* Any step of it fails: what was launched is killed.
StartFails ==
  /\ super \in {"token", "contain", "connect"}
  /\ IF target = 0 THEN UNCHANGED procVars ELSE Killed({target}) /\ UNCHANGED <<pipe, open>>
  /\ target' = 0
  /\ Strike(answer)
  /\ Done
  /\ UNCHANGED <<active, statusVars, block, age, overdue, sess, readerVars, faults>>

---------------------------------------------------------------------------
(* The event reader of a process. *)

\* A line is read and judged in one step: what the reader does next may take a while.
ReadEvent(p, kind) ==
  /\ reader[p] = "read" /\ pipe[p] # <<>> /\ Head(pipe[p]).event = kind
  /\ Take(p)
  /\ UNCHANGED <<backendVars, block, super, pollVars, active, startVars, restarts,
                 current, faults>>

\* set_session_state; a status of another session ends the reader.
ReadState(p) ==
  /\ ReadEvent(p, "state")
  /\ LET s == Head(pipe[p]).state IN
     IF current = sess[p]
     THEN lit' = (s \in Indicated) /\ UNCHANGED reader
     ELSE reader' = [reader EXCEPT ![p] = "end"] /\ UNCHANGED lit
  /\ UNCHANGED terminal

\* A lost room is left to the supervisor; any other failure is terminal.
ReadFatal(p) ==
  /\ ReadEvent(p, "fatal")
  /\ LET c == Head(pipe[p]).code IN
     IF c = "room_disconnected"
     THEN reader' = [reader EXCEPT ![p] = "end"] /\ UNCHANGED terminal
     ELSE /\ reader' = [reader EXCEPT ![p] = "fatal"]
          /\ terminal' = [terminal EXCEPT ![p] = TRUE]
  /\ UNCHANGED lit

ShowFatal(p) ==
  /\ reader[p] = "fatal"
  /\ IF current = sess[p]
     THEN lit' = FALSE /\ reader' = [reader EXCEPT ![p] = "report"]
     ELSE reader' = [reader EXCEPT ![p] = "end"] /\ UNCHANGED lit
  /\ UNCHANGED <<procVars, backendVars, block, super, pollVars, active, startVars, restarts,
                 current, terminal, faults>>

ReportFatal(p) ==
  /\ reader[p] = "report"
  /\ Fails(sess[p])
  /\ reader' = [reader EXCEPT ![p] = "end"]
  /\ UNCHANGED <<procVars, block, super, pollVars, active, startVars, restarts,
                 statusVars, terminal, faults>>

\* The process is gone and its pipe is read out, or the loop broke: clear_session.
ReaderEnds(p) ==
  /\ reader[p] = "end" \/ (reader[p] = "read" /\ pipe[p] = <<>> /\ ~Alive(p))
  /\ reader' = [reader EXCEPT ![p] = "done"]
  /\ IF current = sess[p] THEN ClearStatus ELSE UNCHANGED statusVars
  /\ UNCHANGED <<procVars, backendVars, block, super, pollVars, active, startVars, restarts,
                 terminal, faults>>

ReaderStep(p) ==
  \/ ReadState(p) \/ ReadFatal(p) \/ ShowFatal(p) \/ ReportFatal(p) \/ ReaderEnds(p)

---------------------------------------------------------------------------
(* The agent crashes: the job kills what is in it; every handle is closed. *)

Crash ==
  /\ Faulty
  /\ AgentDies((IF active = 0 THEN {} ELSE {active})
                 \cup (IF super = "connect" THEN {target} ELSE {}),
               {p \in Proc : Spawned(p)})
  /\ super' = "top" /\ pollBlock' = FALSE /\ answer' = None /\ age' = 0 /\ overdue' = 0
  /\ active' = 0 /\ target' = 0 /\ restarts' = [id |-> None, n |-> 0]
  /\ ClearStatus
  /\ reader' = [p \in Proc |-> IF reader[p] = "none" THEN "none" ELSE "done"]
  /\ terminal' = [p \in Proc |-> FALSE]
  /\ UNCHANGED <<backendVars, block, sess>>

---------------------------------------------------------------------------
Environment ==
  \/ (\E s \in Session : Request(s)) \/ Withdraw \/ Outage \/ Back
  \/ (\E b \in {"paused", "policy"} : Block(b)) \/ Unblock

Supervisor ==
  \/ Top \/ Watch \/ Answer
  \/ HandleError \/ HandleNothing \/ HandleBlocked \/ HandleNew \/ HandleExited \/ HandleSame
  \/ (\E p \in Proc : Spawn(p)) \/ Contain \/ Write \/ StartFails

SupNext ==
  \/ Supervisor \/ Environment \/ Crash
  \/ \E p \in Proc : ProcStep(p) \/ ReaderStep(p)

SupSpec == SupInit /\ [][SupNext]_vars

---------------------------------------------------------------------------
(* Properties. *)

SupTypeOK ==
  /\ active \in Proc \cup {0} /\ target \in Proc \cup {0}
  /\ target # 0 <=> super \in {"contain", "connect"}
  /\ sess \in [Proc -> Session \cup {None}] /\ answer \in Session \cup {None, "error"}
  /\ wanted \in Session \cup {None} /\ up \in BOOLEAN /\ lost \in BOOLEAN
  /\ age \in 0..Grace /\ overdue \in 0..Grace
  /\ restarts \in [id : Session \cup {None}, n : 0..MaxRestarts + 1]
  /\ reader \in [Proc -> {"none", "read", "fatal", "report", "end", "done"}]
  /\ phase \in [Proc -> Phase]
  /\ super \in {"top", "poll", "handle", "token", "contain", "connect"}

\* Only the publisher the supervisor holds can capture: one that was superseded,
\* stopped, given up, or left behind by a crash of the agent, never does.
OnlyActiveCaptures == \A p \in Proc : phase[p] \in Live \cup {"starting"} => p = active

\* The backend is never told that capture is blocked while the screen is being read.
BlockedPollReadsNothing ==
  super = "poll" /\ pollBlock => \A p \in Proc : phase[p] \notin Live

\* A session whose publisher was given up is over at the backend, unless a call was lost.
GivenUpIsOver == restarts.n > MaxRestarts /\ ~lost => restarts.id \in over

\* A publisher is stopped within Grace polls of the end of its session, even when the
\* backend cannot be reached to say that it is over.
StopsWithinGrace == super = "top" /\ active # 0 => overdue < Grace

=============================================================================
