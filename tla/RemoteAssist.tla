---------------------------- MODULE RemoteAssist ----------------------------
(***************************************************************************)
(* Remote assistance of one monitored device: the rows the backend keeps    *)
(* (store/remote_assist.go), the owner's requests (handlers) and the loop   *)
(* of the employee's desktop agent (sync/remote_assist.rs).                 *)
(*                                                                          *)
(* A statement or transaction of the backend is one step; the agent awaits  *)
(* its requests, so its loop is a program counter `step', and the owner,    *)
(* the employee, the clock and other requests interleave with it.  A        *)
(* request of the agent may be served and its answer lost.  Frames and      *)
(* streams are left out.                                                    *)
(***************************************************************************)
EXTENDS Naturals, FiniteSets

CONSTANTS
  Session,      \* identities of remote_assist_sessions rows of the device
  NoSession,    \* no session
  Actions,      \* bound: how many input actions the owner may send
  BatchLimit    \* actions handed out by one poll (64 in the code)

ASSUME SessionAssumption == NoSession \notin Session
ASSUME BoundAssumption == Actions \in Nat /\ BatchLimit \in Nat \ {0}

VARIABLES
  status,      \* remote_assist_sessions.status; "absent" before the INSERT
  overdue,     \* open sessions whose expires_at has passed
  row,         \* remote_assist_actions: where each action's row is
  actionOf,    \* the session an action was sent to
  step,        \* where the agent's loop is
  asked,       \* the pending session the loop is deciding
  answer,      \* what the decision request returned
  active,      \* the loop's `active'
  shown,       \* RemoteAssistState.current: the session the Stop control would end
  window,      \* the indicator with the Stop button, and what became of it
  stop,        \* RemoteAssistState.stop_requested
  pressing,    \* a Stop press between its check and its store
  lastId,      \* last_action_id
  inbox,       \* actions received and not yet executed
  consent,     \* history: sessions the employee agreed to
  handed       \* history: how often each action was handed out

backend == <<status, overdue, row, actionOf>>
control == <<shown, window, stop, pressing>>
loop == <<step, asked, answer, active, lastId, inbox>>
history == <<consent, handed>>
vars == <<backend, loop, control, history>>

Action == 1..Actions
Open == {s \in Session : status[s] \in {"pending", "active"}}
Closed == {"declined", "ended", "expired"}
\* What a statement with `expires_at > now()' sees as active.
Live(s) == status[s] = "active" /\ s \notin overdue
\* Rows a statement can see: their INSERT has committed.
Visible == {a \in Action : row[a] \in {"queued", "stale", "consumed"}}

Init ==
  /\ status = [s \in Session |-> "absent"]
  /\ overdue = {}
  /\ row = [a \in Action |-> "none"]
  /\ actionOf = [a \in Action |-> NoSession]
  /\ step = "top" /\ asked = NoSession /\ answer = "none"
  /\ active = NoSession /\ lastId = 0 /\ inbox = {}
  /\ shown = NoSession /\ window = "none" /\ stop = FALSE /\ pressing = FALSE
  /\ consent = {}
  /\ handed = [a \in Action |-> 0]

-----------------------------------------------------------------------------
(* Statements *)

\* A row leaves the open states; its expiry no longer matters.
CloseRows(S, st) ==
  /\ status' = [s \in Session |-> IF s \in S THEN st ELSE status[s]]
  /\ overdue' = overdue \ S

DeleteActions(S) ==
  row' = [a \in Action |-> IF a \in Visible /\ actionOf[a] \in S THEN "gone" ELSE row[a]]

\* The device's overdue rows expire; actions of closed sessions are deleted.
expireRemoteAssist ==
  /\ CloseRows(overdue, "expired")
  /\ DeleteActions({s \in Session : status[s] \in Closed} \cup overdue)

\* A variant that only reads.
ReadOnly(s) == UNCHANGED <<status, overdue, row>>

\* Reading one session expires it, and leaves its actions where they are.
RemoteAssistForUser(s) == CloseRows({s} \cap overdue, "expired") /\ UNCHANGED row

EndRemoteAssist(s) ==
  IF s \in Open THEN CloseRows({s}, "ended") /\ DeleteActions({s})
                ELSE UNCHANGED <<status, overdue, row>>

\* The actions one poll of s may get: the BatchLimit lowest that match.
Handable(s) ==
  {a \in Action : row[a] = "queued" /\ actionOf[a] = s /\ a > lastId}
Picked(s) ==
  IF ~Live(s) THEN {}
  ELSE {a \in Handable(s) : Cardinality({b \in Handable(s) : b < a}) < BatchLimit}

-----------------------------------------------------------------------------
(* The owner and the clock *)

\* POST /devices/:id/remote-assist: the unique index admits one open session.
Request(s) ==
  /\ status[s] = "absent"
  /\ Open \subseteq overdue
  /\ overdue' = {}
  /\ status' = [t \in Session |-> IF t = s THEN "pending"
                                  ELSE IF t \in overdue THEN "expired" ELSE status[t]]
  /\ DeleteActions({t \in Session : status[t] \in Closed} \cup overdue)
  /\ UNCHANGED <<actionOf, loop, control, history>>

\* A request that is refused (another session open, device offline), or stops
\* after its first statement, has still expired what was overdue.
RequestRefused ==
  /\ overdue # {}
  /\ expireRemoteAssist
  /\ UNCHANGED <<actionOf, loop, control, history>>

\* GET /remote-assist/:id by the owner.
OwnerReads(s) ==
  /\ s \in overdue
  /\ RemoteAssistForUser(s)
  /\ UNCHANGED <<actionOf, loop, control, history>>

\* POST /remote-assist/:id/end by the owner.
OwnerEnds(s) ==
  /\ s \in Open
  /\ EndRemoteAssist(s)
  /\ UNCHANGED <<actionOf, loop, control, history>>

\* INSERT ... SELECT ... RETURNING id: the session is seen active and the id is
\* taken from the sequence; others see the row only once it has committed.
EnqueueRemoteAssistAction(s, a) ==
  /\ Live(s)
  /\ row[a] = "none" /\ \A b \in 1..a-1 : row[b] # "none"
  /\ row' = [row EXCEPT ![a] = "inserting"]
  /\ actionOf' = [actionOf EXCEPT ![a] = s]
  /\ UNCHANGED <<status, overdue, loop, control, history>>

\* The INSERT commits, or its request was cancelled.
EnqueueReturns(a) ==
  /\ row[a] = "inserting"
  /\ \E r \in {"queued", "gone"} : row' = [row EXCEPT ![a] = r]
  /\ UNCHANGED <<status, overdue, actionOf, loop, control, history>>

\* Two minutes after the request, fifteen after the acceptance.
Expires(s) ==
  /\ s \in Open \ overdue
  /\ overdue' = overdue \cup {s}
  /\ UNCHANGED <<status, row, actionOf, loop, control, history>>

\* An action nobody took for ten seconds is not handed out any more.
GrowsStale(a) ==
  /\ row[a] = "queued"
  /\ row' = [row EXCEPT ![a] = "stale"]
  /\ UNCHANGED <<status, overdue, actionOf, loop, control, history>>

-----------------------------------------------------------------------------
(* The agent *)

\* show_indicator: a window that cannot be built is only logged.
ShowIndicator == IF window = "up" THEN UNCHANGED window ELSE window' \in {"up", "failed"}

\* finish_local, and the loop's `active = None'.
FinishLocal ==
  /\ shown' = NoSession /\ window' = "none" /\ stop' = FALSE
  /\ active' = NoSession
  /\ step' = "top"

\* The employee may have signed out, whenever the loop looks.
SignedOut ==
  /\ step = "top"
  /\ FinishLocal
  /\ UNCHANGED <<backend, asked, answer, lastId, inbox, pressing, history>>

\* GET pending: expires what is overdue, then reads the pending request.
PollPending ==
  /\ step = "top" /\ active = NoSession
  /\ expireRemoteAssist
  /\ \/ \E s \in Session :
          /\ status[s] = "pending" /\ s \notin overdue
          /\ asked' = s /\ step' = "ask"
     \/ UNCHANGED <<asked, step>>       \* none, or the answer is lost
  /\ UNCHANGED <<actionOf, answer, active, lastId, inbox, control,
                 history>>

\* The dialog (or the opt-in set on this computer) answers, at any time or
\* never, and POST decision follows: only a pending, unexpired request is
\* decided, and the new status is returned.  The request or its answer may be
\* lost; a request that is refused is an error too.
AskAndDecide ==
  /\ step = "ask"
  /\ \E accepted \in BOOLEAN :
       LET decided == IF accepted THEN "active" ELSE "declined"
       IN /\ consent' = IF accepted THEN consent \cup {asked} ELSE consent
          /\ \/ /\ status[asked] = "pending" /\ asked \notin overdue
                /\ status' = [status EXCEPT ![asked] = decided]
                /\ answer' \in {decided, "error"}
             \/ answer' = "error" /\ UNCHANGED status
  /\ step' = "decided"
  /\ UNCHANGED <<overdue, row, actionOf, asked, active, lastId,
                 inbox, control, handed>>

\* A variant that takes any answer for a yes.
DecidedAnyAnswer ==
  /\ step = "decided"
  /\ \/ /\ answer # "error"
        /\ shown' = asked /\ ShowIndicator /\ stop' = FALSE
        /\ active' = asked /\ lastId' = 0
     \/ answer = "error" /\ UNCHANGED <<active, lastId, shown, window, stop>>
  /\ step' = "top" /\ asked' = NoSession /\ answer' = "none"
  /\ UNCHANGED <<backend, inbox, pressing, history>>

\* Active (so accepted): the indicator is asked for and the loop is in control,
\* whether or not the indicator came up.  Any other answer clears the local state; an
\* error changes nothing.
Decided ==
  /\ step = "decided"
  /\ \/ /\ answer = "active"
        /\ shown' = asked /\ ShowIndicator /\ stop' = FALSE
        /\ active' = asked /\ lastId' = 0
        /\ step' = "top"
     \/ answer = "declined" /\ FinishLocal /\ UNCHANGED lastId
     \/ /\ answer = "error" /\ step' = "top"
        /\ UNCHANGED <<active, lastId, shown, window, stop>>
  /\ asked' = NoSession /\ answer' = "none"
  /\ UNCHANGED <<backend, inbox, pressing, history>>

\* The head of the loop with a session: Stop first, then the status when it is
\* due, else the actions.
InControl == step = "top" /\ active # NoSession

TakeStop ==
  /\ InControl /\ stop
  /\ stop' = FALSE /\ step' = "stop"
  /\ UNCHANGED <<backend, asked, answer, active, lastId, inbox, shown,
                 window, pressing, history>>

StatusDue ==
  /\ InControl /\ ~stop
  /\ step' = "status"
  /\ UNCHANGED <<backend, asked, answer, active, lastId, inbox, control,
                 history>>

\* Variants that treat the error as a reason not to end the session.
StopLocallyRetries ==
  /\ step = "stop"
  /\ \/ EndRemoteAssist(active) /\ FinishLocal
     \/ step' = "top" /\ UNCHANGED <<status, overdue, row, active, shown, window, stop>>
  /\ UNCHANGED <<actionOf, asked, answer, lastId, inbox, pressing, history>>

StopLocallyKeepsSession ==
  /\ step = "stop"
  /\ EndRemoteAssist(active) \/ UNCHANGED <<status, overdue, row>>
  /\ shown' = NoSession /\ window' = "none" /\ stop' = FALSE /\ step' = "top"
  /\ UNCHANGED <<actionOf, asked, answer, active, lastId, inbox, pressing, history>>

\* The employee's Stop: whether or not the request got through, it is over here.
StopLocally ==
  /\ step = "stop"
  /\ EndRemoteAssist(active) \/ UNCHANGED <<status, overdue, row>>
  /\ FinishLocal
  /\ UNCHANGED <<actionOf, asked, answer, lastId, inbox,
                 pressing, history>>

\* GET /remote-assist/:id by the agent, answered.
PollStatus ==
  /\ step = "status"
  /\ RemoteAssistForUser(active)
  /\ IF status'[active] = "active"
     THEN step' = "actions" /\ UNCHANGED <<active, shown, window, stop>>
     ELSE FinishLocal
  /\ UNCHANGED <<actionOf, asked, answer, lastId, inbox,
                 pressing, history>>

\* ... or not: the error is only logged.
PollStatusFails ==
  /\ step = "status"
  /\ RemoteAssistForUser(active) \/ UNCHANGED <<status, overdue, row>>
  /\ step' = "actions"
  /\ UNCHANGED <<actionOf, asked, answer, active, lastId,
                 inbox, control, history>>

\* After the status, or when it is not due.
ReadyForActions == step = "actions" \/ (InControl /\ ~stop)

\* A variant that relies on last_action_id alone.
ConsumeUnmarked ==
  /\ ReadyForActions
  /\ LET picked == Picked(active)
     IN /\ handed' = [a \in Action |-> IF a \in picked THEN handed[a] + 1 ELSE handed[a]]
        /\ \/ inbox' = picked /\ step' = "execute"
           \/ inbox' = {} /\ step' = "top"
  /\ UNCHANGED <<backend, asked, answer, active, lastId, control, consent>>

\* GET actions: the rows are marked consumed and handed over together; the
\* answer may be lost.
ConsumeRemoteAssistActions ==
  /\ ReadyForActions
  /\ LET picked == Picked(active)
     IN /\ row' = [a \in Action |-> IF a \in picked THEN "consumed" ELSE row[a]]
        /\ handed' = [a \in Action |-> IF a \in picked THEN handed[a] + 1 ELSE handed[a]]
        /\ \/ inbox' = picked /\ step' = "execute"
           \/ inbox' = {} /\ step' = "top"
  /\ UNCHANGED <<status, overdue, actionOf, asked, answer,
                 active, lastId, control, consent>>

ActionsLost ==
  /\ step = "actions"
  /\ step' = "top"
  /\ UNCHANGED <<backend, asked, answer, active, lastId, inbox, control,
                 history>>

ExecuteRemoteActions ==
  /\ step = "execute"
  /\ \E m \in inbox \cup {lastId} : (\A a \in inbox \cup {lastId} : a <= m) /\ lastId' = m
  /\ inbox' = {}
  /\ step' = "top"
  /\ UNCHANGED <<backend, asked, answer, active, control, history>>

\* The process dies, or the computer restarts.
Restart ==
  /\ FinishLocal
  /\ pressing' = FALSE /\ asked' = NoSession /\ answer' = "none"
  /\ lastId' = 0 /\ inbox' = {}
  /\ UNCHANGED <<backend, history>>

-----------------------------------------------------------------------------
(* The indicator and its Stop control, on the UI thread: request_stop looks, then stores. *)

PressStop ==
  /\ window = "up" /\ shown # NoSession /\ ~pressing
  /\ pressing' = TRUE
  /\ UNCHANGED <<backend, loop, shown, window, stop, history>>

StoreStop ==
  /\ pressing
  /\ stop' = TRUE /\ pressing' = FALSE
  /\ UNCHANGED <<backend, loop, shown, window, history>>

\* The employee closes the window by other means; nobody notices.
CloseIndicator ==
  /\ window = "up"
  /\ window' = "closed"
  /\ UNCHANGED <<backend, loop, shown, stop, pressing, history>>

-----------------------------------------------------------------------------
Loop ==
  \/ SignedOut \/ PollPending \/ Decided
  \/ TakeStop \/ StatusDue \/ StopLocally
  \/ PollStatus \/ PollStatusFails
  \/ ConsumeRemoteAssistActions \/ ActionsLost \/ ExecuteRemoteActions

Next ==
  \/ \E s \in Session : \/ Request(s) \/ OwnerReads(s) \/ OwnerEnds(s)
                        \/ Expires(s) \/ \E a \in Action : EnqueueRemoteAssistAction(s, a)
  \/ RequestRefused
  \/ \E a \in Action : EnqueueReturns(a) \/ GrowsStale(a)
  \/ AskAndDecide \/ Restart \/ Loop
  \/ PressStop \/ StoreStop \/ CloseIndicator

Spec == Init /\ [][Next]_vars

\* The loop never stops by itself and its requests return, if only with an
\* error (they time out); a click is stored; time passes.  Nothing is assumed
\* of the owner, of the dialog, or of any request getting through.
FairSpec ==
  /\ Spec
  /\ WF_vars(Loop) /\ WF_vars(StoreStop)
  /\ \A s \in Session : WF_vars(Expires(s))

\* The network is not down for ever: the status is asked for every two seconds
\* and, of infinitely many times, answered some time.
StatusAnswered == SF_vars(StatusDue) /\ SF_vars(PollStatus)

-----------------------------------------------------------------------------
(* Properties *)

Step == {"top", "ask", "decided", "stop", "status", "actions", "execute"}

\* Types; a session is being decided exactly between the poll that found it and
\* the handling of the answer, the loop talks about a session only while it has
\* one, and only an open session can be overdue.
TypeOK ==
  /\ status \in [Session -> {"absent", "pending", "active"} \cup Closed]
  /\ overdue \subseteq Open
  /\ row \in [Action -> {"none", "inserting", "queued", "stale", "consumed", "gone"}]
  /\ actionOf \in [Action -> Session \cup {NoSession}]
  /\ step \in Step
  /\ asked \in Session \cup {NoSession}
  /\ asked # NoSession <=> step \in {"ask", "decided"}
  /\ step \in {"stop", "status", "actions", "execute"} => active # NoSession
  /\ inbox # {} => step = "execute"
  /\ answer # "none" => step = "decided"
  /\ answer \in {"none", "active", "declined", "error"}
  /\ active \in Session \cup {NoSession} /\ shown \in Session \cup {NoSession}
  /\ window \in {"none", "up", "failed", "closed"}
  /\ stop \in BOOLEAN /\ pressing \in BOOLEAN
  /\ lastId \in 0..Actions /\ inbox \subseteq Action
  /\ consent \subseteq Session /\ handed \in [Action -> Nat]

\* A session is active at the backend, and the agent under control, only with
\* the employee's consent to that very session, however late the answer comes.
ConsentFirst ==
  /\ \A s \in Session : status[s] = "active" => s \in consent
  /\ active # NoSession => active \in consent

\* Whenever there is input to execute it was sent to the session the Stop control
\* would end, whatever answer was lost or came late: no input outlives its session.  The
\* indicator goes with the session: it is not up without one, and a session without it is
\* one whose window could not be built or was closed by the employee.
ControlIsVisible ==
  /\ active = shown
  /\ \A a \in inbox : shown # NoSession /\ actionOf[a] = shown
  /\ shown # NoSession <=> window # "none"

\* sync/remote_assist.rs:5: "Every session keeps an always-on-top Stop control visible".
StopControlUp == active # NoSession => window = "up"

\* Every queued action is handed out at most once, also after lost answers,
\* restarts and new sessions.
HandedOnce == \A a \in Action : handed[a] <= 1

\* A session that was declined, ended or expired stays so: an answer to the
\* dialog that comes late, or a late expiry, does not reopen or relabel it.
OverForGood ==
  [][\A s \in Session : status[s] \in Closed => status'[s] = status[s]]_vars

\* The employee's Stop ends the session on the computer, also when the backend
\* cannot be reached at all.
StopHonoured ==
  \A s \in Session : (shown = s /\ (pressing \/ stop)) ~> shown # s

\* No session controls the computer for ever: with nobody pressing Stop and the
\* owner gone, the server's expiry reaches the agent once the backend answers.
ControlEnds == StatusAnswered => \A s \in Session : shown = s ~> shown # s

\* store/remote_assist.go:279: "atomically hands the employee agent each queued
\* action once".  An action queued for the session in control is still ahead of
\* the agent's last_action_id, so that a poll can hand it out.
NothingSkipped ==
  \A a \in Action : row[a] = "queued" /\ actionOf[a] = active /\ active # NoSession
                      => a > lastId
=============================================================================
