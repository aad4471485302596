------------------------- MODULE RemoteAssistProofs -------------------------
(***************************************************************************)
(* What RemoteAssist keeps for any number of sessions, actions and any      *)
(* batch limit.  Statements on sessions are `StatusMove's and statements on *)
(* actions `RowMove's, whatever step they are part of; the loop's variables *)
(* are then followed step by step.                                          *)
(***************************************************************************)
EXTENDS RemoteAssist, TLAPS

\* What any step may do to the sessions: the types hold, a closed session stays
\* as it is, and only consent makes one active.
StatusMove ==
  /\ status' \in [Session -> {"absent", "pending", "active"} \cup Closed]
  /\ overdue' \subseteq {s \in Session : status'[s] \in {"pending", "active"}}
  /\ \A s \in Session : status[s] \in Closed => status'[s] = status[s]
  /\ \A s \in Session : status'[s] = "active" => status[s] = "active" \/ s \in consent'
  /\ consent \subseteq consent' /\ consent' \subseteq Session

\* What any step may do to the actions: an id is used once, and a row that was
\* handed out is never put back in the queue.
RowMove ==
  /\ row' \in [Action -> {"none", "inserting", "queued", "stale", "consumed", "gone"}]
  /\ actionOf' \in [Action -> Session \cup {NoSession}]
  /\ handed' \in [Action -> Nat]
  /\ \A a \in Action :
       /\ row[a] # "none" => row'[a] # "none" /\ actionOf'[a] = actionOf[a]
       /\ row[a] \in {"consumed", "gone"} => row'[a] \in {"consumed", "gone"}
       /\ handed'[a] = handed[a] \/ (row[a] = "queued" /\ row'[a] = "consumed"
                                     /\ handed'[a] = handed[a] + 1)

\* The answer the loop is about to act on is backed by consent.
AnswerConsented == answer = "active" => asked \in consent

\* An action that was handed out has left the queue for good.
HandedLeft == \A a \in Action : handed[a] # 0 => row[a] \in {"consumed", "gone"}

\* What is to be executed was inserted once; its session cannot change.
InboxSettled == \A a \in inbox : row[a] # "none"

Inv ==
  /\ TypeOK /\ ConsentFirst /\ AnswerConsented
  /\ ControlIsVisible /\ InboxSettled
  /\ HandedOnce /\ HandedLeft

-----------------------------------------------------------------------------
(* Statements *)

\* Closing open rows is a legal move of the sessions.
LEMMA CloseRowsMoves ==
  ASSUME TypeOK, NEW S \in SUBSET Open, NEW st \in Closed, CloseRows(S, st),
         consent' = consent
  PROVE  StatusMove
BY DEF TypeOK, StatusMove, CloseRows, Open, Closed

\* Deleting the actions of some sessions is a legal move of the actions.
LEMMA DeleteMoves ==
  ASSUME TypeOK, NEW S, DeleteActions(S), UNCHANGED <<actionOf, handed>>
  PROVE  RowMove
BY DEF TypeOK, RowMove, DeleteActions, Visible

\* The statements of an expiry, of a read and of an end are both.
LEMMA ExpireMoves ==
  ASSUME TypeOK, expireRemoteAssist, UNCHANGED <<actionOf, handed, consent>>
  PROVE  StatusMove /\ RowMove
<1>1. overdue \in SUBSET Open /\ "expired" \in Closed
  BY DEF TypeOK, Closed
<1> QED  BY <1>1, CloseRowsMoves, DeleteMoves DEF expireRemoteAssist

LEMMA NoMove ==
  ASSUME TypeOK, UNCHANGED <<status, overdue, row, actionOf, handed, consent>>
  PROVE  StatusMove /\ RowMove
BY DEF TypeOK, StatusMove, RowMove, Open

LEMMA ReadMoves ==
  ASSUME TypeOK, NEW s, RemoteAssistForUser(s), UNCHANGED <<actionOf, handed, consent>>
  PROVE  StatusMove /\ RowMove
<1>1. {s} \cap overdue \in SUBSET Open /\ "expired" \in Closed
  BY DEF TypeOK, Closed
<1>2. StatusMove
  BY <1>1, CloseRowsMoves DEF RemoteAssistForUser
<1>3. RowMove
  BY DEF RemoteAssistForUser, RowMove, TypeOK
<1> QED  BY <1>2, <1>3

LEMMA EndMoves ==
  ASSUME TypeOK, NEW s, EndRemoteAssist(s), UNCHANGED <<actionOf, handed, consent>>
  PROVE  StatusMove /\ RowMove
<1>1. CASE s \in Open
  <2>1. {s} \in SUBSET Open /\ "ended" \in Closed
    BY <1>1 DEF Closed
  <2>2. CloseRows({s}, "ended") /\ DeleteActions({s})
    BY <1>1 DEF EndRemoteAssist
  <2> QED  BY <2>1, <2>2, CloseRowsMoves, DeleteMoves
<1>2. CASE s \notin Open
  BY <1>2, NoMove DEF EndRemoteAssist
<1> QED  BY <1>1, <1>2

\* One poll picks actions of its session that are still queued, and none of a
\* session that is not live.
LEMMA PickedIsQueued ==
  ASSUME NEW s
  PROVE  \A a \in Picked(s) : a \in Action /\ row[a] = "queued" /\ actionOf[a] = s
BY DEF Picked, Handable

-----------------------------------------------------------------------------
\* Every step moves sessions and actions legally.
LEMMA Moves == TypeOK /\ [Next]_vars => StatusMove /\ RowMove
<1> SUFFICES ASSUME TypeOK, [Next]_vars PROVE StatusMove /\ RowMove
  OBVIOUS
<1>1. ASSUME NEW s \in Session, Request(s) PROVE StatusMove /\ RowMove
  <2>1. StatusMove
    BY <1>1 DEF Request, StatusMove, TypeOK, Open, Closed, history
  <2>2. RowMove
    BY <1>1, DeleteMoves DEF Request, history
  <2> QED  BY <2>1, <2>2
<1>2. ASSUME NEW s \in Session, OwnerReads(s) PROVE StatusMove /\ RowMove
  BY <1>2, ReadMoves DEF OwnerReads, history
<1>3. ASSUME NEW s \in Session, OwnerEnds(s) PROVE StatusMove /\ RowMove
  BY <1>3, EndMoves DEF OwnerEnds, history
<1>4. ASSUME NEW s \in Session, Expires(s) PROVE StatusMove /\ RowMove
  BY <1>4 DEF Expires, StatusMove, RowMove, TypeOK, Open, history
<1>5. ASSUME NEW s \in Session, NEW a \in Action, EnqueueRemoteAssistAction(s, a)
      PROVE  StatusMove /\ RowMove
  BY <1>5 DEF EnqueueRemoteAssistAction, StatusMove, RowMove, TypeOK, Open, history
<1>6. CASE RequestRefused
  BY <1>6, ExpireMoves DEF RequestRefused, history
<1>7. ASSUME NEW a \in Action, EnqueueReturns(a) PROVE StatusMove /\ RowMove
  BY <1>7 DEF EnqueueReturns, StatusMove, RowMove, TypeOK, Open, history
<1>8. ASSUME NEW a \in Action, GrowsStale(a) PROVE StatusMove /\ RowMove
  BY <1>8 DEF GrowsStale, StatusMove, RowMove, TypeOK, Open, history
<1>9. CASE AskAndDecide
  <2>1. PICK accepted \in BOOLEAN :
          /\ consent' = IF accepted THEN consent \cup {asked} ELSE consent
          /\ \/ /\ status[asked] = "pending" /\ asked \notin overdue
                /\ status' = [status EXCEPT ![asked] =
                                IF accepted THEN "active" ELSE "declined"]
             \/ UNCHANGED status
    BY <1>9 DEF AskAndDecide
  <2>2. asked \in Session
    BY <1>9 DEF AskAndDecide, TypeOK
  <2>3. StatusMove
    BY <1>9, <2>1, <2>2 DEF AskAndDecide, StatusMove, TypeOK, Open, Closed
  <2>4. RowMove
    BY <1>9 DEF AskAndDecide, RowMove, TypeOK
  <2> QED  BY <2>3, <2>4
<1>10. CASE PollPending
  BY <1>10, ExpireMoves DEF PollPending, history
<1>11. CASE StopLocally
  BY <1>11, EndMoves, NoMove DEF StopLocally, history
<1>12. CASE PollStatus
  BY <1>12, ReadMoves DEF PollStatus, history
<1>13. CASE PollStatusFails
  BY <1>13, ReadMoves, NoMove DEF PollStatusFails, history
<1>14. CASE ConsumeRemoteAssistActions
  <2> DEFINE picked == Picked(active)
  <2>1. /\ row' = [a \in Action |-> IF a \in picked THEN "consumed" ELSE row[a]]
        /\ handed' = [a \in Action |-> IF a \in picked THEN handed[a] + 1 ELSE handed[a]]
        /\ UNCHANGED <<status, overdue, actionOf, consent>>
    BY <1>14 DEF ConsumeRemoteAssistActions
  <2>2. \A a \in picked : a \in Action /\ row[a] = "queued"
    BY PickedIsQueued
  <2> HIDE DEF picked
  <2>3. StatusMove
    BY <2>1 DEF StatusMove, TypeOK, Open
  <2>4. RowMove
    BY <2>1, <2>2 DEF RowMove, TypeOK
  <2> QED  BY <2>3, <2>4
<1>15. CASE SignedOut \/ Decided \/ TakeStop \/ StatusDue \/ ActionsLost
            \/ ExecuteRemoteActions \/ Restart \/ PressStop \/ StoreStop \/ CloseIndicator
            \/ UNCHANGED vars
  <2>1. UNCHANGED <<status, overdue, row, actionOf, handed, consent>>
    BY <1>15 DEF SignedOut, Decided, TakeStop, StatusDue, ActionsLost,
       ExecuteRemoteActions, Restart, PressStop, StoreStop, CloseIndicator, vars, backend, history
  <2> QED  BY <2>1, NoMove
<1> QED
  BY <1>1, <1>2, <1>3, <1>4, <1>5, <1>6, <1>7, <1>8, <1>9, <1>10, <1>11, <1>12, <1>13,
     <1>14, <1>15 DEF Next, Loop

-----------------------------------------------------------------------------
\* The parts that follow from the moves alone.
LEMMA HandedStep ==
  ASSUME TypeOK, HandedOnce, HandedLeft, RowMove
  PROVE  HandedOnce' /\ HandedLeft'
BY DEF TypeOK, HandedOnce, HandedLeft, RowMove

LEMMA NoIdYet == 0 \in 0..Actions
BY BoundAssumption

LEMMA InitInv == Init => Inv
<1> SUFFICES ASSUME Init PROVE Inv
  OBVIOUS
<1>1. TypeOK
  BY NoIdYet, SessionAssumption DEF Init, TypeOK, Step, Open, Closed
<1>2. ConsentFirst /\ AnswerConsented /\ ControlIsVisible /\ InboxSettled
  BY SessionAssumption DEF Init, ConsentFirst, AnswerConsented, ControlIsVisible, InboxSettled
<1>3. HandedOnce /\ HandedLeft
  BY DEF Init, HandedOnce, HandedLeft
<1> QED  BY <1>1, <1>2, <1>3 DEF Inv

\* What the loop, the Stop control and the answer are after a step.
LoopTypes ==
  /\ step \in Step
  /\ asked \in Session \cup {NoSession}
  /\ asked # NoSession <=> step \in {"ask", "decided"}
  /\ step \in {"stop", "status", "actions", "execute"} => active # NoSession
  /\ inbox # {} => step = "execute"
  /\ answer # "none" => step = "decided"
  /\ answer \in {"none", "active", "declined", "error"}
  /\ active \in Session \cup {NoSession} /\ shown \in Session \cup {NoSession}
  /\ window \in {"none", "up", "failed", "closed"}
  /\ stop \in BOOLEAN /\ pressing \in BOOLEAN
  /\ lastId \in 0..Actions /\ inbox \subseteq Action

LoopInv ==
  /\ LoopTypes
  /\ active # NoSession => active \in consent
  /\ AnswerConsented /\ ControlIsVisible /\ InboxSettled

\* A step that leaves the loop's variables alone keeps what is known of them.
LEMMA LoopKept ==
  ASSUME Inv, StatusMove, RowMove, UNCHANGED <<loop, shown>>,
         window' = window \/ (window = "up" /\ window' = "closed"),
         stop' \in BOOLEAN, pressing' \in BOOLEAN
  PROVE  LoopInv'
<1>1. LoopTypes'
  BY DEF Inv, TypeOK, LoopTypes, loop
<1>2. (active # NoSession => active \in consent)' /\ AnswerConsented'
  BY DEF Inv, ConsentFirst, AnswerConsented, StatusMove, loop
<1>3. ControlIsVisible' /\ InboxSettled'
  BY DEF Inv, TypeOK, ControlIsVisible, InboxSettled, RowMove, loop
<1> QED  BY <1>1, <1>2, <1>3 DEF LoopInv

\* A step after which nothing is left to execute, and which takes up a session
\* only with consent, needs to keep the types.
LEMMA LoopIdle ==
  ASSUME Inv, StatusMove, LoopTypes', inbox' = {}, active' = shown', AnswerConsented',
         shown' # NoSession <=> window' # "none",
         active' # NoSession => active' = active \/ active' \in consent'
  PROVE  LoopInv'
BY DEF Inv, ConsentFirst, LoopInv, ControlIsVisible, InboxSettled, StatusMove

LEMMA LoopStep == Inv /\ [Next]_vars => LoopInv'
<1> SUFFICES ASSUME Inv, [Next]_vars PROVE LoopInv'
  OBVIOUS
<1>0. TypeOK /\ StatusMove /\ RowMove
  BY Moves DEF Inv
<1>1. ASSUME NEW s \in Session, Request(s) \/ OwnerReads(s) \/ OwnerEnds(s) \/ Expires(s)
      PROVE  LoopInv'
  BY <1>0, <1>1, LoopKept
     DEF Request, OwnerReads, OwnerEnds, Expires, loop, control, TypeOK
<1>2. ASSUME NEW s \in Session, NEW a \in Action, EnqueueRemoteAssistAction(s, a)
      PROVE  LoopInv'
  BY <1>0, <1>2, LoopKept DEF EnqueueRemoteAssistAction, loop, control, TypeOK
<1>3. ASSUME NEW a \in Action, EnqueueReturns(a) \/ GrowsStale(a) PROVE LoopInv'
  BY <1>0, <1>3, LoopKept DEF EnqueueReturns, GrowsStale, loop, control, TypeOK
<1>4. CASE RequestRefused \/ PressStop \/ StoreStop \/ CloseIndicator \/ UNCHANGED vars
  BY <1>0, <1>4, LoopKept
     DEF RequestRefused, PressStop, StoreStop, CloseIndicator, vars, loop, control, TypeOK
<1>5. CASE SignedOut
  <2>1. LoopTypes' /\ inbox' = {} /\ active' = shown' /\ active' = NoSession /\ window' = "none"
    BY <1>0, <1>5 DEF SignedOut, FinishLocal, TypeOK, LoopTypes, Step
  <2>2. AnswerConsented'
    BY <1>0, <1>5 DEF SignedOut, history, Inv, AnswerConsented
  <2> QED  BY <1>0, <2>1, <2>2, LoopIdle
<1>6. CASE PollPending
  <2>1. inbox = {} /\ UNCHANGED <<answer, active, lastId, inbox, shown, window, stop, pressing, consent>>
    BY <1>0, <1>6 DEF PollPending, control, history, TypeOK
  <2>2. LoopTypes'
    BY <1>0, <1>6, <2>1, SessionAssumption DEF PollPending, TypeOK, LoopTypes, Step
  <2>3. AnswerConsented'
    <3>1. CASE UNCHANGED asked
      BY <2>1, <3>1 DEF Inv, AnswerConsented
    <3>2. CASE \E s \in Session : asked' = s
      BY <1>0, <1>6, <2>1 DEF Inv, AnswerConsented, PollPending, TypeOK
    <3> QED  BY <1>6, <3>1, <3>2 DEF PollPending
  <2> QED  BY <1>0, <2>1, <2>2, <2>3, LoopIdle DEF Inv, ControlIsVisible
<1>7. CASE AskAndDecide
  <2>1. inbox = {} /\ UNCHANGED <<asked, active, lastId, inbox, shown, window, stop, pressing>>
    BY <1>0, <1>7 DEF AskAndDecide, control, TypeOK
  <2>2. LoopTypes'
    BY <1>0, <1>7, <2>1 DEF AskAndDecide, TypeOK, LoopTypes, Step
  <2>3. AnswerConsented'
    BY <1>0, <1>7 DEF AskAndDecide, AnswerConsented, TypeOK
  <2> QED  BY <1>0, <2>1, <2>2, <2>3, LoopIdle DEF Inv, ControlIsVisible
<1>8. CASE Decided
  <2>1. inbox' = {} /\ active' = shown' /\ AnswerConsented'
        /\ (active' # NoSession => active' = active \/ active' \in consent')
        /\ (shown' # NoSession <=> window' # "none")
    BY <1>0, <1>8, SessionAssumption DEF Decided, FinishLocal, ShowIndicator, backend, history, TypeOK, Inv, AnswerConsented,
       ControlIsVisible
  <2>2. LoopTypes'
    BY <1>0, <1>8, NoIdYet DEF Decided, FinishLocal, ShowIndicator, TypeOK, LoopTypes, Step
  <2> QED  BY <1>0, <2>1, <2>2, LoopIdle
<1>9. CASE TakeStop \/ StatusDue \/ ActionsLost \/ PollStatusFails
  <2>1. inbox = {} /\ UNCHANGED <<asked, answer, active, lastId, inbox, shown, window, pressing, consent>>
    BY <1>0, <1>9 DEF TakeStop, StatusDue, ActionsLost, PollStatusFails, InControl,
       control, history, TypeOK
  <2>2. LoopTypes'
    BY <1>0, <1>9, <2>1 DEF TakeStop, StatusDue, ActionsLost, PollStatusFails, InControl,
       control, TypeOK, LoopTypes, Step
  <2>3. AnswerConsented'
    BY <2>1 DEF Inv, AnswerConsented
  <2> QED  BY <1>0, <2>1, <2>2, <2>3, LoopIdle DEF Inv, ControlIsVisible
<1>10. CASE StopLocally \/ PollStatus
  <2>1. inbox = {} /\ UNCHANGED <<asked, answer, lastId, inbox, pressing, consent>>
    BY <1>0, <1>10 DEF StopLocally, PollStatus, history, TypeOK
  <2>2. \/ step' = "actions" /\ step = "status" /\ UNCHANGED <<active, shown, window, stop>>
        \/ step \in {"stop", "status"} /\ FinishLocal
    BY <1>10 DEF StopLocally, PollStatus
  <2>3. LoopTypes' /\ active' = shown' /\ (active' # NoSession => active' = active)
        /\ (shown' # NoSession <=> window' # "none")
    BY <1>0, <2>1, <2>2 DEF FinishLocal, TypeOK, LoopTypes, Step, Inv, ControlIsVisible
  <2>4. AnswerConsented'
    BY <2>1 DEF Inv, AnswerConsented
  <2> QED  BY <1>0, <2>1, <2>3, <2>4, LoopIdle
<1>11. CASE ConsumeRemoteAssistActions
  <2>1. /\ active # NoSession /\ active = shown
        /\ UNCHANGED <<actionOf, asked, answer, active, lastId, shown, window, stop, pressing, consent>>
        /\ \/ inbox' = Picked(active) /\ step' = "execute"
           \/ inbox' = {} /\ step' = "top"
    BY <1>0, <1>11 DEF ConsumeRemoteAssistActions, ReadyForActions, InControl, control,
       TypeOK, Inv, ControlIsVisible
  <2>2. \A a \in inbox' : a \in Action /\ row[a] = "queued" /\ actionOf[a] = active
    BY <2>1, PickedIsQueued
  <2>3. LoopTypes'
    BY <1>0, <1>11, <2>1, <2>2
       DEF ConsumeRemoteAssistActions, ReadyForActions, InControl, TypeOK, LoopTypes, Step
  <2>4. (active # NoSession => active \in consent)' /\ AnswerConsented'
    BY <2>1 DEF Inv, ConsentFirst, AnswerConsented
  <2>5. ControlIsVisible' /\ InboxSettled'
    BY <1>0, <2>1, <2>2 DEF Inv, ControlIsVisible, InboxSettled, RowMove
  <2> QED  BY <2>3, <2>4, <2>5 DEF LoopInv
<1>12. CASE ExecuteRemoteActions
  <2>1. inbox' = {} /\ UNCHANGED <<asked, answer, active, shown, window, stop, pressing, consent>>
    BY <1>12 DEF ExecuteRemoteActions, control, history
  <2>2. LoopTypes'
    BY <1>0, <1>12, <2>1 DEF ExecuteRemoteActions, TypeOK, LoopTypes, Step, Action
  <2>3. AnswerConsented' /\ active' = shown' /\ (shown' # NoSession <=> window' # "none")
    BY <2>1 DEF Inv, AnswerConsented, ControlIsVisible
  <2> QED  BY <1>0, <2>1, <2>2, <2>3, LoopIdle
<1>13. CASE Restart
  <2>1. inbox' = {} /\ active' = NoSession /\ shown' = NoSession /\ window' = "none" /\ AnswerConsented'
    BY <1>13 DEF Restart, FinishLocal, AnswerConsented
  <2>2. LoopTypes'
    BY <1>13, NoIdYet DEF Restart, FinishLocal, LoopTypes, Step
  <2> QED  BY <1>0, <2>1, <2>2, LoopIdle
<1> QED
  BY <1>1, <1>2, <1>3, <1>4, <1>5, <1>6, <1>7, <1>8, <1>9, <1>10, <1>11, <1>12, <1>13
     DEF Next, Loop

\* The invariant is inductive.
LEMMA Inductive == Inv /\ [Next]_vars => Inv'
<1> SUFFICES ASSUME Inv, [Next]_vars PROVE Inv'
  OBVIOUS
<1>1. TypeOK /\ StatusMove /\ RowMove /\ LoopInv'
  BY Moves, LoopStep DEF Inv
<1>2. TypeOK'
  BY <1>1 DEF TypeOK, StatusMove, RowMove, LoopInv, LoopTypes, Open
<1>3. ConsentFirst'
  BY <1>1 DEF Inv, ConsentFirst, StatusMove, LoopInv
<1>4. HandedOnce' /\ HandedLeft'
  BY <1>1, HandedStep DEF Inv
<1> QED  BY <1>1, <1>2, <1>3, <1>4 DEF Inv, LoopInv

LEMMA Invariant == Spec => []Inv
<1> QED  BY InitInv, Inductive, PTL DEF Spec

-----------------------------------------------------------------------------
(* Theorems *)

\* Every reachable state has its types, and the loop's variables agree.
THEOREM Typed == Spec => []TypeOK
<1>1. Inv => TypeOK
  BY DEF Inv
<1> QED  BY <1>1, Invariant, PTL

\* Nothing is active, at the backend or on the computer, without the employee's
\* consent to that session.
THEOREM Consented == Spec => []ConsentFirst
<1>1. Inv => ConsentFirst
  BY DEF Inv
<1> QED  BY <1>1, Invariant, PTL

\* Input reaches the computer only for the session the Stop control would end, and a session
\* lacks its indicator only when the window could not be built or was closed.
THEOREM ControlShown == Spec => []ControlIsVisible
<1>1. Inv => ControlIsVisible
  BY DEF Inv
<1> QED  BY <1>1, Invariant, PTL

\* No queued action is handed out twice.
THEOREM OnceOnly == Spec => []HandedOnce
<1>1. Inv => HandedOnce
  BY DEF Inv
<1> QED  BY <1>1, Invariant, PTL

\* A session that is over stays over, with the status it was given.
THEOREM StaysOver == Spec => OverForGood
<1>1. Inv /\ [Next]_vars
        => [\A s \in Session : status[s] \in Closed => status'[s] = status[s]]_vars
  BY Moves DEF Inv, StatusMove
<1> QED  BY <1>1, Invariant, PTL DEF Spec, OverForGood
=============================================================================
