------------------------ MODULE MediaSupervisorProofs ------------------------
(***************************************************************************)
(* Theorems about MediaSupervisor, for any processes, sessions, restarts and *)
(* grace, and any number of faults.                                          *)
(***************************************************************************)
EXTENDS MediaSupervisor, TLAPS

\* Every process that was sent a Start is the active one or gone, and no other has
\* been asked for anything; while a start is under way and while a blocked poll is out
\* there is no active one.
ActiveOwns ==
  /\ active # 0 => Started(active)
  /\ \A p \in Proc : Started(p) => phase[p] = "gone" \/ (p = active /\ phase[p] # "unborn")
  /\ \A p \in Proc : ~Started(p) => phase[p] \in {"unborn", "idle", "gone"}
  /\ super \in {"token", "contain", "connect"} => active = 0
  /\ super = "poll" /\ pollBlock => active = 0

\* The restarts counted are those of the session that is served, and a session the
\* backend was asked about is still open or over.
StrikesCounted ==
  /\ super \in {"token", "contain", "connect"} => restarts.id = answer /\ answer \in Session
  /\ active # 0 => sess[active] = restarts.id /\ sess[active] \in Session
  /\ super \in {"contain", "connect"} => sess[target] = answer
  /\ answer \in Session => answer = wanted \/ answer \in over
  /\ ~up => lost
  /\ restarts.n > MaxRestarts /\ ~lost => restarts.id \in over

\* The polls a publisher outlived its session for are all failed ones.
OverduePolls ==
  active # 0 =>
    /\ super \in {"top", "poll"} => overdue <= age /\ overdue < Grace
    /\ super = "handle" /\ answer = "error" => overdue <= age
    /\ super = "handle" /\ answer = sess[active] => overdue = 0

SupInv == SupTypeOK /\ ActiveOwns /\ StrikesCounted /\ OverduePolls

-----------------------------------------------------------------------------
(* What the steps do to the processes. *)

LEMMA StopFacts ==
  ASSUME SupTypeOK, StopActive
  PROVE  /\ active' = 0 /\ phase' \in [Proc -> Phase]
         /\ \A p \in Proc : phase'[p] = IF p = active THEN "gone" ELSE phase[p]
BY SupervisorAssumption DEF SupTypeOK, StopActive, Killed, Phase, procVars

LEMMA ProcFacts ==
  ASSUME SupTypeOK, NEW p \in Proc, ProcStep(p)
  PROVE  /\ phase' \in [Proc -> Phase]
         /\ \A q \in Proc \ {p} : phase'[q] = phase[q]
         /\ \/ phase'[p] \in {phase[p], "gone"}
            \/ phase[p] = "unborn" /\ phase'[p] = "idle"
            \/ phase[p] = "idle" /\ Started(p) /\ phase'[p] = "starting"
            \/ phase[p] \in Live \cup {"starting"} /\ phase'[p] \in Live \cup {"dying"}
<1> USE DEF SupTypeOK, Phase, Live
<1>1. CASE Begin(p)
  BY <1>1 DEF Begin, Says
<1>2. CASE phase[p] = "idle" /\ Started(p) /\ Open(p)
  BY <1>2 DEF Open, Says
<1>3. CASE Enter(p)
  BY <1>3 DEF Enter, Says
<1>4. CASE Lose(p)
  BY <1>4 DEF Lose, Says
<1>5. CASE Capture(p)
  BY <1>5 DEF Capture, Says
<1>6. CASE Frame(p)
  BY <1>6 DEF Frame
<1>7. ASSUME NEW c \in Codes, Fail(p, c)
      PROVE  /\ phase[p] \in Live \cup {"starting"}
             /\ phase' = [phase EXCEPT ![p] = "dying"]
  BY <1>7 DEF Fail
<1>8. CASE Gone(p)
  BY <1>8 DEF Gone
<1>9. CASE \E c \in Codes : Fail(p, c)
  BY <1>7, <1>9
<1> QED  BY <1>1, <1>2, <1>3, <1>4, <1>5, <1>6, <1>8, <1>9 DEF ProcStep

\* A reader that exists goes on existing, and changes no process.
LEMMA ReaderFacts ==
  ASSUME SupTypeOK, NEW p \in Proc, ReaderStep(p)
  PROVE  /\ UNCHANGED <<phase, super, pollVars, active, startVars, restarts>>
         /\ reader' \in [Proc -> {"none", "read", "fatal", "report", "end", "done"}]
         /\ \A q \in Proc : reader'[q] = "none" <=> reader[q] = "none"
         /\ UNCHANGED backendVars \/ Fails(sess[p])
<1> USE DEF SupTypeOK
<1>1. CASE ReadState(p)
  BY <1>1 DEF ReadState, ReadEvent, Take
<1>2. CASE ReadFatal(p)
  BY <1>2 DEF ReadFatal, ReadEvent, Take
<1>3. CASE ShowFatal(p)
  BY <1>3 DEF ShowFatal, procVars
<1>4. CASE ReportFatal(p)
  BY <1>4 DEF ReportFatal, procVars
<1>5. CASE ReaderEnds(p)
  BY <1>5 DEF ReaderEnds, procVars
<1> QED  BY <1>1, <1>2, <1>3, <1>4, <1>5 DEF ReaderStep

LEMMA FailsFacts ==
  ASSUME SupTypeOK, NEW s \in Session \cup {None}, Fails(s)
  PROVE  /\ wanted' \in Session \cup {None} /\ UNCHANGED <<up, lost>>
         /\ over \subseteq over'
         /\ wanted' = wanted \/ (wanted' = None /\ wanted \in over')
         /\ up /\ wanted = s => s \in over'
BY DEF SupTypeOK, Fails

LEMMA CountedFacts ==
  ASSUME SupTypeOK, NEW s \in Session
  PROVE  /\ Counted(s) \in [id : Session \cup {None}, n : 0..MaxRestarts + 1]
         /\ Counted(s).id = s
         /\ Counted(s).n > MaxRestarts => Counted(s) = restarts
BY SupervisorAssumption DEF SupTypeOK, Counted

LEMMA StrikeFacts ==
  ASSUME SupTypeOK, NEW s \in Session, Strike(s)
  PROVE  /\ restarts' \in [id : Session \cup {None}, n : 0..MaxRestarts + 1]
         /\ restarts'.id = s
         /\ UNCHANGED backendVars \/ Fails(s)
         /\ restarts'.n > MaxRestarts => Fails(s)
<1>1. restarts.n \in 0..MaxRestarts + 1
  BY DEF SupTypeOK
<1> QED  BY <1>1, SupervisorAssumption DEF Strike

-----------------------------------------------------------------------------
(* The invariant is kept. *)

\* Every step keeps the ranges.
LEMMA TypeStep == SupTypeOK /\ StrikesCounted /\ [SupNext]_vars => SupTypeOK'
<1> SUFFICES ASSUME SupTypeOK /\ StrikesCounted, [SupNext]_vars PROVE SupTypeOK'
  OBVIOUS
<1> USE SupervisorAssumption DEF SupTypeOK, Phase,
        procVars, backendVars, pollVars, startVars, statusVars, readerVars
<1>1. ASSUME NEW s \in Session, Request(s) PROVE SupTypeOK'
  BY <1>1 DEF Request
<1>2. CASE Withdraw
  BY <1>2 DEF Withdraw
<1>3. CASE Outage
  BY <1>3 DEF Outage, Faulty
<1>4. CASE Back
  BY <1>4 DEF Back
<1>5. ASSUME NEW b \in {"paused", "policy"}, Block(b) PROVE SupTypeOK'
  BY <1>5 DEF Block, Faulty
<1>6. CASE Unblock
  BY <1>6 DEF Unblock
<1>7. ASSUME NEW p \in Proc, ProcStep(p) PROVE SupTypeOK'
  BY <1>7, ProcFacts DEF ProcStep
<1>8. ASSUME NEW p \in Proc, ReaderStep(p) PROVE SupTypeOK'
  BY <1>8, ReaderFacts, FailsFacts
<1>9. CASE Top
  BY <1>9, StopFacts DEF Top
<1>10. CASE Watch
  BY <1>10, StopFacts DEF Watch
<1>11. CASE Answer
  BY <1>11 DEF Answer
<1>12. CASE HandleError
  BY <1>12, StopFacts DEF HandleError, Done
<1>13. CASE HandleNothing
  BY <1>13, StopFacts DEF HandleNothing, Done
<1>14. CASE HandleBlocked
  BY <1>14, StopFacts, CountedFacts, FailsFacts DEF HandleBlocked, Done
<1>15. CASE HandleNew
  BY <1>15, StopFacts, CountedFacts DEF HandleNew, Handles, Same
<1>16. CASE HandleExited
  BY <1>16, CountedFacts, StrikeFacts, FailsFacts DEF HandleExited, Handles, Same, Done, Alive
<1>17. CASE HandleSame
  BY <1>17, CountedFacts DEF HandleSame, Handles, Same, Done
<1>18. ASSUME NEW p \in Proc, Spawn(p) PROVE SupTypeOK'
  BY <1>18 DEF Spawn
<1>19. CASE Contain
  BY <1>19 DEF Contain
<1>20. CASE Write
  BY <1>20 DEF Write, Done
<1>21. CASE StartFails
  <2>1. /\ Strike(answer) /\ target' = 0 /\ super' = "top" /\ answer' = None
        /\ UNCHANGED <<active, age, overdue, sess, reader>>
    BY <1>21 DEF StartFails, Done
  <2>2. phase' \in [Proc -> Phase]
    BY <1>21 DEF StartFails, Killed
  <2>3. restarts' \in [id : Session \cup {None}, n : 0..MaxRestarts + 1]
    <3>1. answer \in Session
      BY <1>21 DEF StartFails, StrikesCounted
    <3> QED  BY <2>1, <3>1, StrikeFacts
  <2>4. wanted' \in Session \cup {None} /\ UNCHANGED <<up, lost>>
    BY <2>1 DEF Strike, Fails
  <2> QED  BY <2>1, <2>2, <2>3, <2>4
<1>22. CASE Crash
  BY <1>22 DEF Crash, Faulty, ClearStatus, AgentDies, Killed
<1>23. CASE UNCHANGED vars
  BY <1>23 DEF vars
<1> QED
  BY <1>1, <1>2, <1>3, <1>4, <1>5, <1>6, <1>7, <1>8, <1>9, <1>10, <1>11, <1>12,
     <1>13, <1>14, <1>15, <1>16, <1>17, <1>18, <1>19, <1>20, <1>21, <1>22, <1>23
     DEF SupNext, Supervisor, Environment

\* No step leaves a process that can capture to itself.
LEMMA OwnsStep == SupTypeOK /\ ActiveOwns /\ [SupNext]_vars => ActiveOwns'
<1> SUFFICES ASSUME SupTypeOK /\ ActiveOwns, [SupNext]_vars PROVE ActiveOwns'
  OBVIOUS
<1> USE SupervisorAssumption DEF SupTypeOK, ActiveOwns, Started,
        procVars, backendVars, pollVars, startVars, statusVars, readerVars
<1>1. ASSUME NEW s \in Session, Request(s) PROVE ActiveOwns'
  BY <1>1 DEF Request
<1>2. CASE Withdraw
  BY <1>2 DEF Withdraw
<1>3. CASE Outage
  BY <1>3 DEF Outage, Faulty
<1>4. CASE Back
  BY <1>4 DEF Back
<1>5. ASSUME NEW b \in {"paused", "policy"}, Block(b) PROVE ActiveOwns'
  BY <1>5 DEF Block, Faulty
<1>6. CASE Unblock
  BY <1>6 DEF Unblock
<1>7. ASSUME NEW p \in Proc, ProcStep(p) PROVE ActiveOwns'
  BY <1>7, ProcFacts DEF ProcStep, Live
<1>8. ASSUME NEW p \in Proc, ReaderStep(p) PROVE ActiveOwns'
  BY <1>8, ReaderFacts
<1>9. CASE Top
  BY <1>9, StopFacts DEF Top
<1>10. CASE Watch
  BY <1>10, StopFacts DEF Watch
<1>11. CASE Answer
  BY <1>11 DEF Answer
<1>12. CASE HandleError
  BY <1>12, StopFacts DEF HandleError, Done
<1>13. CASE HandleNothing
  BY <1>13, StopFacts DEF HandleNothing, Done
<1>14. CASE HandleBlocked
  BY <1>14, StopFacts, CountedFacts, FailsFacts DEF HandleBlocked, Done
<1>15. CASE HandleNew
  BY <1>15, StopFacts, CountedFacts DEF HandleNew, Handles, Same
<1>16. CASE HandleExited
  BY <1>16, CountedFacts, StrikeFacts, FailsFacts DEF HandleExited, Handles, Same, Done, Alive
<1>17. CASE HandleSame
  BY <1>17, CountedFacts DEF HandleSame, Handles, Same, Done
<1>18. ASSUME NEW p \in Proc, Spawn(p) PROVE ActiveOwns'
  BY <1>18 DEF Spawn
<1>19. CASE Contain
  BY <1>19 DEF Contain
<1>20. CASE Write
  BY <1>20 DEF Write, Done
<1>21. CASE StartFails
  BY <1>21, StrikeFacts, FailsFacts DEF StartFails, Done, Killed
<1>22. CASE Crash
  BY <1>22 DEF Crash, Faulty, ClearStatus, AgentDies, Killed
<1>23. CASE UNCHANGED vars
  BY <1>23 DEF vars
<1> QED
  BY <1>1, <1>2, <1>3, <1>4, <1>5, <1>6, <1>7, <1>8, <1>9, <1>10, <1>11, <1>12,
     <1>13, <1>14, <1>15, <1>16, <1>17, <1>18, <1>19, <1>20, <1>21, <1>22, <1>23
     DEF SupNext, Supervisor, Environment

\* No step forgets a strike, or acts on one for another session.
LEMMA StrikesStep == SupTypeOK /\ StrikesCounted /\ [SupNext]_vars => StrikesCounted'
<1> SUFFICES ASSUME SupTypeOK /\ StrikesCounted, [SupNext]_vars PROVE StrikesCounted'
  OBVIOUS
<1> USE SupervisorAssumption DEF SupTypeOK, StrikesCounted, None,
        procVars, backendVars, pollVars, startVars, statusVars, readerVars
<1>1. ASSUME NEW s \in Session, Request(s) PROVE StrikesCounted'
  BY <1>1 DEF Request
<1>2. CASE Withdraw
  BY <1>2 DEF Withdraw
<1>3. CASE Outage
  BY <1>3 DEF Outage, Faulty
<1>4. CASE Back
  BY <1>4 DEF Back
<1>5. ASSUME NEW b \in {"paused", "policy"}, Block(b) PROVE StrikesCounted'
  BY <1>5 DEF Block, Faulty
<1>6. CASE Unblock
  BY <1>6 DEF Unblock
<1>7. ASSUME NEW p \in Proc, ProcStep(p) PROVE StrikesCounted'
  BY <1>7, ProcFacts DEF ProcStep
<1>8. ASSUME NEW p \in Proc, ReaderStep(p) PROVE StrikesCounted'
  BY <1>8, ReaderFacts, FailsFacts
<1>9. CASE Top
  BY <1>9, StopFacts DEF Top
<1>10. CASE Watch
  BY <1>10, StopFacts DEF Watch
<1>11. CASE Answer
  BY <1>11 DEF Answer
<1>12. CASE HandleError
  BY <1>12, StopFacts DEF HandleError, Done
<1>13. CASE HandleNothing
  BY <1>13, StopFacts DEF HandleNothing, Done
<1>14. CASE HandleBlocked
  BY <1>14, StopFacts, CountedFacts, FailsFacts DEF HandleBlocked, Done
<1>15. CASE HandleNew
  BY <1>15, StopFacts, CountedFacts DEF HandleNew, Handles, Same
<1>16. CASE HandleExited
  BY <1>16, CountedFacts, StrikeFacts, FailsFacts DEF HandleExited, Handles, Same, Done, Alive
<1>17. CASE HandleSame
  BY <1>17, CountedFacts DEF HandleSame, Handles, Same, Done
<1>18. ASSUME NEW p \in Proc, Spawn(p) PROVE StrikesCounted'
  BY <1>18 DEF Spawn
<1>19. CASE Contain
  BY <1>19 DEF Contain
<1>20. CASE Write
  BY <1>20 DEF Write, Done
<1>21. CASE StartFails
  BY <1>21, StrikeFacts, FailsFacts DEF StartFails, Done, Killed
<1>22. CASE Crash
  BY <1>22 DEF Crash, Faulty, ClearStatus, AgentDies, Killed
<1>23. CASE UNCHANGED vars
  BY <1>23 DEF vars
<1> QED
  BY <1>1, <1>2, <1>3, <1>4, <1>5, <1>6, <1>7, <1>8, <1>9, <1>10, <1>11, <1>12,
     <1>13, <1>14, <1>15, <1>16, <1>17, <1>18, <1>19, <1>20, <1>21, <1>22, <1>23
     DEF SupNext, Supervisor, Environment

\* Only an answered poll lets the overdue polls grow.
LEMMA OverdueStep == SupTypeOK /\ StrikesCounted /\ ActiveOwns /\ OverduePolls /\ [SupNext]_vars => OverduePolls'
<1> SUFFICES ASSUME SupTypeOK /\ StrikesCounted /\ ActiveOwns /\ OverduePolls, [SupNext]_vars PROVE OverduePolls'
  OBVIOUS
<1> USE SupervisorAssumption DEF SupTypeOK, StrikesCounted, ActiveOwns, OverduePolls, None,
        procVars, backendVars, pollVars, startVars, statusVars, readerVars
<1>1. ASSUME NEW s \in Session, Request(s) PROVE OverduePolls'
  BY <1>1 DEF Request
<1>2. CASE Withdraw
  BY <1>2 DEF Withdraw
<1>3. CASE Outage
  BY <1>3 DEF Outage, Faulty
<1>4. CASE Back
  BY <1>4 DEF Back
<1>5. ASSUME NEW b \in {"paused", "policy"}, Block(b) PROVE OverduePolls'
  BY <1>5 DEF Block, Faulty
<1>6. CASE Unblock
  BY <1>6 DEF Unblock
<1>7. ASSUME NEW p \in Proc, ProcStep(p) PROVE OverduePolls'
  BY <1>7, ProcFacts DEF ProcStep
<1>8. ASSUME NEW p \in Proc, ReaderStep(p) PROVE OverduePolls'
  BY <1>8, ReaderFacts
<1>9. CASE Top
  BY <1>9, StopFacts DEF Top
<1>10. CASE Watch
  BY <1>10, StopFacts DEF Watch
<1>11. CASE Answer
  BY <1>11 DEF Answer
<1>12. CASE HandleError
  BY <1>12, StopFacts DEF HandleError, Done
<1>13. CASE HandleNothing
  BY <1>13, StopFacts DEF HandleNothing, Done
<1>14. CASE HandleBlocked
  BY <1>14, StopFacts, CountedFacts, FailsFacts DEF HandleBlocked, Done
<1>15. CASE HandleNew
  BY <1>15, StopFacts, CountedFacts DEF HandleNew, Handles, Same
<1>16. CASE HandleExited
  BY <1>16, CountedFacts, StrikeFacts, FailsFacts DEF HandleExited, Handles, Same, Done, Alive
<1>17. CASE HandleSame
  BY <1>17, CountedFacts DEF HandleSame, Handles, Same, Done
<1>18. ASSUME NEW p \in Proc, Spawn(p) PROVE OverduePolls'
  BY <1>18 DEF Spawn
<1>19. CASE Contain
  BY <1>19 DEF Contain
<1>20. CASE Write
  BY <1>20 DEF Write, Done
<1>21. CASE StartFails
  BY <1>21, StrikeFacts, FailsFacts DEF StartFails, Done, Killed
<1>22. CASE Crash
  BY <1>22 DEF Crash, Faulty, ClearStatus, AgentDies, Killed
<1>23. CASE UNCHANGED vars
  BY <1>23 DEF vars
<1> QED
  BY <1>1, <1>2, <1>3, <1>4, <1>5, <1>6, <1>7, <1>8, <1>9, <1>10, <1>11, <1>12,
     <1>13, <1>14, <1>15, <1>16, <1>17, <1>18, <1>19, <1>20, <1>21, <1>22, <1>23
     DEF SupNext, Supervisor, Environment

-----------------------------------------------------------------------------
LEMMA InitInv == SupInit => SupInv
<1> SUFFICES ASSUME SupInit PROVE SupInv
  OBVIOUS
<1> USE SupervisorAssumption DEF SupInit, Init
<1>1. 0 \in 0..Grace /\ 0 \in 0..MaxRestarts + 1
  OBVIOUS
<1>2. SupTypeOK
  BY <1>1 DEF SupTypeOK, Phase
<1>3. ActiveOwns
  BY DEF ActiveOwns, Started
<1>4. StrikesCounted /\ OverduePolls
  BY DEF StrikesCounted, OverduePolls, None
<1> QED  BY <1>2, <1>3, <1>4 DEF SupInv

THEOREM Invariance == SupSpec => []SupInv
<1>1. SupInv /\ [SupNext]_vars => SupInv'
  BY TypeStep, OwnsStep, StrikesStep, OverdueStep DEF SupInv
<1> QED  BY InitInv, <1>1, PTL DEF SupSpec

\* Only the publisher the supervisor holds can capture (OnlyActiveCaptures).
THEOREM OneCapture == SupSpec => []OnlyActiveCaptures
<1>1. SupInv => OnlyActiveCaptures
  BY DEF SupInv, ActiveOwns, OnlyActiveCaptures, Live
<1> QED  BY <1>1, Invariance, PTL

\* Nothing is read from the screen while the backend is asked with a block
\* (BlockedPollReadsNothing).
THEOREM BlockHolds == SupSpec => []BlockedPollReadsNothing
<1>1. SupInv => BlockedPollReadsNothing
  BY SupervisorAssumption
     DEF SupInv, SupTypeOK, ActiveOwns, BlockedPollReadsNothing, Live
<1> QED  BY <1>1, Invariance, PTL

\* A session whose publisher was given up is over (GivenUpIsOver).
THEOREM GivenUp == SupSpec => []GivenUpIsOver
<1>1. SupInv => GivenUpIsOver
  BY DEF SupInv, StrikesCounted, GivenUpIsOver
<1> QED  BY <1>1, Invariance, PTL

\* No publisher outlives its session by more than the grace (StopsWithinGrace).
THEOREM GraceHolds == SupSpec => []StopsWithinGrace
<1>1. SupInv => StopsWithinGrace
  BY DEF SupInv, OverduePolls, StopsWithinGrace
<1> QED  BY <1>1, Invariance, PTL

-----------------------------------------------------------------------------
(* What holds of processes that do what PublisherProcess says.                *)

ProcTypes ==
  /\ phase \in [Proc -> Phase] /\ fresh \in [Proc -> BOOLEAN] /\ open \in [Proc -> BOOLEAN]
  /\ frames \in [Proc -> 0..MaxFrames] /\ pipe \in [Proc -> Seq(Event)]

\* Nothing is left of a process that has gone but what it wrote.
GoneLeavesNothing == \A p \in Proc : phase[p] = "gone" => ~fresh[p] /\ frames[p] = 0

\* A fatal event is the end of the process, and nothing but metrics is written after it.
FatalEnds ==
  \A p \in Proc : \A i \in 1..Len(pipe[p]) : pipe[p][i].event = "fatal" =>
    /\ phase[p] \in {"dying", "gone"}
    /\ \A j \in 1..Len(pipe[p]) : i < j => pipe[p][j].event = "metrics"

ProcInv == ProcTypes /\ GoneLeavesNothing /\ FatalEnds

LEMMA ProcInit == Init => ProcInv
BY ProcessAssumption DEF Init, ProcInv, ProcTypes, GoneLeavesNothing, FatalEnds, Phase

LEMMA Events ==
  /\ \A s \in Live \cup {"idle", "starting", "stopped"} :
       StateEvent(s) \in Event /\ StateEvent(s).event = "state"
  /\ \A c \in Codes : FatalEvent(c) \in Event
  /\ \A n \in 0..MaxFrames : MetricsEvent(n) \in Event /\ MetricsEvent(n).event = "metrics"
BY DEF Event, StateEvent, FatalEvent, MetricsEvent

LEMMA EmitFacts ==
  ASSUME ProcTypes, NEW p \in Proc, NEW e \in Event, Emit(p, e)
  PROVE  /\ pipe' \in [Proc -> Seq(Event)] /\ \A q \in Proc \ {p} : pipe'[q] = pipe[q]
         /\ \/ pipe'[p] = pipe[p]
            \/ /\ Len(pipe'[p]) = Len(pipe[p]) + 1 /\ pipe'[p][Len(pipe[p]) + 1] = e
               /\ \A i \in 1..Len(pipe[p]) : pipe'[p][i] = pipe[p][i]
<1> DEFINE old == pipe[p]
<1>1. old \in Seq(Event)
  BY DEF ProcTypes
<1>2. /\ Append(old, e) \in Seq(Event) /\ Len(Append(old, e)) = Len(old) + 1
      /\ Append(old, e)[Len(old) + 1] = e
      /\ \A i \in 1..Len(old) : Append(old, e)[i] = old[i]
  BY <1>1
<1>3. pipe' = pipe \/ pipe' = [pipe EXCEPT ![p] = Append(old, e)]
  BY DEF Emit
<1>4. CASE pipe' = pipe
  BY <1>4 DEF ProcTypes
<1>5. CASE pipe' = [pipe EXCEPT ![p] = Append(old, e)]
  <2>1. /\ pipe' \in [Proc -> Seq(Event)] /\ \A q \in Proc \ {p} : pipe'[q] = pipe[q]
        /\ pipe'[p] = Append(old, e)
    BY <1>2, <1>5 DEF ProcTypes
  <2> QED  BY <1>2, <2>1
<1> QED  BY <1>3, <1>4, <1>5

\* A word of a process that had not ended, or metrics of any: the end stays the end.
LEMMA EmitEnds ==
  ASSUME ProcTypes, FatalEnds, NEW p \in Proc, NEW e \in Event, Emit(p, e),
         \A q \in Proc \ {p} : phase'[q] = phase[q],
         \/ e.event = "metrics" /\ phase'[p] = phase[p]
         \/ phase[p] \notin {"dying", "gone"} /\ (e.event = "fatal" => phase'[p] = "dying")
  PROVE  FatalEnds'
<1> SUFFICES ASSUME NEW q \in Proc, NEW i \in 1..Len(pipe'[q]), pipe'[q][i].event = "fatal"
             PROVE  /\ phase'[q] \in {"dying", "gone"}
                    /\ \A j \in 1..Len(pipe'[q]) : i < j => pipe'[q][j].event = "metrics"
  BY DEF FatalEnds
<1>1. Len(pipe[q]) \in Nat
  BY DEF ProcTypes
<1>2. CASE pipe'[q] = pipe[q]
  <2>1. phase[q] \in {"dying", "gone"}
    BY <1>2 DEF FatalEnds
  <2>2. phase'[q] = phase[q]
    BY <2>1
  <2> QED  BY <1>2, <2>1, <2>2 DEF FatalEnds
<1>3. CASE /\ q = p /\ Len(pipe'[p]) = Len(pipe[p]) + 1 /\ pipe'[p][Len(pipe[p]) + 1] = e
           /\ \A k \in 1..Len(pipe[p]) : pipe'[p][k] = pipe[p][k]
  <2>1. CASE i \in 1..Len(pipe[p])
    <3>1. /\ phase[p] \in {"dying", "gone"}
          /\ \A j \in 1..Len(pipe[p]) : i < j => pipe[p][j].event = "metrics"
      BY <1>3, <2>1 DEF FatalEnds
    <3>2. e.event = "metrics" /\ phase'[p] = phase[p]
      BY <3>1
    <3> QED  BY <1>1, <1>3, <3>1, <3>2
  <2>2. CASE i = Len(pipe[p]) + 1
    <3>1. e.event = "fatal"
      BY <1>3, <2>2
    <3> QED  BY <1>1, <1>3, <2>2, <3>1
  <2> QED  BY <1>1, <1>3, <2>1, <2>2
<1> QED  BY <1>2, <1>3, EmitFacts

\* What the agent takes from a pipe, or throws away, changes no end.
LEMMA ShorterEnds ==
  ASSUME ProcTypes, FatalEnds, pipe' \in [Proc -> Seq(Event)],
         \A q \in Proc : /\ phase'[q] \in {phase[q], "gone"}
                         /\ \/ pipe'[q] \in {pipe[q], <<>>}
                            \/ pipe[q] # <<>> /\ pipe'[q] = Tail(pipe[q])
  PROVE  FatalEnds'
<1> SUFFICES ASSUME NEW q \in Proc, NEW i \in 1..Len(pipe'[q]), pipe'[q][i].event = "fatal"
             PROVE  /\ phase'[q] \in {"dying", "gone"}
                    /\ \A j \in 1..Len(pipe'[q]) : i < j => pipe'[q][j].event = "metrics"
  BY DEF FatalEnds
<1>1. Len(pipe[q]) \in Nat /\ pipe[q] \in Seq(Event)
  BY DEF ProcTypes
<1>2. CASE pipe'[q] = pipe[q]
  BY <1>2 DEF FatalEnds
<1>3. CASE pipe[q] # <<>> /\ pipe'[q] = Tail(pipe[q])
  <2>1. /\ Len(pipe'[q]) = Len(pipe[q]) - 1
        /\ \A k \in 1..Len(pipe'[q]) : k + 1 \in 1..Len(pipe[q]) /\ pipe'[q][k] = pipe[q][k + 1]
    BY <1>1, <1>3
  <2>2. /\ phase[q] \in {"dying", "gone"}
        /\ \A j \in 1..Len(pipe[q]) : i + 1 < j => pipe[q][j].event = "metrics"
    BY <2>1 DEF FatalEnds
  <2>3. phase'[q] \in {"dying", "gone"}
    BY <2>2
  <2>4. ASSUME NEW j \in 1..Len(pipe'[q]), i < j PROVE pipe'[q][j].event = "metrics"
    <3>1. j + 1 \in 1..Len(pipe[q]) /\ i + 1 < j + 1 /\ pipe'[q][j] = pipe[q][j + 1]
      BY <1>1, <2>1, <2>4
    <3> QED  BY <2>2, <3>1
  <2> QED  BY <2>3, <2>4
<1>4. CASE pipe'[q] = <<>>
  BY <1>4
<1> QED  BY <1>2, <1>3, <1>4

LEMMA ProcKeeps == ProcInv /\ [Next]_procVars => ProcInv'
<1> SUFFICES ASSUME ProcInv, [Next]_procVars PROVE ProcInv'
  OBVIOUS
<1> USE DEF ProcInv
<1>1. ASSUME NEW p \in Proc, NEW from, NEW s \in Live \cup {"idle", "starting"},
             Says(p, from, s), "gone" \notin from, "dying" \notin from,
             fresh' = [fresh EXCEPT ![p] = FALSE] \/ UNCHANGED fresh
      PROVE  ProcInv'
  <2>1. /\ Emit(p, StateEvent(s)) /\ phase[p] \notin {"dying", "gone"} /\ UNCHANGED <<frames, open>>
        /\ phase' = [phase EXCEPT ![p] = s]
    BY <1>1 DEF Says
  <2>2. ProcTypes'
    BY <1>1, <2>1, Events, EmitFacts DEF ProcTypes, Phase
  <2>3. GoneLeavesNothing'
    BY <1>1, <2>1 DEF ProcTypes, GoneLeavesNothing, Live
  <2>4. FatalEnds'
    <3>1. \A q \in Proc \ {p} : phase'[q] = phase[q]
      BY <2>1 DEF ProcTypes
    <3>2. StateEvent(s) \in Event /\ StateEvent(s).event # "fatal"
      BY <1>1, Events
    <3> QED  BY <2>1, <3>1, <3>2, EmitEnds
  <2> QED  BY <2>2, <2>3, <2>4
<1>2. ASSUME NEW p \in Proc, Begin(p) \/ Open(p) \/ Enter(p) \/ Lose(p) \/ Capture(p)
      PROVE  ProcInv'
  BY <1>1, <1>2 DEF Begin, Open, Enter, Lose, Capture, Live
<1>3. ASSUME NEW p \in Proc, Probe(p) \/ Frame(p)
      PROVE  ProcInv'
  <2>1. ProcTypes'
    <3>1. CASE Probe(p)
      BY <3>1 DEF Probe, ProcTypes
    <3>2. CASE Frame(p)
      <4>1. frames' \in [Proc -> 0..MaxFrames]
        <5>1. (IF frames[p] < MaxFrames THEN frames[p] + 1 ELSE frames[p]) \in 0..MaxFrames
          BY ProcessAssumption DEF ProcTypes
        <5> QED  BY <3>2, <5>1 DEF Frame, ProcTypes
      <4> QED  BY <3>2, <4>1 DEF Frame, ProcTypes
    <3> QED  BY <1>3, <3>1, <3>2
  <2>2. GoneLeavesNothing'
    BY <1>3 DEF Probe, Frame, ProcTypes, GoneLeavesNothing, Live
  <2>3. FatalEnds'
    BY <1>3 DEF Probe, Frame, FatalEnds
  <2> QED  BY <2>1, <2>2, <2>3
<1>4. ASSUME NEW p \in Proc, Metrics(p)
      PROVE  ProcInv'
  <2>1. /\ MetricsEvent(frames[p]) \in Event /\ MetricsEvent(frames[p]).event = "metrics"
        /\ Emit(p, MetricsEvent(frames[p])) /\ UNCHANGED <<phase, fresh, frames, open>>
    BY <1>4, Events DEF Metrics, ProcTypes
  <2>2. ProcTypes' /\ GoneLeavesNothing'
    BY <2>1, EmitFacts DEF ProcTypes, GoneLeavesNothing
  <2>3. FatalEnds'
    BY <2>1, EmitEnds
  <2> QED  BY <2>2, <2>3
<1>5. ASSUME NEW p \in Proc, ControlSet(p) \/ Stopped(p)
      PROVE  ProcInv'
  <2>1. PICK e \in {StateEvent("publishing"), StateEvent("stopped")} : Emit(p, e)
    BY <1>5 DEF ControlSet, Stopped
  <2>2. /\ e \in Event /\ e.event # "fatal" /\ phase[p] \notin {"dying", "gone"}
        /\ phase' \in {phase, [phase EXCEPT ![p] = "dying"]} /\ UNCHANGED <<fresh, frames, open>>
    BY <1>5, Events DEF ControlSet, Stopped, Live
  <2>3. ProcTypes' /\ GoneLeavesNothing'
    BY <2>1, <2>2, EmitFacts DEF ProcTypes, GoneLeavesNothing, Phase
  <2>4. FatalEnds'
    <3>1. \A q \in Proc \ {p} : phase'[q] = phase[q]
      BY <2>2 DEF ProcTypes
    <3> QED  BY <2>1, <2>2, <3>1, EmitEnds
  <2> QED  BY <2>3, <2>4
<1>6. ASSUME NEW p \in Proc, NEW c \in Codes, Fail(p, c)
      PROVE  ProcInv'
  <2>1. /\ FatalEvent(c) \in Event /\ Emit(p, FatalEvent(c)) /\ phase[p] \notin {"dying", "gone"}
        /\ phase' = [phase EXCEPT ![p] = "dying"] /\ UNCHANGED <<fresh, frames, open>>
    BY <1>6, Events DEF Fail, Live
  <2>2. ProcTypes' /\ GoneLeavesNothing'
    BY <2>1, EmitFacts DEF ProcTypes, GoneLeavesNothing, Phase
  <2>3. FatalEnds'
    <3>1. phase'[p] = "dying" /\ \A q \in Proc \ {p} : phase'[q] = phase[q]
      BY <2>1 DEF ProcTypes
    <3> QED  BY <2>1, <3>1, EmitEnds
  <2> QED  BY <2>2, <2>3
<1>7. ASSUME NEW p \in Proc, Gone(p) \/ Take(p) \/ Close(p)
      PROVE  ProcInv'
  <2>1. pipe' \in [Proc -> Seq(Event)] /\ phase' \in [Proc -> Phase]
    <3>1. pipe[p] \in Seq(Event) /\ (pipe[p] # <<>> => Tail(pipe[p]) \in Seq(Event))
      BY DEF ProcTypes
    <3>2. CASE Gone(p)
      BY <3>2 DEF Gone, ProcTypes, Phase
    <3>3. CASE Take(p)
      BY <3>1, <3>3 DEF Take, ProcTypes
    <3>4. CASE Close(p)
      BY <3>4 DEF Close, ProcTypes
    <3> QED  BY <1>7, <3>2, <3>3, <3>4
  <2>2. ProcTypes' /\ GoneLeavesNothing'
    <3>1. CASE Gone(p)
      BY <2>1, <3>1, ProcessAssumption DEF Gone, ProcTypes, GoneLeavesNothing
    <3>2. CASE Take(p) \/ Close(p)
      BY <2>1, <3>2 DEF Take, Close, ProcTypes, GoneLeavesNothing
    <3> QED  BY <1>7, <3>1, <3>2
  <2>3. \A q \in Proc : /\ phase'[q] \in {phase[q], "gone"}
                       /\ \/ pipe'[q] \in {pipe[q], <<>>}
                          \/ pipe[q] # <<>> /\ pipe'[q] = Tail(pipe[q])
    BY <1>7 DEF Gone, Take, Close, ProcTypes
  <2>4. FatalEnds'
    BY <2>1, <2>3, ShorterEnds
  <2> QED  BY <2>2, <2>4
<1>8. ASSUME NEW jobbed \in SUBSET Proc, NEW cut \in SUBSET Proc, AgentDies(jobbed, cut)
      PROVE  ProcInv'
  <2>1. pipe' \in [Proc -> Seq(Event)]
    BY <1>8 DEF AgentDies, ProcTypes
  <2>2. ProcTypes' /\ GoneLeavesNothing'
    <3>1. phase' \in [Proc -> Phase] /\ fresh' \in [Proc -> BOOLEAN]
      BY <1>8 DEF AgentDies, Killed, ProcTypes, Phase
    <3>2. frames' \in [Proc -> 0..MaxFrames] /\ open' \in [Proc -> BOOLEAN]
      BY <1>8, ProcessAssumption DEF AgentDies, Killed, ProcTypes
    <3>3. GoneLeavesNothing'
      BY <1>8 DEF AgentDies, Killed, GoneLeavesNothing
    <3> QED  BY <2>1, <3>1, <3>2, <3>3 DEF ProcTypes
  <2>3. FatalEnds'
    <3>1. \A q \in Proc : phase'[q] \in {phase[q], "gone"} /\ pipe'[q] \in {pipe[q], <<>>}
      BY <1>8 DEF AgentDies, Killed
    <3> QED  BY <2>1, <3>1, ShorterEnds
  <2> QED  BY <2>2, <2>3
<1>9. CASE UNCHANGED procVars
  BY <1>9 DEF procVars, ProcTypes, GoneLeavesNothing, FatalEnds
<1> QED
  BY <1>2, <1>3, <1>4, <1>5, <1>6, <1>7, <1>8, <1>9 DEF Next, Step

\* Of every process that keeps to PublisherProcess: a fatal event is its end (FatalEnds).
THEOREM FatalIsTheEnd == Spec => []FatalEnds
<1>1. ProcInv => FatalEnds
  BY DEF ProcInv
<1> QED  BY <1>1, ProcInit, ProcKeeps, PTL DEF Spec

-----------------------------------------------------------------------------
(* The supervisor asks of its processes only what PublisherProcess allows.     *)

\* TerminateProcess is the end of a process, or finds it gone.
LEMMA KillRefined ==
  ASSUME ProcInv, NEW p \in Proc, Killed({p}), UNCHANGED <<pipe, open>>
  PROVE  [Next]_procVars
<1> USE DEF ProcInv, ProcTypes
<1>1. CASE phase[p] = "gone"
  <2>1. phase' = phase /\ fresh' = fresh /\ frames' = frames
    BY <1>1 DEF Killed, GoneLeavesNothing
  <2> QED  BY <2>1 DEF procVars
<1>2. CASE phase[p] # "gone"
  <2>1. Gone(p)
    BY <1>2 DEF Killed, Gone
  <2> QED  BY <2>1 DEF Next, Step
<1> QED  BY <1>1, <1>2

LEMMA StopRefined ==
  ASSUME SupTypeOK, ProcInv, StopActive PROVE [Next]_procVars
BY KillRefined DEF StopActive, SupTypeOK

\* What the jobs hold was spawned, so the guard of AgentDies keeps no crash from happening.
LEMMA CrashRefined ==
  ASSUME SupTypeOK, StrikesCounted, Crash PROVE Next
<1> DEFINE jobbed == (IF active = 0 THEN {} ELSE {active})
                       \cup (IF super = "connect" THEN {target} ELSE {})
           cut == {p \in Proc : Spawned(p)}
<1>1. jobbed \subseteq cut
  BY SupervisorAssumption DEF SupTypeOK, StrikesCounted, Spawned, None
<1>2. AgentDies(jobbed, cut)
  BY DEF Crash
<1> QED  BY <1>1, <1>2 DEF Next

LEMMA ProcessesObey == SupTypeOK /\ StrikesCounted /\ ProcInv /\ [SupNext]_vars => [Next]_procVars
<1> SUFFICES ASSUME SupTypeOK, StrikesCounted, ProcInv, [SupNext]_vars PROVE [Next]_procVars
  OBVIOUS
<1>1. ASSUME NEW p \in Proc, ProcStep(p) PROVE [Next]_procVars
  BY <1>1 DEF ProcStep, Next, Step
<1>2. ASSUME NEW p \in Proc, ReaderStep(p) PROVE [Next]_procVars
  BY <1>2 DEF ReaderStep, ReadState, ReadFatal, ReadEvent, ShowFatal, ReportFatal, ReaderEnds, Next
<1>3. CASE Top \/ Watch \/ HandleError \/ HandleNothing \/ HandleBlocked \/ HandleNew
  BY <1>3, StopRefined DEF Top, Watch, HandleError, HandleNothing, HandleBlocked, HandleNew
<1>4. CASE Answer \/ HandleExited \/ HandleSame \/ (\E p \in Proc : Spawn(p)) \/ Contain \/ Write
  BY <1>4 DEF Answer, HandleExited, HandleSame, Spawn, Contain, Write
<1>5. CASE StartFails
  BY <1>5, KillRefined DEF StartFails, SupTypeOK
<1>6. CASE Environment
  BY <1>6 DEF Environment, Request, Withdraw, Outage, Back, Block, Unblock
<1>7. CASE Crash
  BY <1>7, CrashRefined
<1>8. CASE UNCHANGED vars
  BY <1>8 DEF vars
<1> QED  BY <1>1, <1>2, <1>3, <1>4, <1>5, <1>6, <1>7, <1>8 DEF SupNext, Supervisor

LEMMA ProcInvariance == SupSpec => [](SupInv /\ ProcInv)
<1>1. SupInit => SupInv /\ ProcInv
  BY InitInv, ProcInit DEF SupInit
<1>2. SupInv /\ ProcInv /\ [SupNext]_vars => SupInv' /\ ProcInv'
  BY TypeStep, OwnsStep, StrikesStep, OverdueStep, ProcessesObey, ProcKeeps DEF SupInv
<1> QED  BY <1>1, <1>2, PTL DEF SupSpec

\* Whatever the supervisor starts, kills and leaves behind, and even when the agent dies in
\* the middle of it, its processes keep to PublisherProcess, which MediaPublisher implements:
\* what holds of that specification holds of them.
THEOREM ProcessesKeepTheirWord == SupSpec => Spec
<1>1. SupInit => Init
  BY DEF SupInit
<1>2. SupInv /\ ProcInv /\ [SupNext]_vars => [Next]_procVars
  BY ProcessesObey DEF SupInv
<1> QED  BY <1>1, <1>2, ProcInvariance, PTL DEF SupSpec, Spec

-----------------------------------------------------------------------------
(* The rest of the ranges: the status, the block and what the readers say.     *)

StatusTypes ==
  /\ terminal \in [Proc -> BOOLEAN] /\ current \in Session \cup {None} /\ lit \in BOOLEAN
  /\ block \in {"none", "paused", "policy"} /\ pollBlock \in BOOLEAN /\ faults \in 0..MaxFaults

LEMMA StatusStep == SupInv /\ StatusTypes /\ [SupNext]_vars => StatusTypes'
<1> SUFFICES ASSUME SupInv, StatusTypes, [SupNext]_vars PROVE StatusTypes'
  OBVIOUS
<1> USE DEF StatusTypes, pollVars, statusVars, readerVars, Done, ClearStatus
<1>1. ASSUME NEW p \in Proc, ProcStep(p) PROVE StatusTypes'
  BY <1>1 DEF ProcStep
<1>2. ASSUME NEW p \in Proc, ReaderStep(p) PROVE StatusTypes'
  <2>1. UNCHANGED <<block, pollBlock, faults>>
    BY <1>2 DEF ReaderStep, ReadState, ReadFatal, ReadEvent, ShowFatal, ReportFatal, ReaderEnds
  <2>2. terminal' \in {terminal, [terminal EXCEPT ![p] = TRUE]}
    BY <1>2 DEF ReaderStep, ReadState, ReadFatal, ShowFatal, ReportFatal, ReaderEnds
  <2>3. current' \in {current, None} /\ lit' \in BOOLEAN
    <3>1. CASE ReadState(p)
      <4>1. UNCHANGED current
        BY <3>1, Zenon DEF ReadState, ReadEvent
      <4>2. lit' \in {lit, Head(pipe[p]).state \in Indicated}
        BY <3>1, Zenon DEF ReadState
      <4>3. (Head(pipe[p]).state \in Indicated) \in BOOLEAN
        OBVIOUS
      <4> HIDE DEF StatusTypes
      <4>4. lit \in BOOLEAN
        BY DEF StatusTypes
      <4> QED  BY <4>1, <4>2, <4>3, <4>4, Zenon
    <3>2. CASE ReadFatal(p)
      BY <3>2, Zenon DEF ReadFatal, ReadEvent
    <3>3. CASE ShowFatal(p)
      BY <3>3 DEF ShowFatal
    <3>4. CASE ReportFatal(p) \/ ReaderEnds(p)
      BY <3>4 DEF ReportFatal, ReaderEnds
    <3> QED  BY <1>2, <3>1, <3>2, <3>3, <3>4 DEF ReaderStep
  <2> QED  BY <2>1, <2>2, <2>3
<1>3. CASE Top \/ Watch \/ HandleError \/ HandleNothing \/ HandleBlocked \/ HandleNew
  BY <1>3 DEF Top, Watch, HandleError, HandleNothing, HandleBlocked, HandleNew, StopActive
<1>4. CASE Answer \/ HandleExited \/ HandleSame \/ (\E p \in Proc : Spawn(p)) \/ Contain
  BY <1>4 DEF Answer, HandleExited, HandleSame, Spawn, Contain
<1>5. CASE Write \/ StartFails
  BY <1>5 DEF Write, StartFails, SupInv, StrikesCounted
<1>6. CASE Environment
  BY <1>6, SupervisorAssumption DEF Environment, Request, Withdraw, Outage, Back, Block, Unblock, Faulty
<1>7. CASE Crash
  <2>1. faults' \in 0..MaxFaults /\ block' = block /\ ~pollBlock' /\ current' = None /\ ~lit'
    BY <1>7, SupervisorAssumption DEF Crash, Faulty
  <2>2. pollBlock' = FALSE /\ lit' = FALSE /\ terminal' = [p \in Proc |-> FALSE]
    BY <1>7 DEF Crash
  <2> QED  BY <2>1, <2>2
<1>8. CASE UNCHANGED vars
  BY <1>8 DEF vars
<1> QED  BY <1>1, <1>2, <1>3, <1>4, <1>5, <1>6, <1>7, <1>8 DEF SupNext, Supervisor

LEMMA StatusInvariance == SupSpec => [](SupInv /\ ProcInv /\ StatusTypes)
<1>0. 0 \in 0..MaxFaults
  BY SupervisorAssumption
<1>1. SupInit => StatusTypes
  BY <1>0, Zenon DEF SupInit, StatusTypes
<1> QED  BY <1>1, StatusStep, ProcInvariance, PTL DEF SupSpec

\* Everything keeps its type: the supervisor (SupTypeOK), its processes (ProcTypes), the
\* status it shows and its readers (StatusTypes).
THEOREM Typed == SupSpec => [](SupTypeOK /\ ProcTypes /\ StatusTypes)
<1>1. SupInv /\ ProcInv /\ StatusTypes => SupTypeOK /\ ProcTypes /\ StatusTypes
  BY DEF SupInv, ProcInv
<1> QED  BY <1>1, StatusInvariance, PTL

-----------------------------------------------------------------------------
(* What the reader has heard. *)

\* A publisher whose terminal failure a reader is about to report, or has reported, does not
\* capture any more.
ReportedIsDead ==
  \A p \in Proc : terminal[p] \/ reader[p] \in {"fatal", "report"} => phase[p] \in {"dying", "gone"}

LEMMA DeadStays ==
  ASSUME SupTypeOK, StatusTypes, ReportedIsDead,
         \A p \in Proc : phase[p] \in {"dying", "gone"} => phase'[p] \in {"dying", "gone"},
         \A p \in Proc : /\ terminal'[p] => terminal[p]
                         /\ reader'[p] \in {"fatal", "report"} =>
                              terminal[p] \/ reader[p] \in {"fatal", "report"}
  PROVE  ReportedIsDead'
BY DEF ReportedIsDead

LEMMA HeardStep ==
  SupInv /\ ProcInv /\ StatusTypes /\ ReportedIsDead /\ [SupNext]_vars => ReportedIsDead'
<1> SUFFICES ASSUME SupInv, ProcInv, StatusTypes, ReportedIsDead, [SupNext]_vars PROVE ReportedIsDead'
  OBVIOUS
<1> USE DEF SupInv, SupTypeOK, readerVars, procVars
<1>1. ASSUME UNCHANGED readerVars,
             \A p \in Proc : phase[p] \in {"dying", "gone"} => phase'[p] \in {"dying", "gone"}
      PROVE  ReportedIsDead'
  BY <1>1, DeadStays
<1>2. ASSUME NEW p \in Proc, ProcStep(p) PROVE ReportedIsDead'
  BY <1>1, <1>2, ProcFacts DEF ProcStep, Live
<1>3. ASSUME NEW p \in Proc, ReadFatal(p) PROVE ReportedIsDead'
  <2>1. /\ pipe[p] # <<>> /\ Head(pipe[p]).event = "fatal" /\ phase' = phase
        /\ reader' \in {[reader EXCEPT ![p] = "end"], [reader EXCEPT ![p] = "fatal"]}
        /\ terminal' \in {terminal, [terminal EXCEPT ![p] = TRUE]}
    <3>1. ReadEvent(p, "fatal")
      BY <1>3, Zenon DEF ReadFatal
    <3>2. /\ reader' \in {[reader EXCEPT ![p] = "end"], [reader EXCEPT ![p] = "fatal"]}
          /\ terminal' \in {terminal, [terminal EXCEPT ![p] = TRUE]}
      BY <1>3 DEF ReadFatal
    <3> QED  BY <3>1, <3>2 DEF ReadEvent, Take
  <2>2. pipe[p] \in Seq(Event) /\ 1 \in 1..Len(pipe[p]) /\ pipe[p][1].event = "fatal"
    BY <2>1 DEF ProcInv, ProcTypes
  <2>3. phase[p] \in {"dying", "gone"}
    BY <2>2 DEF ProcInv, FatalEnds
  <2> QED  BY <2>1, <2>3 DEF ReportedIsDead, StatusTypes
<1>4. ASSUME NEW p \in Proc, ReadState(p) \/ ShowFatal(p) \/ ReportFatal(p) \/ ReaderEnds(p)
      PROVE  ReportedIsDead'
  <2>1. phase' = phase /\ terminal' = terminal
    BY <1>4 DEF ReadState, ReadEvent, Take, ShowFatal, ReportFatal, ReaderEnds
  <2>2. \A q \in Proc : reader'[q] \in {"fatal", "report"} => reader[q] \in {"fatal", "report"}
    BY <1>4 DEF ReadState, ReadEvent, ShowFatal, ReportFatal, ReaderEnds
  <2> QED  BY <2>1, <2>2, DeadStays
<1>5. CASE Top \/ Watch \/ HandleError \/ HandleNothing \/ HandleBlocked \/ HandleNew
  BY <1>1, <1>5, StopFacts DEF Top, Watch, HandleError, HandleNothing, HandleBlocked, HandleNew
<1>6. CASE Answer \/ HandleExited \/ HandleSame \/ (\E p \in Proc : Spawn(p)) \/ Contain
  BY <1>1, <1>6 DEF Answer, HandleExited, HandleSame, Spawn, Contain
<1>7. CASE Write
  <2>1. \A q \in Proc : reader'[q] \in {"fatal", "report"} => reader[q] \in {"fatal", "report"}
    BY <1>7 DEF Write
  <2> QED  BY <1>7, <2>1, DeadStays DEF Write
<1>8. CASE StartFails
  BY <1>1, <1>8 DEF StartFails, Killed
<1>9. CASE Environment
  BY <1>1, <1>9 DEF Environment, Request, Withdraw, Outage, Back, Block, Unblock
<1>10. CASE Crash
  BY <1>10 DEF Crash, ReportedIsDead
<1>11. CASE UNCHANGED vars
  BY <1>1, <1>11 DEF vars
<1> QED
  BY <1>2, <1>3, <1>4, <1>5, <1>6, <1>7, <1>8, <1>9, <1>10, <1>11
     DEF SupNext, Supervisor, ReaderStep

\* A session is failed for what its publisher said only when that publisher has stopped for
\* good: the reader heard it in a fatal event, which is the last of its words
\* (ReportedIsDead).
THEOREM ReportedIsOver == SupSpec => []ReportedIsDead
<1>1. SupInit => ReportedIsDead
  BY DEF SupInit, ReportedIsDead
<1> QED  BY <1>1, HeardStep, StatusInvariance, PTL DEF SupSpec

=============================================================================
