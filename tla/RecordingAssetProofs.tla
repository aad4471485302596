------------------------ MODULE RecordingAssetProofs ------------------------
(***************************************************************************)
(* Theorems about RecordingAsset, for any number of reports, teardowns and  *)
(* egress jobs.                                                              *)
(*                                                                           *)
(* What makes the file of a ready recording safe, and a deleted row final,   *)
(* is that the thirty days of a row are over only when nothing can reopen    *)
(* it: its session is over, no "live" report is in progress and the row is    *)
(* settled (DueIsSettled).  From there every reader that decided earlier      *)
(* finds its update refused, and the sweep deletes only such rows.            *)
(***************************************************************************)
EXTENDS RecordingAsset, TLAPS

-----------------------------------------------------------------------------
(***************************************************************************)
(* The strengthening                                                        *)
(***************************************************************************)

DueIsSettled ==
  retention = "due" => /\ session = "over"
                       /\ \A h \in Starter : startStep[h] = "idle"
                       /\ status \in {"ready", "failed", "deleted"}

DeletedIsDue == status = "deleted" => retention = "due"

\* The sweep holds a row it read as due.
SweepHoldsDue == checkStep["sweep"] \in {"delete", "mark"} => retention = "due"

\* A verification that found the object is still right when its row is updated.
FoundStays == \A c \in Checker : checkStep[c] = "ready" /\ retention # "due" => object # "none"

Inv == DueIsSettled /\ DeletedIsDue /\ SweepHoldsDue /\ FoundStays /\ ReadyHasObject

-----------------------------------------------------------------------------
(***************************************************************************)
(* Types                                                                    *)
(***************************************************************************)

\* The statements keep the types of the columns they write.
ColumnsOK == /\ status \in Status
             /\ provider \in Job \cup {NoJob}
             /\ endedAge \in {NotEnded} \cup 0..FinalizeDeadline
             /\ retention \in {"none", "running", "due"}
             /\ status \in {"ready", "failed", "deleted"} => retention # "none"

LEMMA StatementsTyped ==
  ASSUME ColumnsOK,
         \/ \E j \in Job \cup {NoJob} : StartRecordingAsset(j)
         \/ \E age \in {NotEnded} \cup 0..FinalizeDeadline : ProcessRecordingAsset(age)
         \/ ReadyRecordingAsset
         \/ FailRecordingAsset
         \/ MarkRecordingAssetDeleted
         \/ UNCHANGED rowVars
  PROVE  ColumnsOK'
<1> USE DeadlineAssumption DEF ColumnsOK, rowVars, Status, NotEnded, Unfinished
<1>1. ASSUME NEW j \in Job \cup {NoJob}, StartRecordingAsset(j) PROVE ColumnsOK'
  BY <1>1 DEF StartRecordingAsset
<1>2. ASSUME NEW age \in {NotEnded} \cup 0..FinalizeDeadline, ProcessRecordingAsset(age) PROVE ColumnsOK'
  BY <1>2 DEF ProcessRecordingAsset
<1>3. CASE ReadyRecordingAsset
  BY <1>3 DEF ReadyRecordingAsset, RetentionFromEnd
<1>4. CASE FailRecordingAsset
  BY <1>4 DEF FailRecordingAsset, RetentionFromEnd
<1>5. CASE MarkRecordingAssetDeleted
  BY <1>5 DEF MarkRecordingAssetDeleted
<1>6. CASE UNCHANGED rowVars
  BY <1>6
<1> QED BY <1>1, <1>2, <1>3, <1>4, <1>5, <1>6

\* The rest of the state, which the statements leave alone.
ProcessesOK == /\ session \in {"open", "over"}
               /\ sessionAge \in 0..FinalizeDeadline
               /\ running \subseteq used /\ uploaded \subseteq used /\ used \subseteq Job
               /\ object \in Object
               /\ startStep \in [Starter -> StartStep]
               /\ startJob \in [Starter -> Job \cup {NoJob}]
               /\ endStep \in [Finalizer -> EndStep]
               /\ endJob \in [Finalizer -> Job \cup {NoJob}]
               /\ checkStep \in [Checker -> CheckStep]
               /\ checkJob \in Job \cup {NoJob}
               /\ endAge \in [Finalizer -> 0..FinalizeDeadline]
               /\ checkAge \in [Checker -> {NotEnded} \cup 0..FinalizeDeadline]

LEMMA TypeParts == TypeOK <=> ColumnsOK /\ ProcessesOK
  BY Zenon DEF TypeOK, ColumnsOK, ProcessesOK

LEMMA InitTyped == Init => TypeOK
<1>1. Init => ColumnsOK
  BY DEF Init, ColumnsOK, Status
<1>2. Init => object \in Object
  BY DEF Init, Object
<1>3. ASSUME Init
      PROVE  /\ startStep \in [Starter -> StartStep] /\ startJob \in [Starter -> Job \cup {NoJob}]
             /\ endStep \in [Finalizer -> EndStep] /\ endJob \in [Finalizer -> Job \cup {NoJob}]
             /\ checkStep \in [Checker -> CheckStep] /\ checkJob \in Job \cup {NoJob}
             /\ endAge \in [Finalizer -> 0..FinalizeDeadline]
             /\ checkAge \in [Checker -> {NotEnded} \cup 0..FinalizeDeadline]
  BY <1>3, DeadlineAssumption DEF Init, StartStep, EndStep, CheckStep
<1>4. ASSUME Init
      PROVE  /\ session \in {"open", "over"} /\ sessionAge \in 0..FinalizeDeadline
             /\ running \subseteq used /\ uploaded \subseteq used /\ used \subseteq Job
  BY <1>4, DeadlineAssumption DEF Init
<1>5. Init => ProcessesOK
  BY Zenon, <1>2, <1>3, <1>4 DEF ProcessesOK
<1> QED BY <1>1, <1>5, TypeParts

LEMMA TypeStep == TypeOK /\ [Next]_vars => TypeOK'
<1> SUFFICES ASSUME ColumnsOK, ProcessesOK, [Next]_vars PROVE ColumnsOK' /\ ProcessesOK'
  BY Zenon DEF TypeOK, ColumnsOK, ProcessesOK
<1> USE JobAssumption, DeadlineAssumption
        DEF sessionVars, jobVars, startVars, endVars, checkVars
<1>a. UNCHANGED rowVars => ColumnsOK'
  BY StatementsTyped
<1>b. UNCHANGED <<sessionVars, jobVars, startVars, endVars, checkVars>> => ProcessesOK'
  BY DEF ProcessesOK
<1>1. CASE UNCHANGED vars
  BY <1>1, <1>a, <1>b DEF vars
<1>2. CASE Starting
  <2> USE DEF ProcessesOK, StartTo, StartStep, EndSession
  <2>1. ASSUME NEW h \in Starter, CreateRecordingAsset(h) PROVE ColumnsOK' /\ ProcessesOK'
    BY <2>1 DEF CreateRecordingAsset, ColumnsOK, Status
  <2>2. ASSUME NEW h \in Starter, StartRecording(h) PROVE ColumnsOK' /\ ProcessesOK'
    BY <2>2, <1>a DEF StartRecording
  <2>3. ASSUME NEW h \in Starter, RecordJob(h) PROVE ColumnsOK' /\ ProcessesOK'
    <3>1. ProcessesOK'
      BY <2>3 DEF RecordJob
    <3>2. startJob[h] \in Job \cup {NoJob}
      BY DEF ProcessesOK
    <3>3. ColumnsOK'
      BY <2>3, <3>2, StatementsTyped DEF RecordJob
    <3> QED BY <3>1, <3>3
  <2>4. ASSUME NEW h \in Starter, FailAsset(h) PROVE ColumnsOK' /\ ProcessesOK'
    <3>1. ProcessesOK'
      BY <2>4 DEF FailAsset
    <3> QED BY <2>4, <3>1, StatementsTyped DEF FailAsset
  <2>5. ASSUME NEW h \in Starter, FailSession(h) PROVE ColumnsOK' /\ ProcessesOK'
    BY <2>5, <1>a DEF FailSession
  <2> QED BY <1>2, <2>1, <2>2, <2>3, <2>4, <2>5 DEF Starting
<1>3. CASE Ending
  <2> USE DEF ProcessesOK, EndTo, EndStep, EndSession, TearDown
  <2>7. ASSUME NEW f \in Finalizer, OpenRead(f) PROVE ColumnsOK' /\ ProcessesOK'
    BY <2>7, <1>a DEF OpenRead
  <2>1. ASSUME NEW f \in Finalizer, LookupFirst(f) PROVE ColumnsOK' /\ ProcessesOK'
    BY <2>1, <1>a DEF LookupFirst, ColumnsOK
  <2>2. ASSUME NEW f \in Finalizer, Advance(f) PROVE ColumnsOK' /\ ProcessesOK'
    BY <2>2, <1>a DEF Advance
  <2>3. ASSUME NEW f \in Finalizer, EndFirst(f) PROVE ColumnsOK' /\ ProcessesOK'
    BY <2>3, <1>a DEF EndFirst
  <2>4. ASSUME NEW f \in Finalizer, Lookup(f) PROVE ColumnsOK' /\ ProcessesOK'
    BY <2>4, <1>a DEF Lookup, ColumnsOK
  <2>5. ASSUME NEW f \in Finalizer, StopJob(f) PROVE ColumnsOK' /\ ProcessesOK'
    BY <2>5, <1>a DEF StopJob
  <2>6. ASSUME NEW f \in Finalizer, Process(f) PROVE ColumnsOK' /\ ProcessesOK'
    <3>1. ProcessesOK'
      BY <2>6 DEF Process
    <3>2. endAge[f] \in 0..FinalizeDeadline
      OBVIOUS
    <3> QED BY <2>6, <3>1, <3>2, StatementsTyped DEF Process
  <2> QED BY <1>3, <2>1, <2>2, <2>3, <2>4, <2>5, <2>6, <2>7 DEF Ending
<1>4. CASE Sweeping
  <2> USE DEF ProcessesOK, CheckTo, CheckWith, Finished, CheckStep
  <2>0. "sweep" \in Checker
    BY DEF Checker
  <2>1. CASE Recover
    BY <2>1, <2>0, <1>a DEF Recover, CandidateAge, ColumnsOK
  <2>2. CASE RecoverStop
    BY <2>2, <2>0, <1>a DEF RecoverStop
  <2>3. CASE RecoverProcess
    <3>1. ProcessesOK'
      BY <2>3, <2>0 DEF RecoverProcess
    <3>2. checkAge["sweep"] \in {NotEnded} \cup 0..FinalizeDeadline
      BY <2>0
    <3> QED BY <2>3, <3>1, <3>2, StatementsTyped DEF RecoverProcess
  <2>4. CASE DueForDeletion
    BY <2>4, <2>0, <1>a DEF DueForDeletion
  <2>5. CASE DeleteAsset
    BY <2>5, <2>0, <1>a DEF DeleteAsset, Object
  <2>6. CASE MarkDeleted
    <3>1. ProcessesOK'
      BY <2>6, <2>0 DEF MarkDeleted
    <3> QED BY <2>6, <3>1, StatementsTyped DEF MarkDeleted
  <2> QED BY <1>4, <2>1, <2>2, <2>3, <2>4, <2>5, <2>6 DEF Sweeping
<1>5. CASE Checking
  <2> USE DEF ProcessesOK, CheckTo, CheckWith, Finished, CheckStep
  <2>0. "list" \in Checker /\ "playback" \in Checker
    BY DEF Checker
  <2>1. CASE ListRead
    BY <2>1, <2>0, <1>a DEF ListRead, ColumnsOK
  <2>2. CASE PlaybackRead
    BY <2>2, <2>0, <1>a DEF PlaybackRead
  <2>3. ASSUME NEW c \in Checker, VerifyAsset(c) PROVE ColumnsOK' /\ ProcessesOK'
    BY <2>3, <1>a DEF VerifyAsset
  <2>4. ASSUME NEW c \in Checker, Settle(c) PROVE ColumnsOK' /\ ProcessesOK'
    <3>1. ProcessesOK'
      BY <2>4 DEF Settle
    <3> QED BY <2>4, <3>1, StatementsTyped DEF Settle
  <2> QED BY <1>5, <2>1, <2>2, <2>3, <2>4 DEF Checking
<1>6. CASE Outside
  <2> USE DEF ProcessesOK
  <2>1. ASSUME NEW j \in Job, JobEnds(j) \/ Upload(j) PROVE ColumnsOK' /\ ProcessesOK'
    BY <2>1, <1>a DEF JobEnds, Upload, Object
  <2>2. CASE Restart
    BY <2>2, <1>a DEF Restart, StartStep, EndStep, CheckStep, NotEnded
  <2>3. CASE Tick
    BY <2>3 DEF Tick, Older, ColumnsOK, NotEnded
  <2>4. CASE RetentionPasses
    BY <2>4 DEF RetentionPasses, ColumnsOK
  <2> QED BY <1>6, <2>1, <2>2, <2>3, <2>4 DEF Outside
<1> QED BY <1>1, <1>2, <1>3, <1>4, <1>5, <1>6 DEF Next

\* Every reachable state of the row, the jobs and the processes around them is one the
\* code and the schema allow; a settled row has its retention deadline.
THEOREM Typed == Spec => []TypeOK
  BY InitTyped, TypeStep, PTL DEF Spec

-----------------------------------------------------------------------------
(***************************************************************************)
(* The invariant                                                            *)
(***************************************************************************)

LEMMA InitInv == Init => Inv
  BY DEF Init, Inv, DueIsSettled, DeletedIsDue, SweepHoldsDue, FoundStays, ReadyHasObject, Checker

\* What a step does with a row that is due or deleted, with its file, and the invariant.
StepOK == /\ Inv'
          /\ status = "deleted" => status' = "deleted"
          /\ object # "none" /\ object' = "none" => retention = "due" /\ retention' = "due"

LEMMA InvStep ==
  ASSUME TypeOK, Inv, [Next]_vars
  PROVE  StepOK
<1> USE DEF Inv, DueIsSettled, SweepHoldsDue, FoundStays, StepOK
<1>0. /\ "sweep" \in Checker /\ "list" \in Checker /\ "playback" \in Checker
      /\ \A c \in Checker : c \in {"sweep", "list", "playback"}
      /\ startStep \in [Starter -> StartStep]
      /\ checkStep \in [Checker -> CheckStep]
  BY DEF Checker, TypeOK
<1>1. CASE UNCHANGED vars
  BY <1>1 DEF vars, rowVars, sessionVars, jobVars, startVars, checkVars, ReadyHasObject,
              DeletedIsDue
<1>2. CASE Starting
  <2> USE DEF StartTo, jobVars, checkVars, rowVars, sessionVars, EndSession
  <2>1. ASSUME NEW h \in Starter, CreateRecordingAsset(h) PROVE StepOK
    BY <2>1, <1>0 DEF CreateRecordingAsset, ReadyHasObject, DeletedIsDue
  <2>2. ASSUME NEW h \in Starter, StartRecording(h) PROVE StepOK
    BY <2>2, <1>0 DEF StartRecording, ReadyHasObject, DeletedIsDue
  <2>3. ASSUME NEW h \in Starter, RecordJob(h) PROVE StepOK
    BY <2>3, <1>0 DEF RecordJob, StartRecordingAsset, ReadyHasObject, DeletedIsDue
  <2>4. ASSUME NEW h \in Starter, FailAsset(h) PROVE StepOK
    BY <2>4, <1>0 DEF FailAsset, FailRecordingAsset, RetentionFromEnd, ReadyHasObject,
                      DeletedIsDue
  <2>5. ASSUME NEW h \in Starter, FailSession(h) PROVE StepOK
    BY <2>5, <1>0 DEF FailSession, ReadyHasObject, DeletedIsDue
  <2> QED BY <1>2, <2>1, <2>2, <2>3, <2>4, <2>5 DEF Starting
<1>3. CASE Ending
  <2> USE DEF jobVars, checkVars, rowVars, sessionVars, startVars, EndSession
  <2>1. ASSUME NEW f \in Finalizer, OpenRead(f) \/ LookupFirst(f) \/ Advance(f) \/ EndFirst(f) \/ Lookup(f)
                                      \/ StopJob(f)
        PROVE  StepOK
    BY <2>1 DEF OpenRead, LookupFirst, Advance, EndFirst, Lookup, StopJob, ReadyHasObject, DeletedIsDue
  <2>2. ASSUME NEW f \in Finalizer, Process(f) PROVE StepOK
    BY <2>2 DEF Process, ProcessRecordingAsset, Unfinished, ReadyHasObject, DeletedIsDue
  <2> QED BY <1>3, <2>1, <2>2 DEF Ending
<1>4. CASE Sweeping
  <2> USE DEF CheckTo, CheckWith, Finished, jobVars, rowVars, sessionVars, startVars
  <2>1. CASE Recover \/ RecoverStop \/ DueForDeletion
    BY <2>1, <1>0 DEF Recover, RecoverStop, DueForDeletion, ReadyHasObject, DeletedIsDue
  <2>2. CASE RecoverProcess
    BY <2>2, <1>0 DEF RecoverProcess, ProcessRecordingAsset, Unfinished, ReadyHasObject,
                      DeletedIsDue
  <2>3. CASE DeleteAsset
    BY <2>3, <1>0 DEF DeleteAsset, ReadyHasObject, DeletedIsDue
  <2>4. CASE MarkDeleted
    BY <2>4, <1>0 DEF MarkDeleted, MarkRecordingAssetDeleted, ReadyHasObject, DeletedIsDue
  <2> QED BY <1>4, <2>1, <2>2, <2>3, <2>4 DEF Sweeping
<1>5. CASE Checking
  <2> USE DEF CheckTo, CheckWith, Finished, jobVars, rowVars, sessionVars, startVars
  <2>1. CASE ListRead \/ PlaybackRead
    BY <2>1, <1>0 DEF ListRead, PlaybackRead, ReadyHasObject, DeletedIsDue
  <2>2. ASSUME NEW c \in Checker, VerifyAsset(c) PROVE StepOK
    BY <2>2, <1>0 DEF VerifyAsset, Accepts, ReadyHasObject, DeletedIsDue
  <2>3. ASSUME NEW c \in Checker, Settle(c) PROVE StepOK
    BY <2>3, <1>0 DEF Settle, ReadyRecordingAsset, FailRecordingAsset, RetentionFromEnd,
                      Unfinished, ReadyHasObject, DeletedIsDue
  <2> QED BY <1>5, <2>1, <2>2, <2>3 DEF Checking
<1>6. CASE Outside
  <2> USE DEF jobVars, checkVars, rowVars, sessionVars, startVars
  <2>1. ASSUME NEW j \in Job, JobEnds(j) \/ Upload(j) PROVE StepOK
    BY <2>1 DEF JobEnds, Upload, ReadyHasObject, DeletedIsDue
  <2>2. CASE Restart
    BY <2>2, <1>0 DEF Restart, ReadyHasObject, DeletedIsDue
  <2>3. CASE Tick
    BY <2>3 DEF Tick, ReadyHasObject, DeletedIsDue
  <2>4. CASE RetentionPasses
    BY <2>4 DEF RetentionPasses, ReadyHasObject, DeletedIsDue
  <2> QED BY <1>6, <2>1, <2>2, <2>3, <2>4 DEF Outside
<1> QED BY <1>1, <1>2, <1>3, <1>4, <1>5, <1>6 DEF Next

-----------------------------------------------------------------------------
(***************************************************************************)
(* The theorems                                                             *)
(***************************************************************************)

LEMMA Invariant == Spec => [](TypeOK /\ Inv)
<1>1. Init => TypeOK /\ Inv
  BY InitTyped, InitInv
<1>2. TypeOK /\ Inv /\ [Next]_vars => (TypeOK /\ Inv)'
  BY TypeStep, InvStep DEF StepOK
<1> QED BY <1>1, <1>2, PTL DEF Spec

\* A ready recording that is still kept is in the bucket, however stale the readings of
\* the sweep, the lists and the playback requests are.
THEOREM FileKept == Spec => []ReadyHasObject
<1>1. Inv => ReadyHasObject
  BY DEF Inv
<1> QED BY <1>1, Invariant, PTL

\* No step removes a file before its retention deadline.
THEOREM FileDeletedWhenDue == Spec => DeletedOnlyWhenDue
<1>1. TypeOK /\ Inv /\ [Next]_vars
        => [object # "none" /\ object' = "none" => retention = "due" /\ retention' = "due"]_vars
  BY InvStep DEF StepOK
<1> QED BY <1>1, Invariant, PTL DEF Spec, DeletedOnlyWhenDue

\* A deleted recording stays deleted.
THEOREM RowDeletedForGood == Spec => DeletedForGood
<1>1. TypeOK /\ Inv /\ [Next]_vars => [status = "deleted" => status' = "deleted"]_vars
  BY InvStep DEF StepOK
<1> QED BY <1>1, Invariant, PTL DEF Spec, DeletedForGood

=============================================================================
