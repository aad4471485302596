--------------------------- MODULE RecordingAsset ---------------------------
(***************************************************************************)
(* One recorded chunk: its recording_assets row, the egress jobs started     *)
(* for it at the media provider, and the object in the private bucket        *)
(* (store/recording.go, handlers/recording.go, the asset half of             *)
(* handlers/media.go).                                                       *)
(*                                                                           *)
(* The row is written by "live" reports of the agent (Starter), by the        *)
(* teardown that follows the end of the session (Finalizer), and by the       *)
(* three readers that ask the bucket what it holds (Checker): the             *)
(* maintenance sweep, the timeline list and the playback token. Each of them  *)
(* is a sequence of statements and provider calls; a step variable says       *)
(* which comes next, and a restart forgets them all.                          *)
(***************************************************************************)
EXTENDS Integers, FiniteSets

CONSTANTS
  Starter,         \* concurrent "live" reports of the session
  Finalizer,       \* concurrent teardowns
  Job, NoJob,      \* egress jobs of the provider; the NULL provider_recording_id
  FinalizeDeadline \* recordingFinalizeDeadline (45 minutes), in ticks

ASSUME JobAssumption == NoJob \notin Job
ASSUME DeadlineAssumption == FinalizeDeadline \in Nat

VARIABLES
  session,      \* the media session, as this part sees it: "open" or "over"
  sessionAge,   \* time since media_sessions.ended_at, which a repeated report rewrites
  status,       \* recording_assets.status
  provider,     \* provider_recording_id
  endedAge,     \* time since ended_at, NotEnded while it is NULL
  retention,    \* retention_until: "none" (NULL), "running" or "due"
  used, running, uploaded,  \* jobs started, still capturing, that wrote the object
  object,       \* what the bucket holds under manifest_key
  startStep, startJob,
  endStep, endJob, endAge,    \* endAge: time since the session.EndedAt this teardown holds
  checkStep, checkJob, checkAge  \* checkAge: time since the EndedAt this reader has read

rowVars == <<status, provider, endedAge, retention>>
sessionVars == <<session, sessionAge>>
jobVars == <<used, running, uploaded, object>>
startVars == <<startStep, startJob>>
endVars == <<endStep, endJob, endAge>>
checkVars == <<checkStep, checkJob, checkAge>>

vars == <<rowVars, sessionVars, jobVars, startVars, endVars, checkVars>>

NotEnded == -1
Checker == {"sweep", "list", "playback"}
Status == {"absent", "pending", "recording", "processing", "ready", "failed", "deleted"}
Unfinished == {"pending", "recording", "processing"}
StartStep == {"idle", "start", "record", "fail_asset", "fail_session"}
Object == {"none", "empty", "full"}
EndStep == {"idle", "row", "advance", "lookup", "stop", "process"}
CheckStep == {"idle", "stop", "process", "verify", "ready", "fail", "delete", "mark"}

Init ==
  /\ session = "open"
  /\ sessionAge = 0
  /\ status = "absent"
  /\ provider = NoJob
  /\ endedAge = NotEnded
  /\ retention = "none"
  /\ used = {}
  /\ running = {}
  /\ uploaded = {}
  /\ object = "none"
  /\ startStep = [h \in Starter |-> "idle"]
  /\ startJob = [h \in Starter |-> NoJob]
  /\ endStep = [f \in Finalizer |-> "idle"]
  /\ endJob = [f \in Finalizer |-> NoJob]
  /\ endAge = [f \in Finalizer |-> 0]
  /\ checkStep = [c \in Checker |-> "idle"]
  /\ checkJob = NoJob
  /\ checkAge = [c \in Checker |-> NotEnded]

-----------------------------------------------------------------------------
(***************************************************************************)
(* Statements on the row.  COALESCE(ended_at, now()) and the 30 days after   *)
(* it are taken from EndOr(now); thirty days outlast every deadline here.    *)
(***************************************************************************)

StartRecordingAsset(j) ==
  /\ status' = "recording"
  /\ provider' = j
  /\ UNCHANGED <<endedAge, retention>>

ProcessRecordingAsset(age) ==
  IF status \in Unfinished
    THEN status' = "processing" /\ endedAge' = age /\ UNCHANGED <<provider, retention>>
    ELSE UNCHANGED rowVars

\* The 30 days start again only when the row has no end yet.
RetentionFromEnd == IF retention = "due" /\ endedAge # NotEnded THEN "due" ELSE "running"

\* Mutant: the update by id alone, the way StartRecordingAsset is written.
ReadyUnguarded ==
  /\ status' = "ready"
  /\ retention' = RetentionFromEnd
  /\ UNCHANGED <<provider, endedAge>>

ReadyRecordingAsset ==
  IF status \in Unfinished \cup {"failed"} /\ retention # "due"
    THEN status' = "ready" /\ retention' = RetentionFromEnd /\ UNCHANGED <<provider, endedAge>>
    ELSE UNCHANGED rowVars

FailRecordingAsset ==
  IF status \in Unfinished
    THEN /\ status' = "failed"
         /\ endedAge' = IF endedAge = NotEnded THEN 0 ELSE endedAge
         /\ retention' = RetentionFromEnd
         /\ UNCHANGED provider
    ELSE UNCHANGED rowVars

MarkRecordingAssetDeleted ==
  IF status \in {"ready", "failed"} /\ retention = "due"
    THEN status' = "deleted" /\ UNCHANGED <<provider, endedAge, retention>>
    ELSE UNCHANGED rowVars

-----------------------------------------------------------------------------
(***************************************************************************)
(* startRecording, run by every accepted "live" report                      *)
(***************************************************************************)

StartTo(h, step, j) ==
  /\ startStep' = [startStep EXCEPT ![h] = step]
  /\ startJob' = [startJob EXCEPT ![h] = j]

\* AdvanceMediaSession accepts the report only while the session is open. The row may
\* be inserted or found; a provider id on it means another report has the job.
CreateRecordingAsset(h) ==
  /\ startStep[h] = "idle"
  /\ session = "open"
  /\ status' = IF status = "absent" THEN "pending" ELSE status
  /\ StartTo(h, IF provider = NoJob THEN "start" ELSE "idle", NoJob)
  /\ UNCHANGED <<provider, endedAge, retention, sessionVars, jobVars, endVars, checkVars>>

StartRecording(h) ==
  /\ startStep[h] = "start"
  /\ \/ \E j \in Job \ used : /\ used' = used \cup {j}
                              /\ running' = running \cup {j}
                              /\ StartTo(h, "record", j)
     \/ StartTo(h, "fail_asset", NoJob) /\ UNCHANGED <<used, running>>
  /\ UNCHANGED <<rowVars, sessionVars, uploaded, object, endVars, checkVars>>

RecordJob(h) ==
  /\ startStep[h] = "record"
  /\ \/ StartRecordingAsset(startJob[h]) /\ StartTo(h, "idle", NoJob)
     \/ UNCHANGED rowVars /\ StartTo(h, "fail_session", NoJob)
  /\ UNCHANGED <<sessionVars, jobVars, endVars, checkVars>>

\* Both clean-ups after a failure are best effort.
FailAsset(h) ==
  /\ startStep[h] = "fail_asset"
  /\ FailRecordingAsset \/ UNCHANGED rowVars
  /\ StartTo(h, "fail_session", NoJob)
  /\ UNCHANGED <<sessionVars, jobVars, endVars, checkVars>>

\* AdvanceMediaSession to a terminal state, which it may already be in: ended_at is now.
EndSession == session' = "over" /\ sessionAge' = 0

FailSession(h) ==
  /\ startStep[h] = "fail_session"
  /\ EndSession \/ UNCHANGED sessionVars
  /\ StartTo(h, "idle", NoJob)
  /\ UNCHANGED <<rowVars, jobVars, endVars, checkVars>>

-----------------------------------------------------------------------------
(***************************************************************************)
(* stopRecording, finalizeRecording and the goroutine they leave behind      *)
(***************************************************************************)

EndTo(f, step, j, age) ==
  /\ endStep' = [endStep EXCEPT ![f] = step]
  /\ endJob' = [endJob EXCEPT ![f] = j]
  /\ endAge' = [endAge EXCEPT ![f] = age]

\* Without a job to stop the teardown only ends the room.
TearDown(f, j, age) ==
  IF j = NoJob THEN EndTo(f, "idle", NoJob, 0) ELSE EndTo(f, "stop", j, age)

\* stopRecording for a session that was read as open looks the row up, then ends the session.
OpenRead(f) ==
  /\ endStep[f] = "idle"
  /\ session = "open"
  /\ EndTo(f, "row", NoJob, 0)
  /\ UNCHANGED <<rowVars, sessionVars, jobVars, startVars, checkVars>>

LookupFirst(f) ==
  /\ endStep[f] = "row"
  /\ EndTo(f, "advance", provider, 0)
  /\ UNCHANGED <<rowVars, sessionVars, jobVars, startVars, checkVars>>

\* When the other terminal state was reached meanwhile, or the statement fails, the teardown
\* goes on, with the present for the end.
Advance(f) ==
  /\ endStep[f] = "advance"
  /\ EndSession \/ UNCHANGED sessionVars
  /\ TearDown(f, endJob[f], 0)
  /\ UNCHANGED <<rowVars, jobVars, startVars, checkVars>>

\* The rotation sweep and the agent's terminal report end it first, then read; a
\* repeated report re-enters the terminal state and tears down again.
EndFirst(f) ==
  /\ endStep[f] = "idle"
  /\ EndSession
  /\ EndTo(f, "lookup", NoJob, 0)
  /\ UNCHANGED <<rowVars, jobVars, startVars, checkVars>>

Lookup(f) ==
  /\ endStep[f] = "lookup"
  /\ TearDown(f, provider, endAge[f])
  /\ UNCHANGED <<rowVars, sessionVars, jobVars, startVars, checkVars>>

StopJob(f) ==
  /\ endStep[f] = "stop"
  /\ running' \in {running, running \ {endJob[f]}}    \* the stop may not confirm
  /\ EndTo(f, "process", NoJob, endAge[f])
  /\ UNCHANGED <<rowVars, sessionVars, used, uploaded, object, startVars, checkVars>>

Process(f) ==
  /\ endStep[f] = "process"
  /\ ProcessRecordingAsset(endAge[f]) \/ UNCHANGED rowVars
  /\ EndTo(f, "idle", NoJob, 0)
  /\ UNCHANGED <<sessionVars, jobVars, startVars, checkVars>>

-----------------------------------------------------------------------------
(***************************************************************************)
(* The readers of the bucket                                                *)
(***************************************************************************)

CheckTo(c, step) == checkStep' = [checkStep EXCEPT ![c] = step]

\* Back to the start, or on with the EndedAt that was read.
CheckWith(c, step, age) ==
  /\ CheckTo(c, step)
  /\ checkAge' = [checkAge EXCEPT ![c] = age]
Finished(c) == CheckWith(c, "idle", NotEnded)

NeedsRecovery == status = "processing" \/ (status \in Unfinished /\ session = "over")

\* COALESCE(ended_at, ms.ended_at)
CandidateAge == IF endedAge = NotEnded THEN sessionAge ELSE endedAge

\* Mutant: recovery only resumes what a teardown had already marked.
RecoverProcessingOnly ==
  /\ checkStep["sweep"] = "idle"
  /\ status = "processing"
  /\ CheckWith("sweep", "verify", CandidateAge)
  /\ UNCHANGED checkJob
  /\ UNCHANGED <<rowVars, sessionVars, jobVars, startVars, endVars>>

\* RecordingAssetsNeedingRecovery, with the provider id and the end as claimed.
Recover ==
  /\ checkStep["sweep"] = "idle"
  /\ NeedsRecovery
  /\ CheckWith("sweep", IF status = "processing" THEN "verify"
                        ELSE IF provider = NoJob THEN "process" ELSE "stop", CandidateAge)
  /\ checkJob' = IF status = "processing" THEN NoJob ELSE provider
  /\ UNCHANGED <<rowVars, sessionVars, jobVars, startVars, endVars>>

RecoverStop ==
  /\ checkStep["sweep"] = "stop"
  /\ running' \in {running, running \ {checkJob}}
  /\ CheckTo("sweep", "process")
  /\ checkJob' = NoJob
  /\ UNCHANGED <<rowVars, sessionVars, used, uploaded, object, startVars, endVars, checkAge>>

\* An error leaves the candidate for a later sweep.
RecoverProcess ==
  /\ checkStep["sweep"] = "process"
  /\ \/ /\ ProcessRecordingAsset(checkAge["sweep"])
        /\ CheckTo("sweep", "verify") /\ UNCHANGED checkAge
     \/ UNCHANGED rowVars /\ Finished("sweep")
  /\ UNCHANGED <<checkJob, sessionVars, jobVars, startVars, endVars>>

\* ListRecordings reconciles what it read as processing; PlaybackToken takes any row
\* that is not deleted and whose retention deadline has not passed.
ListRead ==
  /\ checkStep["list"] = "idle"
  /\ status = "processing"
  /\ CheckWith("list", "verify", endedAge)
  /\ UNCHANGED <<rowVars, sessionVars, jobVars, startVars, endVars, checkJob>>

PlaybackRead ==
  /\ checkStep["playback"] = "idle"
  /\ status \in {"pending", "recording", "processing", "failed"}
  /\ retention # "due"
  /\ CheckWith("playback", "verify", NotEnded)
  /\ UNCHANGED <<rowVars, sessionVars, jobVars, startVars, endVars, checkJob>>

\* An object counts when it is not empty; for playback it need only exist.
Accepts(c) == object = "full" \/ (c = "playback" /\ object = "empty")

\* VerifyAsset can fail; only an answer that there is no such object, past the deadline,
\* fails the row, and playback never does.
VerifyAsset(c) ==
  /\ checkStep[c] = "verify"
  /\ \/ Accepts(c) /\ CheckWith(c, "ready", NotEnded)
     \/ /\ ~Accepts(c)
        /\ c # "playback"
        /\ checkAge[c] >= FinalizeDeadline
        /\ CheckWith(c, "fail", NotEnded)
     \/ Finished(c)
  /\ UNCHANGED <<rowVars, sessionVars, jobVars, startVars, endVars, checkJob>>

Settle(c) ==
  /\ \/ checkStep[c] = "ready" /\ (ReadyRecordingAsset \/ UNCHANGED rowVars)
     \/ checkStep[c] = "fail" /\ (FailRecordingAsset \/ UNCHANGED rowVars)
  /\ Finished(c)
  /\ UNCHANGED <<sessionVars, jobVars, startVars, endVars, checkJob>>

\* Mutant: the retention sweep takes every settled row.
DueWithoutDeadline ==
  /\ checkStep["sweep"] = "idle"
  /\ status \in {"ready", "failed"}
  /\ CheckTo("sweep", "delete")
  /\ UNCHANGED <<rowVars, sessionVars, jobVars, startVars, endVars, checkJob, checkAge>>

\* RecordingAssetsDueForDeletion
DueForDeletion ==
  /\ checkStep["sweep"] = "idle"
  /\ status \in {"ready", "failed"}
  /\ retention = "due"
  /\ CheckTo("sweep", "delete")
  /\ UNCHANGED <<rowVars, sessionVars, jobVars, startVars, endVars, checkJob, checkAge>>

\* DeleteAsset, and a second look before the row is marked; either may fail.
DeleteAsset ==
  /\ checkStep["sweep"] = "delete"
  /\ object' \in {"none", object}
  /\ \/ object' = "none" /\ CheckTo("sweep", "mark")
     \/ CheckTo("sweep", "idle")
  /\ UNCHANGED <<rowVars, sessionVars, used, running, uploaded, startVars, endVars, checkJob,
                 checkAge>>

MarkDeleted ==
  /\ checkStep["sweep"] = "mark"
  /\ MarkRecordingAssetDeleted \/ UNCHANGED rowVars
  /\ CheckTo("sweep", "idle")
  /\ UNCHANGED <<sessionVars, jobVars, startVars, endVars, checkJob, checkAge>>

-----------------------------------------------------------------------------
(***************************************************************************)
(* Outside: the provider, the process and time                              *)
(***************************************************************************)

\* A job ends by itself when the device leaves or the room is closed.
JobEnds(j) ==
  /\ j \in running
  /\ running' = running \ {j}
  /\ UNCHANGED <<rowVars, sessionVars, used, uploaded, object, startVars, endVars, checkVars>>

\* The file appears when the job has ended, well before its thirty days are over.
Upload(j) ==
  /\ j \in used \ (running \cup uploaded)
  /\ retention # "due"
  /\ uploaded' = uploaded \cup {j}
  /\ object' \in {"empty", "full"}
  /\ UNCHANGED <<rowVars, sessionVars, used, running, startVars, endVars, checkVars>>

\* A request or goroutine is lost with the process, or with its cancelled context.
Restart ==
  /\ startStep' = [h \in Starter |-> "idle"]
  /\ startJob' = [h \in Starter |-> NoJob]
  /\ endStep' = [f \in Finalizer |-> "idle"]
  /\ endJob' = [f \in Finalizer |-> NoJob]
  /\ endAge' = [f \in Finalizer |-> 0]
  /\ checkStep' = [c \in Checker |-> "idle"]
  /\ checkJob' = NoJob
  /\ checkAge' = [c \in Checker |-> NotEnded]
  /\ UNCHANGED <<rowVars, sessionVars, jobVars>>

Older(age) == IF age < FinalizeDeadline THEN age + 1 ELSE age

\* A teardown ages the end it holds from the moment it has one.
TornDown(f) == endStep[f] \in {"lookup", "stop", "process"}

Tick ==
  /\ session = "over" \/ endedAge # NotEnded \/ \E f \in Finalizer : TornDown(f)
  /\ sessionAge' = IF session = "over" THEN Older(sessionAge) ELSE sessionAge
  /\ endedAge' = IF endedAge = NotEnded THEN NotEnded ELSE Older(endedAge)
  /\ endAge' = [f \in Finalizer |-> IF TornDown(f) THEN Older(endAge[f]) ELSE endAge[f]]
  /\ checkAge' = [c \in Checker |-> IF checkAge[c] = NotEnded THEN NotEnded ELSE Older(checkAge[c])]
  /\ UNCHANGED <<session, status, provider, retention, jobVars, startVars, endStep, endJob,
                 checkStep, checkJob>>

\* Thirty days: no "live" report of the chunk is still in progress, and some sweep of a
\* month has settled a row that a late report reopened.
RetentionPasses ==
  /\ retention = "running"
  /\ status \in {"ready", "failed"}
  /\ session = "over"
  /\ \A h \in Starter : startStep[h] = "idle"
  /\ retention' = "due"
  /\ UNCHANGED <<status, provider, endedAge, sessionVars, jobVars, startVars, endVars, checkVars>>

-----------------------------------------------------------------------------
Starting == \E h \in Starter : \/ CreateRecordingAsset(h)
                               \/ StartRecording(h)
                               \/ RecordJob(h)
                               \/ FailAsset(h)
                               \/ FailSession(h)

Ending == \E f \in Finalizer : \/ OpenRead(f)
                               \/ LookupFirst(f)
                               \/ Advance(f)
                               \/ EndFirst(f)
                               \/ Lookup(f)
                               \/ StopJob(f)
                               \/ Process(f)

Sweeping == \/ Recover
            \/ RecoverStop
            \/ RecoverProcess
            \/ DueForDeletion
            \/ DeleteAsset
            \/ MarkDeleted

Checking == \/ ListRead
            \/ PlaybackRead
            \/ \E c \in Checker : VerifyAsset(c) \/ Settle(c)

Outside == \/ \E j \in Job : JobEnds(j) \/ Upload(j)
           \/ Restart
           \/ Tick
           \/ RetentionPasses

Next == Starting \/ Ending \/ Sweeping \/ Checking \/ Outside

Spec == Init /\ [][Next]_vars

\* The maintenance goroutine runs every minute and its statements and verifications
\* eventually succeed (SF); time passes; the session is ended by the rotation sweep
\* (RotationGuaranteed of MediaSession), which no part of this module waits for.
Fairness ==
  /\ WF_vars(Tick)
  /\ WF_vars(Recover)
  /\ SF_vars(RecoverStop)
  /\ SF_vars(RecoverProcess /\ CheckTo("sweep", "verify"))
  /\ SF_vars(VerifyAsset("sweep") /\ ~CheckTo("sweep", "idle"))
  /\ SF_vars(Settle("sweep") /\ status' # status)

FairSpec == Spec /\ Fairness

-----------------------------------------------------------------------------
(***************************************************************************)
(* Properties                                                               *)
(***************************************************************************)

\* Every column, job and step holds a value the code and the schema allow; a settled
\* row always carries its retention deadline (00024_recording_retention.sql).
TypeOK ==
  /\ session \in {"open", "over"}
  /\ sessionAge \in 0..FinalizeDeadline
  /\ status \in Status
  /\ provider \in Job \cup {NoJob}
  /\ endedAge \in {NotEnded} \cup 0..FinalizeDeadline
  /\ retention \in {"none", "running", "due"}
  /\ running \subseteq used /\ uploaded \subseteq used /\ used \subseteq Job
  /\ object \in Object
  /\ startStep \in [Starter -> StartStep]
  /\ startJob \in [Starter -> Job \cup {NoJob}]
  /\ endStep \in [Finalizer -> EndStep]
  /\ endJob \in [Finalizer -> Job \cup {NoJob}]
  /\ checkStep \in [Checker -> CheckStep]
  /\ checkJob \in Job \cup {NoJob}
  /\ endAge \in [Finalizer -> 0..FinalizeDeadline]
  /\ checkAge \in [Checker -> {NotEnded} \cup 0..FinalizeDeadline]
  /\ status \in {"ready", "failed", "deleted"} => retention # "none"

\* A recording offered for playback is in the bucket: neither a verification that is
\* stale by the time its row is updated nor the retention sweep leaves a ready row
\* without its file, unless its thirty days are over (sweepRecordingAssets).
ReadyHasObject == status = "ready" /\ retention # "due" => object # "none"

\* A file is removed only after its retention deadline, although the sweep decides on
\* a row it read earlier while lists and playback requests update that row.
DeletedOnlyWhenDue ==
  [][object # "none" /\ object' = "none" => retention = "due" /\ retention' = "due"]_vars

\* A deleted recording never comes back: a playback request that read the row before
\* the sweep marked it cannot make it ready again (ReadyRecordingAsset).
DeletedForGood == [][status = "deleted" => status' = "deleted"]_vars

Settled == status \in {"ready", "failed", "deleted"}

\* Once its session is over every recording settles, whatever was lost in a restart and
\* however late a teardown marks it, unless the end is written anew for ever: each repeated
\* terminal report starts the deadline again (AdvanceMediaSession, ProcessRecordingAsset).
AssetSettles ==
  \/ session = "over" /\ status \in Unfinished ~> Settled
  \/ []<><<sessionAge' < sessionAge>>_vars

\* The same without that exception (reconcileRecordingAssets: "processing" cannot be "a
\* permanent state").
NeverProcessingForEver == session = "over" /\ status \in Unfinished ~> Settled
=============================================================================
