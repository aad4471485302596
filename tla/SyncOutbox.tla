----------------------------- MODULE SyncOutbox -----------------------------
(***************************************************************************)
(* The desktop's local-first outbox and its upload: the SQLite rows with     *)
(* their synced flag (desktop storage/mod.rs), the trackers that write them, *)
(* the one sync pass at a time (sync/worker.rs), the presence heartbeat and  *)
(* its live frame (sync/presence.rs), the retention job (trackers/mod.rs) and the backend's *)
(* idempotent ingest by client_uuid (handlers/sync.go, store/sync.go,        *)
(* handlers/screenshot.go).                                                  *)
(*                                                                           *)
(* A row is its primary key and a version: the total of an input bucket, or   *)
(* the number of times a visit was recorded; 0 means there is no row.  The     *)
(* worker awaits every request, so the trackers write between its steps.      *)
(***************************************************************************)
EXTENDS Naturals, FiniteSets

CONSTANTS
  Row,          \* primary keys, in insertion order
  TableOf,      \* the table of each row
  Limit,        \* BATCH_LIMIT
  MaxVersion    \* bound: how often one row is written

Table == {"activity", "keystroke", "browser", "os_state", "screenshot"}

ASSUME RowAssumption == Row \subseteq Nat /\ TableOf \in [Row -> Table]
ASSUME BoundAssumption == Limit \in Nat \ {0} /\ MaxVersion \in Nat \ {0}

VARIABLES
  local,       \* version of each local row
  synced,      \* rows with synced = 1
  enabled,     \* devices.monitoring_enabled at the backend
  stored,      \* version of each row at the backend
  step,        \* where the sync pass is
  batch,       \* versions the pass has read, 0 for rows not in the batch
  reply,       \* monitoring_enabled in the answer to the batch
  flag,        \* control.monitoring_enabled of the agent
  late,        \* a request the client gave up on, still at the backend
  discarded,   \* history: rows acknowledged without being stored
  pruned       \* history: rows deleted by the retention job

localVars == <<local, synced, pruned>>
backendVars == <<stored, discarded, late>>
passVars == <<step, batch, reply, flag>>
vars == <<localVars, backendVars, passVars, enabled>>

Step == {"idle", "register", "collect", "send", "answer", "shots", "upload", "check",
         "discard"}
Nothing == [r \in Row |-> 0]
In(b) == {r \in Row : b[r] > 0}
Rows(t) == {r \in Row : TableOf[r] = t}
Shots == Rows("screenshot")
Pending == {r \in Row : local[r] > 0 /\ r \notin synced}

\* WHERE synced = 0 ORDER BY id LIMIT n
FirstPending(t) ==
  LET p == Pending \cap Rows(t)
  IN  {r \in p : Cardinality({q \in p : q < r}) < Limit}

Init ==
  /\ local = Nothing
  /\ synced = {}
  /\ enabled \in BOOLEAN
  /\ stored = Nothing
  /\ step = "idle"
  /\ batch = Nothing
  /\ reply = TRUE
  /\ flag = TRUE
  /\ late = Nothing
  /\ discarded = {}
  /\ pruned = {}

-----------------------------------------------------------------------------
(***************************************************************************)
(* The trackers and the retention job                                       *)
(***************************************************************************)

\* Samples, intervals and images are inserted once; a bucket accumulates and a resent
\* visit overwrites, and both go back to pending.
MayWrite(r) ==
  /\ r \notin pruned
  /\ \A q \in Rows(TableOf[r]) : q < r => local[q] > 0 \/ q \in pruned
  /\ \/ local[r] = 0
     \/ TableOf[r] \in {"keystroke", "browser"} /\ local[r] < MaxVersion

Write(r) ==
  /\ MayWrite(r)
  /\ local' = [local EXCEPT ![r] = @ + 1]
  /\ synced' = synced \ {r}
  /\ UNCHANGED <<pruned, backendVars, passVars, enabled>>

\* delete_screenshots_before looks at the age of the image alone.
Prune(r) ==
  /\ r \in Shots
  /\ local[r] > 0
  /\ local' = [local EXCEPT ![r] = 0]
  /\ synced' = synced \ {r}
  /\ pruned' = pruned \cup {r}
  /\ UNCHANGED <<backendVars, passVars, enabled>>

-----------------------------------------------------------------------------
(***************************************************************************)
(* The backend                                                              *)
(***************************************************************************)

\* SyncBatch: one transaction, the client's values always win; a device that is not
\* monitored has its rows acknowledged and dropped.
SyncBatch(b) ==
  IF enabled
    THEN /\ stored' = [r \in Row |-> IF b[r] > 0 THEN b[r] ELSE stored[r]]
         /\ UNCHANGED discarded
    ELSE /\ discarded' = discarded \cup In(b)
         /\ UNCHANGED stored

\* A request the client timed out on is served or dies before the next pass.
LateRequest ==
  /\ late # Nothing
  /\ late' = Nothing
  /\ SyncBatch(late) \/ UNCHANGED <<stored, discarded>>
  /\ UNCHANGED <<localVars, passVars, enabled>>

SetDeviceMonitoring ==
  /\ enabled' = ~enabled
  /\ UNCHANGED <<localVars, backendVars, passVars>>

\* The presence loop brings the switch back beside the pass.
Heartbeat ==
  /\ flag' = enabled
  /\ UNCHANGED <<localVars, backendVars, step, batch, reply, enabled>>

-----------------------------------------------------------------------------
(***************************************************************************)
(* One sync pass (run_once)                                                 *)
(***************************************************************************)

\* Mutant: a pass that does not wait out the back-off after a failure.
StartPassAtOnce ==
  /\ step = "idle"
  /\ step' = "register"
  /\ UNCHANGED <<localVars, backendVars, batch, reply, flag, enabled>>

\* The interval between passes, five minutes and more, outlasts the request timeout.
StartPass ==
  /\ step = "idle"
  /\ late = Nothing
  /\ step' = "register"
  /\ UNCHANGED <<localVars, backendVars, batch, reply, flag, enabled>>

GiveUp == step' = "idle" /\ batch' = Nothing /\ UNCHANGED <<reply, flag>>

\* The heartbeat batch: it carries no rows and brings back the switch.
Register ==
  /\ step = "register"
  /\ \/ flag' = enabled /\ step' = "collect" /\ UNCHANGED <<batch, reply>>
     \/ GiveUp
  /\ UNCHANGED <<localVars, backendVars, enabled>>

Collected == UNION {FirstPending(t) : t \in Table \ {"screenshot"}}

Collect ==
  /\ step = "collect"
  /\ \/ /\ Collected = {}
        /\ step' = "shots"
        /\ UNCHANGED batch
     \/ /\ Collected # {}
        /\ step' = "send"
        /\ batch' = [r \in Row |-> IF r \in Collected THEN local[r] ELSE 0]
  /\ UNCHANGED <<localVars, backendVars, reply, flag, enabled>>

Send ==
  /\ step = "send"
  /\ SyncBatch(batch)
  /\ reply' = enabled
  /\ step' = "answer"
  /\ UNCHANGED <<localVars, late, batch, flag, enabled>>

\* The connection fails, the server refuses, or the client times out first.
SendFails ==
  /\ step = "send"
  /\ late' \in {Nothing, batch}
  /\ GiveUp
  /\ UNCHANGED <<localVars, stored, discarded, enabled>>

\* Only the first three tables decide whether there may be more to send.
Full == \E t \in {"activity", "keystroke", "browser"} : Cardinality(In(batch) \cap Rows(t)) = Limit

\* Mutant: the agent marks what is pending by now.
AnswerMarksPending ==
  /\ step = "answer"
  /\ synced' = synced \cup (Pending \ Shots)
  /\ flag' = reply
  /\ step' = IF Full THEN "collect" ELSE "shots"
  /\ batch' = Nothing
  /\ UNCHANGED <<local, pruned, backendVars, reply, enabled>>

\* Mutant: rows the backend dropped are not acknowledged.
AnswerKeepsDropped ==
  /\ step = "answer"
  /\ synced' = IF reply THEN synced \cup In(batch) ELSE synced
  /\ flag' = reply
  /\ step' = IF Full /\ reply THEN "collect" ELSE "shots"
  /\ batch' = Nothing
  /\ UNCHANGED <<local, pruned, backendVars, reply, enabled>>

\* mark_synced by client_uuid, whatever the row holds by now.
Answer ==
  /\ step = "answer"
  /\ synced' = synced \cup In(batch)
  /\ flag' = reply
  /\ step' = IF Full THEN "collect" ELSE "shots"
  /\ batch' = Nothing
  /\ UNCHANGED <<local, pruned, backendVars, reply, enabled>>

AnswerLost ==
  /\ step = "answer"
  /\ GiveUp
  /\ UNCHANGED <<localVars, backendVars, enabled>>

-----------------------------------------------------------------------------
(***************************************************************************)
(* Screenshots: one upload each                                             *)
(***************************************************************************)

\* The flag decides twice, and a heartbeat may change it in between: uploads while it
\* is set, self-acknowledgement when it is not.
CollectShots ==
  /\ step = "shots"
  /\ batch' = [r \in Row |-> IF flag /\ r \in FirstPending("screenshot") THEN local[r] ELSE 0]
  /\ step' = IF flag /\ FirstPending("screenshot") # {} THEN "upload" ELSE "check"
  /\ UNCHANGED <<localVars, backendVars, reply, flag, enabled>>

\* The backend stores the image or, paused or with legacy capture closed, only
\* acknowledges it; a file pruned meanwhile cannot be read and is skipped.
AcceptShot(r) ==
  /\ local[r] > 0
  /\ \/ enabled /\ stored' = [stored EXCEPT ![r] = 1] /\ UNCHANGED discarded
     \/ discarded' = discarded \cup {r} /\ UNCHANGED stored
  /\ synced' = synced \cup {r}

NextShot(r) == r \in In(batch) /\ \A q \in In(batch) : r <= q

AfterShot(r) ==
  /\ batch' = [batch EXCEPT ![r] = 0]
  /\ step' = IF In(batch) = {r} THEN "check" ELSE "upload"
  /\ UNCHANGED <<reply, flag>>

UploadShot(r) ==
  /\ step = "upload"
  /\ NextShot(r)
  /\ AcceptShot(r)
  /\ AfterShot(r)
  /\ UNCHANGED <<local, pruned, late, enabled>>

\* A rejected or unreadable image does not stop the others; a network error does,
\* whether or not the backend had stored the image.
UploadShotFails(r) ==
  /\ step = "upload"
  /\ NextShot(r)
  /\ \/ AfterShot(r) /\ UNCHANGED stored
     \/ /\ GiveUp
        /\ \/ enabled /\ local[r] > 0 /\ stored' = [stored EXCEPT ![r] = 1]
           \/ UNCHANGED stored
  /\ UNCHANGED <<localVars, discarded, late, enabled>>

\* capture_live_frame uploads the images it just took, beside the pass.
LiveFrame(r) ==
  /\ r \in Pending \cap Shots
  /\ AcceptShot(r)
  /\ UNCHANGED <<local, pruned, late, passVars, enabled>>

CheckPaused ==
  /\ step = "check"
  /\ step' = IF flag THEN "idle" ELSE "discard"
  /\ UNCHANGED <<localVars, backendVars, batch, reply, flag, enabled>>

\* A paused device acknowledges its screenshots to itself, a batch at a time.
DiscardShots ==
  /\ step = "discard"
  /\ synced' = synced \cup FirstPending("screenshot")
  /\ discarded' = discarded \cup FirstPending("screenshot")
  /\ step' = IF Cardinality(FirstPending("screenshot")) < Limit THEN "idle" ELSE "discard"
  /\ UNCHANGED <<local, pruned, stored, late, batch, reply, flag, enabled>>

\* The process stops; the rows are in SQLite. Every pass registers before it asks flag.
Crash ==
  /\ step # "idle"
  /\ GiveUp
  /\ late' = IF step = "send" THEN batch ELSE late
  /\ UNCHANGED <<localVars, stored, discarded, enabled>>

-----------------------------------------------------------------------------
Tracking == \E r \in Row : Write(r) \/ Prune(r) \/ LiveFrame(r)

Backend == LateRequest \/ SetDeviceMonitoring \/ Heartbeat

Batches == StartPass \/ Register \/ Collect \/ Send \/ SendFails \/ Answer \/ AnswerLost

Uploads == \/ CollectShots \/ CheckPaused \/ DiscardShots
           \/ \E r \in Row : UploadShot(r) \/ UploadShotFails(r)

Next == Tracking \/ Backend \/ Batches \/ Uploads \/ Crash

Spec == Init /\ [][Next]_vars

\* The worker runs a pass every few minutes, and if a request is tried again and
\* again it gets through some time, as does an uninterrupted pass.
Fairness ==
  /\ WF_vars(LateRequest)
  /\ SF_vars(StartPass)
  /\ SF_vars(Register /\ step' = "collect")
  /\ SF_vars(Collect)
  /\ SF_vars(Send)
  /\ SF_vars(Answer)
  /\ SF_vars(CollectShots)
  /\ SF_vars(\E r \in Row : UploadShot(r))
  /\ WF_vars(\E r \in Row : UploadShot(r) \/ UploadShotFails(r))
  /\ SF_vars(CheckPaused)
  /\ SF_vars(DiscardShots)

FairSpec == Spec /\ Fairness

-----------------------------------------------------------------------------
(***************************************************************************)
(* Properties                                                               *)
(***************************************************************************)

\* Rows, versions and steps have their types, a request that is sent carries rows, and
\* only screenshots are ever removed ("Sync never deletes local rows").
TypeOK ==
  /\ local \in [Row -> 0..MaxVersion]
  /\ stored \in [Row -> 0..MaxVersion]
  /\ batch \in [Row -> 0..MaxVersion]
  /\ late \in [Row -> 0..MaxVersion]
  /\ synced \subseteq In(local)
  /\ discarded \subseteq Row
  /\ pruned \subseteq Shots
  /\ enabled \in BOOLEAN /\ reply \in BOOLEAN /\ flag \in BOOLEAN
  /\ step \in Step
  /\ step \in {"send", "answer", "upload"} => In(batch) # {}

\* A row leaves the outbox only when the backend has a version of it or has said it
\* wants none: what a tracker writes while a request is in flight is not acknowledged
\* with it (run_once: "flip exactly those to synced = 1").
NothingAckedUnseen == \A r \in synced : stored[r] > 0 \/ r \in discarded

\* The backend never goes back to an older total: a retry, a lost answer or a request
\* served late only repeats what is there ("the re-send is a harmless overwrite").
StoredNeverRegresses == [][\A r \in Row : stored'[r] >= stored[r]]_vars

\* Everything recorded is eventually acknowledged, through failures, restarts, lost
\* answers and pauses in the middle of a pass, unless retention removes it first or the
\* owner never stops flipping the monitoring switch.
PendingDrains ==
  <>[][enabled' = enabled]_vars =>
     \A r \in Row : (r \in Pending) ~> (r \in synced \/ r \in pruned)

\* "A re-count is a mutation, so it resets synced = 0 [...] an already-synced bucket
\* re-syncs with its new total" (storage/mod.rs:274): a row that is not pending is at
\* the backend as it is here.
SyncedIsUpToDate == \A r \in synced : r \in discarded \/ stored[r] = local[r]

\* "Local retention/cleanup runs independently and only prunes files already marked
\* synced = 1" (docs/11-backend-and-sync.md:202).
PrunesOnlySynced == [][\A r \in Row : r \in pruned' \ pruned => r \in synced]_vars
=============================================================================
