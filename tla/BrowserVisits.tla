--------------------------- MODULE BrowserVisits ---------------------------
(***************************************************************************)
(* Browsing time, which the desktop hears of twice: from the browser extension, *)
(* through a durable outbox and the loopback ingest server (extension/, server/), *)
(* and, on Windows, from the address bar, which the fallback tracker watches and    *)
(* keeps to itself until it is sure that no extension has told of the same time     *)
(* (trackers/mod.rs, BrowserFallbackTracker).                                       *)
(*                                                                           *)
(* The clock counts units of about thirty seconds.  One tick of it is one poll of the  *)
(* fallback, and a request on the loopback is served within the tick it was sent in   *)
(* or not at all.  Both sides see the same page in focus; an idle user or another      *)
(* application is no page, and the pages of a browser without the extension are seen    *)
(* by the fallback alone.                                                          *)
(***************************************************************************)
EXTENDS Integers, Sequences, SequencesExt

CONSTANTS
  Page,        \* pages worth recording, in the browser with the extension
  Foreign,     \* pages in a browser without it
  None,        \* no page, no time, nothing open
  Checkpoint,  \* CHECKPOINT_MINUTES
  Grace,       \* BROWSER_FALLBACK_GRACE_S
  Chunk,       \* BROWSER_FALLBACK_CHUNK_S
  Cap,         \* MAX_QUEUED
  FlushBatch,  \* FLUSH_BATCH
  MaxIngest,   \* MAX_INGEST_BATCH
  MaxTime,     \* bound: the clock
  MaxFaults    \* bound: crashes of either side, failures of the database, lost answers, pauses

ASSUME VisitsAssumption ==
  /\ Checkpoint \in Nat \ {0} /\ Grace \in Nat /\ Checkpoint < Grace /\ Chunk \in Nat \ {0}
  /\ Cap \in Nat \ {0} /\ MaxIngest \in Nat /\ FlushBatch \in 1..MaxIngest
  /\ MaxTime \in Nat /\ MaxFaults \in Nat

\* Nothing is none of the things there may be.
ASSUME NoneAssumption ==
  /\ None \notin Page \cup Foreign \cup (0..MaxTime) /\ Page \cap Foreign = {}
  /\ None \notin [page : Page, from : 0..MaxTime]
  /\ None \notin [page : Page \cup Foreign, from : 0..MaxTime, to : 0..MaxTime]

VARIABLES
  now,      \* the machine's clock
  page,     \* the page in focus
  browser,  \* the browser is open
  visit,    \* the extension's open visit (session storage)
  outbox,   \* its closed segments (local storage)
  flight,   \* the batch flush() has posted, and what became of it
  due,      \* flush() has been called and has not returned
  alarm,    \* when the checkpoint alarm was created or fired last
  appUp,    \* the desktop agent and its server run
  linked,   \* the extension has the token of this run of the agent
  stopped,  \* paused, switched off, out of schedule or opted out
  seen,     \* extension_last_seen
  cur,      \* BrowserFallbackTracker.current
  pending,  \* BrowserFallbackTracker.pending
  rows,     \* browser_visit: the extension's rows by client_uuid, the fallback's under a fresh one
  lost,     \* history: a segment left the outbox and was neither accepted nor reported
  evicted,  \* history: the full outbox has dropped segments, and reported it
  orphans,  \* history: keys of the segments kept longer than the fallback could wait for
  postponed, \* history: the alarm was created anew since it last fired
  faults    \* history: faults so far

extVars == <<browser, visit, outbox, flight, due, alarm, postponed>>
appVars == <<appUp, linked, seen, cur, pending, rows>>
lossVars == <<lost, evicted, orphans>>
visitVars == <<now, page, stopped, faults, extVars, appVars, lossVars>>

Span == [from : 0..MaxTime, to : 0..MaxTime]
Elsewhere == Foreign \cup {None}
NoFlight == [batch |-> <<>>, more |-> FALSE, state |-> "none"]

VisitsInit ==
  /\ now = 0 /\ page = None /\ stopped = FALSE /\ faults = 0
  /\ browser = TRUE /\ visit = None /\ outbox = <<>> /\ flight = NoFlight /\ due = FALSE
  /\ alarm = 0 /\ postponed = FALSE
  /\ appUp = TRUE /\ linked = FALSE /\ seen = None
  /\ cur = None /\ pending = {} /\ rows = {}
  /\ lost = FALSE /\ evicted = FALSE /\ orphans = {}

Fault ==
  /\ faults < MaxFaults
  /\ faults' = faults + 1

---------------------------------------------------------------------------
(* The extension: lib/visit.js and lib/outbox.js. *)

\* close: a visit of less than one unit is noise.
Closed == IF visit # None /\ now > visit.from
          THEN <<[from |-> visit.from, to |-> now]>> ELSE <<>>

\* append: beyond the cap the oldest segments go, and are reported.
Enqueue(segments) ==
  LET all == outbox \o segments
      over == IF Len(all) > Cap THEN Len(all) - Cap ELSE 0
  IN
  /\ outbox' = SubSeq(all, over + 1, Len(all))
  /\ evicted' = (evicted \/ over > 0)

\* onFocus: another page closes the open visit and opens its own.
Focus(p) ==
  /\ browser /\ p # page
  /\ page' = p
  /\ Enqueue(Closed)
  /\ visit' = [page |-> p, from |-> now]
  /\ UNCHANGED <<now, stopped, faults, browser, flight, due, alarm, postponed, appVars, lost, orphans>>

\* onBlur, then flush: the tab is closed, focus leaves the browser, the user is idle.
Blur(other) ==
  /\ page \in Page
  /\ page' = other
  /\ Enqueue(Closed)
  /\ visit' = None
  /\ due' = TRUE
  /\ UNCHANGED <<now, stopped, faults, browser, flight, alarm, postponed, appVars, lost, orphans>>

\* Focus moves where the extension does not look.
Wander(other) ==
  /\ page \notin Page /\ other # page
  /\ page' = other
  /\ UNCHANGED <<now, stopped, faults, extVars, appVars, lossVars>>

\* The alarm closes the open visit, opens it again at the same instant, and flushes.
AlarmFires ==
  /\ browser
  /\ now - alarm >= Checkpoint \/ now = MaxTime
  /\ alarm' = now /\ postponed' = FALSE
  /\ Enqueue(Closed)
  /\ visit' = IF Closed = <<>> THEN visit ELSE [visit EXCEPT !.from = now]
  /\ due' = TRUE
  /\ UNCHANGED <<now, page, stopped, faults, browser, flight, appVars, lost, orphans>>

\* The browser ends the service worker and starts it for the next event.  A flush that was
\* under way is cut off (otherwise the worker was idle), and the top level of
\* background.js creates the alarm anew: it comes a full period from now.
WorkerRestarts ==
  /\ browser /\ (alarm < now \/ due)
  /\ IF due THEN Fault ELSE UNCHANGED faults
  /\ flight' = NoFlight /\ due' = FALSE
  /\ alarm' = now /\ postponed' = TRUE
  /\ UNCHANGED <<now, page, stopped, browser, visit, outbox, appVars, lossVars>>

\* It is ended between the two writes of a step: the visit is closed, and another one may
\* be open, but the segment never reaches the outbox.
StepCut(p) ==
  /\ browser /\ visit # None /\ visit.from < now /\ Fault
  /\ page' = p
  /\ visit' = IF p \in Page THEN [page |-> p, from |-> now] ELSE None
  /\ flight' = NoFlight /\ due' = FALSE
  /\ alarm' = now /\ postponed' = TRUE
  /\ UNCHANGED <<now, stopped, browser, outbox, appVars, lossVars>>

\* The browser is closed: what was open is forgotten, the outbox is on disk.
BrowserQuits ==
  /\ browser /\ Fault
  /\ browser' = FALSE
  /\ page' = IF page \in Page THEN None ELSE page
  /\ visit' = None /\ flight' = NoFlight /\ due' = FALSE
  /\ orphans' = orphans \cup {s.from : s \in ToSet(outbox)}
  /\ UNCHANGED <<now, stopped, outbox, alarm, postponed, appVars, lost, evicted>>

\* It is opened again: the alarms start anew and the agent is looked for.
BrowserStarts ==
  /\ ~browser
  /\ browser' = TRUE
  /\ alarm' = now /\ postponed' = FALSE
  /\ linked' = appUp
  /\ seen' = IF appUp THEN now ELSE seen
  /\ UNCHANGED <<now, page, stopped, faults, visit, outbox, flight, due, appUp, cur, pending, rows, lossVars>>

---------------------------------------------------------------------------
(* flush: one request per batch, oldest first. *)

\* Variant (mutant): the whole queue goes in one request.
PostAll ==
  /\ due /\ flight = NoFlight
  /\ IF outbox = <<>> THEN due' = FALSE /\ UNCHANGED flight
     ELSE flight' = [batch |-> outbox, more |-> FALSE, state |-> "sent"] /\ UNCHANGED due
  /\ UNCHANGED <<now, page, stopped, faults, browser, visit, outbox, alarm, postponed, appVars, lossVars>>

Post ==
  /\ due /\ flight = NoFlight
  /\ IF outbox = <<>> THEN due' = FALSE /\ UNCHANGED flight
     ELSE /\ flight' = [batch |-> SubSeq(outbox, 1, IF Len(outbox) < FlushBatch
                                                    THEN Len(outbox) ELSE FlushBatch),
                        more |-> Len(outbox) > FlushBatch,
                        state |-> "sent"]
          /\ UNCHANGED due
  /\ UNCHANGED <<now, page, stopped, faults, browser, visit, outbox, alarm, postponed, appVars, lossVars>>

\* The token is read again from /whoami, after a 401 or a refused connection, and by an
\* alarm while there is no link; it counts as a sign of life of the extension.
Discover ==
  /\ browser /\ appUp /\ ~linked
  /\ linked' = TRUE
  /\ seen' = now
  /\ UNCHANGED <<now, page, stopped, faults, extVars, appUp, cur, pending, rows, lossVars>>

\* No answer, or one that is no 200: flush returns and the batch stays where it is.
PostFails ==
  /\ flight.state = "refused" \/ (flight.state = "sent" /\ ~appUp)
  /\ flight' = NoFlight /\ due' = FALSE
  /\ UNCHANGED <<now, page, stopped, faults, browser, visit, outbox, alarm, postponed, appVars, lossVars>>

AnswerDropped ==
  /\ flight.state \in {"stored", "late"} /\ Fault
  /\ flight' = NoFlight /\ due' = FALSE
  /\ UNCHANGED <<now, page, stopped, browser, visit, outbox, alarm, postponed, appVars, lossVars>>

\* Variant (mutant): the batch leaves the outbox when it is answered, whatever the answer.
AcceptAny ==
  LET n == Len(flight.batch)
      left == {outbox[i] : i \in 1..(IF n < Len(outbox) THEN n ELSE Len(outbox))}
  IN
  /\ flight.state \in {"stored", "late", "refused"}
  /\ outbox' = SubSeq(outbox, n + 1, Len(outbox))
  /\ lost' = (lost \/ ~(left \subseteq (IF flight.state = "refused" THEN {} ELSE ToSet(flight.batch))))
  /\ flight' = NoFlight
  /\ due' = flight.more
  /\ UNCHANGED <<now, page, stopped, faults, browser, visit, alarm, postponed, appVars, evicted, orphans>>

\* 200: as many segments as were sent leave the head of what the outbox now is, and the
\* loop goes on if there was more than the batch when it was read.
Accept ==
  LET n == Len(flight.batch)
      left == {outbox[i] : i \in 1..(IF n < Len(outbox) THEN n ELSE Len(outbox))}
  IN
  /\ flight.state \in {"stored", "late"}
  /\ outbox' = SubSeq(outbox, n + 1, Len(outbox))
  /\ lost' = (lost \/ ~(left \subseteq ToSet(flight.batch)))
  /\ flight' = NoFlight
  /\ due' = flight.more
  /\ UNCHANGED <<now, page, stopped, faults, browser, visit, alarm, postponed, appVars, evicted, orphans>>

---------------------------------------------------------------------------
(* The ingest server. *)

\* record: a visit whose key is known replaces the row; while collection is stopped the
\* request succeeds and stores nothing.
Record(segments) ==
  rows' = IF stopped THEN rows
          ELSE {r \in rows : r.by = "extension" => \A s \in ToSet(segments) : r.key # s.from}
                 \cup {[by |-> "extension", key |-> s.from, from |-> s.from, to |-> s.to]
                         : s \in ToSet(segments)}

\* ingest: an authorized batch is a sign of life before any of it is stored, and one row
\* the database refuses ends it.
Ingest ==
  /\ flight.state = "sent" /\ appUp /\ linked
  /\ IF Len(flight.batch) > MaxIngest
     THEN flight' = [flight EXCEPT !.state = "refused"] /\ UNCHANGED <<seen, rows, faults>>
     ELSE /\ seen' = now
          /\ \/ /\ flight' = [flight EXCEPT !.state = "stored"]
                /\ Record(flight.batch)
                /\ UNCHANGED faults
             \/ /\ Fault
                /\ flight' = [flight EXCEPT !.state = "refused"]
                /\ \E n \in 0..(Len(flight.batch) - 1) : Record(SubSeq(flight.batch, 1, n))
  /\ UNCHANGED <<now, page, stopped, browser, visit, outbox, due, alarm, postponed, appUp, linked, cur, pending, lossVars>>

SetStopped(value) ==
  /\ stopped # value
  /\ stopped' = value
  /\ IF value THEN Fault ELSE UNCHANGED faults
  /\ UNCHANGED <<now, page, extVars, appVars, lossVars>>

\* The agent dies: its memory goes, a request it had not answered fails.
AgentDies ==
  /\ appUp /\ Fault
  /\ appUp' = FALSE /\ linked' = FALSE /\ seen' = None /\ cur' = None /\ pending' = {}
  /\ flight' = IF flight = NoFlight THEN NoFlight ELSE [flight EXCEPT !.state = "refused"]
  /\ UNCHANGED <<now, page, stopped, browser, visit, outbox, due, alarm, postponed, rows, lossVars>>

AgentStarts ==
  /\ ~appUp
  /\ appUp' = TRUE
  /\ UNCHANGED <<now, page, stopped, faults, extVars, linked, seen, cur, pending, rows, lossVars>>

---------------------------------------------------------------------------
(* The fallback. *)

\* Variant (mutant): the extension counts only as long as its request is being served.
FreshAtOnce(t) == seen # None /\ t - seen <= 0

Fresh(t) == seen # None /\ t - seen <= Grace

\* visit(): an observation that never lasted is nothing.
Ended(c) == IF c # None /\ c.to > c.from
            THEN {[own |-> c.page \in Page, from |-> c.from, to |-> c.to]} ELSE {}

Begin(p, t) == [page |-> p, from |-> t, to |-> t]

Watch(p, t) ==
  IF p = None THEN [cur |-> None, done |-> Ended(cur)]
  ELSE IF cur = None THEN [cur |-> Begin(p, t), done |-> {}]
  ELSE IF cur.page # p THEN [cur |-> Begin(p, t), done |-> Ended(cur)]
  ELSE IF t - cur.from >= Chunk
  THEN [cur |-> Begin(p, t), done |-> Ended([cur EXCEPT !.to = t])]
  ELSE [cur |-> [cur EXCEPT !.to = t], done |-> {}]

Ripe(v, t) == t - v.from >= Grace

\* BrowserFallbackTracker::tick and the writes that follow it.
FallbackPoll(t) ==
  IF Fresh(t) THEN cur' = None /\ pending' = {} /\ UNCHANGED rows
  ELSE LET w == Watch(IF stopped THEN None ELSE page, t)
           held == pending \cup w.done
           ready == {v \in held : Ripe(v, t)}
       IN
       /\ cur' = w.cur
       /\ pending' = held \ ready
       /\ rows' = rows \cup {[by |-> "fallback", key |-> v.from, from |-> v.from, to |-> v.to]
                               : v \in ready}

\* The keys of what the extension has still to send, the open visit's too.
Waiting == {s.from : s \in ToSet(outbox)} \cup (IF visit = None THEN {} ELSE {visit.from})

\* Time passes.  An alarm that is due has fired, a flush has been posted and
\* served; only its answer may still be on the way, and for one tick at most.
Tick ==
  /\ now < MaxTime
  /\ browser => now - alarm < Checkpoint
  /\ due => flight.state = "stored"
  /\ now' = now + 1
  /\ flight' = IF due THEN [flight EXCEPT !.state = "late"] ELSE flight
  /\ IF appUp THEN FallbackPoll(now + 1) ELSE UNCHANGED <<cur, pending, rows>>
  /\ orphans' = IF postponed /\ appUp /\ ~Fresh(now + 1) THEN orphans \cup Waiting ELSE orphans
  /\ UNCHANGED <<page, stopped, faults, browser, visit, outbox, due, alarm, postponed, appUp, linked, seen,
                 lost, evicted>>

VisitsNext ==
  \/ \E p \in Page : Focus(p)
  \/ \E other \in Elsewhere : Blur(other) \/ Wander(other)
  \/ WorkerRestarts \/ \E p \in Page \cup Elsewhere : StepCut(p)
  \/ AlarmFires \/ BrowserQuits \/ BrowserStarts
  \/ Post \/ Discover \/ PostFails \/ AnswerDropped \/ Accept
  \/ Ingest \/ AgentDies \/ AgentStarts
  \/ \E value \in BOOLEAN : SetStopped(value)
  \/ Tick

VisitsSpec == VisitsInit /\ [][VisitsNext]_visitVars

\* Alarms fire, promises settle, the server answers and the agent is started again.
FairVisitsSpec ==
  /\ VisitsSpec
  /\ WF_visitVars(Tick) /\ WF_visitVars(AlarmFires) /\ WF_visitVars(AgentStarts) /\ WF_visitVars(BrowserStarts)
  /\ WF_visitVars(Post) /\ WF_visitVars(Discover) /\ WF_visitVars(Ingest)
  /\ WF_visitVars(PostFails) /\ WF_visitVars(Accept)

---------------------------------------------------------------------------
(* Properties. *)

\* No stretch of browsing is stored twice: not by a batch that is sent again after its
\* answer was lost or its worker ended, and not by the fallback beside the extension
\* (trackers/mod.rs: "yields to it so one browsing interval is never stored twice").
\* The exceptions are segments that come after the fallback's patience: those not sent
\* before the browser was closed, and those held when the fallback gave up waiting
\* because restarts of the worker had put off the alarm.
NeverTwice ==
  \A r, s \in {row \in rows : ~(row.by = "extension" /\ row.key \in orphans)} :
    r # s => r.to <= s.from \/ s.to <= r.from

\* The same without the exceptions.
NeverTwiceAtAll == \A r, s \in rows : r # s => r.to <= s.from \/ s.to <= r.from

\* A segment leaves the outbox unaccepted and unreported only after the outbox was full
\* (background.js: "Segments leave the outbox only once the app has accepted them").
LossIsReported == lost => evicted

\* The same without the exception for a full outbox.
AcceptedBeforeDropped == ~lost

\* Whatever fails meanwhile, the outbox drains once the agent is back.
OutboxDrains == outbox # <<>> ~> outbox = <<>>
=============================================================================
