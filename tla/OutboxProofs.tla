---------------------------- MODULE OutboxProofs ----------------------------
(***************************************************************************)
(* Theorems about the two outboxes of the desktop, for any rows, pages, caps  *)
(* and periods.                                                              *)
(*                                                                           *)
(* SyncOutbox, the agent's rows on their way to the backend.  What a request   *)
(* carries was read from rows that only grow, so at any time                  *)
(* stored <= carried <= local for the rows of a batch in flight (InFlight),    *)
(* and for those of a request the client has given up on (Overdue).  The       *)
(* second is why the pause between passes matters: as long as such a request   *)
(* may still be served, no pass is under way.                                 *)
(*                                                                           *)
(* BrowserVisits, browsing time on its way from the extension to the agent,     *)
(* which also watches by itself.  Each side tells of pieces that do not         *)
(* overlap (ExtensionApart, FallbackApart).  Between the sides, what the        *)
(* fallback watches began after all that was stored before                     *)
(* (ObservedAfterRows).  Of the extension's own browser, its patience is longer *)
(* than an alarm's period: an alarm that fired since had nothing to tell        *)
(* (AlarmTold), because what was observed at a poll the extension saw as well   *)
(* (BothSee); unless restarts have put that alarm off, and then what the         *)
(* extension still has to send is counted among the orphans.  Of any other       *)
(* browser, the extension had no visit open at the time (ForeignApart).          *)
(***************************************************************************)
EXTENDS BrowserVisits, SyncOutbox, SequenceTheorems, TLAPS

-----------------------------------------------------------------------------
(***************************************************************************)
(* The strengthening                                                        *)
(***************************************************************************)

Between(b) == \A r \in Row : b[r] > 0 => r \notin Shots /\ stored[r] <= b[r] /\ b[r] <= local[r]

InFlight ==
  /\ step = "send" => Between(batch)
  /\ step = "answer" => \A r \in Row : batch[r] > 0 => /\ r \notin Shots
                                                       /\ batch[r] <= local[r]
                                                       /\ stored[r] > 0 \/ r \in discarded
  /\ step = "upload" => \A r \in Row : batch[r] > 0 => r \in Shots

Overdue == Between(late) /\ (late # Nothing => step = "idle")

\* An image has one version; nothing else at the backend is ahead of its row here.
NotAhead == \A r \in Row : IF r \in Shots THEN stored[r] <= 1 ELSE stored[r] <= local[r]

Inv == InFlight /\ Overdue /\ NotAhead /\ NothingAckedUnseen

-----------------------------------------------------------------------------
(***************************************************************************)
(* What a pass reads                                                        *)
(***************************************************************************)

LEMMA FirstPendingRows ==
  ASSUME NEW t, NEW r \in FirstPending(t)
  PROVE  r \in Row /\ r \in Rows(t) /\ local[r] > 0 /\ r \notin synced
  BY DEF FirstPending, Pending, Rows

LEMMA CollectedRows ==
  ASSUME NEW r \in Collected
  PROVE  r \in Row /\ r \notin Shots /\ local[r] > 0
<1>1. PICK t \in Table \ {"screenshot"} : r \in FirstPending(t)
  BY DEF Collected
<1>2. r \in Row /\ TableOf[r] = t /\ local[r] > 0
  BY <1>1, FirstPendingRows DEF Rows
<1> QED BY <1>1, <1>2 DEF Shots, Rows

-----------------------------------------------------------------------------
(***************************************************************************)
(* Initially                                                                *)
(***************************************************************************)

LEMMA InitOK == Init => TypeOK /\ Inv
<1> SUFFICES ASSUME Init PROVE TypeOK /\ Inv
  OBVIOUS
<1>1. TypeOK
  BY BoundAssumption DEF Init, TypeOK, Nothing, In, Step
<1>2. Inv
  BY DEF Init, Inv, InFlight, Overdue, Between, NotAhead, NothingAckedUnseen, Nothing
<1> QED BY <1>1, <1>2

-----------------------------------------------------------------------------
(***************************************************************************)
(* Every step keeps both, and takes nothing back at the backend             *)
(***************************************************************************)

StepOK == TypeOK' /\ Inv' /\ \A r \in Row : stored'[r] >= stored[r]

LEMMA EveryStep ==
  ASSUME TypeOK, Inv, [Next]_vars
  PROVE  StepOK
<1> USE BoundAssumption DEF TypeOK, Inv, InFlight, Overdue, Between, NotAhead,
                            NothingAckedUnseen, StepOK, In
<1>0. /\ Shots \subseteq Row
      /\ \A r \in Row : Nothing[r] = 0
      /\ Nothing \in [Row -> 0..MaxVersion]
  BY DEF Shots, Rows, Nothing
<1>1. CASE UNCHANGED vars
  BY <1>1 DEF vars, localVars, backendVars, passVars
<1>2. CASE Tracking
  <2>1. ASSUME NEW r \in Row, Write(r) PROVE StepOK
    BY <2>1 DEF Write, MayWrite, backendVars, passVars
  <2>2. ASSUME NEW r \in Row, Prune(r) PROVE StepOK
    BY <2>2, <1>0 DEF Prune, backendVars, passVars
  <2>3. ASSUME NEW r \in Row, LiveFrame(r) PROVE StepOK
    BY <2>3, <1>0 DEF LiveFrame, AcceptShot, Pending, passVars
  <2> QED BY <1>2, <2>1, <2>2, <2>3 DEF Tracking
<1>3. CASE Backend
  <2>1. CASE LateRequest
    BY <2>1, <1>0 DEF LateRequest, SyncBatch, localVars, passVars
  <2>2. CASE SetDeviceMonitoring
    BY <2>2 DEF SetDeviceMonitoring, localVars, backendVars, passVars
  <2>3. CASE Heartbeat
    BY <2>3 DEF Heartbeat, localVars, backendVars
  <2> QED BY <1>3, <2>1, <2>2, <2>3 DEF Backend
<1>4. CASE Batches
  <2> USE <1>0 DEF localVars, backendVars, GiveUp, Step
  <2>1. CASE StartPass
    BY <2>1 DEF StartPass
  <2>2. CASE Register
    BY <2>2 DEF Register
  <2>3. CASE Collect
    BY <2>3, CollectedRows DEF Collect
  <2>4. CASE Send
    BY <2>4 DEF Send, SyncBatch
  <2>5. CASE SendFails
    BY <2>5 DEF SendFails
  <2>6. CASE Answer
    BY <2>6 DEF Answer
  <2>7. CASE AnswerLost
    BY <2>7 DEF AnswerLost
  <2> QED BY <1>4, <2>1, <2>2, <2>3, <2>4, <2>5, <2>6, <2>7 DEF Batches
<1>5. CASE Uploads
  <2> USE <1>0 DEF localVars, backendVars, GiveUp, Step
  <2>1. CASE CollectShots
    BY <2>1, FirstPendingRows DEF CollectShots, Shots
  <2>2. CASE CheckPaused
    BY <2>2 DEF CheckPaused
  <2>3. CASE DiscardShots
    BY <2>3, FirstPendingRows DEF DiscardShots
  <2>4. ASSUME NEW r \in Row, UploadShot(r) PROVE StepOK
    BY <2>4 DEF UploadShot, NextShot, AcceptShot, AfterShot
  <2>5. ASSUME NEW r \in Row, UploadShotFails(r) PROVE StepOK
    BY <2>5 DEF UploadShotFails, NextShot, AfterShot
  <2> QED BY <1>5, <2>1, <2>2, <2>3, <2>4, <2>5 DEF Uploads
<1>6. CASE Crash
  BY <1>6, <1>0 DEF Crash, GiveUp, localVars, Step
<1> QED BY <1>1, <1>2, <1>3, <1>4, <1>5, <1>6 DEF Next

-----------------------------------------------------------------------------
(***************************************************************************)
(* The theorems                                                             *)
(***************************************************************************)

LEMMA Invariant == Spec => [](TypeOK /\ Inv)
<1>1. TypeOK /\ Inv /\ [Next]_vars => (TypeOK /\ Inv)'
  BY EveryStep DEF StepOK
<1> QED BY <1>1, InitOK, PTL DEF Spec

\* Rows, versions and steps keep their types, and every request carries rows.
THEOREM SyncTyped == Spec => []TypeOK
  BY Invariant, PTL

\* Nothing leaves the outbox that the backend has neither stored nor refused, although
\* rows are written and images uploaded beside every request.
THEOREM AckedIsKnown == Spec => []NothingAckedUnseen
<1>1. Inv => NothingAckedUnseen
  BY DEF Inv
<1> QED BY <1>1, Invariant, PTL

\* No retry, no late request and no restart takes a total at the backend back.
THEOREM NoRegress == Spec => StoredNeverRegresses
<1>1. TypeOK /\ Inv /\ [Next]_vars => [\A r \in Row : stored'[r] >= stored[r]]_vars
  BY EveryStep DEF StepOK
<1> QED BY <1>1, Invariant, PTL DEF Spec, StoredNeverRegresses

-----------------------------------------------------------------------------
(***************************************************************************)
(* Browsing time: what is where, and when                                   *)
(***************************************************************************)

VisitRow == [by : {"extension", "fallback"}, key : 0..MaxTime, from : 0..MaxTime, to : 0..MaxTime]
Open == [page : Page, from : 0..MaxTime]
Flight == [batch : Seq(Span), more : BOOLEAN, state : {"none", "sent", "stored", "late", "refused"}]
Observation == [page : Page \cup Foreign, from : 0..MaxTime, to : 0..MaxTime]
Piece == [own : BOOLEAN, from : 0..MaxTime, to : 0..MaxTime]

VisitTypes ==
  /\ now \in 0..MaxTime /\ alarm \in 0..MaxTime /\ seen \in (0..MaxTime) \cup {None}
  /\ page \in Page \cup Elsewhere /\ stopped \in BOOLEAN /\ postponed \in BOOLEAN /\ faults \in 0..MaxFaults
  /\ browser \in BOOLEAN /\ due \in BOOLEAN /\ appUp \in BOOLEAN /\ linked \in BOOLEAN
  /\ visit \in Open \cup {None}
  /\ outbox \in Seq(Span) /\ Len(outbox) <= Cap
  /\ flight \in Flight
  /\ cur \in Observation \cup {None} /\ pending \in SUBSET Piece
  /\ rows \in SUBSET VisitRow
  /\ lost \in BOOLEAN /\ evicted \in BOOLEAN /\ orphans \in SUBSET (0..MaxTime)

\* The segments the extension holds: waiting, or in a request.
Held == ToSet(outbox) \cup ToSet(flight.batch)
ByExtension == {r \in rows : r.by = "extension"}
ByFallback == {r \in rows : r.by = "fallback"}

Apart(r, s) == r.to <= s.from \/ s.to <= r.from
Same(r, s) == r.from = s.from /\ r.to = s.to

\* Nothing ends before it began or after now.
Past(r) == r.from < r.to /\ r.to <= now

Clock ==
  /\ alarm <= now /\ (seen # None => seen <= now)
  /\ visit # None => visit.from <= now /\ (postponed \/ alarm <= visit.from)
  /\ cur # None => cur.from <= cur.to /\ cur.to = now
  /\ \A s \in Held \cup pending \cup rows : Past(s)
  /\ \A r \in rows : r.key = r.from

\* A request carries the head of the outbox, and a closed browser sends none.
Flush ==
  /\ IF flight.state = "none" THEN flight = NoFlight
     ELSE due /\ flight.batch # <<>>
  /\ Len(flight.batch) <= FlushBatch /\ Len(flight.batch) <= Len(outbox)
  /\ page \in Page <=> visit # None
  /\ ~browser => visit = None /\ ~due /\ \A s \in ToSet(outbox) : s.from \in orphans

AppDown == ~appUp => seen = None /\ cur = None /\ pending = {}

\* The extension has been heard of, and the next poll will know it.
Heard == Fresh(now + 1)
NothingObserved == cur = None /\ pending = {}

Answered ==
  /\ flight.state = "stored" => appUp /\ seen = now
  /\ flight.state = "late" => appUp /\ seen # None /\ seen >= now - 1
  /\ flight.state = "refused" /\ appUp => Heard \/ NothingObserved

\* What one side tells of is in pieces that do not overlap.
ExtensionApart ==
  /\ \A s, u \in Held \cup ByExtension : Same(s, u) \/ Apart(s, u)
  /\ visit # None => \A s \in Held \cup ByExtension : s.to <= visit.from

FallbackApart ==
  /\ \A v, w \in pending \cup ByFallback : Same(v, w) \/ Apart(v, w)
  /\ cur # None => \A v \in pending \cup ByFallback : v.to <= cur.from

\* What the fallback watches began after all that the extension has told of.
ObservedAfterRows ==
  Heard \/ \A s \in ByExtension : /\ \A v \in pending : s.to <= v.from
                                  /\ cur # None => s.to <= cur.from

\* What the fallback has seen in the browser with the extension is older than the last
\* alarm only if that alarm had nothing to tell of it, or its flush has not come to the end
\* yet; unless restarts of the worker have put the alarm off.
Flushing == due /\ outbox # <<>>
OwnCur == cur # None /\ cur.page \in Page

AlarmTold ==
  Heard \/ ~browser \/ Flushing \/ postponed \/ now = MaxTime
    \/ /\ OwnCur => cur.from >= alarm
       /\ \A v \in pending : v.own =>
            v.from >= alarm \/ (v.to < alarm /\ \A s \in Held : s.from \in orphans \/ s.from >= alarm)

\* What was observed there at the last poll, the extension saw as well.
BothSee ==
  Heard \/ ~browser \/ outbox # <<>> \/ alarm = now \/ (visit # None /\ visit.from < now)
    \/ (~OwnCur /\ \A v \in pending : v.own => v.to < now)

\* The extension has no visit open while another browser is watched.
ForeignApart ==
  /\ \A v \in pending : ~v.own =>
       (\A s \in Held : Apart(s, v)) /\ (visit # None => v.to <= visit.from)
  /\ cur # None /\ cur.page \notin Page =>
       (\A s \in Held : s.to <= cur.from) /\ (visit # None => visit.from = now)

\* What the fallback has stored, the extension will not send.
StoredAlone ==
  \A v \in ByFallback :
    /\ visit # None => visit.from \in orphans \/ v.to <= visit.from
    /\ \A s \in Held : s.from \in orphans \/ Apart(s, v)

RowsApart ==
  \A r \in ByExtension : r.key \in orphans \/ \A v \in ByFallback : Apart(r, v)

\* Until something is evicted, the request is the head of the outbox.
BatchHeads ==
  ~evicted => /\ ~lost
              /\ \A i \in 1..Len(flight.batch) : outbox[i] = flight.batch[i]

VisitsInv ==
  /\ VisitTypes /\ Clock /\ Flush /\ AppDown /\ Answered /\ ExtensionApart /\ FallbackApart
  /\ ObservedAfterRows /\ AlarmTold /\ BothSee /\ ForeignApart /\ StoredAlone /\ RowsApart
  /\ BatchHeads
-----------------------------------------------------------------------------
(* Sequences. *)

LEMMA ToSetIn ==
  ASSUME NEW S, NEW s \in Seq(S)
  PROVE  /\ ToSet(s) \subseteq S
         /\ \A i \in 1..Len(s) : s[i] \in ToSet(s)
         /\ \A x \in ToSet(s) : \E i \in 1..Len(s) : x = s[i]
BY ElementOfSeq DEF ToSet

LEMMA ToSetSub ==
  ASSUME NEW S, NEW s \in Seq(S), NEW m \in 1..(Len(s) + 1), NEW n \in 0..Len(s)
  PROVE  /\ SubSeq(s, m, n) \in Seq(S)
         /\ ToSet(SubSeq(s, m, n)) \subseteq ToSet(s)
         /\ Len(SubSeq(s, m, n)) = IF m <= n THEN n - m + 1 ELSE 0
         /\ \A i \in 1..Len(SubSeq(s, m, n)) : SubSeq(s, m, n)[i] = s[m + i - 1]
<1> DEFINE q == SubSeq(s, m, n)
<1>1. /\ q \in Seq(S) /\ Len(q) = (IF m <= n THEN n - m + 1 ELSE 0)
      /\ \A i \in 1..Len(q) : q[i] = s[m + i - 1]
  BY SubSeqProperties
<1>2. ASSUME NEW x \in ToSet(q) PROVE x \in ToSet(s)
  <2>1. PICK i \in 1..Len(q) : x = q[i]
    BY <1>1, ToSetIn
  <2>2. m + i - 1 \in 1..Len(s) /\ x = s[m + i - 1]
    BY <1>1, <2>1, LenProperties
  <2> QED  BY <2>2, ToSetIn
<1> QED  BY <1>1, <1>2

\* The segment a closing visit leaves, and what append makes of it.
LEMMA ClosedFacts ==
  ASSUME VisitTypes
  PROVE  /\ Closed \in Seq(Span) /\ Len(Closed) \in {0, 1}
         /\ Closed = <<>> \/ (visit # None /\ visit.from < now /\ Len(Closed) = 1)
         /\ Closed = <<>> => visit = None \/ visit.from >= now
         /\ \A s \in ToSet(Closed) : /\ visit # None /\ visit.from < now
                                     /\ s = [from |-> visit.from, to |-> now]
<1>1. CASE visit # None /\ now > visit.from
  <2> DEFINE seg == [from |-> visit.from, to |-> now]
  <2>1. seg \in Span /\ Closed = <<seg>>
    BY <1>1 DEF VisitTypes, Open, Span, Closed
  <2>2. ToSet(<<seg>>) = {seg}
    BY DEF ToSet
  <2> QED  BY <1>1, <2>1, <2>2
<1>2. CASE ~(visit # None /\ now > visit.from)
  <2>1. Closed = <<>>
    BY <1>2 DEF Closed
  <2>2. ToSet(<<>>) = {}
    BY DEF ToSet
  <2>3. visit = None \/ visit.from >= now
    BY <1>2 DEF VisitTypes, Open
  <2> QED  BY <2>1, <2>2, <2>3
<1> QED  BY <1>1, <1>2

LEMMA EnqueueFacts ==
  ASSUME VisitTypes, Enqueue(Closed)
  PROVE  /\ outbox' \in Seq(Span) /\ Len(outbox') <= Cap /\ Len(outbox) <= Len(outbox')
         /\ ToSet(outbox') \subseteq ToSet(outbox) \cup ToSet(Closed)
         /\ outbox # <<>> \/ Closed # <<>> => outbox' # <<>>
         /\ evicted' \in BOOLEAN
         /\ ~evicted' => /\ ~evicted
                         /\ \A i \in 1..Len(outbox) : outbox'[i] = outbox[i]
<1> DEFINE all == outbox \o Closed
           over == IF Len(all) > Cap THEN Len(all) - Cap ELSE 0
<1>1. /\ outbox \in Seq(Span) /\ Closed \in Seq(Span) /\ Len(outbox) \in Nat
      /\ Len(Closed) \in {0, 1} /\ Len(outbox) <= Cap /\ Cap \in Nat \ {0}
  BY ClosedFacts, VisitsAssumption, LenProperties DEF VisitTypes
<1>2. /\ all \in Seq(Span) /\ Len(all) = Len(outbox) + Len(Closed)
      /\ \A i \in 1..Len(all) : all[i] = IF i <= Len(outbox) THEN outbox[i]
                                         ELSE Closed[i - Len(outbox)]
  BY <1>1, ConcatProperties
<1>3. ToSet(all) \subseteq ToSet(outbox) \cup ToSet(Closed)
  <2> SUFFICES ASSUME NEW x \in ToSet(all) PROVE x \in ToSet(outbox) \cup ToSet(Closed)
    OBVIOUS
  <2>1. PICK i \in 1..Len(all) : x = all[i]
    BY <1>2, ToSetIn
  <2>2. CASE i <= Len(outbox)
    BY <1>1, <1>2, <2>1, <2>2, ToSetIn
  <2>3. CASE ~(i <= Len(outbox))
    BY <1>1, <1>2, <2>1, <2>3, ToSetIn
  <2> QED  BY <2>2, <2>3
<1>4. outbox' = SubSeq(all, over + 1, Len(all)) /\ evicted' = (evicted \/ over > 0)
  BY DEF Enqueue
<1> HIDE DEF all
<1>5. over \in {0, 1} /\ over <= Len(all) /\ over + 1 \in 1..(Len(all) + 1) /\ Len(all) \in Nat
  <2>1. Len(all) \in Nat /\ Len(all) <= Cap + 1 /\ Cap \in Nat
    BY <1>1, <1>2
  <2>2. CASE Len(all) > Cap
    <3>1. over = Len(all) - Cap
      BY <2>2
    <3> HIDE DEF over
    <3> QED  BY <2>1, <2>2, <3>1
  <2>3. CASE ~(Len(all) > Cap)
    <3>1. over = 0
      BY <2>3
    <3> HIDE DEF over
    <3> QED  BY <2>1, <3>1
  <2> QED  BY <2>2, <2>3
<1> HIDE DEF over
<1>6. /\ outbox' \in Seq(Span) /\ ToSet(outbox') \subseteq ToSet(all)
      /\ Len(outbox') = Len(all) - over
      /\ \A i \in 1..Len(outbox') : outbox'[i] = all[over + i]
  <2>1. Len(all) \in 0..Len(all)
    BY <1>5
  <2>2. /\ outbox' \in Seq(Span) /\ ToSet(outbox') \subseteq ToSet(all)
        /\ Len(outbox') = IF over + 1 <= Len(all) THEN Len(all) - (over + 1) + 1 ELSE 0
        /\ \A i \in 1..Len(outbox') : outbox'[i] = all[over + 1 + i - 1]
    BY <1>2, <1>4, <1>5, <2>1, ToSetSub
  <2> QED  BY <1>5, <2>2
<1>7. Len(outbox') <= Cap /\ Len(outbox) <= Len(outbox')
  BY <1>1, <1>2, <1>6 DEF over
<1>8. outbox # <<>> \/ Closed # <<>> => outbox' # <<>>
  <2>1. outbox # <<>> => Len(outbox) > 0
    BY <1>1, EmptySeq, LenProperties
  <2>2. Closed # <<>> => Len(Closed) = 1
    BY ClosedFacts
  <2>3. Len(outbox') > 0 => outbox' # <<>>
    BY <1>6, EmptySeq
  <2> QED  BY <1>1, <1>2, <1>6, <2>1, <2>2, <2>3 DEF over
<1>9. evicted' \in BOOLEAN
  BY <1>4 DEF VisitTypes
<1>10. ASSUME ~evicted'
       PROVE  ~evicted /\ \A i \in 1..Len(outbox) : outbox'[i] = outbox[i]
  <2>1. ~(over > 0)
    BY <1>4, <1>10
  <2>2. over = 0
    BY <1>5, <2>1
  <2>3. ~evicted
    BY <1>4, <1>10
  <2>4. \A i \in 1..Len(outbox) : i \in 1..Len(outbox') /\ i \in 1..Len(all) /\ all[i] = outbox[i]
    BY <1>1, <1>2, <1>6, <2>2
  <2> QED  BY <1>6, <2>2, <2>3, <2>4
<1> QED  BY <1>3, <1>6, <1>7, <1>8, <1>9, <1>10

-----------------------------------------------------------------------------
(* What the steps have in common. *)

\* A request changes its fate and keeps its batch.
LEMMA FlightFacts ==
  ASSUME VisitTypes
  PROVE  /\ NoFlight \in Flight /\ NoFlight.state = "none" /\ NoFlight.batch = <<>>
         /\ \A x \in {"none", "sent", "stored", "late", "refused"} :
              LET f == [flight EXCEPT !.state = x] IN
              f \in Flight /\ f.batch = flight.batch /\ f.state = x
BY DEF VisitTypes, Flight, NoFlight

LEMMA EmptyFacts == ToSet(<<>>) = {} /\ Len(<<>>) = 0
BY DEF ToSet

\* An answer that came, or will, is a sign of life the next poll still knows of.
LEMMA AnsweredHeard ==
  ASSUME VisitTypes, Answered, flight.state \in {"stored", "late"}
  PROVE  Heard
<1>1. seen # None /\ seen \in 0..MaxTime /\ seen >= now - 1 /\ now \in 0..MaxTime
  BY NoneAssumption DEF Answered, VisitTypes
<1>2. Grace >= 2
  BY VisitsAssumption
<1> QED  BY <1>1, <1>2, VisitsAssumption DEF Heard, Fresh

\* A sign of life at this instant is known at the next poll.
LEMMA SeenNow ==
  ASSUME VisitTypes, seen' = now, now' = now
  PROVE  Heard'
<1>1. now \in 0..MaxTime /\ now # None
  BY NoneAssumption DEF VisitTypes
<1>2. Grace >= 1
  BY VisitsAssumption
<1> QED  BY <1>1, <1>2, VisitsAssumption DEF Heard, Fresh

\* Segments leave the extension, or stay, and the worker may have been started anew.
LEMMA HeldShrinks ==
  ASSUME VisitsInv, Held' \subseteq Held, orphans \subseteq orphans',
         visit' \in {visit, None} \/ (visit' \in Open /\ visit'.from = now),
         (alarm' = alarm /\ postponed' = postponed) \/ (alarm' = now /\ postponed'),
         UNCHANGED <<now, seen, cur, pending, rows>>
  PROVE  /\ Clock' /\ ExtensionApart' /\ FallbackApart' /\ ObservedAfterRows'
         /\ ForeignApart' /\ StoredAlone' /\ RowsApart'
<1> USE DEF VisitsInv
<1>1. now \in Int /\ \A s \in Held \cup ByExtension \cup ByFallback \cup pending : s.to <= now
  BY DEF Clock, Past, VisitTypes, ByExtension, ByFallback
<1>2. Clock'
  <2>1. visit' # None => visit'.from <= now' /\ (postponed' \/ alarm' <= visit'.from)
    BY <1>1 DEF Clock
  <2>2. /\ alarm' <= now' /\ (seen' # None => seen' <= now')
        /\ cur' # None => cur'.from <= cur'.to /\ cur'.to = now'
        /\ \A s \in (Held \cup pending \cup rows)' : Past(s)'
        /\ \A r \in rows' : r.key = r.from
    BY <1>1 DEF Clock, Past
  <2> QED  BY <2>1, <2>2 DEF Clock
<1>3. ExtensionApart' /\ FallbackApart'
  BY <1>1 DEF ExtensionApart, FallbackApart, ByExtension, ByFallback, Same, Apart
<1>4. ObservedAfterRows'
  BY DEF ObservedAfterRows, ByExtension, Heard, Fresh
<1>5. ForeignApart'
  BY <1>1 DEF ForeignApart, Apart
<1>6. StoredAlone'
  BY <1>1 DEF StoredAlone, ByFallback, Apart
<1>7. RowsApart'
  BY DEF RowsApart, ByExtension, ByFallback, Apart
<1> QED  BY <1>2, <1>3, <1>4, <1>5, <1>6, <1>7

\* A visit is closed, and another one may be opened at the same instant.
LEMMA Closing ==
  ASSUME VisitsInv, browser, Enqueue(Closed),
         UNCHANGED <<now, stopped, faults, browser, flight, appVars, lost, orphans>>,
         page' \in Page \cup Elsewhere, page' \in Page <=> visit' # None,
         visit' = None \/ (visit' \in Open /\ visit'.from = now),
         due' \in BOOLEAN, due => due',
         \/ alarm' = alarm /\ postponed' = postponed
         \/ alarm' = now /\ postponed' = FALSE /\ due' /\ (now = MaxTime \/ alarm # now)
  PROVE  VisitsInv'
<1> USE VisitsAssumption, NoneAssumption DEF VisitsInv, appVars
<1>1. /\ outbox' \in Seq(Span) /\ Len(outbox') <= Cap /\ Len(outbox) <= Len(outbox')
      /\ outbox # <<>> \/ Closed # <<>> => outbox' # <<>>
      /\ evicted' \in BOOLEAN
      /\ ~evicted' => ~evicted /\ \A i \in 1..Len(outbox) : outbox'[i] = outbox[i]
  BY EnqueueFacts
<1>2. ASSUME NEW s \in Held'
      PROVE  \/ s \in Held
             \/ /\ visit # None /\ visit.from < now /\ s = [from |-> visit.from, to |-> now]
                /\ s.from = visit.from /\ s.to = now
  BY EnqueueFacts, ClosedFacts DEF Held
<1>3. VisitTypes'
  <2>1. alarm' \in 0..MaxTime /\ postponed' \in BOOLEAN
    BY DEF VisitTypes
  <2>2. visit' \in Open \cup {None}
    OBVIOUS
  <2> QED  BY <1>1, <2>1, <2>2 DEF VisitTypes, VisitRow, Observation, Piece
<1>4. Clock'
  <2>1. visit # None => visit.from \in 0..MaxTime
    BY DEF VisitTypes, Open
  <2>2. \A s \in (Held \cup pending \cup rows)' : Past(s)'
    BY <1>2, <2>1 DEF Clock, Past, VisitTypes
  <2>3. visit' # None => visit'.from <= now' /\ (postponed' \/ alarm' <= visit'.from)
    BY DEF Clock, VisitTypes
  <2>4. /\ alarm' <= now' /\ (seen' # None => seen' <= now')
        /\ cur' # None => cur'.from <= cur'.to /\ cur'.to = now'
        /\ \A r \in rows' : r.key = r.from
    BY DEF Clock, VisitTypes
  <2> QED  BY <2>2, <2>3, <2>4 DEF Clock
<1>5. Flush'
  BY <1>1, LenProperties DEF Flush, VisitTypes, Flight
<1>6. ExtensionApart'
  <2>1. ASSUME NEW s \in (Held \cup ByExtension)'
        PROVE  \/ s \in Held \cup ByExtension
               \/ visit # None /\ s.from = visit.from /\ s.to = now
    BY <1>2 DEF ByExtension
  <2>2. \A s \in Held \cup ByExtension : s.to <= now /\ (visit # None => s.to <= visit.from)
    BY DEF Clock, Past, ExtensionApart, ByExtension
  <2>3. \A s, u \in (Held \cup ByExtension)' : Same(s, u) \/ Apart(s, u)
    BY <2>1, <2>2 DEF ExtensionApart, Same, Apart
  <2>4. visit' # None => \A s \in (Held \cup ByExtension)' : s.to <= visit'.from
    BY <2>1, <2>2 DEF VisitTypes
  <2> QED  BY <2>3, <2>4 DEF ExtensionApart, Same, Apart
<1>7. StoredAlone'
  <2>1. ASSUME NEW v \in ByFallback' PROVE v \in ByFallback /\ v.to <= now
    BY DEF ByFallback, Clock, Past
  <2>2. ASSUME NEW v \in ByFallback', NEW s \in Held'
        PROVE  s.from \in orphans' \/ Apart(s, v)
    BY <1>2, <2>1 DEF StoredAlone, Apart
  <2>3. ASSUME NEW v \in ByFallback', visit' # None PROVE v.to <= visit'.from
    BY <2>1, <2>3
  <2> QED  BY <2>2, <2>3 DEF StoredAlone, Apart
<1>8. AlarmTold'
  <2>1. CASE Heard
    BY <2>1 DEF AlarmTold, Heard, Fresh
  <2>2. CASE Flushing
    BY <1>1, <2>2 DEF AlarmTold, Flushing
  <2>3. CASE ~Heard /\ ~Flushing /\ alarm' = alarm /\ postponed' = postponed
    <3>1. \/ postponed \/ now = MaxTime
          \/ /\ OwnCur => cur.from >= alarm
             /\ \A v \in pending : v.own =>
                  \/ v.from >= alarm
                  \/ v.to < alarm /\ \A s \in Held : s.from \in orphans \/ s.from >= alarm
      BY <2>3 DEF AlarmTold
    <3>2. visit # None => postponed \/ visit.from >= alarm
      BY DEF Clock, VisitTypes, Open
    <3>3. ~postponed /\ (\A s \in Held : s.from \in orphans \/ s.from >= alarm) =>
            \A s \in Held' : s.from \in orphans' \/ s.from >= alarm'
      BY <1>2, <2>3, <3>2
    <3> QED  BY <2>3, <3>1, <3>3 DEF AlarmTold, OwnCur
  <2>4. CASE ~Heard /\ alarm' = now /\ due' /\ outbox' # <<>>
    BY <2>4 DEF AlarmTold, Flushing
  <2>5. CASE ~Heard /\ alarm' = now /\ due' /\ outbox' = <<>> /\ alarm # now
    <3>1. outbox = <<>> /\ (visit = None \/ ~(visit.from < now))
      BY <1>1, <2>5, ClosedFacts DEF VisitTypes, Open
    <3>2. ~OwnCur /\ \A v \in pending : v.own => v.to < now
      BY <2>5, <3>1 DEF BothSee
    <3>3. flight.batch = <<>>
      BY <3>1, EmptySeq, LenProperties DEF Flush, VisitTypes, Flight
    <3>4. Held' = {}
      BY <2>5, <3>3, EmptyFacts DEF Held
    <3> QED  BY <2>5, <3>2, <3>4 DEF AlarmTold, OwnCur
  <2>6. CASE now = MaxTime
    BY <2>6 DEF AlarmTold
  <2> QED  BY <2>1, <2>2, <2>3, <2>4, <2>5, <2>6
<1>9. BothSee'
  <2>1. visit # None /\ visit.from < now => outbox' # <<>>
    BY <1>1, ClosedFacts DEF VisitTypes, Open
  <2> QED  BY <1>1, <2>1 DEF BothSee, OwnCur, Heard, Fresh
<1>10. BatchHeads'
  BY <1>1 DEF BatchHeads, Flush, VisitTypes, Flight
<1>11. AppDown' /\ Answered'
  BY DEF AppDown, Answered, Heard, Fresh, NothingObserved
<1>12. FallbackApart' /\ ObservedAfterRows' /\ RowsApart'
  BY DEF FallbackApart, ObservedAfterRows, RowsApart, Heard, Fresh, ByExtension, ByFallback,
         Same, Apart
<1>13. ForeignApart'
  <2>1. \A v \in pending : v.to <= now
    BY DEF Clock, Past
  <2>2. ASSUME NEW v \in pending', ~v.own
        PROVE  (\A s \in Held' : Apart(s, v)) /\ (visit' # None => v.to <= visit'.from)
    BY <1>2, <2>1, <2>2 DEF ForeignApart, Apart
  <2>3. ASSUME cur' # None, cur'.page \notin Page
        PROVE  (\A s \in Held' : s.to <= cur'.from) /\ (visit' # None => visit'.from = now')
    <3>1. visit # None => visit.from = now /\ now \in Int
      BY <2>3 DEF ForeignApart, VisitTypes
    <3> QED  BY <1>2, <2>3, <3>1 DEF ForeignApart
  <2> QED  BY <2>2, <2>3 DEF ForeignApart, Apart
<1> QED
  BY <1>3, <1>4, <1>5, <1>6, <1>7, <1>8, <1>9, <1>10, <1>11, <1>12, <1>13

LEMMA FocusStep == ASSUME VisitsInv, NEW p \in Page, Focus(p) PROVE VisitsInv'
<1>1. [page |-> p, from |-> now] \in Open
  BY DEF VisitsInv, VisitTypes, Open
<1>2. [page |-> p, from |-> now] # None /\ p \in Page \cup Elsewhere
  BY <1>1, NoneAssumption DEF Open
<1> QED
  BY <1>1, <1>2, Closing DEF Focus, VisitsInv, VisitTypes

LEMMA BlurStep == ASSUME VisitsInv, NEW other \in Elsewhere, Blur(other) PROVE VisitsInv'
<1>1. browser /\ other \notin Page
  BY NoneAssumption DEF VisitsInv, Flush, Blur, Elsewhere
<1> QED
  BY <1>1, Closing DEF Blur, VisitsInv, VisitTypes

LEMMA AlarmStep == ASSUME VisitsInv, AlarmFires PROVE VisitsInv'
<1>1. visit' = None \/ (visit' \in Open /\ visit'.from = now)
  <2>1. CASE Closed = <<>>
    <3>1. visit' = visit /\ (visit = None \/ visit.from >= now)
      BY <2>1, ClosedFacts DEF AlarmFires, VisitsInv
    <3>2. visit # None => visit \in Open /\ visit.from <= now /\ visit.from \in 0..MaxTime
      BY DEF VisitsInv, Clock, VisitTypes, Open
    <3> QED  BY <3>1, <3>2 DEF VisitsInv, VisitTypes
  <2>2. CASE Closed # <<>>
    <3>1. visit \in Open /\ visit' = [visit EXCEPT !.from = now]
      BY <2>2, ClosedFacts DEF AlarmFires, VisitsInv, VisitTypes
    <3> QED  BY <3>1 DEF Open, VisitsInv, VisitTypes
  <2> QED  BY <2>1, <2>2
<1>2. page' \in Page <=> visit' # None
  <2>1. page' = page /\ (page \in Page <=> visit # None)
    BY DEF AlarmFires, VisitsInv, Flush
  <2>2. CASE Closed = <<>>
    BY <2>1, <2>2 DEF AlarmFires
  <2>3. CASE Closed # <<>>
    <3>1. visit \in Open /\ visit # None /\ visit' = [visit EXCEPT !.from = now]
      BY <2>3, ClosedFacts DEF AlarmFires, VisitsInv, VisitTypes
    <3>2. visit' \in [page : Page, from : 0..MaxTime]
      BY <3>1 DEF Open, VisitsInv, VisitTypes
    <3> QED  BY <2>1, <3>1, <3>2, NoneAssumption
  <2> QED  BY <2>2, <2>3
<1>3. now = MaxTime \/ alarm # now
  BY VisitsAssumption DEF AlarmFires, VisitsInv, VisitTypes
<1>4. /\ browser /\ Enqueue(Closed) /\ due' = TRUE /\ alarm' = now /\ postponed' = FALSE
      /\ page' \in Page \cup Elsewhere
      /\ UNCHANGED <<now, stopped, faults, browser, flight, appVars, lost, orphans>>
  BY DEF AlarmFires, VisitsInv, VisitTypes
<1> HIDE DEF AlarmFires
<1> QED
  BY <1>1, <1>2, <1>3, <1>4, Closing DEF VisitsInv, VisitTypes

\* The extension is cut off: nothing is sent, and nothing is added to what it holds.
LEMMA CutOff ==
  ASSUME VisitsInv, flight' = NoFlight, due' = FALSE, faults' \in 0..MaxFaults,
         \/ /\ browser' /\ browser /\ alarm' = now /\ postponed' /\ orphans' = orphans
            /\ visit' = visit \/ visit' = None \/ (visit' \in Open /\ visit'.from = now)
         \/ /\ ~browser' /\ visit' = None /\ alarm' = alarm /\ postponed' = postponed
            /\ orphans' = orphans \cup {s.from : s \in ToSet(outbox)},
         browser' \in BOOLEAN, postponed' \in BOOLEAN,
         page' \in Page \cup Elsewhere, page' \in Page <=> visit' # None,
         UNCHANGED <<now, stopped, outbox, appVars, lost, evicted>>
  PROVE  VisitsInv'
<1> USE DEF VisitsInv, appVars
<1>1. Held' \subseteq Held /\ orphans \subseteq orphans'
  BY FlightFacts, EmptyFacts DEF Held
<1>2. /\ Clock' /\ ExtensionApart' /\ FallbackApart' /\ ObservedAfterRows' /\ ForeignApart' /\ StoredAlone'
      /\ RowsApart'
  BY <1>1, HeldShrinks
<1>3. VisitTypes'
  <2>1. ToSet(outbox) \subseteq Span
    BY ToSetIn DEF VisitTypes
  <2>2. \A s \in ToSet(outbox) : s.from \in 0..MaxTime
    BY <2>1 DEF Span
  <2>3. orphans' \in SUBSET (0..MaxTime)
    <3>1. \A x \in {s.from : s \in ToSet(outbox)} : x \in 0..MaxTime
      BY <2>2
    <3> HIDE DEF VisitsInv
    <3>2. orphans \in SUBSET (0..MaxTime)
      BY DEF VisitsInv, VisitTypes
    <3> QED  BY <3>1, <3>2
  <2>4. visit' \in Open \cup {None} /\ alarm' \in 0..MaxTime
    BY DEF VisitTypes
  <2> QED  BY <2>3, <2>4, FlightFacts DEF VisitTypes, VisitRow, Observation, Piece
<1>4. Flush'
  <2>1. Len(outbox) \in Nat
    BY LenProperties DEF VisitTypes
  <2>2. ~browser' => visit' = None /\ \A s \in ToSet(outbox) : s.from \in orphans'
    OBVIOUS
  <2> QED  BY <2>1, <2>2, FlightFacts, EmptyFacts, VisitsAssumption DEF Flush
<1>5. AlarmTold' /\ BothSee' /\ AppDown'
  BY DEF AlarmTold, BothSee, AppDown
<1>6. Answered' /\ BatchHeads'
  BY FlightFacts, EmptyFacts DEF Answered, BatchHeads
<1> QED  BY <1>2, <1>3, <1>4, <1>5, <1>6

\* The browser is closed: what it had not sent is orphaned.
LEMMA QuitStep == ASSUME VisitsInv, BrowserQuits PROVE VisitsInv'
<1>1. /\ ~browser' /\ browser' \in BOOLEAN /\ visit' = None /\ flight' = NoFlight /\ due' = FALSE
      /\ alarm' = alarm /\ postponed' = postponed
      /\ orphans' = orphans \cup {s.from : s \in ToSet(outbox)}
      /\ UNCHANGED <<now, stopped, outbox, appVars, lost, evicted>>
  BY DEF BrowserQuits
<1>2. faults' \in 0..MaxFaults /\ postponed' \in BOOLEAN
  BY <1>1, VisitsAssumption DEF BrowserQuits, Fault, VisitsInv, VisitTypes
<1>3. page' \in Page \cup Elsewhere /\ page' \notin Page
  BY NoneAssumption DEF BrowserQuits, VisitsInv, VisitTypes, Elsewhere
<1> QED  BY <1>1, <1>2, <1>3, CutOff

\* The worker is ended and started again, between events or in the middle of a flush.
LEMMA RestartStep == ASSUME VisitsInv, WorkerRestarts PROVE VisitsInv'
<1>1. /\ browser /\ browser' = browser /\ flight' = NoFlight /\ due' = FALSE /\ alarm' = now
      /\ postponed' = TRUE /\ orphans' = orphans /\ visit' = visit /\ page' = page
      /\ UNCHANGED <<now, stopped, outbox, appVars, lost, evicted>>
  BY DEF WorkerRestarts, lossVars
<1>2. faults' \in 0..MaxFaults
  BY VisitsAssumption DEF WorkerRestarts, Fault, VisitsInv, VisitTypes
<1>3. page \in Page \cup Elsewhere /\ (page \in Page <=> visit # None) /\ browser \in BOOLEAN
  BY DEF VisitsInv, VisitTypes, Flush
<1> QED  BY <1>1, <1>2, <1>3, CutOff

\* It is ended in the middle of a step, and the segment of the visit that was closed is gone.
LEMMA CutStep == ASSUME VisitsInv, NEW p \in Page \cup Elsewhere, StepCut(p) PROVE VisitsInv'
<1>1. /\ browser /\ browser' = browser /\ flight' = NoFlight /\ due' = FALSE /\ alarm' = now
      /\ postponed' = TRUE /\ orphans' = orphans /\ page' = p
      /\ visit' = IF p \in Page THEN [page |-> p, from |-> now] ELSE None
      /\ UNCHANGED <<now, stopped, outbox, appVars, lost, evicted>>
  BY DEF StepCut, lossVars
<1>2. faults' \in 0..MaxFaults /\ browser \in BOOLEAN /\ now \in 0..MaxTime
  BY VisitsAssumption DEF StepCut, Fault, VisitsInv, VisitTypes
<1>3. CASE p \in Page
  <2>1. visit' \in Open /\ visit'.from = now
    BY <1>1, <1>2, <1>3 DEF Open
  <2>2. visit' # None
    BY <2>1, NoneAssumption DEF Open
  <2> QED  BY <1>1, <1>2, <1>3, <2>1, <2>2, CutOff
<1>4. CASE p \notin Page
  BY <1>1, <1>2, <1>4, CutOff
<1> QED  BY <1>3, <1>4

\* It is opened again: a running agent is told at once.
LEMMA StartStep == ASSUME VisitsInv, BrowserStarts PROVE VisitsInv'
<1>1. /\ ~browser /\ browser' = TRUE /\ alarm' = now /\ postponed' = FALSE /\ linked' = appUp
      /\ visit = None
      /\ seen' = (IF appUp THEN now ELSE seen)
      /\ UNCHANGED <<now, page, stopped, faults, visit, outbox, flight, due, appUp, cur, pending, rows,
                     lost, evicted, orphans>>
  BY DEF BrowserStarts, lossVars, Flush, VisitsInv
<1>2. Heard' \/ (cur = None /\ pending = {})
  BY <1>1, SeenNow DEF AppDown, VisitsInv
<1>3. VisitTypes'
  <2>1. VisitTypes /\ alarm' \in 0..MaxTime /\ seen' \in {None} \cup 0..MaxTime
    BY <1>1 DEF VisitsInv, VisitTypes
  <2> QED  BY <1>1, <2>1 DEF VisitTypes
<1>4. Clock'
  <2>1. now \in Int
    BY DEF VisitsInv, VisitTypes
  <2>2. Held' = Held
    BY <1>1 DEF Held
  <2> QED  BY <1>1, <2>1, <2>2 DEF Clock, Past, VisitsInv
<1>5. Flush' /\ AppDown' /\ Answered'
  BY <1>1, <1>2 DEF Flush, AppDown, Answered, NothingObserved, VisitTypes, VisitsInv
<1>6. ExtensionApart' /\ FallbackApart' /\ ForeignApart' /\ StoredAlone' /\ RowsApart' /\ BatchHeads'
  BY <1>1 DEF ExtensionApart, FallbackApart, ForeignApart, StoredAlone, RowsApart, BatchHeads, Held, ByExtension,
              ByFallback, Same, Apart, VisitsInv
<1>7. ObservedAfterRows' /\ AlarmTold' /\ BothSee'
  BY <1>1, <1>2 DEF ObservedAfterRows, AlarmTold, BothSee, OwnCur, VisitsInv
<1> QED  BY <1>3, <1>4, <1>5, <1>6, <1>7 DEF VisitsInv

\* The head of the outbox goes into a request, or there is nothing to send.
LEMMA PostStep == ASSUME VisitsInv, Post PROVE VisitsInv'
<1> USE VisitsAssumption DEF VisitsInv, appVars, lossVars
<1> DEFINE n == IF Len(outbox) < FlushBatch THEN Len(outbox) ELSE FlushBatch
<1>1. /\ due /\ flight = NoFlight
      /\ UNCHANGED <<now, page, stopped, faults, browser, visit, outbox, alarm, postponed, appUp, linked, seen, cur,
                     pending, rows, lost, evicted, orphans>>
  BY DEF Post
<1>2. \/ outbox = <<>> /\ due' = FALSE /\ flight' = flight
      \/ /\ outbox # <<>> /\ due' = due
         /\ flight' = [batch |-> SubSeq(outbox, 1, n), more |-> Len(outbox) > FlushBatch, state |-> "sent"]
  BY DEF Post
<1>3. outbox \in Seq(Span) /\ Len(outbox) \in Nat /\ n \in 0..Len(outbox) /\ n <= FlushBatch
      /\ (outbox # <<>> => n >= 1)
  BY EmptySeq, LenProperties DEF VisitTypes
<1> HIDE DEF n
<1>4. /\ SubSeq(outbox, 1, n) \in Seq(Span) /\ ToSet(SubSeq(outbox, 1, n)) \subseteq ToSet(outbox)
      /\ Len(SubSeq(outbox, 1, n)) = n
      /\ \A i \in 1..n : SubSeq(outbox, 1, n)[i] = outbox[i]
  <2>1. 1 \in 1..(Len(outbox) + 1)
    BY <1>3
  <2>2. /\ SubSeq(outbox, 1, n) \in Seq(Span) /\ ToSet(SubSeq(outbox, 1, n)) \subseteq ToSet(outbox)
        /\ Len(SubSeq(outbox, 1, n)) = IF 1 <= n THEN n - 1 + 1 ELSE 0
        /\ \A i \in 1..Len(SubSeq(outbox, 1, n)) : SubSeq(outbox, 1, n)[i] = outbox[1 + i - 1]
    BY <1>3, <2>1, ToSetSub
  <2> QED  BY <1>3, <2>2
<1>5. /\ flight' \in Flight /\ flight'.state \in {"none", "sent"}
      /\ ToSet(flight'.batch) \subseteq ToSet(outbox) \cup ToSet(flight.batch)
      /\ Len(flight'.batch) <= FlushBatch /\ Len(flight'.batch) <= Len(outbox)
      /\ \A i \in 1..Len(flight'.batch) : outbox[i] = flight'.batch[i]
  <2>1. CASE outbox = <<>> /\ due' = FALSE /\ flight' = flight
    BY <1>1, <1>3, <2>1, FlightFacts, EmptyFacts
  <2>2. CASE flight' = [batch |-> SubSeq(outbox, 1, n), more |-> Len(outbox) > FlushBatch, state |-> "sent"]
    <3>1. (Len(outbox) > FlushBatch) \in BOOLEAN /\ "sent" \in {"none", "sent", "stored", "late", "refused"}
      OBVIOUS
    <3>2. flight' \in Flight
      BY <1>4, <2>2, <3>1 DEF Flight
    <3>3. flight'.batch = SubSeq(outbox, 1, n) /\ flight'.state = "sent"
      BY <2>2
    <3> QED  BY <1>3, <1>4, <3>2, <3>3
  <2> QED  BY <1>2, <2>1, <2>2
<1>6. Held' \subseteq Held
  BY <1>1, <1>5 DEF Held
<1>7. Clock' /\ ExtensionApart' /\ FallbackApart' /\ ObservedAfterRows' /\ ForeignApart' /\ StoredAlone' /\ RowsApart'
  BY <1>1, <1>6, HeldShrinks
<1>8. VisitTypes'
  <2>1. due' \in BOOLEAN /\ flight' \in Flight
    BY <1>2, <1>5 DEF VisitTypes
  <2> QED  BY <1>1, <2>1 DEF VisitTypes, VisitRow, Observation, Piece
<1>9. Flush'
  <2>1. CASE outbox = <<>> /\ due' = FALSE /\ flight' = flight
    BY <1>1, <1>5, <2>1, EmptyFacts, FlightFacts DEF Flush
  <2>2. CASE outbox # <<>> /\ due' = due /\ flight' = [batch |-> SubSeq(outbox, 1, n), more |-> Len(outbox) > FlushBatch, state |-> "sent"]
    <3>1. flight'.batch # <<>>
      BY <1>3, <1>4, <2>2, EmptyFacts
    <3> QED  BY <1>1, <1>5, <2>2, <3>1 DEF Flush
  <2> QED  BY <1>2, <2>1, <2>2
<1>10. AlarmTold'
  <2>1. CASE outbox = <<>> /\ due' = FALSE /\ flight' = flight
    BY <1>1, <1>6, <2>1 DEF AlarmTold, Heard, Fresh, Flushing, OwnCur
  <2>2. CASE outbox # <<>> /\ due' = due
    BY <1>1, <2>2 DEF AlarmTold, Flushing
  <2> QED  BY <1>2, <2>1, <2>2
<1>11. AppDown' /\ Answered' /\ BothSee' /\ BatchHeads'
  BY <1>1, <1>5 DEF AppDown, Answered, BothSee, BatchHeads, OwnCur, Heard, Fresh
<1> QED  BY <1>7, <1>8, <1>9, <1>10, <1>11

\* The flush ends without taking anything from the outbox.
LEMMA FlushEnds ==
  ASSUME VisitsInv, flight' = NoFlight, due' = FALSE, faults' \in 0..MaxFaults,
         Heard \/ NothingObserved,
         UNCHANGED <<now, page, stopped, browser, visit, outbox, alarm, postponed, appVars, lossVars>>
  PROVE  VisitsInv'
<1> USE DEF VisitsInv, appVars, lossVars
<1>1. Held' \subseteq Held
  BY FlightFacts, EmptyFacts DEF Held
<1>2. Clock' /\ ExtensionApart' /\ FallbackApart' /\ ObservedAfterRows' /\ ForeignApart' /\ StoredAlone' /\ RowsApart'
  BY <1>1, HeldShrinks
<1>3. VisitTypes'
  <2>1. NoFlight \in Flight
    BY FlightFacts
  <2>2. flight' \in Flight /\ due' \in BOOLEAN
    BY <2>1
  <2> QED  BY <2>2 DEF VisitTypes, VisitRow, Observation, Piece
<1>4. Flush'
  <2>1. Len(outbox) \in Nat
    BY LenProperties DEF VisitTypes
  <2> QED  BY <2>1, FlightFacts, EmptyFacts, VisitsAssumption DEF Flush, NoFlight
<1>5. AlarmTold' /\ BothSee'
  BY DEF AlarmTold, BothSee, OwnCur, Heard, Fresh, NothingObserved
<1>6. AppDown' /\ Answered' /\ BatchHeads'
  BY FlightFacts, EmptyFacts DEF AppDown, Answered, BatchHeads
<1> QED  BY <1>2, <1>3, <1>4, <1>5, <1>6

LEMMA PostFailsStep == ASSUME VisitsInv, PostFails PROVE VisitsInv'
<1>1. Heard \/ NothingObserved
  BY DEF PostFails, VisitsInv, Answered, AppDown, NothingObserved
<1> QED  BY <1>1, FlushEnds DEF PostFails, VisitsInv, VisitTypes

LEMMA DroppedStep == ASSUME VisitsInv, AnswerDropped PROVE VisitsInv'
<1>1. Heard
  BY AnsweredHeard DEF AnswerDropped, VisitsInv
<1>2. faults' \in 0..MaxFaults
  BY VisitsAssumption DEF AnswerDropped, Fault, VisitsInv, VisitTypes
<1> QED  BY <1>1, <1>2, FlushEnds DEF AnswerDropped, VisitsInv

\* A batch leaves the head of the outbox.
LEMMA AcceptStep == ASSUME VisitsInv, Accept PROVE VisitsInv'
<1> USE VisitsAssumption DEF VisitsInv, appVars
<1> DEFINE n == Len(flight.batch)
           left == {outbox[i] : i \in 1..(IF n < Len(outbox) THEN n ELSE Len(outbox))}
<1>1. /\ flight.state \in {"stored", "late"} /\ flight' = NoFlight /\ due' = flight.more
      /\ outbox' = SubSeq(outbox, n + 1, Len(outbox)) /\ lost' = (lost \/ ~(left \subseteq ToSet(flight.batch)))
      /\ UNCHANGED <<now, page, stopped, faults, browser, visit, alarm, postponed, appUp, linked, seen, cur, pending,
                     rows, evicted, orphans>>
  BY DEF Accept
<1>2. /\ outbox \in Seq(Span) /\ Len(outbox) \in Nat /\ n \in 0..Len(outbox)
      /\ flight.batch \in Seq(Span) /\ Len(outbox) <= Cap
  BY LenProperties DEF VisitTypes, Flight, Flush
<1>3. left = {outbox[i] : i \in 1..n}
  BY <1>2
<1> HIDE DEF n, left
<1>4. /\ outbox' \in Seq(Span) /\ ToSet(outbox') \subseteq ToSet(outbox)
      /\ Len(outbox') = Len(outbox) - n
  <2>1. n + 1 \in 1..(Len(outbox) + 1) /\ Len(outbox) \in 0..Len(outbox)
    BY <1>2
  <2> DEFINE rest == SubSeq(outbox, n + 1, Len(outbox))
  <2>2. /\ rest \in Seq(Span) /\ ToSet(rest) \subseteq ToSet(outbox)
        /\ Len(rest) = IF n + 1 <= Len(outbox) THEN Len(outbox) - (n + 1) + 1 ELSE 0
    BY <1>2, <2>1, ToSetSub
  <2>3. outbox' = rest
    BY <1>1
  <2> HIDE DEF rest
  <2>4. Len(rest) = Len(outbox) - n
    BY <1>2, <2>2
  <2> QED  BY <2>2, <2>3, <2>4
<1>5. Heard
  BY <1>1, AnsweredHeard
<1>6. Held' \subseteq Held
  BY <1>1, <1>4, FlightFacts, EmptyFacts DEF Held
<1>7. Clock' /\ ExtensionApart' /\ FallbackApart' /\ ObservedAfterRows' /\ ForeignApart' /\ StoredAlone' /\ RowsApart'
  BY <1>1, <1>6, HeldShrinks
<1>8. lost' \in BOOLEAN /\ (~evicted => ~lost')
  <2>1. ASSUME ~evicted PROVE left \subseteq ToSet(flight.batch)
    <3>1. \A i \in 1..n : outbox[i] = flight.batch[i] /\ flight.batch[i] \in ToSet(flight.batch)
      BY <1>2, <2>1, ToSetIn DEF BatchHeads, n
    <3> QED  BY <1>3, <3>1
  <2>2. lost' = (lost \/ ~(left \subseteq ToSet(flight.batch)))
    BY <1>1
  <2> QED  BY <2>1, <2>2 DEF VisitTypes, BatchHeads
<1>9. VisitTypes'
  <2>1. Len(outbox') <= Cap /\ due' \in BOOLEAN
    <3>1. flight.more \in BOOLEAN
      BY DEF VisitTypes, Flight
    <3> QED  BY <1>1, <1>2, <1>4, <3>1
  <2>2. flight' \in Flight
    BY <1>1, FlightFacts
  <2> QED  BY <1>1, <1>4, <1>8, <2>1, <2>2 DEF VisitTypes, VisitRow, Observation, Piece
<1>10. Flush'
  <2>1. Len(flight'.batch) = 0 /\ flight'.state = "none" /\ Len(outbox') \in Nat
    BY <1>1, <1>2, <1>4, FlightFacts, EmptyFacts
  <2>2. browser /\ (page \in Page <=> visit # None)
    BY <1>1 DEF Flush
  <2>3. FlushBatch >= 0
    OBVIOUS
  <2>4. browser' /\ flight' = NoFlight /\ (page' \in Page <=> visit' # None)
    BY <1>1, <2>2
  <2> HIDE DEF VisitsInv
  <2> QED  BY <2>1, <2>3, <2>4 DEF Flush
<1>11. AlarmTold' /\ BothSee'
  BY <1>1, <1>5 DEF AlarmTold, BothSee, OwnCur, Heard, Fresh
<1>12. AppDown' /\ Answered' /\ BatchHeads'
  BY <1>1, <1>8, FlightFacts, EmptyFacts DEF AppDown, Answered, BatchHeads
<1> QED  BY <1>7, <1>8, <1>9, <1>10, <1>11, <1>12

-----------------------------------------------------------------------------
(* The agent's side. *)

LEMMA DiscoverStep == ASSUME VisitsInv, Discover PROVE VisitsInv'
<1> USE DEF VisitsInv, extVars, lossVars
<1>1. /\ appUp /\ linked' = TRUE /\ seen' = now
      /\ UNCHANGED <<now, page, stopped, faults, browser, visit, outbox, flight, due, alarm, postponed, appUp, cur,
                     pending, rows, lost, evicted, orphans>>
  BY DEF Discover
<1>2. Heard'
  BY <1>1, SeenNow
<1>3. VisitTypes' /\ Flush' /\ AppDown'
  BY <1>1 DEF VisitTypes, VisitRow, Observation, Piece, Flight, Flush, AppDown
<1>4. Clock'
  <2>1. now \in Int
    BY DEF VisitTypes
  <2> QED  BY <1>1, <2>1 DEF Clock, Past, Held
<1>5. Answered'
  <2>1. now # None /\ now >= now - 1
    BY NoneAssumption DEF VisitTypes
  <2> QED  BY <1>1, <1>2, <2>1 DEF Answered
<1>6. ExtensionApart' /\ FallbackApart' /\ ForeignApart' /\ StoredAlone' /\ RowsApart' /\ BatchHeads'
  BY <1>1 DEF ExtensionApart, FallbackApart, ForeignApart, StoredAlone, RowsApart, BatchHeads, Held, ByExtension,
              ByFallback, Same, Apart
<1>7. ObservedAfterRows' /\ AlarmTold' /\ BothSee'
  BY <1>2 DEF ObservedAfterRows, AlarmTold, BothSee, OwnCur
<1> QED  BY <1>3, <1>4, <1>5, <1>6, <1>7

\* What is recorded is the extension's, and the fallback's rows stay.
LEMMA RecordFacts ==
  ASSUME VisitTypes, NEW segments \in Seq(Span), Record(segments)
  PROVE  /\ rows' \in SUBSET VisitRow /\ ByFallback' = ByFallback
         /\ \A r \in ByExtension' :
              r \in ByExtension \/ (\E s \in ToSet(segments) : Same(r, s) /\ r.key = s.from)
<1> DEFINE new == {[by |-> "extension", key |-> s.from, from |-> s.from, to |-> s.to]
                     : s \in ToSet(segments)}
<1>1. ToSet(segments) \subseteq Span
  BY ToSetIn
<1>2. ASSUME NEW r \in new
      PROVE  /\ r \in VisitRow /\ r.by = "extension"
             /\ \E s \in ToSet(segments) : Same(r, s) /\ r.key = s.from
  <2>1. PICK s \in ToSet(segments) :
          r = [by |-> "extension", key |-> s.from, from |-> s.from, to |-> s.to]
    OBVIOUS
  <2> HIDE DEF new
  <2>2. r \in VisitRow
    BY <1>1, <2>1 DEF VisitRow, Span
  <2>3. r.by = "extension" /\ Same(r, s) /\ r.key = s.from
    BY <2>1 DEF Same
  <2> QED  BY <2>2, <2>3
<1>3. rows \subseteq VisitRow
  BY DEF VisitTypes
<1>4. \A r \in rows' : r \in rows \/ r \in new
  BY DEF Record
<1>5. \A r \in ByFallback : r \in rows'
  BY DEF Record, ByFallback
<1> HIDE DEF new
<1>6. rows' \subseteq VisitRow
  BY <1>2, <1>3, <1>4
<1>7. ByFallback' = ByFallback
  BY <1>2, <1>4, <1>5 DEF ByFallback
<1>8. \A r \in ByExtension' :
        r \in ByExtension \/ (\E s \in ToSet(segments) : Same(r, s) /\ r.key = s.from)
  BY <1>2, <1>4 DEF ByExtension
<1> QED  BY <1>6, <1>7, <1>8

\* A batch, or what went before the row the database refused, is stored.
LEMMA IngestStep == ASSUME VisitsInv, Ingest PROVE VisitsInv'
<1> USE VisitsAssumption DEF VisitsInv
<1>1. /\ flight.state = "sent" /\ appUp /\ linked
      /\ UNCHANGED <<now, page, stopped, browser, visit, outbox, due, alarm, postponed, appUp, linked, cur, pending,
                     lost, evicted, orphans>>
  BY DEF Ingest, lossVars
<1>2. flight.batch \in Seq(Span) /\ Len(flight.batch) \in Nat /\ ~(Len(flight.batch) > MaxIngest)
  BY LenProperties DEF Flush, VisitTypes, Flight
<1>3. /\ seen' = now /\ faults' \in 0..MaxFaults
      /\ \E x \in {"stored", "refused"} : flight' = [flight EXCEPT !.state = x]
  <2>1. CASE UNCHANGED faults /\ flight' = [flight EXCEPT !.state = "stored"]
    BY <1>2, <2>1 DEF Ingest, VisitTypes
  <2>2. CASE Fault /\ flight' = [flight EXCEPT !.state = "refused"]
    BY <1>2, <2>2 DEF Ingest, VisitTypes, Fault
  <2> QED  BY <1>2, <2>1, <2>2 DEF Ingest
<1>4. PICK segments \in Seq(Span) : Record(segments) /\ ToSet(segments) \subseteq ToSet(flight.batch)
  <2>1. CASE Record(flight.batch)
    BY <1>2, <2>1
  <2>2. ASSUME NEW n \in 0..(Len(flight.batch) - 1), Record(SubSeq(flight.batch, 1, n))
        PROVE  \E segments \in Seq(Span) :
                 Record(segments) /\ ToSet(segments) \subseteq ToSet(flight.batch)
    <3>1. n \in 0..Len(flight.batch) /\ 1 \in 1..(Len(flight.batch) + 1)
      BY <1>2
    <3> QED  BY <1>2, <2>2, <3>1, ToSetSub
  <2> QED  BY <1>2, <2>1, <2>2 DEF Ingest
<1>5. /\ rows' \in SUBSET VisitRow /\ ByFallback' = ByFallback
      /\ \A r \in ByExtension' :
           r \in ByExtension \/ (\E s \in Held : Same(r, s) /\ r.key = s.from)
  BY <1>4, RecordFacts DEF Held
<1>6. /\ flight' \in Flight /\ flight'.batch = flight.batch /\ flight'.state \in {"stored", "refused"}
  BY <1>3, FlightFacts
<1>7. Held' = Held
  BY <1>1, <1>6 DEF Held
<1>8. Heard'
  BY <1>1, <1>3, SeenNow
<1>9. VisitTypes'
  <2>1. seen' \in (0..MaxTime) \cup {None}
    BY <1>3 DEF VisitTypes
  <2> QED  BY <1>1, <1>3, <1>5, <1>6, <2>1 DEF VisitTypes, Observation, Piece
<1>10. Clock'
  <2>1. ASSUME NEW r \in rows' PROVE Past(r) /\ r.key = r.from
    <3>1. r.by \in {"extension", "fallback"}
      BY <1>5 DEF VisitRow
    <3> QED  BY <1>5, <3>1 DEF ByExtension, ByFallback, Clock, Past, Same
  <2>2. seen' <= now /\ alarm' <= now'
        /\ (visit' # None => visit'.from <= now' /\ (postponed' \/ alarm' <= visit'.from))
        /\ (cur' # None => cur'.from <= cur'.to /\ cur'.to = now')
    BY <1>1, <1>3 DEF Clock, VisitTypes
  <2> QED  BY <1>1, <1>7, <2>1, <2>2 DEF Clock, Past
<1>11. Flush' /\ AppDown'
  BY <1>1, <1>6 DEF Flush, AppDown, NoFlight
<1>12. Answered'
  BY <1>1, <1>3, <1>6, <1>8 DEF Answered
<1>13. ExtensionApart'
  <2>1. ASSUME NEW r \in (Held \cup ByExtension)'
        PROVE  \E s \in Held \cup ByExtension : Same(r, s)
    BY <1>5, <1>7 DEF Same
  <2>2. \A s, u \in (Held \cup ByExtension)' : Same(s, u) \/ Apart(s, u)
    BY <2>1 DEF ExtensionApart, Same, Apart
  <2>3. visit' # None => \A s \in (Held \cup ByExtension)' : s.to <= visit'.from
    BY <1>1, <2>1 DEF ExtensionApart, Same
  <2> QED  BY <2>2, <2>3 DEF ExtensionApart, Same, Apart
<1>14. FallbackApart' /\ ForeignApart' /\ StoredAlone'
  BY <1>1, <1>5, <1>7 DEF FallbackApart, ForeignApart, StoredAlone, Same, Apart
<1>15. RowsApart'
  BY <1>1, <1>5 DEF RowsApart, StoredAlone, Same, Apart
<1>16. ObservedAfterRows' /\ AlarmTold' /\ BothSee'
  BY <1>8 DEF ObservedAfterRows, AlarmTold, BothSee, OwnCur
<1>17. BatchHeads'
  BY <1>1, <1>6 DEF BatchHeads
<1> QED  BY <1>9, <1>10, <1>11, <1>12, <1>13, <1>14, <1>15, <1>16, <1>17

\* The agent dies: what it observed is forgotten with it.
LEMMA DiesStep == ASSUME VisitsInv, AgentDies PROVE VisitsInv'
<1> USE DEF VisitsInv, lossVars
<1>1. /\ ~appUp' /\ linked' = FALSE /\ seen' = None /\ cur' = None /\ pending' = {}
      /\ faults' \in 0..MaxFaults
      /\ UNCHANGED <<now, page, stopped, browser, visit, outbox, due, alarm, postponed, rows, lost, evicted, orphans>>
  BY VisitsAssumption DEF AgentDies, Fault, VisitTypes
<1>2. /\ flight' \in Flight /\ flight'.batch = flight.batch
      /\ IF flight.state = "none" THEN flight' = NoFlight ELSE flight'.state = "refused"
  <2>1. CASE flight = NoFlight
    BY <2>1, FlightFacts DEF AgentDies
  <2>2. CASE flight # NoFlight
    BY <2>2, FlightFacts DEF AgentDies, Flush
  <2> QED  BY <2>1, <2>2
<1>3. Held' = Held
  BY <1>1, <1>2 DEF Held
<1>4. VisitTypes'
  <2>1. appUp' \in BOOLEAN /\ linked' \in BOOLEAN
    BY DEF AgentDies
  <2> QED  BY <1>1, <1>2, <2>1 DEF VisitTypes, VisitRow, Piece
<1>5. Clock'
  BY <1>1, <1>3 DEF Clock, Past
<1>6. Flush' /\ AppDown' /\ Answered'
  BY <1>1, <1>2, FlightFacts DEF Flush, AppDown, Answered
<1>7. ExtensionApart' /\ FallbackApart' /\ ForeignApart' /\ StoredAlone' /\ RowsApart' /\ BatchHeads'
  BY <1>1, <1>2, <1>3 DEF ExtensionApart, FallbackApart, ForeignApart, StoredAlone, RowsApart, BatchHeads, ByExtension,
              ByFallback, Same, Apart
<1>8. ObservedAfterRows' /\ AlarmTold' /\ BothSee'
  BY <1>1 DEF ObservedAfterRows, AlarmTold, BothSee, OwnCur
<1> QED  BY <1>4, <1>5, <1>6, <1>7, <1>8

LEMMA SwitchStep ==
  ASSUME VisitsInv, AgentStarts \/ (\E value \in BOOLEAN : SetStopped(value)) \/ UNCHANGED visitVars
  PROVE  VisitsInv'
<1> USE DEF VisitsInv, extVars, appVars, lossVars
<1>1. /\ UNCHANGED <<now, page, browser, visit, outbox, flight, due, alarm, postponed, linked, seen, cur,
                     pending, rows, lost, evicted, orphans>>
      /\ appUp' \in BOOLEAN /\ stopped' \in BOOLEAN /\ faults' \in 0..MaxFaults /\ (appUp => appUp')
  <2>1. CASE AgentStarts
    BY <2>1 DEF AgentStarts, VisitTypes
  <2>2. ASSUME NEW value \in BOOLEAN, SetStopped(value) PROVE faults' \in 0..MaxFaults /\ stopped' \in BOOLEAN
    BY <2>2, VisitsAssumption DEF SetStopped, Fault, VisitTypes
  <2>3. CASE \E value \in BOOLEAN : SetStopped(value)
    BY <2>2, <2>3 DEF SetStopped, VisitTypes
  <2>4. CASE UNCHANGED visitVars
    BY <2>4 DEF visitVars, VisitTypes
  <2> QED  BY <2>1, <2>3, <2>4
<1>2. VisitTypes' /\ Flush' /\ AppDown'
  BY <1>1 DEF VisitTypes, VisitRow, Observation, Piece, Flight, Flush, AppDown
<1>3. Clock'
  BY <1>1 DEF Clock, Past, Held
<1>4. Answered'
  BY <1>1 DEF Answered, AppDown, NothingObserved, Heard, Fresh
<1>5. ExtensionApart' /\ FallbackApart' /\ ForeignApart' /\ StoredAlone' /\ RowsApart' /\ BatchHeads'
  BY <1>1 DEF ExtensionApart, FallbackApart, ForeignApart, StoredAlone, RowsApart, BatchHeads, Held, ByExtension,
              ByFallback, Same, Apart
<1>6. ObservedAfterRows' /\ AlarmTold' /\ BothSee'
  BY <1>1 DEF ObservedAfterRows, AlarmTold, BothSee, OwnCur, Heard, Fresh, Flushing, Held, ByExtension
<1> QED  BY <1>2, <1>3, <1>4, <1>5, <1>6

\* Focus moves beside the extension.
LEMMA WanderStep == ASSUME VisitsInv, NEW other \in Elsewhere, Wander(other) PROVE VisitsInv'
<1> USE DEF VisitsInv, extVars, appVars, lossVars
<1>1. /\ page \notin Page /\ page' \notin Page /\ page' \in Page \cup Elsewhere
      /\ UNCHANGED <<now, stopped, faults, browser, visit, outbox, flight, due, alarm, postponed, appUp,
                     linked, seen, cur, pending, rows, lost, evicted, orphans>>
  BY NoneAssumption DEF Wander, Elsewhere
<1>2. VisitTypes' /\ Flush' /\ AppDown' /\ Clock' /\ Answered'
  BY <1>1 DEF VisitTypes, VisitRow, Observation, Piece, Flight, Flush, AppDown, Clock, Past, Held,
              Answered, NothingObserved, Heard, Fresh
<1>3. ExtensionApart' /\ FallbackApart' /\ ForeignApart' /\ StoredAlone' /\ RowsApart' /\ BatchHeads'
  BY <1>1 DEF ExtensionApart, FallbackApart, ForeignApart, StoredAlone, RowsApart, BatchHeads, Held,
              ByExtension, ByFallback, Same, Apart
<1>4. ObservedAfterRows' /\ AlarmTold' /\ BothSee'
  BY <1>1 DEF ObservedAfterRows, AlarmTold, BothSee, OwnCur, Heard, Fresh, Flushing, Held, ByExtension
<1> QED  BY <1>2, <1>3, <1>4

-----------------------------------------------------------------------------
(* Time. *)

\* What one poll makes of the observation that is open.
LEMMA WatchFacts ==
  ASSUME VisitTypes, Clock, now < MaxTime, NEW p \in Page \cup Elsewhere, NEW w, w = Watch(p, now + 1)
  PROVE  /\ w.cur \in Observation \cup {None}
         /\ w.cur # None =>
              /\ w.cur.page = p /\ w.cur.from <= w.cur.to /\ w.cur.to = now + 1
              /\ \/ w.cur.from = now + 1
                 \/ cur # None /\ cur.page = p /\ w.cur.from = cur.from /\ w.done = {}
         /\ \A v \in w.done :
              /\ v \in Piece /\ cur # None /\ v.from = cur.from /\ v.from < v.to
              /\ v.own <=> cur.page \in Page
              /\ v.to = now \/ (v.to = now + 1 /\ p = cur.page)
         /\ \A v, u \in w.done : v = u
<1> USE VisitsAssumption, NoneAssumption
<1>1. now \in 0..MaxTime /\ now + 1 \in 0..MaxTime /\ now + 1 > now
  BY DEF VisitTypes
<1>2. cur # None => /\ cur \in Observation /\ cur.page \in Page \cup Foreign /\ cur.from \in 0..MaxTime
                    /\ cur.from <= cur.to /\ cur.to = now
  BY DEF VisitTypes, Clock, Observation
<1>3. ASSUME NEW c \in Observation, NEW v \in Ended(c)
      PROVE  /\ v \in Piece /\ v.from = c.from /\ v.to = c.to /\ v.from < v.to
             /\ v.own <=> c.page \in Page
  <2>1. v = [own |-> c.page \in Page, from |-> c.from, to |-> c.to] /\ c.to > c.from
    BY <1>3 DEF Ended
  <2>2. (c.page \in Page) \in BOOLEAN /\ c.from \in 0..MaxTime /\ c.to \in 0..MaxTime
    BY DEF Observation
  <2>3. v \in Piece
    BY <2>1, <2>2, Zenon DEF Piece
  <2>4. v.own <=> c.page \in Page
    BY <2>1
  <2>5. v.from = c.from /\ v.to = c.to
    BY <2>1
  <2> QED  BY <2>1, <2>2, <2>3, <2>4, <2>5
<1>4. ASSUME NEW c, NEW v \in Ended(c), NEW u \in Ended(c) PROVE v = u
  BY <1>4 DEF Ended
<1>5. Ended(None) = {}
  BY DEF Ended
<1>6. \A q \in Page \cup Foreign :
        /\ Begin(q, now + 1) \in Observation /\ Begin(q, now + 1) # None
        /\ Begin(q, now + 1).page = q
        /\ Begin(q, now + 1).from = now + 1 /\ Begin(q, now + 1).to = now + 1
  BY <1>1 DEF Begin, Observation
<1>7. CASE p = None
  <2>1. w.cur = None /\ w.done = Ended(cur)
    BY <1>7 DEF Watch
  <2> QED  BY <1>2, <1>3, <1>4, <1>5, <2>1
<1>8. CASE p # None /\ cur = None
  <2>1. w.cur = Begin(p, now + 1) /\ w.done = {}
    BY <1>8 DEF Watch
  <2> QED  BY <1>1, <1>6, <1>8, <2>1 DEF Elsewhere
<1>9. CASE p # None /\ cur # None /\ cur.page # p
  <2>1. w.cur = Begin(p, now + 1) /\ w.done = Ended(cur)
    BY <1>9 DEF Watch
  <2>2. \A v \in Ended(cur) : /\ v \in Piece /\ v.from = cur.from /\ v.to = now /\ v.from < v.to
                              /\ v.own <=> cur.page \in Page
    BY <1>2, <1>3, <1>9
  <2>3. \A v, u \in Ended(cur) : v = u
    BY <1>4
  <2> QED  BY <1>1, <1>6, <1>9, <2>1, <2>2, <2>3 DEF Elsewhere
<1>10. CASE p # None /\ cur # None /\ cur.page = p
  <2> DEFINE c == [cur EXCEPT !.to = now + 1]
  <2>1. c \in Observation /\ c.from = cur.from /\ c.to = now + 1 /\ c.page = p
    BY <1>1, <1>2, <1>10 DEF Observation
  <2>2. CASE (now + 1) - cur.from >= Chunk
    <3>1. w = [cur |-> Begin(p, now + 1), done |-> Ended(c)]
      BY <1>10, <2>2, Zenon DEF Watch
    <3> HIDE DEF c
    <3>2. w.cur = Begin(p, now + 1) /\ w.done = Ended(c)
      BY <3>1
    <3>3. \A v \in Ended(c) : /\ v \in Piece /\ v.from = cur.from /\ v.to = now + 1 /\ v.from < v.to
                              /\ v.own <=> cur.page \in Page
      BY <1>3, <1>10, <2>1
    <3>4. \A v, u \in Ended(c) : v = u
      BY <1>4
    <3> QED  BY <1>1, <1>2, <1>6, <1>10, <3>2, <3>3, <3>4
  <2>3. CASE ~((now + 1) - cur.from >= Chunk)
    <3>3. w = [cur |-> c, done |-> {}]
      BY <1>10, <2>3, Zenon DEF Watch
    <3> HIDE DEF c
    <3>1. w.cur = c /\ w.done = {}
      BY <3>3
    <3>2. c # None
      BY <2>1 DEF Observation
    <3> QED  BY <1>1, <1>2, <1>10, <2>1, <3>1, <3>2
  <2> QED  BY <2>2, <2>3
<1> QED  BY <1>7, <1>8, <1>9, <1>10

\* No poll comes while a request is under way, unless its answer is all that is missing.
LEMMA Quiet ==
  ASSUME VisitsInv, Tick, appUp, ~Heard
  PROVE  ~due /\ flight = NoFlight
<1>1. flight.state # "stored"
  BY AnsweredHeard DEF VisitsInv
<1> QED  BY <1>1 DEF Tick, VisitsInv, Flush

\* What a poll of the fallback that has not heard of the extension does.
LEMMA PollFacts ==
  ASSUME VisitsInv, Tick, appUp, ~Heard
  PROVE  /\ cur' \in Observation \cup {None}
         /\ cur' # None =>
              /\ page = cur'.page /\ cur'.from <= cur'.to /\ cur'.to = now + 1
              /\ \/ cur'.from = now + 1
                 \/ /\ cur # None /\ cur.page = page /\ cur'.from = cur.from
                    /\ \A v \in pending' \cup ByFallback' : \E u \in pending \cup ByFallback : Same(u, v)
         /\ pending' \in SUBSET Piece /\ rows' \in SUBSET VisitRow /\ ByExtension' = ByExtension
         /\ \A v \in pending' :
              \/ v \in pending
              \/ /\ cur # None /\ v.from = cur.from /\ v.from < v.to /\ (v.own <=> cur.page \in Page)
                 /\ v.to = now \/ (v.to = now + 1 /\ page = cur.page)
         /\ \A r \in ByFallback' :
              \/ r \in ByFallback
              \/ /\ r.key = r.from /\ (now + 1) - r.from >= Grace
                 /\ \/ \E v \in pending : Same(v, r)
                    \/ /\ cur # None /\ r.from = cur.from /\ r.from < r.to
                       /\ r.to = now \/ (r.to = now + 1 /\ page = cur.page)
         /\ \A v, u \in pending' \cup ByFallback' :
              \/ Same(v, u)
              \/ \E y \in pending \cup ByFallback : Same(y, v) \/ Same(y, u)
<1> USE DEF VisitsInv
<1> DEFINE p == IF stopped THEN None ELSE page
           w == Watch(p, now + 1)
           held == pending \cup w.done
           ready == {v \in held : Ripe(v, now + 1)}
           new == {[by |-> "fallback", key |-> v.from, from |-> v.from, to |-> v.to] : v \in ready}
<1>1. p \in Page \cup Elsewhere /\ (p # None => p = page) /\ now < MaxTime
  BY DEF VisitTypes, Tick, Elsewhere
<1>2. cur' = w.cur /\ pending' = held \ ready /\ rows' = rows \cup new
  BY DEF Tick, FallbackPoll, Heard
<1> HIDE DEF p
<1>3. /\ w.cur \in Observation \cup {None}
      /\ w.cur # None =>
           /\ w.cur.page = p /\ p # None /\ w.cur.from <= w.cur.to /\ w.cur.to = now + 1
           /\ \/ w.cur.from = now + 1
              \/ cur # None /\ cur.page = p /\ w.cur.from = cur.from /\ w.done = {}
      /\ \A v \in w.done :
           /\ v \in Piece /\ cur # None /\ v.from = cur.from /\ v.from < v.to
           /\ v.own <=> cur.page \in Page
           /\ v.to = now \/ (v.to = now + 1 /\ page = cur.page)
      /\ \A v, u \in w.done : v = u
  <2>1. /\ w.cur \in Observation \cup {None}
        /\ w.cur # None =>
             /\ w.cur.page = p /\ w.cur.from <= w.cur.to /\ w.cur.to = now + 1
             /\ \/ w.cur.from = now + 1
                \/ cur # None /\ cur.page = p /\ w.cur.from = cur.from /\ w.done = {}
        /\ \A v \in w.done :
             /\ v \in Piece /\ cur # None /\ v.from = cur.from /\ v.from < v.to
             /\ v.own <=> cur.page \in Page
             /\ v.to = now \/ (v.to = now + 1 /\ p = cur.page)
        /\ \A v, u \in w.done : v = u
    BY <1>1, WatchFacts
  <2>2. /\ w.cur # None /\ w.cur \in Observation => w.cur.page # None
        /\ cur # None => cur.page # None
    BY NoneAssumption DEF Observation, VisitTypes
  <2> QED  BY <1>1, <2>1, <2>2
<1> HIDE DEF w
<1>4. held \subseteq Piece /\ pending' \subseteq held /\ ready \subseteq held
  BY <1>2, <1>3 DEF VisitTypes
<1>5. ASSUME NEW r \in new
      PROVE  /\ r \in VisitRow /\ r.by = "fallback" /\ r.key = r.from /\ (now + 1) - r.from >= Grace
             /\ \E v \in held : Same(v, r)
  <2>1. PICK v \in ready : r = [by |-> "fallback", key |-> v.from, from |-> v.from, to |-> v.to]
    BY <1>5
  <2> HIDE DEF held
  <2>2. v \in held /\ v \in Piece /\ (now + 1) - v.from >= Grace
    BY <1>4, <2>1, Zenon DEF Ripe, ready
  <2> HIDE DEF new, ready, held
  <2>3. r.by = "fallback" /\ r.key = v.from /\ r.from = v.from /\ r.to = v.to
    BY <2>1
  <2>4. r \in VisitRow
    BY <2>1, <2>2 DEF VisitRow, Piece
  <2> QED  BY <2>2, <2>3, <2>4 DEF Same
<1> HIDE DEF ready, new
<1>6. rows' \in SUBSET VisitRow /\ ByExtension' = ByExtension
  BY <1>2, <1>5 DEF ByExtension, VisitTypes
<1>7. \A r \in ByFallback' : r \in ByFallback \/ r \in new
  BY <1>2 DEF ByFallback
<1>8. ASSUME NEW v \in pending' \cup ByFallback'
      PROVE  (\E u \in pending \cup ByFallback : Same(u, v)) \/ (\E u \in w.done : Same(u, v))
  BY <1>4, <1>5, <1>7 DEF Same
<1>9. ASSUME NEW v \in pending' \cup ByFallback', NEW u \in pending' \cup ByFallback'
      PROVE  Same(v, u) \/ \E y \in pending \cup ByFallback : Same(y, v) \/ Same(y, u)
  BY <1>3, <1>8 DEF Same
<1>10. ASSUME NEW r \in ByFallback'
       PROVE  \/ r \in ByFallback
              \/ /\ r.key = r.from /\ (now + 1) - r.from >= Grace
                 /\ \/ \E v \in pending : Same(v, r)
                    \/ /\ cur # None /\ r.from = cur.from /\ r.from < r.to
                       /\ r.to = now \/ (r.to = now + 1 /\ page = cur.page)
  BY <1>1, <1>3, <1>5, <1>7 DEF Same
<1>11. ASSUME NEW v \in pending'
       PROVE  \/ v \in pending
              \/ /\ cur # None /\ v.from = cur.from /\ v.from < v.to /\ (v.own <=> cur.page \in Page)
                 /\ v.to = now \/ (v.to = now + 1 /\ page = cur.page)
  BY <1>3, <1>4
<1>12. cur' # None =>
         /\ page = cur'.page /\ cur'.from <= cur'.to /\ cur'.to = now + 1
         /\ \/ cur'.from = now + 1
            \/ /\ cur # None /\ cur.page = page /\ cur'.from = cur.from
               /\ \A v \in pending' \cup ByFallback' : \E u \in pending \cup ByFallback : Same(u, v)
  BY <1>1, <1>2, <1>3, <1>8
<1> QED  BY <1>2, <1>3, <1>4, <1>6, <1>9, <1>10, <1>11, <1>12

\* The fallback has no patience left for a stretch that began before the last alarm.
LEMMA RipeBeforeAlarm ==
  ASSUME VisitTypes, Clock, Tick, browser, NEW x \in 0..MaxTime, (now + 1) - x >= Grace
  PROVE  x < alarm
<1>1. now \in Int /\ alarm \in Int /\ x \in Int /\ now - alarm < Checkpoint /\ Checkpoint < Grace
      /\ Checkpoint \in Int /\ Grace \in Int
  BY VisitsAssumption DEF VisitTypes, Tick
<1> QED  BY <1>1

\* A poll that has not heard of the extension.
LEMMA PollStep ==
  ASSUME VisitsInv, Tick, appUp, ~Heard
  PROVE  VisitsInv'
<1> USE VisitsAssumption, NoneAssumption DEF VisitsInv
<1>1. /\ now < MaxTime /\ now' = now + 1 /\ flight' = flight /\ flight = NoFlight /\ ~due
      /\ UNCHANGED <<page, stopped, faults, browser, visit, outbox, due, alarm, postponed, appUp, linked,
                     seen, lost, evicted>>
      /\ orphans' = IF postponed THEN orphans \cup Waiting ELSE orphans
  BY Quiet DEF Tick, Heard
<1>2. now \in 0..MaxTime /\ now' \in 0..MaxTime /\ now' > now
  BY <1>1 DEF VisitTypes
<1>3. /\ Held' = Held /\ Held \subseteq Span /\ orphans \subseteq orphans' /\ orphans' \in SUBSET (0..MaxTime)
      /\ postponed => /\ \A s \in Held : s.from \in orphans'
                      /\ visit # None => visit.from \in orphans'
  <2>1. Held' = Held /\ Held = ToSet(outbox)
    BY <1>1, FlightFacts, EmptyFacts DEF Held
  <2>2. ToSet(outbox) \subseteq Span /\ (visit # None => visit.from \in 0..MaxTime)
    BY ToSetIn DEF VisitTypes, Open
  <2>3. \A s \in ToSet(outbox) : s.from \in 0..MaxTime
    BY <2>2 DEF Span
  <2>4. Waiting \subseteq 0..MaxTime
    BY <2>2, <2>3 DEF Waiting
  <2>5. orphans \in SUBSET (0..MaxTime)
    BY DEF VisitTypes
  <2>6. (\A s \in ToSet(outbox) : s.from \in Waiting) /\ (visit # None => visit.from \in Waiting)
    BY DEF Waiting
  <2> QED  BY <1>1, <2>1, <2>2, <2>4, <2>5, <2>6
<1>4. /\ cur' \in Observation \cup {None}
      /\ pending' \in SUBSET Piece /\ rows' \in SUBSET VisitRow /\ ByExtension' = ByExtension
  BY PollFacts
<1>5. cur # None => cur.from \in 0..MaxTime /\ cur.from <= now
  BY DEF VisitTypes, Clock, Observation
<1>6. \A v \in Held \cup pending \cup rows : Past(v)
  BY DEF Clock
<1>7. VisitTypes'
  BY <1>1, <1>2, <1>3, <1>4 DEF VisitTypes
<1>8. Clock'
  <2>1. \A v \in pending' : v.from < v.to /\ v.to <= now'
    BY <1>1, <1>2, <1>4, <1>6, PollFacts DEF Past, Piece
  <2>2. ASSUME NEW r \in rows' PROVE r.from < r.to /\ r.to <= now' /\ r.key = r.from
    <3>1. r \in VisitRow /\ r.by \in {"extension", "fallback"} /\ r.from \in 0..MaxTime /\ r.to \in 0..MaxTime
      BY <1>4 DEF VisitRow
    <3>2. CASE r \in rows
      BY <1>2, <1>6, <3>1, <3>2 DEF Past, Clock
    <3>3. CASE r \notin rows
      <4>1. r \in ByFallback' /\ r \notin ByFallback
        BY <1>4, <3>1, <3>3 DEF ByExtension, ByFallback
      <4>2. \A v \in pending : v.from < v.to /\ v.to <= now
        BY <1>6 DEF Past
      <4> QED  BY <1>1, <1>2, <3>1, <4>1, <4>2, PollFacts DEF Same
    <3> QED  BY <3>2, <3>3
  <2>3. ASSUME NEW s \in Held' PROVE s.from < s.to /\ s.to <= now'
    <3>1. s \in Span
      BY <1>3, <2>3, ToSetIn DEF Held, VisitTypes, Flight
    <3> QED  BY <1>2, <1>3, <1>6, <3>1 DEF Past, Span
  <2>4. /\ alarm' <= now' /\ (seen' # None => seen' <= now')
        /\ visit' # None => visit'.from <= now' /\ (postponed' \/ alarm' <= visit'.from)
    BY <1>1, <1>2 DEF Clock, VisitTypes, Open
  <2>5. cur' # None => cur'.from <= cur'.to /\ cur'.to = now'
    BY <1>1, PollFacts
  <2> QED  BY <2>1, <2>2, <2>3, <2>4, <2>5 DEF Clock, Past
<1>9. Flush' /\ AppDown' /\ Answered'
  BY <1>1, <1>3, FlightFacts DEF Flush, AppDown, Answered
<1>10. ExtensionApart' /\ BatchHeads'
  BY <1>1, <1>3, <1>4 DEF ExtensionApart, BatchHeads, Same, Apart
<1>11. FallbackApart'
  <2>1. ASSUME NEW v \in pending' \cup ByFallback'
        PROVE  \/ \E y \in pending \cup ByFallback : Same(y, v)
               \/ cur # None /\ v.from = cur.from
    BY PollFacts DEF Same
  <2>2. ASSUME NEW v \in pending' \cup ByFallback', NEW u \in pending' \cup ByFallback'
        PROVE  Same(v, u) \/ Apart(v, u)
    <3>1. CASE Same(v, u)
      BY <3>1
    <3>2. CASE \E y \in pending \cup ByFallback : Same(y, v)
      BY <2>1, <3>2 DEF FallbackApart, Same, Apart
    <3>3. CASE \E y \in pending \cup ByFallback : Same(y, u)
      BY <2>1, <3>3 DEF FallbackApart, Same, Apart
    <3> QED  BY <3>1, <3>2, <3>3, PollFacts
  <2>3. ASSUME NEW v \in pending' \cup ByFallback', cur' # None PROVE v.to <= cur'.from
    <3>1. v.to <= now'
      BY <1>8 DEF Clock, Past, ByFallback
    <3>2. CASE cur'.from = now + 1
      BY <1>1, <3>1, <3>2
    <3>3. CASE cur'.from # now + 1
      <4>1. cur # None /\ cur'.from = cur.from /\ \E u \in pending \cup ByFallback : Same(u, v)
        BY <2>3, <3>3, PollFacts
      <4> QED  BY <4>1 DEF FallbackApart, Same
    <3> QED  BY <3>2, <3>3
  <2> QED  BY <2>2, <2>3 DEF FallbackApart, Same, Apart
<1>12. \A s \in ByExtension : /\ s.to <= now
                              /\ \A v \in pending : s.to <= v.from
                              /\ cur # None => s.to <= cur.from
  BY <1>6 DEF ObservedAfterRows, ByExtension, Past
<1>13. ObservedAfterRows'
  <2>1. \A s \in ByExtension : s.to \in 0..MaxTime
    BY DEF ByExtension, VisitTypes, VisitRow
  <2>2. ASSUME NEW s \in ByExtension', NEW v \in pending' PROVE s.to <= v.from
    BY <1>4, <1>12, PollFacts
  <2>3. ASSUME NEW s \in ByExtension', cur' # None PROVE s.to <= cur'.from
    BY <1>1, <1>2, <1>4, <1>12, <2>1, <2>3, PollFacts
  <2> QED  BY <2>2, <2>3 DEF ObservedAfterRows
<1>14. browser /\ ~postponed =>
         /\ OwnCur => cur.from >= alarm
         /\ \A v \in pending : v.own =>
              v.from >= alarm \/ (v.to < alarm /\ \A s \in Held : s.from \in orphans \/ s.from >= alarm)
  BY <1>1, <1>2 DEF AlarmTold, Flushing
<1>15. AlarmTold'
  <2>1. alarm <= now /\ alarm \in 0..MaxTime
    BY DEF Clock, VisitTypes
  <2>2. ASSUME browser, ~postponed, NEW v \in pending', v.own
        PROVE  \/ v.from >= alarm
               \/ v.to < alarm /\ \A s \in Held : s.from \in orphans \/ s.from >= alarm
    <3>1. v \in pending \/ (cur # None /\ v.from = cur.from /\ cur.page \in Page)
      BY <2>2, PollFacts
    <3> QED  BY <1>14, <2>2, <3>1 DEF OwnCur
  <2>3. ASSUME browser, ~postponed, OwnCur' PROVE cur'.from >= alarm
    <3>1. cur'.from = now + 1 \/ (OwnCur /\ cur'.from = cur.from)
      BY <2>3, PollFacts DEF OwnCur
    <3> QED  BY <1>1, <1>2, <1>14, <2>1, <2>3, <3>1
  <2> QED  BY <1>1, <1>3, <2>2, <2>3 DEF AlarmTold
<1>16. BothSee'
  <2>1. CASE page \in Page
    <3>1. visit # None /\ visit.from \in 0..MaxTime /\ visit.from <= now
      BY <2>1 DEF Flush, Clock, VisitTypes, Open
    <3> QED  BY <1>1, <1>2, <3>1 DEF BothSee
  <2>2. CASE page \notin Page
    <3>1. ~OwnCur'
      BY <2>2, PollFacts DEF OwnCur
    <3>2. \A v \in pending : v.to <= now /\ v \in Piece
      BY <1>6 DEF Past, VisitTypes
    <3>3. ASSUME NEW v \in pending', v.own PROVE v.to < now'
      <4>1. v \in pending \/ v.to = now
        BY <2>2, <3>3, PollFacts
      <4> QED  BY <1>1, <1>2, <3>2, <4>1 DEF Piece
    <3> QED  BY <3>1, <3>3 DEF BothSee
  <2> QED  BY <2>1, <2>2
<1>17. ASSUME cur # None, cur.page \notin Page
       PROVE  (\A s \in Held : s.to <= cur.from) /\ (visit # None => visit.from = now /\ page \in Page)
  BY <1>17 DEF ForeignApart, Flush
<1>18. ForeignApart'
  <2>1. ASSUME NEW v \in pending', ~v.own
        PROVE  (\A s \in Held : Apart(s, v)) /\ (visit # None => v.to <= visit.from)
    <3>1. CASE v \in pending
      BY <2>1, <3>1 DEF ForeignApart
    <3>2. CASE v \notin pending
      <4>1. /\ cur # None /\ v.from = cur.from /\ cur.page \notin Page
            /\ v.to = now \/ (v.to = now + 1 /\ page = cur.page)
        BY <2>1, <3>2, PollFacts
      <4>2. visit # None => v.to = now /\ visit.from = now
        BY <1>17, <4>1
      <4> QED  BY <1>2, <1>17, <4>1, <4>2 DEF Apart
    <3> QED  BY <3>1, <3>2
  <2>2. ASSUME cur' # None, cur'.page \notin Page
        PROVE  (\A s \in Held : s.to <= cur'.from) /\ visit = None
    <3>1. page \notin Page /\ visit = None
      BY <2>2, PollFacts DEF Flush
    <3>2. CASE cur'.from = now + 1
      <4>1. \A s \in Held : s.to \in 0..MaxTime /\ s.to <= now
        BY <1>3, <1>6 DEF Past, Span
      <4> QED  BY <1>2, <3>1, <3>2, <4>1
    <3>3. CASE cur'.from # now + 1
      <4>1. cur # None /\ cur.page \notin Page /\ cur'.from = cur.from
        BY <2>2, <3>1, <3>3, PollFacts
      <4> QED  BY <1>17, <3>1, <4>1
    <3> QED  BY <3>2, <3>3
  <2> QED  BY <1>1, <1>3, <2>1, <2>2 DEF ForeignApart, Apart
<1>19. ASSUME NEW v \in ByFallback', v \notin ByFallback
       PROVE  /\ visit # None => visit.from \in orphans' \/ v.to <= visit.from
              /\ \A s \in Held : s.from \in orphans' \/ Apart(s, v)
              /\ \A r \in ByExtension : r.to <= v.from
  <2>1. v \in VisitRow /\ (now + 1) - v.from >= Grace /\ v.from \in 0..MaxTime /\ v.to \in 0..MaxTime
    BY <1>4, <1>19, PollFacts DEF ByFallback, VisitRow
  <2>2. \/ \E u \in pending : Same(u, v)
        \/ cur # None /\ v.from = cur.from /\ (v.to = now \/ (v.to = now + 1 /\ page = cur.page))
    BY <1>19, PollFacts
  <2>3. \A r \in ByExtension : r.to <= v.from
    BY <1>12, <2>2 DEF Same
  <2>4. CASE browser /\ postponed
    BY <1>3, <2>3, <2>4
  <2>5. CASE ~browser
    <3>1. visit = None /\ \A s \in ToSet(outbox) : s.from \in orphans
      BY <2>5 DEF Flush
    <3>2. \A s \in Held : s.from \in orphans
      BY <1>1, <3>1, FlightFacts, EmptyFacts DEF Held
    <3> QED  BY <1>3, <2>3, <3>1, <3>2
  <2>6. CASE browser /\ ~postponed /\ \E u \in pending : Same(u, v) /\ ~u.own
    BY <1>3, <2>3, <2>6 DEF ForeignApart, Same, Apart
  <2>7. CASE browser /\ ~postponed /\ \E u \in pending : Same(u, v) /\ u.own
    <3>1. v.from < alarm /\ alarm \in 0..MaxTime
      BY <2>1, <2>7, RipeBeforeAlarm DEF VisitTypes
    <3>2. PICK u \in pending : Same(u, v) /\ u.own
      BY <2>7
    <3>3. v.to < alarm /\ \A s \in Held : s.from \in orphans \/ s.from >= alarm
      BY <1>14, <2>1, <2>7, <3>1, <3>2 DEF Same
    <3>4. visit # None => visit.from \in 0..MaxTime /\ alarm <= visit.from
      BY <2>7 DEF VisitTypes, Clock, Open
    <3>5. \A s \in Held : s.from \in 0..MaxTime
      BY <1>3 DEF Span
    <3> QED  BY <1>3, <2>1, <2>3, <3>1, <3>3, <3>4, <3>5 DEF Apart
  <2>8. CASE browser /\ ~postponed /\ cur # None /\ v.from = cur.from /\ cur.page \in Page
    <3>1. v.from < alarm /\ alarm \in 0..MaxTime
      BY <2>1, <2>8, RipeBeforeAlarm DEF VisitTypes
    <3> QED  BY <1>5, <1>14, <2>8, <3>1 DEF OwnCur
  <2>9. CASE /\ cur # None /\ v.from = cur.from /\ cur.page \notin Page
             /\ v.to = now \/ (v.to = now + 1 /\ page = cur.page)
    <3>1. visit # None => v.to = now /\ visit.from = now
      BY <1>17, <2>9
    <3> QED  BY <1>2, <1>17, <2>3, <2>9, <3>1 DEF Apart
  <2> QED  BY <2>2, <2>4, <2>5, <2>6, <2>7, <2>8, <2>9
<1>20. StoredAlone'
  <2>1. ASSUME NEW v \in ByFallback'
        PROVE  /\ visit' # None => visit'.from \in orphans' \/ v.to <= visit'.from
               /\ \A s \in Held' : s.from \in orphans' \/ Apart(s, v)
    <3>1. CASE v \in ByFallback
      BY <1>1, <1>3, <3>1 DEF StoredAlone
    <3>2. CASE v \notin ByFallback
      BY <1>1, <1>3, <1>19, <3>2
    <3> QED  BY <3>1, <3>2
  <2> QED  BY <2>1 DEF StoredAlone, Apart
<1>21. RowsApart'
  <2>1. ASSUME NEW r \in ByExtension', NEW v \in ByFallback'
        PROVE  r.key \in orphans' \/ Apart(r, v)
    <3>1. CASE v \in ByFallback
      BY <1>3, <1>4, <3>1 DEF RowsApart
    <3>2. CASE v \notin ByFallback
      BY <1>4, <1>19, <3>2 DEF Apart
    <3> QED  BY <3>1, <3>2
  <2> QED  BY <2>1 DEF RowsApart, Apart
<1> QED
  BY <1>7, <1>8, <1>9, <1>10, <1>11, <1>13, <1>15, <1>16, <1>20, <1>21, <1>18

\* A poll that has heard of it forgets; an agent that is down does not poll.
LEMMA IdleTick ==
  ASSUME VisitsInv, Tick, ~appUp \/ Heard
  PROVE  VisitsInv'
<1> USE VisitsAssumption, NoneAssumption DEF VisitsInv
<1>1. /\ now < MaxTime /\ now' = now + 1
      /\ UNCHANGED <<page, stopped, faults, browser, visit, outbox, due, alarm, postponed, appUp, linked, seen,
                     rows, lost, evicted, orphans>>
      /\ cur' = None /\ pending' = {}
  BY DEF Tick, FallbackPoll, Heard, AppDown
<1>2. now \in 0..MaxTime /\ now' \in 0..MaxTime /\ now' > now
  BY <1>1 DEF VisitTypes
<1>3. /\ flight' \in Flight /\ flight'.batch = flight.batch
      /\ IF due THEN flight.state = "stored" /\ flight'.state = "late" ELSE flight' = flight
  BY FlightFacts DEF Tick, VisitTypes
<1>4. Held' = Held
  BY <1>1, <1>3 DEF Held
<1>5. VisitTypes'
  BY <1>1, <1>2, <1>3 DEF VisitTypes, VisitRow
<1>6. Clock'
  <2>1. Held \subseteq Span /\ rows \subseteq VisitRow
    BY ToSetIn DEF Held, VisitTypes, Flight
  <2>2. \A s \in Held \cup rows : s.from < s.to /\ s.to <= now'
    BY <1>2, <2>1 DEF Clock, Past, Span, VisitRow
  <2>3. /\ alarm' <= now' /\ (seen' # None => seen' <= now')
        /\ visit' # None => visit'.from <= now' /\ (postponed' \/ alarm' <= visit'.from)
        /\ \A r \in rows' : r.key = r.from
    BY <1>1, <1>2 DEF Clock, VisitTypes, Open
  <2> QED  BY <1>1, <1>4, <2>2, <2>3 DEF Clock, Past
<1>7. Flush'
  BY <1>1, <1>3 DEF Flush
<1>8. AppDown' /\ Answered'
  <2>1. seen # None => seen \in 0..MaxTime
    BY DEF VisitTypes
  <2>2. ~due => flight = NoFlight /\ flight.state = "none"
    BY FlightFacts DEF Flush
  <2>3. flight'.state # "stored" /\ flight'.state # "refused"
    BY <1>3, <2>2
  <2>4. flight'.state = "late" => appUp /\ seen = now /\ now # None
    BY <1>2, <1>3, <2>2 DEF Answered
  <2> QED  BY <1>1, <1>2, <2>1, <2>3, <2>4 DEF AppDown, Answered
<1>9. ExtensionApart' /\ FallbackApart' /\ ForeignApart' /\ StoredAlone' /\ RowsApart' /\ BatchHeads'
  BY <1>1, <1>3, <1>4 DEF ExtensionApart, FallbackApart, ForeignApart, StoredAlone, RowsApart, BatchHeads, ByExtension,
              ByFallback, Same, Apart
<1>10. ObservedAfterRows' /\ AlarmTold' /\ BothSee'
  BY <1>1 DEF ObservedAfterRows, AlarmTold, BothSee, OwnCur
<1> QED  BY <1>5, <1>6, <1>7, <1>8, <1>9, <1>10

LEMMA VisitsStep == VisitsInv /\ [VisitsNext]_visitVars => VisitsInv'
<1> SUFFICES ASSUME VisitsInv, [VisitsNext]_visitVars PROVE VisitsInv'
  OBVIOUS
<1>1. CASE Tick
  <2>1. CASE appUp /\ ~Heard
    BY <1>1, <2>1, PollStep
  <2>2. CASE ~appUp \/ Heard
    BY <1>1, <2>2, IdleTick
  <2> QED  BY <2>1, <2>2
<1> QED
  BY <1>1, FocusStep, BlurStep, WanderStep, AlarmStep, RestartStep, CutStep, QuitStep, StartStep, PostStep,
     PostFailsStep, DroppedStep, AcceptStep, DiscoverStep, IngestStep, DiesStep, SwitchStep DEF VisitsNext

LEMMA VisitsStart == VisitsInit => VisitsInv
<1> SUFFICES ASSUME VisitsInit PROVE VisitsInv
  OBVIOUS
<1> USE VisitsAssumption, NoneAssumption DEF VisitsInit
<1>1. /\ outbox \in Seq(Span) /\ Len(outbox) = 0 /\ Held = {} /\ flight \in Flight
      /\ flight.state = "none" /\ flight.batch = <<>>
  BY EmptyFacts DEF Held, NoFlight, Flight
<1>2. VisitTypes
  <2>1. 0 \in 0..MaxTime /\ 0 \in 0..MaxFaults /\ Len(outbox) <= Cap
    BY <1>1
  <2>2. /\ now \in 0..MaxTime /\ alarm \in 0..MaxTime /\ faults \in 0..MaxFaults
        /\ seen \in (0..MaxTime) \cup {None} /\ page \in Page \cup Elsewhere
        /\ visit \in Open \cup {None} /\ cur \in Observation \cup {None}
    BY <2>1 DEF Elsewhere
  <2>3. /\ stopped \in BOOLEAN /\ browser \in BOOLEAN /\ due \in BOOLEAN /\ appUp \in BOOLEAN
        /\ linked \in BOOLEAN /\ postponed \in BOOLEAN /\ lost \in BOOLEAN /\ evicted \in BOOLEAN
    OBVIOUS
  <2> QED  BY <1>1, <2>1, <2>2, <2>3 DEF VisitTypes
<1>3. Clock /\ Flush /\ AppDown /\ Answered
  BY <1>1, EmptyFacts DEF Clock, Flush, AppDown, Answered
<1>4. ExtensionApart /\ FallbackApart /\ ObservedAfterRows /\ AlarmTold /\ BothSee /\ ForeignApart
  BY <1>1 DEF ExtensionApart, FallbackApart, ObservedAfterRows, AlarmTold, BothSee, OwnCur, ForeignApart,
                   ByExtension, ByFallback
<1>5. StoredAlone /\ RowsApart /\ BatchHeads
  BY <1>1, EmptyFacts DEF StoredAlone, RowsApart, BatchHeads, ByExtension, ByFallback
<1> QED  BY <1>2, <1>3, <1>4, <1>5 DEF VisitsInv

THEOREM VisitsInvariance == VisitsSpec => []VisitsInv
BY VisitsStart, VisitsStep, PTL DEF VisitsSpec

\* No stretch of browsing is stored twice, by a batch sent again or by the fallback beside
\* the extension, whatever dies, is stopped or is answered late (NeverTwice), but for what
\* was held in a closed browser or behind an alarm that restarts had put off.
THEOREM StoredOnce == VisitsSpec => []NeverTwice
<1>1. VisitsInv => NeverTwice
  <2> SUFFICES ASSUME VisitsInv,
                      NEW r \in {row \in rows : ~(row.by = "extension" /\ row.key \in orphans)},
                      NEW s \in {row \in rows : ~(row.by = "extension" /\ row.key \in orphans)},
                      r # s
               PROVE  Apart(r, s)
    BY Zenon DEF NeverTwice, Apart
  <2>1. /\ r \in VisitRow /\ r.key = r.from /\ (r \in ByExtension \/ r \in ByFallback)
        /\ s \in VisitRow /\ s.key = s.from /\ (s \in ByExtension \/ s \in ByFallback)
    BY DEF VisitsInv, VisitTypes, Clock, VisitRow, ByExtension, ByFallback
  <2>2. CASE r \in ByExtension /\ s \in ByFallback
    BY <2>2 DEF VisitsInv, RowsApart, ByExtension
  <2>3. CASE r \in ByFallback /\ s \in ByExtension
    <3>1. Apart(s, r)
      BY <2>3 DEF VisitsInv, RowsApart, ByExtension
    <3> QED  BY <3>1 DEF Apart
  <2>4. CASE (r \in ByExtension /\ s \in ByExtension) \/ (r \in ByFallback /\ s \in ByFallback)
    <3>1. r.by = s.by
      BY <2>4 DEF ByExtension, ByFallback
    <3>2. ~Same(r, s)
      <4>1. ASSUME r.from = s.from, r.to = s.to PROVE r = s
        BY <2>1, <3>1, <4>1 DEF VisitRow
      <4> QED  BY <4>1 DEF Same
    <3> QED  BY <2>4, <3>2 DEF VisitsInv, ExtensionApart, FallbackApart
  <2> QED  BY <2>1, <2>2, <2>3, <2>4
<1> QED  BY <1>1, VisitsInvariance, PTL

\* A segment leaves the outbox unaccepted and unreported only after the outbox was full
\* (LossIsReported).
THEOREM LossReported == VisitsSpec => []LossIsReported
<1>1. VisitsInv => LossIsReported
  BY DEF VisitsInv, BatchHeads, LossIsReported
<1> QED  BY <1>1, VisitsInvariance, PTL

\* Everything keeps its type: instants within the clock, segments and rows well formed, a
\* queue within its cap.
THEOREM VisitsTyped == VisitsSpec => []VisitTypes
<1>1. VisitsInv => VisitTypes
  BY DEF VisitsInv
<1> QED  BY <1>1, VisitsInvariance, PTL

=============================================================================
