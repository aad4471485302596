------------------------ MODULE DeviceTimelineProofs ------------------------
(***************************************************************************)
(* Theorems about DeviceTimeline: the schedule's decision for every rule, *)
(* zone and instant, and the accounts of both trackers for any thresholds, any        *)
(* polling and any jumps of the clock.                                       *)
(***************************************************************************)
EXTENDS DeviceTimeline, SequenceTheorems, TLAPS

-----------------------------------------------------------------------------
(* The schedule. *)

\* The day number of a local time, and of the local time a day earlier.
LEMMA Quotient ==
  ASSUME NEW d \in Nat \ {0}, NEW x \in Int, NEW y \in Int, NEW s \in Int,
         y = x - d - s, (x % d) - s \in 0..(d - 1)
  PROVE  y \div d = (x \div d) - 1
<1>1. x = (d * (x \div d)) + (x % d) /\ x \div d \in Int /\ x % d \in 0..(d - 1)
  OBVIOUS
<1>2. y = (d * (y \div d)) + (y % d) /\ y \div d \in Int /\ y % d \in 0..(d - 1)
  OBVIOUS
<1>3. PICK q \in Int : q = (x \div d) - 1 - (y \div d)
  BY <1>1, <1>2
<1>4. d * q = (y % d) - ((x % d) - s)
  <2>1. d * q = d * (x \div d) - d - d * (y \div d)
    BY <1>1, <1>2, <1>3
  <2> QED  BY <1>1, <1>2, <2>1
<1>5. d * q < d /\ -d < d * q
  BY <1>1, <1>2, <1>4
<1>6. ~(q >= 1) /\ ~(q <= -1)
  <2>1. q >= 1 => d * q >= d
    OBVIOUS
  <2>2. q <= -1 => d * q <= -d
    OBVIOUS
  <2> QED  BY <1>5, <2>1, <2>2
<1> QED  BY <1>1, <1>2, <1>3, <1>6

\* An instant of the clock is a local day and a minute of it, and at a steady instant
\* 24 hours ago was yesterday.
LEMMA InstantFacts ==
  ASSUME NEW r \in Schedule!Rule, NEW t \in Int,
         Offset(t) \in Int, Offset(t - DayLength) \in Int
  PROVE  /\ Schedule!Day(t) \in Int /\ Schedule!Minute(t) \in 0..(DayLength - 1)
         /\ Schedule!Steady(r, t) /\ ~Schedule!OneDay(r) =>
              Schedule!Day(t - DayLength) = Schedule!Day(t) - 1
<1>1. Schedule!Day(t) \in Int /\ Schedule!Minute(t) \in 0..(DayLength - 1)
  BY TimelineAssumption DEF Schedule!Day, Schedule!Minute, Schedule!Local
<1>2. ASSUME Schedule!Minute(t) - Schedule!Moved(t) \in 0..(DayLength - 1)
      PROVE  Schedule!Day(t - DayLength) = Schedule!Day(t) - 1
  <2> DEFINE x == t + Offset(t)
             y == (t - DayLength) + Offset(t - DayLength)
             s == Offset(t) - Offset(t - DayLength)
  <2>1. /\ DayLength \in Nat \ {0} /\ x \in Int /\ y \in Int /\ s \in Int
        /\ y = x - DayLength - s
    BY TimelineAssumption
  <2>2. (x % DayLength) - s \in 0..(DayLength - 1)
    BY <1>2 DEF Schedule!Minute, Schedule!Moved, Schedule!Local
  <2> HIDE DEF x, y, s
  <2>3. y \div DayLength = (x \div DayLength) - 1
    BY <2>1, <2>2, Quotient
  <2> QED  BY <2>3 DEF x, y, Schedule!Day, Schedule!Local
<1> QED  BY <1>1, <1>2 DEF Schedule!Steady

\* Only a window of the same day or of the night before can be open at an instant, and
\* the early returns of active_at find it: in every zone, at every instant but those just
\* after a clock change (Steady), of every rule.
THEOREM ScheduleDecision ==
  ASSUME NEW r \in Schedule!Rule, NEW t \in Int,
         Offset(t) \in Int, Offset(t - DayLength) \in Int, Schedule!Steady(r, t)
  PROVE  Schedule!ActiveAt(r, t) <=> Schedule!InWindow(r, t)
<1> DEFINE start == r.start
           end == r.end
           day == Schedule!Day(t)
           minute == Schedule!Minute(t)
<1>1. /\ DayLength \in Nat \ {0}
      /\ start \in 0..(DayLength - 1) /\ end \in 0..DayLength
  BY TimelineAssumption DEF Schedule!Rule
<1>a. day \in Int /\ minute \in 0..(DayLength - 1)
  BY InstantFacts
<1>b. ~Schedule!OneDay(r) => Schedule!Day(t - DayLength) = day - 1
  BY InstantFacts
<1>2. Schedule!Since(day, r, t) = minute - start
  BY <1>1, <1>a DEF Schedule!Since
<1>3. Schedule!Since(day - 1, r, t) = DayLength + minute - start
  <2>1. day - (day - 1) = 1
    BY <1>a
  <2>2. 1 * DayLength = DayLength
    BY <1>1
  <2> QED  BY <2>1, <2>2, <1>1, <1>a DEF Schedule!Since
<1>4. Schedule!Length(r) = IF start < end THEN end - start ELSE end - start + DayLength
  BY DEF Schedule!Length, Schedule!OneDay
<1>5. Schedule!Length(r) \in Int
  BY <1>1, <1>4
<1> HIDE DEF day, minute
<1>6. Schedule!InWindow(r, t) <=>
        /\ r.enabled /\ r.zone
        /\ \/ Schedule!OpensOn(r, day) /\ start <= minute
                /\ minute - start <= Schedule!Length(r) - 1
           \/ Schedule!OpensOn(r, day - 1)
                /\ DayLength + minute - start <= Schedule!Length(r) - 1
  <2>1. minute - start \in 0..(Schedule!Length(r) - 1)
          <=> start <= minute /\ minute - start <= Schedule!Length(r) - 1
    BY <1>1, <1>a, <1>5
  <2>2. DayLength + minute - start \in 0..(Schedule!Length(r) - 1)
          <=> DayLength + minute - start <= Schedule!Length(r) - 1
    BY <1>1, <1>a, <1>5
  <2>3. Schedule!InWindow(r, t) <=>
          /\ r.enabled /\ r.zone
          /\ \/ Schedule!OpensOn(r, day)
                  /\ Schedule!Since(day, r, t) \in 0..(Schedule!Length(r) - 1)
             \/ Schedule!OpensOn(r, day - 1)
                  /\ Schedule!Since(day - 1, r, t) \in 0..(Schedule!Length(r) - 1)
    BY Zenon DEF Schedule!InWindow, day
  <2> QED  BY <1>2, <1>3, <2>1, <2>2, <2>3
<1>c. Schedule!ActiveAt(r, t) <=>
        /\ r.enabled /\ r.zone
        /\ IF start = 0 /\ end = DayLength THEN Schedule!OpensOn(r, day)
           ELSE IF start < end
           THEN Schedule!OpensOn(r, day) /\ start <= minute /\ minute < end
           ELSE IF start <= minute THEN Schedule!OpensOn(r, day)
           ELSE minute < end /\ Schedule!OpensOn(r, day - 1)
  BY <1>b DEF Schedule!ActiveAt, Schedule!AllDay, Schedule!OneDay, day, minute
<1>7. CASE start < end
  <2>1. Schedule!InWindow(r, t)
          <=> /\ r.enabled /\ r.zone
              /\ Schedule!OpensOn(r, day) /\ start <= minute /\ minute < end
    BY <1>1, <1>a, <1>4, <1>6, <1>7
  <2>2. start = 0 /\ end = DayLength => start <= minute /\ minute < end
    BY <1>1, <1>a
  <2> QED  BY <1>7, <1>c, <2>1, <2>2
<1>8. CASE ~(start < end)
  <2>1. Schedule!InWindow(r, t)
          <=> /\ r.enabled /\ r.zone
              /\ \/ Schedule!OpensOn(r, day) /\ start <= minute
                 \/ Schedule!OpensOn(r, day - 1) /\ minute < end
    BY <1>1, <1>a, <1>4, <1>6, <1>8
  <2>2. ~(start = 0 /\ end = DayLength)
    BY <1>1, <1>8
  <2>3. minute < end => ~(start <= minute)
    BY <1>1, <1>a, <1>8
  <2> QED  BY <1>8, <1>c, <2>1, <2>2, <2>3
<1> QED  BY <1>7, <1>8

-----------------------------------------------------------------------------
(* The rows. *)

\* What one interval stores: itself, or nothing when it is empty.
LEMMA RowFacts ==
  ASSUME NEW state \in State \cup {"suspended"},
         NEW start \in 0..MaxTime, NEW end \in 0..MaxTime, start <= end
  PROVE  /\ RowOf(state, start, end) \in Seq(Row)
         /\ Len(RowOf(state, start, end)) <= 1
         /\ Covered(RowOf(state, start, end)) = end - start
         /\ RowOf(state, start, end) = <<>> <=> start = end
         /\ RowOf(state, start, end) # <<>> =>
              /\ RowOf(state, start, end)[1].start = start
              /\ RowOf(state, start, end)[1].end = end
<1> DEFINE r == [state |-> state, start |-> start, end |-> end]
<1>1. r \in Row /\ r.start = start /\ r.end = end
  BY DEF Row
<1>2. CASE end > start
  <2>1. RowOf(state, start, end) = <<r>>
    BY <1>2 DEF RowOf
  <2> HIDE DEF r
  <2>2. <<r>> \in Seq(Row) /\ Len(<<r>>) = 1 /\ <<r>>[1] = r /\ <<r>> # <<>>
    BY <1>1
  <2> QED  BY <1>1, <1>2, <2>1, <2>2 DEF Covered, Duration
<1>3. CASE ~(end > start)
  <2>1. RowOf(state, start, end) = <<>> /\ start = end
    BY <1>3 DEF RowOf
  <2> QED  BY <2>1 DEF Covered
<1> QED  BY <1>2, <1>3

\* The row of a sleep is never empty.
LEMMA SleepRowFacts ==
  ASSUME NEW start \in 0..MaxTime, NEW end \in 0..MaxTime, start < end
  PROVE  LET b == RowOf("suspended", start, end) IN
         /\ b \in Seq(Row) /\ Len(b) <= 1 /\ Covered(b) = end - start
         /\ b # <<>> /\ b[1].start = start /\ b[1].end = end
<1> DEFINE r == [state |-> "suspended", start |-> start, end |-> end]
           b == RowOf("suspended", start, end)
<1>1. r \in Row /\ r.start = start /\ r.end = end
  BY DEF Row
<1>2. b = <<r>>
  BY DEF RowOf
<1> HIDE DEF r, b
<1>3. b \in Seq(Row) /\ Len(b) = 1 /\ b[1] = r /\ b # <<>>
  BY <1>1, <1>2
<1> QED  BY <1>1, <1>3 DEF Covered, Duration, b

\* An output of one row at most.
LEMMA ShortFacts ==
  ASSUME NEW a \in Seq(Row), Len(a) <= 1
  PROVE  /\ a # <<>> => Len(a) = 1 /\ a[1] \in Row /\ Covered(a) = Duration(a[1])
         /\ Covered(a) \in Int
<1>1. a # <<>> => Len(a) = 1
  <2>1. a # <<>> => Len(a) \in Nat \ {0}
    BY EmptySeq, Zenon
  <2> QED  BY <2>1
<1>2. \A r \in Row : Duration(r) \in Int
  BY DEF Duration, Row
<1>3. Len(a) = 1 => a[1] \in Row
  OBVIOUS
<1>4. Len(a) = 1 /\ a[1] \in Row => Duration(a[1]) + 0 = Duration(a[1])
  BY <1>2
<1> QED  BY <1>1, <1>2, <1>3, <1>4 DEF Covered

\* Two of them one after the other cover what both cover.
LEMMA JoinFacts ==
  ASSUME NEW a \in Seq(Row), NEW b \in Seq(Row), Len(a) <= 1, Len(b) <= 1
  PROVE  /\ a \o b \in Seq(Row) /\ Len(a \o b) <= 2
         /\ Covered(a \o b) = Covered(a) + Covered(b)
         /\ a = <<>> => a \o b = b
         /\ b = <<>> => a \o b = a
         /\ a # <<>> /\ b # <<>> =>
              Len(a \o b) = 2 /\ (a \o b)[1] = a[1] /\ (a \o b)[2] = b[1]
<1>1. a \o b \in Seq(Row) /\ Len(a \o b) = Len(a) + Len(b)
  OBVIOUS
<1>2. Covered(a) \in Int /\ Covered(b) \in Int
  BY ShortFacts
<1>3. CASE a = <<>>
  <2>1. a \o b = b
    BY <1>3
  <2> QED  BY <1>1, <1>2, <1>3, <2>1 DEF Covered
<1>4. CASE b = <<>>
  <2>1. a \o b = a
    BY <1>4
  <2> QED  BY <1>1, <1>2, <1>4, <2>1 DEF Covered
<1>5. CASE a # <<>> /\ b # <<>>
  <2>1. /\ Len(a) = 1 /\ Len(b) = 1
        /\ Covered(a) = Duration(a[1]) /\ Covered(b) = Duration(b[1])
    BY <1>5, ShortFacts
  <2>2. (a \o b)[1] = a[1] /\ (a \o b)[2] = b[1] /\ Len(a \o b) = 2 /\ a \o b # <<>>
    BY <1>1, <2>1
  <2> QED  BY <1>1, <1>5, <2>1, <2>2 DEF Covered
<1> QED  BY <1>3, <1>4, <1>5

-----------------------------------------------------------------------------
(* The invariant: the interval that is open began no later than the poll before. *)

OpenBegan == open # None => open.start <= lastTick

TimelineInv ==
  TimelineTypeOK /\ OpenBegan /\ EverySecondAccounted /\ RowsInOrder /\ EveryPollCountedOnce

LEMMA InitInv == TimelineInit => TimelineInv
<1> SUFFICES ASSUME TimelineInit PROVE TimelineInv
  OBVIOUS
<1>1. 0 \in 0..MaxTime
  BY TimelineAssumption
<1>2. rows \in Seq(Row) /\ Len(rows) = 0
  BY EmptySeq DEF TimelineInit
<1>3. TimelineTypeOK
  <2>1. now \in 0..MaxTime /\ stopped \in BOOLEAN
    BY <1>1 DEF TimelineInit
  <2>2. /\ rule \in Rules /\ interval \in Interval \cup {None} /\ open \in OpenState \cup {None}
        /\ lastTick \in (0..MaxTime) \cup {None} /\ stretch \in Stretch \cup {None}
        /\ tally \in Int /\ open = None /\ lastTick = None /\ stretch = None
    BY TimelineDistinct DEF TimelineInit
  <2> QED  BY <1>2, <2>1, <2>2 DEF TimelineTypeOK
<1>4. OpenBegan /\ EverySecondAccounted
  BY DEF TimelineInit, OpenBegan, EverySecondAccounted
<1>5. RowsInOrder
  BY <1>2 DEF TimelineInit, RowsInOrder
<1>6. EveryPollCountedOnce
  BY DEF TimelineInit, EveryPollCountedOnce, Held
<1> QED  BY <1>3, <1>4, <1>5, <1>6 DEF TimelineInv

\* One advance stores what lies between the old start and the new one.
Advanced(cur, next, t) ==
  /\ next.open \in OpenState /\ next.open.start <= t
  /\ next.out \in Seq(Row) /\ Len(next.out) <= 1
  /\ cur = None => next.out = <<>> /\ next.open.start = t
  /\ cur # None => Covered(next.out) = next.open.start - cur.start
  /\ next.out # <<>> => next.out[1].end = next.open.start

LEMMA AdvanceFacts ==
  ASSUME NEW cur \in OpenState \cup {None}, NEW desired \in State, NEW t \in 0..MaxTime,
         cur # None => cur.start <= t
  PROVE  Advanced(cur, Advance(cur, desired, t), t)
<1> DEFINE next == Advance(cur, desired, t)
<1> SUFFICES Advanced(cur, next, t)
  OBVIOUS
<1>1. CASE cur = None
  <2>1. next.out = <<>> /\ next.open = [state |-> desired, start |-> t]
    BY <1>1 DEF Advance
  <2> HIDE DEF next
  <2> QED  BY <1>1, <2>1, EmptySeq DEF Advanced, OpenState
<1>2. CASE cur # None /\ cur.state # desired
  <2>1. PICK b \in 0..MaxTime : b = Boundary(cur, desired, t) /\ cur.start <= b /\ b <= t
    BY <1>2, TimelineAssumption DEF Boundary, Largest, OpenState
  <2>2. next.out = RowOf(cur.state, cur.start, b) /\ next.open = [state |-> desired, start |-> b]
    BY <1>2, <2>1 DEF Advance
  <2>3. PICK state \in State \cup {"suspended"}, start \in 0..MaxTime :
          state = cur.state /\ start = cur.start
    BY <1>2 DEF OpenState
  <2> DEFINE r == RowOf(state, start, b)
  <2>4. /\ r \in Seq(Row) /\ Len(r) <= 1 /\ Covered(r) = b - start
        /\ r # <<>> => r[1].end = b
    <3>1. start <= b
      BY <2>1, <2>3
    <3>2. /\ RowOf(state, start, b) \in Seq(Row)
          /\ Len(RowOf(state, start, b)) <= 1
          /\ Covered(RowOf(state, start, b)) = b - start
      BY <3>1, RowFacts
    <3>3. RowOf(state, start, b) # <<>> => RowOf(state, start, b)[1].end = b
      BY DEF RowOf
    <3> QED  BY <3>2, <3>3
  <2> HIDE DEF next, r
  <2>5. next.open \in OpenState /\ next.open.start = b /\ next.out = r
    BY <2>1, <2>2, <2>3 DEF OpenState, r
  <2> QED  BY <1>2, <2>1, <2>3, <2>4, <2>5 DEF Advanced
<1>3. CASE cur # None /\ cur.state = desired /\ t - cur.start >= StateChunk
  <2>1. next.out = RowOf(cur.state, cur.start, t) /\ next.open = [cur EXCEPT !.start = t]
    BY <1>3 DEF Advance
  <2>2. /\ cur.state \in State \cup {"suspended"} /\ cur.start \in 0..MaxTime
        /\ [cur EXCEPT !.start = t] \in OpenState /\ [cur EXCEPT !.start = t].start = t
    BY <1>3 DEF OpenState
  <2> DEFINE r == RowOf(cur.state, cur.start, t)
  <2>3. /\ r \in Seq(Row) /\ Len(r) <= 1 /\ Covered(r) = t - cur.start
        /\ r # <<>> => r[1].end = t
    BY <1>3, <2>2, RowFacts
  <2> HIDE DEF next, r
  <2>4. next.open \in OpenState /\ next.open.start = t /\ next.out = r
    BY <2>1, <2>2 DEF r
  <2> QED  BY <1>3, <2>3, <2>4 DEF Advanced
<1>4. CASE cur # None /\ cur.state = desired /\ ~(t - cur.start >= StateChunk)
  <2>1. next.out = <<>> /\ next.open = cur
    BY <1>4 DEF Advance
  <2>2. cur \in OpenState /\ cur.start \in 0..MaxTime
    BY <1>4 DEF OpenState
  <2> HIDE DEF next
  <2> QED  BY <1>4, <2>1, <2>2, EmptySeq DEF Covered, Advanced
<1> QED  BY <1>1, <1>2, <1>3, <1>4

\* What a turn of the state tracker establishes.
StateAccount(t) ==
  /\ open' \in OpenState \cup {None} /\ lastTick' \in (0..MaxTime) \cup {None}
  /\ stretch' \in Stretch \cup {None}
  /\ (open' = None) = (lastTick' = None) /\ (open' = None) = (stretch' = None)
  /\ rows' \in Seq(Row) /\ Len(rows') <= 2
  /\ OpenBegan' /\ EverySecondAccounted' /\ RowsInOrder'

LEMMA CollectStep ==
  ASSUME TimelineInv, NEW t \in 0..MaxTime, NEW idle \in Int, Collect(t, idle)
  PROVE  StateAccount(t)
<1> DEFINE desired == IF idle >= Threshold THEN "idle" ELSE "active"
           next == Advance(Continued(t), desired, t)
<1>1. desired \in State
  BY DEF State
<1>2. /\ open \in OpenState \cup {None} /\ stretch \in Stretch \cup {None}
      /\ lastTick \in (0..MaxTime) \cup {None}
      /\ (open = None) = (lastTick = None) /\ (open = None) = (stretch = None)
      /\ open # None => open.start \in 0..MaxTime /\ open.start <= lastTick
      /\ open # None => open.state \in State \cup {"suspended"}
  BY DEF TimelineInv, TimelineTypeOK, OpenBegan, OpenState
<1>3. Continued(t) \in OpenState \cup {None} /\ (Continued(t) # None => Continued(t).start <= t)
  BY <1>2 DEF Continued
<1>4. /\ next.open \in OpenState /\ next.open.start <= t
      /\ next.out \in Seq(Row) /\ Len(next.out) <= 1
      /\ Continued(t) = None => next.out = <<>> /\ next.open.start = t
      /\ Continued(t) # None => Covered(next.out) = next.open.start - Continued(t).start
      /\ next.out # <<>> => next.out[1].end = next.open.start
  BY <1>1, <1>3, AdvanceFacts DEF Advanced
<1>5. /\ rows' = SleepRows(t) \o next.out /\ open' = next.open /\ lastTick' = t
      /\ stretch' = IF stretch = None \/ (open # None /\ t < open.start /\ ~Slept(t))
                    THEN [from |-> t, total |-> 0]
                    ELSE [stretch EXCEPT !.total = stretch.total + Covered(rows')]
  BY DEF Collect
<1> HIDE DEF next, desired
<1>6. open' \in OpenState /\ open' # None /\ lastTick' # None /\ OpenBegan'
  BY <1>4, <1>5, TimelineDistinct DEF OpenBegan
<1>7. [from |-> t, total |-> 0] \in Stretch
  BY DEF Stretch
<1>8. CASE Continued(t) = None /\ ~Slept(t)
  <2>1. rows' = <<>> /\ rows' \in Seq(Row) /\ Len(rows') = 0
    BY <1>4, <1>5, <1>8, EmptySeq, ConcatEmptySeq DEF SleepRows
  <2>2. stretch' = [from |-> t, total |-> 0]
    BY <1>2, <1>5, <1>8 DEF Continued
  <2>3. EverySecondAccounted'
    BY <1>4, <1>5, <1>8, <2>2 DEF EverySecondAccounted
  <2>4. RowsInOrder'
    BY <2>1 DEF RowsInOrder
  <2> QED  BY <1>5, <1>6, <1>7, <2>1, <2>2, <2>3, <2>4, TimelineDistinct DEF StateAccount
<1>9. CASE Slept(t)
  <2> DEFINE a == RowOf(open.state, open.start, lastTick)
             b == RowOf("suspended", lastTick, t)
  <2>1. /\ open # None /\ lastTick \in 0..MaxTime /\ lastTick < t /\ open.start <= lastTick
        /\ open.start \in 0..MaxTime /\ stretch \in Stretch
    BY <1>2, <1>9, TimelineAssumption DEF Slept
  <2>2. /\ a \in Seq(Row) /\ Len(a) <= 1 /\ Covered(a) = lastTick - open.start
        /\ a # <<>> => a[1].end = lastTick
    BY <1>2, <2>1, RowFacts
  <2>3. /\ b \in Seq(Row) /\ Len(b) <= 1 /\ Covered(b) = t - lastTick
        /\ b # <<>> /\ b[1].start = lastTick /\ b[1].end = t
    BY <2>1, SleepRowFacts
  <2>4. next.out = <<>> /\ next.open.start = t
    BY <1>4, <1>9 DEF Continued
  <2>5. rows' = (a \o b) \o <<>>
    BY <1>5, <1>9, <2>1, <2>4 DEF SleepRows, CloseAt
  <2> HIDE DEF a, b
  <2>6. a \o b \in Seq(Row) /\ Len(a \o b) <= 2 /\ Covered(a \o b) = t - open.start
    BY <2>1, <2>2, <2>3, JoinFacts
  <2>7. rows' = a \o b
    BY <2>5, <2>6, ConcatEmptySeq
  <2>8. stretch' = [stretch EXCEPT !.total = stretch.total + (t - open.start)]
    BY <1>5, <1>9, <2>1, <2>6, <2>7, TimelineDistinct
  <2>9. stretch.from \in 0..MaxTime /\ stretch.total \in Int
        /\ stretch.total = open.start - stretch.from
    BY <2>1 DEF TimelineInv, EverySecondAccounted, Stretch
  <2>10. stretch'.total = t - stretch'.from /\ stretch' \in Stretch
    BY <2>1, <2>8, <2>9 DEF Stretch
  <2>11. EverySecondAccounted'
    BY <1>5, <2>4, <2>10 DEF EverySecondAccounted
  <2>12. RowsInOrder'
    <3>1. CASE a = <<>>
      <4>1. rows' = b /\ Len(b) = 1
        BY <2>2, <2>3, <2>7, <3>1, JoinFacts, ShortFacts
      <4>2. rows'[1].end = open'.start /\ Len(rows') = 1
        BY <1>5, <2>3, <2>4, <4>1
      <4> QED  BY ONLY <4>2 DEF RowsInOrder
    <3>2. CASE a # <<>>
      <4>1. Len(rows') = 2 /\ rows'[1] = a[1] /\ rows'[2] = b[1]
        BY <2>2, <2>3, <2>7, <3>2, JoinFacts
      <4>2. rows'[1].end = rows'[2].start /\ rows'[2].end = open'.start /\ Len(rows') = 2
        BY <1>5, <2>2, <2>3, <2>4, <3>2, <4>1
      <4> QED  BY ONLY <4>2 DEF RowsInOrder
    <3> QED  BY <3>1, <3>2
  <2> QED  BY <1>5, <1>6, <2>6, <2>7, <2>10, <2>11, <2>12, TimelineDistinct DEF StateAccount
<1>10. CASE Continued(t) # None
  <2>1. /\ ~Slept(t) /\ Continued(t) = open /\ open # None /\ ~(t < open.start)
        /\ stretch \in Stretch /\ stretch # None
    BY <1>2, <1>10 DEF Continued
  <2>2. rows' = next.out
    BY <1>4, <1>5, <2>1, ConcatEmptySeq DEF SleepRows
  <2>3. stretch' = [stretch EXCEPT !.total = stretch.total + (next.open.start - open.start)]
    BY <1>4, <1>5, <1>10, <2>1, <2>2
  <2>4. /\ stretch.from \in 0..MaxTime /\ stretch.total = open.start - stretch.from
        /\ open.start \in Int /\ next.open.start \in Int /\ stretch.total \in Int
    BY <1>2, <1>4, <2>1 DEF TimelineInv, EverySecondAccounted, Stretch, OpenState
  <2>5. stretch'.total = next.open.start - stretch'.from /\ stretch' \in Stretch
    BY <2>1, <2>3, <2>4 DEF Stretch
  <2>6. EverySecondAccounted'
    BY <1>5, <2>5 DEF EverySecondAccounted
  <2>7. RowsInOrder'
    BY <1>4, <1>5, <2>2, ShortFacts DEF RowsInOrder
  <2> QED  BY <1>4, <1>5, <1>6, <2>2, <2>5, <2>6, <2>7, TimelineDistinct DEF StateAccount
<1> QED  BY <1>8, <1>9, <1>10

LEMMA StopStep ==
  ASSUME TimelineInv, NEW t \in 0..MaxTime, Stop(t)
  PROVE  StateAccount(t)
<1>1. rows' \in Seq(Row) /\ Len(rows') <= 1
  <2>1. CASE open = None
    BY <2>1, EmptySeq DEF Stop, CloseAt
  <2>2. CASE open # None /\ t > open.start
    <3>1. open.state \in State \cup {"suspended"} /\ open.start \in 0..MaxTime
      BY <2>2 DEF TimelineInv, TimelineTypeOK, OpenState
    <3>2. rows' = RowOf(open.state, open.start, t)
      BY <2>2 DEF Stop, CloseAt
    <3>3. t \in Int /\ open.start <= t
      BY <2>2, <3>1
    <3> QED  BY <3>1, <3>2, <3>3, RowFacts
  <2>3. CASE open # None /\ ~(t > open.start)
    BY <2>3, EmptySeq DEF Stop, CloseAt, RowOf
  <2> QED  BY <2>1, <2>2, <2>3
<1>2. RowsInOrder'
  BY <1>1 DEF Stop, RowsInOrder
<1>3. OpenBegan' /\ EverySecondAccounted'
  BY DEF Stop, OpenBegan, EverySecondAccounted
<1> QED  BY <1>1, <1>2, <1>3 DEF Stop, StateAccount

\* What a turn of the window tracker establishes.
LEMMA WindowStep ==
  ASSUME TimelineInv, NEW present \in BOOLEAN, NEW win \in App \cup {None},
         WindowTick(present, win)
  PROVE  interval' \in Interval \cup {None} /\ tally' \in Int /\ EveryPollCountedOnce'
<1>1. /\ interval \in Interval \cup {None} /\ tally \in Int /\ tally + Held = 0
      /\ Held \in Int
      /\ interval # None => interval.app \in App /\ interval.dur \in 0..(WindowChunk + MaxTime)
      /\ interval # None => Held = interval.dur
  BY DEF TimelineInv, TimelineTypeOK, EveryPollCountedOnce, Interval, Held
<1>2. CASE CloseIdle
  BY <1>1, <1>2, TimelineAssumption DEF CloseIdle, Largest, EveryPollCountedOnce, Held
<1>3. CASE CloseNow
  BY <1>1, <1>3 DEF CloseNow, EveryPollCountedOnce, Held
<1>4. CASE win \in App /\ SameWindow(win)
  <2> DEFINE dur == interval.dur + 1
             left == IF dur >= WindowChunk THEN 0 ELSE dur
  <2>1. /\ interval # None /\ interval' = [interval EXCEPT !.dur = left]
        /\ tally' = tally - 1 + (IF dur >= WindowChunk THEN dur ELSE 0)
    BY <1>4 DEF SameWindow, Tracks
  <2>2. left \in 0..(WindowChunk + MaxTime)
    BY <1>1, <2>1, TimelineAssumption
  <2>3. interval' \in Interval /\ interval'.dur = left
    BY <1>1, <2>1, <2>2 DEF Interval
  <2>4. Held' = left
    BY <2>3, TimelineDistinct DEF Held
  <2>5. tally' + left = 0 /\ tally' \in Int
    BY <1>1, <2>1
  <2> QED  BY <2>3, <2>4, <2>5 DEF EveryPollCountedOnce
<1>5. CASE win \in App /\ OtherWindow(win)
  <2>1. interval' = [app |-> win, dur |-> 1] /\ tally' = tally - 1 + Held
    BY <1>5 DEF OtherWindow
  <2>2. interval' \in Interval /\ interval'.dur = 1
    BY <1>5, <2>1, TimelineAssumption DEF Interval
  <2>3. Held' = 1
    BY <2>2, TimelineDistinct DEF Held
  <2> QED  BY <1>1, <2>1, <2>2, <2>3 DEF EveryPollCountedOnce
<1> QED  BY <1>2, <1>3, <1>4, <1>5 DEF WindowTick

-----------------------------------------------------------------------------
LEMMA PollStep ==
  ASSUME TimelineInv, NEW jump \in Jumps, NEW idle \in Idles, NEW win \in App \cup {None},
         Poll(jump, idle, win)
  PROVE  TimelineInv'
<1> DEFINE t == now + jump
           allowed == Allowed(t)
           present == allowed /\ idle < Threshold
<1>1. /\ t \in 0..MaxTime /\ now' = t
      /\ WindowTick(present, win) /\ StateTick(t, idle, allowed) /\ UNCHANGED switchVars
  BY DEF Poll
<1>2. idle \in Int
  BY TimelineAssumption
<1> HIDE DEF t, allowed
<1>3. StateAccount(t)
  BY <1>1, <1>2, CollectStep, StopStep DEF StateTick
<1>4. present \in BOOLEAN
  OBVIOUS
<1> HIDE DEF present
<1>5. interval' \in Interval \cup {None} /\ tally' \in Int /\ EveryPollCountedOnce'
  BY <1>1, <1>4, WindowStep
<1>6. TimelineTypeOK'
  <2>1. stopped' \in BOOLEAN /\ rule' \in Rules
    BY <1>1 DEF TimelineInv, TimelineTypeOK, switchVars
  <2> QED  BY <1>1, <1>3, <1>5, <2>1 DEF TimelineTypeOK, StateAccount
<1> QED  BY <1>3, <1>5, <1>6 DEF StateAccount, TimelineInv

LEMMA InvStep == TimelineInv /\ [TimelineNext]_timelineVars => TimelineInv'
<1> SUFFICES ASSUME TimelineInv, [TimelineNext]_timelineVars PROVE TimelineInv'
  OBVIOUS
<1> USE DEF TimelineInv, TimelineTypeOK, OpenBegan, EverySecondAccounted, RowsInOrder,
        EveryPollCountedOnce, Held, switchVars, windowVars, stateVars
<1>1. ASSUME NEW value \in BOOLEAN, SetStopped(value) PROVE TimelineInv'
  BY <1>1 DEF SetStopped
<1>2. ASSUME NEW r \in Rules, SetRule(r) PROVE TimelineInv'
  BY <1>2 DEF SetRule
<1>3. ASSUME NEW jump \in Jumps, NEW idle \in Idles, NEW win \in App \cup {None},
             Poll(jump, idle, win)
      PROVE  TimelineInv'
  BY <1>3, PollStep
<1>4. CASE UNCHANGED timelineVars
  BY <1>4 DEF timelineVars
<1> QED  BY <1>1, <1>2, <1>3, <1>4 DEF TimelineNext

THEOREM Invariance == TimelineSpec => []TimelineInv
BY InitInv, InvStep, PTL DEF TimelineSpec

\* Every variable keeps to its range, and the timeline is open exactly while a tick is
\* remembered (TimelineTypeOK).
THEOREM Typed == TimelineSpec => []TimelineTypeOK
<1>1. TimelineInv => TimelineTypeOK
  BY DEF TimelineInv
<1> QED  BY <1>1, Invariance, PTL

\* The stored rows cover every second up to the open interval (EverySecondAccounted).
THEOREM NothingLost == TimelineSpec => []EverySecondAccounted
<1>1. TimelineInv => EverySecondAccounted
  BY DEF TimelineInv
<1> QED  BY <1>1, Invariance, PTL

\* The rows of a poll follow on each other (RowsInOrder).
THEOREM Ordered == TimelineSpec => []RowsInOrder
<1>1. TimelineInv => RowsInOrder
  BY DEF TimelineInv
<1> QED  BY <1>1, Invariance, PTL

\* A second of work is counted in one sample only (EveryPollCountedOnce).
THEOREM CountedOnce == TimelineSpec => []EveryPollCountedOnce
<1>1. TimelineInv => EveryPollCountedOnce
  BY DEF TimelineInv
<1> QED  BY <1>1, Invariance, PTL

\* The decision of a poll is what the owner means, at every steady instant.
LEMMA AllowedAsMeant ==
  ASSUME TimelineInv, NEW t \in 0..MaxTime, rule = NoRule \/ Schedule!Steady(rule, t)
  PROVE  Allowed(t) <=> Meant(t)
<1>1. rule = NoRule \/ rule \in Schedule!Rule
  BY TimelineDistinct DEF TimelineInv, TimelineTypeOK
<1>2. CASE rule = NoRule
  BY <1>2 DEF Allowed, Meant
<1>3. CASE rule # NoRule
  <2>1. /\ rule \in Schedule!Rule /\ t \in Int
        /\ Offset(t) \in Int /\ Offset(t - DayLength) \in Int
    <3>1. t \in (-DayLength)..MaxTime /\ t - DayLength \in (-DayLength)..MaxTime
      BY TimelineAssumption
    <3> QED  BY <1>1, <1>3, <3>1, TimelineAssumption
  <2>2. Schedule!ActiveAt(rule, t) <=> Schedule!InWindow(rule, t)
    BY <1>3, <2>1, ScheduleDecision
  <2> QED  BY <1>3, <2>2 DEF Allowed, Meant
<1> QED  BY <1>2, <1>3

\* Whatever rule the owner sets, and however the zone moves its clocks, a poll collects
\* exactly in the rule's windows (ScheduleMeansItsWindows).
THEOREM ScheduleKept == TimelineSpec => ScheduleMeansItsWindows
<1> DEFINE Step == now' # now /\ (rule = NoRule \/ Schedule!Steady(rule, now')) => CollectsAsMeant
<1>1. TimelineInv /\ TimelineInv' /\ [TimelineNext]_timelineVars => [Step]_timelineVars
  <2> SUFFICES ASSUME TimelineInv, TimelineInv', TimelineNext, now' # now,
                      rule = NoRule \/ Schedule!Steady(rule, now')
               PROVE  CollectsAsMeant
    BY DEF timelineVars, switchVars, windowVars, stateVars
  <2>1. PICK jump \in Jumps, idle \in Idles, win \in App \cup {None} : Poll(jump, idle, win)
    BY DEF TimelineNext, SetStopped, SetRule
  <2>2. /\ now' \in 0..MaxTime /\ rule' = rule /\ stopped' = stopped
        /\ WindowTick(Allowed(now') /\ idle < Threshold, win)
        /\ StateTick(now', idle, Allowed(now'))
    BY <2>1 DEF Poll, switchVars
  <2>3. Allowed(now') <=> Meant(now')
    BY <2>2, AllowedAsMeant
  <2>4. Allowed(now') => lastTick' # None
    BY <2>2, TimelineDistinct DEF StateTick, Collect
  <2>5. ~Allowed(now') => open' = None
    BY <2>2 DEF StateTick, Stop
  <2>6. open' # None <=> lastTick' # None
    BY DEF TimelineInv, TimelineTypeOK
  <2>7. ~Allowed(now') => interval' = None
    BY <2>2 DEF WindowTick, CloseIdle
  <2> QED  BY <2>3, <2>4, <2>5, <2>6, <2>7 DEF CollectsAsMeant
<1>2. TimelineSpec => [][Step]_timelineVars
  BY <1>1, Invariance, PTL DEF TimelineSpec
<1> QED  BY <1>2 DEF ScheduleMeansItsWindows

=============================================================================
