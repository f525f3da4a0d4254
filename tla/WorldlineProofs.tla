---------------------------- MODULE WorldlineProofs ----------------------------
(***************************************************************************)
(* Theorems about the lab's clock (LabClock), about the schedule that runs *)
(* on it and about the files and the money of a settlement cycle           *)
(* (Acquirer), with the lemmas about a settlement file's text              *)
(* (SettlementFile) that the last two rest on.                             *)
(***************************************************************************)
EXTENDS Acquirer, NaturalsInduction, FiniteSetTheorems, TLAPS
-----------------------------------------------------------------------------
(***************************************************************************)
(* Arithmetic: the least of a set of numbers, products and quotients.      *)
(***************************************************************************)

Less == {p \in Nat \X Nat : p[1] < p[2]}
LEMMA LessWF == IsWellFoundedOn(Less, Nat)
<1>1. OpToRel(<, Nat) = Less
  BY Zenon DEF OpToRel, Less
<1> QED BY <1>1, NatLessThanWellFounded

\* A set of numbers has a least one, and Min is it.
LEMMA MinIs ==
  ASSUME NEW S, S \subseteq Nat, S # {}
  PROVE  Min(S) \in S /\ \A y \in S : Min(S) <= y
<1>1. \E x \in S : \A y \in S : ~(<<y, x>> \in Less)
  BY LessWF, WFMin
<1>2. \E m \in S : \A y \in S : m <= y
  <2>1. \A k, m \in Nat : k < m => <<k, m>> \in Less
    BY DEF Less
  <2>2. \A k, m \in Nat : ~(k < m) => m <= k
    OBVIOUS
  <2> QED BY <1>1, <2>1, <2>2
<1> QED BY <1>2 DEF Min

\* A set of numbers that holds 0 and each one after one it holds.
LEMMA Induct ==
  ASSUME NEW S, 0 \in S, \A n \in Nat : n \in S => n + 1 \in S
  PROVE  \A n \in Nat : n \in S
<1> SUFFICES ASSUME NEW n \in Nat, n \notin S PROVE FALSE
  OBVIOUS
<1> PICK T : T = Nat \ S
  OBVIOUS
<1>1. T \subseteq Nat /\ T # {}
  OBVIOUS
<1> PICK m \in T : \A k \in T : m <= k
  BY <1>1, MinIs
<1>2. m # 0 /\ m - 1 \in Nat /\ m - 1 \notin T
  OBVIOUS
<1>3. m - 1 \in S /\ (m - 1) + 1 = m
  BY <1>2
<1> QED BY <1>2, <1>3

LEMMA ProductGrows == ASSUME NEW w \in Nat \ {0}, NEW d \in Int, d >= 1 PROVE w * d >= w
<1> SUFFICES ASSUME NEW d0 \in Nat, d = d0 + 1 PROVE w * d >= w
  <2>1. d - 1 \in Nat /\ d = (d - 1) + 1
    OBVIOUS
  <2> QED BY <2>1
<1>1. w * (d0 + 1) = w * d0 + w /\ w * d0 >= 0
  OBVIOUS
<1> QED BY <1>1

LEMMA RestIs ==
  ASSUME NEW w \in Nat \ {0}, NEW z \in Int
  PROVE  z % w \in 0..(w - 1) /\ z \div w \in Int /\ z = w * (z \div w) + (z % w)
<1> QED OBVIOUS

\* Multiples of w lie at least w apart.
LEMMA MultiplesApart ==
  ASSUME NEW w \in Nat \ {0}, NEW d \in Int, NEW e \in Int, d < e
  PROVE  d * w \in Int /\ e * w \in Int /\ d * w + w <= e * w
<1> PICK k \in Int : k = e - d
  OBVIOUS
<1>1. w * k >= w
  <2>1. k >= 1
    OBVIOUS
  <2> QED BY <2>1, ProductGrows
<1>2. (d + k) * w = d * w + w * k /\ e = d + k
  OBVIOUS
<1>3. d * w \in Int /\ e * w \in Int /\ w * k \in Int
  OBVIOUS
<1> QED BY <1>1, <1>2, <1>3

\* A quotient is the one number whose multiple lies below, by less than w.
LEMMA QuotientIs ==
  ASSUME NEW w \in Nat \ {0}, NEW d \in Int, NEW z \in Int, d * w <= z, z < d * w + w
  PROVE  z \div w = d
<1> PICK q \in Int : q = z \div w
  OBVIOUS
<1>1. q * w <= z /\ z < q * w + w /\ q * w \in Int /\ d * w \in Int
  <2>1. z % w \in 0..(w - 1) /\ z = w * q + (z % w) /\ w * q = q * w
    OBVIOUS
  <2> QED BY <2>1
<1>2. ~(q < d)
  BY <1>1, MultiplesApart
<1>3. ~(d < q)
  BY <1>1, MultiplesApart
<1> QED BY <1>2, <1>3

LEMMA QuotientBounds ==
  ASSUME NEW w \in Nat \ {0}, NEW z \in Int
  PROVE  /\ z \div w \in Int /\ (z \div w) * w \in Int
         /\ (z \div w) * w <= z /\ z < (z \div w) * w + w
<1> PICK q \in Int : q = z \div w
  OBVIOUS
<1>1. z % w \in 0..(w - 1) /\ z = w * q + (z % w) /\ w * q = q * w /\ q * w \in Int
  OBVIOUS
<1> QED BY <1>1

LEMMA DayIs == DayTicks \in Nat \ {0} /\ DayTicks >= TicksPerHour
<1>1. TicksPerHour \in Nat \ {0} /\ HoursPerDay \in Int /\ HoursPerDay >= 1
  BY LabClockAssumption
<1>2. TicksPerHour * HoursPerDay >= TicksPerHour /\ TicksPerHour * HoursPerDay \in Int
  BY <1>1, ProductGrows
<1> QED BY <1>1, <1>2 DEF DayTicks
-----------------------------------------------------------------------------
(***************************************************************************)
(* The clock is steady.                                                    *)
(***************************************************************************)

\* Time that is a business day everywhere comes an hour or more at a stretch.
\* It is so when the calendars are whole hours apart (below), as the deployed
\* ones are.
SharedHours ==
  \A at \in Int : BusinessDay(at) =>
    \E from \in Int : /\ from <= at /\ at <= from + TicksPerHour - 1
                      /\ \A t \in from..(from + TicksPerHour - 1) : BusinessDay(t)

WholeHoursApart == \A c, d \in Calendars : (Zone[c] - Zone[d]) % TicksPerHour = 0

LEMMA WholeHoursAreShared == WholeHoursApart => SharedHours
<1> SUFFICES ASSUME WholeHoursApart, NEW at \in Int, BusinessDay(at)
             PROVE  \E from \in Int :
                      /\ from <= at /\ at <= from + TicksPerHour - 1
                      /\ \A t \in from..(from + TicksPerHour - 1) : BusinessDay(t)
  BY DEF SharedHours
<1>0. TicksPerHour \in Nat \ {0} /\ HoursPerDay \in Nat \ {0}
  BY LabClockAssumption
<1>1. CASE Calendars = {}
  BY <1>0, <1>1 DEF BusinessDay
<1>2. CASE Calendars # {}
  <2> PICK c0 \in Calendars : TRUE
    BY <1>2
  <2> PICK z0 \in Int : z0 = Zone[c0]
    BY LabClockAssumption
  <2> PICK k0 \in Int : k0 = (at + z0) \div TicksPerHour
    BY <1>0
  <2>1. k0 * TicksPerHour \in Int /\ k0 * TicksPerHour <= at + z0 /\ at + z0 < k0 * TicksPerHour + TicksPerHour
    BY <1>0, QuotientBounds
  <2> PICK from \in Int : from = k0 * TicksPerHour - z0
    BY <2>1
  <2>2. from <= at /\ at <= from + TicksPerHour - 1
    BY <1>0, <2>1
  <2>3. ASSUME NEW t \in from..(from + TicksPerHour - 1), NEW c \in Calendars
        PROVE  DateOn(c, t) = DateOn(c, at)
    <3> PICK z \in Int : z = Zone[c]
      BY LabClockAssumption
    <3> PICK e \in Int : e = z - z0
      OBVIOUS
    <3> PICK j \in Int : j = e \div TicksPerHour
      BY <1>0
    <3>1. e = j * TicksPerHour /\ j * TicksPerHour \in Int
      <4>1. e % TicksPerHour = 0
        BY DEF WholeHoursApart
      <4>2. e = TicksPerHour * j + (e % TicksPerHour)
        BY <1>0, RestIs
      <4>3. TicksPerHour * j = j * TicksPerHour /\ j * TicksPerHour \in Int
        BY <1>0
      <4> QED BY <4>1, <4>2, <4>3
    <3> PICK k \in Int : k = k0 + j
      OBVIOUS
    <3>2. k * TicksPerHour = k0 * TicksPerHour + j * TicksPerHour /\ k * TicksPerHour \in Int
      BY <1>0
    <3>3. from + z = k * TicksPerHour
      BY <2>1, <3>1, <3>2
    <3> PICK q \in Int : q = k \div HoursPerDay
      BY <1>0
    <3>4. q * HoursPerDay <= k /\ k < q * HoursPerDay + HoursPerDay /\ q * HoursPerDay \in Int
      BY <1>0, QuotientBounds
    <3>5. q * DayTicks <= from + z /\ from + z + TicksPerHour <= q * DayTicks + DayTicks /\ q * DayTicks \in Int
      <4> PICK a \in Int : a = q * HoursPerDay
        BY <3>4
      <4>1. q * DayTicks = a * TicksPerHour /\ q * DayTicks + DayTicks = (a + HoursPerDay) * TicksPerHour
            /\ a * TicksPerHour \in Int /\ (a + HoursPerDay) * TicksPerHour \in Int
        BY <1>0 DEF DayTicks
      <4>2. a * TicksPerHour <= k * TicksPerHour
        BY <1>0, <3>2, <3>4, MultiplesApart
      <4>3. k * TicksPerHour + TicksPerHour <= (a + HoursPerDay) * TicksPerHour
        <5>1. k < a + HoursPerDay /\ a + HoursPerDay \in Int
          BY <1>0, <3>4
        <5> QED BY <1>0, <5>1, MultiplesApart
      <4> QED BY <1>0, <3>2, <3>3, <4>1, <4>2, <4>3
    <3>6. \A x \in from..(from + TicksPerHour - 1) : (x + z) \div DayTicks = q
      <4> TAKE x \in from..(from + TicksPerHour - 1)
      <4>1. x + z \in Int /\ q * DayTicks <= x + z /\ x + z < q * DayTicks + DayTicks
        BY <1>0, <3>5, DayIs
      <4> QED BY <4>1, DayIs, QuotientIs
    <3>7. at \in from..(from + TicksPerHour - 1)
      BY <1>0, <2>2
    <3> QED BY <3>6, <3>7 DEF DateOn
  <2>4. \A t \in from..(from + TicksPerHour - 1) : BusinessDay(t)
    BY <2>3 DEF BusinessDay, BusinessDayOn
  <2> QED BY <2>2, <2>4
<1> QED BY <1>1, <1>2

ClockTypes ==
  /\ wall \in Int /\ offset \in Int /\ follower \in Int
  /\ moves \in Nat /\ clockRestarts \in Nat

\* The latest business day, in hours back from here.
LEMMA Latest ==
  ASSUME NEW w \in Int, HoursBack(w) # {}
  PROVE  /\ Min(HoursBack(w)) \in HoursBack(w)
         /\ \A h \in HoursBack(w) : Min(HoursBack(w)) <= h
<1>1. HoursBack(w) \subseteq Nat
  BY LabClockAssumption DEF HoursBack
<1> QED BY <1>1, MinIs

LEMMA HoursAre ==
  ASSUME NEW w \in Int
  PROVE  /\ HoursBack(w) \subseteq Nat
         /\ \A h \in Nat : h \in HoursBack(w) <=> h < 6 * HoursPerDay /\ BusinessDay(w - h * TicksPerHour)
<1>1. HoursPerDay \in Nat
  BY LabClockAssumption
<1>2. \A h \in Nat : h \in 0..(6 * HoursPerDay - 1) <=> h < 6 * HoursPerDay
  BY <1>1
<1> QED BY <1>1, <1>2 DEF HoursBack

LEMMA OffsetIs ==
  ASSUME NEW m, NEW off \in Int, NEW w \in Int
  PROVE  /\ OffsetIn(m, off, w) \in Int
         /\ m = "pinned" => OffsetIn(m, off, w) = off
         /\ m = "auto" /\ HoursBack(w) # {} => OffsetIn(m, off, w) = -(Min(HoursBack(w)) * TicksPerHour)
         /\ m # "pinned" /\ (m # "auto" \/ HoursBack(w) = {}) => OffsetIn(m, off, w) = 0
<1>1. ASSUME HoursBack(w) # {} PROVE /\ Min(HoursBack(w)) * TicksPerHour \in Int
                                     /\ -TicksPerHour * Min(HoursBack(w)) = -(Min(HoursBack(w)) * TicksPerHour)
  <2> PICK h \in Nat : h = Min(HoursBack(w))
    BY <1>1, Latest, HoursAre
  <2>1. h * TicksPerHour \in Int /\ -TicksPerHour * h = -(h * TicksPerHour)
    BY LabClockAssumption
  <2> QED BY <2>1
<1>2. CASE m = "pinned"
  BY <1>2 DEF OffsetIn
<1>3. CASE m = "auto" /\ HoursBack(w) # {}
  BY <1>1, <1>3 DEF OffsetIn
<1>4. CASE m # "pinned" /\ (m # "auto" \/ HoursBack(w) = {})
  BY <1>4 DEF OffsetIn
<1> QED BY <1>2, <1>3, <1>4

\* A tick later the latest business day is at most an hour further back, and
\* one that comes into sight is today.
LEMMA TickSlips ==
  ASSUME SharedHours, NEW w \in Int, HoursBack(w + 1) # {}
  PROVE  /\ HoursBack(w) # {} => Min(HoursBack(w + 1)) <= Min(HoursBack(w)) + 1
         /\ HoursBack(w) = {} => Min(HoursBack(w + 1)) = 0
<1>0. TicksPerHour \in Nat \ {0} /\ HoursPerDay \in Nat \ {0} /\ w + 1 \in Int
  BY LabClockAssumption
<1> PICK g \in Nat : g = Min(HoursBack(w + 1))
  BY <1>0, Latest, HoursAre
<1>1. /\ g < 6 * HoursPerDay /\ BusinessDay((w + 1) - g * TicksPerHour)
      /\ \A h \in Nat : h < 6 * HoursPerDay /\ BusinessDay((w + 1) - h * TicksPerHour) => g <= h
  BY <1>0, Latest, HoursAre
<1>2. ASSUME HoursBack(w) # {} PROVE g <= Min(HoursBack(w)) + 1
  <2> PICK h \in Nat : h = Min(HoursBack(w))
    BY <1>2, Latest, HoursAre
  <2>1. h < 6 * HoursPerDay /\ BusinessDay(w - h * TicksPerHour)
    BY <1>2, Latest, HoursAre
  <2> PICK b \in Int : b = h * TicksPerHour
    BY <1>0
  <2> PICK from \in Int : /\ from <= w - b /\ w - b <= from + TicksPerHour - 1
                          /\ \A t \in from..(from + TicksPerHour - 1) : BusinessDay(t)
    BY <2>1 DEF SharedHours
  <2>2. ASSUME w - b < from + TicksPerHour - 1 PROVE g <= h + 1
    <3>1. (w + 1) - b \in from..(from + TicksPerHour - 1)
      BY <1>0, <2>2
    <3> QED BY <1>1, <2>1, <3>1
  <2>3. ASSUME w - b = from + TicksPerHour - 1 PROVE g <= h + 1
    <3>1. (h + 1) * TicksPerHour = b + TicksPerHour
      BY <1>0
    <3>2. (w + 1) - (h + 1) * TicksPerHour = from /\ from \in from..(from + TicksPerHour - 1)
      BY <1>0, <2>3, <3>1
    <3>3. CASE h + 1 < 6 * HoursPerDay
      BY <1>1, <3>2, <3>3
    <3>4. CASE ~(h + 1 < 6 * HoursPerDay)
      <4> PICK l \in Nat : l = 6 * HoursPerDay
        BY <1>0
      <4>1. g < l /\ ~(h + 1 < l)
        BY <1>1, <3>4
      <4> QED BY <4>1
    <3> QED BY <3>3, <3>4
  <2>4. g <= h + 1
    BY <1>0, <2>2, <2>3
  <2> QED BY <2>4
<1>3. ASSUME HoursBack(w) = {} PROVE g = 0
  <2>0. \A h \in Nat : h < 6 * HoursPerDay => ~BusinessDay(w - h * TicksPerHour)
    BY <1>3, HoursAre
  <2> SUFFICES ASSUME g # 0 PROVE FALSE
    OBVIOUS
  <2> PICK b \in Int : b = g * TicksPerHour
    BY <1>0
  <2> PICK from \in Int : /\ from <= (w + 1) - b /\ (w + 1) - b <= from + TicksPerHour - 1
                          /\ \A t \in from..(from + TicksPerHour - 1) : BusinessDay(t)
    <3>1. (w + 1) - b \in Int /\ BusinessDay((w + 1) - b)
      BY <1>0, <1>1
    <3> QED BY <3>1 DEF SharedHours
  <2>1. CASE from < (w + 1) - b
    <3>1. w - b \in from..(from + TicksPerHour - 1)
      BY <1>0, <2>1
    <3> QED BY <1>1, <2>0, <3>1
  <2>2. CASE from = (w + 1) - b
    <3>1. g - 1 \in Nat /\ g - 1 < 6 * HoursPerDay
      <4> PICK l \in Nat : l = 6 * HoursPerDay
        BY <1>0
      <4>1. g < l
        BY <1>1
      <4> QED BY <4>1
    <3>2. (g - 1) * TicksPerHour = b - TicksPerHour
      BY <1>0
    <3>3. w - (g - 1) * TicksPerHour \in from..(from + TicksPerHour - 1)
      BY <1>0, <2>2, <3>2
    <3> QED BY <2>0, <3>1, <3>3
  <2> QED BY <2>1, <2>2
<1> QED BY <1>2, <1>3

LEMMA AutoHolds == ClockTypes => AutoIsABusinessDay
<1> SUFFICES ASSUME ClockTypes, mode = "auto", NEW h0 \in 0..(6 * HoursPerDay - 1),
                    BusinessDay(wall - h0 * TicksPerHour)
             PROVE  \A c \in Calendars : BusinessDayOn(c, LabNow)
  BY DEF AutoIsABusinessDay
<1>0. wall \in Int /\ offset \in Int
  BY DEF ClockTypes
<1>1. HoursBack(wall) # {}
  BY DEF HoursBack
<1> PICK h \in Nat : h = Min(HoursBack(wall))
  BY <1>0, <1>1, Latest, HoursAre
<1>2. BusinessDay(wall - h * TicksPerHour)
  BY <1>0, <1>1, Latest, HoursAre
<1>3. LabNow = wall - h * TicksPerHour
  <2>1. Offset = -(h * TicksPerHour)
    BY <1>0, <1>1, OffsetIs DEF Offset
  <2>2. h * TicksPerHour \in Int
    BY LabClockAssumption
  <2> QED BY <1>0, <2>1, <2>2 DEF LabNow
<1> QED BY <1>2, <1>3 DEF BusinessDay

LEMMA AutoHoldsAfter == ClockTypes' => AutoIsABusinessDay'
<1> QED BY AutoHolds, PTL

LEMMA ResolvedIs ==
  ASSUME NEW r \in Requests \cup StartRequests, r.kind # "bad", NEW m, NEW off \in Int, NEW real \in Int
  PROVE  Resolved(r, m, off, real).offset \in Int
<1>1. \/ r.kind = "at" /\ r.at \in Int
      \/ r.kind = "advance" /\ r.by \in Int
      \/ r.kind = "mode"
  BY LabClockAssumption
<1>2. CASE r.kind = "at" /\ r.at \in Int
  BY <1>2 DEF Resolved
<1>3. CASE r.kind = "advance" /\ r.by \in Int
  <2>1. OffsetIn(m, off, real) \in Int
    BY OffsetIs
  <2> QED BY <1>3, <2>1 DEF Resolved
<1>4. CASE r.kind = "mode"
  BY <1>4 DEF Resolved
<1> QED BY <1>1, <1>2, <1>3, <1>4

LEMMA ClockStarts == ClockInit => ClockTypes
<1> SUFFICES ASSUME ClockInit PROVE ClockTypes
  OBVIOUS
<1>1. wall \in Int
  BY LabClockAssumption DEF ClockInit
<1>2. offset \in Int
  <2> PICK r \in StartRequests : offset = Started(r).offset
    BY DEF ClockInit
  <2>1. r.kind # "bad"
    BY LabClockAssumption
  <2> QED BY <1>1, <2>1, ResolvedIs DEF Started
<1> QED BY <1>1, <1>2 DEF ClockInit, ClockTypes

LEMMA MoveKeeps == ASSUME ClockTypes, NEW r \in Requests, Move(r) PROVE ClockTypes'
<1>1. CASE DOMAIN holds' # {} \/ r.kind = "bad"
  BY <1>1 DEF Move, ClockTypes
<1>2. CASE ~(DOMAIN holds' # {} \/ r.kind = "bad")
  <2>1. offset' \in Int
    BY <1>2, ResolvedIs DEF Move, ClockTypes
  <2> QED BY <1>2, <2>1 DEF Move, ClockTypes
<1> QED BY <1>1, <1>2

LEMMA RestartKeeps == ASSUME ClockTypes, RestartClock PROVE ClockTypes'
<1> PICK r \in StartRequests : offset' = Started(r).offset
  BY DEF RestartClock
<1>1. r.kind # "bad"
  BY LabClockAssumption
<1>2. offset' \in Int
  BY <1>1, ResolvedIs DEF Started, ClockTypes
<1> QED BY <1>2 DEF RestartClock, ClockTypes

LEMMA PollKeeps == ASSUME ClockTypes, Poll PROVE ClockTypes'
<1>1. Offset \in Int
  BY OffsetIs DEF Offset, ClockTypes
<1> QED BY <1>1 DEF Poll, ClockTypes

LEMMA ClockKeeps == ClockTypes /\ [ClockNext]_clockVars => ClockTypes'
<1> SUFFICES ASSUME ClockTypes, [ClockNext]_clockVars PROVE ClockTypes'
  OBVIOUS
<1>1. ASSUME NEW r \in Requests, Move(r) PROVE ClockTypes'
  BY <1>1, MoveKeeps
<1>2. ASSUME NEW h \in Holders, NEW ttl \in 1..(MaxHold + 1), Take(h, ttl) PROVE ClockTypes'
  BY <1>2 DEF Take, ClockTypes
<1>3. ASSUME NEW h \in Holders, Release(h) PROVE ClockTypes'
  BY <1>3 DEF Release, ClockTypes
<1>4. CASE Poll
  BY <1>4, PollKeeps
<1>5. CASE RestartClock
  BY <1>5, RestartKeeps
<1>6. CASE Tick
  BY <1>6 DEF Tick, ClockTypes, clock
<1>7. CASE UNCHANGED clockVars
  BY <1>7 DEF clockVars, clock, ClockTypes
<1> QED BY <1>1, <1>2, <1>3, <1>4, <1>5, <1>6, <1>7 DEF ClockNext, Clients

LEMMA LabNowIs == ClockTypes => LabNow \in Int
<1> QED BY OffsetIs DEF LabNow, Offset, ClockTypes

\* What the clock is said to do in one step.
HeldStill ==
  (\E h \in DOMAIN holds : wall < holds[h]) /\ clockRestarts' = clockRestarts
    => UNCHANGED <<mode, offset>>

NotBack == UNCHANGED <<moves, clockRestarts>> => LabNow' > LabNow - TicksPerHour

LEMMA SameTimeNotBack ==
  ASSUME ClockTypes, UNCHANGED <<wall, mode, offset>>
  PROVE  NotBack
<1>1. LabNow' = LabNow
  BY DEF LabNow, Offset
<1>2. LabNow \in Int
  BY LabNowIs
<1> QED BY <1>1, <1>2, LabClockAssumption DEF NotBack

LEMMA MoveIsSteady == ASSUME ClockTypes, NEW r \in Requests, Move(r) PROVE HeldStill /\ NotBack
<1>1. CASE DOMAIN holds' # {} \/ r.kind = "bad"
  <2>1. UNCHANGED <<wall, mode, offset>>
    BY <1>1 DEF Move
  <2> QED BY <2>1, SameTimeNotBack DEF HeldStill
<1>2. CASE ~(DOMAIN holds' # {} \/ r.kind = "bad")
  <2>1. ~(\E h \in DOMAIN holds : wall < holds[h])
    BY <1>2 DEF Move, LiveHolds
  <2>2. moves' # moves
    BY <1>2 DEF Move, ClockTypes
  <2> QED BY <2>1, <2>2 DEF HeldStill, NotBack
<1> QED BY <1>1, <1>2

LEMMA TickIsSteady == ASSUME SharedHours, ClockTypes, Tick PROVE HeldStill /\ NotBack
<1>1. wall \in Int /\ offset \in Int /\ wall' = wall + 1 /\ UNCHANGED <<mode, offset>>
  BY DEF ClockTypes, Tick, clock
<1>2. LabNow = wall + OffsetIn(mode, offset, wall) /\ LabNow' = (wall + 1) + OffsetIn(mode, offset, wall + 1)
  BY <1>1 DEF LabNow, Offset
<1> PICK w \in Int, off \in Int, x \in Int, y \in Int :
      /\ w = wall /\ off = offset
      /\ x = OffsetIn(mode, offset, wall) /\ y = OffsetIn(mode, offset, wall + 1)
  <2>1. wall + 1 \in Int
    BY <1>1
  <2> QED BY <1>1, <2>1, OffsetIs
<1>3. y > x - TicksPerHour - 1
  <2>0. TicksPerHour \in Nat \ {0} /\ w + 1 \in Int
    BY LabClockAssumption
  <2>1. CASE mode = "pinned"
    <3>1. x = off /\ y = off
      BY <2>0, <2>1, OffsetIs
    <3> QED BY <2>0, <3>1
  <2>2. CASE mode # "pinned" /\ (mode # "auto" \/ HoursBack(w + 1) = {})
    <3>1. y = 0
      BY <2>0, <2>2, OffsetIs
    <3>2. x <= 0
      <4>1. CASE mode = "auto" /\ HoursBack(w) # {}
        <5> PICK h \in Nat : h = Min(HoursBack(w))
          BY <4>1, Latest, HoursAre
        <5>1. x = -(h * TicksPerHour)
          BY <4>1, OffsetIs
        <5>2. h * TicksPerHour >= 0 /\ h * TicksPerHour \in Int
          BY <2>0
        <5> QED BY <5>1, <5>2
      <4>2. CASE ~(mode = "auto" /\ HoursBack(w) # {})
        <5>1. x = 0
          BY <2>2, <4>2, OffsetIs
        <5> QED BY <5>1
      <4> QED BY <4>1, <4>2
    <3> QED BY <2>0, <3>1, <3>2
  <2>3. CASE mode = "auto" /\ HoursBack(w + 1) # {}
    <3> PICK g \in Nat : g = Min(HoursBack(w + 1))
      BY <2>0, <2>3, Latest, HoursAre
    <3>1. y = -(g * TicksPerHour)
      BY <2>0, <2>3, OffsetIs
    <3>2. CASE HoursBack(w) = {}
      <4>1. g = 0 /\ x = 0
        BY <2>3, <3>2, OffsetIs, TickSlips
      <4>2. y = 0
        BY <2>0, <3>1, <4>1
      <4> QED BY <2>0, <4>1, <4>2
    <3>3. CASE HoursBack(w) # {}
      <4> PICK h \in Nat : h = Min(HoursBack(w))
        BY <3>3, Latest, HoursAre
      <4>1. x = -(h * TicksPerHour) /\ g <= h + 1
        BY <2>3, <3>3, OffsetIs, TickSlips
      <4>2. g * TicksPerHour <= h * TicksPerHour + TicksPerHour
            /\ g * TicksPerHour \in Int /\ h * TicksPerHour \in Int
        <5>1. (h + 1) * TicksPerHour = h * TicksPerHour + TicksPerHour
              /\ g * TicksPerHour \in Int /\ h * TicksPerHour \in Int
          BY <2>0
        <5>2. CASE g = h + 1
          BY <2>0, <5>1, <5>2
        <5>3. CASE g < h + 1
          <6>1. g * TicksPerHour + TicksPerHour <= (h + 1) * TicksPerHour
            BY <2>0, <5>3, MultiplesApart
          <6> QED BY <2>0, <5>1, <6>1
        <5> QED BY <4>1, <5>2, <5>3
      <4> QED BY <2>0, <3>1, <4>1, <4>2
    <3> QED BY <3>2, <3>3
  <2> QED BY <2>1, <2>2, <2>3
<1>4. LabNow = w + x /\ LabNow' = (w + 1) + y
  BY <1>2
<1>5. TicksPerHour \in Int
  BY LabClockAssumption
<1>6. LabNow' > LabNow - TicksPerHour
  BY <1>3, <1>4, <1>5
<1> QED BY <1>1, <1>6 DEF HeldStill, NotBack

LEMMA StepIsSteady ==
  ASSUME SharedHours, ClockTypes, [ClockNext]_clockVars
  PROVE  HeldStill /\ NotBack
<1>1. ASSUME NEW r \in Requests, Move(r) PROVE HeldStill /\ NotBack
  BY <1>1, MoveIsSteady
<1>2. ASSUME UNCHANGED <<wall, mode, offset>> PROVE HeldStill /\ NotBack
  BY <1>2, SameTimeNotBack DEF HeldStill
<1>3. ASSUME NEW h \in Holders, NEW ttl \in 1..(MaxHold + 1), Take(h, ttl) PROVE HeldStill /\ NotBack
  BY <1>2, <1>3 DEF Take
<1>4. ASSUME NEW h \in Holders, Release(h) PROVE HeldStill /\ NotBack
  BY <1>2, <1>4 DEF Release
<1>5. CASE Poll
  BY <1>2, <1>5 DEF Poll
<1>6. CASE RestartClock
  <2>1. clockRestarts' # clockRestarts
    BY <1>6 DEF RestartClock, ClockTypes
  <2> QED BY <2>1 DEF HeldStill, NotBack
<1>7. CASE Tick
  BY <1>7, TickIsSteady
<1>8. CASE UNCHANGED clockVars
  BY <1>2, <1>8 DEF clockVars, clock
<1> QED BY <1>1, <1>3, <1>4, <1>5, <1>6, <1>7, <1>8 DEF ClockNext, Clients

\* Over calendars whose business days share their hours, the automatic clock
\* shows a business day on every one of them, a held clock is not moved, and
\* left alone the lab's time never slips back by an hour or more, whatever the
\* clients and the wall clock do (offsetLocked, Move, Hold).
THEOREM ClockIsSteady == SharedHours /\ ClockSpec => Steady
<1> SUFFICES ASSUME SharedHours PROVE ClockSpec => Steady
  OBVIOUS
<1>1. ClockInit => ClockTypes
  BY ClockStarts
<1>2. ClockTypes /\ [ClockNext]_clockVars => ClockTypes'
  BY ClockKeeps
<1>3. ClockTypes /\ [ClockNext]_clockVars =>
        [/\ AutoIsABusinessDay'
         /\ (\E h \in DOMAIN holds : wall < holds[h]) /\ clockRestarts' = clockRestarts
              => UNCHANGED <<mode, offset>>
         /\ UNCHANGED <<moves, clockRestarts>> => LabNow' > LabNow - TicksPerHour]_clockVars
  BY ClockKeeps, AutoHoldsAfter, StepIsSteady DEF HeldStill, NotBack
<1> QED BY <1>1, <1>2, <1>3, PTL DEF ClockSpec, Steady
-----------------------------------------------------------------------------
(***************************************************************************)
(* The schedule's arithmetic: where a day's slots lie.                     *)
(***************************************************************************)

\* A day's morning slot is asked for at one time and comes at that time or,
\* with its jitter, later; its afternoon slot follows.
Morning(day) == day * DayTicks + MorningAt
Late(day) == Morning(day) + Jitter[day % 2]
Afternoon(day) == day * DayTicks + AfternoonAt

\* Days that follow one another do so for good.
Ordered ==
  \A d, e \in Int : d < e => Afternoon(d) < Morning(e) /\ Morning(d) < Morning(e) /\ Afternoon(d) < Afternoon(e)

InItsDay(d) ==
  /\ Morning(d) \in Int /\ Late(d) \in Int /\ Afternoon(d) \in Int
  /\ Morning(d) <= Late(d) /\ Late(d) < Afternoon(d)

LEMMA SlotsInTheirDay == ASSUME NEW d \in Int PROVE InItsDay(d)
<1>1. d * DayTicks \in Int
  BY DayIs
<1>2. d % 2 \in {0, 1}
  OBVIOUS
<1> PICK m \in Int, a \in Int, j \in Nat : m = MorningAt /\ a = AfternoonAt /\ j = Jitter[d % 2] /\ m + j < a
  <2>1. MorningAt \in Int /\ AfternoonAt \in Int
    BY DayIs, AcquirerAssumption
  <2>2. Jitter[d % 2] \in Nat /\ MorningAt + Jitter[d % 2] < AfternoonAt
    BY <1>2, AcquirerAssumption
  <2> QED BY <2>1, <2>2
<1>3. Morning(d) = d * DayTicks + m /\ Afternoon(d) = d * DayTicks + a /\ Late(d) = d * DayTicks + m + j
  BY DEF Morning, Afternoon, Late
<1> QED BY <1>1, <1>3 DEF InItsDay

LEMMA SlotsOrdered == Ordered
<1> SUFFICES ASSUME NEW d \in Int, NEW e \in Int, d < e
             PROVE  Afternoon(d) < Morning(e) /\ Morning(d) < Morning(e) /\ Afternoon(d) < Afternoon(e)
  BY DEF Ordered
<1>1. d * DayTicks \in Int /\ e * DayTicks \in Int /\ d * DayTicks + DayTicks <= e * DayTicks
  BY DayIs, MultiplesApart
<1>2. MorningAt \in 0..(DayTicks - 1) /\ AfternoonAt \in 0..(DayTicks - 1) /\ DayTicks \in Nat
  BY DayIs, AcquirerAssumption
<1> QED BY <1>1, <1>2 DEF Morning, Afternoon

\* A time of a day tells its slot.
LEMMA OneSlot ==
  ASSUME NEW d \in Int, NEW e \in Int
  PROVE  /\ Afternoon(d) = Afternoon(e) => d = e
         /\ ~(Morning(d) <= Afternoon(e) /\ Afternoon(e) <= Late(d))
         /\ Morning(d) <= Late(e) /\ Late(e) <= Late(d) => d = e
<1>1. InItsDay(d) /\ InItsDay(e)
  BY SlotsInTheirDay
<1>2. CASE d < e
  <2>1. Afternoon(d) < Morning(e) /\ Afternoon(d) < Afternoon(e)
    BY <1>2, SlotsOrdered DEF Ordered
  <2> QED BY <1>1, <2>1 DEF InItsDay
<1>3. CASE e < d
  <2>1. Afternoon(e) < Morning(d) /\ Afternoon(e) < Afternoon(d)
    BY <1>3, SlotsOrdered DEF Ordered
  <2> QED BY <1>1, <2>1 DEF InItsDay
<1>4. CASE d = e
  BY <1>1, <1>4 DEF InItsDay
<1> QED BY <1>2, <1>3, <1>4

\* nextClock finds the first day's time that lies after now.
LEMMA NextClockIs ==
  ASSUME NEW now \in Int, NEW at \in 0..(DayTicks - 1)
  PROVE  \E day \in Int : /\ NextClock(now, at) = day * DayTicks + at
                          /\ NextClock(now, at) > now
                          /\ \A d \in Int : d * DayTicks + at > now => day <= d
<1> PICK w \in Nat \ {0} : w = DayTicks
  BY DayIs
<1> PICK q \in Int : q = now \div w
  BY QuotientBounds
<1>1. q * w \in Int /\ q * w <= now /\ now < q * w + w /\ at \in 0..(w - 1)
  BY QuotientBounds
<1>2. NextClock(now, at) = IF q * w + at > now THEN q * w + at ELSE q * w + at + w
  BY DEF NextClock, Midnight
<1>3. (q + 1) * w = q * w + w
  OBVIOUS
<1>4. \A d \in Int : d < q => d * w + at <= now
  <2> TAKE d \in Int
  <2> HAVE d < q
  <2>1. d * w + w <= q * w /\ d * w \in Int
    BY MultiplesApart
  <2> QED BY <1>1, <2>1
<1>5. CASE q * w + at > now
  <2>1. \A d \in Int : d * w + at > now => q <= d
    <3> TAKE d \in Int
    <3>1. d < q => d * w + at <= now
      BY <1>4
    <3>2. d * w + at \in Int
      BY <1>1
    <3> QED BY <3>1, <3>2
  <2> QED BY <1>2, <1>5, <2>1
<1>6. CASE ~(q * w + at > now)
  <2>1. \A d \in Int : d * w + at > now => q + 1 <= d
    <3> TAKE d \in Int
    <3>1. d < q => d * w + at <= now
      BY <1>4
    <3>2. d = q => ~(d * w + at > now)
      BY <1>6
    <3>3. d * w + at \in Int
      BY <1>1
    <3> QED BY <3>1, <3>2, <3>3
  <2>2. NextClock(now, at) = (q + 1) * w + at
    BY <1>1, <1>2, <1>3, <1>6
  <2>3. (q + 1) * w + at > now /\ q + 1 \in Int
    BY <1>1, <1>3
  <2> QED BY <2>1, <2>2, <2>3
<1> QED BY <1>5, <1>6

LEMMA JitterIs == ASSUME NEW d \in Int PROVE JitterFor(Morning(d)) = Jitter[d % 2] /\ JitterFor(d * DayTicks) = Jitter[d % 2]
<1>1. DayTicks \in Nat \ {0} /\ MorningAt \in 0..(DayTicks - 1) /\ d * DayTicks \in Int
  BY DayIs, AcquirerAssumption
<1>2. d * DayTicks + MorningAt \in Int /\ d * DayTicks <= d * DayTicks + MorningAt
      /\ d * DayTicks + MorningAt < d * DayTicks + DayTicks
  BY <1>1
<1>3. (d * DayTicks + MorningAt) \div DayTicks = d
  BY <1>1, <1>2, QuotientIs
<1>4. (d * DayTicks) \div DayTicks = d
  BY <1>1, QuotientIs
<1> QED BY <1>3, <1>4 DEF JitterFor, Morning

\* What the schedule plans: the time of a slot, of its own kind.
IsSlot(n) ==
  \/ n.slot = "AR" /\ \E day \in Int : n.at = Afternoon(day)
  \/ n.slot = "ER" /\ \E day \in Int : n.at = Late(day)

\* It lies ahead, and before any slot that lies ahead.
Before(n, now) ==
  /\ n.at \in Int /\ n.at > now
  /\ \A day \in Int : Afternoon(day) > now => n.at <= Afternoon(day)
  /\ \A day \in Int : Morning(day) > now => n.at <= Late(day)

LEMMA NextFireIs == ASSUME NEW now \in Int PROVE IsSlot(NextFire(now)) /\ Before(NextFire(now), now)
<1> PICK m \in Int : /\ NextClock(now, MorningAt) = Morning(m) /\ Morning(m) > now
                     /\ \A d \in Int : Morning(d) > now => m <= d
  BY AcquirerAssumption, NextClockIs DEF Morning
<1> PICK a \in Int : /\ NextClock(now, AfternoonAt) = Afternoon(a) /\ Afternoon(a) > now
                     /\ \A d \in Int : Afternoon(d) > now => a <= d
  BY AcquirerAssumption, NextClockIs DEF Afternoon
<1>0. InItsDay(m) /\ InItsDay(a) /\ \A d \in Int : InItsDay(d)
  BY SlotsInTheirDay
<1>1. ASSUME NEW d \in Int, Afternoon(d) > now PROVE Afternoon(a) <= Afternoon(d)
  <2>1. a = d \/ Afternoon(a) < Afternoon(d)
    BY <1>1, SlotsOrdered DEF Ordered
  <2> QED BY <1>0, <2>1 DEF InItsDay
<1>2. ASSUME NEW d \in Int, Morning(d) > now PROVE Morning(m) <= Late(d) /\ Late(m) <= Late(d)
  <2>1. m = d \/ Afternoon(m) < Morning(d)
    BY <1>2, SlotsOrdered DEF Ordered
  <2>2. InItsDay(m) /\ InItsDay(d)
    BY <1>0
  <2> QED BY <2>1, <2>2 DEF InItsDay
<1>3. ASSUME Morning(m) < Afternoon(a) PROVE Late(m) <= Afternoon(a)
  <2>1. ~(a < m)
    <3>1. a < m => Afternoon(a) < Morning(m)
      BY SlotsOrdered DEF Ordered
    <3> QED BY <1>0, <1>3, <3>1 DEF InItsDay
  <2>2. m = a \/ Afternoon(m) < Afternoon(a)
    BY <2>1, SlotsOrdered DEF Ordered
  <2> QED BY <1>0, <2>2 DEF InItsDay
<1>4. CASE Morning(m) < Afternoon(a)
  <2> PICK n : n = NextFire(now)
    OBVIOUS
  <2>1. n.at = Late(m) /\ n.slot = "ER"
    BY <1>4, JitterIs DEF NextFire, Late
  <2>2. n.at \in Int /\ n.at > now
    BY <1>0, <2>1 DEF InItsDay
  <2>3. ASSUME NEW d \in Int, Afternoon(d) > now PROVE n.at <= Afternoon(d)
    BY <1>0, <1>1, <1>3, <1>4, <2>1, <2>3 DEF InItsDay
  <2>4. ASSUME NEW d \in Int, Morning(d) > now PROVE n.at <= Late(d)
    BY <1>2, <2>1, <2>4
  <2> QED BY <2>1, <2>2, <2>3, <2>4 DEF IsSlot, Before
<1>5. CASE ~(Morning(m) < Afternoon(a))
  <2> PICK n : n = NextFire(now)
    OBVIOUS
  <2>1. n.at = Afternoon(a) /\ n.slot = "AR"
    BY <1>5 DEF NextFire
  <2>2. n.at \in Int /\ n.at > now
    BY <1>0, <2>1 DEF InItsDay
  <2>3. ASSUME NEW d \in Int, Afternoon(d) > now PROVE n.at <= Afternoon(d)
    BY <1>1, <2>1, <2>3
  <2>4. ASSUME NEW d \in Int, Morning(d) > now PROVE n.at <= Late(d)
    <3>1. Morning(m) <= Late(d) /\ InItsDay(d)
      BY <1>0, <1>2, <2>4
    <3> QED BY <1>0, <1>5, <2>1, <3>1 DEF InItsDay
  <2> QED BY <2>1, <2>2, <2>3, <2>4 DEF IsSlot, Before
<1> QED BY <1>4, <1>5
-----------------------------------------------------------------------------
(***************************************************************************)
(* The runs only grow, and keep their slot and time.                       *)
(***************************************************************************)

IsRun(r) ==
  DOMAIN r = {"slot", "at", "date", "known", "step", "ccys", "files", "published", "failed", "wired"}

RunsShape ==
  /\ \E S : runs \in Seq(S)
  /\ \A i \in 1..Len(runs) : IsRun(runs[i])

Alike(r, q) == r.slot = q.slot /\ r.at = q.at

RunsGrow == \A i \in 1..Len(runs) : i \in 1..Len(runs') /\ Alike(runs'[i], runs[i])

LEMMA RunsStay == ASSUME RunsShape, UNCHANGED runs PROVE RunsShape' /\ RunsGrow
<1> QED BY DEF RunsShape, RunsGrow, Alike

LEMMA RunAdded ==
  ASSUME RunsShape, NEW r, IsRun(r), runs' = Append(runs, r)
  PROVE  RunsShape' /\ RunsGrow /\ \E i \in 1..Len(runs') : runs'[i] = r
<1> PICK S : runs \in Seq(S)
  BY DEF RunsShape
<1> PICK n \in Nat : n = Len(runs)
  OBVIOUS
<1>1. runs \in Seq(S \cup {r})
  OBVIOUS
<1>2. runs' \in Seq(S \cup {r}) /\ Len(runs') = n + 1 /\ runs'[n + 1] = r /\ \A i \in 1..n : runs'[i] = runs[i]
  BY <1>1
<1>3. \A i \in 1..(n + 1) : i = n + 1 \/ i \in 1..n
  OBVIOUS
<1>4. n + 1 \in 1..(n + 1) /\ \A i \in 1..n : i \in 1..(n + 1)
  OBVIOUS
<1>5. RunsShape'
  BY <1>2, <1>3 DEF RunsShape
<1>6. RunsGrow
  BY <1>2, <1>4 DEF RunsGrow, Alike
<1> QED BY <1>2, <1>4, <1>5, <1>6

LEMMA RunGoesOn ==
  ASSUME RunsShape, NEW i \in 1..Len(runs), NEW r, Goes(i, r), IsRun(r), Alike(r, runs[i])
  PROVE  RunsShape' /\ RunsGrow
<1> PICK S : runs \in Seq(S)
  BY DEF RunsShape
<1> PICK n \in Nat : n = Len(runs)
  OBVIOUS
<1>1. runs \in Seq(S \cup {r}) /\ DOMAIN runs = 1..n /\ i \in 1..n
  OBVIOUS
<1>2. runs' = [runs EXCEPT ![i] = r]
  BY DEF Goes
<1>3. runs' \in Seq(S \cup {r}) /\ Len(runs') = n
  BY <1>1, <1>2
<1>4. \A j \in 1..n : runs'[j] = IF j = i THEN r ELSE runs[j]
  BY <1>1, <1>2
<1>5. RunsShape'
  BY <1>3, <1>4 DEF RunsShape
<1>6. RunsGrow
  BY <1>3, <1>4 DEF RunsGrow, Alike
<1> QED BY <1>5, <1>6

LEMMA StepKeepsRuns == ASSUME RunsShape, NEW i \in 1..MaxRuns, Step(i) PROVE RunsShape' /\ RunsGrow
<1>1. i \in 1..Len(runs) /\ IsRun(runs[i])
  BY DEF RunsShape, Step, ReadCurrencies, CutOne, PublishOne, Wire, Finish, AllPublished, At
<1> PICK r : r = runs[i]
  OBVIOUS
<1>2. ASSUME NEW q, Goes(i, q), IsRun(q), Alike(q, r) PROVE RunsShape' /\ RunsGrow
  BY <1>1, <1>2, RunGoesOn
<1>3. CASE ReadCurrencies(i)
  <2>1. CASE source = "fixture"
    <3> PICK q, fs : q = [r EXCEPT !.files = fs, !.step = "publish"] /\ Goes(i, q)
      BY <1>3, <2>1 DEF ReadCurrencies
    <3>1. IsRun(q) /\ Alike(q, r)
      BY <1>1 DEF IsRun, Alike
    <3> QED BY <1>2, <3>1
  <2>2. CASE source # "fixture"
    <3> PICK q, cs : q = [r EXCEPT !.ccys = cs, !.step = "cut"] /\ Goes(i, q)
      BY <1>3, <2>2 DEF ReadCurrencies
    <3>1. IsRun(q) /\ Alike(q, r)
      BY <1>1 DEF IsRun, Alike
    <3> QED BY <1>2, <3>1
  <2> QED BY <2>1, <2>2
<1>4. CASE CutOne(i)
  <2>1. \E q : /\ Goes(i, q)
               /\ \/ q = [r EXCEPT !.step = "publish"]
                  \/ \E cs : q = [r EXCEPT !.ccys = cs]
                  \/ \E cs, fs : q = [r EXCEPT !.ccys = cs, !.files = fs]
    BY <1>4 DEF CutOne
  <2> PICK q : /\ Goes(i, q)
               /\ \/ q = [r EXCEPT !.step = "publish"]
                  \/ \E cs : q = [r EXCEPT !.ccys = cs]
                  \/ \E cs, fs : q = [r EXCEPT !.ccys = cs, !.files = fs]
    BY <2>1
  <2>2. IsRun(q) /\ Alike(q, r)
    BY <1>1 DEF IsRun, Alike
  <2> QED BY <1>2, <2>2
<1>5. CASE PublishOne(i)
  <2>1. \E q : Goes(i, q) /\ ((\E p : q = [r EXCEPT !.published = p]) \/ \E p : q = [r EXCEPT !.failed = p])
    BY <1>5 DEF PublishOne
  <2> PICK q : Goes(i, q) /\ ((\E p : q = [r EXCEPT !.published = p]) \/ \E p : q = [r EXCEPT !.failed = p])
    BY <2>1
  <2>2. IsRun(q) /\ Alike(q, r)
    BY <1>1 DEF IsRun, Alike
  <2> QED BY <1>2, <2>2
<1>6. CASE Wire(i)
  <2>1. \E q, x : Goes(i, q) /\ q = [r EXCEPT !.wired = x]
    BY <1>6 DEF Wire
  <2> PICK q, x : Goes(i, q) /\ q = [r EXCEPT !.wired = x]
    BY <2>1
  <2>2. IsRun(q) /\ Alike(q, r)
    BY <1>1 DEF IsRun, Alike
  <2> QED BY <1>2, <2>2
<1>7. CASE Finish(i)
  <2> PICK q : q = [r EXCEPT !.step = "done"] /\ Goes(i, q)
    BY <1>7 DEF Finish
  <2>2. IsRun(q) /\ Alike(q, r)
    BY <1>1 DEF IsRun, Alike
  <2> QED BY <1>2, <2>2
<1> QED BY <1>3, <1>4, <1>5, <1>6, <1>7 DEF Step

LEMMA NewRunIs ==
  ASSUME NEW slot, NEW date
  PROVE  IsRun(NewRun(slot, date)) /\ NewRun(slot, date).slot = slot /\ NewRun(slot, date).at = Now
<1> QED BY DEF NewRun, IsRun
-----------------------------------------------------------------------------
(***************************************************************************)
(* The invariant of the schedule.  A slot that came since the clock began  *)
(* to tick has had its run; what Wait plans lies ahead, and before every   *)
(* slot that lies ahead and before the late morning of any day whose       *)
(* morning has passed, since a plan made now would skip that one.          *)
(***************************************************************************)

Caught(t) ==
  \A day \in Int :
    /\ since < Afternoon(day) /\ Afternoon(day) <= t => RanAt("AR", Afternoon(day))
    /\ since < Morning(day) /\ Late(day) <= t => RanAt("ER", Late(day))

Ahead(t) ==
  /\ Before(plan, t)
  /\ \A day \in Int : since < Morning(day) /\ Late(day) > t => plan.at <= Late(day)

\* No morning that is to run late is on its way.
NoneOpen == \A day \in Int : ~(since < Morning(day) /\ Morning(day) <= Now /\ Now < Late(day))

ScheduleShape ==
  /\ ClockTypes /\ RunsShape
  /\ plan \in [at : Int, slot : {"ER", "AR"}, run : Nat] /\ IsSlot(plan)
  /\ since \in Int /\ looked \in BOOLEAN

ScheduleInv ==
  /\ ScheduleShape
  /\ plan.run # 0 => Caught(Now) /\ NoneOpen
  /\ plan.run = 0 /\ looked => Caught(Now) /\ Ahead(Now)
  /\ plan.run = 0 /\ ~looked => since = Now \/ (Caught(Now - 1) /\ Ahead(Now - 1))

LEMMA NowIs == ClockTypes => Now \in Int
<1> QED BY DEF ClockTypes, Now

\* Nothing came since just now.
LEMMA JustNow == ASSUME NEW t \in Int, since = t PROVE Caught(t) /\ \A day \in Int : ~(since < Morning(day) /\ Morning(day) <= t)
<1>1. ASSUME NEW day \in Int PROVE ~(since < Afternoon(day) /\ Afternoon(day) <= t)
                                  /\ ~(since < Morning(day) /\ Late(day) <= t)
                                  /\ ~(since < Morning(day) /\ Morning(day) <= t)
  <2>1. InItsDay(day)
    BY SlotsInTheirDay
  <2> QED BY <2>1 DEF InItsDay
<1> QED BY <1>1 DEF Caught

LEMMA RanStays ==
  ASSUME RunsGrow
  PROVE  \A day \in Int : /\ RanAt("AR", Afternoon(day)) => RanAt("AR", Afternoon(day))'
                          /\ RanAt("ER", Late(day)) => RanAt("ER", Late(day))'
<1>1. ASSUME NEW slot, NEW at, RanAt(slot, at) PROVE \E i \in 1..Len(runs') : runs'[i].slot = slot /\ runs'[i].at = at
  BY <1>1 DEF RunsGrow, Alike, RanAt
<1>2. ASSUME NEW day \in Int PROVE /\ RanAt("AR", Afternoon(day)) => RanAt("AR", Afternoon(day))'
                                   /\ RanAt("ER", Late(day)) => RanAt("ER", Late(day))'
  <2>1. Afternoon(day)' = Afternoon(day) /\ Late(day)' = Late(day)
    BY DEF Afternoon, Late, Morning
  <2> QED BY <1>1, <2>1 DEF RanAt
<1> QED BY <1>2

LEMMA CaughtStays ==
  ASSUME RunsGrow, UNCHANGED since, NEW t, Caught(t)
  PROVE  Caught(t)'
<1>1. \A day \in Int : /\ RanAt("AR", Afternoon(day)) => RanAt("AR", Afternoon(day))'
                       /\ RanAt("ER", Late(day)) => RanAt("ER", Late(day))'
  BY RanStays
<1> QED BY <1>1 DEF Caught, Afternoon, Late, Morning

\* Whatever leaves the time, the plan and the looks alone.
LEMMA ElsewhereKeeps ==
  ASSUME ScheduleInv, ClockTypes', RunsShape', RunsGrow, UNCHANGED <<wall, follower, plan, looked, since>>
  PROVE  ScheduleInv'
<1> PICK t : t = Now
  OBVIOUS
<1>1. Now' = t
  BY DEF Now
<1>2. ScheduleShape'
  BY DEF ScheduleInv, ScheduleShape, IsSlot, Afternoon, Late, Morning
<1>3. (Caught(t) => Caught(t)') /\ (Caught(t - 1) => Caught(t - 1)')
  BY CaughtStays
<1>4. (Caught(Now) => Caught(Now)') /\ (Caught(Now - 1) => Caught(Now - 1)')
  BY <1>1, <1>3 DEF Caught
<1>5. (NoneOpen => NoneOpen') /\ (Ahead(Now) => Ahead(Now)') /\ (Ahead(Now - 1) => Ahead(Now - 1)')
  BY <1>1 DEF NoneOpen, Ahead, Before, Afternoon, Late, Morning
<1> QED BY <1>1, <1>2, <1>4, <1>5 DEF ScheduleInv

\* The time of the plan is the time of its own slot only.
LEMMA PlanIsDue ==
  ASSUME IsSlot(plan), NEW d \in Int
  PROVE  /\ plan.at = Afternoon(d) => plan.slot = "AR"
         /\ plan.at = Late(d) => plan.slot = "ER"
         /\ Morning(d) <= plan.at /\ plan.at <= Late(d) => plan.at = Late(d)
<1>1. InItsDay(d)
  BY SlotsInTheirDay
<1>2. CASE plan.slot = "AR" /\ \E e \in Int : plan.at = Afternoon(e)
  <2> PICK e \in Int : plan.at = Afternoon(e)
    BY <1>2
  <2>1. ~(Morning(d) <= Afternoon(e) /\ Afternoon(e) <= Late(d))
    BY OneSlot
  <2>2. Late(d) <= Late(d) /\ Morning(d) <= Late(d)
    BY <1>1 DEF InItsDay
  <2> QED BY <1>2, <2>1, <2>2
<1>3. CASE plan.slot = "ER" /\ \E e \in Int : plan.at = Late(e)
  <2> PICK e \in Int : plan.at = Late(e)
    BY <1>3
  <2>1. ~(Morning(e) <= Afternoon(d) /\ Afternoon(d) <= Late(e))
    BY OneSlot
  <2>2. Morning(d) <= Late(e) /\ Late(e) <= Late(d) => d = e
    BY OneSlot
  <2>3. InItsDay(e)
    BY SlotsInTheirDay
  <2>4. Late(e) # Afternoon(d)
    BY <2>1, <2>3 DEF InItsDay
  <2> QED BY <1>3, <2>2, <2>4
<1> QED BY <1>2, <1>3 DEF IsSlot

\* Wait finds that the plan's time has come: the run it begins is that of the
\* one slot that is due.
LEMMA DueKeeps == ASSUME ScheduleInv, Look, Now >= plan.at PROVE ScheduleInv'
<1>0. /\ ~looked /\ plan.run = 0 /\ looked' = TRUE /\ UNCHANGED <<wall, follower, since>> /\ UNCHANGED clockVars
      /\ runs' = Append(runs, NewRun(plan.slot, CoverageFor(Now)))
      /\ plan' = [plan EXCEPT !.run = Len(runs) + 1]
  BY DEF Look, StartRun, clockVars
<1> PICK t \in Int : t = Now
  BY NowIs DEF ScheduleInv, ScheduleShape
<1>1. Now' = t
  BY <1>0 DEF Now
<1>2. RunsShape' /\ RunsGrow /\ RanAt(plan.slot, t)'
  <2> PICK r : r = NewRun(plan.slot, CoverageFor(Now))
    OBVIOUS
  <2>1. IsRun(r) /\ r.slot = plan.slot /\ r.at = t
    BY NewRunIs
  <2>2. RunsShape' /\ RunsGrow /\ \E i \in 1..Len(runs') : runs'[i] = r
    BY <1>0, <2>1, RunAdded DEF ScheduleInv, ScheduleShape
  <2>3. plan'.slot = plan.slot
    BY <1>0 DEF ScheduleInv, ScheduleShape
  <2> QED BY <2>1, <2>2, <2>3 DEF RanAt
<1>3. plan' \in [at : Int, slot : {"ER", "AR"}, run : Nat] /\ plan'.at = plan.at /\ plan'.slot = plan.slot /\ plan'.run # 0
  <2> PICK n \in Nat : n = Len(runs)
    BY DEF ScheduleInv, ScheduleShape, RunsShape
  <2>1. plan' = [plan EXCEPT !.run = n + 1] /\ n + 1 \in Nat /\ n + 1 # 0
    BY <1>0
  <2> QED BY <2>1 DEF ScheduleInv, ScheduleShape
<1>4. ClockTypes'
  BY <1>0 DEF ScheduleInv, ScheduleShape, ClockTypes, clockVars, clock
<1>5. ScheduleShape'
  BY <1>0, <1>2, <1>3, <1>4 DEF ScheduleInv, ScheduleShape, IsSlot, Afternoon, Late, Morning
<1>6. IsSlot(plan) /\ plan.at \in Int
  BY DEF ScheduleInv, ScheduleShape
<1>7. \A day \in Int : /\ since < Afternoon(day) /\ Afternoon(day) <= t => RanAt("AR", Afternoon(day))'
                       /\ since < Morning(day) /\ Late(day) <= t => RanAt("ER", Late(day))'
                       /\ ~(since < Morning(day) /\ Morning(day) <= t /\ t < Late(day))
  <2>1. CASE since = Now
    <3> TAKE day \in Int
    <3>1. InItsDay(day)
      BY SlotsInTheirDay
    <3> QED BY <2>1, <3>1 DEF InItsDay
  <2>2. CASE since # Now
    <3>1. Caught(t - 1) /\ Ahead(t - 1)
      BY <1>0, <2>2 DEF ScheduleInv
    <3>2. plan.at = t
      BY <1>6, <3>1 DEF Ahead, Before
    <3>3. ASSUME NEW day \in Int PROVE
            /\ since < Afternoon(day) /\ Afternoon(day) <= t => RanAt("AR", Afternoon(day))'
            /\ since < Morning(day) /\ Late(day) <= t => RanAt("ER", Late(day))'
            /\ ~(since < Morning(day) /\ Morning(day) <= t /\ t < Late(day))
      <4>1. InItsDay(day)
        BY SlotsInTheirDay
      <4>2. /\ t = Afternoon(day) => plan.slot = "AR"
            /\ t = Late(day) => plan.slot = "ER"
            /\ ~(Morning(day) <= t /\ t < Late(day))
        BY <1>6, <3>2, <4>1, PlanIsDue DEF InItsDay
      <4>3. /\ since < Afternoon(day) /\ Afternoon(day) <= t - 1 => RanAt("AR", Afternoon(day))
            /\ since < Morning(day) /\ Late(day) <= t - 1 => RanAt("ER", Late(day))
        BY <3>1 DEF Caught
      <4>4. /\ RanAt("AR", Afternoon(day)) => RanAt("AR", Afternoon(day))'
            /\ RanAt("ER", Late(day)) => RanAt("ER", Late(day))'
        BY <1>2, RanStays
      <4>5. plan'.slot = plan.slot
        BY <1>3
      <4>6. /\ t = Afternoon(day) => RanAt("AR", Afternoon(day))'
            /\ t = Late(day) => RanAt("ER", Late(day))'
        BY <1>2, <4>2, <4>5 DEF RanAt, Afternoon, Late, Morning
      <4>7. /\ Afternoon(day) <= t => Afternoon(day) <= t - 1 \/ t = Afternoon(day)
            /\ Late(day) <= t => Late(day) <= t - 1 \/ t = Late(day)
        BY <4>1 DEF InItsDay
      <4> QED BY <4>2, <4>3, <4>4, <4>6, <4>7
    <3> QED BY <3>3
  <2> QED BY <2>1, <2>2
<1>8. Caught(Now)' /\ NoneOpen'
  BY <1>0, <1>1, <1>7 DEF Caught, NoneOpen, Afternoon, Late, Morning
<1> QED BY <1>3, <1>5, <1>8 DEF ScheduleInv

\* Wait finds that it has not, and may plan an earlier slot.
LEMMA WaitKeeps == ASSUME ScheduleInv, Look, ~(Now >= plan.at) PROVE ScheduleInv'
<1>0. /\ ~looked /\ plan.run = 0 /\ looked' = TRUE /\ UNCHANGED <<wall, follower, since, runs>> /\ UNCHANGED clockVars
      /\ plan' = IF NextFire(Now).at < plan.at THEN Waits(NextFire(Now)) ELSE plan
  BY DEF Look, clockVars
<1>s. plan \in [at : Int, slot : {"ER", "AR"}, run : Nat] /\ IsSlot(plan) /\ ScheduleShape
  BY DEF ScheduleInv, ScheduleShape
<1> PICK t \in Int : t = Now
  BY NowIs DEF ScheduleInv, ScheduleShape
<1>1. Now' = t
  BY <1>0 DEF Now
<1> PICK n : n = NextFire(t)
  OBVIOUS
<1>2. IsSlot(n) /\ Before(n, t)
  BY NextFireIs
<1>3. /\ plan' \in [at : Int, slot : {"ER", "AR"}, run : Nat] /\ plan'.run = 0
      /\ IsSlot(plan)' /\ plan'.at <= n.at /\ plan'.at <= plan.at /\ plan'.at > t
  <2>1. CASE n.at < plan.at
    <3>1. plan' = [at |-> n.at, slot |-> n.slot, run |-> 0]
      BY <1>0, <2>1 DEF Waits
    <3>2. n.slot \in {"ER", "AR"} /\ n.at \in Int /\ n.at > t
      BY <1>2 DEF IsSlot, Before
    <3> QED BY <1>2, <2>1, <3>1, <3>2, <1>s DEF IsSlot, Afternoon, Late, Morning
  <2>2. CASE ~(n.at < plan.at)
    <3>1. plan' = plan /\ n.at \in Int
      BY <1>0, <1>2, <2>2 DEF Before
    <3> QED BY <1>0, <2>2, <3>1, <1>s DEF IsSlot, Afternoon, Late, Morning
  <2> QED BY <2>1, <2>2
<1>4. ScheduleShape'
  <2>1. ClockTypes' /\ RunsShape'
    BY <1>0 DEF ScheduleInv, ScheduleShape, ClockTypes, RunsShape, clockVars, clock
  <2> QED BY <1>0, <1>3, <2>1 DEF ScheduleInv, ScheduleShape
<1>5. since = t \/ (Caught(t - 1) /\ Ahead(t - 1))
  BY <1>0 DEF ScheduleInv
<1>6. ASSUME NEW day \in Int PROVE
        /\ since < Afternoon(day) /\ Afternoon(day) <= t => RanAt("AR", Afternoon(day))
        /\ since < Morning(day) /\ Late(day) <= t => RanAt("ER", Late(day))
        /\ Afternoon(day) > t => plan'.at <= Afternoon(day)
        /\ Morning(day) > t => plan'.at <= Late(day)
        /\ since < Morning(day) /\ Late(day) > t => plan'.at <= Late(day)
  <2>1. InItsDay(day)
    BY SlotsInTheirDay
  <2>2. n.at \in Int /\ plan'.at \in Int /\ plan.at \in Int /\ plan.at > t
    BY <1>0, <1>2, <1>3, <1>s DEF Before
  <2>3. /\ Afternoon(day) > t => plan'.at <= Afternoon(day)
        /\ Morning(day) > t => plan'.at <= Late(day)
    BY <1>2, <1>3, <2>1, <2>2 DEF Before, InItsDay
  <2>4. CASE since = t
    <3>1. /\ since < Afternoon(day) /\ Afternoon(day) <= t => RanAt("AR", Afternoon(day))
          /\ since < Morning(day) /\ Late(day) <= t => RanAt("ER", Late(day))
          /\ ~(since < Morning(day) /\ Morning(day) <= t)
      BY <2>4, JustNow DEF Caught
    <3>2. Morning(day) <= t \/ Morning(day) > t
      BY <2>1 DEF InItsDay
    <3> QED BY <2>3, <3>1, <3>2
  <2>5. CASE Caught(t - 1) /\ Ahead(t - 1)
    <3>1. /\ since < Afternoon(day) /\ Afternoon(day) <= t - 1 => RanAt("AR", Afternoon(day))
          /\ since < Morning(day) /\ Late(day) <= t - 1 => RanAt("ER", Late(day))
      BY <2>5 DEF Caught
    <3>2. /\ Afternoon(day) > t - 1 => plan.at <= Afternoon(day)
          /\ since < Morning(day) /\ Late(day) > t - 1 => plan.at <= Late(day)
      BY <2>5 DEF Ahead, Before
    <3>3. Afternoon(day) <= t => Afternoon(day) <= t - 1
      BY <2>1, <2>2, <3>2 DEF InItsDay
    <3>4. since < Morning(day) /\ Late(day) <= t => Late(day) <= t - 1
      BY <2>1, <2>2, <3>2 DEF InItsDay
    <3>5. since < Morning(day) /\ Late(day) > t => plan'.at <= Late(day)
      BY <1>3, <2>1, <2>2, <3>2 DEF InItsDay
    <3> QED BY <2>3, <3>1, <3>3, <3>4, <3>5
  <2> QED BY <1>5, <2>4, <2>5
<1>7. Caught(Now)' /\ Ahead(Now)'
  BY <1>0, <1>1, <1>3, <1>6 DEF Caught, Ahead, Before, RanAt, Afternoon, Late, Morning
<1> QED BY <1>0, <1>3, <1>4, <1>7 DEF ScheduleInv

\* The scheduled run is over; the next one is planned from the time it is now.
LEMMA PlanNextKeeps == ASSUME ScheduleInv, PlanNext PROVE ScheduleInv'
<1>0. /\ plan.run # 0 /\ looked' = TRUE /\ UNCHANGED <<wall, follower, since, runs>> /\ UNCHANGED clockVars
      /\ plan' = Waits(NextFire(Now))
  BY DEF PlanNext, clockVars
<1> PICK t \in Int : t = Now
  BY NowIs DEF ScheduleInv, ScheduleShape
<1>1. Now' = t
  BY <1>0 DEF Now
<1> PICK n : n = NextFire(t)
  OBVIOUS
<1>2. IsSlot(n) /\ Before(n, t)
  BY NextFireIs
<1>3. plan' = [at |-> n.at, slot |-> n.slot, run |-> 0] /\ n.slot \in {"ER", "AR"} /\ n.at \in Int
  BY <1>0, <1>2 DEF Waits, IsSlot, Before
<1>4. ScheduleShape'
  <2>1. ClockTypes' /\ RunsShape'
    BY <1>0 DEF ScheduleInv, ScheduleShape, ClockTypes, RunsShape, clockVars, clock
  <2>2. IsSlot(plan)'
    BY <1>2, <1>3 DEF IsSlot, Afternoon, Late, Morning
  <2> QED BY <1>0, <1>3, <2>1, <2>2 DEF ScheduleInv, ScheduleShape
<1>5. Caught(t) /\ \A day \in Int : ~(since < Morning(day) /\ Morning(day) <= t /\ t < Late(day))
  BY <1>0 DEF ScheduleInv, NoneOpen
<1>6. \A day \in Int : since < Morning(day) /\ Late(day) > t => n.at <= Late(day)
  <2> TAKE day \in Int
  <2>1. InItsDay(day)
    BY SlotsInTheirDay
  <2> QED BY <1>2, <1>5, <2>1 DEF InItsDay, Before
<1>7. Caught(Now)' /\ Ahead(Now)'
  BY <1>0, <1>1, <1>2, <1>3, <1>5, <1>6 DEF Caught, Ahead, Before, RanAt, Afternoon, Late, Morning
<1> QED BY <1>0, <1>3, <1>4, <1>7 DEF ScheduleInv

\* A tick of the wall clock, which only a schedule that has looked lets pass.
LEMMA TimeKeeps == ASSUME ScheduleInv, TimePasses PROVE ScheduleInv'
<1>0. /\ looked /\ plan.run = 0 /\ looked' = FALSE /\ UNCHANGED <<plan, runs, since, follower>>
      /\ wall' = wall + 1 /\ Tick
  BY DEF TimePasses, Tick
<1> PICK t \in Int : t = Now
  BY NowIs DEF ScheduleInv, ScheduleShape
<1>1. Now' = t + 1 /\ (t + 1) - 1 = t
  BY <1>0 DEF Now, ScheduleInv, ScheduleShape, ClockTypes
<1>2. Now' - 1 = t
  BY <1>1
<1>3. ScheduleShape'
  <2>1. ClockTypes' /\ RunsShape'
    BY <1>0 DEF ScheduleInv, ScheduleShape, ClockTypes, RunsShape, Tick, clock
  <2> QED BY <1>0, <2>1 DEF ScheduleInv, ScheduleShape, IsSlot, Afternoon, Late, Morning
<1>4. Caught(t) /\ Ahead(t)
  BY <1>0 DEF ScheduleInv
<1>5. Caught(Now - 1)' /\ Ahead(Now - 1)'
  BY <1>0, <1>2, <1>4 DEF Caught, Ahead, Before, RanAt, Afternoon, Late, Morning
<1> QED BY <1>0, <1>3, <1>5 DEF ScheduleInv

\* A poll: either it tells nothing new, or the clock has jumped, and what came
\* before is forgotten.
LEMMA FollowKeeps == ASSUME ScheduleInv, FollowClock PROVE ScheduleInv'
<1>0. /\ Poll /\ ClockTypes' /\ UNCHANGED <<wall, runs, plan>>
      /\ since' = (IF follower' = follower THEN since ELSE wall + follower')
      /\ looked' = (looked /\ follower' = follower)
  BY PollKeeps DEF FollowClock, Poll, ScheduleInv, ScheduleShape
<1>1. RunsShape' /\ RunsGrow
  BY <1>0, RunsStay DEF ScheduleInv, ScheduleShape
<1>2. CASE follower' = follower
  <2>1. UNCHANGED <<wall, follower, plan, looked, since>>
    BY <1>0, <1>2 DEF ScheduleInv, ScheduleShape
  <2> QED BY <1>0, <1>1, <2>1, ElsewhereKeeps
<1>3. CASE follower' # follower
  <2> PICK u \in Int : u = Now'
    <3>1. wall' \in Int /\ follower' \in Int
      BY <1>0 DEF ClockTypes
    <3>2. Now' \in Int
      BY <3>1 DEF Now
    <3> QED BY <3>2
  <2>1. since' = u /\ looked' = FALSE
    BY <1>0, <1>3 DEF Now
  <2>2. ScheduleShape'
    BY <1>0, <1>1, <2>1 DEF ScheduleInv, ScheduleShape, IsSlot, Afternoon, Late, Morning
  <2>3. ASSUME NEW day \in Int PROVE ~(u < Afternoon(day) /\ Afternoon(day) <= u)
                                    /\ ~(u < Morning(day) /\ Late(day) <= u)
                                    /\ ~(u < Morning(day) /\ Morning(day) <= u)
    <3>1. InItsDay(day)
      BY SlotsInTheirDay
    <3> QED BY <3>1 DEF InItsDay
  <2>4. Caught(Now)' /\ NoneOpen' /\ since' = Now'
    BY <2>1, <2>3 DEF Caught, NoneOpen, Afternoon, Late, Morning
  <2> QED BY <2>1, <2>2, <2>4 DEF ScheduleInv
<1> QED BY <1>2, <1>3

LEMMA RestKeeps ==
  ASSUME ScheduleInv, RunsShape', RunsGrow, UNCHANGED <<clockVars, plan, looked, since>>
  PROVE  ScheduleInv'
<1>1. ClockTypes' /\ UNCHANGED <<wall, follower, plan, looked, since>>
  BY DEF clockVars, clock, ClockTypes, ScheduleInv, ScheduleShape
<1> QED BY <1>1, ElsewhereKeeps

LEMMA OrderKeeps == ASSUME ScheduleInv, NEW slot, NEW date, OrderRun(slot, date) PROVE ScheduleInv'
<1>1. runs' = Append(runs, NewRun(slot, date)) /\ UNCHANGED <<clockVars, plan, looked, since>>
  BY DEF OrderRun, StartRun
<1> PICK r : r = NewRun(slot, date)
  OBVIOUS
<1>2. IsRun(r) /\ RunsShape
  BY NewRunIs DEF ScheduleInv, ScheduleShape
<1>3. RunsShape' /\ RunsGrow
  BY <1>1, <1>2, RunAdded
<1> QED BY <1>1, <1>3, RestKeeps

LEMMA ScheduleKeeps == ScheduleInv /\ [AcquirerNext]_acquirerVars => ScheduleInv'
<1> SUFFICES ASSUME ScheduleInv, [AcquirerNext]_acquirerVars PROVE ScheduleInv'
  OBVIOUS
<1>0. RunsShape /\ ClockTypes
  BY DEF ScheduleInv, ScheduleShape
<1>a. ASSUME UNCHANGED <<clockVars, runs, plan, looked, since>> PROVE ScheduleInv'
  BY <1>0, <1>a, RunsStay, RestKeeps
<1>1. CASE Look
  BY <1>1, DueKeeps, WaitKeeps
<1>2. CASE PlanNext
  BY <1>2, PlanNextKeeps
<1>3. CASE Orders
  BY <1>3, OrderKeeps DEF Orders
<1>4. ASSUME NEW b \in Batches, PostTransactions(b) PROVE ScheduleInv'
  BY <1>a, <1>4 DEF PostTransactions
<1>5. CASE AddOne
  BY <1>a, <1>5 DEF AddOne
<1>6. ASSUME NEW i \in 1..MaxRuns, Step(i) PROVE ScheduleInv'
  <2>1. UNCHANGED <<clockVars, plan, looked, since>>
    BY <1>6 DEF Step, ReadCurrencies, CutOne, PublishOne, Wire, Finish
  <2> QED BY <1>0, <1>6, <2>1, StepKeepsRuns, RestKeeps
<1>7. CASE TimePasses
  BY <1>7, TimeKeeps
<1>8. CASE ClockChanges
  <2>1. UNCHANGED <<wall, follower, runs, plan, looked, since>> /\ ((\E r \in Requests : Move(r)) \/ RestartClock)
    BY <1>8 DEF ClockChanges, Move, RestartClock, cycle
  <2>2. ClockTypes'
    BY <1>0, <2>1, MoveKeeps, RestartKeeps
  <2> QED BY <1>0, <2>1, <2>2, RunsStay, ElsewhereKeeps
<1>9. CASE FollowClock
  BY <1>9, FollowKeeps
<1>10. CASE UNCHANGED acquirerVars
  BY <1>a, <1>10 DEF acquirerVars, cycle
<1> QED BY <1>1, <1>2, <1>3, <1>4, <1>5, <1>6, <1>7, <1>8, <1>9, <1>10 DEF AcquirerNext, CycleNext

LEMMA ScheduleStarts == AcquirerInit => ScheduleInv
<1> SUFFICES ASSUME AcquirerInit PROVE ScheduleInv
  OBVIOUS
<1>1. ClockTypes /\ FirstTick \in Int
  BY ClockStarts, LabClockAssumption DEF AcquirerInit
<1>2. since = FirstTick /\ Now = FirstTick /\ looked = FALSE /\ runs = <<>>
  BY <1>1 DEF AcquirerInit, ClockInit, CycleInit, Now
<1> PICK n : n = NextFire(FirstTick)
  OBVIOUS
<1>3. IsSlot(n) /\ Before(n, FirstTick)
  BY <1>1, NextFireIs
<1>4. plan = [at |-> n.at, slot |-> n.slot, run |-> 0] /\ n.slot \in {"ER", "AR"} /\ n.at \in Int
  BY <1>3 DEF AcquirerInit, CycleInit, Waits, IsSlot, Before
<1>5. RunsShape
  <2>1. runs \in Seq({}) /\ Len(runs) = 0
    BY <1>2
  <2> QED BY <2>1 DEF RunsShape
<1> QED BY <1>1, <1>2, <1>3, <1>4, <1>5 DEF ScheduleInv, ScheduleShape, IsSlot

LEMMA InvRunsTicked == ScheduleInv => TickedSlotsRun
<1> SUFFICES ASSUME ScheduleInv, looked, plan.run = 0, NEW day \in Days(since, Now)
             PROVE  /\ (since < day * DayTicks + AfternoonAt /\ day * DayTicks + AfternoonAt <= Now)
                         => RanAt("AR", day * DayTicks + AfternoonAt)
                    /\ (since < day * DayTicks + MorningAt
                          /\ day * DayTicks + MorningAt + JitterFor(day * DayTicks) <= Now)
                         => RanAt("ER", day * DayTicks + MorningAt + JitterFor(day * DayTicks))
  BY Zenon DEF TickedSlotsRun
<1>1. day \in Int
  BY NowIs, DayIs, QuotientBounds DEF Days, ScheduleInv, ScheduleShape
<1>2. JitterFor(day * DayTicks) = Jitter[day % 2]
  BY <1>1, JitterIs
<1>3. Caught(Now)
  BY DEF ScheduleInv
<1> QED BY <1>1, <1>2, <1>3 DEF Caught, Afternoon, Late, Morning

\* However the clock service was moved or restarted, and whatever operators
\* order beside the schedule, a slot whose time of day came while the clock
\* only ticked has had its run at that very time (Wait, NextFire, schedule).
THEOREM ScheduledSlotsRun == AcquirerSpec => []TickedSlotsRun
<1>1. AcquirerInit => ScheduleInv
  BY ScheduleStarts
<1>2. ScheduleInv /\ [AcquirerNext]_acquirerVars => ScheduleInv'
  BY ScheduleKeeps
<1>3. ScheduleInv => TickedSlotsRun
  BY InvRunsTicked
<1> QED BY <1>1, <1>2, <1>3, PTL DEF AcquirerSpec
-----------------------------------------------------------------------------
(***************************************************************************)
(* Sums, sequences out of sets and sequences of sequences.                 *)
(***************************************************************************)

\* The sums of the first entries of v, as far as n.
Sums(v, n) == CHOOSE sum : sum = [i \in 0..n |-> IF i = 0 THEN 0 ELSE sum[i - 1] + v[i]]

AreSums(f, v, n) == f = [i \in 0..n |-> IF i = 0 THEN 0 ELSE f[i - 1] + v[i]]

LEMMA SumIs == ASSUME NEW v PROVE SumOf(v) = Sums(v, Len(v))[Len(v)]
<1> QED BY Zenon DEF SumOf, Sums

LEMMA SumsGoOn ==
  ASSUME NEW v, NEW n \in Nat, NEW f, AreSums(f, v, n)
  PROVE  \E g : AreSums(g, v, n + 1)
<1> PICK g : g = [i \in 0..(n + 1) |-> IF i = n + 1 THEN f[n] + v[n + 1] ELSE f[i]]
  OBVIOUS
<1>1. DOMAIN f = 0..n /\ \A i \in 0..n : f[i] = IF i = 0 THEN 0 ELSE f[i - 1] + v[i]
  BY DEF AreSums
<1>2. \A i \in 0..(n + 1) : g[i] = IF i = 0 THEN 0 ELSE g[i - 1] + v[i]
  <2> SUFFICES ASSUME NEW i \in 0..(n + 1) PROVE g[i] = IF i = 0 THEN 0 ELSE g[i - 1] + v[i]
    OBVIOUS
  <2>1. CASE i = n + 1
    <3>1. g[i] = f[n] + v[i] /\ g[i - 1] = f[n] /\ i # 0
      BY <2>1
    <3> QED BY <3>1
  <2>2. CASE i = 0
    BY <1>1, <2>2
  <2>3. CASE i \in 1..n
    <3>1. i - 1 \in 0..n /\ i \in 0..n /\ i - 1 # n + 1 /\ i # n + 1 /\ i # 0
      BY <2>3
    <3>2. g[i] = f[i] /\ g[i - 1] = f[i - 1]
      BY <3>1
    <3> QED BY <1>1, <3>1, <3>2
  <2> QED BY <2>1, <2>2, <2>3
<1>3. g = [i \in 0..(n + 1) |-> g[i]]
  OBVIOUS
<1> QED BY <1>2, <1>3, Zenon DEF AreSums

LEMMA SumsAre == ASSUME NEW v, NEW n \in Nat PROVE AreSums(Sums(v, n), v, n)
<1> PICK S : S = {m \in Nat : \E f : AreSums(f, v, m)}
  OBVIOUS
<1>1. 0 \in S
  <2> PICK f : f = [i \in 0..0 |-> 0]
    OBVIOUS
  <2>1. AreSums(f, v, 0)
    BY DEF AreSums
  <2> QED BY <2>1
<1>2. \A m \in Nat : m \in S => m + 1 \in S
  BY SumsGoOn
<1>3. n \in S
  BY <1>1, <1>2, Induct
<1>4. \E f : AreSums(f, v, n)
  BY <1>3
<1> QED BY <1>4 DEF Sums, AreSums

LEMMA SumIsWhole ==
  ASSUME NEW v, Len(v) \in Nat, \A i \in 1..Len(v) : v[i] \in Int
  PROVE  SumOf(v) \in Int
<1> PICK n \in Nat : n = Len(v)
  OBVIOUS
<1> PICK f : f = Sums(v, n)
  OBVIOUS
<1>1. \A i \in 0..n : f[i] = IF i = 0 THEN 0 ELSE f[i - 1] + v[i]
  <2>1. AreSums(f, v, n)
    BY SumsAre
  <2> QED BY <2>1 DEF AreSums
<1> PICK S : S = {i \in Nat : i <= n => f[i] \in Int}
  OBVIOUS
<1>2. 0 \in S
  BY <1>1
<1>3. ASSUME NEW i \in Nat, i \in S PROVE i + 1 \in S
  <2> SUFFICES ASSUME i + 1 <= n PROVE f[i + 1] \in Int
    OBVIOUS
  <2>1. f[i] \in Int /\ i + 1 \in 1..n /\ i + 1 \in 0..n /\ i + 1 # 0 /\ (i + 1) - 1 = i
    BY <1>3
  <2>2. v[i + 1] \in Int
    BY <2>1
  <2> QED BY <1>1, <2>1, <2>2
<1>4. n \in S
  BY <1>2, <1>3, Induct
<1>5. f[n] \in Int
  BY <1>4
<1> QED BY <1>5, SumIs

\* A sum with a single entry that is not nothing.
LEMMA SumOfOne ==
  ASSUME NEW v, Len(v) \in Nat, NEW k, \A i \in 1..Len(v) : i # k => v[i] = 0,
         k \in 1..Len(v) => v[k] \in Int
  PROVE  SumOf(v) = IF k \in 1..Len(v) THEN v[k] ELSE 0
<1> PICK n \in Nat : n = Len(v)
  OBVIOUS
<1> PICK f : f = Sums(v, n)
  OBVIOUS
<1>1. \A i \in 0..n : f[i] = IF i = 0 THEN 0 ELSE f[i - 1] + v[i]
  <2>1. AreSums(f, v, n)
    BY SumsAre
  <2> QED BY <2>1 DEF AreSums
<1> PICK S : S = {i \in Nat : i <= n => f[i] = IF k \in 1..i THEN v[k] ELSE 0}
  OBVIOUS
<1>2. 0 \in S
  BY <1>1
<1>3. ASSUME NEW i \in Nat, i \in S PROVE i + 1 \in S
  <2> SUFFICES ASSUME i + 1 <= n PROVE f[i + 1] = IF k \in 1..(i + 1) THEN v[k] ELSE 0
    OBVIOUS
  <2>1. i + 1 \in 1..n /\ i + 1 \in 0..n /\ i + 1 # 0 /\ (i + 1) - 1 = i
    OBVIOUS
  <2>2. f[i] = (IF k \in 1..i THEN v[k] ELSE 0) /\ f[i + 1] = f[i] + v[i + 1]
    BY <1>1, <1>3, <2>1
  <2>3. CASE k = i + 1
    <3>1. k \notin 1..i /\ k \in 1..(i + 1) /\ k \in 1..n /\ v[k] \in Int
      BY <2>1, <2>3
    <3> QED BY <2>2, <2>3, <3>1
  <2>4. CASE k # i + 1
    <3>1. v[i + 1] = 0 /\ (k \in 1..(i + 1) <=> k \in 1..i)
      BY <2>1, <2>4
    <3>2. k \in 1..i => v[k] \in Int
      BY <2>1
    <3> QED BY <2>2, <3>1, <3>2
  <2> QED BY <2>3, <2>4
<1>4. n \in S
  BY <1>2, <1>3, Induct
<1>5. f[n] = IF k \in 1..n THEN v[k] ELSE 0
  BY <1>4
<1> QED BY <1>5, SumIs

\* The community modules make a sequence of a finite set, each member once.
\* Each member of a set, once.
Lists(s, S) ==
  /\ s \in Seq(S)
  /\ \A i, j \in 1..Len(s) : s[i] = s[j] => i = j
  /\ \A x \in S : \E i \in 1..Len(s) : s[i] = x

LEMMA ListsAll ==
  ASSUME NEW S, IsFiniteSet(S), NEW n \in Nat, n = Cardinality(S), NEW s \in [1..n -> S],
         \A i, j \in 1..n : s[i] = s[j] => i = j
  PROVE  Lists(s, S)
<1>1. s \in Seq(S) /\ Len(s) = n
  OBVIOUS
<1>2. DOMAIN s = 1..n
  OBVIOUS
<1>3. s \in Injection(1..n, S)
  BY <1>2 DEF Injection, IsInjective
<1>4. IsFiniteSet(1..n) /\ Cardinality(1..n) = n
  BY FS_Interval
<1>5. s \in Surjection(1..n, S)
  BY <1>3, <1>4, FS_Injection
<1>6. \A x \in S : \E i \in 1..n : s[i] = x
  BY <1>5 DEF Surjection
<1> QED BY <1>1, <1>6 DEF Lists

LEMMA SeqOfSet == ASSUME NEW S, IsFiniteSet(S) PROVE Lists(SetToSeq(S), S)
<1> PICK n \in Nat : ExistsBijection(1..n, S)
  BY FS_NatBijection
<1> PICK f : f \in Bijection(1..n, S)
  BY DEF ExistsBijection
<1>1. Cardinality(S) = n
  BY FS_CountingElements
<1>2. f \in [1..n -> S] /\ IsInjective(f)
  BY DEF Bijection, Injection, Surjection, IsInjective
<1> PICK s : s = SetToSeq(S)
  OBVIOUS
<1>3. s \in [1..n -> S] /\ IsInjective(s)
  BY <1>1, <1>2, Zenon DEF SetToSeq
<1>4. \A i, j \in 1..n : s[i] = s[j] => i = j
  BY <1>3 DEF IsInjective
<1> QED BY <1>1, <1>3, <1>4, ListsAll

\* The sequence that FlattenSeq comes to, one part at a time.
Flat(s, n) == CHOOSE f : f = [i \in 1..n |-> IF i = 1 THEN s[i] ELSE f[i - 1] \o s[i]]

IsFlat(f, s, n) == f = [i \in 1..n |-> IF i = 1 THEN s[i] ELSE f[i - 1] \o s[i]]

LEMMA FlatGoesOn ==
  ASSUME NEW s, NEW n \in Nat, NEW f, IsFlat(f, s, n)
  PROVE  \E g : IsFlat(g, s, n + 1)
<1> PICK g : g = [i \in 1..(n + 1) |-> IF i = n + 1 THEN (IF i = 1 THEN s[i] ELSE f[n] \o s[i]) ELSE f[i]]
  OBVIOUS
<1>1. DOMAIN f = 1..n /\ \A i \in 1..n : f[i] = IF i = 1 THEN s[i] ELSE f[i - 1] \o s[i]
  BY DEF IsFlat
<1>2. \A i \in 1..(n + 1) : g[i] = IF i = 1 THEN s[i] ELSE g[i - 1] \o s[i]
  <2> SUFFICES ASSUME NEW i \in 1..(n + 1) PROVE g[i] = IF i = 1 THEN s[i] ELSE g[i - 1] \o s[i]
    OBVIOUS
  <2>1. CASE i = n + 1
    <3>1. i # 1 => i - 1 = n /\ n \in 1..(n + 1) /\ n # n + 1
      BY <2>1
    <3>2. i # 1 => g[i - 1] = f[n]
      BY <3>1
    <3> QED BY <2>1, <3>2
  <2>2. CASE i \in 1..n
    <3>1. i # n + 1 /\ (i # 1 => i - 1 \in 1..(n + 1) /\ i - 1 # n + 1)
      BY <2>2
    <3>2. g[i] = f[i] /\ (i # 1 => g[i - 1] = f[i - 1])
      BY <3>1
    <3> QED BY <1>1, <2>2, <3>2
  <2> QED BY <2>1, <2>2
<1>3. g = [i \in 1..(n + 1) |-> g[i]]
  OBVIOUS
<1> QED BY <1>2, <1>3, ZenonT(40) DEF IsFlat

LEMMA FlatIs == ASSUME NEW s, NEW n \in Nat PROVE IsFlat(Flat(s, n), s, n)
<1> PICK S : S = {m \in Nat : \E f : IsFlat(f, s, m)}
  OBVIOUS
<1>1. 0 \in S
  <2> PICK f : f = [i \in 1..0 |-> 0]
    OBVIOUS
  <2>1. IsFlat(f, s, 0)
    BY DEF IsFlat
  <2> QED BY <2>1
<1>2. \A m \in Nat : m \in S => m + 1 \in S
  BY FlatGoesOn
<1>3. n \in S
  BY <1>1, <1>2, Induct
<1>4. \E f : IsFlat(f, s, n)
  BY <1>3
<1> QED BY <1>4 DEF Flat, IsFlat

LEMMA EmptyIs == ASSUME NEW S, NEW s \in Seq(S), Len(s) = 0 PROVE s = <<>>
<1> QED OBVIOUS

LEMMA FlattenStays ==
  ASSUME NEW S, NEW s \in Seq(Seq(S))
  PROVE  FlattenSeq(s) \in Seq(S)
<1> PICK n \in Nat : n = Len(s)
  OBVIOUS
<1>1. CASE n = 0
  <2>1. FlattenSeq(s) = s
    BY <1>1, Zenon DEF FlattenSeq
  <2>2. s = <<>>
    BY <1>1, EmptyIs
  <2>3. s \in Seq(S)
    BY <2>2
  <2> QED BY <2>1, <2>3
<1>2. CASE n # 0
  <2>1. FlattenSeq(s) = Flat(s, n)[n]
    BY <1>2, Zenon DEF FlattenSeq, Flat
  <2> PICK f : f = Flat(s, n)
    OBVIOUS
  <2>2. \A i \in 1..n : f[i] = IF i = 1 THEN s[i] ELSE f[i - 1] \o s[i]
    <3>1. IsFlat(f, s, n)
      BY FlatIs
    <3> QED BY <3>1 DEF IsFlat
  <2>3. \A i \in 1..n : s[i] \in Seq(S)
    OBVIOUS
  <2> PICK T : T = {i \in Nat : i \in 1..n => f[i] \in Seq(S)}
    OBVIOUS
  <2>4. 0 \in T
    OBVIOUS
  <2>5. ASSUME NEW i \in Nat, i \in T PROVE i + 1 \in T
    <3> SUFFICES ASSUME i + 1 \in 1..n PROVE f[i + 1] \in Seq(S)
      OBVIOUS
    <3>1. CASE i = 0
      BY <2>2, <2>3, <3>1
    <3>2. CASE i # 0
      <4>1. i \in 1..n /\ f[i] \in Seq(S) /\ s[i + 1] \in Seq(S)
        BY <2>3, <2>5, <3>2
      <4>2. f[i + 1] = f[i] \o s[i + 1]
        <5>1. i + 1 # 1 /\ (i + 1) - 1 = i
          BY <3>2
        <5> QED BY <2>2, <5>1
      <4> QED BY <4>1, <4>2
    <3> QED BY <3>1, <3>2
  <2>6. n \in 1..n
    BY <1>2
  <2>7. n \in T
    BY <2>4, <2>5, Induct
  <2>8. f[n] \in Seq(S)
    BY <2>6, <2>7
  <2> QED BY <2>1, <2>8
<1> QED BY <1>1, <1>2
-----------------------------------------------------------------------------
(***************************************************************************)
(* More about sums: of entries that agree, of two sequences in a row, of   *)
(* small and of natural numbers, and over a sequence of sequences.         *)
(***************************************************************************)

LEMMA SumsStep ==
  ASSUME NEW v, NEW n \in Nat
  PROVE  Sums(v, n)[0] = 0 /\ \A i \in 1..n : Sums(v, n)[i] = Sums(v, n)[i - 1] + v[i]
<1> PICK f : f = Sums(v, n)
  OBVIOUS
<1>1. \A i \in 0..n : f[i] = IF i = 0 THEN 0 ELSE f[i - 1] + v[i]
  <2>1. AreSums(f, v, n)
    BY SumsAre
  <2> QED BY <2>1 DEF AreSums
<1> QED BY <1>1

Agree(u, v, k) == \A i \in 1..k : u[i] = v[i]

LEMMA SumsAgree ==
  ASSUME NEW u, NEW v, NEW m \in Nat, NEW n \in Nat, NEW k \in Nat, k <= m, k <= n, Agree(u, v, k)
  PROVE  Sums(u, m)[k] = Sums(v, n)[k]
<1>0. \A i \in 1..k : u[i] = v[i]
  BY DEF Agree
<1> PICK f, g : f = Sums(u, m) /\ g = Sums(v, n)
  OBVIOUS
<1>1. f[0] = 0 /\ g[0] = 0 /\ (\A i \in 1..m : f[i] = f[i - 1] + u[i]) /\ \A i \in 1..n : g[i] = g[i - 1] + v[i]
  BY SumsStep
<1>2. PICK S : S = {i \in Nat : i <= k => f[i] = g[i]}
  OBVIOUS
<1>3. 0 \in S
  BY <1>1, <1>2
<1>4. ASSUME NEW i \in Nat, i \in S PROVE i + 1 \in S
  <2> SUFFICES ASSUME i + 1 <= k PROVE f[i + 1] = g[i + 1]
    BY <1>2
  <2>1. i + 1 \in 1..m /\ i + 1 \in 1..n /\ i + 1 \in 1..k /\ (i + 1) - 1 = i
    BY <1>4
  <2>2. f[i] = g[i]
    BY <1>2, <1>4
  <2> QED BY <1>0, <1>1, <2>1, <2>2
<1>5. k \in S
  BY <1>3, <1>4, Induct
<1> QED BY <1>2, <1>5

LEMMA SumOfSame ==
  ASSUME NEW u, NEW v, NEW n \in Nat, Len(u) = n, Len(v) = n, \A i \in 1..n : u[i] = v[i]
  PROVE  SumOf(u) = SumOf(v)
<1>1. Sums(u, n)[n] = Sums(v, n)[n]
  <2>1. Agree(u, v, n) /\ n <= n
    BY DEF Agree
  <2> QED BY <2>1, SumsAgree
<1> QED BY <1>1, SumIs

LEMMA SumOfMore ==
  ASSUME NEW u, NEW v, NEW n \in Nat, Len(u) = n, Len(v) = n + 1, \A i \in 1..n : u[i] = v[i]
  PROVE  SumOf(v) = SumOf(u) + v[n + 1]
<1>1. Sums(u, n)[n] = Sums(v, n + 1)[n]
  <2>1. Agree(u, v, n)
    BY DEF Agree
  <2>2. ASSUME NEW k \in Nat, n <= k PROVE Sums(u, n)[n] = Sums(v, k)[n]
    <3>1. n <= n
      OBVIOUS
    <3> QED BY <2>1, <2>2, <3>1, SumsAgree
  <2>3. n + 1 \in Nat /\ n <= n + 1
    OBVIOUS
  <2> QED BY <2>2, <2>3
<1>2. n + 1 \in 1..(n + 1) /\ (n + 1) - 1 = n /\ n + 1 \in Nat
  OBVIOUS
<1>3. Sums(v, n + 1)[n + 1] = Sums(v, n + 1)[n] + v[n + 1]
  BY <1>2, SumsStep
<1>4. SumOf(v) = Sums(v, n + 1)[n + 1] /\ SumOf(u) = Sums(u, n)[n]
  BY SumIs
<1> QED BY <1>1, <1>3, <1>4

LEMMA SumOfNone ==
  ASSUME NEW v, NEW n \in Nat, Len(v) = n, \A i \in 1..n : v[i] = 0 PROVE SumOf(v) = 0
<1>1. 0 \notin 1..n
  OBVIOUS
<1> QED BY <1>1, SumOfOne

\* One sequence begins with m entries of a second and ends with n of a third.
IsJoin(c, a, b, m, n) ==
  /\ m \in Nat /\ n \in Nat /\ Len(a) = m /\ Len(b) = n /\ Len(c) = m + n
  /\ \A i \in 1..m : c[i] = a[i]
  /\ \A j \in 1..n : c[m + j] = b[j]

Integers(v) == \A i \in 1..Len(v) : v[i] \in Int

LEMMA Joined ==
  ASSUME NEW S, NEW a \in Seq(S), NEW b \in Seq(S), NEW m \in Nat, Len(a) = m, NEW n \in Nat, Len(b) = n,
         NEW c, c = a \o b
  PROVE  c \in Seq(S) /\ IsJoin(c, a, b, m, n)
<1>1. c \in Seq(S)
  OBVIOUS
<1>2. Len(c) = m + n
  OBVIOUS
<1>3. ASSUME NEW i \in 1..m PROVE c[i] = a[i]
  OBVIOUS
<1>4. ASSUME NEW j \in 1..n PROVE c[m + j] = b[j]
  <2>1. m + j \in 1..(m + n) /\ m + j > m /\ (m + j) - m = j
    OBVIOUS
  <2> QED BY <2>1
<1> QED BY <1>1, <1>2, <1>3, <1>4 DEF IsJoin

LEMMA SumSplits ==
  ASSUME NEW a, NEW b, NEW c, NEW m, NEW n, IsJoin(c, a, b, m, n), Integers(a), Integers(b)
  PROVE  SumOf(c) = SumOf(a) + SumOf(b)
<1> m \in Nat /\ n \in Nat /\ Len(a) = m /\ Len(b) = n /\ Len(c) = m + n
  BY DEF IsJoin
<1> (\A i \in 1..m : c[i] = a[i]) /\ \A j \in 1..n : c[m + j] = b[j]
  BY DEF IsJoin
<1> (\A i \in 1..m : a[i] \in Int) /\ \A j \in 1..n : b[j] \in Int
  BY DEF Integers
<1>0. m + n \in Nat /\ m <= m + n
  OBVIOUS
<1>1. PICK f, g : f = Sums(c, m + n) /\ g = Sums(b, n)
  OBVIOUS
<1>2. f[m] = SumOf(a) /\ SumOf(a) \in Int
  <2>1. Sums(a, m)[m] = Sums(c, m + n)[m]
    <3>1. PICK k \in Nat : k = m + n /\ m <= k /\ m <= m
      BY <1>0
    <3>2. Agree(a, c, m)
      BY DEF Agree
    <3>3. Sums(a, m)[m] = Sums(c, k)[m]
      BY <3>1, <3>2, SumsAgree
    <3> QED BY <3>1, <3>3
  <2>2. SumOf(a) \in Int
    BY SumIsWhole
  <2> QED BY <1>1, <2>1, <2>2, SumIs
<1>3. g[0] = 0 /\ \A i \in 1..n : g[i] = g[i - 1] + b[i]
  BY <1>1, SumsStep
<1>4. \A i \in 1..(m + n) : f[i] = f[i - 1] + c[i]
  BY <1>0, <1>1, SumsStep, ZenonT(40)
<1>5. PICK S : S = {j \in Nat : j <= n => g[j] \in Int /\ f[m + j] = SumOf(a) + g[j]}
  OBVIOUS
<1>6. 0 \in S
  BY <1>2, <1>3, <1>5
<1>7. ASSUME NEW j \in Nat, j \in S PROVE j + 1 \in S
  <2> SUFFICES ASSUME j + 1 <= n PROVE g[j + 1] \in Int /\ f[m + (j + 1)] = SumOf(a) + g[j + 1]
    BY <1>5
  <2>1. j + 1 \in 1..n /\ (j + 1) - 1 = j /\ m + (j + 1) \in 1..(m + n) /\ (m + (j + 1)) - 1 = m + j
    BY <1>7
  <2>2. g[j] \in Int /\ f[m + j] = SumOf(a) + g[j]
    BY <1>5, <1>7
  <2>3. g[j + 1] = g[j] + b[j + 1] /\ b[j + 1] \in Int
    BY <1>3, <2>1
  <2>4. f[m + (j + 1)] = f[m + j] + b[j + 1]
    BY <1>4, <2>1
  <2> QED BY <1>2, <2>2, <2>3, <2>4, SMTT(40)
<1>8. n \in S
  BY <1>6, <1>7, Induct
<1>9. f[m + n] = SumOf(a) + g[n]
  BY <1>5, <1>8
<1>10. SumOf(c) = f[m + n] /\ SumOf(b) = g[n]
  BY <1>1, SumIs
<1> QED BY <1>9, <1>10

LEMMA SumIsSmall ==
  ASSUME NEW v, NEW n \in Nat, Len(v) = n, NEW most \in Nat, \A i \in 1..n : v[i] \in -most..most
  PROVE  SumOf(v) \in -(n * most)..(n * most)
<1>1. PICK f : f = Sums(v, n)
  OBVIOUS
<1>2. f[0] = 0 /\ \A i \in 1..n : f[i] = f[i - 1] + v[i]
  BY <1>1, SumsStep
<1>3. PICK S : S = {i \in Nat : i <= n => f[i] \in -(i * most)..(i * most)}
  OBVIOUS
<1>4. 0 \in S
  <2>1. 0 * most = 0 /\ 0 \in -0..0
    OBVIOUS
  <2> QED BY <1>2, <1>3, <2>1
<1>5. ASSUME NEW i \in Nat, i \in S PROVE i + 1 \in S
  <2> SUFFICES ASSUME i + 1 <= n PROVE f[i + 1] \in -((i + 1) * most)..((i + 1) * most)
    BY <1>3
  <2>1. i + 1 \in 1..n /\ (i + 1) - 1 = i
    BY <1>5
  <2>2. f[i] \in -(i * most)..(i * most) /\ v[i + 1] \in -most..most /\ f[i + 1] = f[i] + v[i + 1]
    BY <1>2, <1>3, <1>5, <2>1
  <2>3. PICK x \in Nat : x = i * most
    BY <1>5
  <2>4. (i + 1) * most = x + most
    BY <1>5, <2>3
  <2>5. f[i] + v[i + 1] \in -(x + most)..(x + most)
    BY <2>2, <2>3
  <2> QED BY <2>2, <2>4, <2>5
<1>6. n \in S
  BY <1>4, <1>5, Induct
<1> QED BY <1>1, <1>3, <1>6, SumIs

LEMMA SumHasOne ==
  ASSUME NEW v, NEW n \in Nat, Len(v) = n, \A i \in 1..n : v[i] \in Nat, NEW k \in 1..n, v[k] # 0
  PROVE  SumOf(v) \in Nat \ {0}
<1>1. PICK f : f = Sums(v, n)
  OBVIOUS
<1>2. f[0] = 0 /\ \A i \in 1..n : f[i] = f[i - 1] + v[i]
  BY <1>1, SumsStep
<1>3. PICK S : S = {i \in Nat : i <= n => f[i] \in Nat /\ (k <= i => f[i] # 0)}
  OBVIOUS
<1>4. 0 \in S
  BY <1>2, <1>3
<1>5. ASSUME NEW i \in Nat, i \in S PROVE i + 1 \in S
  <2> SUFFICES ASSUME i + 1 <= n PROVE f[i + 1] \in Nat /\ (k <= i + 1 => f[i + 1] # 0)
    BY <1>3
  <2>1. i + 1 \in 1..n /\ (i + 1) - 1 = i
    BY <1>5
  <2>2. f[i] \in Nat /\ (k <= i => f[i] # 0) /\ v[i + 1] \in Nat /\ f[i + 1] = f[i] + v[i + 1]
    BY <1>2, <1>3, <1>5, <2>1
  <2>3. k <= i + 1 => k <= i \/ k = i + 1
    BY <1>5
  <2> QED BY <2>2, <2>3
<1>6. n \in S
  BY <1>4, <1>5, Induct
<1> QED BY <1>1, <1>3, <1>6, SumIs

\* What is built up with FlattenSeq, one part at a time.
LEMMA FlattenSteps ==
  ASSUME NEW S, NEW s \in Seq(Seq(S)), NEW n \in Nat, n = Len(s), NEW P, <<0, <<>>>> \in P,
         \A i \in 0..(n - 1) : \A a \in Seq(S) : <<i, a>> \in P => <<i + 1, a \o s[i + 1]>> \in P
  PROVE  <<n, FlattenSeq(s)>> \in P
<1>1. CASE n = 0
  <2>1. FlattenSeq(s) = s
    BY <1>1, Zenon DEF FlattenSeq
  <2>2. s = <<>>
    BY <1>1, EmptyIs
  <2> QED BY <1>1, <2>1, <2>2
<1>2. CASE n # 0
  <2>1. FlattenSeq(s) = Flat(s, n)[n]
    BY <1>2, Zenon DEF FlattenSeq, Flat
  <2>2. PICK f : f = Flat(s, n)
    OBVIOUS
  <2>3. \A i \in 1..n : f[i] = IF i = 1 THEN s[i] ELSE f[i - 1] \o s[i]
    <3>1. IsFlat(f, s, n)
      BY <2>2, FlatIs
    <3> QED BY <3>1 DEF IsFlat
  <2>4. \A i \in 1..n : s[i] \in Seq(S)
    OBVIOUS
  <2>5. PICK T : T = {i \in Nat : i \in 1..n => f[i] \in Seq(S) /\ <<i, f[i]>> \in P}
    OBVIOUS
  <2>6. 0 \in T
    BY <2>5
  <2>7. ASSUME NEW i \in Nat, i \in T PROVE i + 1 \in T
    <3> SUFFICES ASSUME i + 1 \in 1..n PROVE f[i + 1] \in Seq(S) /\ <<i + 1, f[i + 1]>> \in P
      BY <2>5
    <3>0. i \in 0..(n - 1) /\ s[i + 1] \in Seq(S)
      BY <2>4, <2>7
    <3>1. CASE i = 0
      <4>1. f[1] = s[1] /\ s[1] \in Seq(S) /\ i + 1 = 1
        BY <2>3, <3>0, <3>1
      <4>2. <<>> \o s[1] = s[1] /\ <<>> \in Seq(S)
        BY <4>1
      <4>3. <<0 + 1, <<>> \o s[0 + 1]>> \in P
        BY <3>0, <3>1, <4>2
      <4> QED BY <3>1, <4>1, <4>2, <4>3
    <3>2. CASE i # 0
      <4>1. i \in 1..n /\ f[i] \in Seq(S) /\ <<i, f[i]>> \in P
        BY <2>5, <2>7, <3>2
      <4>2. f[i + 1] = f[i] \o s[i + 1]
        <5>1. i + 1 # 1 /\ (i + 1) - 1 = i
          BY <2>7, <3>2
        <5> QED BY <2>3, <5>1
      <4>3. <<i + 1, f[i] \o s[i + 1]>> \in P
        BY <3>0, <4>1
      <4>4. f[i] \o s[i + 1] \in Seq(S)
        BY <3>0, <4>1
      <4> QED BY <4>2, <4>3, <4>4
    <3> QED BY <3>1, <3>2
  <2>8. n \in T
    BY <2>6, <2>7, Induct
  <2>9. <<n, f[n]>> \in P
    <3>1. n \in 1..n
      BY <1>2
    <3> QED BY <2>5, <2>8, <3>1
  <2> QED BY <2>1, <2>2, <2>9
<1> QED BY <1>1, <1>2


\* What the entries of a sequence weigh together.
Weights(w, t) == [i \in 1..Len(t) |-> w[t[i]]]

Weigh(w, t) == SumOf(Weights(w, t))

LEMMA WeightsAre ==
  ASSUME NEW S, NEW w \in [S -> Int], NEW a \in Seq(S), NEW n \in Nat, n = Len(a)
  PROVE  Len(Weights(w, a)) = n /\ \A i \in 1..n : Weights(w, a)[i] = w[a[i]] /\ w[a[i]] \in Int
<1>1. \A i \in 1..n : a[i] \in S
  OBVIOUS
<1> QED BY <1>1 DEF Weights

LEMMA WeightIsWhole ==
  ASSUME NEW S, NEW w \in [S -> Int], NEW a \in Seq(S)
  PROVE  Weigh(w, a) \in Int
<1>1. PICK n \in Nat : n = Len(a)
  OBVIOUS
<1>2. Len(Weights(w, a)) = n /\ \A i \in 1..n : Weights(w, a)[i] \in Int
  BY <1>1, WeightsAre
<1>3. SumOf(Weights(w, a)) \in Int
  BY <1>1, <1>2, SumIsWhole
<1> QED BY <1>3 DEF Weigh

LEMMA WeighJoins ==
  ASSUME NEW S, NEW w \in [S -> Int], NEW a \in Seq(S), NEW b \in Seq(S)
  PROVE  Weigh(w, a \o b) = Weigh(w, a) + Weigh(w, b)
<1>1. PICK m \in Nat, n \in Nat : m = Len(a) /\ n = Len(b)
  OBVIOUS
<1>2. PICK c : c = a \o b
  OBVIOUS
<1>3. c \in Seq(S) /\ Len(c) = m + n /\ (\A i \in 1..m : c[i] = a[i]) /\ \A j \in 1..n : c[m + j] = b[j]
  BY <1>1, <1>2, Joined DEF IsJoin
<1>4. PICK u, v, x : u = Weights(w, a) /\ v = Weights(w, b) /\ x = Weights(w, c)
  OBVIOUS
<1>5. Len(u) = m /\ \A i \in 1..m : u[i] = w[a[i]] /\ u[i] \in Int
  <2>1. Len(Weights(w, a)) = m /\ \A i \in 1..m : Weights(w, a)[i] = w[a[i]] /\ w[a[i]] \in Int
    BY <1>1, WeightsAre, ZenonT(40)
  <2> QED BY <1>4, <2>1
<1>6. Len(v) = n /\ \A j \in 1..n : v[j] = w[b[j]] /\ v[j] \in Int
  <2>1. Len(Weights(w, b)) = n /\ \A i \in 1..n : Weights(w, b)[i] = w[b[i]] /\ w[b[i]] \in Int
    BY <1>1, WeightsAre
  <2> QED BY <1>4, <2>1
<1>7. Len(x) = m + n /\ \A i \in 1..(m + n) : x[i] = w[c[i]]
  <2>1. PICK k \in Nat : k = m + n
    BY <1>1
  <2>2. Len(Weights(w, c)) = k /\ \A i \in 1..k : Weights(w, c)[i] = w[c[i]] /\ w[c[i]] \in Int
    BY <1>3, <2>1, WeightsAre
  <2> QED BY <1>4, <2>1, <2>2
<1>8. \A i \in 1..m : i \in 1..(m + n)
  BY <1>1
<1>9. \A j \in 1..n : m + j \in 1..(m + n)
  BY <1>1
<1>10. \A i \in 1..m : x[i] = u[i]
  <2> SUFFICES ASSUME NEW i \in 1..m PROVE x[i] = u[i]
    OBVIOUS
  <2>1. i \in 1..(m + n)
    BY <1>8
  <2>2. c[i] = a[i] /\ x[i] = w[c[i]] /\ u[i] = w[a[i]]
    BY <1>3, <1>5, <1>7, <2>1, Zenon
  <2> QED BY <2>2, Zenon
<1>11. \A j \in 1..n : x[m + j] = v[j]
  <2> SUFFICES ASSUME NEW j \in 1..n PROVE x[m + j] = v[j]
    OBVIOUS
  <2>1. PICK k : k = m + j
    OBVIOUS
  <2>2. k \in 1..(m + n) /\ c[k] = b[j]
    BY <1>3, <1>9, <2>1
  <2>3. x[k] = w[c[k]] /\ v[j] = w[b[j]]
    BY <1>6, <1>7, <2>2, Zenon
  <2>4. x[k] = v[j]
    BY <2>2, <2>3, Zenon
  <2> QED BY <2>1, <2>4
<1>12. (\A i \in 1..m : u[i] \in Int) /\ \A j \in 1..n : v[j] \in Int
  BY <1>5, <1>6
<1>13. SumOf(x) = SumOf(u) + SumOf(v)
  <2>1. Len(u) = m /\ Len(v) = n /\ Len(x) = m + n /\ m \in Nat /\ n \in Nat
    BY <1>1, <1>5, <1>6, <1>7
  <2>2. IsJoin(x, u, v, m, n)
    BY <1>10, <1>11, <2>1 DEF IsJoin
  <2>3. Integers(u) /\ Integers(v)
    BY <1>12, <2>1 DEF Integers
  <2> QED BY <2>2, <2>3, SumSplits
<1> QED BY <1>2, <1>4, <1>13 DEF Weigh

LEMMA WeighNothing ==
  ASSUME NEW S, NEW w \in [S -> Int] PROVE Weigh(w, <<>>) = 0
<1>0. <<>> \in Seq(S) /\ Len(<<>>) = 0
  OBVIOUS
<1>1. PICK a : a = <<>> /\ a \in Seq(S) /\ Len(a) = 0
  BY <1>0
<1>2. Len(Weights(w, a)) = 0
  BY <1>1, WeightsAre, ZenonT(40)
<1>3. \A i \in 1..0 : Weights(w, a)[i] = 0
  OBVIOUS
<1>4. SumOf(Weights(w, a)) = 0
  BY <1>2, <1>3, SumOfNone
<1> QED BY <1>1, <1>4 DEF Weigh

PartsWeigh(w, s) == [j \in 1..Len(s) |-> Weigh(w, s[j])]

LEMMA WeighFlat ==
  ASSUME NEW S, NEW w \in [S -> Int], NEW s \in Seq(Seq(S))
  PROVE  Weigh(w, FlattenSeq(s)) = SumOf(PartsWeigh(w, s))
<1> PICK v : v = PartsWeigh(w, s)
  OBVIOUS
<1> PICK n \in Nat : n = Len(s)
  OBVIOUS
<1>0. Len(v) = n /\ \A j \in 1..n : v[j] = Weigh(w, s[j])
  BY DEF PartsWeigh
<1>1. PICK f : f = Sums(v, n)
  OBVIOUS
<1>2. f[0] = 0 /\ \A i \in 1..n : f[i] = f[i - 1] + v[i]
  BY <1>1, SumsStep
<1>3. PICK P : P = {p \in Nat \X Seq(S) : Weigh(w, p[2]) = f[p[1]]}
  OBVIOUS
<1>4. <<0, <<>>>> \in P
  <2>0. <<>> \in Seq(S)
    OBVIOUS
  <2>1. PICK e \in Seq(S) : e = <<>>
    BY <2>0
  <2>2. PICK p : p = <<0, e>>
    OBVIOUS
  <2>3. p \in Nat \X Seq(S) /\ p[1] = 0 /\ p[2] = e
    BY <2>1, <2>2
  <2>4. Weigh(w, e) = 0
    BY <2>1, WeighNothing
  <2>5. p \in P
    BY <1>2, <1>3, <2>3, <2>4
  <2> QED BY <2>1, <2>2, <2>5
<1>5. ASSUME NEW i \in 0..(n - 1), NEW a \in Seq(S), <<i, a>> \in P
      PROVE  <<i + 1, a \o s[i + 1]>> \in P
  <2>1. PICK p, q : p = <<i, a>> /\ q = <<i + 1, a \o s[i + 1]>>
    OBVIOUS
  <2>2. p[1] = i /\ p[2] = a /\ q[1] = i + 1 /\ q[2] = a \o s[i + 1]
    BY <2>1
  <2>3. i + 1 \in 1..n /\ (i + 1) - 1 = i /\ s[i + 1] \in Seq(S)
    BY <1>5
  <2>4. Weigh(w, a) = f[i]
    BY <1>3, <1>5, <2>1, <2>2
  <2>5. Weigh(w, a \o s[i + 1]) = Weigh(w, a) + Weigh(w, s[i + 1])
    BY <1>5, <2>3, WeighJoins
  <2>6. f[i + 1] = f[i] + Weigh(w, s[i + 1])
    BY <1>0, <1>2, <2>3
  <2>7. a \o s[i + 1] \in Seq(S) /\ i + 1 \in Nat
    BY <1>5, <2>3
  <2>8. q \in Nat \X Seq(S)
    BY <2>1, <2>7
  <2> QED BY <1>3, <2>1, <2>2, <2>4, <2>5, <2>6, <2>8
<1>6. <<n, FlattenSeq(s)>> \in P
  BY <1>4, <1>5, FlattenSteps
<1>7. Weigh(w, FlattenSeq(s)) = f[n]
  <2>1. PICK p : p = <<n, FlattenSeq(s)>>
    OBVIOUS
  <2>2. p[1] = n /\ p[2] = FlattenSeq(s)
    BY <2>1
  <2> QED BY <1>3, <1>6, <2>1, <2>2
<1> QED BY <1>0, <1>1, <1>7, SumIs
-----------------------------------------------------------------------------
(***************************************************************************)
(* A file's text: what is written of an amount reads back as that amount.  *)
(***************************************************************************)

\* A word of as many bits as Wrap has.
Words == -Wrap..(Wrap - 1)

LEMMA RestOfSmall == ASSUME NEW w \in Nat \ {0}, NEW z \in 0..(w - 1) PROVE z % w = z
<1>1. 0 * w <= z /\ z < 0 * w + w /\ 0 \in Int
  OBVIOUS
<1>2. z \div w = 0
  BY <1>1, QuotientIs
<1>3. z = w * (z \div w) + (z % w) /\ z % w \in Int
  BY RestIs
<1>4. w * 0 = 0
  OBVIOUS
<1> QED BY <1>2, <1>3, <1>4

LEMMA SignedIs ==
  ASSUME NEW x \in Int
  PROVE  /\ Signed(x) \in Words
         /\ x \in Words => Signed(x) = x
<1> PICK w \in Nat \ {0} : w = 2 * Wrap
  BY WrapAssumption
<1>1. Wrap \in Nat \ {0} /\ w = Wrap + Wrap /\ Signed(x) = ((x + Wrap) % w) - Wrap
  BY WrapAssumption DEF Signed
<1>2. (x + Wrap) % w \in 0..(w - 1)
  BY <1>1, RestIs
<1>3. ASSUME x \in Words PROVE (x + Wrap) % w = x + Wrap
  <2>1. x + Wrap \in 0..(w - 1)
    BY <1>1, <1>3 DEF Words
  <2> QED BY <2>1, RestOfSmall
<1>4. Signed(x) \in Words
  BY <1>1, <1>2 DEF Words
<1>5. x \in Words => Signed(x) = x
  BY <1>1, <1>3
<1> QED BY <1>4, <1>5

\* The one number whose sign is lost and comes back.
LEMMA SignedTurns == Signed(Wrap) = -Wrap
<1> PICK w \in Nat \ {0} : w = 2 * Wrap
  BY WrapAssumption
<1>1. Wrap \in Nat \ {0} /\ Wrap + Wrap = w /\ Signed(Wrap) = ((Wrap + Wrap) % w) - Wrap
  BY WrapAssumption DEF Signed
<1>2. w \div w = 1
  <2>1. 1 * w <= w /\ w < 1 * w + w /\ 1 \in Int /\ w \in Int
    OBVIOUS
  <2> QED BY <2>1, QuotientIs
<1>3. w = w * (w \div w) + (w % w) /\ w % w \in Int
  BY RestIs
<1>4. w % w = 0
  BY <1>2, <1>3
<1> QED BY <1>1, <1>4

\* Two decimals, however many of them are zeros, are so many cents.
AreCents(frac, c) == Cents(TrimZeros(frac)) = c /\ ~(Len(TrimZeros(frac)) > 2)

LEMMA CentsAre == ASSUME NEW a \in 0..9, NEW b \in 0..9 PROVE AreCents(<<a, b>>, 10 * a + b)
<1> SUFFICES Cents(TrimZeros(<<a, b>>)) = 10 * a + b /\ ~(Len(TrimZeros(<<a, b>>)) > 2)
  BY Zenon DEF AreCents
<1> PICK s : s = <<a, b>>
  OBVIOUS
<1>1. s \in Seq(0..9) /\ Len(s) = 2 /\ s[1] = a /\ s[2] = b
  OBVIOUS
<1> PICK kept : kept = {i \in 1..Len(s) : s[i] # 0}
  OBVIOUS
<1>2. TrimZeros(s) = SubSeq(s, 1, IF kept = {} THEN 0 ELSE Max(kept))
  BY Zenon DEF TrimZeros
<1>3. \A i : i \in kept <=> (i = 1 /\ a # 0) \/ (i = 2 /\ b # 0)
  BY <1>1
<1>4. CASE b # 0
  <2>1. kept # {} /\ Max(kept) = 2
    <3>1. 2 \in kept /\ \A y \in kept : 2 >= y
      BY <1>3, <1>4
    <3>2. \A x \in kept : (\A y \in kept : x >= y) => x = 2
      BY <1>3, <1>4
    <3> QED BY <3>1, <3>2 DEF Max
  <2>2. TrimZeros(s) = SubSeq(s, 1, 2)
    BY <1>2, <2>1
  <2>3. Len(SubSeq(s, 1, 2)) = 2 /\ SubSeq(s, 1, 2)[1] = a /\ SubSeq(s, 1, 2)[2] = b
    BY <1>1
  <2> PICK z : z = SubSeq(s, 1, 2)
    OBVIOUS
  <2>4. z # <<>> /\ Len(z) # 1 /\ ~(Len(z) > 2)
    BY <2>3
  <2>5. Cents(z) = 10 * a + b
    BY <2>3, <2>4 DEF Cents
  <2>6. TrimZeros(<<a, b>>) = z
    BY <2>2
  <2> QED BY <2>4, <2>5, <2>6
<1>5. CASE b = 0 /\ a # 0
  <2>1. kept # {} /\ Max(kept) = 1
    <3>1. 1 \in kept /\ \A y \in kept : 1 >= y
      BY <1>3, <1>5
    <3>2. \A x \in kept : (\A y \in kept : x >= y) => x = 1
      BY <1>3, <1>5
    <3> QED BY <3>1, <3>2 DEF Max
  <2>2. TrimZeros(s) = SubSeq(s, 1, 1)
    BY <1>2, <2>1
  <2>3. Len(SubSeq(s, 1, 1)) = 1 /\ SubSeq(s, 1, 1)[1] = a
    BY <1>1
  <2> PICK z : z = SubSeq(s, 1, 1)
    OBVIOUS
  <2>4. z # <<>> /\ Len(z) = 1 /\ ~(Len(z) > 2)
    BY <2>3
  <2>5. Cents(z) = 10 * a + b
    <3>1. Cents(z) = 10 * a
      BY <2>3, <2>4 DEF Cents
    <3> QED BY <1>5, <3>1
  <2>6. TrimZeros(<<a, b>>) = z
    BY <2>2
  <2> QED BY <1>5, <2>4, <2>5, <2>6
<1>6. CASE b = 0 /\ a = 0
  <2>1. kept = {}
    BY <1>3, <1>6
  <2>2. TrimZeros(s) = SubSeq(s, 1, 0)
    BY <1>2, <2>1
  <2>3. SubSeq(s, 1, 0) = <<>> /\ Len(<<>>) = 0
    BY <1>1
  <2>4. Cents(<<>>) = 0
    BY DEF Cents
  <2> QED BY <1>6, <2>2, <2>3, <2>4
<1> QED BY <1>4, <1>5, <1>6

LEMMA Digits ==
  ASSUME NEW n \in Nat
  PROVE  \E a \in 0..9, b \in 0..9, q \in Nat :
           a = (n % 100) \div 10 /\ b = n % 10 /\ q = n \div 100 /\ n = q * 100 + (10 * a + b)
<1> PICK r \in 0..99, q \in Int : r = n % 100 /\ q = n \div 100 /\ n = 100 * q + r
  BY RestIs
<1> PICK b \in 0..9, a \in Int : b = r % 10 /\ a = r \div 10 /\ r = 10 * a + b
  BY RestIs
<1>1. a \in 0..9 /\ q \in Nat
  OBVIOUS
<1>2. n \div 10 = 10 * q + a
  <2>1. (10 * q + a) * 10 <= n /\ n < (10 * q + a) * 10 + 10 /\ 10 * q + a \in Int
    BY <1>1
  <2> QED BY <2>1, QuotientIs
<1>3. n = 10 * (n \div 10) + (n % 10) /\ n % 10 \in Int
  BY RestIs
<1>4. n % 10 = b
  BY <1>1, <1>2, <1>3
<1> QED BY <1>1, <1>4

LEMMA CellIs ==
  ASSUME NEW x \in Int, NEW y, NEW f, NEW cell, cell = [negative |-> x < 0, whole |-> y, frac |-> f]
  PROVE  (cell.negative <=> x < 0) /\ cell.whole = y /\ cell.frac = f
<1>1. cell.negative <=> x < 0
  OBVIOUS
<1>2. cell.whole = y /\ cell.frac = f
  OBVIOUS
<1> QED BY <1>1, <1>2

\* formatMajorUnits and majorUnitAmounts undo each other, sign and cents.
LEMMA AmountsSurvive == ASSUME NEW x \in Words PROVE MinorUnits(MajorUnits(x)) = Read(x)
<1>0. Wrap \in Nat \ {0} /\ x \in Int
  BY WrapAssumption DEF Words
<1>1. PICK n \in Nat : n = IF x < 0 THEN -x ELSE x
  BY <1>0
<1>2. PICK a \in 0..9, b \in 0..9, q \in Nat :
        a = (n % 100) \div 10 /\ b = n % 10 /\ q = n \div 100 /\ n = q * 100 + (10 * a + b)
  BY Digits
<1>3. PICK cell : cell = MajorUnits(x)
  OBVIOUS
<1>4. AreCents(<<a, b>>, 10 * a + b)
  BY CentsAre, Zenon
<1>5. (cell.negative <=> x < 0) /\ cell.whole = q /\ cell.frac = <<a, b>>
  <2>1. PICK m : m = IF x < 0 THEN -x ELSE x
    OBVIOUS
  <2>2. MajorUnits(x) = [negative |-> x < 0, whole |-> m \div 100, frac |-> <<(m % 100) \div 10, m % 10>>]
    BY <2>1, Zenon DEF MajorUnits
  <2>3. m \div 100 = q /\ (m % 100) \div 10 = a /\ m % 10 = b
    BY <1>1, <1>2, <2>1
  <2>4. cell = [negative |-> x < 0, whole |-> q, frac |-> <<a, b>>]
    BY <1>3, <2>2, <2>3, Zenon
  <2> QED BY <1>0, <2>4, CellIs, Zenon
<1>6. AreCents(cell.frac, 10 * a + b)
  BY <1>4, <1>5, Zenon
<1>7. cell.whole * 100 + (10 * a + b) = n
  <2>1. cell.whole = q
    BY <1>5, Zenon
  <2> QED BY <1>2, <2>1
<1>8. MinorUnits(cell) = Read(Signed(IF cell.negative THEN -Signed(n) ELSE Signed(n)))
  BY <1>6, <1>7, Zenon DEF MinorUnits, AreCents
<1>9. Signed(IF x < 0 THEN -Signed(n) ELSE Signed(n)) = x
  <2>1. CASE x < 0 /\ x # -Wrap
    <3>1. n \in Words /\ -n = x /\ n \in Int
      BY <1>0, <1>1, <2>1 DEF Words
    <3>2. Signed(n) = n
      BY <3>1, SignedIs
    <3>3. Signed(x) = x
      BY <1>0, SignedIs
    <3> QED BY <2>1, <3>1, <3>2, <3>3
  <2>2. CASE x = -Wrap
    <3>1. n = Wrap /\ x < 0 /\ -(-Wrap) = Wrap
      BY <1>0, <1>1, <2>2
    <3>2. -Signed(n) = Wrap
      BY <3>1, SignedTurns
    <3> QED BY <2>2, <3>1, <3>2, SignedTurns
  <2>3. CASE ~(x < 0)
    <3>1. n = x
      BY <1>1, <2>3
    <3>2. Signed(x) = x
      BY <1>0, SignedIs
    <3> QED BY <2>3, <3>1, <3>2
  <2>4. (x < 0 /\ x # -Wrap) \/ x = -Wrap \/ ~(x < 0)
    OBVIOUS
  <2> QED BY <2>1, <2>2, <2>3, <2>4, Zenon
<1> QED BY <1>3, <1>5, <1>8, <1>9, Zenon

IsSequence(s) == \E S : s \in Seq(S)

\* What rows are, by their record type.
LEMMA HeaderIs == Header.type = "RECORD_TYPE" /\ RecordType(Header) = ""
<1>1. Header.type = "RECORD_TYPE"
  BY DEF Header
<1> QED BY <1>1 DEF RecordType

LEMMA MetaRowIs ==
  ASSUME NEW f
  PROVE  /\ MetaRow(f).type = "Settlement" /\ RecordType(MetaRow(f)) = "Settlement"
         /\ MetaRow(f).amount = MajorUnits(f.amount)
<1>1. MetaRow(f).type = "Settlement" /\ MetaRow(f).amount = MajorUnits(f.amount)
  BY DEF MetaRow
<1> QED BY <1>1 DEF RecordType

LEMMA BatchRowIs ==
  ASSUME NEW b
  PROVE  /\ BatchRow(b).type = "Batch" /\ RecordType(BatchRow(b)) = "Batch"
         /\ BatchRow(b).amount = MajorUnits(b.amount)
<1>1. BatchRow(b).type = "Batch" /\ BatchRow(b).amount = MajorUnits(b.amount)
  BY DEF BatchRow
<1> QED BY <1>1 DEF RecordType

LEMMA TxerRowIs ==
  ASSUME NEW r
  PROVE  /\ TxerRow(r).type = "TXER" /\ RecordType(TxerRow(r)) = "TXER"
         /\ TxerRow(r).amount = MajorUnits(r.amount) /\ TxerRow(r).mid = r.mid
<1>1. TxerRow(r).type = "TXER" /\ TxerRow(r).amount = MajorUnits(r.amount) /\ TxerRow(r).mid = r.mid
  BY DEF TxerRow
<1> QED BY <1>1 DEF RecordType

LEMMA TypesApart ==
  /\ "Settlement" # "TXER" /\ "Settlement" # "Batch" /\ "Batch" # "TXER"
  /\ "" # "Settlement" /\ "" # "TXER" /\ "" # "Batch" /\ "TXER" # "ST" /\ "Batch" # "ST"
  /\ "RECORD_TYPE" # "ST" /\ "Settlement" # "ST"
<1> QED OBVIOUS

WellBatched(b) ==
  /\ b.amount \in Words /\ IsSequence(b.rows)
  /\ \A j \in 1..Len(b.rows) : b.rows[j].amount \in Words

WellCut(f) ==
  /\ f.amount \in Words /\ IsSequence(f.batches)
  /\ \A i \in 1..Len(f.batches) : WellBatched(f.batches[i])

\* The rows of a file's batches.
RowsOfBatch(b) == {Header, BatchRow(b)} \cup {TxerRow(b.rows[j]) : j \in 1..Len(b.rows)}

FileRows(f) == UNION {RowsOfBatch(f.batches[i]) : i \in 1..Len(f.batches)}

Parts(f) == [i \in 1..Len(f.batches) |-> BatchSection(f.batches[i])]

Middle(f) == FlattenSeq(Parts(f))

LEMMA SectionIs ==
  ASSUME NEW b, IsSequence(b.rows), NEW n \in Nat, n = Len(b.rows), NEW t, t = BatchSection(b)
  PROVE  /\ t \in Seq(RowsOfBatch(b)) /\ Len(t) = n + 3
         /\ t[1] = Header /\ t[2] = BatchRow(b) /\ t[3] = Header
         /\ \A j \in 1..n : t[j + 3] = TxerRow(b.rows[j])
<1>1. PICK S : S = RowsOfBatch(b)
  OBVIOUS
<1>2. PICK u : u = [j \in 1..n |-> TxerRow(b.rows[j])]
  OBVIOUS
<1>3. Header \in S /\ BatchRow(b) \in S /\ \A j \in 1..n : TxerRow(b.rows[j]) \in S
  BY <1>1 DEF RowsOfBatch
<1>4. u \in Seq(S) /\ Len(u) = n /\ \A j \in 1..n : u[j] = TxerRow(b.rows[j])
  BY <1>2, <1>3
<1>5. PICK h : h = <<Header, BatchRow(b), Header>>
  OBVIOUS
<1>6. h \in Seq(S) /\ Len(h) = 3 /\ h[1] = Header /\ h[2] = BatchRow(b) /\ h[3] = Header
  BY <1>3, <1>5
<1>7. t = h \o u
  BY <1>2, <1>5 DEF BatchSection
<1>8. t \in Seq(S) /\ Len(t) = 3 + n /\ (\A i \in 1..3 : t[i] = h[i]) /\ \A j \in 1..n : t[3 + j] = u[j]
  <2>1. PICK m \in Nat : m = 3
    OBVIOUS
  <2>2. u \in Seq(S) /\ h \in Seq(S) /\ Len(h) = m /\ Len(u) = n
    BY <1>4, <1>6, <2>1
  <2>3. t \in Seq(S) /\ IsJoin(t, h, u, m, n)
    BY <1>7, <2>2, Joined
  <2> QED BY <2>1, <2>3 DEF IsJoin
<1>9. 1 \in 1..3 /\ 2 \in 1..3 /\ 3 \in 1..3 /\ 3 + n = n + 3 /\ \A j \in 1..n : 3 + j = j + 3
  OBVIOUS
<1> QED BY <1>1, <1>4, <1>6, <1>8, <1>9

LEMMA PartsAre ==
  ASSUME NEW f, WellCut(f), NEW n \in Nat, n = Len(f.batches)
  PROVE  /\ Parts(f) \in Seq(Seq(FileRows(f))) /\ Len(Parts(f)) = n
         /\ \A i \in 1..n : Parts(f)[i] = BatchSection(f.batches[i])
<1>1. ASSUME NEW i \in 1..n PROVE BatchSection(f.batches[i]) \in Seq(FileRows(f))
  <2>1. PICK b : b = f.batches[i]
    OBVIOUS
  <2>2. IsSequence(b.rows)
    BY <2>1 DEF WellCut, WellBatched
  <2>3. Len(b.rows) \in Nat
    BY <2>2 DEF IsSequence
  <2>4. BatchSection(b) \in Seq(RowsOfBatch(b))
    BY <2>2, <2>3, SectionIs
  <2>5. RowsOfBatch(b) \subseteq FileRows(f)
    BY <2>1 DEF FileRows
  <2>6. BatchSection(b) \in Seq(FileRows(f))
    BY <2>4, <2>5
  <2> QED BY <2>1, <2>6
<1>2. PICK p : p = [i \in 1..n |-> BatchSection(f.batches[i])]
  OBVIOUS
<1>3. Parts(f) = p
  BY <1>2 DEF Parts
<1>4. p \in Seq(Seq(FileRows(f))) /\ Len(p) = n /\ \A i \in 1..n : p[i] = BatchSection(f.batches[i])
  BY <1>1, <1>2
<1> QED BY <1>3, <1>4

LEMMA RowIsOne ==
  ASSUME NEW f, NEW row \in FileRows(f)
  PROVE  \/ row = Header
         \/ \E i \in 1..Len(f.batches) : row = BatchRow(f.batches[i])
         \/ \E i \in 1..Len(f.batches) : \E j \in 1..Len(f.batches[i].rows) : row = TxerRow(f.batches[i].rows[j])
<1>1. PICK i \in 1..Len(f.batches) : row \in RowsOfBatch(f.batches[i])
  BY DEF FileRows
<1>2. row = Header \/ row = BatchRow(f.batches[i])
      \/ \E j \in 1..Len(f.batches[i].rows) : row = TxerRow(f.batches[i].rows[j])
  BY <1>1 DEF RowsOfBatch
<1> QED BY <1>2

\* A row of a batch is not the file's settlement row, and an amount in it
\* reads back.
Good(row) ==
  /\ row.type # "ST" /\ RecordType(row) # "Settlement"
  /\ RecordType(row) # "" => \E x \in Words : MinorUnits(row.amount) = Read(x)

LEMMA RowsAreGood == ASSUME NEW f, WellCut(f), NEW row \in FileRows(f) PROVE Good(row)
<1>1. CASE row = Header
  BY <1>1, HeaderIs, TypesApart DEF Good
<1>2. ASSUME NEW i \in 1..Len(f.batches), row = BatchRow(f.batches[i]) PROVE Good(row)
  <2>1. PICK b : b = f.batches[i]
    OBVIOUS
  <2>2. b.amount \in Words
    BY <2>1 DEF WellCut, WellBatched
  <2>3. row.type = "Batch" /\ RecordType(row) = "Batch" /\ row.amount = MajorUnits(b.amount)
    BY <1>2, <2>1, BatchRowIs
  <2>4. MinorUnits(row.amount) = Read(b.amount)
    BY <2>2, <2>3, AmountsSurvive
  <2> QED BY <2>2, <2>3, <2>4, TypesApart DEF Good
<1>3. ASSUME NEW i \in 1..Len(f.batches), NEW j \in 1..Len(f.batches[i].rows), row = TxerRow(f.batches[i].rows[j])
      PROVE  Good(row)
  <2>1. PICK r : r = f.batches[i].rows[j]
    OBVIOUS
  <2>2. r.amount \in Words
    BY <2>1 DEF WellCut, WellBatched
  <2>3. row.type = "TXER" /\ RecordType(row) = "TXER" /\ row.amount = MajorUnits(r.amount)
    BY <1>3, <2>1, TxerRowIs
  <2>4. MinorUnits(row.amount) = Read(r.amount)
    BY <2>2, <2>3, AmountsSurvive
  <2> QED BY <2>2, <2>3, <2>4, TypesApart DEF Good
<1> QED BY <1>1, <1>2, <1>3, RowIsOne

\* A head, a middle and a tail.
Around(f, m) == <<Header, MetaRow(f)>> \o m \o <<Header>>

LEMMA AroundIs ==
  ASSUME NEW f, NEW S, Header \in S, MetaRow(f) \in S, NEW m \in Seq(S), NEW k \in Nat, k = Len(m),
         NEW t, t = Around(f, m)
  PROVE  /\ t \in Seq(S) /\ Len(t) = k + 3 /\ t[1] = Header /\ t[2] = MetaRow(f) /\ t[k + 3] = Header
         /\ \A i \in 3..(k + 2) : t[i] = m[i - 2]
<1> PICK x \in S, z \in S : x = Header /\ z = MetaRow(f)
  OBVIOUS
<1>1. PICK h : h = <<x, z>> \o m
  OBVIOUS
<1>2. <<x, z>> \in Seq(S) /\ Len(<<x, z>>) = 2
  OBVIOUS
<1>3. h \in Seq(S) /\ Len(h) = k + 2 /\ h[1] = x /\ h[2] = z /\ \A i \in 3..(k + 2) : h[i] = m[i - 2]
  BY <1>1, <1>2
<1>4. t = h \o <<x>> /\ <<x>> \in Seq(S) /\ Len(<<x>>) = 1
  BY <1>1 DEF Around
<1>5. t \in Seq(S) /\ Len(t) = k + 3 /\ t[k + 3] = x /\ \A i \in 1..(k + 2) : t[i] = h[i]
  BY <1>3, <1>4
<1> QED BY <1>3, <1>5

IsText(f, t, m, k) ==
  /\ m \in Seq(FileRows(f)) /\ k \in Nat /\ k = Len(m)
  /\ Len(t) = k + 3 /\ t[1] = Header /\ t[2] = MetaRow(f) /\ t[k + 3] = Header
  /\ \A i \in 3..(k + 2) : t[i] = m[i - 2]

LEMMA TextIs ==
  ASSUME NEW f, WellCut(f), NEW t, t = Text(f), NEW m, m = Middle(f)
  PROVE  t = Around(f, m) /\ \E k \in Nat : IsText(f, t, m, k)
<1>1. t = Around(f, m)
  BY Zenon DEF Text, Around, Middle, Parts
<1>2. PICK n \in Nat : n = Len(f.batches)
  BY DEF WellCut, IsSequence
<1>3. Parts(f) \in Seq(Seq(FileRows(f)))
  BY <1>2, PartsAre
<1>4. m \in Seq(FileRows(f))
  BY <1>3, FlattenStays DEF Middle
<1>5. PICK k \in Nat : k = Len(m)
  BY <1>4
<1>6. PICK U : U = FileRows(f) \cup {Header, MetaRow(f)}
  OBVIOUS
<1>7. Header \in U /\ MetaRow(f) \in U /\ m \in Seq(U)
  BY <1>4, <1>6
<1>8. /\ Len(t) = k + 3 /\ t[1] = Header /\ t[2] = MetaRow(f) /\ t[k + 3] = Header
      /\ \A i \in 3..(k + 2) : t[i] = m[i - 2]
  BY <1>1, <1>5, <1>7, AroundIs
<1> QED BY <1>1, <1>4, <1>5, <1>8 DEF IsText

\* Every row of a text but the second is good.
LEMMA TextIsGood ==
  ASSUME NEW f, WellCut(f), NEW t, NEW m, NEW k, IsText(f, t, m, k)
  PROVE  /\ \A i \in 1..Len(t) : i # 2 => Good(t[i])
         /\ RecordType(t[2]) = "Settlement" /\ t[2].type # "ST" /\ 2 \in 1..Len(t)
         /\ t[2].amount = MajorUnits(f.amount)
         /\ ~\E i \in 1..Len(t) : t[i].type = "ST"
<1>1. k \in Nat /\ Len(t) = k + 3 /\ t[1] = Header /\ t[2] = MetaRow(f) /\ t[k + 3] = Header
  BY DEF IsText
<1>2. Good(Header)
  BY HeaderIs, TypesApart DEF Good
<1>3. ASSUME NEW i \in 3..(k + 2) PROVE Good(t[i])
  <2>1. i - 2 \in 1..k
    BY <1>1, <1>3
  <2>2. m \in Seq(FileRows(f)) /\ k = Len(m) /\ t[i] = m[i - 2]
    BY <1>3 DEF IsText
  <2>3. t[i] \in FileRows(f)
    BY <2>1, <2>2
  <2> QED BY <2>3, RowsAreGood
<1>4. \A i \in 1..(k + 3) : i = 1 \/ i = 2 \/ i = k + 3 \/ i \in 3..(k + 2)
  BY <1>1
<1>5. \A i \in 1..(k + 3) : i # 2 => Good(t[i])
  BY <1>1, <1>2, <1>3, <1>4
<1>6. RecordType(t[2]) = "Settlement" /\ t[2].type # "ST" /\ t[2].amount = MajorUnits(f.amount)
  BY <1>1, MetaRowIs, TypesApart
<1>7. 2 \in 1..(k + 3)
  BY <1>1
<1>8. \A i \in 1..(k + 3) : t[i].type # "ST"
  BY <1>5, <1>6 DEF Good
<1> QED BY <1>1, <1>5, <1>6, <1>7, <1>8

\* The platform reads in the file's figures what was cut.
LEMMA FiguresSurvive == ASSUME NEW f, WellCut(f) PROVE MetaAmount(Text(f)) = f.amount
<1>1. PICK t, m : t = Text(f) /\ m = Middle(f)
  OBVIOUS
<1>2. PICK k \in Nat : IsText(f, t, m, k)
  BY <1>1, TextIs
<1>3. /\ \A i \in 1..Len(t) : i # 2 => Good(t[i])
      /\ RecordType(t[2]) = "Settlement" /\ 2 \in 1..Len(t)
      /\ t[2].amount = MajorUnits(f.amount)
      /\ ~\E i \in 1..Len(t) : t[i].type = "ST"
  BY <1>2, TextIsGood
<1>4. \A i \in 1..Len(t) : RecordType(t[i]) = "Settlement" <=> i = 2
  BY <1>3 DEF Good
<1>5. (CHOOSE j \in 1..Len(t) : RecordType(t[j]) = "Settlement") = 2
  BY <1>3, <1>4
<1>6. MetaAmount(t) = MinorUnits(MajorUnits(f.amount)).value
  <2>1. MetaAmount(t) = ValueOf(t, 2)
    BY <1>5 DEF MetaAmount
  <2>2. Amount(t, t[2].amount) = MinorUnits(MajorUnits(f.amount))
    BY <1>3, Zenon DEF Amount
  <2> QED BY <2>1, <2>2, Zenon DEF ValueOf
<1>7. MinorUnits(MajorUnits(f.amount)) = Read(f.amount)
  BY AmountsSurvive DEF WellCut
<1> QED BY <1>1, <1>6, <1>7 DEF Read
-----------------------------------------------------------------------------
(***************************************************************************)
(* A file is well cut: its merchants in order, and a batch for each.       *)
(***************************************************************************)

\* What GenerateBambora has collected after the first n transactions.
AreRows(f, t, mid, ccy, from, to, n) ==
  f = [k \in 0..n |->
         IF k = 0 THEN <<>>
         ELSE IF t[k].mid = mid /\ Covered(t[k], ccy, from, to)
         THEN Append(f[k - 1], Row(mid, t[k], Len(f[k - 1])))
         ELSE f[k - 1]]

RowsPicked(t, mid, ccy, from, to, n) == CHOOSE f : AreRows(f, t, mid, ccy, from, to, n)

LEMMA RowsGoOn ==
  ASSUME NEW t, NEW mid, NEW ccy, NEW from, NEW to, NEW n \in Nat, NEW f, AreRows(f, t, mid, ccy, from, to, n)
  PROVE  \E g : AreRows(g, t, mid, ccy, from, to, n + 1)
<1> DEFINE Next(k, rows) == IF t[k].mid = mid /\ Covered(t[k], ccy, from, to)
                            THEN Append(rows, Row(mid, t[k], Len(rows))) ELSE rows
<1>1. DOMAIN f = 0..n /\ \A k \in 0..n : f[k] = IF k = 0 THEN <<>> ELSE Next(k, f[k - 1])
  BY Zenon DEF AreRows
<1> HIDE DEF Next
<1> PICK g : g = [k \in 0..(n + 1) |-> IF k = n + 1 THEN Next(n + 1, f[n]) ELSE f[k]]
  OBVIOUS
<1>2. \A k \in 0..(n + 1) : g[k] = IF k = 0 THEN <<>> ELSE Next(k, g[k - 1])
  <2> SUFFICES ASSUME NEW k \in 0..(n + 1) PROVE g[k] = IF k = 0 THEN <<>> ELSE Next(k, g[k - 1])
    OBVIOUS
  <2>1. CASE k = n + 1
    <3>1. g[k] = Next(k, f[n]) /\ g[k - 1] = f[n] /\ k # 0
      BY <2>1
    <3> QED BY <3>1
  <2>2. CASE k = 0
    BY <1>1, <2>2
  <2>3. CASE k \in 1..n
    <3>1. k - 1 \in 0..n /\ k \in 0..n /\ k - 1 # n + 1 /\ k # n + 1 /\ k # 0
      BY <2>3
    <3>2. g[k] = f[k] /\ g[k - 1] = f[k - 1]
      BY <3>1
    <3> QED BY <1>1, <3>1, <3>2
  <2> QED BY <2>1, <2>2, <2>3
<1>3. g = [k \in 0..(n + 1) |-> g[k]]
  OBVIOUS
<1>4. g = [k \in 0..(n + 1) |-> IF k = 0 THEN <<>> ELSE Next(k, g[k - 1])]
  BY <1>2, <1>3
<1>5. g = [k \in 0..(n + 1) |->
              IF k = 0 THEN <<>>
              ELSE IF t[k].mid = mid /\ Covered(t[k], ccy, from, to)
              THEN Append(g[k - 1], Row(mid, t[k], Len(g[k - 1]))) ELSE g[k - 1]]
  BY <1>4 DEF Next
<1>6. AreRows(g, t, mid, ccy, from, to, n + 1)
  BY <1>5, Zenon DEF AreRows
<1> QED BY <1>6

LEMMA RowsAre ==
  ASSUME NEW t, NEW mid, NEW ccy, NEW from, NEW to, NEW n \in Nat
  PROVE  AreRows(RowsPicked(t, mid, ccy, from, to, n), t, mid, ccy, from, to, n)
<1> PICK S : S = {m \in Nat : \E f : AreRows(f, t, mid, ccy, from, to, m)}
  OBVIOUS
<1>1. 0 \in S
  <2> PICK f : f = [k \in 0..0 |-> <<>>]
    OBVIOUS
  <2>1. AreRows(f, t, mid, ccy, from, to, 0)
    <3>1. f = [k \in 0..0 |-> IF k = 0 THEN <<>> ELSE f[k - 1]] /\ \A k \in 0..0 : k = 0
      OBVIOUS
    <3> QED BY <3>1 DEF AreRows
  <2> QED BY <2>1
<1>2. \A m \in Nat : m \in S => m + 1 \in S
  BY RowsGoOn
<1>3. n \in S
  BY <1>1, <1>2, Induct
<1>4. \E f : AreRows(f, t, mid, ccy, from, to, n)
  BY <1>3
<1> QED BY <1>4, Zenon DEF RowsPicked

\* What a merchant is owed by the first n transactions.
Owings(t, n, mid, ccy, from, to) ==
  [j \in 1..n |-> IF t[j].mid = mid /\ Covered(t[j], ccy, from, to) THEN t[j].amount ELSE 0]

Owed(t, n, mid, ccy, from, to) == SumOf(Owings(t, n, mid, ccy, from, to))

LEMMA OwingsAre ==
  ASSUME NEW t, NEW mid, NEW ccy, NEW from, NEW to, NEW n \in Nat, NEW v, v = Owings(t, n, mid, ccy, from, to)
  PROVE  /\ Len(v) = n
         /\ \A j \in 1..n : v[j] = IF t[j].mid = mid /\ Covered(t[j], ccy, from, to) THEN t[j].amount ELSE 0
<1> QED BY DEF Owings

LEMMA OwedGrows ==
  ASSUME NEW t, NEW mid, NEW ccy, NEW from, NEW to, NEW n \in Nat
  PROVE  Owed(t, n + 1, mid, ccy, from, to) =
           Owed(t, n, mid, ccy, from, to)
             + (IF t[n + 1].mid = mid /\ Covered(t[n + 1], ccy, from, to) THEN t[n + 1].amount ELSE 0)
<1>1. PICK u, v : u = Owings(t, n, mid, ccy, from, to) /\ v = Owings(t, n + 1, mid, ccy, from, to)
  OBVIOUS
<1>2. Len(u) = n /\ \A j \in 1..n : u[j] = IF t[j].mid = mid /\ Covered(t[j], ccy, from, to) THEN t[j].amount ELSE 0
  BY <1>1, OwingsAre
<1>3. /\ Len(v) = n + 1
      /\ \A j \in 1..(n + 1) :
           v[j] = IF t[j].mid = mid /\ Covered(t[j], ccy, from, to) THEN t[j].amount ELSE 0
  <2>1. n + 1 \in Nat
    OBVIOUS
  <2> QED BY <1>1, <2>1, OwingsAre
<1>4. (\A j \in 1..n : u[j] = v[j]) /\ n + 1 \in 1..(n + 1)
  BY <1>2, <1>3
<1>5. SumOf(v) = SumOf(u) + v[n + 1]
  BY <1>2, <1>3, <1>4, SumOfMore
<1> QED BY <1>1, <1>3, <1>4, <1>5 DEF Owed

LEMMA OwedIsWhole ==
  ASSUME NEW t, NEW mid, NEW ccy, NEW from, NEW to, NEW n \in Nat, \A j \in 1..n : t[j].amount \in Int
  PROVE  Owed(t, n, mid, ccy, from, to) \in Int
<1>1. PICK v : v = Owings(t, n, mid, ccy, from, to)
  OBVIOUS
<1>2. Len(v) = n /\ \A j \in 1..n : v[j] \in Int
  BY <1>1, OwingsAre
<1>3. SumOf(v) \in Int
  BY <1>2, SumIsWhole
<1> QED BY <1>1, <1>3 DEF Owed

LEMMA OwedNothing ==
  ASSUME NEW t, NEW mid, NEW ccy, NEW from, NEW to
  PROVE  Owed(t, 0, mid, ccy, from, to) = 0
<1>1. PICK v : v = Owings(t, 0, mid, ccy, from, to)
  OBVIOUS
<1>2. Len(v) = 0 /\ \A i \in 1..0 : v[i] = 0
  BY <1>1, OwingsAre
<1>3. SumOf(v) = 0
  BY <1>2, SumOfNone
<1> QED BY <1>1, <1>3 DEF Owed

\* What the amounts of rows or of batches come to.
Amounts(rows) == [i \in 1..Len(rows) |-> rows[i].amount]

Paid(rows) == SumOf(Amounts(rows))

LEMMA PaidIsWhole ==
  ASSUME NEW R, \A r \in R : r.amount \in Int, NEW rows \in Seq(R)
  PROVE  Paid(rows) \in Int
<1>1. PICK n \in Nat : n = Len(rows)
  OBVIOUS
<1>2. PICK v : v = Amounts(rows)
  OBVIOUS
<1>3. Len(v) = n /\ \A i \in 1..n : v[i] \in Int
  <2>1. \A i \in 1..n : rows[i] \in R
    BY <1>1
  <2> QED BY <1>1, <1>2, <2>1 DEF Amounts
<1>4. SumOf(v) \in Int
  BY <1>3, SumIsWhole
<1> QED BY <1>2, <1>4 DEF Paid

LEMMA PaidMore ==
  ASSUME NEW R, NEW rows \in Seq(R), NEW r \in R
  PROVE  Paid(Append(rows, r)) = Paid(rows) + r.amount
<1>1. PICK n \in Nat : n = Len(rows)
  OBVIOUS
<1>2. PICK u, v, more : u = Amounts(rows) /\ more = Append(rows, r) /\ v = Amounts(more)
  OBVIOUS
<1>3. Len(more) = n + 1 /\ more[n + 1] = r /\ \A i \in 1..n : more[i] = rows[i]
  BY <1>1, <1>2
<1>4. Len(u) = n /\ \A i \in 1..n : u[i] = rows[i].amount
  BY <1>1, <1>2 DEF Amounts
<1>5. Len(v) = n + 1 /\ \A i \in 1..(n + 1) : v[i] = more[i].amount
  BY <1>2, <1>3 DEF Amounts
<1>6. (\A i \in 1..n : u[i] = v[i]) /\ n + 1 \in 1..(n + 1)
  BY <1>3, <1>4, <1>5
<1>7. SumOf(v) = SumOf(u) + v[n + 1]
  BY <1>4, <1>5, <1>6, SumOfMore
<1> QED BY <1>2, <1>3, <1>5, <1>6, <1>7 DEF Paid

LEMMA PaidNothing == Paid(<<>>) = 0
<1>1. PICK rows, v : rows = <<>> /\ v = Amounts(rows)
  OBVIOUS
<1>2. Len(v) = 0 /\ \A i \in 1..0 : v[i] = 0
  BY <1>1 DEF Amounts
<1>3. SumOf(v) = 0
  BY <1>2, SumOfNone
<1> QED BY <1>1, <1>3 DEF Paid

\* A merchant's rows so far: one for each transaction that counts, and they
\* come to what the merchant is owed.
RowsFor(t, mid, n) == {Row(mid, t[p[1]], p[2]) : p \in (1..n) \X Nat}

Tally(rows, t, k, n, mid, ccy, from, to) ==
  /\ rows \in Seq(RowsFor(t, mid, n))
  /\ Paid(rows) = Owed(t, k, mid, ccy, from, to)
  /\ (\E j \in 1..k : t[j].mid = mid /\ Covered(t[j], ccy, from, to)) => Len(rows) # 0

LEMMA RowsForIs ==
  ASSUME NEW t, NEW n \in Nat, \A j \in 1..n : t[j].amount \in Words, NEW mid, NEW r \in RowsFor(t, mid, n)
  PROVE  r.mid = mid /\ r.amount \in Words /\ r.amount \in Int
<1>1. PICK p \in (1..n) \X Nat : r = Row(mid, t[p[1]], p[2])
  BY DEF RowsFor
<1>2. p[1] \in 1..n
  OBVIOUS
<1>3. r.mid = mid /\ r.amount = t[p[1]].amount
  BY <1>1 DEF Row
<1> QED BY <1>2, <1>3, WrapAssumption DEF Words

LEMMA TallyStep ==
  ASSUME NEW t, NEW n \in Nat, \A j \in 1..n : t[j].amount \in Words, NEW mid, NEW ccy, NEW from, NEW to,
         NEW k \in Nat, k + 1 <= n, NEW rows, Tally(rows, t, k, n, mid, ccy, from, to),
         NEW next, next = IF t[k + 1].mid = mid /\ Covered(t[k + 1], ccy, from, to)
                          THEN Append(rows, Row(mid, t[k + 1], Len(rows))) ELSE rows
  PROVE  Tally(next, t, k + 1, n, mid, ccy, from, to)
<1>0. k + 1 \in 1..n /\ \A j \in 1..(k + 1) : j = k + 1 \/ j \in 1..k
  OBVIOUS
<1>1. rows \in Seq(RowsFor(t, mid, n)) /\ Len(rows) \in Nat /\ Paid(rows) = Owed(t, k, mid, ccy, from, to)
  BY DEF Tally
<1>2. CASE t[k + 1].mid = mid /\ Covered(t[k + 1], ccy, from, to)
  <2>1. PICK r : r = Row(mid, t[k + 1], Len(rows))
    OBVIOUS
  <2>2. r \in RowsFor(t, mid, n)
    <3>1. PICK p : p = <<k + 1, Len(rows)>>
      OBVIOUS
    <3>2. p \in (1..n) \X Nat /\ p[1] = k + 1 /\ p[2] = Len(rows)
      BY <1>0, <1>1, <3>1
    <3> QED BY <2>1, <3>2 DEF RowsFor
  <2>3. next = Append(rows, r)
    BY <1>2, <2>1
  <2>4. next \in Seq(RowsFor(t, mid, n)) /\ Len(next) = Len(rows) + 1 /\ Len(next) # 0
    BY <1>1, <2>2, <2>3
  <2>5. Paid(next) = Paid(rows) + r.amount
    BY <1>1, <2>2, <2>3, PaidMore
  <2>6. r.amount = t[k + 1].amount
    BY <2>1 DEF Row
  <2>7. Owed(t, k + 1, mid, ccy, from, to) = Owed(t, k, mid, ccy, from, to) + t[k + 1].amount
    BY <1>2, OwedGrows
  <2> QED BY <1>1, <2>4, <2>5, <2>6, <2>7 DEF Tally
<1>3. CASE ~(t[k + 1].mid = mid /\ Covered(t[k + 1], ccy, from, to))
  <2>1. next = rows
    BY <1>3
  <2>2. Owed(t, k + 1, mid, ccy, from, to) = Owed(t, k, mid, ccy, from, to) + 0
    BY <1>3, OwedGrows
  <2>3. Owed(t, k, mid, ccy, from, to) \in Int
    <3>1. \A j \in 1..k : t[j].amount \in Int
      BY WrapAssumption DEF Words
    <3> QED BY <3>1, OwedIsWhole
  <2>4. Owed(t, k + 1, mid, ccy, from, to) = Owed(t, k, mid, ccy, from, to)
    BY <2>2, <2>3
  <2>5. (\E j \in 1..(k + 1) : t[j].mid = mid /\ Covered(t[j], ccy, from, to)) =>
          \E j \in 1..k : t[j].mid = mid /\ Covered(t[j], ccy, from, to)
    BY <1>0, <1>3
  <2> QED BY <1>1, <2>1, <2>4, <2>5 DEF Tally
<1> QED BY <1>2, <1>3

\* A batch holds what its merchant is owed, and a row if there is anything.
BatchHolds(b, t, n, mid, ccy, from, to) ==
  /\ IsSequence(b.rows) /\ b.items = Len(b.rows) /\ b.amount \in Words
  /\ \A j \in 1..Len(b.rows) : b.rows[j].mid = mid /\ b.rows[j].amount \in Words
  /\ Paid(b.rows) = Owed(t, n, mid, ccy, from, to)
  /\ (\E j \in 1..n : t[j].mid = mid /\ Covered(t[j], ccy, from, to)) => Len(b.rows) # 0

LEMMA BatchIs ==
  ASSUME NEW t, NEW n \in Nat, n = Len(t), \A j \in 1..n : t[j].amount \in Words,
         NEW mid, NEW ccy, NEW from, NEW to
  PROVE  BatchHolds(Batch(t, mid, ccy, from, to), t, n, mid, ccy, from, to)
<1>2. PICK f : f = RowsPicked(t, mid, ccy, from, to, n)
  OBVIOUS
<1>3. PICK b : b = Batch(t, mid, ccy, from, to)
  OBVIOUS
<1>4. b = [amount |-> SumAmounts(f[n]), ccy |-> ccy, items |-> Len(f[n]), rows |-> f[n]]
  BY <1>2, <1>3, Zenon DEF Batch, RowsPicked, AreRows
<1>5. \A k \in 0..n : f[k] = IF k = 0 THEN <<>>
                             ELSE IF t[k].mid = mid /\ Covered(t[k], ccy, from, to)
                             THEN Append(f[k - 1], Row(mid, t[k], Len(f[k - 1]))) ELSE f[k - 1]
  <2>1. AreRows(f, t, mid, ccy, from, to, n)
    BY <1>2, RowsAre
  <2> QED BY <2>1 DEF AreRows
<1>6. PICK R : R = RowsFor(t, mid, n)
  OBVIOUS
<1>7. PICK S : S = {k \in Nat : k <= n => Tally(f[k], t, k, n, mid, ccy, from, to)}
  OBVIOUS
<1>8. 0 \in S
  <2>1. f[0] = <<>>
    BY <1>5
  <2>2. <<>> \in Seq(RowsFor(t, mid, n))
    OBVIOUS
  <2>3. ~\E j \in 1..0 : t[j].mid = mid /\ Covered(t[j], ccy, from, to)
    OBVIOUS
  <2>4. Tally(f[0], t, 0, n, mid, ccy, from, to)
    BY <2>1, <2>2, <2>3, PaidNothing, OwedNothing DEF Tally
  <2> QED BY <1>7, <2>4
<1>9. ASSUME NEW k \in Nat, k \in S PROVE k + 1 \in S
  <2> SUFFICES ASSUME k + 1 <= n PROVE Tally(f[k + 1], t, k + 1, n, mid, ccy, from, to)
    BY <1>7
  <2>1. Tally(f[k], t, k, n, mid, ccy, from, to)
    BY <1>7, <1>9
  <2>2. k + 1 \in 0..n /\ k + 1 # 0 /\ (k + 1) - 1 = k
    OBVIOUS
  <2>3. f[k + 1] = IF t[k + 1].mid = mid /\ Covered(t[k + 1], ccy, from, to)
                   THEN Append(f[k], Row(mid, t[k + 1], Len(f[k]))) ELSE f[k]
    BY <1>5, <2>2
  <2> QED BY <2>1, <2>3, TallyStep
<1>10. PICK rows : rows = f[n] /\ Tally(rows, t, n, n, mid, ccy, from, to)
  <2>1. n \in S
    BY <1>8, <1>9, Induct
  <2> QED BY <1>7, <2>1
<1>11. rows \in Seq(R) /\ \A r \in R : r.mid = mid /\ r.amount \in Words /\ r.amount \in Int
  BY <1>6, <1>10, RowsForIs DEF Tally
<1>12. SumAmounts(rows) \in Words
  <2>1. Paid(rows) \in Int
    BY <1>11, PaidIsWhole
  <2>2. SumAmounts(rows) = Signed(Paid(rows))
    BY Zenon DEF SumAmounts, Paid, Amounts
  <2> QED BY <2>1, <2>2, SignedIs
<1>13. b.rows = rows /\ b.items = Len(rows) /\ b.amount = SumAmounts(rows)
  BY <1>4, <1>10
<1>14. \A j \in 1..Len(rows) : rows[j].mid = mid /\ rows[j].amount \in Words
  <2>1. \A j \in 1..Len(rows) : rows[j] \in R
    BY <1>11
  <2> QED BY <1>11, <2>1
<1>15. IsSequence(rows)
  BY <1>11 DEF IsSequence
<1>16. BatchHolds(b, t, n, mid, ccy, from, to)
  BY <1>10, <1>12, <1>13, <1>14, <1>15 DEF BatchHolds, Tally
<1> QED BY <1>3, <1>16

Rises(s, n) == \A i, j \in 1..n : i < j => s[i] < s[j]

LEMMA LeastFirst ==
  ASSUME NEW n \in Nat, NEW S, S \subseteq Nat, NEW m \in S, \A x \in S : m <= x,
         NEW s \in [1..n -> S \ {m}], Rises(s, n)
  PROVE  \E g \in [1..(n + 1) -> S] : Rises(g, n + 1)
<1> PICK g : g = [i \in 1..(n + 1) |-> IF i = 1 THEN m ELSE s[i - 1]]
  OBVIOUS
<1>1. \A i \in 1..(n + 1) : i # 1 => i - 1 \in 1..n
  OBVIOUS
<1>2. g \in [1..(n + 1) -> S]
  BY <1>1
<1>3. ASSUME NEW i \in 1..(n + 1), NEW j \in 1..(n + 1), i < j PROVE g[i] < g[j]
  <2>1. j # 1 /\ j - 1 \in 1..n /\ g[j] = s[j - 1] /\ s[j - 1] \in S \ {m}
    BY <1>1, <1>3
  <2>2. CASE i = 1
    <3>1. g[i] = m /\ m \in Nat /\ s[j - 1] \in Nat /\ m <= s[j - 1] /\ m # s[j - 1]
      BY <2>1, <2>2
    <3> QED BY <2>1, <3>1
  <2>3. CASE i # 1
    <3>1. i - 1 \in 1..n /\ i - 1 < j - 1 /\ g[i] = s[i - 1]
      BY <1>1, <1>3, <2>3
    <3> QED BY <2>1, <3>1 DEF Rises
  <2> QED BY <2>2, <2>3
<1> QED BY <1>2, <1>3 DEF Rises

\* A finite set of numbers can be put in order.
LEMMA CanBeOrdered ==
  ASSUME NEW S, S \subseteq Nat, IsFiniteSet(S)
  PROVE  \E s \in [1..Cardinality(S) -> S] : Rises(s, Cardinality(S))
<1>1. PICK T : T = {n \in Nat : \A R \in SUBSET Nat : IsFiniteSet(R) /\ Cardinality(R) = n =>
                                  \E s \in [1..n -> R] : Rises(s, n)}
  OBVIOUS
<1>2. 0 \in T
  <2>1. ASSUME NEW R PROVE \E s \in [1..0 -> R] : Rises(s, 0)
    <3> PICK s : s = [i \in 1..0 |-> 0]
      OBVIOUS
    <3>1. s \in [1..0 -> R] /\ Rises(s, 0)
      BY DEF Rises
    <3> QED BY <3>1
  <2> QED BY <1>1, <2>1
<1>3. ASSUME NEW n \in Nat, n \in T PROVE n + 1 \in T
  <2>1. ASSUME NEW R \in SUBSET Nat, IsFiniteSet(R), Cardinality(R) = n + 1
        PROVE  \E s \in [1..(n + 1) -> R] : Rises(s, n + 1)
    <3>1. R # {}
      <4>1. Cardinality({}) = 0
        BY FS_EmptySet
      <4> QED BY <2>1, <4>1
    <3>2. PICK m : m = Min(R) /\ m \in R /\ \A x \in R : m <= x
      BY <3>1, MinIs
    <3>3. PICK Q : Q = R \ {m}
      OBVIOUS
    <3>4. IsFiniteSet(Q) /\ Cardinality(Q) = n /\ Q \in SUBSET Nat
      <4>1. IsFiniteSet(R \ {m}) /\ Cardinality(R \ {m}) = Cardinality(R) - 1
        BY <2>1, <3>2, FS_RemoveElement
      <4>2. Cardinality(Q) = (n + 1) - 1
        BY <2>1, <3>3, <4>1
      <4>3. (n + 1) - 1 = n
        BY <1>3
      <4> QED BY <2>1, <3>3, <4>1, <4>2, <4>3
    <3>5. PICK s \in [1..n -> Q] : Rises(s, n)
      BY <1>1, <1>3, <3>4
    <3> QED BY <3>2, <3>3, <3>5, LeastFirst
  <2> QED BY <1>1, <2>1
<1>4. PICK c \in Nat : c = Cardinality(S)
  BY FS_CardinalityType
<1>5. c \in T
  BY <1>2, <1>3, Induct
<1> QED BY <1>1, <1>4, <1>5

LEMMA InOrderIs ==
  ASSUME NEW S, S \subseteq Nat, IsFiniteSet(S)
  PROVE  Lists(InOrder(S), S)
<1>1. PICK c \in Nat : c = Cardinality(S)
  BY FS_CardinalityType
<1>2. \E s \in [1..c -> S] : \A i, j \in 1..c : i < j => s[i] < s[j]
  BY <1>1, CanBeOrdered DEF Rises
<1>3. PICK s : s = InOrder(S) /\ s \in [1..c -> S] /\ \A i, j \in 1..c : i < j => s[i] < s[j]
  BY <1>1, <1>2, Zenon DEF InOrder
<1>4. \A i, j \in 1..c : s[i] = s[j] => i = j
  <2> SUFFICES ASSUME NEW i \in 1..c, NEW j \in 1..c, s[i] = s[j], i # j PROVE FALSE
    OBVIOUS
  <2>1. s[i] \in Nat /\ s[j] \in Nat
    BY <1>3
  <2>2. i < j \/ j < i
    OBVIOUS
  <2> QED BY <1>3, <2>1, <2>2
<1>5. Lists(s, S)
  BY <1>1, <1>3, <1>4, ListsAll
<1> QED BY <1>3, <1>5

\* The merchants of a file: each with something in it, and each once.
Trades(mids, t, n, ccy, from, to) ==
  /\ IsSequence(mids)
  /\ \A i, j \in 1..Len(mids) : mids[i] = mids[j] => i = j
  /\ \A j \in 1..n : Covered(t[j], ccy, from, to) => \E i \in 1..Len(mids) : mids[i] = t[j].mid

LEMMA TradedIs ==
  ASSUME NEW t, NEW n \in Nat, n = Len(t), \A j \in 1..n : IsTransaction(t[j]), NEW ccy, NEW from, NEW to
  PROVE  Trades(Traded(t, ccy, from, to), t, n, ccy, from, to)
<1>2. PICK J : J = {j \in 1..n : Covered(t[j], ccy, from, to)}
  OBVIOUS
<1>3. PICK M : M = {t[i].mid : i \in J}
  OBVIOUS
<1>4. IsFiniteSet(J)
  <2>1. IsFiniteSet(1..n)
    BY FS_Interval
  <2> QED BY <1>2, <2>1, FS_Subset
<1>5. IsFiniteSet(M)
  <2>1. PICK g : g = [i \in J |-> t[i].mid]
    OBVIOUS
  <2>2. g \in Surjection(J, M)
    BY <1>3, <2>1 DEF Surjection
  <2> QED BY <1>4, <2>2, FS_Surjection
<1>6. M \subseteq Nat
  BY <1>2, <1>3 DEF IsTransaction
<1>7. PICK mids : mids = Traded(t, ccy, from, to) /\ mids = InOrder(M)
  BY <1>2, <1>3, Zenon DEF Traded
<1>8. /\ mids \in Seq(M)
      /\ \A i, j \in 1..Len(mids) : mids[i] = mids[j] => i = j
      /\ \A x \in M : \E i \in 1..Len(mids) : mids[i] = x
  <2>1. Lists(mids, M)
    BY <1>5, <1>6, <1>7, InOrderIs
  <2> QED BY <2>1 DEF Lists
<1>9. \A j \in 1..n : Covered(t[j], ccy, from, to) => t[j].mid \in M
  BY <1>2, <1>3
<1>10. Trades(mids, t, n, ccy, from, to)
  <2>1. IsSequence(mids)
    BY <1>8 DEF IsSequence
  <2> QED BY <1>8, <1>9, <2>1 DEF Trades
<1> QED BY <1>7, <1>10

BatchesOf(t, ccy, from, to) ==
  [i \in 1..Len(Traded(t, ccy, from, to)) |-> Batch(t, Traded(t, ccy, from, to)[i], ccy, from, to)]

Items(batches) == [i \in 1..Len(batches) |-> batches[i].items]

LEMMA FileHas ==
  ASSUME NEW t, NEW ccy, NEW from, NEW to, NEW batches, batches = BatchesOf(t, ccy, from, to)
  PROVE  /\ File(t, ccy, from, to).amount = SumAmounts(batches)
         /\ File(t, ccy, from, to).ccy = ccy
         /\ File(t, ccy, from, to).items = SumOf(Items(batches))
         /\ File(t, ccy, from, to).batches = batches
<1>1. PICK items : items = SumOf(Items(BatchesOf(t, ccy, from, to)))
  OBVIOUS
<1>2. File(t, ccy, from, to) =
        [amount |-> SumAmounts(BatchesOf(t, ccy, from, to)), ccy |-> ccy, date |-> to, items |-> items,
         batches |-> BatchesOf(t, ccy, from, to)]
  BY <1>1, Zenon DEF File, BatchesOf, Items
<1>3. File(t, ccy, from, to) =
        [amount |-> SumAmounts(batches), ccy |-> ccy, date |-> to, items |-> items, batches |-> batches]
  BY <1>2
<1> QED BY <1>1, <1>3

\* A file as it is cut from n transactions: a batch for each merchant.
CutFrom(f, mids, t, n, ccy, from, to) ==
  /\ WellCut(f) /\ f.ccy = ccy
  /\ Trades(mids, t, n, ccy, from, to) /\ Len(f.batches) = Len(mids)
  /\ \A i \in 1..Len(mids) : BatchHolds(f.batches[i], t, n, mids[i], ccy, from, to)

LEMMA FileIs ==
  ASSUME NEW t, NEW n \in Nat, n = Len(t), \A j \in 1..n : IsTransaction(t[j]), NEW ccy, NEW from, NEW to
  PROVE  \E mids : CutFrom(File(t, ccy, from, to), mids, t, n, ccy, from, to)
<1>1. PICK f : f = File(t, ccy, from, to)
  OBVIOUS
<1>2. PICK mids : mids = Traded(t, ccy, from, to) /\ Trades(mids, t, n, ccy, from, to)
  BY TradedIs
<1>3. PICK m \in Nat : m = Len(mids)
  BY <1>2 DEF Trades, IsSequence
<1>4. PICK batches : batches = BatchesOf(t, ccy, from, to)
  OBVIOUS
<1>5. batches = [i \in 1..m |-> Batch(t, mids[i], ccy, from, to)]
  BY <1>2, <1>3, <1>4 DEF BatchesOf
<1>6. \A j \in 1..n : t[j].amount \in Words
  BY WrapAssumption DEF IsTransaction, Words
<1>7. \A i \in 1..m : BatchHolds(batches[i], t, n, mids[i], ccy, from, to)
  <2> SUFFICES ASSUME NEW i \in 1..m PROVE BatchHolds(batches[i], t, n, mids[i], ccy, from, to)
    OBVIOUS
  <2>1. batches[i] = Batch(t, mids[i], ccy, from, to)
    BY <1>5
  <2>2. BatchHolds(Batch(t, mids[i], ccy, from, to), t, n, mids[i], ccy, from, to)
    BY <1>6, BatchIs
  <2> QED BY <2>1, <2>2
<1>8. Len(batches) = m /\ IsSequence(batches)
  <2>1. batches \in Seq({batches[i] : i \in 1..m})
    BY <1>3, <1>5
  <2>2. Len(batches) = m
    BY <1>3, <1>5
  <2> QED BY <2>1, <2>2 DEF IsSequence
<1>9. SumAmounts(batches) \in Words
  <2>1. PICK v : v = [i \in 1..m |-> batches[i].amount]
    OBVIOUS
  <2>2. Len(v) = m /\ \A i \in 1..m : v[i] \in Int
    BY <1>7, <2>1, WrapAssumption DEF BatchHolds, Words
  <2>3. SumOf(v) \in Int
    BY <2>2, SumIsWhole
  <2> QED BY <1>8, <2>1, <2>3, SignedIs DEF SumAmounts
<1>10. f.amount = SumAmounts(batches) /\ f.ccy = ccy /\ f.batches = batches
  BY <1>1, <1>4, FileHas
<1>11. \A i \in 1..m : WellBatched(batches[i])
  BY <1>7 DEF WellBatched, BatchHolds
<1>12. WellCut(f)
  <2>1. f.amount \in Words /\ IsSequence(f.batches)
    BY <1>8, <1>9, <1>10
  <2>2. \A i \in 1..Len(f.batches) : WellBatched(f.batches[i])
    BY <1>8, <1>10, <1>11
  <2> QED BY <2>1, <2>2 DEF WellCut
<1>13. CutFrom(f, mids, t, n, ccy, from, to)
  BY <1>2, <1>3, <1>7, <1>8, <1>10, <1>12 DEF CutFrom
<1> QED BY <1>1, <1>13
-----------------------------------------------------------------------------
(***************************************************************************)
(* Reading a file back: no row comes before its batch's, every row of a    *)
(* batch is found, and the rows of a merchant come to what it is owed.     *)
(***************************************************************************)

\* A TXER row has a batch's row before it.
Led(a) == \A i \in 1..Len(a) : RecordType(a[i]) = "TXER" => \E j \in 1..(i - 1) : RecordType(a[j]) = "Batch"

LEMMA LedOn ==
  ASSUME NEW S, NEW a \in Seq(S), NEW b \in Seq(S), Led(a), Led(b)
  PROVE  Led(a \o b)
<1>0. PICK c : c = a \o b
  OBVIOUS
<1>1. PICK m \in Nat, n \in Nat : c = a \o b /\ m = Len(a) /\ n = Len(b)
  BY <1>0
<1>2. IsJoin(c, a, b, m, n)
  BY <1>1, Joined
<1>3. /\ Len(c) = m + n
      /\ \A i \in 1..m : c[i] = a[i]
      /\ \A j \in 1..n : c[m + j] = b[j]
  BY <1>2 DEF IsJoin
<1>4. ASSUME NEW i \in 1..(m + n), RecordType(c[i]) = "TXER" PROVE \E j \in 1..(i - 1) : RecordType(c[j]) = "Batch"
  <2>1. CASE i \in 1..m
    <3>1. RecordType(a[i]) = "TXER"
      BY <1>3, <1>4, <2>1
    <3>2. PICK j \in 1..(i - 1) : RecordType(a[j]) = "Batch"
      BY <1>1, <2>1, <3>1 DEF Led
    <3>3. j \in 1..m
      BY <1>1, <2>1, <3>2
    <3>4. RecordType(c[j]) = "Batch"
      BY <1>3, <3>2, <3>3
    <3> QED BY <3>2, <3>4
  <2>2. CASE i \notin 1..m
    <3>1. PICK x \in 1..n : i = m + x
      <4>1. i - m \in 1..n /\ i = m + (i - m)
        BY <1>1, <1>4, <2>2
      <4> QED BY <4>1
    <3>2. RecordType(b[x]) = "TXER"
      BY <1>3, <1>4, <3>1
    <3>3. PICK y \in 1..(x - 1) : RecordType(b[y]) = "Batch"
      BY <1>1, <3>1, <3>2 DEF Led
    <3>4. y \in 1..n /\ m + y \in 1..(i - 1)
      BY <1>1, <3>1, <3>3
    <3>5. RecordType(c[m + y]) = "Batch"
      BY <1>3, <3>3, <3>4
    <3> QED BY <3>4, <3>5
  <2> QED BY <2>1, <2>2
<1>5. Led(c)
  BY <1>3, <1>4 DEF Led
<1> QED BY <1>1, <1>5

LEMMA LedByAll ==
  ASSUME NEW S, NEW s \in Seq(Seq(S)), \A i \in 1..Len(s) : Led(s[i])
  PROVE  Led(FlattenSeq(s))
<1>1. PICK n \in Nat : n = Len(s)
  OBVIOUS
<1>2. PICK P : P = {p \in Nat \X Seq(S) : Led(p[2])}
  OBVIOUS
<1>3. <<0, <<>>>> \in P
  <2>0. <<>> \in Seq(S) /\ Len(<<>>) = 0
    OBVIOUS
  <2>1. PICK e \in Seq(S) : e = <<>> /\ Len(e) = 0
    BY <2>0
  <2>2. Led(e)
    BY <2>1 DEF Led
  <2>3. PICK p : p = <<0, e>>
    OBVIOUS
  <2>4. p \in Nat \X Seq(S) /\ p[2] = e
    <3>1. e \in Seq(S)
      BY <2>1
    <3>2. p[1] = 0 /\ p[2] = e
      BY <2>3
    <3> QED BY <2>3, <3>1, <3>2
  <2>5. p \in P
    BY <1>2, <2>2, <2>4
  <2> QED BY <2>1, <2>3, <2>5
<1>4. ASSUME NEW i \in 0..(n - 1), NEW a \in Seq(S), <<i, a>> \in P
      PROVE  <<i + 1, a \o s[i + 1]>> \in P
  <2>1. PICK p, q : p = <<i, a>> /\ q = <<i + 1, a \o s[i + 1]>>
    OBVIOUS
  <2>2. p[2] = a /\ q[2] = a \o s[i + 1]
    BY <2>1
  <2>3. i + 1 \in 1..n /\ i + 1 \in Nat /\ s[i + 1] \in Seq(S)
    BY <1>1, <1>4
  <2>4. Led(a)
    BY <1>2, <1>4, <2>1, <2>2
  <2>5. Led(s[i + 1])
    BY <1>1, <2>3
  <2>6. Led(a \o s[i + 1])
    BY <1>4, <2>3, <2>4, <2>5, LedOn
  <2>7. a \o s[i + 1] \in Seq(S)
    BY <1>4, <2>3
  <2>8. q \in Nat \X Seq(S)
    BY <2>1, <2>3, <2>7
  <2> QED BY <1>2, <2>1, <2>2, <2>6, <2>8
<1>5. <<n, FlattenSeq(s)>> \in P
  BY <1>1, <1>3, <1>4, FlattenSteps
<1>6. PICK p : p = <<n, FlattenSeq(s)>>
  OBVIOUS
<1>7. p[2] = FlattenSeq(s)
  BY <1>6
<1> QED BY <1>2, <1>5, <1>6, <1>7

\* Every entry of every part is in the whole.
Holds(a, x) == \E y \in 1..Len(a) : a[y] = x

LEMMA HoldsOn ==
  ASSUME NEW S, NEW a \in Seq(S), NEW b \in Seq(S), NEW x, Holds(a, x) \/ Holds(b, x)
  PROVE  Holds(a \o b, x)
<1>0. PICK c : c = a \o b
  OBVIOUS
<1>1. PICK m \in Nat, n \in Nat : c = a \o b /\ m = Len(a) /\ n = Len(b)
  BY <1>0
<1>2. IsJoin(c, a, b, m, n)
  BY <1>1, Joined
<1>3. Len(c) = m + n /\ (\A i \in 1..m : c[i] = a[i]) /\ (\A j \in 1..n : c[m + j] = b[j])
  BY <1>2 DEF IsJoin
<1>4. CASE Holds(a, x)
  <2>1. PICK y \in 1..m : a[y] = x
    BY <1>1, <1>4 DEF Holds
  <2>2. y \in 1..(m + n) /\ c[y] = x
    BY <1>1, <1>3, <2>1
  <2> QED BY <1>1, <1>3, <2>2 DEF Holds
<1>5. CASE Holds(b, x)
  <2>1. PICK y \in 1..n : b[y] = x
    BY <1>1, <1>5 DEF Holds
  <2>2. m + y \in 1..(m + n) /\ c[m + y] = x
    BY <1>1, <1>3, <2>1
  <2> QED BY <1>1, <1>3, <2>2 DEF Holds
<1> QED BY <1>4, <1>5

LEMMA FlattenHolds ==
  ASSUME NEW S, NEW s \in Seq(Seq(S)), NEW k \in 1..Len(s), NEW x, Holds(s[k], x)
  PROVE  Holds(FlattenSeq(s), x)
<1>1. PICK n \in Nat : n = Len(s)
  OBVIOUS
<1>2. PICK P : P = {p \in Nat \X Seq(S) : k <= p[1] => Holds(p[2], x)}
  OBVIOUS
<1>3. <<0, <<>>>> \in P
  <2>0. <<>> \in Seq(S)
    OBVIOUS
  <2>1. PICK e \in Seq(S) : e = <<>>
    BY <2>0
  <2>3. PICK p : p = <<0, e>>
    OBVIOUS
  <2>4. p \in Nat \X Seq(S) /\ p[1] = 0
    BY <2>1, <2>3
  <2>5. ~(k <= 0)
    OBVIOUS
  <2>6. p \in P
    BY <1>2, <2>4, <2>5
  <2> QED BY <2>1, <2>3, <2>6
<1>4. ASSUME NEW i \in 0..(n - 1), NEW a \in Seq(S), <<i, a>> \in P
      PROVE  <<i + 1, a \o s[i + 1]>> \in P
  <2>1. PICK p, q : p = <<i, a>> /\ q = <<i + 1, a \o s[i + 1]>>
    OBVIOUS
  <2>2. p[1] = i /\ p[2] = a /\ q[1] = i + 1 /\ q[2] = a \o s[i + 1]
    BY <2>1
  <2>3. i + 1 \in 1..n /\ i + 1 \in Nat /\ s[i + 1] \in Seq(S)
    BY <1>1, <1>4
  <2>4. k <= i => Holds(a, x)
    BY <1>2, <1>4, <2>1, <2>2
  <2>5. ASSUME k <= i + 1 PROVE Holds(a \o s[i + 1], x)
    <3>1. k <= i \/ k = i + 1
      BY <1>1, <1>4, <2>5
    <3>2. Holds(a, x) \/ Holds(s[i + 1], x)
      BY <2>4, <3>1
    <3> QED BY <1>4, <2>3, <3>2, HoldsOn
  <2>7. a \o s[i + 1] \in Seq(S)
    BY <1>4, <2>3
  <2>8. q \in Nat \X Seq(S)
    BY <2>1, <2>3, <2>7
  <2> QED BY <1>2, <2>1, <2>2, <2>5, <2>8
<1>5. <<n, FlattenSeq(s)>> \in P
  BY <1>1, <1>3, <1>4, FlattenSteps
<1>6. PICK p : p = <<n, FlattenSeq(s)>>
  OBVIOUS
<1>7. p[1] = n /\ p[2] = FlattenSeq(s) /\ k <= n
  BY <1>1, <1>6
<1> QED BY <1>2, <1>5, <1>6, <1>7

LEMMA SectionIsLed ==
  ASSUME NEW b, IsSequence(b.rows)
  PROVE  Led(BatchSection(b))
<1>0. PICK t : t = BatchSection(b)
  OBVIOUS
<1>1. PICK n \in Nat : n = Len(b.rows) /\ t = BatchSection(b)
  BY <1>0 DEF IsSequence
<1>2. Len(t) = n + 3 /\ t[1] = Header /\ t[2] = BatchRow(b) /\ t[3] = Header
  BY <1>1, SectionIs
<1>3. ASSUME NEW i \in 1..Len(t), RecordType(t[i]) = "TXER" PROVE \E j \in 1..(i - 1) : RecordType(t[j]) = "Batch"
  <2>1. RecordType(t[1]) # "TXER" /\ RecordType(t[2]) # "TXER" /\ RecordType(t[2]) = "Batch"
    BY <1>2, HeaderIs, BatchRowIs, TypesApart
  <2>2. i # 1 /\ i # 2
    BY <1>3, <2>1
  <2>3. i \in 1..(n + 3)
    BY <1>2
  <2>4. 2 \in 1..(i - 1)
    BY <1>1, <2>2, <2>3
  <2> QED BY <2>1, <2>4
<1>4. Led(t)
  BY <1>3 DEF Led
<1> QED BY <1>1, <1>4

\* The platform can read the whole of it.
LEMMA TextIsReadable == ASSUME NEW f, WellCut(f) PROVE Readable(Text(f))
<1>1. PICK t, m : t = Text(f) /\ m = Middle(f)
  OBVIOUS
<1>2. PICK k \in Nat : IsText(f, t, m, k)
  BY <1>1, TextIs
<1>3. /\ \A i \in 1..Len(t) : i # 2 => Good(t[i])
      /\ RecordType(t[2]) = "Settlement" /\ 2 \in 1..Len(t)
      /\ t[2].amount = MajorUnits(f.amount)
      /\ ~\E i \in 1..Len(t) : t[i].type = "ST"
  BY <1>2, TextIsGood
<1>4. k \in Nat /\ Len(t) = k + 3 /\ t[1] = Header /\ t[k + 3] = Header /\ Len(m) = k
      /\ \A i \in 3..(k + 2) : t[i] = m[i - 2]
  BY <1>2 DEF IsText
<1>5. ASSUME NEW i \in 1..Len(t), RecordType(t[i]) # "" PROVE IsRead(Amount(t, t[i].amount))
  <2>1. Amount(t, t[i].amount) = MinorUnits(t[i].amount)
    BY <1>3, Zenon DEF Amount
  <2>2. \E x \in Words : MinorUnits(t[i].amount) = Read(x)
    <3>1. CASE i = 2
      <4>1. f.amount \in Words
        BY DEF WellCut
      <4>2. MinorUnits(MajorUnits(f.amount)) = Read(f.amount)
        BY <4>1, AmountsSurvive
      <4> QED BY <1>3, <3>1, <4>1, <4>2
    <3>2. CASE i # 2
      BY <1>3, <1>5, <3>2 DEF Good
    <3> QED BY <3>1, <3>2
  <2>3. \A x : IsRead(Read(x))
    BY DEF IsRead, Read
  <2> QED BY <2>1, <2>2, <2>3
<1>6. Led(m)
  <2>1. PICK n \in Nat : n = Len(f.batches)
    BY DEF WellCut, IsSequence
  <2>2. Parts(f) \in Seq(Seq(FileRows(f))) /\ Len(Parts(f)) = n /\ \A i \in 1..n : Parts(f)[i] = BatchSection(f.batches[i])
    BY <2>1, PartsAre
  <2>3. \A i \in 1..n : Led(BatchSection(f.batches[i]))
    BY <2>1, SectionIsLed DEF WellCut, WellBatched
  <2>4. Led(FlattenSeq(Parts(f)))
    BY <2>2, <2>3, LedByAll
  <2> QED BY <1>1, <2>4 DEF Middle
<1>7. ASSUME NEW i \in 1..Len(t), RecordType(t[i]) = "TXER" PROVE \E j \in 1..(i - 1) : RecordType(t[j]) = "Batch"
  <2>1. i # 1 /\ i # 2 /\ i # k + 3
    BY <1>3, <1>4, <1>7, HeaderIs, TypesApart
  <2>2. i \in 3..(k + 2) /\ i - 2 \in 1..k
    BY <1>4, <2>1
  <2>3. RecordType(m[i - 2]) = "TXER"
    BY <1>4, <1>7, <2>2
  <2>4. PICK j \in 1..((i - 2) - 1) : RecordType(m[j]) = "Batch"
    BY <1>4, <1>6, <2>2, <2>3 DEF Led
  <2>5. j + 2 \in 3..(k + 2) /\ (j + 2) - 2 = j /\ j + 2 \in 1..(i - 1)
    BY <1>4, <2>2, <2>4
  <2>6. RecordType(t[j + 2]) = "Batch"
    BY <1>4, <2>4, <2>5
  <2> QED BY <2>5, <2>6
<1> QED BY <1>1, <1>5, <1>7 DEF Readable

\* What a row pays a merchant.
Weight(mid, row) == IF IsRowOf(row, mid) THEN MinorUnits(row.amount).value ELSE 0

Pays(S, mid) == [row \in S |-> Weight(mid, row)]

LEMMA OnlyRowsPay ==
  ASSUME NEW mid, NEW row, RecordType(row) # "TXER" \/ row.mid # mid
  PROVE  Weight(mid, row) = 0
<1> QED BY Zenon DEF Weight, IsRowOf

LEMMA RowPays ==
  ASSUME NEW mid, NEW r, r.amount \in Words, r.mid = mid
  PROVE  Weight(mid, TxerRow(r)) = r.amount
<1>1. IsRowOf(TxerRow(r), mid)
  BY TxerRowIs DEF IsRowOf
<1>2. TxerRow(r).amount = MajorUnits(r.amount)
  BY TxerRowIs
<1>3. MinorUnits(TxerRow(r).amount) = Read(r.amount)
  BY <1>2, AmountsSurvive
<1>4. Read(r.amount).value = r.amount
  BY DEF Read
<1> QED BY <1>1, <1>3, <1>4, Zenon DEF Weight

LEMMA SectionPays ==
  ASSUME NEW b, WellBatched(b), NEW S, RowsOfBatch(b) \subseteq S, NEW mid, NEW its,
         \A j \in 1..Len(b.rows) : b.rows[j].mid = its, \A row \in S : Weight(mid, row) \in Int
  PROVE  Weigh(Pays(S, mid), BatchSection(b)) = IF its = mid THEN Paid(b.rows) ELSE 0
<1>0. PICK t, w : t = BatchSection(b) /\ w = Pays(S, mid)
  OBVIOUS
<1>1. PICK n \in Nat : n = Len(b.rows) /\ IsSequence(b.rows)
  BY DEF WellBatched, IsSequence
<1>2. /\ t \in Seq(RowsOfBatch(b)) /\ Len(t) = n + 3
      /\ t[1] = Header /\ t[2] = BatchRow(b) /\ t[3] = Header
      /\ \A j \in 1..n : t[j + 3] = TxerRow(b.rows[j])
  BY <1>0, <1>1, SectionIs
<1>3. t \in Seq(S) /\ w \in [S -> Int] /\ \A row \in S : w[row] = Weight(mid, row)
  BY <1>0, <1>2 DEF Pays
<1>4. PICK x, y : x = Weights(w, t) /\ y = Amounts(b.rows)
  OBVIOUS
<1>5. Len(x) = n + 3 /\ \A i \in 1..(n + 3) : x[i] = Weight(mid, t[i])
  <2>1. \A i \in 1..(n + 3) : t[i] \in S
    BY <1>2, <1>3
  <2>2. \A i \in 1..(n + 3) : w[t[i]] = Weight(mid, t[i])
    BY <1>3, <2>1
  <2> QED BY <1>2, <1>4, <2>2 DEF Weights
<1>6. Len(y) = n /\ \A j \in 1..n : y[j] = b.rows[j].amount
  BY <1>1, <1>4 DEF Amounts
<1>7. Weight(mid, Header) = 0 /\ Weight(mid, BatchRow(b)) = 0
  <2>1. RecordType(Header) # "TXER" /\ RecordType(BatchRow(b)) # "TXER"
    BY HeaderIs, BatchRowIs, TypesApart
  <2> QED BY <2>1, OnlyRowsPay
<1>8. x[1] = 0 /\ x[2] = 0 /\ x[3] = 0
  <2>1. 1 \in 1..(n + 3) /\ 2 \in 1..(n + 3) /\ 3 \in 1..(n + 3)
    BY <1>1
  <2> QED BY <1>2, <1>5, <1>7, <2>1
<1>9. \A j \in 1..n : 3 + j \in 1..(n + 3) /\ 3 + j = j + 3
  BY <1>1
<1>10. CASE its = mid
  <2>1. \A j \in 1..n : y[j] \in Int /\ x[3 + j] = y[j]
    <3> SUFFICES ASSUME NEW j \in 1..n PROVE y[j] \in Int /\ x[3 + j] = y[j]
      OBVIOUS
    <3>1. b.rows[j].amount \in Words /\ b.rows[j].mid = mid
      BY <1>1, <1>10 DEF WellBatched
    <3>2. Weight(mid, TxerRow(b.rows[j])) = b.rows[j].amount
      BY <3>1, RowPays
    <3>3. x[3 + j] = Weight(mid, TxerRow(b.rows[j]))
      BY <1>2, <1>5, <1>9
    <3> QED BY <1>6, <3>1, <3>2, <3>3, WrapAssumption DEF Words
  <2>2. PICK z : z = [i \in 1..3 |-> 0]
    OBVIOUS
  <2>3. Len(z) = 3 /\ \A i \in 1..3 : z[i] = 0
    BY <2>2
  <2>4. IsJoin(x, z, y, 3, n)
    <3>1. \A i \in 1..3 : i = 1 \/ i = 2 \/ i = 3
      OBVIOUS
    <3>2. \A i \in 1..3 : x[i] = z[i]
      BY <1>8, <2>3, <3>1
    <3>3. Len(x) = 3 + n
      BY <1>1, <1>5
    <3> QED BY <1>1, <1>6, <2>1, <2>3, <3>2, <3>3 DEF IsJoin
  <2>5. Integers(z) /\ Integers(y)
    BY <1>6, <2>1, <2>3 DEF Integers
  <2>6. SumOf(x) = SumOf(z) + SumOf(y)
    BY <2>4, <2>5, SumSplits
  <2>7. SumOf(z) = 0
    BY <2>3, SumOfNone
  <2>8. SumOf(y) \in Int
    BY <1>1, <1>6, <2>1, SumIsWhole
  <2>9. SumOf(x) = SumOf(y)
    BY <2>6, <2>7, <2>8
  <2> QED BY <1>0, <1>4, <1>10, <2>9 DEF Weigh, Paid
<1>11. CASE its # mid
  <2>1. \A j \in 1..n : x[3 + j] = 0
    <3> SUFFICES ASSUME NEW j \in 1..n PROVE x[3 + j] = 0
      OBVIOUS
    <3>1. b.rows[j].mid # mid /\ TxerRow(b.rows[j]).mid = b.rows[j].mid
      BY <1>1, <1>11, TxerRowIs
    <3>2. Weight(mid, TxerRow(b.rows[j])) = 0
      BY <3>1, OnlyRowsPay
    <3>3. x[3 + j] = Weight(mid, TxerRow(b.rows[j]))
      BY <1>2, <1>5, <1>9
    <3> QED BY <3>2, <3>3
  <2>2. \A i \in 1..(n + 3) : x[i] = 0
    <3>1. \A i \in 1..(n + 3) : i = 1 \/ i = 2 \/ i = 3 \/ \E j \in 1..n : i = 3 + j
      <4> SUFFICES ASSUME NEW i \in 1..(n + 3), i # 1, i # 2, i # 3 PROVE \E j \in 1..n : i = 3 + j
        OBVIOUS
      <4>1. i - 3 \in 1..n /\ i = 3 + (i - 3)
        BY <1>1
      <4> QED BY <4>1
    <3> QED BY <1>8, <2>1, <3>1
  <2>3. PICK k \in Nat : k = n + 3
    BY <1>1
  <2>4. SumOf(x) = 0
    BY <1>5, <2>2, <2>3, SumOfNone
  <2> QED BY <1>0, <1>4, <1>11, <2>4 DEF Weigh
<1> QED BY <1>10, <1>11

\* The middle of a file pays a merchant what its batch comes to.
LEMMA MiddlePays ==
  ASSUME NEW f, NEW mids, NEW t, NEW n, NEW ccy, NEW from, NEW to, CutFrom(f, mids, t, n, ccy, from, to),
         NEW S, FileRows(f) \subseteq S, NEW k \in 1..Len(mids), \A row \in S : Weight(mids[k], row) \in Int
  PROVE  Weigh(Pays(S, mids[k]), Middle(f)) = Owed(t, n, mids[k], ccy, from, to)
<1>1. PICK m \in Nat : m = Len(mids) /\ m = Len(f.batches)
  BY DEF CutFrom, Trades, IsSequence
<1>2. PICK mid, w : mid = mids[k] /\ w = Pays(S, mids[k])
  OBVIOUS
<1>3. w \in [S -> Int]
  BY <1>2 DEF Pays
<1>4. WellCut(f)
  BY DEF CutFrom
<1>5. /\ Parts(f) \in Seq(Seq(FileRows(f))) /\ Len(Parts(f)) = m
      /\ \A i \in 1..m : Parts(f)[i] = BatchSection(f.batches[i])
  BY <1>1, <1>4, PartsAre
<1>6. PICK s : s = Parts(f)
  OBVIOUS
<1>7. s \in Seq(Seq(S))
  <2>1. \A i \in 1..m : s[i] \in Seq(FileRows(f))
    BY <1>5, <1>6
  <2>2. \A i \in 1..m : s[i] \in Seq(S)
    BY <2>1
  <2> QED BY <1>5, <1>6, <2>2
<1>8. PICK v : v = PartsWeigh(w, s)
  OBVIOUS
<1>9. Len(v) = m /\ \A i \in 1..m : v[i] = Weigh(w, s[i]) /\ v[i] \in Int
  <2>1. Len(v) = m /\ \A i \in 1..m : v[i] = Weigh(w, s[i])
    BY <1>1, <1>5, <1>6, <1>8 DEF PartsWeigh
  <2>2. \A i \in 1..m : s[i] \in Seq(S)
    BY <1>5, <1>6, <1>7
  <2>3. \A i \in 1..m : Weigh(w, s[i]) \in Int
    BY <1>3, <2>2, WeightIsWhole
  <2> QED BY <2>1, <2>3
<1>10. Weigh(w, FlattenSeq(s)) = SumOf(v)
  BY <1>3, <1>7, <1>8, WeighFlat
<1>11. ASSUME NEW i \in 1..m PROVE v[i] = IF mids[i] = mid THEN Paid(f.batches[i].rows) ELSE 0
  <2>1. PICK b : b = f.batches[i]
    OBVIOUS
  <2>2. WellBatched(b) /\ \A j \in 1..Len(b.rows) : b.rows[j].mid = mids[i]
    BY <1>1, <1>4, <2>1 DEF WellCut, CutFrom, BatchHolds
  <2>3. RowsOfBatch(b) \subseteq S
    BY <1>1, <2>1 DEF FileRows
  <2>4. \A row \in S : Weight(mid, row) \in Int
    BY <1>2
  <2>5. Weigh(Pays(S, mid), BatchSection(b)) = IF mids[i] = mid THEN Paid(b.rows) ELSE 0
    BY <2>2, <2>3, <2>4, SectionPays
  <2>6. v[i] = Weigh(Pays(S, mid), BatchSection(b))
    BY <1>2, <1>5, <1>6, <1>9, <2>1
  <2> QED BY <2>1, <2>5, <2>6
<1>12. k \in 1..m /\ \A i \in 1..m : mids[i] = mid <=> i = k
  BY <1>1, <1>2 DEF CutFrom, Trades
<1>13. Paid(f.batches[k].rows) = Owed(t, n, mid, ccy, from, to)
  BY <1>1, <1>2 DEF CutFrom, BatchHolds
<1>14. SumOf(v) = Paid(f.batches[k].rows)
  <2>1. v[k] = Paid(f.batches[k].rows) /\ \A i \in 1..m : i # k => v[i] = 0
    BY <1>11, <1>12
  <2> QED BY <1>1, <1>9, <1>12, <2>1, SumOfOne
<1> QED BY <1>2, <1>6, <1>10, <1>13, <1>14 DEF Middle

\* Whom a text pays, and how much.
Payees(x) == {x[i].mid : i \in {j \in 1..Len(x) : RecordType(x[j]) = "TXER"}}

Paying(x, mid) == [i \in 1..Len(x) |-> IF IsRowOf(x[i], mid) THEN ValueOf(x, i) ELSE 0]

LEMMA PayoutsAre ==
  ASSUME NEW x
  PROVE  /\ DOMAIN PayoutsByMid(x) = Payees(x)
         /\ \A mid \in Payees(x) : PayoutsByMid(x)[mid] = Signed(SumOf(Paying(x, mid)))
<1>1. PayoutsByMid(x) = [mid \in Payees(x) |-> Signed(SumOf(Paying(x, mid)))]
  BY Zenon DEF PayoutsByMid, Payees, Paying
<1> QED BY <1>1

LEMMA WeighsNothing ==
  ASSUME NEW S, NEW w \in [S -> Int], NEW a \in Seq(S), NEW n \in Nat, n = Len(a), \A i \in 1..n : w[a[i]] = 0
  PROVE  Weigh(w, a) = 0
<1>1. PICK v : v = Weights(w, a)
  OBVIOUS
<1>2. Len(v) = n /\ \A i \in 1..n : v[i] = 0
  BY <1>1, WeightsAre
<1>3. SumOf(v) = 0
  BY <1>2, SumOfNone
<1> QED BY <1>1, <1>3 DEF Weigh

LEMMA WeightsAreWhole ==
  ASSUME NEW f, WellCut(f), NEW mid, NEW row \in FileRows(f) \cup {Header, MetaRow(f)}
  PROVE  Weight(mid, row) \in Int
<1>1. CASE row \in FileRows(f) /\ RecordType(row) = "TXER" /\ row.mid = mid
  <2>1. PICK x \in Words : MinorUnits(row.amount) = Read(x)
    BY <1>1, RowsAreGood, TypesApart DEF Good
  <2>2. IsRowOf(row, mid)
    BY <1>1 DEF IsRowOf
  <2>3. Read(x).value = x
    BY DEF Read
  <2>4. Weight(mid, row) = x
    BY <2>1, <2>2, <2>3, Zenon DEF Weight
  <2> QED BY <2>4, WrapAssumption DEF Words
<1>2. CASE RecordType(row) # "TXER" \/ row.mid # mid
  <2>1. Weight(mid, row) = 0
    BY <1>2, OnlyRowsPay
  <2> QED BY <2>1
<1>3. RecordType(Header) # "TXER" /\ RecordType(MetaRow(f)) # "TXER"
  BY HeaderIs, MetaRowIs, TypesApart
<1> QED BY <1>1, <1>2, <1>3

\* The whole text pays what its middle does.
LEMMA TextPays ==
  ASSUME NEW f, WellCut(f), NEW mid
  PROVE  SumOf(Paying(Text(f), mid)) = Weigh(Pays(FileRows(f) \cup {Header, MetaRow(f)}, mid), Middle(f))
<1>1. PICK x, m : x = Text(f) /\ m = Middle(f)
  OBVIOUS
<1>2. PICK k \in Nat : IsText(f, x, m, k)
  BY <1>1, TextIs
<1>3. x = Around(f, m)
  BY <1>1, TextIs
<1>4. PICK S : S = FileRows(f) \cup {Header, MetaRow(f)}
  OBVIOUS
<1>5. PICK w : w = Pays(S, mid)
  OBVIOUS
<1>6. w \in [S -> Int] /\ \A row \in S : w[row] = Weight(mid, row)
  <2>1. \A row \in S : Weight(mid, row) \in Int
    BY <1>4, WeightsAreWhole
  <2> QED BY <1>5, <2>1 DEF Pays
<1>7. Header \in S /\ MetaRow(f) \in S /\ m \in Seq(S)
  <2>1. m \in Seq(FileRows(f)) /\ FileRows(f) \subseteq S
    BY <1>2, <1>4 DEF IsText
  <2> QED BY <1>4, <2>1
<1>8. x \in Seq(S) /\ Len(x) = k + 3
  <2>1. k = Len(m)
    BY <1>2 DEF IsText
  <2> QED BY <1>3, <1>7, <2>1, AroundIs
<1>9. SumOf(Paying(x, mid)) = Weigh(w, x)
  <2>1. PICK n \in Nat : n = k + 3
    BY <1>2
  <2>2. PICK y, z : y = Paying(x, mid) /\ z = Weights(w, x)
    OBVIOUS
  <2>3. Len(y) = n /\ \A i \in 1..n : y[i] = IF IsRowOf(x[i], mid) THEN ValueOf(x, i) ELSE 0
    BY <1>8, <2>1, <2>2 DEF Paying
  <2>4. Len(z) = n /\ \A i \in 1..n : z[i] = w[x[i]]
    BY <1>6, <1>8, <2>1, <2>2, WeightsAre
  <2>5. ASSUME NEW i \in 1..n PROVE y[i] = z[i]
    <3>1. x[i] \in S
      BY <1>8, <2>1
    <3>2. z[i] = Weight(mid, x[i])
      BY <1>6, <2>4, <3>1
    <3>3. ~\E j \in 1..Len(x) : x[j].type = "ST"
      BY <1>2, TextIsGood
    <3>4. ValueOf(x, i) = MinorUnits(x[i].amount).value
      BY <3>3, Zenon DEF ValueOf, Amount
    <3>5. y[i] = Weight(mid, x[i])
      BY <2>3, <3>4, Zenon DEF Weight
    <3> QED BY <3>2, <3>5
  <2>6. SumOf(y) = SumOf(z)
    BY <2>3, <2>4, <2>5, SumOfSame
  <2> QED BY <2>2, <2>6 DEF Weigh
<1>10. w[Header] = 0 /\ w[MetaRow(f)] = 0
  <2>1. RecordType(Header) # "TXER" /\ RecordType(MetaRow(f)) # "TXER"
    BY HeaderIs, MetaRowIs, TypesApart
  <2>2. Weight(mid, Header) = 0 /\ Weight(mid, MetaRow(f)) = 0
    BY <2>1, OnlyRowsPay
  <2> QED BY <1>6, <1>7, <2>2
<1>11. PICK h, e : h = <<Header, MetaRow(f)>> /\ e = <<Header>>
  OBVIOUS
<1>12. /\ h \in Seq(S) /\ Len(h) = 2 /\ h[1] = Header /\ h[2] = MetaRow(f)
       /\ e \in Seq(S) /\ Len(e) = 1 /\ e[1] = Header
  BY <1>7, <1>11
<1>13. Weigh(w, h) = 0
  <2>1. \A i \in 1..2 : i = 1 \/ i = 2
    OBVIOUS
  <2>2. \A i \in 1..2 : w[h[i]] = 0
    BY <1>10, <1>12, <2>1
  <2> QED BY <1>6, <1>12, <2>2, WeighsNothing
<1>14. Weigh(w, e) = 0
  <2>1. \A i \in 1..1 : i = 1
    OBVIOUS
  <2>2. \A i \in 1..1 : w[e[i]] = 0
    BY <1>10, <1>12, <2>1
  <2> QED BY <1>6, <1>12, <2>2, WeighsNothing
<1>15. Weigh(w, h \o m \o e) = Weigh(w, m)
  <2>1. h \o m \in Seq(S)
    BY <1>7, <1>12
  <2>2. Weigh(w, h \o m) = Weigh(w, h) + Weigh(w, m)
    BY <1>6, <1>7, <1>12, WeighJoins
  <2>3. Weigh(w, h \o m \o e) = Weigh(w, h \o m) + Weigh(w, e)
    BY <1>6, <1>12, <2>1, WeighJoins
  <2>4. Weigh(w, m) \in Int
    BY <1>6, <1>7, WeightIsWhole
  <2> QED BY <1>13, <1>14, <2>2, <2>3, <2>4
<1>16. x = h \o m \o e
  BY <1>3, <1>11 DEF Around
<1> QED BY <1>1, <1>4, <1>5, <1>9, <1>15, <1>16

\* A merchant is paid only if it traded.
LEMMA OnlyTradersPaid ==
  ASSUME NEW f, NEW mids, NEW t, NEW n, NEW ccy, NEW from, NEW to, CutFrom(f, mids, t, n, ccy, from, to),
         NEW mid \in Payees(Text(f))
  PROVE  \E i \in 1..Len(mids) : mids[i] = mid
<1>1. PICK x, m : x = Text(f) /\ m = Middle(f)
  OBVIOUS
<1>2. WellCut(f)
  BY DEF CutFrom
<1>3. PICK k \in Nat : IsText(f, x, m, k)
  BY <1>1, <1>2, TextIs
<1>4. /\ Len(x) = k + 3 /\ x[1] = Header /\ x[2] = MetaRow(f) /\ x[k + 3] = Header
      /\ m \in Seq(FileRows(f)) /\ k = Len(m) /\ \A i \in 3..(k + 2) : x[i] = m[i - 2]
  BY <1>3 DEF IsText
<1>5. PICK i \in 1..(k + 3) : RecordType(x[i]) = "TXER" /\ x[i].mid = mid
  BY <1>1, <1>4 DEF Payees
<1>6. i \in 3..(k + 2) /\ i - 2 \in 1..k
  <2>1. i # 1 /\ i # 2 /\ i # k + 3
    BY <1>4, <1>5, HeaderIs, MetaRowIs, TypesApart
  <2> QED BY <1>3, <1>5, <2>1
<1>7. x[i] \in FileRows(f)
  BY <1>4, <1>6
<1>8. PICK a \in 1..Len(f.batches) : \E j \in 1..Len(f.batches[a].rows) : x[i] = TxerRow(f.batches[a].rows[j])
  <2>1. RecordType(Header) # "TXER" /\ \A b : RecordType(BatchRow(b)) # "TXER"
    BY HeaderIs, BatchRowIs, TypesApart
  <2> QED BY <1>5, <1>7, <2>1, RowIsOne
<1>9. PICK j \in 1..Len(f.batches[a].rows) : x[i] = TxerRow(f.batches[a].rows[j])
  BY <1>8
<1>10. a \in 1..Len(mids) /\ f.batches[a].rows[j].mid = mids[a]
  BY <1>8, <1>9 DEF CutFrom, BatchHolds
<1>11. x[i].mid = f.batches[a].rows[j].mid
  BY <1>9, TxerRowIs
<1> QED BY <1>5, <1>10, <1>11

\* And every one that traded is.
LEMMA TradersPaid ==
  ASSUME NEW f, NEW mids, NEW t, NEW n, NEW ccy, NEW from, NEW to, CutFrom(f, mids, t, n, ccy, from, to),
         NEW j \in 1..n, Covered(t[j], ccy, from, to)
  PROVE  t[j].mid \in Payees(Text(f))
<1>1. PICK x, m : x = Text(f) /\ m = Middle(f)
  OBVIOUS
<1>2. WellCut(f)
  BY DEF CutFrom
<1>3. PICK k \in Nat : IsText(f, x, m, k)
  BY <1>1, <1>2, TextIs
<1>4. Len(x) = k + 3 /\ k = Len(m) /\ \A i \in 3..(k + 2) : x[i] = m[i - 2]
  BY <1>3 DEF IsText
<1>5. PICK i \in 1..Len(mids) : mids[i] = t[j].mid
  BY DEF CutFrom, Trades
<1>6. PICK b : b = f.batches[i]
  OBVIOUS
<1>7. IsSequence(b.rows) /\ Len(b.rows) # 0 /\ \A y \in 1..Len(b.rows) : b.rows[y].mid = mids[i]
  <2>1. BatchHolds(b, t, n, mids[i], ccy, from, to)
    BY <1>5, <1>6 DEF CutFrom
  <2>2. \E y \in 1..n : t[y].mid = mids[i] /\ Covered(t[y], ccy, from, to)
    BY <1>5
  <2> QED BY <2>1, <2>2 DEF BatchHolds
<1>8. PICK l \in Nat : l = Len(b.rows) /\ 1 \in 1..l
  BY <1>7 DEF IsSequence
<1>9. PICK s : s = BatchSection(b)
  OBVIOUS
<1>10. PICK row : row = TxerRow(b.rows[1])
  OBVIOUS
<1>11. RecordType(row) = "TXER" /\ row.mid = t[j].mid
  BY <1>5, <1>7, <1>8, <1>10, TxerRowIs
<1>12. Holds(s, row)
  <2>1. Len(s) = l + 3 /\ \A y \in 1..l : s[y + 3] = TxerRow(b.rows[y])
    BY <1>7, <1>8, <1>9, SectionIs
  <2>2. s[1 + 3] = row /\ 1 + 3 \in 1..(l + 3)
    BY <1>8, <1>10, <2>1
  <2> QED BY <2>1, <2>2 DEF Holds
<1>13. Holds(m, row)
  <2>1. PICK c \in Nat : c = Len(f.batches) /\ c = Len(mids)
    BY DEF CutFrom, WellCut, IsSequence
  <2>2. Parts(f) \in Seq(Seq(FileRows(f))) /\ Len(Parts(f)) = c /\ \A a \in 1..c : Parts(f)[a] = BatchSection(f.batches[a])
    BY <1>2, <2>1, PartsAre
  <2>3. i \in 1..Len(Parts(f)) /\ Holds(Parts(f)[i], row)
    BY <1>5, <1>6, <1>9, <1>12, <2>1, <2>2
  <2>4. Holds(FlattenSeq(Parts(f)), row)
    BY <2>2, <2>3, FlattenHolds
  <2> QED BY <1>1, <2>4 DEF Middle
<1>14. PICK y \in 1..k : m[y] = row
  BY <1>4, <1>13 DEF Holds
<1>15. y + 2 \in 3..(k + 2) /\ y + 2 \in 1..(k + 3) /\ (y + 2) - 2 = y
  BY <1>3, <1>14
<1>16. x[y + 2] = row
  BY <1>4, <1>14, <1>15
<1> QED BY <1>1, <1>4, <1>11, <1>15, <1>16 DEF Payees

\* A text tells what was acquired up to the nth transaction.
TextTells(x, t, n, ccy, from, to) ==
  /\ \A mid \in DOMAIN PayoutsByMid(x) : PayoutsByMid(x)[mid] = Owed(t, n, mid, ccy, from, to)
  /\ \A j \in 1..n : Covered(t[j], ccy, from, to) => t[j].mid \in DOMAIN PayoutsByMid(x)

LEMMA CutTells ==
  ASSUME NEW f, NEW mids, NEW t, NEW n, NEW ccy, NEW from, NEW to, CutFrom(f, mids, t, n, ccy, from, to),
         \A i \in 1..Len(mids) : Owed(t, n, mids[i], ccy, from, to) \in Words
  PROVE  TextTells(Text(f), t, n, ccy, from, to)
<1>1. PICK x : x = Text(f)
  OBVIOUS
<1>2. WellCut(f)
  BY DEF CutFrom
<1>3. DOMAIN PayoutsByMid(x) = Payees(x)
      /\ \A mid \in Payees(x) : PayoutsByMid(x)[mid] = Signed(SumOf(Paying(x, mid)))
  BY PayoutsAre
<1>4. ASSUME NEW mid \in Payees(x) PROVE Signed(SumOf(Paying(x, mid))) = Owed(t, n, mid, ccy, from, to)
  <2>1. PICK k \in 1..Len(mids) : mids[k] = mid
    BY <1>1, <1>4, OnlyTradersPaid
  <2>2. PICK S : S = FileRows(f) \cup {Header, MetaRow(f)}
    OBVIOUS
  <2>3. SumOf(Paying(x, mid)) = Weigh(Pays(S, mid), Middle(f))
    BY <1>1, <1>2, <2>2, TextPays
  <2>4. FileRows(f) \subseteq S /\ \A row \in S : Weight(mids[k], row) \in Int
    BY <1>2, <2>2, WeightsAreWhole
  <2>5. Weigh(Pays(S, mids[k]), Middle(f)) = Owed(t, n, mids[k], ccy, from, to)
    BY <2>1, <2>4, MiddlePays, SMTT(40)
  <2>6. Owed(t, n, mid, ccy, from, to) \in Words
    BY <2>1
  <2>7. SumOf(Paying(x, mid)) = Owed(t, n, mid, ccy, from, to)
    BY <2>1, <2>3, <2>5
  <2>8. Owed(t, n, mid, ccy, from, to) \in Int
    BY <2>6, WrapAssumption DEF Words
  <2> QED BY <2>6, <2>7, <2>8, SignedIs
<1>5. \A j \in 1..n : Covered(t[j], ccy, from, to) => t[j].mid \in Payees(x)
  BY <1>1, TradersPaid
<1> QED BY <1>1, <1>3, <1>4, <1>5 DEF TextTells
-----------------------------------------------------------------------------
(***************************************************************************)
(* The money.  A run cuts one file for a currency, so what it wires for    *)
(* that currency is what that one file says; what it has published stays   *)
(* published; and what it has wired it does not wire again.                *)
(***************************************************************************)

AreTransactions(s) == IsSequence(s) /\ \A i \in 1..Len(s) : IsTransaction(s[i])

\* The names the platform finds in both directories.
Names == DOMAIN download \cap DOMAIN wlnordic

Sound(f, slot) ==
  f.ccy # "" => f.amount \in Words /\ MetaAmount(f.text) = f.amount /\ f.name.slot = slot

FilesSound(r) ==
  /\ IsSequence(r.files)
  /\ \A k \in 1..Len(r.files) : Sound(r.files[k], r.slot)
  /\ \A j, k \in 1..Len(r.files) : r.files[j].ccy = r.files[k].ccy /\ r.files[j].ccy # "" => j = k

Placed(r, names) ==
  /\ IsFiniteSet(r.published) /\ IsFiniteSet(r.failed)
  /\ \A n \in r.published : n \in 1..Len(r.files) /\ r.files[n].name \in names

\* What a run that cuts has still to cut.
Cutting(r) ==
  /\ IsSequence(r.ccys)
  /\ \A i, j \in 1..Len(r.ccys) : r.ccys[i] = r.ccys[j] => i = j
  /\ \A i \in 1..Len(r.ccys), k \in 1..Len(r.files) : r.ccys[i] # r.files[k].ccy

Early(r) ==
  /\ r.step = "currencies" => Len(r.files) = 0
  /\ r.step = "cut" => Cutting(r)
  /\ r.step \in {"currencies", "cut"} => r.published = {}

RunMoney(r, names) == FilesSound(r) /\ Placed(r, names) /\ Early(r)

\* A credit that a run accounts for.
Backed(c, r) ==
  /\ r.slot = "ER" /\ r.step \in {"publish", "done"}
  /\ c.ccy # "" /\ c.ccy \in r.wired
  /\ \E n \in r.published : r.files[n].ccy = c.ccy /\ r.files[n].amount = c.amount

CreditsBacked ==
  /\ IsSequence(credits)
  /\ \A a \in 1..Len(credits) :
       credits[a].run \in 1..Len(runs) /\ Backed(credits[a], runs[credits[a].run])
  /\ \A a, b \in 1..Len(credits) :
       credits[a].run = credits[b].run /\ credits[a].ccy = credits[b].ccy => a = b

RunsMoney == RunsShape /\ \A i \in 1..Len(runs) : RunMoney(runs[i], Names)

MoneyInv == AreTransactions(txns) /\ AreTransactions(batch) /\ RunsMoney /\ CreditsBacked

LEMMA FilesAre ==
  ASSUME NEW r, FilesSound(r)
  PROVE  Len(r.files) \in Nat /\ \E S : r.files \in Seq(S)
<1> PICK S : r.files \in Seq(S)
  BY DEF FilesSound, IsSequence
<1> QED OBVIOUS

LEMMA StillPlaced ==
  ASSUME NEW r, NEW A, NEW B, A \subseteq B, RunMoney(r, A) PROVE RunMoney(r, B)
<1> QED BY DEF RunMoney, Placed

\* A run goes a step on that backs what it backed.
LEMMA RunTurns ==
  ASSUME MoneyInv, NEW i \in 1..Len(runs), NEW q, Goes(i, q), IsRun(q), Alike(q, runs[i]),
         Names \subseteq Names', RunMoney(q, Names'), \A c : Backed(c, runs[i]) => Backed(c, q),
         UNCHANGED <<txns, batch, credits>>
  PROVE  MoneyInv'
<1>1. RunsShape'
  BY RunGoesOn DEF MoneyInv, RunsMoney
<1> PICK S : runs \in Seq(S)
  BY DEF MoneyInv, RunsMoney, RunsShape
<1> PICK n \in Nat : n = Len(runs)
  OBVIOUS
<1>2. Len(runs') = n /\ \A j \in 1..n : runs'[j] = IF j = i THEN q ELSE runs[j]
  <2>1. runs' = [runs EXCEPT ![i] = q] /\ DOMAIN runs = 1..n
    BY DEF Goes
  <2>2. runs' \in Seq(S \cup {q}) /\ Len(runs') = n
    BY <2>1
  <2> QED BY <2>1, <2>2
<1>3. \A j \in 1..n : RunMoney(runs[j], Names)
  BY DEF MoneyInv, RunsMoney
<1>4. \A j \in 1..n : RunMoney(runs[j], Names')
  BY <1>3, StillPlaced
<1>5. \A j \in 1..n : RunMoney(runs'[j], Names')
  BY <1>2, <1>4
<1>6. RunsMoney'
  BY <1>1, <1>2, <1>5 DEF RunsMoney
<1>7. CreditsBacked'
  <2>1. \A a \in 1..Len(credits) : credits[a].run \in 1..n /\ Backed(credits[a], runs[credits[a].run])
    BY DEF MoneyInv, CreditsBacked
  <2>2. \A a \in 1..Len(credits) : credits[a].run \in 1..n /\ Backed(credits[a], runs'[credits[a].run])
    BY <1>2, <2>1
  <2>3. CreditsBacked
    BY DEF MoneyInv
  <2> QED BY <1>2, <2>2, <2>3 DEF CreditsBacked
<1> QED BY <1>6, <1>7 DEF MoneyInv, AreTransactions

\* A new run has nothing yet.
LEMMA NewRunMoney == ASSUME NEW slot, NEW date, NEW names PROVE RunMoney(NewRun(slot, date), names)
<1>1. PICK r : r = NewRun(slot, date)
  OBVIOUS
<1>2. r.files = <<>> /\ r.published = {} /\ r.failed = {} /\ r.step = "currencies"
  BY <1>1 DEF NewRun
<1>3. IsFiniteSet({})
  BY FS_EmptySet
<1>4. <<>> \in Seq({}) /\ Len(<<>>) = 0
  OBVIOUS
<1>5. FilesSound(r)
  BY <1>2, <1>4 DEF FilesSound, IsSequence
<1>6. Placed(r, names)
  BY <1>2, <1>3 DEF Placed
<1>7. Early(r)
  BY <1>2, <1>4 DEF Early
<1> QED BY <1>1, <1>5, <1>6, <1>7 DEF RunMoney

LEMMA StartKeepsMoney ==
  ASSUME MoneyInv, NEW slot, NEW date, StartRun(slot, date), UNCHANGED <<txns, batch, disks, credits>>
  PROVE  MoneyInv'
<1>1. PICK r : r = NewRun(slot, date)
  OBVIOUS
<1>2. IsRun(r) /\ RunMoney(r, Names)
  BY <1>1, NewRunIs, NewRunMoney
<1>3. runs' = Append(runs, r)
  BY <1>1 DEF StartRun
<1>4. RunsShape'
  BY <1>2, <1>3, RunAdded DEF MoneyInv, RunsMoney
<1> PICK S : runs \in Seq(S)
  BY DEF MoneyInv, RunsMoney, RunsShape
<1> PICK n \in Nat : n = Len(runs)
  OBVIOUS
<1>5. Len(runs') = n + 1 /\ runs'[n + 1] = r /\ \A j \in 1..n : runs'[j] = runs[j]
  <2>1. runs \in Seq(S \cup {r})
    OBVIOUS
  <2> QED BY <1>3, <2>1
<1>6. \A j \in 1..(n + 1) : j = n + 1 \/ j \in 1..n
  OBVIOUS
<1>7. Names' = Names
  BY DEF Names, disks
<1>8. \A j \in 1..n : RunMoney(runs[j], Names)
  BY DEF MoneyInv, RunsMoney
<1>9. \A j \in 1..(n + 1) : RunMoney(runs'[j], Names)
  BY <1>2, <1>5, <1>6, <1>8
<1>10. RunsMoney'
  BY <1>4, <1>5, <1>7, <1>9 DEF RunsMoney
<1>11. CreditsBacked'
  <2>1. \A a \in 1..Len(credits) : credits[a].run \in 1..n /\ Backed(credits[a], runs[credits[a].run])
    BY DEF MoneyInv, CreditsBacked
  <2>2. \A a \in 1..Len(credits) : credits[a].run \in 1..(n + 1) /\ Backed(credits[a], runs'[credits[a].run])
    BY <1>5, <2>1
  <2>3. CreditsBacked
    BY DEF MoneyInv
  <2> QED BY <1>5, <2>2, <2>3 DEF CreditsBacked
<1> QED BY <1>10, <1>11 DEF MoneyInv, AreTransactions

\* Which currencies, or the canned files, which this service does not read.
LEMMA CurrenciesAre ==
  ASSUME AreTransactions(txns), NEW date
  PROVE  /\ IsSequence(CurrenciesOn(date))
         /\ \A i, j \in 1..Len(CurrenciesOn(date)) : CurrenciesOn(date)[i] = CurrenciesOn(date)[j] => i = j
         /\ \A j \in 1..Len(txns) : txns[j].date = date =>
              \E i \in 1..Len(CurrenciesOn(date)) : CurrenciesOn(date)[i] = txns[j].ccy
<1>1. PICK n \in Nat : n = Len(txns)
  BY DEF AreTransactions, IsSequence
<1>2. PICK J : J = {j \in 1..n : txns[j].date = date}
  OBVIOUS
<1>3. PICK C : C = {txns[i].ccy : i \in J}
  OBVIOUS
<1>4. IsFiniteSet(J)
  <2>1. IsFiniteSet(1..n)
    BY <1>1, FS_Interval
  <2> QED BY <1>2, <2>1, FS_Subset
<1>5. IsFiniteSet(C)
  <2>1. PICK g : g = [i \in J |-> txns[i].ccy]
    OBVIOUS
  <2>2. g \in Surjection(J, C)
    BY <1>3, <2>1 DEF Surjection
  <2> QED BY <1>4, <2>2, FS_Surjection
<1>6. PICK s : s = CurrenciesOn(date) /\ s = SetToSeq(C)
  BY <1>1, <1>2, <1>3, Zenon DEF CurrenciesOn
<1>7. Lists(s, C)
  BY <1>5, <1>6, SeqOfSet
<1>8. IsSequence(s) /\ (\A i, j \in 1..Len(s) : s[i] = s[j] => i = j) /\ \A x \in C : \E i \in 1..Len(s) : s[i] = x
  BY <1>7 DEF Lists, IsSequence
<1>9. \A j \in 1..Len(txns) : txns[j].date = date => txns[j].ccy \in C
  BY <1>1, <1>2, <1>3
<1> QED BY <1>6, <1>8, <1>9

LEMMA FixturesAre ==
  ASSUME NEW slot
  PROVE  /\ IsSequence(CutFixtures(slot))
         /\ \A k \in 1..Len(CutFixtures(slot)) : CutFixtures(slot)[k].ccy = ""
<1>1. PICK G : G = {g \in Fixtures : g.name.slot = slot}
  OBVIOUS
<1>2. PICK C : C = {CutFile(f.name, f.text, "", 0) : f \in G}
  OBVIOUS
<1>3. IsFiniteSet(G)
  BY <1>1, AcquirerAssumption, FS_Subset
<1>4. IsFiniteSet(C)
  <2>1. PICK g : g = [f \in G |-> CutFile(f.name, f.text, "", 0)]
    OBVIOUS
  <2>2. g \in Surjection(G, C)
    BY <1>2, <2>1 DEF Surjection
  <2> QED BY <1>3, <2>2, FS_Surjection
<1>5. CutFixtures(slot) = SetToSeq(C)
  BY <1>1, <1>2, Zenon DEF CutFixtures
<1>6. SetToSeq(C) \in Seq(C)
  BY <1>4, SeqOfSet DEF Lists
<1>7. \A c \in C : c.ccy = ""
  <2>1. ASSUME NEW f PROVE CutFile(f.name, f.text, "", 0).ccy = ""
    BY DEF CutFile
  <2> QED BY <1>2, <2>1
<1>8. \A k \in 1..Len(SetToSeq(C)) : SetToSeq(C)[k] \in C
  BY <1>6
<1> QED BY <1>5, <1>6, <1>7, <1>8 DEF IsSequence

LEMMA ReadKeepsMoney == ASSUME MoneyInv, NEW i \in 1..MaxRuns, ReadCurrencies(i) PROVE MoneyInv'
<1>1. i \in 1..Len(runs) /\ runs[i].step = "currencies"
  BY DEF ReadCurrencies, At
<1>2. PICK r : r = runs[i]
  OBVIOUS
<1>3. IsRun(r) /\ RunMoney(r, Names)
  BY <1>1, <1>2 DEF MoneyInv, RunsMoney, RunsShape
<1>4. UNCHANGED <<txns, batch, credits>> /\ Names' = Names
  BY DEF ReadCurrencies, Names, disks
<1>5. \A c, q : ~Backed(c, r)
  BY <1>1, <1>2 DEF Backed
<1>6. r.published = {} /\ IsFiniteSet(r.failed) /\ Len(r.files) = 0
  BY <1>1, <1>2, <1>3 DEF RunMoney, Early, Placed
<1>7. IsFiniteSet({})
  BY FS_EmptySet
<1>8. CASE source = "fixture"
  <2>1. PICK fs : fs = CutFixtures(r.slot)
    OBVIOUS
  <2>2. PICK q : q = [r EXCEPT !.files = fs, !.step = "publish"]
    OBVIOUS
  <2>3. Goes(i, q)
    BY <1>2, <1>8, <2>1, <2>2 DEF ReadCurrencies
  <2>4. IsRun(q) /\ Alike(q, r) /\ q.files = fs /\ q.step = "publish" /\ q.published = {} /\ q.failed = r.failed
    BY <1>3, <1>6, <2>2 DEF IsRun, Alike
  <2>5. IsSequence(fs) /\ \A k \in 1..Len(fs) : fs[k].ccy = ""
    BY <2>1, FixturesAre
  <2>6. FilesSound(q)
    BY <2>4, <2>5 DEF FilesSound, Sound
  <2>7. Placed(q, Names)
    BY <1>6, <1>7, <2>4 DEF Placed
  <2>8. Early(q)
    BY <2>4 DEF Early
  <2>9. RunMoney(q, Names')
    BY <1>4, <2>6, <2>7, <2>8 DEF RunMoney
  <2> QED BY <1>1, <1>2, <1>4, <1>5, <2>3, <2>4, <2>9, RunTurns
<1>9. CASE source # "fixture"
  <2>1. PICK cs : cs = CurrenciesOn(r.date)
    OBVIOUS
  <2>2. PICK q : q = [r EXCEPT !.ccys = cs, !.step = "cut"]
    OBVIOUS
  <2>3. Goes(i, q)
    BY <1>2, <1>9, <2>1, <2>2 DEF ReadCurrencies
  <2>4. IsRun(q) /\ Alike(q, r) /\ q.slot = r.slot /\ q.files = r.files /\ q.step = "cut" /\ q.ccys = cs
        /\ q.published = {} /\ q.failed = r.failed
    BY <1>3, <1>6, <2>2 DEF IsRun, Alike
  <2>5. IsSequence(cs) /\ \A k, j \in 1..Len(cs) : cs[k] = cs[j] => k = j
    BY <2>1, CurrenciesAre DEF MoneyInv
  <2>6. FilesSound(q)
    BY <1>3, <2>4 DEF RunMoney, FilesSound
  <2>7. Placed(q, Names)
    BY <1>6, <1>7, <2>4 DEF Placed
  <2>8. Early(q)
    <3>1. Cutting(q)
      BY <1>6, <2>4, <2>5 DEF Cutting
    <3> QED BY <2>4, <3>1 DEF Early
  <2>9. RunMoney(q, Names')
    BY <1>4, <2>6, <2>7, <2>8 DEF RunMoney
  <2> QED BY <1>1, <1>2, <1>4, <1>5, <2>3, <2>4, <2>9, RunTurns
<1> QED BY <1>8, <1>9

\* A run that goes on cutting.
LEMMA CutGoesOn ==
  ASSUME NEW r, NEW names, IsRun(r), RunMoney(r, names), r.step = "cut", Len(r.ccys) # 0,
         NEW cs, cs = Tail(r.ccys), NEW fs, NEW f,
         fs = r.files \/ (fs = Append(r.files, f) /\ f.ccy = Head(r.ccys) /\ Sound(f, r.slot)),
         NEW q, IsRun(q), q.slot = r.slot, q.step = "cut", q.ccys = cs, q.files = fs,
         q.published = r.published, q.failed = r.failed
  PROVE  RunMoney(q, names)
<1>1. Cutting(r) /\ r.published = {} /\ FilesSound(r)
  BY DEF RunMoney, Early
<1>2. PICK C : r.ccys \in Seq(C)
  BY <1>1 DEF Cutting, IsSequence
<1>3. PICK m \in Nat : m = Len(r.ccys)
  BY <1>2
<1>4. cs \in Seq(C) /\ Len(cs) = m - 1 /\ \A i \in 1..(m - 1) : cs[i] = r.ccys[i + 1]
  BY <1>2, <1>3
<1>5. m >= 1 /\ \A i \in 1..(m - 1) : i + 1 \in 1..m /\ i + 1 # 1
  BY <1>3
<1>6. Head(r.ccys) = r.ccys[1] /\ 1 \in 1..m
  BY <1>2, <1>3, <1>5
<1>7. \A i, j \in 1..(m - 1) : cs[i] = cs[j] => i = j
  <2> SUFFICES ASSUME NEW i \in 1..(m - 1), NEW j \in 1..(m - 1), cs[i] = cs[j] PROVE i = j
    OBVIOUS
  <2>1. r.ccys[i + 1] = r.ccys[j + 1] /\ i + 1 \in 1..m /\ j + 1 \in 1..m
    BY <1>4, <1>5
  <2>2. i + 1 = j + 1
    BY <1>1, <1>3, <2>1 DEF Cutting
  <2> QED BY <1>3, <2>2
<1>8. \A i \in 1..(m - 1) : cs[i] # Head(r.ccys)
  BY <1>1, <1>3, <1>4, <1>5, <1>6 DEF Cutting
<1>9. PICK S : r.files \in Seq(S)
  BY <1>1 DEF FilesSound, IsSequence
<1>10. PICK n \in Nat : n = Len(r.files)
  BY <1>9
<1>11. \A i \in 1..m, k \in 1..n : r.ccys[i] # r.files[k].ccy
  BY <1>1, <1>3, <1>10 DEF Cutting
<1>12. CASE fs = r.files
  <2>1. FilesSound(q)
    BY <1>1, <1>12 DEF FilesSound
  <2>2. Cutting(q)
    <3>1. \A i \in 1..(m - 1), k \in 1..n : cs[i] # fs[k].ccy
      BY <1>4, <1>5, <1>11, <1>12
    <3> QED BY <1>4, <1>7, <1>10, <1>12, <3>1 DEF Cutting, IsSequence
  <2>3. Placed(q, names)
    BY <1>1, <1>12 DEF Placed, RunMoney
  <2> QED BY <1>1, <2>1, <2>2, <2>3 DEF RunMoney, Early
<1>13. CASE fs = Append(r.files, f) /\ f.ccy = Head(r.ccys) /\ Sound(f, r.slot)
  <2>0. r.files \in Seq(S \cup {f})
    BY <1>9
  <2>1. fs \in Seq(S \cup {f}) /\ Len(fs) = n + 1 /\ fs[n + 1] = f /\ \A k \in 1..n : fs[k] = r.files[k]
    BY <1>10, <1>13, <2>0
  <2>2. \A k \in 1..(n + 1) : k = n + 1 \/ k \in 1..n
    BY <1>10
  <2>3. \A k \in 1..n : fs[k].ccy # f.ccy
    BY <1>6, <1>11, <1>13, <2>1
  <2>4. FilesSound(q)
    <3>1. \A k \in 1..(n + 1) : Sound(fs[k], r.slot)
      BY <1>1, <1>10, <1>13, <2>1, <2>2 DEF FilesSound
    <3>2. \A j, k \in 1..(n + 1) : fs[j].ccy = fs[k].ccy /\ fs[j].ccy # "" => j = k
      <4> SUFFICES ASSUME NEW j \in 1..(n + 1), NEW k \in 1..(n + 1), fs[j].ccy = fs[k].ccy, fs[j].ccy # ""
                   PROVE  j = k
        OBVIOUS
      <4>1. CASE j \in 1..n /\ k \in 1..n
        BY <1>1, <1>10, <2>1, <4>1 DEF FilesSound
      <4>2. CASE j = n + 1 \/ k = n + 1
        BY <2>1, <2>2, <2>3, <4>2
      <4> QED BY <2>2, <4>1, <4>2
    <3> QED BY <2>1, <3>1, <3>2 DEF FilesSound, IsSequence
  <2>5. Cutting(q)
    <3>1. \A i \in 1..(m - 1), k \in 1..(n + 1) : cs[i] # fs[k].ccy
      BY <1>4, <1>5, <1>8, <1>11, <1>13, <2>1, <2>2
    <3> QED BY <1>4, <1>7, <2>1, <3>1 DEF Cutting, IsSequence
  <2>6. Placed(q, names)
    BY <1>1 DEF Placed, RunMoney
  <2> QED BY <1>1, <2>4, <2>5, <2>6 DEF RunMoney, Early
<1> QED BY <1>12, <1>13

LEMMA CutKeepsMoney == ASSUME MoneyInv, NEW i \in 1..MaxRuns, CutOne(i) PROVE MoneyInv'
<1>1. i \in 1..Len(runs) /\ runs[i].step = "cut"
  BY DEF CutOne, At
<1>2. PICK r : r = runs[i]
  OBVIOUS
<1>3. IsRun(r) /\ RunMoney(r, Names)
  BY <1>1, <1>2 DEF MoneyInv, RunsMoney, RunsShape
<1>4. UNCHANGED <<txns, batch, credits>> /\ Names' = Names
  BY DEF CutOne, Names, disks
<1>5. \A c : ~Backed(c, r)
  BY <1>1, <1>2 DEF Backed
<1>6. PICK f : f = File(txns, Head(r.ccys), r.date, r.date)
  OBVIOUS
<1>7. PICK g : g = CutFile([slot |-> r.slot, ccy |-> f.ccy, at |-> r.at], Text(f), f.ccy, f.amount)
  OBVIOUS
<1>8. \E q : /\ Goes(i, q)
             /\ \/ r.ccys = <<>> /\ q = [r EXCEPT !.step = "publish"]
                \/ r.ccys # <<>> /\ q = [r EXCEPT !.ccys = Tail(r.ccys)]
                \/ r.ccys # <<>> /\ q = [r EXCEPT !.ccys = Tail(r.ccys), !.files = Append(r.files, g)]
  BY <1>2, <1>3, <1>6, <1>7 DEF CutOne, IsRun
<1>9. PICK q : /\ Goes(i, q)
               /\ \/ r.ccys = <<>> /\ q = [r EXCEPT !.step = "publish"]
                  \/ r.ccys # <<>> /\ q = [r EXCEPT !.ccys = Tail(r.ccys)]
                  \/ r.ccys # <<>> /\ q = [r EXCEPT !.ccys = Tail(r.ccys), !.files = Append(r.files, g)]
  BY <1>8
<1>10. IsRun(q) /\ Alike(q, r) /\ q.slot = r.slot
  BY <1>3, <1>9 DEF IsRun, Alike
<1>11. CASE q = [r EXCEPT !.step = "publish"]
  <2>1. q.files = r.files /\ q.published = r.published /\ q.failed = r.failed /\ q.step = "publish"
    BY <1>3, <1>11 DEF IsRun
  <2>2. RunMoney(q, Names')
    BY <1>3, <1>4, <1>10, <2>1 DEF RunMoney, FilesSound, Placed, Early
  <2> QED BY <1>1, <1>2, <1>4, <1>5, <1>9, <1>10, <2>2, RunTurns
<1>12. Len(r.ccys) \in Nat /\ (r.ccys # <<>> => Len(r.ccys) # 0)
  <2>1. IsSequence(r.ccys)
    BY <1>1, <1>2, <1>3 DEF RunMoney, Early, Cutting
  <2> QED BY <2>1 DEF IsSequence
<1>13. CASE r.ccys # <<>> /\ q = [r EXCEPT !.ccys = Tail(r.ccys)]
  <2>1. q.ccys = Tail(r.ccys) /\ q.files = r.files /\ q.published = r.published /\ q.failed = r.failed /\ q.step = "cut"
    BY <1>1, <1>2, <1>3, <1>13 DEF IsRun
  <2>2. RunMoney(q, Names)
    BY <1>1, <1>2, <1>3, <1>10, <1>12, <1>13, <2>1, CutGoesOn
  <2> QED BY <1>1, <1>2, <1>4, <1>5, <1>9, <1>10, <2>2, RunTurns
<1>14. CASE r.ccys # <<>> /\ q = [r EXCEPT !.ccys = Tail(r.ccys), !.files = Append(r.files, g)]
  <2>1. q.ccys = Tail(r.ccys) /\ q.files = Append(r.files, g) /\ q.published = r.published /\ q.failed = r.failed
        /\ q.step = "cut"
    BY <1>1, <1>2, <1>3, <1>14 DEF IsRun
  <2>2. WellCut(f) /\ f.ccy = Head(r.ccys)
    <3>1. Len(txns) \in Nat /\ \A j \in 1..Len(txns) : IsTransaction(txns[j])
      BY DEF MoneyInv, AreTransactions, IsSequence
    <3>2. PICK n, mids : n = Len(txns) /\ CutFrom(f, mids, txns, n, Head(r.ccys), r.date, r.date)
      BY <1>6, <3>1, FileIs
    <3> QED BY <3>2 DEF CutFrom
  <2>3. g.ccy = Head(r.ccys) /\ g.text = Text(f) /\ g.amount = f.amount /\ g.name.slot = r.slot
    BY <1>7, <2>2 DEF CutFile
  <2>4. MetaAmount(Text(f)) = f.amount /\ f.amount \in Words
    BY <2>2, FiguresSurvive DEF WellCut
  <2>5. Sound(g, r.slot)
    BY <2>3, <2>4 DEF Sound
  <2>6. RunMoney(q, Names)
    BY <1>1, <1>2, <1>3, <1>10, <1>12, <1>14, <2>1, <2>3, <2>5, CutGoesOn
  <2> QED BY <1>1, <1>2, <1>4, <1>5, <1>9, <1>10, <2>6, RunTurns
<1> QED BY <1>9, <1>11, <1>13, <1>14

LEMMA NextFileIs ==
  ASSUME NEW r, NEW names, Placed(r, names) PROVE NextFile(r) \in Nat \ {0}
<1>1. Cardinality(r.published) \in Nat /\ Cardinality(r.failed) \in Nat
  BY FS_CardinalityType DEF Placed
<1> QED BY <1>1 DEF NextFile

LEMMA WrittenHas ==
  ASSUME NEW dir, NEW f PROVE DOMAIN Written(dir, f) = DOMAIN dir \cup {f.name}
<1> QED BY DEF Written

LEMMA PublishKeepsMoney == ASSUME MoneyInv, NEW i \in 1..MaxRuns, PublishOne(i) PROVE MoneyInv'
<1>1. i \in 1..Len(runs) /\ runs[i].step = "publish"
  BY DEF PublishOne, At
<1>2. PICK r : r = runs[i]
  OBVIOUS
<1>3. IsRun(r) /\ RunMoney(r, Names)
  BY <1>1, <1>2 DEF MoneyInv, RunsMoney, RunsShape
<1>4. UNCHANGED <<txns, batch, credits>>
  BY DEF PublishOne
<1>5. PICK n : n = NextFile(r)
  OBVIOUS
<1>6. n \in 1..Len(r.files)
  <2>1. n \in Nat \ {0}
    BY <1>3, <1>5, NextFileIs DEF RunMoney
  <2>2. Len(r.files) \in Nat
    BY <1>3, FilesAre DEF RunMoney
  <2>3. n <= Len(r.files)
    BY <1>2, <1>5 DEF PublishOne
  <2> QED BY <2>1, <2>2, <2>3
<1>7. PICK f : f = r.files[n]
  OBVIOUS
<1>8. CASE /\ download' = Written(download, f) /\ wlnordic' = Written(wlnordic, f)
           /\ Goes(i, [r EXCEPT !.published = r.published \cup {n}])
  <2>1. PICK q : q = [r EXCEPT !.published = r.published \cup {n}]
    OBVIOUS
  <2>2. IsRun(q) /\ Alike(q, r) /\ q.slot = r.slot /\ q.files = r.files /\ q.step = r.step
        /\ q.published = r.published \cup {n} /\ q.failed = r.failed /\ q.wired = r.wired
    BY <1>3, <2>1 DEF IsRun, Alike
  <2>3. Names \subseteq Names' /\ f.name \in Names'
    BY <1>8, WrittenHas DEF Names
  <2>4. Placed(q, Names')
    <3>1. IsFiniteSet(r.published \cup {n})
      BY <1>3, FS_AddElement DEF RunMoney, Placed
    <3> QED BY <1>3, <1>6, <1>7, <2>2, <2>3, <3>1 DEF RunMoney, Placed
  <2>5. FilesSound(q)
    BY <1>3, <2>2 DEF RunMoney, FilesSound
  <2>6. Early(q)
    BY <1>1, <1>2, <2>2 DEF Early
  <2>7. \A c : Backed(c, r) => Backed(c, q)
    BY <2>2 DEF Backed
  <2>8. RunMoney(q, Names')
    BY <2>4, <2>5, <2>6 DEF RunMoney
  <2> QED BY <1>1, <1>2, <1>4, <1>8, <2>1, <2>2, <2>3, <2>7, <2>8, RunTurns
<1>9. CASE /\ download' \in {download, Written(download, f)} /\ wlnordic' = wlnordic
           /\ Goes(i, [r EXCEPT !.failed = r.failed \cup {n}])
  <2>1. PICK q : q = [r EXCEPT !.failed = r.failed \cup {n}]
    OBVIOUS
  <2>2. IsRun(q) /\ Alike(q, r) /\ q.slot = r.slot /\ q.files = r.files /\ q.step = r.step
        /\ q.published = r.published /\ q.failed = r.failed \cup {n} /\ q.wired = r.wired
    BY <1>3, <2>1 DEF IsRun, Alike
  <2>3. Names \subseteq Names'
    BY <1>9, WrittenHas DEF Names
  <2>4. Placed(q, Names')
    <3>1. IsFiniteSet(r.failed \cup {n})
      BY <1>3, FS_AddElement DEF RunMoney, Placed
    <3> QED BY <1>3, <2>2, <2>3, <3>1 DEF RunMoney, Placed
  <2>5. FilesSound(q)
    BY <1>3, <2>2 DEF RunMoney, FilesSound
  <2>6. Early(q)
    BY <1>1, <1>2, <2>2 DEF Early
  <2>7. \A c : Backed(c, r) => Backed(c, q)
    BY <2>2 DEF Backed
  <2>8. RunMoney(q, Names')
    BY <2>4, <2>5, <2>6 DEF RunMoney
  <2> QED BY <1>1, <1>2, <1>4, <1>9, <2>1, <2>2, <2>3, <2>7, <2>8, RunTurns
<1>10. (/\ download' = Written(download, f) /\ wlnordic' = Written(wlnordic, f)
        /\ Goes(i, [r EXCEPT !.published = r.published \cup {n}]))
       \/ (/\ download' \in {download, Written(download, f)} /\ wlnordic' = wlnordic
           /\ Goes(i, [r EXCEPT !.failed = r.failed \cup {n}]))
  BY <1>2, <1>3, <1>5, <1>7 DEF PublishOne, IsRun
<1> QED BY <1>8, <1>9, <1>10

\* What a run wires for a currency is what its one file of it says.
LEMMA TotalOfOne ==
  ASSUME NEW r, NEW ccy, NEW n \in Nat, n = Len(r.files),
         \A k \in 1..n : r.files[k].ccy = ccy => r.files[k].amount \in Words,
         \A j, k \in 1..n : r.files[j].ccy = ccy /\ r.files[k].ccy = ccy => j = k,
         Total(r, ccy) > 0
  PROVE  \E k \in 1..n : k \in r.published /\ r.files[k].ccy = ccy /\ r.files[k].amount = Total(r, ccy)
<1>1. PICK v : v = [k \in 1..n |-> IF k \in r.published /\ r.files[k].ccy = ccy THEN r.files[k].amount ELSE 0]
  OBVIOUS
<1>2. Total(r, ccy) = Signed(SumOf(v))
  <2>1. PICK w : w = [k \in 1..Len(r.files) |->
                       IF k \in r.published /\ r.files[k].ccy = ccy THEN r.files[k].amount ELSE 0]
    OBVIOUS
  <2>2. Total(r, ccy) = Signed(SumOf(w))
    BY <2>1, Zenon DEF Total, AmountsIn
  <2>3. v = w
    BY <1>1, <2>1
  <2> QED BY <2>2, <2>3
<1>3. Len(v) = n
  BY <1>1
<1>4. Signed(0) = 0
  <2>1. 0 \in Words
    BY WrapAssumption DEF Words
  <2> QED BY <2>1, SignedIs
<1>5. CASE \E k \in 1..n : k \in r.published /\ r.files[k].ccy = ccy
  <2>1. PICK k \in 1..n : k \in r.published /\ r.files[k].ccy = ccy
    BY <1>5
  <2>2. r.files[k].amount \in Words
    BY <2>1
  <2>3. \A j \in 1..n : j # k => r.files[j].ccy # ccy
    BY <2>1
  <2>4. v[k] = r.files[k].amount /\ \A j \in 1..n : j # k => v[j] = 0
    BY <1>1, <2>1, <2>3
  <2>5. r.files[k].amount \in Int
    BY <2>2, WrapAssumption DEF Words
  <2>6. SumOf(v) = r.files[k].amount
    BY <1>3, <2>1, <2>4, <2>5, SumOfOne
  <2>7. Total(r, ccy) = r.files[k].amount
    BY <1>2, <2>2, <2>5, <2>6, SignedIs
  <2> QED BY <2>1, <2>7
<1>6. CASE ~\E k \in 1..n : k \in r.published /\ r.files[k].ccy = ccy
  <2>1. \A j \in 1..n : v[j] = 0
    BY <1>1, <1>6
  <2>2. 0 \notin 1..n
    OBVIOUS
  <2>3. SumOf(v) = 0
    BY <1>3, <2>1, <2>2, SumOfOne
  <2>4. Total(r, ccy) = 0
    BY <1>2, <1>4, <2>3
  <2> QED BY <2>4
<1> QED BY <1>5, <1>6

LEMMA TotalIs ==
  ASSUME NEW r, NEW names, FilesSound(r), Placed(r, names), NEW ccy, ccy # "", Total(r, ccy) > 0
  PROVE  \E n \in r.published : r.files[n].ccy = ccy /\ r.files[n].amount = Total(r, ccy)
<1>1. PICK n \in Nat : n = Len(r.files)
  BY FilesAre
<1>2. /\ \A k \in 1..n : r.files[k].ccy = ccy => r.files[k].amount \in Words
      /\ \A j, k \in 1..n : r.files[j].ccy = ccy /\ r.files[k].ccy = ccy => j = k
  <2>1. ASSUME NEW k \in 1..n, r.files[k].ccy = ccy PROVE r.files[k].amount \in Words
    <3>1. Sound(r.files[k], r.slot) /\ r.files[k].ccy # ""
      BY <1>1, <2>1 DEF FilesSound
    <3> QED BY <3>1 DEF Sound
  <2>2. ASSUME NEW j \in 1..n, NEW k \in 1..n, r.files[j].ccy = ccy, r.files[k].ccy = ccy PROVE j = k
    <3>1. r.files[j].ccy = r.files[k].ccy /\ r.files[j].ccy # ""
      BY <2>2
    <3> QED BY <1>1, <3>1 DEF FilesSound
  <2> QED BY <2>1, <2>2
<1>3. \E k \in 1..n : k \in r.published /\ r.files[k].ccy = ccy /\ r.files[k].amount = Total(r, ccy)
  BY <1>1, <1>2, TotalOfOne
<1> QED BY <1>3

LEMMA WireKeepsMoney == ASSUME MoneyInv, NEW i \in 1..MaxRuns, Wire(i) PROVE MoneyInv'
<1>1. i \in 1..Len(runs) /\ runs[i].step = "publish"
  BY DEF Wire, AllPublished, At
<1>2. PICK r : r = runs[i]
  OBVIOUS
<1>3. IsRun(r) /\ RunMoney(r, Names)
  BY <1>1, <1>2 DEF MoneyInv, RunsMoney, RunsShape
<1>4. UNCHANGED <<txns, batch>> /\ Names' = Names
  BY DEF Wire, Names, disks
<1>5. PICK ccy \in ToWire(r) :
        /\ Goes(i, [r EXCEPT !.wired = r.wired \cup {ccy}])
        /\ credits' = credits \/ credits' = Append(credits, [run |-> i, ccy |-> ccy, amount |-> Total(r, ccy)])
  BY <1>2, <1>3 DEF Wire, IsRun
<1>6. r.slot = "ER" /\ ccy # "" /\ Total(r, ccy) > 0 /\ ccy \notin r.wired
  BY <1>5 DEF ToWire
<1>7. PICK q : q = [r EXCEPT !.wired = r.wired \cup {ccy}]
  OBVIOUS
<1>8. IsRun(q) /\ Alike(q, r) /\ q.slot = r.slot /\ q.files = r.files /\ q.step = r.step
      /\ q.published = r.published /\ q.failed = r.failed /\ q.wired = r.wired \cup {ccy}
  BY <1>3, <1>7 DEF IsRun, Alike
<1>9. RunMoney(q, Names')
  <2>1. FilesSound(q) /\ Placed(q, Names')
    BY <1>3, <1>4, <1>8 DEF RunMoney, FilesSound, Placed
  <2>2. Early(q)
    BY <1>1, <1>2, <1>8 DEF Early
  <2> QED BY <2>1, <2>2 DEF RunMoney
<1>10. \A c : Backed(c, r) => Backed(c, q)
  BY <1>8 DEF Backed
<1>11. CASE credits' = credits
  BY <1>1, <1>2, <1>4, <1>5, <1>7, <1>8, <1>9, <1>10, <1>11, RunTurns
<1>12. PICK c : c = [run |-> i, ccy |-> ccy, amount |-> Total(r, ccy)]
  OBVIOUS
<1>13. CASE credits' = Append(credits, c)
  <2>1. c.run = i /\ c.ccy = ccy /\ c.amount = Total(r, ccy)
    BY <1>12
  <2>2. Backed(c, q)
    <3>1. \E n \in r.published : r.files[n].ccy = ccy /\ r.files[n].amount = Total(r, ccy)
      BY <1>3, <1>6, TotalIs DEF RunMoney
    <3> QED BY <1>1, <1>2, <1>6, <1>8, <2>1, <3>1, ZenonT(40) DEF Backed
  <2>3. PICK S, C : runs \in Seq(S) /\ credits \in Seq(C)
    BY DEF MoneyInv, RunsMoney, RunsShape, CreditsBacked, IsSequence
  <2>4. PICK n \in Nat, m \in Nat : n = Len(runs) /\ m = Len(credits)
    BY <2>3
  <2>5. Len(runs') = n /\ \A j \in 1..n : runs'[j] = IF j = i THEN q ELSE runs[j]
    <3>1. runs' = [runs EXCEPT ![i] = q] /\ DOMAIN runs = 1..n /\ i \in 1..n
      BY <1>1, <1>5, <1>7, <2>3, <2>4 DEF Goes
    <3>2. runs' \in Seq(S \cup {q}) /\ Len(runs') = n
      <4>1. runs \in Seq(S \cup {q})
        BY <2>3
      <4> QED BY <2>4, <3>1, <4>1
    <3> QED BY <2>3, <2>4, <3>1, <3>2
  <2>6. credits' \in Seq(C \cup {c}) /\ Len(credits') = m + 1 /\ credits'[m + 1] = c
        /\ \A a \in 1..m : credits'[a] = credits[a]
    <3>1. credits \in Seq(C \cup {c})
      BY <2>3
    <3> QED BY <1>13, <2>4, <3>1
  <2>7. \A a \in 1..(m + 1) : a = m + 1 \/ a \in 1..m
    BY <2>4
  <2>8. \A a \in 1..m : credits[a].run \in 1..n /\ Backed(credits[a], runs[credits[a].run])
    BY <2>4 DEF MoneyInv, CreditsBacked
  <2>9. \A a \in 1..m : credits[a].run = i => credits[a].ccy # ccy
    BY <1>2, <1>6, <2>8 DEF Backed
  <2>10. \A a \in 1..(m + 1) : credits'[a].run \in 1..n /\ Backed(credits'[a], runs'[credits'[a].run])
    <3>1. \A a \in 1..m : credits[a].run \in 1..n /\ Backed(credits[a], runs'[credits[a].run])
      BY <1>2, <1>10, <2>5, <2>8
    <3>2. i \in 1..n /\ runs'[i] = q
      BY <1>1, <2>4, <2>5
    <3> QED BY <2>1, <2>2, <2>6, <2>7, <3>1, <3>2
  <2>11. \A a, b \in 1..(m + 1) :
           credits'[a].run = credits'[b].run /\ credits'[a].ccy = credits'[b].ccy => a = b
    <3> SUFFICES ASSUME NEW a \in 1..(m + 1), NEW b \in 1..(m + 1),
                        credits'[a].run = credits'[b].run, credits'[a].ccy = credits'[b].ccy
                 PROVE  a = b
      OBVIOUS
    <3>1. CASE a \in 1..m /\ b \in 1..m
      BY <2>4, <2>6, <3>1 DEF MoneyInv, CreditsBacked
    <3>2. CASE a = m + 1 \/ b = m + 1
      BY <2>1, <2>6, <2>7, <2>9, <3>2
    <3> QED BY <2>7, <3>1, <3>2
  <2>12. CreditsBacked'
    BY <2>4, <2>5, <2>6, <2>10, <2>11 DEF CreditsBacked, IsSequence
  <2>13. RunsShape'
    BY <1>1, <1>2, <1>5, <1>7, <1>8, RunGoesOn DEF MoneyInv, RunsMoney
  <2>14. RunsMoney'
    <3>1. \A j \in 1..n : RunMoney(runs[j], Names')
      BY <1>4, <2>4 DEF MoneyInv, RunsMoney
    <3>2. \A j \in 1..n : RunMoney(runs'[j], Names')
      BY <1>9, <2>5, <3>1
    <3> QED BY <2>5, <2>13, <3>2 DEF RunsMoney
  <2> QED BY <1>4, <2>12, <2>14 DEF MoneyInv, AreTransactions
<1> QED BY <1>5, <1>11, <1>12, <1>13

LEMMA FinishKeepsMoney == ASSUME MoneyInv, NEW i \in 1..MaxRuns, Finish(i) PROVE MoneyInv'
<1>1. i \in 1..Len(runs) /\ runs[i].step = "publish"
  BY DEF Finish, AllPublished, At
<1>2. PICK r : r = runs[i]
  OBVIOUS
<1>3. IsRun(r) /\ RunMoney(r, Names)
  BY <1>1, <1>2 DEF MoneyInv, RunsMoney, RunsShape
<1>4. UNCHANGED <<txns, batch, credits>> /\ Names' = Names
  BY DEF Finish, Names, disks
<1>5. PICK q : q = [r EXCEPT !.step = "done"] /\ Goes(i, q)
  BY <1>2 DEF Finish
<1>6. IsRun(q) /\ Alike(q, r) /\ q.slot = r.slot /\ q.files = r.files /\ q.step = "done"
      /\ q.published = r.published /\ q.failed = r.failed /\ q.wired = r.wired
  BY <1>3, <1>5 DEF IsRun, Alike
<1>7. RunMoney(q, Names')
  BY <1>3, <1>4, <1>6 DEF RunMoney, FilesSound, Placed, Early
<1>8. \A c : Backed(c, r) => Backed(c, q)
  BY <1>6 DEF Backed
<1> QED BY <1>1, <1>2, <1>4, <1>5, <1>6, <1>7, <1>8, RunTurns
-----------------------------------------------------------------------------
LEMMA MoneyStays ==
  ASSUME MoneyInv, UNCHANGED <<txns, batch, runs, disks, credits>> PROVE MoneyInv'
<1> QED BY DEF MoneyInv, AreTransactions, RunsMoney, RunsShape, CreditsBacked, Names, disks

LEMMA PostKeepsMoney == ASSUME MoneyInv, NEW b \in Batches, PostTransactions(b) PROVE MoneyInv'
<1>1. batch' = b /\ UNCHANGED <<txns, runs, credits>> /\ Names' = Names
  BY DEF PostTransactions, Names, disks
<1>2. AreTransactions(b)
  BY AcquirerAssumption DEF AreTransactions, IsSequence
<1>3. AreTransactions(batch')
  BY <1>1, <1>2
<1> QED BY <1>1, <1>3 DEF MoneyInv, AreTransactions, RunsMoney, RunsShape, CreditsBacked

LEMMA AddKeepsMoney == ASSUME MoneyInv, AddOne PROVE MoneyInv'
<1>1. UNCHANGED <<runs, credits>> /\ Names' = Names /\ batch # <<>>
  BY DEF AddOne, Names, disks
<1>2. PICK S, T : batch \in Seq(S) /\ txns \in Seq(T)
  BY DEF MoneyInv, AreTransactions, IsSequence
<1>3. PICK n \in Nat, m \in Nat : n = Len(batch) /\ m = Len(txns)
  BY <1>2
<1>4. n # 0 /\ \A k \in 1..n : IsTransaction(batch[k])
  BY <1>1, <1>2, <1>3, EmptyIs DEF MoneyInv, AreTransactions
<1>5. AreTransactions(txns')
  <2>1. CASE txns' = Append(txns, Head(batch))
    <3>1. PICK t : t = Head(batch)
      OBVIOUS
    <3>2. IsTransaction(t)
      <4>1. t = batch[1] /\ 1 \in 1..n
        BY <1>2, <1>3, <1>4, <3>1
      <4> QED BY <1>4, <4>1
    <3>3. txns \in Seq(T \cup {t})
      BY <1>2
    <3>4. txns' \in Seq(T \cup {t}) /\ Len(txns') = m + 1 /\ txns'[m + 1] = t /\ \A k \in 1..m : txns'[k] = txns[k]
      BY <1>3, <2>1, <3>1, <3>3
    <3>5. \A k \in 1..(m + 1) : k = m + 1 \/ k \in 1..m
      BY <1>3
    <3> QED BY <1>3, <3>2, <3>4, <3>5 DEF MoneyInv, AreTransactions, IsSequence
  <2>2. CASE txns' = txns
    BY <2>2 DEF MoneyInv
  <2> QED BY <2>1, <2>2 DEF AddOne
<1>6. AreTransactions(batch')
  <2>1. CASE batch' = Tail(batch)
    <3>1. batch' \in Seq(S) /\ Len(batch') = n - 1 /\ \A k \in 1..(n - 1) : batch'[k] = batch[k + 1] /\ k + 1 \in 1..n
      BY <1>2, <1>3, <1>4, <2>1
    <3> QED BY <1>4, <3>1 DEF AreTransactions, IsSequence
  <2>2. CASE batch' = <<>>
    <3>1. batch' \in Seq({}) /\ Len(batch') = 0
      BY <2>2
    <3> QED BY <3>1 DEF AreTransactions, IsSequence
  <2> QED BY <2>1, <2>2 DEF AddOne
<1> QED BY <1>1, <1>5, <1>6 DEF MoneyInv, RunsMoney, RunsShape, CreditsBacked, AreTransactions

LEMMA MoneyKeeps == MoneyInv /\ [AcquirerNext]_acquirerVars => MoneyInv'
<1> SUFFICES ASSUME MoneyInv, [AcquirerNext]_acquirerVars PROVE MoneyInv'
  OBVIOUS
<1>1. CASE Look
  <2>1. UNCHANGED <<txns, batch, disks, credits>> /\ (runs' = runs \/ StartRun(plan.slot, CoverageFor(Now)))
    BY <1>1 DEF Look
  <2> QED BY <2>1, MoneyStays, StartKeepsMoney
<1>2. CASE Orders
  <2>1. UNCHANGED <<txns, batch, disks, credits>> /\ \E slot : StartRun(slot, CoverageFor(Now))
    BY <1>2 DEF Orders, OrderRun
  <2> QED BY <2>1, StartKeepsMoney
<1>3. ASSUME NEW b \in Batches, PostTransactions(b) PROVE MoneyInv'
  BY <1>3, PostKeepsMoney
<1>4. CASE AddOne
  BY <1>4, AddKeepsMoney
<1>5. ASSUME NEW i \in 1..MaxRuns, Step(i) PROVE MoneyInv'
  BY <1>5, ReadKeepsMoney, CutKeepsMoney, PublishKeepsMoney, WireKeepsMoney, FinishKeepsMoney DEF Step
<1>6. CASE PlanNext \/ TimePasses \/ ClockChanges \/ FollowClock \/ UNCHANGED acquirerVars
  <2>1. UNCHANGED <<txns, batch, runs, disks, credits>>
    BY <1>6 DEF PlanNext, TimePasses, ClockChanges, FollowClock, acquirerVars, cycle
  <2> QED BY <2>1, MoneyStays
<1> QED BY <1>1, <1>2, <1>3, <1>4, <1>5, <1>6 DEF AcquirerNext, CycleNext

LEMMA MoneyStarts == AcquirerInit => MoneyInv
<1> SUFFICES ASSUME AcquirerInit PROVE MoneyInv
  OBVIOUS
<1>1. txns = <<>> /\ batch = <<>> /\ runs = <<>> /\ credits = <<>>
  BY DEF AcquirerInit, CycleInit
<1>2. <<>> \in Seq({}) /\ Len(<<>>) = 0
  OBVIOUS
<1> QED BY <1>1, <1>2 DEF MoneyInv, AreTransactions, RunsMoney, RunsShape, CreditsBacked, IsSequence

OneFile(a, r, files) ==
  /\ \A n \in files : SlotOf(r.files[n].name) = "ER"
  /\ \A n \in files : r.files[n].name \in DOMAIN download /\ r.files[n].name \in DOMAIN wlnordic
  /\ \E n \in files : files = {n} /\ MetaAmount(r.files[n].text) = credits[a].amount

LEMMA InvMatches == MoneyInv => MoneyMatchesFiles
<1> SUFFICES ASSUME MoneyInv PROVE MoneyMatchesFiles
  OBVIOUS
<1>1. CreditsBacked
  BY DEF MoneyInv
<1>2. ASSUME NEW a \in 1..Len(credits), NEW r, r = runs[credits[a].run],
             NEW files, files = {n \in r.published : r.files[n].ccy = credits[a].ccy}
      PROVE  OneFile(a, r, files)
  <2>1. PICK c : c = credits[a]
    OBVIOUS
  <2>2. Backed(c, r) /\ RunMoney(r, Names)
    BY <1>1, <1>2, <2>1 DEF MoneyInv, RunsMoney, CreditsBacked
  <2>3. PICK n \in r.published : r.files[n].ccy = c.ccy /\ r.files[n].amount = c.amount
    BY <2>2 DEF Backed
  <2>4. c.ccy # "" /\ r.slot = "ER"
    BY <2>2 DEF Backed
  <2>5. \A k \in files : k \in 1..Len(r.files) /\ r.files[k].ccy = c.ccy /\ r.files[k].name \in Names
    BY <1>2, <2>1, <2>2 DEF RunMoney, Placed
  <2>6. \A k \in files : Sound(r.files[k], "ER")
    BY <2>2, <2>4, <2>5 DEF RunMoney, FilesSound
  <2>7. n \in files
    BY <1>2, <2>1, <2>3
  <2>8. files = {n}
    <3>1. \A k \in files : k = n
      BY <2>2, <2>4, <2>5, <2>7 DEF RunMoney, FilesSound
    <3> QED BY <2>7, <3>1
  <2>9. \A k \in files : SlotOf(r.files[k].name) = "ER"
    BY <2>4, <2>5, <2>6 DEF Sound, SlotOf
  <2>10. MetaAmount(r.files[n].text) = c.amount
    BY <2>3, <2>4, <2>6, <2>7 DEF Sound
  <2>11. \A k \in files : r.files[k].name \in DOMAIN download /\ r.files[k].name \in DOMAIN wlnordic
    BY <2>5 DEF Names
  <2> QED BY <2>1, <2>7, <2>8, <2>9, <2>10, <2>11 DEF OneFile
<1>3. \A a, b \in 1..Len(credits) :
        (credits[a].run = credits[b].run /\ credits[a].ccy = credits[b].ccy) => a = b
  BY <1>1 DEF CreditsBacked
<1>4. ASSUME NEW a \in 1..Len(credits)
      PROVE  OneFile(a, runs[credits[a].run],
                     {n \in runs[credits[a].run].published :
                        runs[credits[a].run].files[n].ccy = credits[a].ccy})
  BY <1>2, Zenon
<1> QED BY <1>3, <1>4, Zenon DEF MoneyMatchesFiles, OneFile

\* However transactions arrive while it cuts, whichever publications fail and
\* whatever answers of the bank are lost, a morning run's currency is credited
\* at most once, and for the cent that its one published file of that currency
\* reads (run, wireLumpSum, formatMajorUnits, majorUnitAmounts).
THEOREM MoneyMatches == AcquirerSpec => []MoneyMatchesFiles
<1>1. AcquirerInit => MoneyInv
  BY MoneyStarts
<1>2. MoneyInv /\ [AcquirerNext]_acquirerVars => MoneyInv'
  BY MoneyKeeps
<1>3. MoneyInv => MoneyMatchesFiles
  BY InvMatches
<1> QED BY <1>1, <1>2, <1>3, PTL DEF AcquirerSpec
-----------------------------------------------------------------------------
(***************************************************************************)
(* What files tell.  Every file of a run was cut from the store as it was  *)
(* at one moment of the run, and the store only grows; every currency that *)
(* was acquired before the run began has a file, or is still to be cut.    *)
(***************************************************************************)

LEMMA ProductsKeepOrder ==
  ASSUME NEW a \in Nat, NEW b \in Nat, a <= b, NEW w \in Nat
  PROVE  a * w \in Nat /\ b * w \in Nat /\ a * w <= b * w
<1> PICK d \in Nat : b = a + d
  <2>1. b - a \in Nat /\ b = a + (b - a)
    OBVIOUS
  <2> QED BY <2>1
<1> PICK x \in Nat, y \in Nat : x = a * w /\ y = d * w
  OBVIOUS
<1>1. (a + d) * w = x + y
  OBVIOUS
<1> QED BY <1>1

\* No more money than a word holds is acquired.
Within(s, most) == \A i \in 1..Len(s) : s[i].amount \in -most..most

LEMMA OwedIsSmall ==
  ASSUME NEW n \in Nat, n <= MaxTxns, NEW most \in Nat, MaxTxns * most < Wrap, NEW t,
         \A j \in 1..n : t[j].amount \in -most..most, NEW mid, NEW ccy, NEW from, NEW to
  PROVE  Owed(t, n, mid, ccy, from, to) \in Words
<1>1. PICK v : v = Owings(t, n, mid, ccy, from, to)
  OBVIOUS
<1>2. Len(v) = n /\ \A j \in 1..n : v[j] \in -most..most
  BY <1>1, OwingsAre
<1>3. SumOf(v) \in -(n * most)..(n * most)
  BY <1>2, SumIsSmall
<1>4. MaxTxns \in Nat
  BY AcquirerAssumption
<1>5. n * most \in Nat /\ MaxTxns * most \in Nat /\ n * most <= MaxTxns * most
  BY <1>4, ProductsKeepOrder
<1>6. \A x, y : x \in Nat /\ y \in Nat /\ x <= y /\ y < Wrap => -x..x \subseteq Words
  BY WrapAssumption DEF Words
<1>7. SumOf(v) \in Words
  <2>1. -(n * most)..(n * most) \subseteq Words
    BY <1>5, <1>6
  <2> QED BY <1>3, <2>1
<1> QED BY <1>1, <1>7 DEF Owed

\* A file with something to tell has a row.
LEMMA FileHasItems ==
  ASSUME NEW t, NEW n \in Nat, n = Len(t), \A j \in 1..n : IsTransaction(t[j]), NEW ccy, NEW from, NEW to,
         NEW j \in 1..n, Covered(t[j], ccy, from, to)
  PROVE  File(t, ccy, from, to).items # 0
<1>1. PICK f : f = File(t, ccy, from, to)
  OBVIOUS
<1>2. PICK mids : CutFrom(f, mids, t, n, ccy, from, to)
  BY <1>1, FileIs
<1>3. f.items = SumOf(Items(f.batches))
  BY <1>1, FileHas
<1>4. PICK c \in Nat : c = Len(f.batches) /\ c = Len(mids)
  BY <1>2 DEF CutFrom, WellCut, IsSequence
<1>5. PICK v : v = Items(f.batches)
  OBVIOUS
<1>6. Len(v) = c /\ \A i \in 1..c : v[i] = f.batches[i].items
  <2>1. v = [i \in 1..Len(f.batches) |-> f.batches[i].items]
    BY <1>5, Zenon DEF Items
  <2>2. v = [i \in 1..c |-> f.batches[i].items]
    BY <1>4, <2>1
  <2>3. \A i \in 1..c : v[i] = f.batches[i].items
    BY <2>2
  <2>4. Len(v) = c
    BY <1>4, <2>2
  <2> QED BY <2>3, <2>4
<1>7. \A i \in 1..c : BatchHolds(f.batches[i], t, n, mids[i], ccy, from, to)
  BY <1>2, <1>4 DEF CutFrom
<1>8. \A i \in 1..c : v[i] \in Nat
  <2> SUFFICES ASSUME NEW i \in 1..c PROVE v[i] \in Nat
    OBVIOUS
  <2>1. PICK b : b = f.batches[i]
    OBVIOUS
  <2>2. IsSequence(b.rows) /\ b.items = Len(b.rows)
    BY <1>7, <2>1 DEF BatchHolds
  <2>3. b.items \in Nat
    BY <2>2 DEF IsSequence
  <2> QED BY <1>6, <2>1, <2>3
<1>9. PICK k \in 1..c : mids[k] = t[j].mid
  BY <1>2, <1>4 DEF CutFrom, Trades
<1>10. v[k] # 0
  <2>1. \E y \in 1..n : t[y].mid = mids[k] /\ Covered(t[y], ccy, from, to)
    BY <1>9
  <2> QED BY <1>6, <1>7, <2>1 DEF BatchHolds
<1>11. SumOf(v) \in Nat \ {0}
  BY <1>6, <1>8, <1>10, SumHasOne
<1> QED BY <1>1, <1>3, <1>5, <1>11

Tells(f, t, n, date) ==
  Readable(f.text) /\ MetaAmount(f.text) = f.amount /\ TextTells(f.text, t, n, f.ccy, date, date)

\* What was told of a store holds of it when it has grown.
Extends(u, t) == Len(t) \in Nat /\ Len(u) \in Nat /\ Len(t) <= Len(u) /\ \A j \in 1..Len(t) : u[j] = t[j]

LEMMA OwedStays ==
  ASSUME NEW t, NEW u, NEW n \in Nat, \A j \in 1..n : u[j] = t[j], NEW mid, NEW ccy, NEW from, NEW to
  PROVE  Owed(u, n, mid, ccy, from, to) = Owed(t, n, mid, ccy, from, to)
<1>1. PICK v, w : v = Owings(t, n, mid, ccy, from, to) /\ w = Owings(u, n, mid, ccy, from, to)
  OBVIOUS
<1>2. Len(v) = n /\ \A j \in 1..n : v[j] = IF t[j].mid = mid /\ Covered(t[j], ccy, from, to) THEN t[j].amount ELSE 0
  BY <1>1, OwingsAre
<1>3. Len(w) = n /\ \A j \in 1..n : w[j] = IF u[j].mid = mid /\ Covered(u[j], ccy, from, to) THEN u[j].amount ELSE 0
  BY <1>1, OwingsAre
<1>4. \A j \in 1..n : w[j] = v[j]
  BY <1>2, <1>3
<1>5. SumOf(w) = SumOf(v)
  BY <1>2, <1>3, <1>4, SumOfSame
<1> QED BY <1>1, <1>5 DEF Owed

LEMMA StillTells ==
  ASSUME NEW f, NEW t, NEW u, NEW n \in Nat, NEW date, Tells(f, t, n, date), Extends(u, t), n <= Len(t)
  PROVE  Tells(f, u, n, date)
<1>1. \A j \in 1..n : u[j] = t[j]
  BY DEF Extends
<1>2. ASSUME NEW mid PROVE Owed(u, n, mid, f.ccy, date, date) = Owed(t, n, mid, f.ccy, date, date)
  <2>1. PICK ccy, day : ccy = f.ccy /\ day = date
    OBVIOUS
  <2>2. Owed(u, n, mid, ccy, day, day) = Owed(t, n, mid, ccy, day, day)
    BY <1>1, OwedStays
  <2> QED BY <2>1, <2>2
<1> QED BY <1>1, <1>2 DEF Tells, TextTells

\* A currency that has its file, or will have it.
InFiles(r, ccy) == \E k \in 1..Len(r.files) : r.files[k].ccy = ccy

ToCut(r, ccy) == \E k \in 1..Len(r.ccys) : r.ccys[k] = ccy

AllCut(r) ==
  r.step # "currencies" =>
    \A j \in 1..Len(r.known) :
      Covered(r.known[j], r.known[j].ccy, r.date, r.date) =>
        InFiles(r, r.known[j].ccy) \/ (r.step = "cut" /\ ToCut(r, r.known[j].ccy))

AllTold(r, t) ==
  \A k \in 1..Len(r.files) : \E n \in Len(r.known)..Len(t) : Tells(r.files[k], t, n, r.date)

RunTells(r, t) == r.date \in Int /\ Extends(t, r.known) /\ AllTold(r, t) /\ AllCut(r)

StoreFits(most) ==
  Len(txns) + Len(batch) <= MaxTxns /\ Within(txns, most) /\ Within(batch, most)

TellInv(most) ==
  /\ MoneyInv /\ StoreFits(most)
  /\ source = "generate" => \A i \in 1..Len(runs) : RunTells(runs[i], txns)

LEMMA RunStillTells ==
  ASSUME NEW r, NEW t, NEW u, RunTells(r, t), Extends(u, t)
  PROVE  RunTells(r, u)
<1>1. Extends(u, r.known)
  BY DEF RunTells, Extends
<1>2. AllTold(r, u)
  <2> SUFFICES ASSUME NEW k \in 1..Len(r.files) PROVE \E n \in Len(r.known)..Len(u) : Tells(r.files[k], u, n, r.date)
    BY DEF AllTold
  <2>1. PICK n \in Len(r.known)..Len(t) : Tells(r.files[k], t, n, r.date)
    BY DEF RunTells, AllTold
  <2>2. Len(r.known) \in Nat /\ Len(t) \in Nat /\ Len(u) \in Nat /\ Len(t) <= Len(u)
    BY DEF RunTells, Extends
  <2>3. n \in Nat /\ n <= Len(t) /\ n \in Len(r.known)..Len(u)
    BY <2>1, <2>2
  <2>4. Tells(r.files[k], u, n, r.date)
    BY <2>1, <2>3, StillTells
  <2> QED BY <2>3, <2>4
<1> QED BY <1>1, <1>2 DEF RunTells

\* A run that goes a step on and tells what it should.
LEMMA RunTurnsTelling ==
  ASSUME NEW most, TellInv(most), MoneyInv', NEW i \in 1..Len(runs), NEW q, Goes(i, q),
         UNCHANGED <<source, txns, batch>>, source = "generate" => RunTells(q, txns)
  PROVE  TellInv(most)'
<1>1. PICK S : runs \in Seq(S)
  BY DEF TellInv, MoneyInv, RunsMoney, RunsShape
<1>2. PICK n \in Nat : n = Len(runs)
  BY <1>1
<1>3. Len(runs') = n /\ \A j \in 1..n : runs'[j] = IF j = i THEN q ELSE runs[j]
  <2>1. runs' = [runs EXCEPT ![i] = q] /\ DOMAIN runs = 1..n
    BY <1>1, <1>2 DEF Goes
  <2>2. runs' \in Seq(S \cup {q}) /\ Len(runs') = n
    BY <1>1, <1>2, <2>1
  <2> QED BY <2>1, <2>2
<1>4. source = "generate" => \A j \in 1..n : RunTells(runs'[j], txns)
  BY <1>2, <1>3 DEF TellInv
<1> QED BY <1>3, <1>4 DEF TellInv, StoreFits

LEMMA NothingIsTold == ASSUME AreTransactions(txns), NEW slot, NEW date \in Int PROVE RunTells(NewRun(slot, date), txns)
<1>1. PICK r : r = NewRun(slot, date)
  OBVIOUS
<1>2. r.files = <<>> /\ r.known = txns /\ r.date = date /\ r.step = "currencies"
  BY <1>1 DEF NewRun
<1>3. Len(txns) \in Nat
  BY DEF AreTransactions, IsSequence
<1>4. Extends(txns, r.known)
  BY <1>2, <1>3 DEF Extends
<1>5. AllTold(r, txns)
  <2>1. Len(r.files) = 0
    BY <1>2
  <2> QED BY <2>1 DEF AllTold
<1>6. AllCut(r)
  BY <1>2 DEF AllCut
<1> QED BY <1>1, <1>2, <1>4, <1>5, <1>6 DEF RunTells

LEMMA StartKeepsTelling ==
  ASSUME NEW most, TellInv(most), MoneyInv', NEW slot, NEW date \in Int, StartRun(slot, date),
         UNCHANGED <<source, txns, batch>>
  PROVE  TellInv(most)'
<1>1. PICK r : r = NewRun(slot, date)
  OBVIOUS
<1>2. RunTells(r, txns)
  BY <1>1, NothingIsTold DEF TellInv, MoneyInv
<1>3. runs' = Append(runs, r)
  BY <1>1 DEF StartRun
<1>4. PICK S : runs \in Seq(S)
  BY DEF TellInv, MoneyInv, RunsMoney, RunsShape
<1>5. PICK n \in Nat : n = Len(runs)
  BY <1>4
<1>6. Len(runs') = n + 1 /\ runs'[n + 1] = r /\ \A j \in 1..n : runs'[j] = runs[j]
  <2>1. runs \in Seq(S \cup {r})
    BY <1>4
  <2> QED BY <1>3, <1>5, <2>1
<1>7. \A j \in 1..(n + 1) : j = n + 1 \/ j \in 1..n
  BY <1>5
<1>8. source = "generate" => \A j \in 1..(n + 1) : RunTells(runs'[j], txns)
  BY <1>2, <1>5, <1>6, <1>7 DEF TellInv
<1> QED BY <1>6, <1>8 DEF TellInv, StoreFits

\* A run's currencies are read from a store that holds all it knew.
LEMMA ReadKeepsTelling ==
  ASSUME NEW most, TellInv(most), MoneyInv', NEW i \in 1..MaxRuns, ReadCurrencies(i) PROVE TellInv(most)'
<1>1. i \in 1..Len(runs) /\ runs[i].step = "currencies" /\ UNCHANGED <<source, txns, batch>>
  BY DEF ReadCurrencies, At
<1>2. PICK r : r = runs[i]
  OBVIOUS
<1>3. IsRun(r) /\ RunMoney(r, Names) /\ AreTransactions(txns)
  BY <1>1, <1>2 DEF TellInv, MoneyInv, RunsMoney, RunsShape
<1>4. PICK q : Goes(i, q) /\ (source = "generate" => q = [r EXCEPT !.ccys = CurrenciesOn(r.date), !.step = "cut"])
  BY <1>2 DEF ReadCurrencies
<1>5. ASSUME source = "generate" PROVE RunTells(q, txns)
  <2>1. PICK cs : cs = CurrenciesOn(r.date)
    OBVIOUS
  <2>2. q.files = r.files /\ q.known = r.known /\ q.date = r.date /\ q.step = "cut" /\ q.ccys = cs
    BY <1>3, <1>4, <1>5, <2>1 DEF IsRun
  <2>3. RunTells(r, txns)
    BY <1>1, <1>2, <1>5 DEF TellInv
  <2>4. Len(r.files) = 0
    BY <1>1, <1>2, <1>3 DEF RunMoney, Early
  <2>5. AllTold(q, txns)
    BY <2>2, <2>4 DEF AllTold
  <2>6. ASSUME NEW j \in 1..Len(r.known), Covered(r.known[j], r.known[j].ccy, r.date, r.date)
        PROVE  ToCut(q, r.known[j].ccy)
    <3>1. j \in 1..Len(txns) /\ txns[j] = r.known[j]
      BY <2>3 DEF RunTells, Extends
    <3>2. r.date \in Int /\ txns[j].date \in Int
      BY <1>3, <2>3, <3>1 DEF RunTells, AreTransactions, IsTransaction
    <3>3. txns[j].date = r.date
      BY <2>6, <3>1, <3>2 DEF Covered
    <3>4. \E k \in 1..Len(cs) : cs[k] = txns[j].ccy
      BY <1>3, <2>1, <3>1, <3>3, CurrenciesAre
    <3> QED BY <2>2, <3>1, <3>4 DEF ToCut
  <2>7. AllCut(q)
    BY <2>2, <2>6 DEF AllCut
  <2> QED BY <2>2, <2>3, <2>5, <2>7 DEF RunTells
<1> QED BY <1>1, <1>4, <1>5, RunTurnsTelling


\* A file that is cut now tells all that was acquired until now.
LEMMA CutFileTells ==
  ASSUME AreTransactions(txns), NEW most \in Nat, MaxTxns * most < Wrap, StoreFits(most), Len(batch) \in Nat,
         NEW ccy, NEW date, NEW f, f = File(txns, ccy, date, date),
         NEW g, g.text = Text(f), g.ccy = f.ccy, g.amount = f.amount
  PROVE  g.ccy = ccy /\ Tells(g, txns, Len(txns), date)
<1>1. PICK n \in Nat : n = Len(txns)
  BY DEF AreTransactions, IsSequence
<1>2. n <= MaxTxns
  BY <1>1, AcquirerAssumption DEF StoreFits
<1>3. (\A j \in 1..n : IsTransaction(txns[j])) /\ \A j \in 1..n : txns[j].amount \in -most..most
  BY <1>1 DEF AreTransactions, StoreFits, Within
<1>4. PICK mids : CutFrom(f, mids, txns, n, ccy, date, date)
  BY <1>1, <1>3, FileIs
<1>5. WellCut(f) /\ f.ccy = ccy
  BY <1>4 DEF CutFrom
<1>6. \A i \in 1..Len(mids) : Owed(txns, n, mids[i], ccy, date, date) \in Words
  <2>1. ASSUME NEW mid PROVE Owed(txns, n, mid, ccy, date, date) \in Words
    BY <1>2, <1>3, OwedIsSmall
  <2> QED BY <2>1
<1>7. TextTells(Text(f), txns, n, ccy, date, date)
  BY <1>4, <1>6, CutTells
<1>8. Readable(Text(f)) /\ MetaAmount(Text(f)) = f.amount
  BY <1>5, TextIsReadable, FiguresSurvive
<1> QED BY <1>1, <1>5, <1>7, <1>8 DEF Tells

\* What is left to cut when the first currency is done with.
LEMMA LeftToCut ==
  ASSUME NEW r, Cutting(r), r.ccys # <<>>, NEW q, q.ccys = Tail(r.ccys), NEW x, ToCut(r, x)
  PROVE  x = Head(r.ccys) \/ ToCut(q, x)
<1>1. PICK C : r.ccys \in Seq(C)
  BY DEF Cutting, IsSequence
<1>2. PICK m \in Nat : m = Len(r.ccys)
  BY <1>1
<1>3. PICK k \in 1..m : r.ccys[k] = x
  BY <1>2 DEF ToCut
<1>4. CASE k = 1
  BY <1>1, <1>2, <1>3, <1>4
<1>5. CASE k # 1
  <2>1. Len(q.ccys) = m - 1 /\ \A j \in 1..(m - 1) : q.ccys[j] = r.ccys[j + 1]
    BY <1>1, <1>2
  <2>2. k - 1 \in 1..(m - 1) /\ (k - 1) + 1 = k
    BY <1>2, <1>3, <1>5
  <2>3. q.ccys[k - 1] = x
    BY <1>3, <2>1, <2>2
  <2> QED BY <2>1, <2>2, <2>3 DEF ToCut
<1> QED BY <1>4, <1>5

LEMMA CutKeepsTelling ==
  ASSUME NEW most \in Nat, MaxTxns * most < Wrap, TellInv(most), MoneyInv', NEW i \in 1..MaxRuns, CutOne(i)
  PROVE  TellInv(most)'
<1>1. i \in 1..Len(runs) /\ runs[i].step = "cut" /\ UNCHANGED <<source, txns, batch>>
  BY DEF CutOne, At
<1>2. PICK r : r = runs[i]
  OBVIOUS
<1>3. IsRun(r) /\ RunMoney(r, Names) /\ AreTransactions(txns) /\ Len(batch) \in Nat /\ StoreFits(most)
  BY <1>1, <1>2 DEF TellInv, MoneyInv, RunsMoney, RunsShape, AreTransactions, IsSequence
<1>4. Cutting(r) /\ FilesSound(r)
  BY <1>1, <1>2, <1>3 DEF RunMoney, Early
<1>5. PICK f : f = File(txns, Head(r.ccys), r.date, r.date)
  OBVIOUS
<1>6. PICK g : g = CutFile([slot |-> r.slot, ccy |-> f.ccy, at |-> r.at], Text(f), f.ccy, f.amount)
  OBVIOUS
<1>7. PICK q : /\ Goes(i, q)
               /\ \/ r.ccys = <<>> /\ q = [r EXCEPT !.step = "publish"]
                  \/ r.ccys # <<>> /\ f.items = 0 /\ q = [r EXCEPT !.ccys = Tail(r.ccys)]
                  \/ r.ccys # <<>> /\ q = [r EXCEPT !.ccys = Tail(r.ccys), !.files = Append(r.files, g)]
  BY <1>2, <1>3, <1>5, <1>6 DEF CutOne, IsRun
<1>8. ASSUME RunTells(r, txns) PROVE RunTells(q, txns)
  <2>1. r.step = "cut" /\ Extends(txns, r.known) /\ AllTold(r, txns) /\ r.date \in Int
    BY <1>1, <1>2, <1>8 DEF RunTells
  <2>2. PICK N \in Nat : N = Len(txns) /\ Len(r.known) \in Nat /\ Len(r.known) <= N
    BY <2>1 DEF Extends
  <2>3. ASSUME NEW j \in 1..Len(r.known), Covered(r.known[j], r.known[j].ccy, r.date, r.date)
        PROVE  InFiles(r, r.known[j].ccy) \/ ToCut(r, r.known[j].ccy)
    BY <1>8, <2>1, <2>3 DEF RunTells, AllCut
  <2>4. CASE r.ccys = <<>> /\ q = [r EXCEPT !.step = "publish"]
    <3>1. q.files = r.files /\ q.known = r.known /\ q.date = r.date /\ q.step = "publish"
      BY <1>3, <2>4 DEF IsRun
    <3>2. \A x : ~ToCut(r, x)
      BY <2>4 DEF ToCut
    <3>3. AllCut(q)
      BY <2>3, <3>1, <3>2 DEF AllCut, InFiles
    <3>4. AllTold(q, txns)
      BY <2>1, <3>1 DEF AllTold
    <3> QED BY <2>1, <3>1, <3>3, <3>4 DEF RunTells
  <2>5. CASE r.ccys # <<>> /\ f.items = 0 /\ q = [r EXCEPT !.ccys = Tail(r.ccys)]
    <3>1. q.files = r.files /\ q.known = r.known /\ q.date = r.date /\ q.step = "cut" /\ q.ccys = Tail(r.ccys)
      BY <1>3, <2>1, <2>5 DEF IsRun
    <3>2. ASSUME NEW j \in 1..Len(r.known), Covered(r.known[j], r.known[j].ccy, r.date, r.date)
          PROVE  r.known[j].ccy # Head(r.ccys)
      <4>1. j \in 1..N /\ txns[j] = r.known[j]
        BY <2>1, <2>2 DEF Extends
      <4>2. \A k \in 1..N : IsTransaction(txns[k])
        BY <1>3, <2>2 DEF AreTransactions
      <4>3. SUFFICES ASSUME r.known[j].ccy = Head(r.ccys) PROVE FALSE
        OBVIOUS
      <4>4. Covered(txns[j], Head(r.ccys), r.date, r.date)
        BY <3>2, <4>1, <4>3
      <4>5. File(txns, Head(r.ccys), r.date, r.date).items # 0
        BY <2>2, <4>1, <4>2, <4>4, FileHasItems
      <4> QED BY <1>5, <2>5, <4>5
    <3>3. ASSUME NEW j \in 1..Len(r.known), Covered(r.known[j], r.known[j].ccy, r.date, r.date)
          PROVE  InFiles(q, r.known[j].ccy) \/ ToCut(q, r.known[j].ccy)
      <4>1. CASE InFiles(r, r.known[j].ccy)
        BY <3>1, <4>1 DEF InFiles
      <4>2. ASSUME NEW x, ToCut(r, x) PROVE x = Head(r.ccys) \/ ToCut(q, x)
        BY <1>4, <2>5, <3>1, <4>2, LeftToCut
      <4>3. r.known[j].ccy # Head(r.ccys)
        BY <3>2, <3>3
      <4> QED BY <2>3, <3>3, <4>1, <4>2, <4>3
    <3>4. AllCut(q)
      BY <3>1, <3>3 DEF AllCut
    <3>5. AllTold(q, txns)
      BY <2>1, <3>1 DEF AllTold
    <3> QED BY <2>1, <3>1, <3>4, <3>5 DEF RunTells
  <2>6. CASE r.ccys # <<>> /\ q = [r EXCEPT !.ccys = Tail(r.ccys), !.files = Append(r.files, g)]
    <3>1. q.files = Append(r.files, g) /\ q.known = r.known /\ q.date = r.date /\ q.step = "cut"
          /\ q.ccys = Tail(r.ccys)
      BY <1>3, <2>1, <2>6 DEF IsRun
    <3>2. g.text = Text(f) /\ g.ccy = f.ccy /\ g.amount = f.amount
      BY <1>6 DEF CutFile
    <3>3. g.ccy = Head(r.ccys) /\ Tells(g, txns, Len(txns), r.date)
      BY <1>3, <1>5, <3>2, CutFileTells
    <3>4. PICK S : r.files \in Seq(S)
      BY <1>4 DEF FilesSound, IsSequence
    <3>5. PICK n \in Nat : n = Len(r.files)
      BY <3>4
    <3>6. r.files \in Seq(S \cup {g})
      BY <3>4
    <3>7. Len(q.files) = n + 1 /\ q.files[n + 1] = g /\ \A k \in 1..n : q.files[k] = r.files[k]
      BY <3>1, <3>5, <3>6
    <3>8. \A k \in 1..(n + 1) : k = n + 1 \/ k \in 1..n
      BY <3>5
    <3>9. n + 1 \in 1..(n + 1) /\ \A k \in 1..n : k \in 1..(n + 1)
      BY <3>5
    <3>10. AllTold(q, txns)
      <4>1. ASSUME NEW k \in 1..n PROVE \E m \in Len(r.known)..N : Tells(q.files[k], txns, m, r.date)
        BY <2>1, <2>2, <3>5, <3>7 DEF AllTold
      <4>2. \E m \in Len(r.known)..N : Tells(q.files[n + 1], txns, m, r.date)
        <5>1. N \in Len(r.known)..N
          BY <2>2
        <5>2. Tells(q.files[n + 1], txns, N, r.date)
          BY <2>2, <3>3, <3>7
        <5> QED BY <5>1, <5>2
      <4>3. ASSUME NEW k \in 1..(n + 1) PROVE \E m \in Len(r.known)..N : Tells(q.files[k], txns, m, r.date)
        BY <3>8, <4>1, <4>2
      <4> QED BY <2>2, <3>1, <3>7, <4>3 DEF AllTold
    <3>11. ASSUME NEW j \in 1..Len(r.known), Covered(r.known[j], r.known[j].ccy, r.date, r.date)
           PROVE  InFiles(q, r.known[j].ccy) \/ ToCut(q, r.known[j].ccy)
      <4>1. CASE InFiles(r, r.known[j].ccy)
        BY <3>5, <3>7, <3>9, <4>1 DEF InFiles
      <4>2. InFiles(q, Head(r.ccys))
        BY <3>3, <3>7, <3>9 DEF InFiles
      <4>3. ASSUME NEW x, ToCut(r, x) PROVE x = Head(r.ccys) \/ ToCut(q, x)
        BY <1>4, <2>6, <3>1, <4>3, LeftToCut
      <4> QED BY <2>3, <3>11, <4>1, <4>2, <4>3
    <3>12. AllCut(q)
      BY <3>1, <3>11 DEF AllCut
    <3> QED BY <2>1, <3>1, <3>10, <3>12 DEF RunTells
  <2> QED BY <1>7, <2>4, <2>5, <2>6
<1>9. source = "generate" => RunTells(q, txns)
  BY <1>1, <1>2, <1>8 DEF TellInv
<1> QED BY <1>1, <1>7, <1>9, RunTurnsTelling


\* Publishing, wiring and recording leave alone what was cut.
LEMMA LaterKeepsTelling ==
  ASSUME NEW most, TellInv(most), MoneyInv', NEW i \in 1..MaxRuns, PublishOne(i) \/ Wire(i) \/ Finish(i)
  PROVE  TellInv(most)'
<1>1. i \in 1..Len(runs) /\ runs[i].step = "publish" /\ UNCHANGED <<source, txns, batch>>
  BY DEF PublishOne, Wire, Finish, AllPublished, At
<1>2. PICK r : r = runs[i]
  OBVIOUS
<1>3. IsRun(r)
  BY <1>1, <1>2 DEF TellInv, MoneyInv, RunsMoney, RunsShape
<1>4. \E q : /\ Goes(i, q) /\ q.files = r.files /\ q.known = r.known /\ q.date = r.date
             /\ q.step \in {"publish", "done"}
  <2>1. CASE PublishOne(i)
    <3>1. \E n : \/ Goes(i, [r EXCEPT !.published = r.published \cup {n}])
                 \/ Goes(i, [r EXCEPT !.failed = r.failed \cup {n}])
      BY <1>2, <1>3, <2>1 DEF PublishOne, IsRun
    <3>2. PICK n : \/ Goes(i, [r EXCEPT !.published = r.published \cup {n}])
                   \/ Goes(i, [r EXCEPT !.failed = r.failed \cup {n}])
      BY <3>1
    <3>3. PICK p, d : p = [r EXCEPT !.published = r.published \cup {n}] /\ d = [r EXCEPT !.failed = r.failed \cup {n}]
      OBVIOUS
    <3>4. /\ p.files = r.files /\ p.known = r.known /\ p.date = r.date /\ p.step = "publish"
          /\ d.files = r.files /\ d.known = r.known /\ d.date = r.date /\ d.step = "publish"
      BY <1>1, <1>2, <1>3, <3>3 DEF IsRun
    <3> QED BY <3>2, <3>3, <3>4
  <2>2. CASE Wire(i)
    <3>1. PICK c : Goes(i, [r EXCEPT !.wired = r.wired \cup {c}])
      BY <1>2, <1>3, <2>2 DEF Wire, IsRun
    <3>2. PICK q : q = [r EXCEPT !.wired = r.wired \cup {c}]
      OBVIOUS
    <3>3. q.files = r.files /\ q.known = r.known /\ q.date = r.date /\ q.step = "publish"
      BY <1>1, <1>2, <1>3, <3>2 DEF IsRun
    <3> QED BY <3>1, <3>2, <3>3
  <2>3. CASE Finish(i)
    <3>1. PICK q : q = [r EXCEPT !.step = "done"] /\ Goes(i, q)
      BY <1>2, <2>3 DEF Finish
    <3>2. q.files = r.files /\ q.known = r.known /\ q.date = r.date /\ q.step = "done"
      BY <1>3, <3>1 DEF IsRun
    <3> QED BY <3>1, <3>2
  <2> QED BY <2>1, <2>2, <2>3
<1>5. PICK q : /\ Goes(i, q) /\ q.files = r.files /\ q.known = r.known /\ q.date = r.date
               /\ q.step \in {"publish", "done"}
  BY <1>4
<1>6. ASSUME RunTells(r, txns) PROVE RunTells(q, txns)
  <2>1. AllTold(q, txns)
    BY <1>5, <1>6 DEF RunTells, AllTold
  <2>2. AllCut(q)
    BY <1>1, <1>2, <1>5, <1>6 DEF RunTells, AllCut, InFiles
  <2> QED BY <1>5, <1>6, <2>1, <2>2 DEF RunTells
<1>7. source = "generate" => RunTells(q, txns)
  BY <1>1, <1>2, <1>6 DEF TellInv
<1> QED BY <1>1, <1>5, <1>7, RunTurnsTelling

\* No client sends more than a word holds, by the most that can be acquired.
Sends(most) == \A b \in Batches : Within(b, most)

LEMMA PostKeepsTelling ==
  ASSUME NEW most, Sends(most), TellInv(most), MoneyInv', NEW b \in Batches, PostTransactions(b)
  PROVE  TellInv(most)'
<1>1. batch' = b /\ Len(txns) + Len(b) <= MaxTxns /\ UNCHANGED <<source, txns, runs>>
  BY DEF PostTransactions
<1>2. StoreFits(most)'
  BY <1>1 DEF TellInv, StoreFits, Sends
<1> QED BY <1>1, <1>2 DEF TellInv

LEMMA AddKeepsTelling ==
  ASSUME NEW most, TellInv(most), MoneyInv', AddOne PROVE TellInv(most)'
<1>1. batch # <<>> /\ UNCHANGED <<source, runs>>
  BY DEF AddOne
<1>2. PICK S, T : batch \in Seq(S) /\ txns \in Seq(T)
  BY DEF TellInv, MoneyInv, AreTransactions, IsSequence
<1>3. PICK n \in Nat, m \in Nat : n = Len(batch) /\ m = Len(txns)
  BY <1>2
<1>4. n # 0 /\ m + n <= MaxTxns /\ MaxTxns \in Nat
      /\ (\A j \in 1..m : txns[j].amount \in -most..most) /\ \A j \in 1..n : batch[j].amount \in -most..most
  BY <1>1, <1>2, <1>3, EmptyIs, AcquirerAssumption DEF TellInv, StoreFits, Within
<1>5. CASE txns' = Append(txns, Head(batch)) /\ batch' = Tail(batch)
  <2>1. PICK t : t = Head(batch)
    OBVIOUS
  <2>2. t = batch[1] /\ 1 \in 1..n
    BY <1>2, <1>3, <1>4, <2>1
  <2>3. txns \in Seq(T \cup {t})
    BY <1>2
  <2>4. Len(txns') = m + 1 /\ txns'[m + 1] = t /\ \A k \in 1..m : txns'[k] = txns[k]
    BY <1>3, <1>5, <2>1, <2>3
  <2>5. Len(batch') = n - 1 /\ \A k \in 1..(n - 1) : batch'[k] = batch[k + 1] /\ k + 1 \in 1..n
    BY <1>2, <1>3, <1>4, <1>5
  <2>6. \A k \in 1..(m + 1) : k = m + 1 \/ k \in 1..m
    BY <1>3
  <2>7. \A k \in 1..(m + 1) : txns'[k].amount \in -most..most
    BY <1>4, <2>2, <2>4, <2>6
  <2>8. \A k \in 1..(n - 1) : batch'[k].amount \in -most..most
    BY <1>4, <2>5
  <2>9. (m + 1) + (n - 1) <= MaxTxns
    BY <1>3, <1>4
  <2>10. StoreFits(most)'
    BY <2>4, <2>5, <2>7, <2>8, <2>9 DEF StoreFits, Within
  <2>11. Extends(txns', txns)
    BY <1>3, <2>4 DEF Extends
  <2>12. source = "generate" => \A i \in 1..Len(runs) : RunTells(runs[i], txns')
    <3>1. ASSUME NEW r, RunTells(r, txns) PROVE RunTells(r, txns')
      <4>1. PICK u : u = txns'
        OBVIOUS
      <4>2. RunTells(r, u)
        BY <2>11, <3>1, <4>1, RunStillTells
      <4> QED BY <4>1, <4>2
    <3> QED BY <3>1 DEF TellInv
  <2> QED BY <1>1, <2>10, <2>12 DEF TellInv
<1>6. CASE txns' = txns /\ batch' = <<>>
  <2>1. Len(batch') = 0
    BY <1>6
  <2>2. m + 0 <= MaxTxns
    BY <1>3, <1>4
  <2>3. StoreFits(most)'
    BY <1>3, <1>4, <1>6, <2>1, <2>2 DEF StoreFits, Within
  <2> QED BY <1>1, <1>6, <2>3 DEF TellInv
<1> QED BY <1>5, <1>6 DEF AddOne

LEMMA CoverageIs == ASSUME ClockTypes PROVE CoverageFor(Now) \in Int
<1>1. PICK t \in Int : t = Now
  BY NowIs
<1>2. DayTicks \in Nat \ {0}
  BY DayIs
<1>3. t - SettlementDelay \in Int
  BY AcquirerAssumption
<1>4. (t - SettlementDelay) \div DayTicks \in Int
  BY <1>2, <1>3
<1> QED BY <1>1, <1>4 DEF CoverageFor

LEMMA TellKeeps ==
  ASSUME NEW most \in Nat, MaxTxns * most < Wrap, Sends(most), TellInv(most), ClockTypes,
         [AcquirerNext]_acquirerVars
  PROVE  TellInv(most)'
<1>0. MoneyInv'
  BY MoneyKeeps DEF TellInv
<1>1. CASE Look
  <2>1. UNCHANGED <<source, txns, batch>> /\ (runs' = runs \/ StartRun(plan.slot, CoverageFor(Now)))
    BY <1>1 DEF Look
  <2>2. CASE runs' = runs
    BY <1>0, <2>1, <2>2 DEF TellInv, StoreFits
  <2>3. CASE StartRun(plan.slot, CoverageFor(Now))
    BY <1>0, <2>1, <2>3, StartKeepsTelling, CoverageIs
  <2> QED BY <2>1, <2>2, <2>3
<1>2. CASE Orders
  <2>1. UNCHANGED <<source, txns, batch>> /\ \E slot : StartRun(slot, CoverageFor(Now))
    BY <1>2 DEF Orders, OrderRun
  <2> QED BY <1>0, <2>1, StartKeepsTelling, CoverageIs
<1>3. ASSUME NEW b \in Batches, PostTransactions(b) PROVE TellInv(most)'
  BY <1>0, <1>3, PostKeepsTelling
<1>4. CASE AddOne
  BY <1>0, <1>4, AddKeepsTelling
<1>5. ASSUME NEW i \in 1..MaxRuns, Step(i) PROVE TellInv(most)'
  BY <1>0, <1>5, ReadKeepsTelling, CutKeepsTelling, LaterKeepsTelling DEF Step
<1>6. CASE PlanNext \/ TimePasses \/ ClockChanges \/ FollowClock \/ UNCHANGED acquirerVars
  <2>1. UNCHANGED <<source, txns, batch, runs>>
    BY <1>6 DEF PlanNext, TimePasses, ClockChanges, FollowClock, acquirerVars, cycle
  <2> QED BY <1>0, <2>1 DEF TellInv, StoreFits
<1> QED BY <1>1, <1>2, <1>3, <1>4, <1>5, <1>6 DEF AcquirerNext, CycleNext

LEMMA TellStarts == ASSUME NEW most, AcquirerInit PROVE TellInv(most)
<1>1. txns = <<>> /\ batch = <<>> /\ runs = <<>>
  BY DEF AcquirerInit, CycleInit
<1>2. MoneyInv
  BY MoneyStarts
<1>3. Len(txns) = 0 /\ Len(batch) = 0 /\ Len(runs) = 0
  BY <1>1
<1>4. StoreFits(most)
  BY <1>3, AcquirerAssumption DEF StoreFits, Within
<1> QED BY <1>2, <1>3, <1>4 DEF TellInv


LEMMA OwedByIs == ASSUME NEW n, NEW mid, NEW ccy, NEW date PROVE OwedBy(n, mid, ccy, date) = Owed(txns, n, mid, ccy, date, date)
<1> QED BY Zenon DEF OwedBy, Owed, Owings

\* What the platform reads of one file.
ReadRight(r, f, paid) ==
  /\ Readable(f.text)
  /\ MetaAmount(f.text) = f.amount
  /\ \E n \in Len(r.known)..Len(txns) :
       /\ \A mid \in DOMAIN paid : paid[mid] = OwedBy(n, mid, f.ccy, r.date)
       /\ \A j \in 1..n : (Covered(txns[j], f.ccy, r.date, r.date)) => txns[j].mid \in DOMAIN paid

LEMMA InvTells == ASSUME NEW most, TellInv(most) PROVE FilesTellWhatWasAcquired
<1> SUFFICES ASSUME source = "generate" PROVE FilesTellWhatWasAcquired
  BY Zenon DEF FilesTellWhatWasAcquired
<1>1. ASSUME NEW r, RunTells(r, txns) PROVE EveryCurrencyIsCut(r)
  <2> SUFFICES ASSUME r.step \in {"publish", "done"}, NEW j \in 1..Len(r.known),
                      Covered(r.known[j], r.known[j].ccy, r.date, r.date)
               PROVE  \E k \in 1..Len(r.files) : r.files[k].ccy = r.known[j].ccy
    BY DEF EveryCurrencyIsCut
  <2>1. AllCut(r) /\ r.step # "currencies" /\ r.step # "cut"
    BY <1>1 DEF RunTells
  <2>2. InFiles(r, r.known[j].ccy)
    BY <2>1 DEF AllCut
  <2> QED BY <2>2 DEF InFiles
<1>2. ASSUME NEW r, RunTells(r, txns), NEW k \in 1..Len(r.files)
      PROVE  ReadRight(r, r.files[k], PayoutsByMid(r.files[k].text))
  <2>1. PICK f : f = r.files[k]
    OBVIOUS
  <2>2. PICK n \in Len(r.known)..Len(txns) : Tells(f, txns, n, r.date)
    BY <1>2, <2>1 DEF RunTells, AllTold
  <2>3. Readable(f.text) /\ MetaAmount(f.text) = f.amount
    BY <2>2 DEF Tells
  <2>4. PICK paid : paid = PayoutsByMid(f.text)
    OBVIOUS
  <2>5. /\ \A mid \in DOMAIN paid : paid[mid] = Owed(txns, n, mid, f.ccy, r.date, r.date)
        /\ \A j \in 1..n : Covered(txns[j], f.ccy, r.date, r.date) => txns[j].mid \in DOMAIN paid
    BY <2>2, <2>4 DEF Tells, TextTells
  <2>6. \A mid \in DOMAIN paid : paid[mid] = OwedBy(n, mid, f.ccy, r.date)
    <3>1. ASSUME NEW mid \in DOMAIN paid PROVE paid[mid] = OwedBy(n, mid, f.ccy, r.date)
      <4>1. PICK ccy, date : ccy = f.ccy /\ date = r.date
        OBVIOUS
      <4>2. OwedBy(n, mid, ccy, date) = Owed(txns, n, mid, ccy, date, date)
        BY OwedByIs
      <4> QED BY <2>5, <4>1, <4>2
    <3> QED BY <3>1
  <2>7. ReadRight(r, f, paid)
    BY <2>2, <2>3, <2>5, <2>6 DEF ReadRight
  <2> QED BY <2>1, <2>4, <2>7
<1>3. \A i \in 1..Len(runs) : RunTells(runs[i], txns)
  BY DEF TellInv
<1>4. \A i \in 1..Len(runs) : EveryCurrencyIsCut(runs[i]) /\ \A k \in 1..Len(runs[i].files) :
        ReadRight(runs[i], runs[i].files[k], PayoutsByMid(runs[i].files[k].text))
  BY <1>1, <1>2, <1>3
<1> QED BY <1>4, Zenon DEF FilesTellWhatWasAcquired, ReadRight

\* No more money is acquired than a word holds (int64 in the code).
Fits == \E most \in Nat : MaxTxns * most < Wrap /\ Sends(most)

\* As long as what is acquired fits a word, whatever is acquired while a run
\* cuts, every file it leaves reads back, merchant by merchant and in its
\* total, as what the store held at one moment of the run, none of what it held
\* when the run began missing, and every currency of that has its file
\* (GenerateSettlementFile, GenerateBambora, formatMajorUnits and, on the
\* platform's side, payoutsByMID, majorUnitAmounts).
THEOREM FilesTell == Fits => (AcquirerSpec => []FilesTellWhatWasAcquired)
<1> SUFFICES ASSUME Fits PROVE AcquirerSpec => []FilesTellWhatWasAcquired
  OBVIOUS
<1> PICK most \in Nat : MaxTxns * most < Wrap /\ Sends(most)
  BY DEF Fits
<1>1. AcquirerInit => ScheduleInv /\ TellInv(most)
  BY ScheduleStarts, TellStarts
<1>2. ScheduleInv /\ TellInv(most) /\ [AcquirerNext]_acquirerVars => ScheduleInv' /\ TellInv(most)'
  BY ScheduleKeeps, TellKeeps DEF ScheduleInv, ScheduleShape
<1>3. TellInv(most) => FilesTellWhatWasAcquired
  BY InvTells
<1> QED BY <1>1, <1>2, <1>3, PTL DEF AcquirerSpec

=============================================================================
