------------------------------- MODULE LabClock -------------------------------
(***************************************************************************)
(* The lab's business clock (internal/labclock, cmd/clock): one service    *)
(* owns an offset from the real time, clients move it or hold it still,    *)
(* and every vendor polls it.  A vendor's own "now" is the wall clock and  *)
(* the offset its last good poll read.                                     *)
(*                                                                         *)
(* Time is a number of ticks, several to the hour, so that an hour and a   *)
(* part of one can be told apart; day 0 is a Monday.  Every method of the  *)
(* service holds its mutex throughout, so each is one action.              *)
(***************************************************************************)
EXTENDS Integers, FiniteSets, FiniteSetsExt

CONSTANTS
  TicksPerHour, HoursPerDay, \* 24 hours in the code; shorter days keep instances small
  Calendars,                 \* settlement calendars
  Zone,                      \* each calendar's distance from UTC, in ticks
  Holidays,                  \* each calendar's bank holidays, as days
  Holders,                   \* those that may hold the clock
  MaxHold,                   \* the cap on a hold
  Requests,                  \* the moves clients ask for
  StartRequests,             \* CLOCK_START: at most one move when the service starts
  FirstTick, LastTick,       \* bounds of the wall clock
  MaxMoves, MaxClockRestarts \* bounds

DayTicks == TicksPerHour * HoursPerDay

ASSUME LabClockAssumption ==
  /\ TicksPerHour \in Nat \ {0} /\ HoursPerDay \in Nat \ {0}
  /\ Zone \in [Calendars -> Int]
  /\ \A c \in Calendars : Holidays[c] \subseteq Int
  /\ MaxHold \in Nat \ {0}
  /\ FirstTick \in Int /\ LastTick \in Int /\ FirstTick <= LastTick
  /\ MaxMoves \in Nat /\ MaxClockRestarts \in Nat
  /\ StartRequests # {} /\ \A r \in StartRequests : r.kind # "bad" \* or it does not start
  /\ \A r \in Requests \cup StartRequests :
       \/ r.kind = "at" /\ r.at \in Int
       \/ r.kind = "advance" /\ r.by \in Int
       \/ r.kind = "mode" /\ r.mode \in {"real", "auto"}
       \/ r.kind = "bad"

VARIABLES
  wall,          \* the real clock
  mode, offset,  \* how the offset is decided; the pinned one
  holds,         \* s.holds: from holders to when their hold expires
  follower,      \* a vendor's copy of the offset
  moves,         \* accepted moves, for the bound
  clockRestarts  \* restarts of the service, for the bound

clock == <<mode, offset, holds, moves, clockRestarts>>
clockVars == <<wall, clock, follower>>
-----------------------------------------------------------------------------
\* A date on a calendar; the service asks about weekends and bank holidays.
DateOn(c, at) == (at + Zone[c]) \div DayTicks

BusinessDayOn(c, at) ==
  LET day == DateOn(c, at) IN day % 7 \notin {5, 6} /\ day \notin Holidays[c]

\* Stricter than any one calendar's rule.
BusinessDay(at) == \A c \in Calendars : BusinessDayOn(c, at)

\* How many whole hours back from here the most recent business day is,
\* looking through the six days the code looks through.
HoursBack(from) == {h \in 0..(6 * HoursPerDay - 1) : BusinessDay(from - h * TicksPerHour)}

\* Slip: back a day at a time.
OffsetWholeDays(m, off, real) ==
  CASE m = "pinned" -> off
    [] m = "auto" /\ HoursBack(real) # {} ->
         -DayTicks * ((Min(HoursBack(real)) + HoursPerDay - 1) \div HoursPerDay)
    [] OTHER -> 0

\* offsetLocked: recomputed at every read when the mode is automatic, and
\* none when no business day was found.
OffsetIn(m, off, real) ==
  CASE m = "pinned" -> off
    [] m = "auto" /\ HoursBack(real) # {} -> -TicksPerHour * Min(HoursBack(real))
    [] OTHER -> 0

Offset == OffsetIn(mode, offset, wall)

\* What GET /clock answers, and what a vendor that follows it thinks.
LabNow == wall + Offset
Now == wall + follower

\* liveHoldsLocked drops those that have expired.
LiveHolds(hs, real) == [h \in {x \in DOMAIN hs : real < hs[x]} |-> hs[h]]
-----------------------------------------------------------------------------
NoHolds == [h \in {} |-> 0]

\* resolve: the mode and offset a request asks for.  An advance starts from
\* the offset in force, whatever decided it.
Resolved(r, m, off, real) ==
  CASE r.kind = "at"      -> [mode |-> "pinned", offset |-> r.at - real]
    [] r.kind = "advance" -> [mode |-> "pinned", offset |-> OffsetIn(m, off, real) + r.by]
    [] OTHER              -> [mode |-> r.mode, offset |-> 0]

\* Move: refused while anybody holds the clock, or when it makes no sense.
Move(r) ==
  /\ moves < MaxMoves
  /\ holds' = LiveHolds(holds, wall)
  /\ IF DOMAIN holds' # {} \/ r.kind = "bad"
     THEN UNCHANGED <<mode, offset, moves>>
     ELSE /\ mode' = Resolved(r, mode, offset, wall).mode
          /\ offset' = Resolved(r, mode, offset, wall).offset
          /\ moves' = moves + 1
  /\ UNCHANGED <<wall, follower, clockRestarts>>

\* Take places or renews a hold; its life is capped.  Nothing is dropped here.
Take(h, ttl) ==
  /\ holds' = [x \in DOMAIN holds \cup {h} |->
                 IF x = h THEN wall + (IF ttl > MaxHold THEN MaxHold ELSE ttl) ELSE holds[x]]
  /\ UNCHANGED <<wall, mode, offset, follower, moves, clockRestarts>>

Release(h) ==
  /\ h \in DOMAIN holds
  /\ holds' = [x \in DOMAIN holds \ {h} |-> holds[x]]
  /\ UNCHANGED <<wall, mode, offset, follower, moves, clockRestarts>>

\* One good poll of a follower: GET /clock, then Set.  One that fails leaves
\* the last offset standing, and changes nothing.
Poll ==
  /\ holds' = LiveHolds(holds, wall)
  /\ follower' = Offset
  /\ UNCHANGED <<wall, mode, offset, moves, clockRestarts>>

\* What a service that starts does: the real clock, then CLOCK_START.
Started(r) == Resolved(r, "real", 0, wall)

RestartClock ==
  /\ clockRestarts < MaxClockRestarts
  /\ clockRestarts' = clockRestarts + 1
  /\ holds' = NoHolds
  /\ \E r \in StartRequests : mode' = Started(r).mode /\ offset' = Started(r).offset
  /\ UNCHANGED <<wall, follower, moves>>

Tick ==
  /\ wall < LastTick
  /\ wall' = wall + 1
  /\ UNCHANGED <<clock, follower>>
-----------------------------------------------------------------------------
ClockInit ==
  /\ wall = FirstTick
  /\ \E r \in StartRequests : mode = Started(r).mode /\ offset = Started(r).offset
  /\ holds = NoHolds
  /\ follower = 0
  /\ moves = 0 /\ clockRestarts = 0

Clients ==
  \/ \E r \in Requests : Move(r)
  \/ \E h \in Holders, ttl \in 1..(MaxHold + 1) : Take(h, ttl)
  \/ \E h \in Holders : Release(h)

ClockNext == Clients \/ Poll \/ RestartClock \/ Tick

ClockSpec == ClockInit /\ [][ClockNext]_clockVars
-----------------------------------------------------------------------------
\* On the automatic clock every date the lab shows is a business day on every
\* calendar as long as one lies within the six days looked through, whatever
\* the wall clock has done since the mode was chosen (offsetLocked).
AutoIsABusinessDay ==
  (mode = "auto" /\ \E h \in 0..(6 * HoursPerDay - 1) : BusinessDay(wall - h * TicksPerHour))
    => \A c \in Calendars : BusinessDayOn(c, LabNow)

\* The clock is steady.  On automatic it is a business day everywhere.  While
\* a hold lives nothing moves it, so that whatever a client that took one does
\* until then falls on the time it saw; the clock service may lose a hold only
\* by restarting (Hold, Move).  And left alone, the lab's time never slips back
\* by an hour or more: over a weekend the automatic clock repeats a day's
\* hours, but it never shows an earlier day (mostRecentBusinessDay steps back
\* an hour at a time).
Steady ==
  [][/\ AutoIsABusinessDay'
     /\ (\E h \in DOMAIN holds : wall < holds[h]) /\ clockRestarts' = clockRestarts
          => UNCHANGED <<mode, offset>>
     /\ UNCHANGED <<moves, clockRestarts>> => LabNow' > LabNow - TicksPerHour]_clockVars
=============================================================================
