----------------------------- MODULE MCWorldline -----------------------------
(***************************************************************************)
(* Instances of LabClock and Acquirer for TLC.  A run looks at one of      *)
(* three subjects, chosen at the start: the clock, with everything its     *)
(* clients may do to it; the cycle, its files and its money on a clock     *)
(* that only ticks; and the schedule on a clock that is moved, with        *)
(* nothing to settle.                                                      *)
(***************************************************************************)
EXTENDS Acquirer, TLC

CONSTANTS uk, se, p, CycleLast, Subjects

VARIABLE subject

\* Days of two hours; the second calendar is a part of an hour ahead, and its
\* first Friday is a holiday.
MCZone == (uk :> 0) @@ (se :> 1)
MCHolidays == (uk :> {}) @@ (se :> {4})

MCRequests ==
  {[kind |-> "at", at |-> 21], [kind |-> "advance", by |-> -3], [kind |-> "advance", by |-> 6],
   [kind |-> "mode", mode |-> "auto"], [kind |-> "mode", mode |-> "real"], [kind |-> "bad"]}
MCStart == {[kind |-> "mode", mode |-> "real"], [kind |-> "mode", mode |-> "auto"]}

\* Wednesday's transactions, a day before the cycle begins: sales in two
\* currencies, a refund of a few cents, an entry that does not settle, and a
\* request that ends half way.
Sale(mid, ccy, amount) == [mid |-> mid, ccy |-> ccy, amount |-> amount, date |-> 2, type |-> ""]
MCBatches ==
  {<<Sale(1, "GBP", 1050), [Sale(2, "GBP", -5) EXCEPT !.type = "Refund"], Sale(1, "GBP", 1050)>>,
   <<Sale(1, "EUR", 199), Sale(2, "EUR", -70), Sale(1, "EUR", 0)>>}

MCFixtures ==
  {[name |-> [slot |-> "ER", ccy |-> "GBP", at |-> 0],
    text |-> <<Header, [type |-> "Settlement", amount |-> MajorUnits(700), ccy |-> "GBP", date |-> 2, items |-> 0]>>]}

MCJitter == (0 :> 1) @@ (1 :> 0)
NoJitter == (0 :> 0) @@ (1 :> 0)

vars == <<acquirerVars, subject>>

Init ==
  /\ AcquirerInit
  /\ subject \in Subjects
  /\ subject # "cycle" => source = "generate"
  /\ subject = "cycle" => mode = "real"

ClockAlone == subject = "clock" /\ ClockNext /\ UNCHANGED <<cycle, subject>>

\* Each request is sent once, and there are two requests or two runs.
Small ==
  /\ (batch = <<>> /\ batch' # <<>>) => \A i \in 1..Len(txns) : txns[i] # Head(batch')
  /\ Len(runs') = 2 => Len(txns') + Len(batch') <= 3

CycleAlone ==
  /\ subject = "cycle"
  /\ CycleNext \/ (wall < CycleLast /\ TimePasses)
  /\ Small
  /\ UNCHANGED subject

ScheduleAlone ==
  /\ subject = "schedule"
  /\ \/ Look \/ PlanNext \/ TimePasses \/ ClockChanges \/ FollowClock
     \/ \E i \in 1..MaxRuns : Step(i)
  /\ UNCHANGED subject

Next == ClockAlone \/ CycleAlone \/ ScheduleAlone

Spec == Init /\ [][Next]_vars
=============================================================================
