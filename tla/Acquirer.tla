------------------------------- MODULE Acquirer -------------------------------
(***************************************************************************)
(* Worldline's acquiring side (cmd/worldline, internal/worldline): the     *)
(* transactions it holds, the two slots a day in which it cuts them into   *)
(* settlement files, publishes those on its SFTP server and wires the      *)
(* total to the platform's account, and the wait between slots on the      *)
(* lab's clock.  SettlementFile says what a file holds, LabClock what the  *)
(* time is.                                                                *)
(*                                                                         *)
(* The schedule's goroutine, operators' requests for a run and clients     *)
(* that add transactions work beside one another.  The store is locked for *)
(* one read or one addition at a time, so a run looks at it several times. *)
(***************************************************************************)
EXTENDS LabClock, SettlementFile

CONSTANTS
  Batches,                      \* what clients send to be added
  Fixtures,                     \* canned files, [name, text]
  Sources,                      \* WORLDLINE_FILE_SOURCE: "generate" or "fixture"
  Configured,                   \* currencies with a safeguarding account
  MorningAt, AfternoonAt,       \* the slots, in ticks into the day
  Jitter,                       \* a day's delay of the morning slot: even and odd days
  SettlementDelay,              \* how far back a run looks
  MaxTxns, MaxRuns, MaxOrdered  \* bounds: transactions, runs, those operators order

ASSUME AcquirerAssumption ==
  /\ MorningAt \in 0..(DayTicks - 1) /\ AfternoonAt \in 0..(DayTicks - 1)
  /\ Jitter \in [{0, 1} -> Nat]
  \* A window that reaches the afternoon's time would mix up the two slots.
  /\ \A d \in {0, 1} : MorningAt + Jitter[d] < AfternoonAt
  /\ SettlementDelay \in Nat \ {0}
  /\ \A b \in Batches : b \in Seq({b[i] : i \in DOMAIN b}) /\ \A i \in 1..Len(b) : IsTransaction(b[i])
  /\ IsFiniteSet(Fixtures) /\ \A f \in Fixtures : \A x \in 1..Len(f.text) : IsRow(f.text[x])
  /\ MaxTxns \in Nat /\ MaxRuns \in Nat /\ MaxOrdered \in Nat

VARIABLES
  source,              \* what files are cut from; never changes
  txns,                \* the store
  batch,               \* what is left to add of the request in hand
  runs,                \* every run begun, in order
  download, wlnordic,  \* the two directories a file is published in
  credits,             \* what the bank has booked for Worldline's calls
  plan,                \* what labclock.Wait waits for, and the run of the schedule
  looked,              \* Wait has looked at the present time
  since                \* history: the time from which the clock has only ticked

disks == <<download, wlnordic>>
cycle == <<source, txns, batch, runs, disks, credits, plan, looked, since>>
acquirerVars == <<clockVars, cycle>>
-----------------------------------------------------------------------------
(***************************************************************************)
(* The schedule                                                            *)
(***************************************************************************)

Midnight(t) == (t \div DayTicks) * DayTicks

\* nextClock: strictly after now.
NextClock(now, at) ==
  LET t == Midnight(now) + at IN IF t > now THEN t ELSE t + DayTicks

JitterFor(t) == Jitter[(t \div DayTicks) % 2]

\* NextFire: the morning's jitter is added after the comparison.
NextFire(now) ==
  LET morning == NextClock(now, MorningAt)
      afternoon == NextClock(now, AfternoonAt)
  IN  IF morning < afternoon
      THEN [at |-> morning + JitterFor(morning), slot |-> "ER"]
      ELSE [at |-> afternoon, slot |-> "AR"]

\* CoverageFor: one day.
CoverageFor(now) == (now - SettlementDelay) \div DayTicks

\* Running: the schedule's goroutine is inside run.
Waits(next) == [at |-> next.at, slot |-> next.slot, run |-> 0]

NewRun(slot, date) ==
  [slot |-> slot, at |-> Now, date |-> date, known |-> txns, step |-> "currencies",
   ccys |-> <<>>, files |-> <<>>, published |-> {}, failed |-> {}, wired |-> {}]

StartRun(slot, date) == runs' = Append(runs, NewRun(slot, date))

\* Slip: a plan is kept until its time comes.
LookAndKeep ==
  /\ ~looked /\ plan.run = 0
  /\ looked' = TRUE
  /\ IF Now >= plan.at
     THEN /\ Len(runs) < MaxRuns
          /\ StartRun(plan.slot, CoverageFor(Now))
          /\ plan' = [plan EXCEPT !.run = Len(runs) + 1]
     ELSE UNCHANGED <<plan, runs>>
  /\ UNCHANGED <<clockVars, source, txns, batch, disks, credits, since>>

\* Wait, every few seconds: its time has come, or there is an earlier slot now.
Look ==
  /\ ~looked /\ plan.run = 0
  /\ looked' = TRUE
  /\ IF Now >= plan.at
     THEN /\ Len(runs) < MaxRuns
          /\ StartRun(plan.slot, CoverageFor(Now))
          /\ plan' = [plan EXCEPT !.run = Len(runs) + 1]
     ELSE /\ plan' = IF NextFire(Now).at < plan.at THEN Waits(NextFire(Now)) ELSE plan
          /\ UNCHANGED runs
  /\ UNCHANGED <<clockVars, source, txns, batch, disks, credits, since>>

\* The scheduled run is over: the wait begins again.
PlanNext ==
  /\ plan.run # 0 /\ runs[plan.run].step = "done"
  /\ plan' = Waits(NextFire(Now))
  /\ looked' = TRUE
  /\ UNCHANGED <<clockVars, source, txns, batch, runs, disks, credits, since>>

\* runCycle: an operator orders a run of a slot, for yesterday or for a day.
OrderRun(slot, date) ==
  /\ Len(runs) < MaxRuns
  /\ Cardinality({i \in 1..Len(runs) : i # plan.run /\ runs[i].step # "done"}) < MaxOrdered
  /\ StartRun(slot, date)
  /\ UNCHANGED <<clockVars, source, txns, batch, disks, credits, plan, looked, since>>
-----------------------------------------------------------------------------
(***************************************************************************)
(* The transactions                                                        *)
(***************************************************************************)

Valid(t) == t.mid # 0 /\ t.ccy # "" /\ t.amount # 0

\* POST /sim/transactions: one transaction or several.
PostTransactions(b) ==
  /\ batch = <<>>
  /\ Len(txns) + Len(b) <= MaxTxns
  /\ batch' = b
  /\ UNCHANGED <<clockVars, source, txns, runs, disks, credits, plan, looked, since>>

\* Store.Add: the request ends at the first transaction that is not valid,
\* and keeps those before it.
AddOne ==
  /\ batch # <<>>
  /\ IF Valid(Head(batch))
     THEN txns' = Append(txns, Head(batch)) /\ batch' = Tail(batch)
     ELSE batch' = <<>> /\ UNCHANGED txns
  /\ UNCHANGED <<clockVars, source, runs, disks, credits, plan, looked, since>>

\* CurrenciesInRange: any transaction of the day counts, one that does not
\* settle included.
CurrenciesOn(date) == SetToSeq({txns[i].ccy : i \in {j \in 1..Len(txns) : txns[j].date = date}})
-----------------------------------------------------------------------------
(***************************************************************************)
(* A run                                                                   *)
(***************************************************************************)

At(i, step) == i \in 1..Len(runs) /\ runs[i].step = step

Goes(i, run) == runs' = [runs EXCEPT ![i] = run]

CutFile(name, text, ccy, amount) == [name |-> name, text |-> text, ccy |-> ccy, amount |-> amount]

\* cutFromFixtures: the canned files of the slot, as they are; this service
\* does not read them, so they come to nothing.
CutFixtures(slot) ==
  SetToSeq({CutFile(f.name, f.text, "", 0) : f \in {g \in Fixtures : g.name.slot = slot}})

\* Cut begins: which currencies, or the canned files.
ReadCurrencies(i) ==
  /\ At(i, "currencies")
  /\ Goes(i, IF source = "fixture"
             THEN [runs[i] EXCEPT !.files = CutFixtures(runs[i].slot), !.step = "publish"]
             ELSE [runs[i] EXCEPT !.ccys = CurrenciesOn(runs[i].date), !.step = "cut"])
  /\ UNCHANGED <<clockVars, source, txns, batch, disks, credits, plan, looked, since>>

\* Cut goes on: the store is read again for each currency, and a file without
\* a row is left out.
CutOne(i) ==
  /\ At(i, "cut")
  /\ LET r == runs[i]
         f == File(txns, Head(r.ccys), r.date, r.date)
     IN  Goes(i, IF r.ccys = <<>> THEN [r EXCEPT !.step = "publish"]
                 ELSE IF f.items = 0 THEN [r EXCEPT !.ccys = Tail(@)]
                 ELSE [r EXCEPT !.ccys = Tail(@),
                         !.files = Append(@, CutFile([slot |-> r.slot, ccy |-> f.ccy, at |-> r.at],
                                                     Text(f), f.ccy, f.amount))])
  /\ UNCHANGED <<clockVars, source, txns, batch, disks, credits, plan, looked, since>>

Written(dir, f) == [n \in DOMAIN dir \cup {f.name} |-> IF n = f.name THEN f.text ELSE dir[n]]

\* The next file to publish, by its place in the run.
NextFile(r) == Cardinality(r.published) + Cardinality(r.failed) + 1

\* Publish writes a file under one path and then the other.  A failure on the
\* second leaves it under the first; a file that failed adds nothing.
PublishOne(i) ==
  /\ At(i, "publish")
  /\ NextFile(runs[i]) <= Len(runs[i].files)
  /\ LET n == NextFile(runs[i])
         f == runs[i].files[n]
     IN  \/ /\ download' = Written(download, f) /\ wlnordic' = Written(wlnordic, f)
            /\ Goes(i, [runs[i] EXCEPT !.published = @ \cup {n}])
         \/ /\ download' \in {download, Written(download, f)} /\ UNCHANGED wlnordic
            /\ Goes(i, [runs[i] EXCEPT !.failed = @ \cup {n}])
  /\ UNCHANGED <<clockVars, source, txns, batch, credits, plan, looked, since>>

\* What the files of a set of places come to in one currency.
AmountsIn(r, places, ccy) ==
  Signed(SumOf([n \in 1..Len(r.files) |->
                  IF n \in places /\ r.files[n].ccy = ccy THEN r.files[n].amount ELSE 0]))

\* Slip: a file that could not be published counts all the same.
TotalOfAll(r, ccy) == AmountsIn(r, 1..Len(r.files), ccy)

Total(r, ccy) == AmountsIn(r, r.published, ccy)

\* The lump sums of a morning run: a currency at a time, none for a total
\* that is not positive.
ToWire(r) ==
  IF r.slot # "ER" THEN {}
  ELSE {ccy \in {r.files[n].ccy : n \in 1..Len(r.files)} \ {""} : Total(r, ccy) > 0} \ r.wired

AllPublished(i) == At(i, "publish") /\ NextFile(runs[i]) > Len(runs[i].files)

\* wireLumpSum: once, whatever comes of it.  The bank may book the money
\* although its answer is lost.
Wire(i) ==
  /\ AllPublished(i)
  /\ \E ccy \in ToWire(runs[i]) :
       /\ Goes(i, [runs[i] EXCEPT !.wired = @ \cup {ccy}])
       /\ \/ UNCHANGED credits
          \/ /\ ccy \in Configured
             /\ credits' = Append(credits, [run |-> i, ccy |-> ccy, amount |-> Total(runs[i], ccy)])
  /\ UNCHANGED <<clockVars, source, txns, batch, disks, plan, looked, since>>

\* record.
Finish(i) ==
  /\ AllPublished(i) /\ ToWire(runs[i]) = {}
  /\ Goes(i, [runs[i] EXCEPT !.step = "done"])
  /\ UNCHANGED <<clockVars, source, txns, batch, disks, credits, plan, looked, since>>

Step(i) == ReadCurrencies(i) \/ CutOne(i) \/ PublishOne(i) \/ Wire(i) \/ Finish(i)
-----------------------------------------------------------------------------
(***************************************************************************)
(* Time                                                                    *)
(***************************************************************************)

\* Wait looks far more often than the clock ticks here, and a scheduled run
\* takes less than a tick.
TimePasses ==
  /\ looked /\ plan.run = 0
  /\ Tick
  /\ looked' = FALSE
  /\ UNCHANGED <<source, txns, batch, runs, disks, credits, plan, since>>

\* The clock service is asked to move, or restarts.
ClockChanges ==
  /\ (\E r \in Requests : Move(r)) \/ RestartClock
  /\ UNCHANGED cycle

\* Worldline's own poll of it, between one look of Wait and the next.
FollowClock ==
  /\ Poll
  /\ since' = IF follower' = follower THEN since ELSE wall + follower'
  /\ looked' = (looked /\ follower' = follower)
  /\ UNCHANGED <<source, txns, batch, runs, disks, credits, plan>>
-----------------------------------------------------------------------------
CycleInit ==
  /\ source \in Sources
  /\ txns = <<>> /\ batch = <<>> /\ runs = <<>> /\ credits = <<>>
  /\ download = [n \in {} |-> <<>>] /\ wlnordic = [n \in {} |-> <<>>]
  /\ plan = Waits(NextFire(FirstTick)) /\ looked = FALSE /\ since = FirstTick

AcquirerInit == ClockInit /\ CycleInit

Orders == \E slot \in {"ER", "AR"} : OrderRun(slot, CoverageFor(Now))

CycleNext ==
  \/ Look \/ PlanNext \/ Orders
  \/ (\E b \in Batches : PostTransactions(b)) \/ AddOne
  \/ \E i \in 1..MaxRuns : Step(i)

AcquirerNext == CycleNext \/ TimePasses \/ ClockChanges \/ FollowClock

AcquirerSpec == AcquirerInit /\ [][AcquirerNext]_acquirerVars
-----------------------------------------------------------------------------
\* What a merchant is owed by the first n transactions of the store.
OwedBy(n, mid, ccy, date) ==
  SumOf([j \in 1..n |-> IF txns[j].mid = mid /\ Covered(txns[j], ccy, date, date)
                          THEN txns[j].amount ELSE 0])

EveryCurrencyIsCut(r) ==
  r.step \in {"publish", "done"} =>
    \A j \in 1..Len(r.known) :
      Covered(r.known[j], r.known[j].ccy, r.date, r.date) =>
        \E k \in 1..Len(r.files) : r.files[k].ccy = r.known[j].ccy

\* The platform reads in a file, merchant by merchant and in its total, what
\* was acquired up to one moment of the run that cut it: nothing acquired
\* before the run began is missing, whatever was added beside it, and not a
\* cent or a sign is lost on the way through the text.  No currency is missing.
FilesTellWhatWasAcquired ==
  source = "generate" =>
    \A i \in 1..Len(runs) : EveryCurrencyIsCut(runs[i]) /\ \A k \in 1..Len(runs[i].files) :
      LET f == runs[i].files[k]
          paid == PayoutsByMid(f.text)
      IN  /\ Readable(f.text)
          /\ MetaAmount(f.text) = f.amount
          /\ \E n \in Len(runs[i].known)..Len(txns) :
               /\ \A mid \in DOMAIN paid : paid[mid] = OwedBy(n, mid, f.ccy, runs[i].date)
               /\ \A j \in 1..n :
                    (Covered(txns[j], f.ccy, runs[i].date, runs[i].date)) => txns[j].mid \in DOMAIN paid

\* Money reaches the platform's account only for a morning run, once for each
\* of its currencies, and it is what the files the platform can download from
\* that run come to, to the cent (run, wireLumpSum).
MoneyMatchesFiles ==
  /\ \A a, b \in 1..Len(credits) :
       (credits[a].run = credits[b].run /\ credits[a].ccy = credits[b].ccy) => a = b
  /\ \A a \in 1..Len(credits) :
       LET r == runs[credits[a].run]
           files == {n \in r.published : r.files[n].ccy = credits[a].ccy}
       IN  /\ \A n \in files : SlotOf(r.files[n].name) = "ER"
           /\ \A n \in files : r.files[n].name \in DOMAIN download /\ r.files[n].name \in DOMAIN wlnordic
           /\ \E n \in files : files = {n} /\ MetaAmount(r.files[n].text) = credits[a].amount

\* The days between two times.
Days(from, to) == (from \div DayTicks)..(to \div DayTicks)

RanAt(slot, at) == \E i \in 1..Len(runs) : runs[i].slot = slot /\ runs[i].at = at

\* Once Wait has looked, every slot whose time of day came while the clock
\* only ticked has had its run, at that very time, however the clock had been
\* moved before (labclock.Wait, schedule).
TickedSlotsRun ==
  looked /\ plan.run = 0 =>
    \A day \in Days(since, Now) :
      LET midnight == day * DayTicks
          morning == midnight + MorningAt + JitterFor(midnight)
      IN  /\ (since < midnight + AfternoonAt /\ midnight + AfternoonAt <= Now)
               => RanAt("AR", midnight + AfternoonAt)
          /\ (since < midnight + MorningAt /\ morning <= Now) => RanAt("ER", morning)
=============================================================================
