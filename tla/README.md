# Verification of fintechlab-simple

The repository is a lab of small Go services that stand in for the parties of a
card-settlement chain: an acquirer (Worldline) that publishes settlement files and
wires lump sums, a settlement platform that reads them and orders payouts, a payment
provider (B4B) that approves payouts, and a bank (Banking Circle) that books them,
moves the money and tells its subscribers. Everything is in memory or in one JSON file
per service, and everything runs on a simulated clock, so behaviour that takes two days
at a real bank happens in seconds, with goroutines sleeping on lab time.

This directory holds TLA+ models of that code, TLC configurations that check them on
small instances, and TLAPS proofs of theorems about them. `PROJECT.json` is the index:
it maps every definition to the lines it models, lists the runs, a slip of the code
that breaks each property (the definitions commented "Slip:"), the hazards and the
theorems.

    tlc -config MCDispatcher.cfg MCDispatcher        # a run
    tlapm DispatcherProofs.tla                       # the proofs of a module

## 1. Inventory

State in memory is lost at a restart unless it is said to be saved.

| Component | State | Operations | Interacts with |
|---|---|---|---|
| **Banking Circle ledger and payments** `internal/bankingcircle/{ledger,payment}.go` | accounts with balance and the day's opening balance; payments by id; queue of forced outcomes | Create, CreditIncoming, Reverse, Return, ForceNextOutcomes, balances | called by B4B's bridge, Worldline's wire and the console; tells the dispatcher of every transition |
| **Banking Circle reports** `reports.go` | none | intraday reconciliation, rejections, for a transaction date | reads payments; a sweep in the platform relies on them |
| **Banking Circle business date** `businessdate.go` | none | cut-off and weekend roll | reports, payments |
| **Banking Circle dispatcher** `dispatcher.go`, `delivery.go` | per subscription a batch and its timer, what is retained, the pause switch and what is parked | Enqueue, Flush, deliver and retry, Redeliver, Pause, Resume | transitions in, HTTPS out, deactivates subscriptions |
| **Banking Circle subscriptions** `subscription.go`, `cmd/.../subscriptions.go` | subscriptions with events and targets, row versions, mails | create, update, activate, deactivate, delete, events, targets | asked by the dispatcher and by onTransition |
| **Banking Circle tokens and HTTP** `cmd/bankingcircle/main.go` | token table | authorize, routes | |
| **B4B payments** `internal/b4b/{payment,state}.go`, `cmd/b4b/{payments,main}.go` | payment state machine, saved in a file; beneficiaries | submit, sanctions, monitoring, approve and bridge, callbacks, save, restore | orders from Settlement, bridge to Banking Circle, callback to Settlement |
| **B4B directory and beneficiaries** | people, beneficiaries, sanctions status | create, screen, look up | B4B payments |
| **Settlement records** `internal/settlement`, `cmd/settlement/main.go` | records with state, report and payout, saved at each change | schedule, settle, submit payout, retry, webhook, cut-off loop | orders B4B, reads the bank's balance, gets B4B's webhook |
| **Settlement file delivery** `cmd/settlement/worldline_pull.go` | claimed file names, archive directory | list, claim, download, archive, process | Worldline's file channel |
| **Worldline cycle** `internal/worldline/{transaction,cycle}.go`, `cmd/worldline/cycle.go` | transactions, cycle ids, jobs in flight | add transactions, cut, publish, wire lump sum, schedule | lab clock, file channel, Banking Circle |
| **Worldline settlement file** `bambora.go`, `parse.go` | none | generate and parse CSV | cycle, delivery |
| **Worldline enrolment desk** `enrolment.go` | batches seen, armed rejections | sweep the inbox, answer on demand, build receipt | file channel |
| **Worldline transport and channel** `wlsftp`, `sshftp`, `sftpgateway`, `sftp` | directories | SSH, SFTP, PGP, file drops | |
| **Lab clock** `internal/labclock`, `cmd/clock` | mode, offset, holds with expiry; each follower's copy of the offset | move, take and release a hold, poll, wait | every service that sleeps |
| **Core bank** `cmd/bank`, **payment API** `cmd/paymentapi`, **notifier** and **receiver** | accounts; payments by idempotency key; outbox; events received | transfer, create payment, deliver with retry and signature | one another |
| **ACI gateway** `cmd/aci` | notifications and attempts | put, deliver | |
| **Verification** `internal/verify`, `cmd/verify` | decisions | trigger, get | Settlement's gate before a payout |
| **Verification vendors** `cmd/verification` | outcomes an operator sets, tokens | token, answers of four vendors | |
| **Console** `internal/console`, `cmd/console` | cards of registered platforms, wishes last applied, what is shown; merchants with their outlets, saved in a file | register, renew and unregister a platform; switch stand-ins; fund accounts; move the clock; create, delete and provision merchants | switches wirings at Settlement and ACI, the bank's subscription; credits the bank; registers payees at B4B; reads everything |
| **Harness, utilities** | test drivers; ring of events, switch, money and id conversions | | drive all of the above |

What makes each correct, and what is hard about it:

- *Ledger and payments.* Two mutexes and one goroutine per payment: `process` moves the
  money under the ledger's lock and sets the state under the engine's, later. Reversals,
  returns, a second payment under the same id and a midnight can fall between. Right
  means: the records explain every cent at all times, an unfunded payment moves nothing,
  a payout comes back at most once, and the notifications agree with the record.
- *Dispatcher.* Full batches, timers, retries that take simulated days, pauses,
  deactivation after the last retry, reactivation and deletion race over five tables.
  Right means: nothing is lost, nothing is doubled, nothing is stranded in a table with
  nobody coming for it.
- *Subscriptions.* Compare-and-set on a row version over several routes, some of which
  do not ask for it; an update refused half way.
- *Reports.* They are computed from live payments when asked for, while payments change
  and dates roll.
- *B4B.* Restart from a snapshot with goroutines in flight, callbacks in any order, a
  bridge whose answer may be lost. Right means: an approved payment is bridged once.
- *Settlement.* Check-then-act on records and balances, timeouts whose request was
  taken, webhooks that overtake the answer. Right means: nothing but a lost
  answer or overlapping retries pays a record twice, and its payout is one B4B made for it.
- *File delivery and cycle.* Crashes between claim, archive and process; jobs that wire
  twice when the clock goes back. Right means: each transaction is in one file, each file
  is processed once, each lump sum is wired once.
- *Enrolment desk.* Two answerers for one inbox. Right means: one receipt per batch.
- *Lab clock.* A wait planned against a clock that is moved or held.
- *B4B directory.* Checks and creation in separate lock sections, payees known by id, by
  reference or not at all, saves that overlap and are written in any order. Right means:
  what may exist once is created once, and a block holds under every name; over a restart
  too, if it was saved with no other save under way.
- *Payment API, core bank and notifier.* Idempotency as check-then-act; calls whose answer
  is lost; at-least-once delivery. Right means: the three services' books agree, and a key
  moves money once unless its requests were handled at once.
- *Verification.* A decision that is ready later, and a gate that forgives silence. Right
  means: a decline that was heard holds.
- *Console.* Preferences carried out call by call in the background, checks in one call and
  acts in another, a registry that is written whole beside calls to B4B with the lock let
  go, outlets found by a hash that may clash, two sides that restart on their own. Right
  means: a wiring is as it was asked last, an act rests on what was looked at, and an
  outlet says of itself what the rail has.

## 2. Plan

All modules below exist.

| # | Module | Models | Composed with | Abstract specification |
|---|---|---|---|---|
| 1 | `Dispatcher` | the dispatcher and its callers | `NotificationPipe` | `NotificationPipe` |
| 2 | `PaymentEngine`, `PaymentReports` | ledger, payments, internal routes; reports | `PaymentReports` extends it | `PaymentLifecycle` |
| 3 | `SubscriptionStore` | row versions, If-Match, events, targets | | none: `ReadStaysTrue` says a version names its contents |
| 4 | `B4BPayout` | lifecycle, persistence, restart, bridge, callbacks | `Settlement` has its own small B4B | none: `AnsweredIsKept` says what a restart may not take back |
| 5 | `Settlement` | records, payouts, retries, webhooks; files from claim to process | | none: `PaidAsOwed` says what may pay twice |
| 6 | `LabClock`, `SettlementFile`, `Acquirer` | the clock, the file's contents, the cycle | `Acquirer` extends both | none: `OwedBy` is what a file must say |
| 7 | `EnrolmentDesk` | sweep and operator over one inbox | | none |
| 8 | `B4BDirectory` | boarding, screening, payees, their saves | `B4BPayout` takes the payment and the save over | none |
| 9 | `Webhooks`, `PaymentPath` | simple senders and receiver; payment API and core bank | `PaymentPath` extends `Webhooks` | none: `BooksAgree` relates the services |
| 10 | `Verification` | the service and the platform's gate | `Settlement` has the gate as a choice | none |
| 11 | `Console` | platforms' cards, stand-ins, funding, the clock's lock | `Webhooks` has the card gateway's switch, `SubscriptionStore` the bank's If-Match | none: `asked` is what the switches are to be |
| 12 | `MerchantRegistry` | merchants, batches, provisioning at B4B, the rail's payees and their restart | `B4BDirectory` has payees with their accounts, gates and overlapping saves | none |

What is left to do, in order:

1. A composition of Settlement's payouts with the bank's ledger.
2. The business-date arithmetic as a function over bounded inputs.

Every invariant a run checks has its theorem; what stays with TLC is in section 15.

A module has one safety run, and a liveness run where something must happen; modules that
share nothing are subjects of one run, one at a time. A violation run is spent on a
documented claim the code does not keep.

## 3. The dispatcher

**Modules.** `Dispatcher` is the code, with the mapping to `NotificationPipe`, which is what
it promises; `MCDispatcher` instantiates it; `DispatcherProofs` proves it.

**State.** `queue` and `timer` are `d.queues[sub].items` and `.timer`; `pending`,
`paused`, `queued` are the fields of those names. `status` and `size` are what the
subscription store answers. `proc` holds the goroutines that are inside the dispatcher,
each a record with a control point. `acked`, `dropped` and `mail` record outcomes, and
`to` remembers the subscription each notification was produced for; a notification is
its number in the order of production.

**Actions.** One action is one critical section of `d.mu`, one call on the store, or one
HTTP attempt. `EnqueuePark`, `EnqueueWait` and `EnqueueFull` are the steps of `Enqueue`;
`TimerFires`, `Flush` and `FlushLookup` the timer's goroutine; `DeliverPark`, `SendOk`,
`SendFails`, `WakeUp`, `Retain`, `Deactivate` the loop of `deliverSync`; `Redeliver`
follows `Activate`; `Pause` and `Resume` are the operator's switch; `Notify`,
`ClientTest`, `SimNotifications`, `ClientDeactivates`, `Delete`, `UpdateSize` are what
the bank, the client and the console do. The timer has three values because a Go timer
that has fired is still in `q.timer` until someone clears it.

**Abstractions.** The HTTP exchange and the envelope's encryption are two outcomes.
A sleep is a wait of any length. Notifications carry
no contents. The code starts a goroutine whenever it wants one; the number of slots is a
bound of the model.

### Runs

| Run | Shows | Bounds |
|---|---|---|
| `dispatcher_safety` | `NothingLost`, `NoTwin`, `NothingStranded` (of retained, parked and waiting notifications) | 1 subscription, 3 goroutines, 3 notifications, batches of 1 or 2, 1 retry |
| `dispatcher_live` | every notification comes to rest; reactivation redelivers; `NotificationPipe` is implemented | 1 subscription, 3 goroutines, 2 notifications, batches of 2 |

Every table is keyed by subscription and no critical section touches two, so one
subscription shows all there is, and the proofs cover any number. Three goroutines are
enough for a full batch, a timer's flush and a client's call to be inside at once; three
notifications for a full batch with another one behind it. One retry has a first attempt,
a last attempt and a mail, and the longer schedule repeats the same steps.

**Fairness.** A goroutine that can run does (`WF` per goroutine). Starting a goroutine is
strongly fair: Go always has room for one, while the model's slots are a bound that
others could keep occupied. A fired timer's goroutine is of that kind. Nothing is assumed
of the endpoint, the client or the operator.

### Proofs

For any constants that satisfy `DispatcherAssumption`:

- `TypeCorrect`: `TypeOK`, by the inductive invariant `Typed`, which adds `Hands` (which
  goroutine holds a batch or a todo list at which point). `TypeOK` alone is not
  inductive: `Head(todo)` is a notification only where the list is known not to be empty.
- `PausedQueueSafe`, `RetainedSafe`, `BatchFlushSafe`: the three conjuncts of
  `NothingStranded`, and `NothingStrandedSafe` that itself. `Touches` and its kin say which actions change a table at all, and
  `OwnStep` that an action changes the goroutine that takes it and, for a full batch, one
  idle slot; what is left is one case per action that can hurt. For `QueueHasFlush` the
  strengthening `FlushComing` also says a fired timer has its goroutine: without it, a
  batch that finds the timer set has no reason to expect anyone.
- `NoNotificationLost`: `NothingLost`, by `AllAccounted`, which says where each produced
  notification is by quantifying over the tables and goroutines in place of one union; a
  step moves a range from one place to another, and the range lemmas at the head of the
  module say nothing falls out.

- `NoNotificationTwice`: `NoTwin`, by `Single`. The tables and the goroutines' hands are
  boxes: `queue`, `pending` and `queued` of each subscription, and the batch or todo list of
  each goroutine. `Single` says that what is still about is in exactly one box, once, and
  that what has ended has ended in one way. Every action is one of a few moves of boxes
  (`Traffic`): one box is emptied into another, a new notification comes into one, a hand
  is filled from a queue, a box ends. Each move is shown to keep boxes apart, whatever
  they hold.
- `DispatcherImplementsPipe`: the refinement, `Spec => PipeSpec`, over the same moves.
  `Placed` says that the pipe's `place` of a notification is the one its box stands for,
  which needs `Single`: the mapping asks one table after the other, and a second copy would
  hide the first. `Aimed` says that a box holds notifications for its own subscription only.

Only model-checked: the two liveness properties. Type invariants
are proved here and in sections 4 to 7, for every value of the constants, so no run
repeats them.

## 4. The bank: ledger, payments, reports

**Modules.** `PaymentEngine` is the code of the ledger and the engine; `PaymentLifecycle`
is a bank with no goroutines; `PaymentReports` adds the two reports; `MCPaymentEngine`
instantiates them; `PaymentEngineProofs` proves theorems about the engine and the reports' lines.

**State.** `cents`, `openDay`, `openCents` are the fields of an account and `known` is
the set of accounts that exist. `heap` is every payment object ever made, `table` the
objects `e.payments` still holds: a second POST with a `paymentId` in use replaces the
record and leaves the first payment's goroutine with a pointer to the old one. `work` is
where each payment's goroutine, and a caller reversing it, stand. `forced` is the queue of
forced outcomes, `sent` the notifications handed over, `clock` the lab clock. Three
histories are not in the code and give `DayAmounts` something to be true against: `eve`
(what each account held before its last movements of each day), `dawn` (the balances when
the clock last came to a new day) and `past` (the days it has been on and left).

**Actions.** `Create`, `NotifyBooked`, `ProcessMove`/`ForcedRejection`, `Settle`,
`NotifySettled` are the life of an outgoing payment, one critical section each;
`CreditIncoming`, `Register`, `NotifyBooked`, `ProcessIncoming`, `NotifySettled` of an
incoming one. `Reverse` and `Return` hold the engine's lock while they take the ledger's,
so each is one step, with notifications after the unlock. `Tick` is the lab clock's
follower, which takes the bank's clock to any other instant: time passes, and an operator
may set the lab's clock forwards or back (`labclock/server.go:305-328`).

**Abstractions.** The clock read just before a lock is taken is part of the step that
takes it. Reference numbers, account currencies, beneficiary details and the credit
forwarded to the beneficiary's bank are left out. Amounts are small naturals; `int64`
overflow of a balance is not modelled. The business date is a constant map of instants
to dates. A return and its payout are linked by the object, where the code has their ids,
which a record that replaced the payout shares. A report line is its payment, the booking
it tells of and its date; the time of the last status change it also shows is left out.
The in-memory engine is lost in a restart, which leaves nothing to relate.

### Runs

| Run | Shows | Bounds |
|---|---|---|
| `bank_engine` | `LedgerExplained`, `ComesBackOnce`, `StreamTellsRecord`, `LifecycleSpec` | 2 safeguarding accounts, 4 payments, 2 ids, one instant |
| `bank_days` | `DayAmountsTrue`, `ProcessedLinesKept`, `PaymentsResolve` | 1 safeguarding account, a creditor opened on demand, 3 payments, a forced outcome, 2 days, the clock set back once |
| `bank_reports` | finding: a payment in neither report | cut-off between instants 1 and 2, midnight before 3 |

Four payments are the shortest history in which a return is answered by a second reversal
that the accounts could pay for: a credit, another to the payee, a payout, a return. One amount suffices because two
payments of one amount already make a balance too small for a third. `CreditsFirst`
keeps the incoming credits ahead of the payouts in `bank_engine`; incoming and outgoing
payments meet only in the ledger's atomic step, and `bank_days` has no such constraint.
`ForcedFirst` limits when an outcome is forced, and `SetBackOnce` how often the clock is
set, acts of the operator, not of the code: a movement on either day, the clock set back
and a third movement on the day it had left is the shortest history that a stale opening
balance could come out of.
Both runs stop when the bound on payments is reached, so they do not check deadlock.

**Fairness.** Each payment's goroutine runs and its delay ends: weak fairness for every
payment object. Nothing is assumed of callers or the clock.

### Proofs

For any constants that satisfy `EngineAssumption`:

- `BankTypeCorrect`: `TypeOK`, inductive as it stands. Its arithmetic part is the claim
  worth having: no balance is ever negative, since a move checks and subtracts in one
  critical section.
- `PayoutComesBackOnce`: `ComesBackOnce` by `BackInv`, which adds `Progress` (what state a
  payment can be in at each point of its goroutine) and `LinksInHeap`. Without `Progress`,
  `Settle` could overwrite a state that a reversal had set: the invariant says that
  a payment whose goroutine has yet to settle is still booked, so `CanComeBack`, which asks for
  processed, excludes it. The lemmas named `...Shape` reduce every action to "one payment
  changes, keeping its terms" or "one payment is added", and the invariant is then shown for those
  three shapes (a step, an entry, a return).

- `DayAmountsCorrect`: `DayAmountsTrue` by `DayInv`, for any calendar and a clock that is
  set at will. The one day and balance an account keeps are enough for every day: on the
  day of its last movement it is the balance kept, on any other what the account holds. And an account has only
  moved on days the clock has been on, so on a new one what it holds is its opening
  balance.
- `EngineImplementsLifecycle`: the refinement, `Spec => LifecycleSpec`. A payment's fate is
  read off its state and its goroutine's point together, so that it changes in
  `ProcessMove`, when the money does, and `Settle` is a stutter. `Progress` and
  `ComesBackOnce` are what makes it one: without them `Settle` could undo a fate.

- `LedgerIsExplained`: `LedgerExplained`, from `BackInv`. `SumTo` is a recursive function,
  and what a proof needs of it is three lemmas: one number more (`SumStep`), equal numbers
  (`SumSame`), one number replaced (`SumReplace`). They are shown by induction over the
  numbers, which is stated of a set (`Induct`). A step then moves what one payment took
  and brought by as much as the accounts (`LedgerStepOf`), or adds a payment with
  what it took and brought so far (`LedgerEnter`): nothing, or for a credit and a return its
  whole amount.
- `StreamIsRight`: `StreamTellsRecord` by `StreamInv`, which counts. What has been told of a
  payment is what its own goroutine has come to tell plus what `Reverse` has; the
  goroutine may still be about to tell of a state that `Reverse` has already replaced, and tells of
  the one it settled in (`FinalOf`). That is the interleaving in which the notifications arrive
  in another order than the states came about.
- `LinesStay`: `ProcessedLinesKept`, also under `ReportsAssumption` (every instant has a
  business date), by `LinesInv`: a payment has a processed time exactly when it
  was processed, and until it is reversed that is also its last change. So the line that a
  reversal writes with the processed time is the one that was there with the last change.

Only model-checked: `PaymentsResolve`, a liveness property.

## 5. The subscription store

**Modules.** `SubscriptionStore` is the store and the clients of its routes;
`MCSubscriptionStore` instantiates it; `SubscriptionStoreProofs` proves it.

**State.** `subs` and `events` are the maps `s.subs` and `s.events`, functions from the
ids in use; `idSeq` and `rowSeq` count the ids and row versions handed out, so that later
means larger. `seenSub` and `seenEv` are not in the store: they are the last answer each
client holds, and its row version is the If-Match the client sends.

**Actions.** Every method holds the store's mutex, so `Create`, `Update`, `SetActive`,
`Deactivate`, `Delete`, `AddEvent`, `ReplaceTargets` and `DeleteEvent` are one step each.
`Switch` is the part `SetActive` and `Deactivate` share, `Read` an answer that carries a
subscription. A refused call changes nothing and is no action, except for an update that
is refused at the key or the batch limit (`UpdateRefused`): the fields before it are set.
`Recipients` is the fan-out of one transition, `Matching` its filter.

**Abstractions.** `sub.Events` is a set: the list is in order of creation, ids are too,
and `Min` is the first match of a scan. `isActive` and `status` are set together and are
one field. Field values are members of small sets; validation is membership, and a value it refuses is
`Invalid`. Timestamps, mutual TLS and mails are left out. Handlers read a live pointer
after the unlock; the model reads it in the step.

### Runs

| Run | Shows | Bounds |
|---|---|---|
| `subscriptions` | `FanOutRight`, `IndexAgrees`, `ReadStaysTrue`, `NoBlindWrite` | 2 clients, 2 endpoints, 2 limits, 2 types; "versions": 3 ids, 5 row versions; "fan out": 1 client, 1 limit, 1 target, 4 ids, 7 row versions |
| `subscriptions_update` | finding: one client's refused update writes under a row version another client may still write with | 3 row versions |

The first run looks at one of two subjects, chosen at the start. Versions: three ids make
two subscriptions and an event, or one subscription and two events; five versions are
enough for an event of a subscription that is switched and then written to by a client
that read it before. Fan out: who is told needs two subscriptions with an event each,
hence four ids and six versions, and one more to switch one of them; it says nothing of
what clients remember, so one client does. The runs end when the versions do, so deadlock
is off.
`ReadStaysTrue` leaves out the endpoint, key and mail address, for which it is false.

### Proofs

For any constants that satisfy `StoreAssumption`, `StoreTypeCorrect`,
`StoreIndexAgrees`, `RowVersionNamesContents`, `StoreNoBlindWrite` and `StoreFanOutRight`
prove `TypeOK`, `IndexAgrees`, `ReadStaysTrue`, `NoBlindWrite` and `FanOutRight`. The
invariant of the first four is the conjunction of the first three: a read copies the events its list names, so types need the index. The argument
rests on one shape, `Versioned`: in every step but a read, a record is as it was (but for
what a refused update sets) or bears a version minted in that step. Versions a client has
seen are no larger than `rowSeq`, so none of them can come to name something else.
`NoBlindWrite` follows: a call that passed If-Match was sent by a client whose version is
current, and by `ReadStaysTrue` what it read still holds. `FanOutRight` goes by `FanInv`:
an event is active exactly when its subscription is, so the fan-out, which looks at the
event, and the client, who switches the subscription, mean the same; and no two
subscriptions have one endpoint, so nobody is told twice. Both have to survive a switch, an
event added to a subscription that is down, and an update that is refused half way.

## 6. B4B's payouts and their state file

**Modules.** `B4BPayout` is the engine, its snapshot, and the bridge and callbacks each
transition starts; `MCB4BPayout` instantiates it; `B4BPayoutProofs` proves it.

**State.** `state` is how far each payment of `e.payments` has come, 0 for none, `Hops`
for approved or failed; `directory` is the directory in memory. `walking` are the
goroutines of `process`, `saver` those inside `persist` with what they have copied and
the file they hold open. `path` and `tmp` are the inodes of `state.json` and
`state.json.tmp`, `disk` their contents. `calls` and `bridging` are goroutines about to
call out. `told`, `bridged` and `answered` are what the world outside knows and keep their
value in a crash. `alone` is history: no save began while another ran, and none failed.

**Actions.** `Submit`, `Hop` and `Board` change memory and begin a save. `CopyDirectory`,
`CopyPayments`, `OpenTmp`, `Write`, `Rename` are its steps: only the copying takes locks,
in two critical sections, and the temporary file has one name for all. `SaveFails` is a full
disk at either of two steps. `AfterSave` is what the goroutine goes on to do
whatever the save returned. `Bridge` and `Callback` are the calls; `Crash` kills the
process and leaves the files; `Restart` loads the file and resumes the payments that have
not ended.

**Abstractions.** `Companies` stands for everything in the directory that fires
`OnChange`. A writer that finds longer contents may leave their tail, and either
outcome is allowed. Attempts of one callback count as one telling, and the answer to a
request is part of the step that ends its save. The sanctions and balance gates before
`Submit` are in `B4BDirectory` (section 10). A file that does not parse stops the service.

### Runs

| Run | Shows | Bounds |
|---|---|---|
| `b4b_restarts` | `AnsweredIsKept`, `NothingRepeated`, `PayoutsEnd` | 1 payment of 3 states, 1 company, 2 crashes, a disk that may fill |

The safety properties and the first half of `PayoutsEnd` hold while `alone` does. The condition is needed
even with a sound disk: two payments saved at once and one crash can tell a state twice
(section 14). The second half, that an approval goes out, holds without it. A payment and a
company are two independent savers, hence all the interleavings of two saves; three
states have a first, a last and one between; two crashes let a restart be interrupted by
another. Deadlock is off: the last payment ends, and a garbled file
stops the service.

**Fairness.** Goroutines run and sleeps end, and a process that died is started again.
Nothing makes a disk fail or recover. There are finitely many crashes, without which
nothing can be promised. A crash between saving the approval and calling the bridge loses
the bridge, since a payment that has ended is not resumed: the code has no outbox, and
`PayoutsEnd` says "unless it goes down" for that reason.

### Proofs

For any constants that satisfy `PayoutAssumption`, so for any number of payments, savers,
states and crashes: `PayoutTypeCorrect`, `PayoutAnsweredIsKept`,
`PayoutNothingRepeated`. The last two follow from one invariant, `Clean`, which holds
while `alone` does. Its parts: the file parses (`FileGood`); there is at most one saver and
what it has copied is what memory holds (`SaveGood`); the file and memory differ only in what
is being saved (`Behind`); nothing has been or is about to be told that the file does not
have (`Once`); whatever was accepted is in the file (`Accepted`). `Once` is the heart of
it: a callback starts only after the rename, so a crash takes nothing back that was said.
Only model-checked: the two liveness properties.

## 7. Settlement: files, records and payouts

**Modules.** `Settlement` is the platform's settlement service with a B4B that is a list
of payments; `MCSettlement` instantiates it; `SettlementProofs` proves it.

**State.** `records` is `s.records`, a function from the ids in use, and `saved` the state
file. `seen` is the puller's map of claimed names, `archive` the archive directory,
`fetching` and `fetched` the file in `take`. `making` has the two goroutines that make
records, the puller over a file and the batch over the platform's own ledger: whose
records, which submerchants are left, which record and which step. `sub` holds the
goroutines inside `submitPayout`, each with its record and the payment B4B has made for
it, if any. `b4b` is B4B's payments, `calls` its callbacks under way, `hooks` the handlers
that have found their record and not yet set its payout. `made` remembers where every
record came from, `owed` how many payments each may have led to, and `unarchived`,
`failed`, `refused` the files and records that something went wrong with.

**Actions.** The store holds its mutex through the save, so `Move`, `OperatorSettles`,
`Process`, `SetReport`, `Settle`, `FailRecord`, `Create` and the `SetPayout` inside
`Stop`, `Answer`, `LoseAnswer` and `Hook` are one step each. `RetryPayout` is the check of
the payout's state, which holds no lock: two operators can pass it. `Take` is B4B making
the payment, `Answer` and `LoseAnswer` what the platform hears of it; `Progress`,
`Receive`, `Hook` and `GiveUp` are the payment's states and their callbacks. `Claim`,
`Download`, `Archive` are the puller on a file; it goes on to `Create` for each
submerchant and waits for each submission. `Crash` kills the process; `Restart` loads the
state file and takes every archived name as seen.

**Abstractions.** The gates before the payment (funds, verification, token, beneficiary,
sanctions) are one choice between `Stop` and `Take` (section 12 has the verification gate by itself); the five payout states that a retry
accepts are one, `Stopped`. A record's contents, amounts and the files staged for
merchants are left out. Passes exclude each other through `pullMu`, so a pass is a run of
claims; the files are on the channel from the start. An operator's refused call is no
action. A save writes the file or the process dies in it: then the file is empty, which
loads as a store without records, or garbled, which stops the service
(`os.WriteFile` truncates first). A file system that refuses to open the state file is not modelled.

### Runs

| Run | Shows | Bounds |
|---|---|---|
| `settlement_payouts` | `PaidAsOwed`, `StatusIsB4Bs`, `NoneStranded` | 1 file, 1 submerchant, the puller and 1 operator, 2 payments of 2 states, 1 crash |
| `settlement_files` | `OncePerFile`, `EveryMidGetsAnOutcome` | a morning and an afternoon file, 1 submerchant each, 1 batch, 1 crash, gates that do not open |

What can go wrong with payouts is between the goroutines on one record: no step touches
two. Two payments are the first and one that repeats it; two settlements to be paid, the
puller's and one after supersede and reactivate. Two retries of one record at once would
take a second operator and a third payment: of those speaks the theorem
`SettlementPaidAsOwed`, not the run. Files need no payments, so B4B makes
none in the second run, and stages of the batch's records are its own there
(`LedgerLeftAlone`): what an operator does to a record is in the first run. Batch and
payments meet in no run, only in the proofs. Deadlock is off: files run out.

**Fairness.** The puller's loop, the goroutines that make records and the submissions go
on (HTTP clients have timeouts). Nothing is assumed of operators, B4B or the crash; the
service is taken to be connected, for a disconnected one stops pulling on purpose.

### What the properties leave open

The conditions in the properties are what the code allows, found by TLC one at a time:

- `PaidAsOwed` grants a payment to each time a record is settled to be paid (superseded
  and reactivated records may be settled again), to each answer that was lost, in a
  timeout or a crash, and to each retry that began while another submission was under
  way. Nothing else pays twice.
- `NoneStranded` ends at the first crash: a record killed between Settled and its
  submission keeps an empty payout state, and `retryPayout` answers that one is "already
  in flight or completed". Records in Scheduled or Processing are not resumed either.
- `EveryMidGetsAnOutcome` excludes a file that cannot be downloaded or parsed: it stays
  claimed until the service restarts, and once archived it is not parsed again.
- `StatusIsB4Bs` says a state the payment *has reached*, not its last: callbacks overtake
  one another and each overwrites what it finds.

### Proofs

For any constants that satisfy `SettlementAssumption`, so with batch, files, payments and
operators in any number together:

- `SettlementTypeCorrect`: `TypeOK`, which is inductive. Beyond types it says that memory
  and file agree while the process runs, except that both may stand empty after a torn
  save, that the puller does one thing at a time, and that it waits exactly while it submits.
- `SettlementStatusIsB4Bs`: by `StatusInv`, which says of everything on its way to a
  record (a submission B4B has answered, a callback, a webhook handler that has found
  its record) and of the state file what the property says of the records.
- `SettlementNoneStranded`: by the property itself and `NeverDown`. A step either changes
  no record that waits, or takes it up, or gives it an outcome.

- `SettlementOncePerFile`: by `FilesOnce`. A file the puller has come to, or that led to a
  record, is archived or excused for good; an archived name is claimed by nobody, since
  `seen` has it, after a restart as well; and of the file at hand, a record that exists is of
  a submerchant the puller has behind it.
- `SettlementPaidAsOwed`: by `PaidInv`, a count for each record: the payments B4B made, the
  submissions that may still lead to one (`Hoping`), and one more if a payout has stopped
  with nobody at it, so that a retry may begin, are together no more than `owed`. A
  stopped payout counts while the service is down as well (`Stands` reads the file), since
  the restart brings it back. Every step that raises the one side lowers another term or raises `owed`.

Only model-checked: the liveness property.

## 8. Worldline: the clock, the cycle, the files

**Modules.** `LabClock` is the clock service and one service that follows it;
`SettlementFile` is what a file holds, how it is written and how the platform reads it;
`Acquirer` extends both with the store of transactions, the schedule and its runs;
`MCWorldline` instantiates them.

**State.** `mode`, `offset` and `holds` are the clock server's fields, `wall` the real
time, `follower` the offset the last good poll read. `txns` is the store, `batch` what is
left of the request that adds to it. `runs` are all runs begun, each with its slot, the
day it covers and how far it has come; `download` and `wlnordic` are the two directories
it publishes in; `credits` is what the bank has booked. `plan` is what `labclock.Wait`
waits for, `looked` whether it has looked at the present time. `since` and a run's
`known` are history.

**Actions.** `Move`, `Take`, `Release`, `Poll` and `RestartClock` hold the clock's mutex,
so each is one step; a move that is refused still drops the holds that have expired.
`Look` is one round of `Wait`; `PlanNext` begins the wait again after a run; `OrderRun` is
the operator's route. A run reads the currencies (`ReadCurrencies`), cuts one file at a
time (`CutOne`), publishes one at a time under two paths, of which the second may fail
(`PublishOne`), wires each currency (`Wire`) and is recorded (`Finish`). The store is
locked for one read or addition at a time, so `AddOne` may fall between any two cuts.

**Abstractions.** A day has four ticks of half an hour. A cell of a file is its value,
except an amount's: that is a sign, a whole part and digits, written and read as the code
does, in a word of which `Wrap` is half. Columns that carry no money are left out, and so
is what the file is called beyond slot, currency and time. A scheduled run takes less than
a tick, and `Wait` looks more often than the clock ticks. Sums are `SumOf`, a recursive
function, and a set of merchants is sorted by `InOrder`, the one sequence of it that rises.

| Run | Shows | Bounds |
|---|---|---|
| `worldline_cycle` | `FilesTellWhatWasAcquired`, `MoneyMatchesFiles`, `TickedSlotsRun`, `Steady` | 2 calendars, a holiday, from Thursday to Monday; 1 move, 1 restart, 1 holder; 2 requests of 3 transactions; 2 runs, 1 of them ordered |

The run looks at one of three subjects: the clock with everything its clients may do to
it; the cycle on a clock that only ticks; the schedule on a clock that is moved, with
nothing to settle. The days include a weekend, a Friday that is a holiday in one country
and calendars that are a part of an hour apart, which is where the automatic clock has to
look back a long way. The transactions include two currencies, a refund of less than one
unit, an entry that does not settle and an invalid one. `TickedSlotsRun` speaks of slots
that came while the clock only ticked: one that it was moved over is skipped by design.
All three subjects stop at a bound, so deadlock is off. Nothing here is about fairness.

### Proofs

In `WorldlineProofs`, for every value of the constants that satisfies
`LabClockAssumption`, `AcquirerAssumption` and `WrapAssumption`:

- `ClockIsSteady`: `SharedHours /\ ClockSpec => Steady`. The automatic clock steps back by
  whole hours, so what it can promise depends on the calendars: `SharedHours` says that
  time that is a business day everywhere comes an hour or more at a stretch. It follows
  when the calendars are whole hours apart (`WholeHoursAreShared`), as London and Stockholm,
  the deployed ones (`cmd/clock/main.go:35`), are; the run's calendars are a part of an hour
  apart and satisfy it all the same. Under it `TickSlips` shows that a tick costs the
  automatic clock less than an hour.
- `ScheduledSlotsRun`: `TickedSlotsRun`, by `ScheduleInv`. That every slot that came has had
  its run (`Caught`) is not inductive: what the schedule waits for must not lie behind a
  slot still to come. `Ahead` says so of the plan, and `NoneOpen` that no morning whose hour
  has passed, and whose jitter has not, is skipped when the plan is made anew after a run.
  The plan's slot is identified by `IsSlot`, and the arithmetic of `NextFire` is
  `NextFireIs`. That the morning with its jitter comes before the afternoon is in
  `AcquirerAssumption`.
- `MoneyMatches`: `MoneyMatchesFiles`, by `MoneyInv`. Each run has at most one file of a
  currency (`FilesSound`), because the currencies it has still to cut are distinct and none
  has been cut (`Cutting`); so a total is one file's amount (`TotalIs`), and a credit is
  backed by it (`Backed`) in a run that wires nothing twice. What the platform reads in the
  text is proved to be what was cut: `FiguresSurvive` finds the one settlement row among all
  the rows `WriteCSV` renders, and `AmountsSurvive` takes any word, the least one included,
  through `formatMajorUnits` and `majorUnitAmounts` and back, sign and cents.

- `FilesTell`: `Fits => (AcquirerSpec => []FilesTellWhatWasAcquired)`. `Fits` says that no
  more money is acquired than a word holds: some `most` bounds every amount a client sends,
  and `MaxTxns * most < Wrap` (in the run, 6 transactions of at most 1050 in a word of
  100000; in the code, a store of cents in `int64`). Without it a total is right only
  modulo the word. The invariant is `TellInv(most)`, with `ScheduleInv` for the dates. Every
  file of a run `Tells` the store as it was at some length between what the run knew at its
  start and now, which outlives additions because the store only grows (`StillTells`); and
  every currency the run knew has its file or is still to be cut (`AllCut`), since only a
  file without a row is left out, and one that has something to tell has a row
  (`FileHasItems`). That a file cut now tells all there is now (`CutFileTells`) is the long
  part: `BatchIs` takes a merchant's batch to the sum of what it is owed, `TradedIs` says
  which merchants have one, `TextIsReadable` that every row follows the row of its batch,
  and `CutTells` sums what the platform reads, row by row over the whole text (`TextPays`),
  as the sum over the sections (`MiddlePays`), of which only the merchant's own counts.

## 9. The enrolment desk

**Module.** `EnrolmentDesk`, in `MCServices`.

**State.** `inbox` is the directory the platform uploads to, `seen` and `rejects` are the
desk's maps, `clerk` the sweep's goroutine and operators' requests, each with the batches
it listed and its step. `inodes`, `partial` and `out` are the receipts' files under their
temporary and final names: two clerks at one batch share a temporary name. `sent`,
`spoiled`, `written` and `met` are history.

**Actions.** `BeginUpload`, `EndUpload` and `FallDue` are an upload and its delay; `Arm` is
the operator's rejection; `List`, `Pass`, `ReadBatch`, `Open`, `Write`, `Rename`, `Mark`
are the steps of `process` and `answer`, between which the desk holds no lock; any error is
`Fail`, which marks the batch as done with; `RestartDesk` forgets both maps.

**Fairness.** The delay passes and the sweep goes on. Operators need not do a thing.

Uploads lie in the inbox under their names, a receipt's entries are told of by their
position in the batch, and a clerk takes the names it has left in any order, where the
code takes them as the directory lists them.

**What the properties leave open.** `ReceiptsAnswer` allows a receipt half-written
only where two clerks met over a batch, and a batch to be answered once more for each
restart (`seen` is in memory) and each request; `LegibleIsAnswered` ends at
a batch a clerk failed at, which is never tried again: an upload that was read before it
was whole is of that kind.

### Proofs

In `BoardingProofs`, for any clerks, names, batches, rejections and restarts that satisfy
`EnrolmentDeskAssumption`: `ReceiptsAreRight`, that is `ReceiptsAnswer`, by `DeskInv`. A receipt is
proved right at each place it can be: in a clerk's hands (`TextsSent`), in a temporary
file, under its final name (`FilesApart`: every file is one name's, and half-written or a
receipt for that name, whoever holds it open). `OneClerk` says that while no two clerks met
over a batch, one of them at most is at it and the temporary file is its own; without it a
second clerk could cut a receipt back that the first has renamed. `Counted` is the
arithmetic of the last conjunct: an answer given, or still to be given by a clerk that has
the batch left, is paid for by a restart, a request, or the sweep's one look. That a
receipt as built answers its batch is `BuiltAnswers`. `LegibleIsAnswered` is liveness.

## 10. B4B's directory and payees

**Module.** `B4BDirectory`, in `MCServices`.

**State.** `dir` is the directory and `bens` the payees with their index by reference;
`file` is what the state file has of both, `legible` whether it can be read. `caller` has
the requests in progress, with what each was asked, its step and what it holds; `saver`
those inside `persist`, with the copies they took. `paid` are the payments handed to the
engine. `blocked` and `created` are history, and say of each answer whether it is `kept`.

**Actions.** One per handler, and two for those that validate without the lock
(`CheckPerson`/`CreatePerson`, `CheckExtended`/`AddExtended`) or read a copy and use it
(`Gate`/`Pay`). Whatever changed a store is saved, and then the answer goes out: with no
lock around them, `CopyDirectory` and `CopyPayees` take the copies, one store after the
other, and `Land` writes and renames, or `SaveFault` fails. Saves overlap, so an older copy
can land last, and since they share one temporary file (`WriteThrough`, `passed`) a save
can find its file renamed by another, write into the file that another renamed, or leave
one that is neither's. A payment's own transitions save as well (`Hop`).
`RestartDirectory` reads the file back, if it can be read, with the index rebuilt in the
order of ids. An id is random and not one that was told to anybody. A vIBAN that exists is
answered at once, without a save, though the request that made it may still be at its own.

**Abstractions.** A body is valid or not, except where what it is refused for depends on
other state (waivers, documents, references, statuses). The payments in the file, and what
the temporary file holds at each moment, are `B4BPayout`'s (section 6); here a save that
had another beside it leaves a file that may not parse. An empty `B4B_STATE_PATH`, with
which nothing is saved, is left out, and so is what a client is called back with when a
screening changes.

**What the properties leave open.** An answer is `kept` if its save did not fail and no
other save was under way when it began. Over a restart `CreatedOnce` and `BlockHolds` speak
only of those: of others TLC finds that an older copy landed last, and the client's company
or the operator's block is gone (section 14). While the process lives they speak of all.

### Proofs

In `BoardingProofs`, for any callers, ids, references, currencies and bounds that satisfy
`DirectoryAssumption`:

- `ToldOnce`: `CreatedOnce`, by `CreatedAre`: whatever a client was told is what the
  directory has in memory, and, if it is kept, what the file has and every copy that a save
  under way may still write. The copies are where the proof lies. `SavesHave` says that a
  save which began alone began before every other that is under way, so that their copies
  have what its request made, and the file too once one of them landed first. `Making` says
  of a request at its save that the directory has what it made, and of one between the
  check and the creation of a profile that the name it found the company by still means
  that company: names are only added, and an id that is new is nobody's name.
- `BlocksHold`: `BlockHolds`, by `BlockedAre` and `ClaimsAre`, which say the same of blocks,
  told or about to be, of the payees, their copies and the file; and by `KnownAre`: a
  request at its payment was let through by a look that saw every block that was there
  when it came in. Both need that ids are never given to two things (`Fresh`): otherwise a
  payee that is registered anew would lift the block of another.

## 11. A payment through API, bank, notifier and receiver

**Modules.** `Webhooks` is the two simple senders and the receiver; `PaymentPath` extends
it with the payment API and the core bank. Both are in `MCServices`.

**State.** `accounts` and `entries` are the core bank's; `request`, `payments` and `byKey`
the payment API's; `transfers` and `enqueues` are the calls between the services, with
what was sent, what the other side did and what it answered. `sub` and `events` are the
notifier's subscription and both senders' records with the goroutine of each; `received`
counts what the receiver stored; `wiring` is the card gateway's switch. `orders`, `lost`
and `raced` are history.

**Actions.** A request looks its key up (`Replay`, or `Send`), waits for the bank
(`TransferAnswered`), then for the notifier (`EnqueueAnswered`), then records
(`PutPayment`). Either answer may not come in time, and the call is served all the same
(`Transfer`, `CheckSubscription`, `Queue`). `Try`, `Abort` and `GiveUp` are an event's
goroutine. A transfer, a credit and an account opened by hand hold the bank's mutex.

**Abstractions.** Amounts are whole units, multiplied by 100 in a word of `Word` values.
The instance's word is short enough for a balance to wrap round, as the code lets it. Signatures and encryption are left out. A transfer does not
know of payments, so two for one payment would both move money; nothing sends two.

**What the properties leave open.** `OneMovePerKey` excepts keys of which two requests had
passed the look-up at once, and `BooksAgree` payments whose transfer timed out: those are
recorded as rejected although the money may have moved. What an account holds is what its
entries add up to in the word, since nothing in the bank stops a credit that does not fit.

### Proofs

In `ServicesProofs`, for any requests, orders, accounts, credits, amounts, word and
attempts that satisfy `PaymentPathAssumption` and `WebhooksAssumption`, from one invariant, `PathInv`:

- `BooksAgreed`: `BooksAgree`. `LedgerRight` says where in the ledger a payment's two
  entries stand and that a payment not moved has none; `AccountsRight` that an account is
  its opening and the sum of its entries, and that an account the bank does not have yet
  has no sum; `Busy` and `Bears` that a request in its last steps holds nothing the bank or
  the notifier would not bear out. The sum is a recursive function. That adding an entry
  adds to one sum only (`TotalGrows`) is proved by induction over its length.
- `MovedOncePerKey`: `OneMovePerKey`, by `KeysKept`: a payment made has its key recorded or
  is in the hands of a request, so a later request either finds the key or meets the other.
- `RecordsAreTrue`: `RecordsTellTheTruth`, by `EventRight`, which counts what the receiver
  has stored against the attempts made, and `GivenUp`: a subscription that failed has an
  event of its own to show for it, and subscriptions are numbered so that an older one's
  events are not taken for it.

## 12. The verification gate

**Module.** `Verification`, in `MCServices`: the service with its delayed decisions, and
`checkVerification` of the settlement platform.

**State.** `declines` and `decisions` are the engine's; `deciding` the goroutines that
sleep before a decision can be read; `gate` what each payer is at, with the looks it has
taken; `keyed` whether the platform has the right key. `verdicts` is history.

**Actions.** `Enter`, `Trigger`, `Look`, `Miss` are the gate; `Decide` and
`RestartVerify` the service's. `FnvPositive` keeps what the code does to a signed 32-bit
hash, so that two merchants of one hash, a hash of 0 and the least number are cases.

### Proofs

In `ServicesProofs`: `DeclinesHold`, that is `DeclineHolds`, for any payers, lists, looks and
restarts. Beyond the property the invariant says that every decision, readable or on its
way, is what the list at work says, and that an open gate has noted that list.

## 13. The console

**Modules.** `Console` is where the console changes what others depend on;
`MerchantRegistry` its merchants and their way onto the payout rail. Both are in
`MCServices`.

**State.** Of `Console`: `card` is each registration with its clock and whether it is live,
`applied` the wishes last carried out for a platform, `job` a request's or a background
goroutine's progress, `now` and `version` the wirings where they live, `away` the wirings
that do not lead to the stand-in, `money` the safeguarding accounts. `asked`, `wished`,
`muddled`, `late`, `credited`, `moved` are history. Of `MerchantRegistry`: `mem` and `saved`
are the registry and its file, `rail` B4B's payees with their index by reference and
`railFile` its file of them, `errand` the requests in progress; `given`, `hazy` and
`unsaved` are history.

**Actions.** `RegisterPlugin` is the handler with what it starts in the background;
`TakeUp` takes the next stand-in of an application, and `ReadWiring`, `SetSwitch`,
`ListSubscriptions`, `PutSubscription`, `CallFails` are its calls. `ReadBalance` and
`CreditSGA`, and `SetLabClock` and `ClockMoves`, are a look and an act in two calls.
Every change of the registry holds its mutex to the end of the save, which may fail
(`Amend`); provisioning calls B4B with the registry unlocked (`CallRail`) and
records the answer afterwards (`RecordPayee`), with the first outlet it meets under the
MID. An operator's sanctions go to B4B for any MID (`AskSanctions`): whether an outlet has
it is asked after the call. A registration is answered from the payee itself after the
store is unlocked, so with the standing it has by then (`WriteAnswer`). `Registered`,
`Sanctioned` and `Restored` are the rail's own code: another registration is another
payee, an unknown MID gets one under the MID itself, and a restart (`RestartRail`) rebuilds
the references from the payees in the order of their ids.

**Abstractions.** A descriptor is valid or not. The bank has one subscription to the
receiver. Registrations of one platform do not overlap, and a call that timed out is served
then or never. `MidOf` is the hash by which an id gets its MID (`midFor`), any map: two ids
may have one MID, which nothing refuses. Names, addresses and accounts are left out, as are
a merchant's status and the seeding of card payments. Nobody but the console registers
payees at B4B under these MIDs or changes their status, and operators name MIDs, not the
rail's own ids; B4B's saves may fail or be overtaken by an older copy (`SaveRail`), and how
they overlap is section 10's. `Merchant` returns a copy that
shares its outlets with the registry, and provisioning reads it unlocked; the fields it
reads are never written, so the race changes nothing the model has.

**What the properties leave open.** `StandInsAsAsked` excepts wirings at which a call
failed, and those where two applications met; `ChecksHold` acts whose check was true when
it was made; `OutletTellsTheRail` outlets whose MID another id was hashed to (the answer is
recorded with one of the two), whose answer was lost or met another, that
changed and were not saved before a restart (two saves that fail in a row, and a restart,
leave the first outlet's answer and lose the second's), or whose payee was not saved, or
was registered twice, before the rail's restart. Each exception is needed: TLC finds a
state for it.

### Proofs

In `BoardingProofs`, for any provisioners, batches, ids and restarts that satisfy
`RegistryAssumption`:

- `RegistryTyped`: types, by the invariant below.
- `OutletsTellTheRail`: `OutletTellsTheRail`, by `RegistryInv`. `SavedBut` says that memory
  and the file have the same outlets, but for those changed since the last save;
  `UsedAreTaken` that a MID the rail knows is that of an id below the counter, in memory and
  in the file, so that no restart gives that id again; `RailIs` and `PayeesAre` that the
  rail's index, in memory and as it would be rebuilt, leads to a payee with that reference,
  and that its own ids are no MIDs; `AnswersHold` that an answer about to be recorded is
  what the rail has and the only one on its way for its MID. The counter is what the
  property rests on: outlets are deleted, their payees stay.

In `ServicesProofs`, for any platforms, wishes, slots and bounds that satisfy
`ConsoleAssumption`:

- `WiringAsAsked`: `StandInsAsAsked`, by `AskedOrOwed`: of every wiring or card that no
  failure or meeting of two applications has muddled, those that still have to change it
  will make it what was asked last, and if there is none it is so. An application that
  listed the bank's subscription before another wrote to it owes nothing any more, as its
  write will be refused (`Stale`).
- `ChecksAreKept`: `ChecksHold`, by `LateOnes`: whoever is between its look and its act while
  the look's answer no longer holds is noted as late.

### The run of sections 9 to 13

| Run | Shows | Bounds |
|---|---|---|
| `services` | desk: `ReceiptsAnswer`, `LegibleIsAnswered`; directory: `CreatedOnce`, `BlockHolds`; payments: `BooksAgree`, `OneMovePerKey`; webhooks: `RecordsTellTheTruth`; verification: `DeclineHolds`; console: `StandInsAsAsked`, `ChecksHold`; registry: `OutletTellsTheRail` | see below |

The word of the payments is 1000 values, so that an account of 450 can be made to wrap.
The run looks at one of ten subjects, chosen at the start ("board" and "payees" are two of
the directory, "stand-ins", "funding" and "clock" three of the console); a subject's state is the only one that changes.

- desk: the sweep and one request, two names, two uploads (an upload in another's place
  included), one failure or restart. Two clerks are enough, as no step involves three.
- board and payees: two requests at once, three in all, their saves crossing or failing,
  over a restart. The third is what comes after two that raced, or after a restart. Board
  asks of companies only, so that the order of the ids does not matter; with the payees a
  payment's later save (`Hop`) may be one of the three, and no request comes in between a
  save's two copies.
- payments: two requests, one lost answer or one credit. Two requests are the shortest
  history in which a key is used twice.
- webhooks: two events, of one sender or of both, two attempts each, a subscription that
  is replaced once and a switch that is turned once.
- verification: two payers, two looks each, one request that fails, one restart with
  another list.
- stand-ins: one platform with two sets of wishes, a button that asks for less, two
  applications at once, three requests, failures and restarts together, one write by others
  at the bank, and ACI's wiring leading to the receiver or to a platform.
- funding and clock: two requests at once, over credits, payouts and midnights, or over
  registrations and lapses of a platform on either clock.
- registry: five ids, so a batch of two merchants, or two merchants one after the other,
  whose outlets 2 and 4 have one MID; four payee ids, drawn from the top, and from the
  bottom for a MID that has one, so that either of two registrations may sort last; two
  requests, three with failed saves and restarts of either side. Deleting and creating
  again with a restart in between is the shortest way to give an id twice. An operator
  names the shared MID, or one of no outlet; a fourth id without a batch comes either with
  one request or with nothing that goes wrong, and distributors and partners come first.

Of two slots or provisioners in the same state the first goes on, as they are alike.
Deadlock is off, as every subject stops at a bound.

## 14. Disagreements between the code and its documentation

1. `bank_reports`: a payment instructed before the cut-off and processed after it is in
   neither report of its date, where the comment has each in exactly one.
2. `subscriptions_update`: an update refused for its key or batch limit has already set the
   endpoint and keeps the row version, where the comment promises that a client that has
   not read the current state cannot write over it.

More that no run checks.

- *Dispatcher.* A batch that meets the pause is parked behind newer notifications
  (`dispatcher.go:188`), where the docs promise oldest first, and the retry loop does not
  look at the pause again (`dispatcher.go:219`), where the comment promises that nothing
  further leaves. The deactivation mail leaves before the last attempt, which may succeed,
  where the docs have it follow the last failure.
- *Bank.* A reversal changes the last status change of the line the payout was booked with
  (`reports.go:247`), where `reports.go:216-217` has a booking never rewritten. On a day
  that the lab's clock is set back to, begin-of-day is not what the account had when that
  day began (`ledger.go:34-35`, `ledger.go:48-49`) but what it had before its last
  movements of that day.
- *Subscriptions.* `cmd/bankingcircle/subscriptions.go:21-24` says that the row version
  also advances on delivery retries; in the retry loop only the deactivation, after the
  last one, changes it.
- *B4B.* A restart that finds a file written by overlapping saves, or one older than the
  last callback, walks a payment through a state again and tells the client twice, where
  `internal/b4b/state.go:192-195` promises that resuming never does. Without the condition
  `alone`, TLC finds it in `NothingRepeated`.
- *B4B's directory.* "A company that existed a second before the restart has to exist a
  second after it" (`cmd/b4b/main.go:127-128`): `persist` copies and writes unlocked, so a
  company, or a block, that was answered can be missing from the file, with every save
  done, if an older save landed last. A file that two saves spoiled keeps B4B from starting
  (`main.go:131-133`).
- *B4B payees.* "Last registration wins … not creating a second payee"
  (`internal/b4b/beneficiary.go:242-244`) holds until a restart: the earlier payee stays
  under its own id, payees are read back in the order of their random ids, and then the
  greatest id wins (`RefsOf`, `Restored`). An outlet that was provisioned twice may then
  carry a payee that its MID no longer finds.
- *Settlement.* `cmd/settlement/main.go:485-489` says that the batch submits a payout on
  every Settle; the code does not, for the reason given at its end.
  `worldline_pull.go:131-134` says that every error is retried on the next tick; a file
  whose download failed stays claimed. Of the verification gate, `main.go:762` says that
  only not hearing back is forgiven; an answer that refuses the request (a wrong key, an
  id of 0) opens the gate as well.
- *Payment API.* `docs/scenarios/payment-to-webhook.md:28` promises no second debit for a
  key; two requests handled at once both debit.
- *Card gateway.* `cmd/aci/main.go:50-53` says that a disconnected gateway sends nothing;
  a delivery in its retries goes on sending.
- *Enrolment desk.* The comment on `armRejection` (`cmd/worldline/enrolment.go:284`) says
  that a receipt already written cannot be changed; a second clerk's receipt, or one
  written after a restart, replaces it, with rejections armed in between.
- *Cycle.* `NextFire` compares the slots before it adds the morning's jitter, so a service
  that starts within the jitter of a morning waits for the afternoon. References that the
  comment on `bamboraTransaction` calls distinct are so within a currency's file; the index
  begins again in the next currency's.
- *Stand-ins.* ACI pointed at a platform is "the platform's wiring, not the stand-in's"
  (`cmd/console/standins.go:75-78`), but an application that fails to read it switches it.
  `docs/plugins.md` has wishes applied whenever they change and a developer's button hold
  until then: after a restart of the console the next renewal applies them again; wishes
  that are withdrawn and declared again are not applied; an application that failed is
  recorded as applied and not tried again.
- *Funding.* "Pressing twice is not twice the money" (`internal/console/fund.go:47`), unless
  the two are handled at once: both find the account empty.
- *Provisioning.* A payee B4B brought up for a MID because its sanctions status was set
  before it was registered hides the registration, which comes back with an id that no
  lookup by MID finds, against `internal/b4b/beneficiary.go:242`.
- *Verification vendors.* `cmd/verification/main.go` has clients with a token past its
  life refused; no token is ever forgotten.

## 15. What no proof reaches, and what is not modelled

Liveness under fairness stays with TLC. The library's induction theorems take an operator,
which no prover here can instantiate; where a proof needs induction (least elements, the
sum over a ledger) it goes by the well-foundedness of the naturals, which is stated of a
set (`NatLessThanWellFounded`, `WFMin`). What has not been reached that way is named "only
model-checked" in its section. No module that is proved about uses a recursive operator.

Not modelled:

- the harness, which drives the rest, and of the console what it only shows or passes on:
  views, health probes, the graph of the money's flow, uploads and platforms' own buttons,
  the relay of single requests to a vendor, the seeding of card payments;
- transport and cryptography (SFTP, SSH, OpenPGP, envelopes, signatures), and XML;
- the verification vendors and the bank's token table: one critical section over a map
  each, shown by unit tests;
- Settlement's reports and staging: sums and two renderings without state;
- the calendar arithmetic behind the bank's business date: the models take any map from
  instants to dates;
- amounts near the end of a 64-bit word: `money.Parse` multiplies without a check
  (`internal/money/money.go:40`), and so does the reader of settlement files; the models
  have the word, the instances stay within it;
- a bridge call that times out after the bank took it (`cmd/b4b/payments.go:250`): B4B
  does the same in both cases, and `B4BPayout` has the bridge answered or lost;
- data races on pointers the stores hand out (`SubscriptionStore.Get` returns a live
  pointer that readers use after the unlock; the fields read are modelled as read at one
  moment).
