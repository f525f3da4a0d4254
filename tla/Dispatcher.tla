----------------------------- MODULE Dispatcher -----------------------------
(***************************************************************************)
(* The notification dispatcher of the Banking Circle simulator             *)
(* (internal/bankingcircle/dispatcher.go) together with what its callers   *)
(* in cmd/bankingcircle do to it: bank events, client calls, the operator's *)
(* pause switch.                                                           *)
(*                                                                         *)
(* Every goroutine of the program that is inside the dispatcher occupies   *)
(* one slot of Procs and is described by a record: the control point pc,   *)
(* the subscription it works for, the batch it is delivering, the          *)
(* notifications it still has to hand over (todo), the number of the       *)
(* retry it is at.  One action is one critical section of d.mu, one call   *)
(* on the subscription store, or one HTTP attempt.                         *)
(*                                                                         *)
(* A notification is a natural number: its position in the order in which  *)
(* the bank produced it.                                                   *)
(***************************************************************************)
EXTENDS Naturals, Sequences, Functions

CONSTANTS
  Subs,        \* subscription ids
  Procs,       \* slots for goroutines; a bound on how many run at once
  MaxNotes,    \* bound: notifications produced in a behaviour
  BatchSizes,  \* values maxNotificationsPerMessage takes
  MaxRetries,  \* DeactivateAfterRetries, at most the length of the schedule
  Email,       \* retry -> "none" | "warning" | "deactivation", the schedule's mails
  MaxBurst     \* bound: notifications one caller enqueues in a row

ASSUME DispatcherAssumption ==
  /\ Subs # {} /\ Procs # {}
  /\ MaxNotes \in Nat /\ MaxRetries \in Nat
  /\ MaxBurst \in Nat \ {0}
  /\ BatchSizes # {} /\ BatchSizes \subseteq Nat \ {0}
  /\ Email \in [1..MaxRetries -> {"none", "warning", "deactivation"}]

VARIABLES
  status,    \* the store's view of each subscription
  size,      \* its maxNotificationsPerMessage, which a client may update
  to,        \* SubscriptionID of each notification produced so far
  queue,     \* d.queues[sub].items
  timer,     \* d.queues[sub].timer: nil, running, or fired and not yet cleared
  pending,   \* d.pending: retained after the schedule was exhausted
  paused,    \* d.paused
  queued,    \* d.queued: parked behind a pause
  proc,      \* the goroutines
  acked,     \* notifications some endpoint answered 2xx for
  dropped,   \* notifications discarded because their subscription is gone
  mail       \* kinds of e-mail recorded for each subscription

vars == <<status, size, to, queue, timer, pending, paused, queued,
          proc, acked, dropped, mail>>
tables == <<queue, timer, pending, paused, queued>>
outcome == <<acked, dropped>>
-----------------------------------------------------------------------------
Notes == 1..MaxNotes

Points == {"idle",
           "park",        \* in Enqueue, before the pause check
           "append",      \* in Enqueue, before taking d.mu to batch
           "flush",       \* about to flush: the timer's or a handler's goroutine
           "lookup",      \* in flush, batch taken, before subs.Get
           "deliver",     \* in deliverSync, before the pause check
           "send",        \* an HTTP attempt is under way
           "wait",        \* asleep before a retry
           "retain",      \* schedule exhausted, before retain
           "deactivate",  \* retained, before subs.Deactivate
           "redeliver"}   \* activated by the client, before Redeliver

Goroutine == [pc: Points, sub: Subs, batch: Seq(Notes), todo: Seq(Notes),
              retry: 0..MaxRetries, size: BatchSizes, flush: BOOLEAN]

Idle == [pc |-> "idle", sub |-> CHOOSE s \in Subs : TRUE, batch |-> <<>>,
         todo |-> <<>>, retry |-> 0, size |-> CHOOSE k \in BatchSizes : TRUE,
         flush |-> FALSE]

\* A goroutine standing at pc for subscription s.
At(pc, s) == [Idle EXCEPT !.pc = pc, !.sub = s]

\* A goroutine that calls Enqueue for each of items, then perhaps Flush.
Caller(s, items, fl) == [At("park", s) EXCEPT !.todo = items, !.flush = fl]

\* The goroutine deliver starts for one batch.
Courier(s, batch) == [At("deliver", s) EXCEPT !.batch = batch]

\* The goroutine Resume starts: held is cut into batches of k, one at a time.
Release(s, held, k) ==
  LET cut == IF Len(held) < k THEN Len(held) ELSE k
  IN [Courier(s, SubSeq(held, 1, cut)) EXCEPT
        !.todo = SubSeq(held, cut + 1, Len(held)), !.size = k]

\* What a caller does once the head of its todo list is handed over.
NextItem(g) ==
  CASE Tail(g.todo) # <<>> -> Caller(g.sub, Tail(g.todo), g.flush)
    [] Tail(g.todo) = <<>> /\ g.flush -> At("flush", g.sub)
    [] OTHER -> Idle

\* What a delivering goroutine does once its batch is done with.
NextBatch(g) ==
  IF g.todo = <<>> THEN Idle ELSE Release(g.sub, g.todo, g.size)

\* The environment's call of an operation by a goroutine that was not there.
Start(p, g) ==
  /\ proc[p].pc = "idle"
  /\ proc' = [proc EXCEPT ![p] = g]

Goto(p, g) == proc' = [proc EXCEPT ![p] = g]

Exists(s) == status[s] # "deleted"
-----------------------------------------------------------------------------
(***************************************************************************)
(* Producing notifications                                                 *)
(***************************************************************************)

\* The next k notifications, in the order the bank produces them.
Fresh(k) == [i \in 1..k |-> Len(to) + i]

Produce(p, s, k, fl) ==
  /\ Len(to) + k <= MaxNotes
  /\ to' = to \o [i \in 1..k |-> s]
  /\ Start(p, Caller(s, Fresh(k), fl))
  /\ UNCHANGED <<status, size, tables, outcome, mail>>

\* onTransition: an event matches s, which Recipients returns only while it
\* is active.
Notify(p, s) == status[s] = "active" /\ Produce(p, s, 1, FALSE)

\* clientTest: reaches s whatever its status, and flushes.
ClientTest(p, s) == Exists(s) /\ Produce(p, s, 1, TRUE)

\* enqueueSyntheticNotifications: a burst of k, flushed or not.
SimNotifications(p, s, k, fl) == Exists(s) /\ Produce(p, s, k, fl)
-----------------------------------------------------------------------------
(***************************************************************************)
(* Enqueue                                                                 *)
(***************************************************************************)

\* park as Enqueue calls it: check and append are one critical section.  The
\* batch size is read once park has answered.
EnqueuePark(p) ==
  LET g == proc[p]  s == g.sub IN
  /\ g.pc = "park"
  /\ IF paused[s]
     THEN /\ queued' = [queued EXCEPT ![s] = Append(@, Head(g.todo))]
          /\ Goto(p, NextItem(g))
     ELSE /\ Goto(p, [g EXCEPT !.pc = "append", !.size = size[s]])
          /\ UNCHANGED queued
  /\ UNCHANGED <<status, size, to, queue, timer, pending, paused, outcome, mail>>

\* A batch that is still short waits for the timer.
EnqueueWait(p) ==
  LET g == proc[p]  s == g.sub IN
  /\ g.pc = "append"
  /\ Len(queue[s]) + 1 < g.size
  /\ queue' = [queue EXCEPT ![s] = Append(@, Head(g.todo))]
  /\ timer' = [timer EXCEPT ![s] = IF @ = "none" THEN "armed" ELSE @]
  /\ Goto(p, NextItem(g))
  /\ UNCHANGED <<status, size, to, pending, paused, queued, outcome, mail>>

\* A full batch leaves at once, on a goroutine q of its own.
EnqueueFull(p, q) ==
  LET g == proc[p]  s == g.sub IN
  /\ g.pc = "append"
  /\ Len(queue[s]) + 1 >= g.size
  /\ proc[q].pc = "idle"
  /\ queue' = [queue EXCEPT ![s] = <<>>]
  /\ timer' = [timer EXCEPT ![s] = "none"]
  /\ proc' = [proc EXCEPT ![p] = NextItem(g),
                          ![q] = Courier(s, Append(queue[s], Head(g.todo)))]
  /\ UNCHANGED <<status, size, to, pending, paused, queued, outcome, mail>>
-----------------------------------------------------------------------------
(***************************************************************************)
(* The flush timer                                                         *)
(***************************************************************************)

\* AfterFunc starts a goroutine; q.timer stays set until somebody clears it.
TimerFires(p, s) ==
  /\ timer[s] = "armed"
  /\ timer' = [timer EXCEPT ![s] = "fired"]
  /\ Start(p, At("flush", s))
  /\ UNCHANGED <<status, size, to, queue, pending, paused, queued, outcome, mail>>

\* Slip: a flush that finds the subscription paused leaves the batch where it is.
FlushUnlessPaused(p) ==
  LET g == proc[p]  s == g.sub  take == queue[s] # <<>> /\ ~paused[s] IN
  /\ g.pc = "flush"
  /\ queue' = [queue EXCEPT ![s] = IF take THEN <<>> ELSE @]
  /\ timer' = [timer EXCEPT ![s] = "none"]
  /\ Goto(p, IF take THEN [At("lookup", s) EXCEPT !.batch = queue[s]] ELSE Idle)
  /\ UNCHANGED <<status, size, to, pending, paused, queued, outcome, mail>>

Flush(p) ==
  LET g == proc[p]  s == g.sub IN
  /\ g.pc = "flush"
  /\ queue' = [queue EXCEPT ![s] = <<>>]
  /\ timer' = [timer EXCEPT ![s] = "none"]
  /\ Goto(p, IF queue[s] = <<>> THEN Idle
             ELSE [At("lookup", s) EXCEPT !.batch = queue[s]])
  /\ UNCHANGED <<status, size, to, pending, paused, queued, outcome, mail>>

\* The rest of flush: a batch for a deleted subscription is dropped.
FlushLookup(p) ==
  LET g == proc[p] IN
  /\ g.pc = "lookup"
  /\ IF Exists(g.sub)
     THEN Goto(p, Courier(g.sub, g.batch)) /\ UNCHANGED dropped
     ELSE Goto(p, Idle) /\ dropped' = dropped \cup Range(g.batch)
  /\ UNCHANGED <<status, size, to, tables, acked, mail>>
-----------------------------------------------------------------------------
(***************************************************************************)
(* deliverSync                                                             *)
(***************************************************************************)

DeliverPark(p) ==
  LET g == proc[p]  s == g.sub IN
  /\ g.pc = "deliver"
  /\ IF paused[s]
     THEN /\ queued' = [queued EXCEPT ![s] = @ \o g.batch]
          /\ Goto(p, NextBatch(g))
     ELSE /\ Goto(p, [g EXCEPT !.pc = "send"])
          /\ UNCHANGED queued
  /\ UNCHANGED <<status, size, to, queue, timer, pending, paused, outcome, mail>>

SendOk(p) ==
  LET g == proc[p] IN
  /\ g.pc = "send"
  /\ acked' = acked \cup Range(g.batch)
  /\ Goto(p, NextBatch(g))
  /\ UNCHANGED <<status, size, to, tables, dropped, mail>>

\* Anything but a 2xx: sleep before the next retry, if the schedule has one.
SendFails(p) ==
  LET g == proc[p] IN
  /\ g.pc = "send"
  /\ Goto(p, IF g.retry < MaxRetries
             THEN [g EXCEPT !.pc = "wait", !.retry = @ + 1]
             ELSE [g EXCEPT !.pc = "retain"])
  /\ UNCHANGED <<status, size, to, tables, outcome, mail>>

\* Slip: the retry loop abandons a subscription that is down, not only one
\* that is gone.
WakeUpOnlyActive(p) ==
  LET g == proc[p]  s == g.sub IN
  /\ g.pc = "wait"
  /\ IF status[s] = "active"
     THEN /\ Goto(p, [g EXCEPT !.pc = "send"])
          /\ mail' = [mail EXCEPT ![s] = @ \cup ({Email[g.retry]} \ {"none"})]
          /\ UNCHANGED dropped
     ELSE /\ Goto(p, NextBatch(g))
          /\ dropped' = dropped \cup Range(g.batch)
          /\ UNCHANGED mail
  /\ UNCHANGED <<status, size, to, tables, acked>>

\* The sleep is over: give up if the subscription is gone, else mail what the
\* schedule says for this retry and try again.
WakeUp(p) ==
  LET g == proc[p]  s == g.sub IN
  /\ g.pc = "wait"
  /\ IF Exists(s)
     THEN /\ Goto(p, [g EXCEPT !.pc = "send"])
          /\ mail' = [mail EXCEPT ![s] = @ \cup ({Email[g.retry]} \ {"none"})]
          /\ UNCHANGED dropped
     ELSE /\ Goto(p, NextBatch(g))
          /\ dropped' = dropped \cup Range(g.batch)
          /\ UNCHANGED mail
  /\ UNCHANGED <<status, size, to, tables, acked>>

\* Slip: the batch replaces what an earlier batch left.
RetainOverwrites(p) ==
  LET g == proc[p]  s == g.sub IN
  /\ g.pc = "retain"
  /\ pending' = [pending EXCEPT ![s] = g.batch]
  /\ Goto(p, [g EXCEPT !.pc = "deactivate", !.batch = <<>>])
  /\ UNCHANGED <<status, size, to, queue, timer, paused, queued, outcome, mail>>

Retain(p) ==
  LET g == proc[p]  s == g.sub IN
  /\ g.pc = "retain"
  /\ pending' = [pending EXCEPT ![s] = @ \o g.batch]
  /\ Goto(p, [g EXCEPT !.pc = "deactivate", !.batch = <<>>])
  /\ UNCHANGED <<status, size, to, queue, timer, paused, queued, outcome, mail>>

Deactivate(p) ==
  LET g == proc[p]  s == g.sub IN
  /\ g.pc = "deactivate"
  /\ status' = IF Exists(s) THEN [status EXCEPT ![s] = "inactive"] ELSE status
  /\ Goto(p, NextBatch(g))
  /\ UNCHANGED <<size, to, tables, outcome, mail>>
-----------------------------------------------------------------------------
(***************************************************************************)
(* The client's calls on the subscription                                  *)
(***************************************************************************)

\* Slip: the handler activates and does not redeliver.
ActivateOnly(p, s) ==
  /\ Exists(s)
  /\ status' = [status EXCEPT ![s] = "active"]
  /\ Start(p, Idle)
  /\ UNCHANGED <<size, to, tables, outcome, mail>>

\* activateSubscription: SetActive, then Redeliver in the same goroutine.
Activate(p, s) ==
  /\ Exists(s)
  /\ status' = [status EXCEPT ![s] = "active"]
  /\ Start(p, At("redeliver", s))
  /\ UNCHANGED <<size, to, tables, outcome, mail>>

\* Slip: what is redelivered also stays retained.
RedeliverKeeps(p) ==
  LET g == proc[p]  s == g.sub IN
  /\ g.pc = "redeliver"
  /\ Goto(p, IF pending[s] = <<>> THEN Idle ELSE Caller(s, pending[s], FALSE))
  /\ UNCHANGED <<status, size, to, tables, outcome, mail>>

\* Slip: a paused subscription is left alone.
RedeliverUnlessPaused(p) ==
  LET g == proc[p]  s == g.sub  take == pending[s] # <<>> /\ ~paused[s] IN
  /\ g.pc = "redeliver"
  /\ pending' = [pending EXCEPT ![s] = IF take THEN <<>> ELSE @]
  /\ Goto(p, IF take THEN Caller(s, pending[s], FALSE) ELSE Idle)
  /\ UNCHANGED <<status, size, to, queue, timer, paused, queued, outcome, mail>>

Redeliver(p) ==
  LET g == proc[p]  s == g.sub IN
  /\ g.pc = "redeliver"
  /\ pending' = [pending EXCEPT ![s] = <<>>]
  /\ Goto(p, IF pending[s] = <<>> THEN Idle ELSE Caller(s, pending[s], FALSE))
  /\ UNCHANGED <<status, size, to, queue, timer, paused, queued, outcome, mail>>

ClientDeactivates(s) ==
  /\ status[s] = "active"
  /\ status' = [status EXCEPT ![s] = "inactive"]
  /\ UNCHANGED <<size, to, tables, proc, outcome, mail>>

Delete(s) ==
  /\ Exists(s)
  /\ status' = [status EXCEPT ![s] = "deleted"]
  /\ UNCHANGED <<size, to, tables, proc, outcome, mail>>

UpdateSize(s, k) ==
  /\ Exists(s) /\ size[s] # k
  /\ size' = [size EXCEPT ![s] = k]
  /\ UNCHANGED <<status, to, tables, proc, outcome, mail>>
-----------------------------------------------------------------------------
(***************************************************************************)
(* The operator's switch.  The handlers look the subscription up first, so *)
(* a deletion can fall between the lookup and the switch: no guard here.   *)
(***************************************************************************)

Pause(s) ==
  /\ paused' = [paused EXCEPT ![s] = TRUE]
  /\ UNCHANGED <<status, size, to, queue, timer, pending, queued, proc, outcome, mail>>

Resume(p, s) ==
  /\ paused' = [paused EXCEPT ![s] = FALSE]
  /\ queued' = [queued EXCEPT ![s] = <<>>]
  /\ Start(p, IF queued[s] = <<>> THEN Idle ELSE Release(s, queued[s], size[s]))
  /\ UNCHANGED <<status, size, to, queue, timer, pending, outcome, mail>>
-----------------------------------------------------------------------------
Init ==
  /\ status \in [Subs -> {"active", "inactive"}]
  /\ size \in [Subs -> BatchSizes]
  /\ to = <<>>
  /\ queue = [s \in Subs |-> <<>>]
  /\ timer = [s \in Subs |-> "none"]
  /\ pending = [s \in Subs |-> <<>>]
  /\ paused = [s \in Subs |-> FALSE]
  /\ queued = [s \in Subs |-> <<>>]
  /\ proc = [p \in Procs |-> Idle]
  /\ acked = {}
  /\ dropped = {}
  /\ mail = [s \in Subs |-> {}]

\* What a running goroutine does by itself.
Run(p) ==
  \/ EnqueuePark(p) \/ EnqueueWait(p) \/ \E q \in Procs \ {p} : EnqueueFull(p, q)
  \/ Flush(p) \/ FlushLookup(p)
  \/ DeliverPark(p) \/ SendOk(p) \/ SendFails(p) \/ WakeUp(p)
  \/ Retain(p) \/ Deactivate(p) \/ Redeliver(p)

\* What the bank, the client and the operator do.
Environment(p, s) ==
  \/ Notify(p, s) \/ ClientTest(p, s)
  \/ \E k \in 1..MaxBurst, fl \in BOOLEAN : SimNotifications(p, s, k, fl)
  \/ Activate(p, s) \/ ClientDeactivates(s) \/ Delete(s)
  \/ \E k \in BatchSizes : UpdateSize(s, k)
  \/ Pause(s) \/ Resume(p, s)

Next ==
  \/ \E p \in Procs : Run(p)
  \/ \E p \in Procs, s \in Subs : TimerFires(p, s)
  \/ \E p \in Procs, s \in Subs : Environment(p, s)

Spec == Init /\ [][Next]_vars

(***************************************************************************)
(* Goroutines are scheduled, an HTTP attempt ends by cfg.RequestTimeout, a *)
(* sleep ends, a running timer fires.  Nothing obliges anyone outside.     *)
(* Fairness is strong where a goroutine has to be started: the runtime     *)
(* always has room for one, while here others may keep taking the slots.   *)
(***************************************************************************)
Fairness ==
  /\ \A p \in Procs : WF_vars(Run(p))
  /\ \A p \in Procs : SF_vars(\E q \in Procs \ {p} : EnqueueFull(p, q))
  /\ \A s \in Subs : SF_vars(\E p \in Procs : TimerFires(p, s))

FairSpec == Spec /\ Fairness
-----------------------------------------------------------------------------
(***************************************************************************)
(* Properties                                                              *)
(***************************************************************************)

\* Every table and goroutine holds what its Go type and its use allow.
TypeOK ==
  /\ status \in [Subs -> {"active", "inactive", "deleted"}]
  /\ size \in [Subs -> BatchSizes]
  /\ to \in Seq(Subs) /\ Len(to) <= MaxNotes
  /\ queue \in [Subs -> Seq(Notes)]
  /\ timer \in [Subs -> {"none", "armed", "fired"}]
  /\ pending \in [Subs -> Seq(Notes)]
  /\ paused \in [Subs -> BOOLEAN]
  /\ queued \in [Subs -> Seq(Notes)]
  /\ proc \in [Procs -> Goroutine]
  /\ acked \subseteq Notes
  /\ dropped \subseteq Notes
  /\ mail \in [Subs -> SUBSET {"warning", "deactivation"}]

\* The sequences a notification can sit in, by name.
Holder == [kind: {"queue", "pending", "queued"}, at: Subs]
          \cup [kind: {"batch", "todo"}, at: Procs]

Held(h) ==
  CASE h.kind = "queue" -> queue[h.at]
    [] h.kind = "pending" -> pending[h.at]
    [] h.kind = "queued" -> queued[h.at]
    [] h.kind = "batch" -> proc[h.at].batch
    [] h.kind = "todo" -> proc[h.at].todo

\* Every place in those sequences that holds a notification.
Spots == UNION {{h} \X DOMAIN Held(h) : h \in Holder}

\* Every notification produced is still held somewhere, was acknowledged, or
\* was dropped: none silently stops existing (dispatcher.go:29-34, 368-371).
NothingLost ==
  1..Len(to) \subseteq acked \cup dropped \cup UNION {Range(Held(h)) : h \in Holder}

\* No notification is in two places, or twice in one: neither the races on
\* d.mu nor redelivery make a second copy of it.
NoTwin ==
  /\ \A a, b \in Spots : Held(a[1])[a[2]] = Held(b[1])[b[2]] => a = b
  /\ \A a \in Spots : Held(a[1])[a[2]] \notin acked \cup dropped
  /\ acked \cap dropped = {}

\* Notifications are retained only for a subscription that is down, is about
\* to be deactivated, or is about to have them redelivered: retain comes
\* before Deactivate (dispatcher.go:227-236), SetActive before Redeliver
\* (cmd/bankingcircle/subscriptions.go:156-165).
RetainedMeansDown ==
  \A s \in Subs : pending[s] # <<>> /\ status[s] = "active" =>
    \E p \in Procs : proc[p].sub = s /\ proc[p].pc \in {"deactivate", "redeliver"}

\* Nothing stays parked without a pause, so pressing release empties the
\* queue: park's check and append are one critical section (dispatcher.go:368-371).
ParkedMeansPaused == \A s \in Subs : queued[s] # <<>> => paused[s]

\* A short batch always has a flush coming, by a running timer or by a
\* goroutine already on its way: no notification waits for the next event.
QueueHasFlush ==
  \A s \in Subs : queue[s] # <<>> =>
    \/ timer[s] = "armed"
    \/ \E p \in Procs : proc[p].pc = "flush" /\ proc[p].sub = s

\* No table holds a notification that nobody is coming for: neither what was
\* retained, nor what was parked, nor a short batch.
NothingStranded == RetainedMeansDown /\ ParkedMeansPaused /\ QueueHasFlush

\* Once produced, a notification comes to rest: acknowledged, dropped with its
\* subscription, retained after the schedule, or parked behind a pause.
Resting(n) ==
  n \in acked \cup dropped \cup UNION {Range(pending[s]) \cup Range(queued[s]) : s \in Subs}

NotificationsComeToRest ==
  \A n \in Notes : n <= Len(to) ~> Resting(n)

\* What was retained is redelivered once its subscription is active again,
\* unless the subscription goes down once more.
ReactivationRedelivers ==
  \A s \in Subs :
    (pending[s] # <<>> /\ status[s] = "active")
      ~> (pending[s] = <<>> \/ status[s] # "active")
-----------------------------------------------------------------------------
(***************************************************************************)
(* The abstract pipe the dispatcher implements                             *)
(***************************************************************************)

\* Where a notification is, read off the dispatcher's tables.
PlaceOf(n) ==
  CASE n \in acked -> "delivered"
    [] n \in dropped -> "dropped"
    [] \E s \in Subs : n \in Range(pending[s]) -> "retained"
    [] \E s \in Subs : n \in Range(queued[s]) -> "parked"
    [] \E s \in Subs : n \in Range(queue[s]) -> "moving"
    [] \E p \in Procs : n \in Range(proc[p].batch) \cup Range(proc[p].todo) -> "moving"
    [] OTHER -> "lost"

Place == [n \in 1..Len(to) |-> PlaceOf(n)]

Alive == {s \in Subs : Exists(s)}
Halted == {s \in Subs : paused[s]}

Pipe == INSTANCE NotificationPipe WITH place <- Place, alive <- Alive, held <- Halted

\* The dispatcher implements the abstract pipe.
PipeSpec == Pipe!Spec
=============================================================================
