-------------------------------- MODULE Webhooks --------------------------------
(***************************************************************************)
(* The lab's simple senders and the receiver they send to: the notifier    *)
(* (cmd/notifier), which has one subscription and queues an event for it   *)
(* when asked, the card gateway (cmd/aci), which sends to a fixed target   *)
(* unless its wiring is disconnected (internal/labswitch), and the         *)
(* receiver (cmd/receiver), which keeps whatever reaches it.  Both senders *)
(* give each event a goroutine that tries MaxTry times (internal/retry).   *)
(*                                                                         *)
(* An event is a number, in the order they are queued.  What it says is    *)
(* the payment it is about; signing and encrypting it is left out, and so  *)
(* are the pauses between attempts.                                        *)
(***************************************************************************)
EXTENDS Integers, Sequences

CONSTANTS
  Urls, Permitted,       \* endpoints, and those the allowlist lets through
  Receiver, DefaultUrl,  \* the receiver's own, and WEBHOOK_URL
  MaxTry,                \* MAX_ATTEMPTS
  MaxSubscriptions, MaxCards, MaxFlips \* bounds

ASSUME WebhooksAssumption ==
  /\ Permitted \subseteq Urls /\ {Receiver, DefaultUrl} \subseteq Permitted
  /\ MaxTry \in Nat \ {0}
  /\ {MaxSubscriptions, MaxCards, MaxFlips} \subseteq Nat

VARIABLES
  sub,       \* the notifier's subscription: [id, url, status]
  enqueues,  \* calls of POST /enqueue by payment: [at, sub]
  events,    \* both senders' records: [by, about, sub, url, step, state, attempts]
  received,  \* how often the receiver stored each event
  wiring,    \* whether the gateway's target is connected
  flips      \* for the bound

hookVars == <<sub, enqueues, events, received, wiring, flips>>
-----------------------------------------------------------------------------
\* An event whose goroutine has started.
Started(by, about, s) ==
  [by |-> by, about |-> about, sub |-> s.id, url |-> s.url,
   step |-> "try", state |-> "pending", attempts |-> 0]

Gateway == [id |-> 0, url |-> Receiver]

Allowed(url) == url \in Permitted

\* putSub: a new one, active, in the place of the last.
PutSub(url) ==
  /\ Allowed(url) /\ sub.id < MaxSubscriptions
  /\ sub' = [id |-> sub.id + 1, url |-> url, status |-> "active"]
  /\ UNCHANGED <<enqueues, events, received, wiring, flips>>

\* enqueue copies the subscription, and refuses when it is not active.
CheckSubscription(p) ==
  /\ p \in DOMAIN enqueues /\ enqueues[p].at = "sent"
  /\ enqueues' = [enqueues EXCEPT ![p] =
       IF sub.status = "active" THEN [at |-> "checked", sub |-> sub]
       ELSE [at |-> "refused", sub |-> sub]]
  /\ UNCHANGED <<sub, events, received, wiring, flips>>

\* And queues the event for the copy, whatever became of the subscription.
Queue(p) ==
  /\ p \in DOMAIN enqueues /\ enqueues[p].at = "checked"
  /\ events' = Append(events, Started("notifier", p, enqueues[p].sub))
  /\ received' = Append(received, 0)
  /\ enqueues' = [enqueues EXCEPT ![p].at = "queued"]
  /\ UNCHANGED <<sub, wiring, flips>>

Cards == {e \in DOMAIN events : events[e].by = "gateway"}

\* simulatePayment: disconnected, the record is held and nothing is sent.
SimulatePayment(card) ==
  /\ Len(SelectSeq(events, LAMBDA x : x.by = "gateway")) < MaxCards
  /\ LET rec == Started("gateway", card, Gateway)
     IN  events' = Append(events,
           IF wiring THEN rec ELSE [rec EXCEPT !.step = "done", !.state = "held"])
  /\ received' = Append(received, 0)
  /\ UNCHANGED <<sub, enqueues, wiring, flips>>

\* POST /sim/connected.
Set ==
  /\ flips < MaxFlips /\ flips' = flips + 1
  /\ wiring' = ~wiring
  /\ UNCHANGED <<sub, enqueues, events, received>>
-----------------------------------------------------------------------------
(***************************************************************************)
(* An event's goroutine                                                    *)
(***************************************************************************)

ItsOwn(e) == events[e].by = "notifier" /\ events[e].sub = sub.id

\* Before an attempt, the notifier drops the events of a failed subscription.
Abort(e) ==
  /\ events[e].step = "try" /\ ItsOwn(e) /\ sub.status = "failed"
  /\ events' = [events EXCEPT ![e].step = "done", ![e].state = "aborted"]
  /\ UNCHANGED <<sub, enqueues, received, wiring, flips>>

\* What is not a 2xx is tried again while attempts are left.
ShouldRetry(attempt) == attempt < MaxTry

\* An attempt is stored and answered, stored with the answer lost, or neither.
Outcomes(url) ==
  {o \in [stored: BOOLEAN, answered: BOOLEAN] :
     (o.answered => o.stored) /\ (o.stored => Allowed(url) /\ url = Receiver)}

\* The record after an attempt.
Attempted(rec, answered) ==
  [rec EXCEPT !.attempts = @ + 1,
              !.state = IF answered THEN "delivered" ELSE @,
              !.step = IF answered THEN "done"
                       ELSE IF ShouldRetry(rec.attempts + 1) THEN "try" ELSE "give up"]

Try(e) ==
  /\ events[e].step = "try" /\ ~(ItsOwn(e) /\ sub.status = "failed")
  /\ \E o \in Outcomes(events[e].url) :
       /\ received' = IF o.stored THEN [received EXCEPT ![e] = @ + 1] ELSE received
       /\ events' = [events EXCEPT ![e] = Attempted(@, o.answered)]
  /\ UNCHANGED <<sub, enqueues, wiring, flips>>

\* Slip: whichever subscription is there now has failed.
GiveUpAny(e) ==
  /\ events[e].step = "give up"
  /\ events' = [events EXCEPT ![e].step = "done", ![e].state = "failed"]
  /\ sub' = IF events[e].by = "notifier" THEN [sub EXCEPT !.status = "failed"] ELSE sub
  /\ UNCHANGED <<enqueues, received, wiring, flips>>

\* The subscription it was queued for has failed with it, if it is still there.
GiveUp(e) ==
  /\ events[e].step = "give up"
  /\ events' = [events EXCEPT ![e].step = "done", ![e].state = "failed"]
  /\ sub' = IF ItsOwn(e) THEN [sub EXCEPT !.status = "failed"] ELSE sub
  /\ UNCHANGED <<enqueues, received, wiring, flips>>

Run(e) == Abort(e) \/ Try(e) \/ GiveUp(e)
-----------------------------------------------------------------------------
HooksInit ==
  /\ sub = [id |-> 1, url |-> DefaultUrl, status |-> "active"]
  /\ enqueues = <<>> /\ events = <<>> /\ received = <<>>
  /\ wiring \in BOOLEAN /\ flips = 0

HooksNext ==
  \/ \E url \in Urls : PutSub(url)
  \/ \E p \in DOMAIN enqueues : CheckSubscription(p) \/ Queue(p)
  \/ \E e \in DOMAIN events : Run(e)
  \/ SimulatePayment(Len(events) + 1)
  \/ Set
-----------------------------------------------------------------------------
\* The senders' records tell the truth about the far end: an event called
\* delivered was stored at least once and at most once for each attempt; one
\* held or dropped before its first attempt never was.  A subscription is
\* failed only by an event queued for it that was given up, one put in its
\* place by an operator is not (run, deliver, putSub).
RecordsTellTheTruth ==
  /\ \A e \in DOMAIN events :
       /\ received[e] <= events[e].attempts
       /\ events[e].state = "delivered" => received[e] > 0
       /\ events[e].state = "held" => received[e] = 0
       /\ received[e] > 0 => events[e].url = Receiver
  /\ sub.status = "failed" =>
       \E e \in DOMAIN events : ItsOwn(e) /\ events[e].state = "failed" /\ events[e].attempts = MaxTry
=============================================================================
