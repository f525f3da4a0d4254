------------------------------ MODULE PaymentPath -------------------------------
(***************************************************************************)
(* A payment from the payment API (cmd/paymentapi) through the core bank's *)
(* ledger (cmd/bank) to the notifier (Webhooks).  A request looks its      *)
(* Idempotency-Key up, has the bank move the money, has the notifier queue *)
(* an event, and only then records the payment and its key.  Either call   *)
(* may time out: the request goes on as if it was refused, and the call    *)
(* may still be served.                                                    *)
(*                                                                         *)
(* Payments are numbers, in the order their ids are minted.                *)
(***************************************************************************)
EXTENDS Webhooks, FiniteSets

CONSTANTS
  Requests,              \* requests the payment API can be at together
  Orders,                \* what they ask: [key, from, to, whole, ccy], key or NoKey
  NoKey,
  Seeded,                \* newStore: [account -> [ccy, cents]]
  Credits,               \* what other banks send: [to, ccy, whole]
  Openings,              \* accounts opened by hand: [iban, ccy, whole]
  Word,                  \* 2^64: how many values an amount can have
  MaxOrders, MaxLost, MaxCredits \* bounds

ASSUME PaymentPathAssumption ==
  /\ Word \in Nat \ {0}
  /\ \A a \in DOMAIN Seeded : Seeded[a].cents \in (Word \div 2 - Word)..(Word \div 2 - 1)
  /\ \A o \in Orders \cup Credits \cup Openings : o.whole \in Int
  /\ {MaxOrders, MaxLost, MaxCredits} \subseteq Nat

VARIABLES
  accounts,  \* the bank's accounts by IBAN: [ccy, cents, opening]
  entries,   \* the bank's ledger: [account, payment, cents]
  transfers, \* calls of POST /transfers by payment: sent, moved or refused
  request,   \* what each request of the API is at
  orders,    \* what each payment was asked
  payments,  \* byID: [status, notification] of the payments recorded, or None
  byKey,     \* payments by their Idempotency-Key
  lost,      \* history: payments whose transfer timed out
  raced,     \* history: keys two requests had looked up and not yet recorded
  losses, credits \* for the bounds

pathVars == <<hookVars, accounts, entries, transfers, request, orders, payments, byKey,
              lost, raced, losses, credits>>
bankVars == <<accounts, entries>>
-----------------------------------------------------------------------------
(***************************************************************************)
(* The core bank: one mutex around each request                            *)
(***************************************************************************)

\* money.Parse: whole units into cents, in a word that is not checked.
Signed64(v) ==
  LET w == v % Word IN IF w < Word \div 2 THEN w ELSE w - Word

Parse(whole) == Signed64(whole * 100)

Put(f, k, v) == [x \in DOMAIN f \cup {k} |-> IF x = k THEN v ELSE f[x]]

Opened(ccy, cents) == [ccy |-> ccy, cents |-> cents, opening |-> cents]

Entry(a, p, cents) == [account |-> a, payment |-> p, cents |-> cents]

Moved(a, cents) == [accounts[a] EXCEPT !.cents = Signed64(@ + cents)]

\* credit: an account opens the first time money arrives for it, and keeps to
\* the currency of that first time.
Credit(c) ==
  /\ credits < MaxCredits /\ credits' = credits + 1
  /\ Parse(c.whole) > 0
  /\ LET known == IF c.to \in DOMAIN accounts THEN accounts
                  ELSE Put(accounts, c.to, Opened(c.ccy, 0))
     IN  IF known[c.to].ccy # c.ccy THEN UNCHANGED bankVars
         ELSE /\ accounts' = [known EXCEPT ![c.to].cents = Signed64(@ + Parse(c.whole))]
              /\ entries' = Append(entries, Entry(c.to, 0, Parse(c.whole)))
  /\ UNCHANGED <<hookVars, transfers, request, orders, payments, byKey, lost, raced, losses>>

\* createAccount: what it opens with is not checked, and has no entry.
CreateAccount(o) ==
  /\ credits < MaxCredits /\ credits' = credits + 1
  /\ o.iban \notin DOMAIN accounts
  /\ accounts' = Put(accounts, o.iban, Opened(o.ccy, Parse(o.whole)))
  /\ UNCHANGED <<hookVars, entries, transfers, request, orders, payments, byKey, lost, raced, losses>>

MayMove(o) ==
  /\ Parse(o.whole) > 0
  /\ {o.from, o.to} \subseteq DOMAIN accounts /\ o.from # o.to
  /\ accounts[o.from].ccy = o.ccy /\ accounts[o.to].ccy = o.ccy
  /\ accounts[o.from].cents >= Parse(o.whole)

\* transfer: it does not ask whether the payment has moved before.
Transfer(p) ==
  /\ transfers[p] = "sent"
  /\ LET o == orders[p]
     IN  IF MayMove(o)
         THEN /\ accounts' = [accounts EXCEPT ![o.from] = Moved(o.from, -Parse(o.whole)),
                                              ![o.to] = Moved(o.to, Parse(o.whole))]
              /\ entries' = entries \o <<Entry(o.from, p, -Parse(o.whole)), Entry(o.to, p, Parse(o.whole))>>
              /\ transfers' = [transfers EXCEPT ![p] = "moved"]
         ELSE /\ transfers' = [transfers EXCEPT ![p] = "refused"]
              /\ UNCHANGED bankVars
  /\ UNCHANGED <<hookVars, request, orders, payments, byKey, lost, raced, losses, credits>>
-----------------------------------------------------------------------------
(***************************************************************************)
(* The payment API: create                                                 *)
(***************************************************************************)

Waiting == [step |-> "idle"]
NotRecorded == [status |-> "", notification |-> ""]

KeyOf(r) == request[r].order.key

AtOnce(r) ==
  \E q \in Requests \ {r} :
    request[q].step \notin {"idle", "look"} /\ KeyOf(q) = KeyOf(r)

Ask(r) ==
  /\ request[r].step = "idle"
  /\ Cardinality({q \in Requests : request[q].step = "look"}) + Len(orders) < MaxOrders
  /\ \E o \in Orders : request' = [request EXCEPT ![r] = [step |-> "look", order |-> o]]
  /\ UNCHANGED <<hookVars, bankVars, transfers, orders, payments, byKey, lost, raced, losses, credits>>

\* A key that is known is answered with its payment, and nothing else is done.
Replay(r) ==
  /\ request[r].step = "look" /\ KeyOf(r) # NoKey /\ KeyOf(r) \in DOMAIN byKey
  /\ request' = [request EXCEPT ![r] = Waiting]
  /\ UNCHANGED <<hookVars, bankVars, transfers, orders, payments, byKey, lost, raced, losses, credits>>

\* Otherwise a payment is made up and its transfer sent.
Send(r) ==
  /\ request[r].step = "look" /\ (KeyOf(r) = NoKey \/ KeyOf(r) \notin DOMAIN byKey)
  /\ orders' = Append(orders, request[r].order)
  /\ payments' = Append(payments, NotRecorded)
  /\ transfers' = Append(transfers, "sent")
  /\ request' = [request EXCEPT ![r] = [step |-> "transfer", order |-> request[r].order,
                                        id |-> Len(orders) + 1]]
  /\ raced' = IF AtOnce(r) THEN raced \cup {KeyOf(r)} ELSE raced
  /\ UNCHANGED <<hookVars, bankVars, byKey, lost, losses, credits>>

ToPut(r, status, notification) ==
  request' = [request EXCEPT ![r] = [step |-> "put", order |-> @.order, id |-> @.id,
                 status |-> status, notification |-> notification]]

\* Slip: a transfer that timed out went through.
TransferAnsweredOrNot(r) ==
  /\ request[r].step = "transfer"
  /\ LET p == request[r].id
         lose == losses < MaxLost
     IN  \/ /\ transfers[p] = "refused"
            /\ ToPut(r, "rejected", "not_enqueued")
            /\ UNCHANGED <<enqueues, lost, losses>>
         \/ /\ transfers[p] = "moved" \/ lose
            /\ enqueues' = Put(enqueues, p, [at |-> "sent", sub |-> sub])
            /\ request' = [request EXCEPT ![r].step = "enqueue"]
            /\ losses' = IF transfers[p] = "moved" THEN losses ELSE losses + 1
            /\ UNCHANGED lost
  /\ UNCHANGED <<sub, events, received, wiring, flips, bankVars, transfers, orders, payments,
                 byKey, raced, credits>>

\* The transfer's answer: moved, refused, or none in time, which counts as
\* refused.
TransferAnswered(r) ==
  /\ request[r].step = "transfer"
  /\ LET p == request[r].id
     IN  \/ /\ transfers[p] = "moved"
            /\ enqueues' = Put(enqueues, p, [at |-> "sent", sub |-> sub])
            /\ request' = [request EXCEPT ![r].step = "enqueue"]
            /\ UNCHANGED <<lost, losses>>
         \/ /\ transfers[p] = "refused"
            /\ ToPut(r, "rejected", "not_enqueued")
            /\ UNCHANGED <<enqueues, lost, losses>>
         \/ /\ losses < MaxLost /\ losses' = losses + 1
            /\ lost' = lost \cup {p}
            /\ ToPut(r, "rejected", "not_enqueued")
            /\ UNCHANGED enqueues
  /\ UNCHANGED <<sub, events, received, wiring, flips, bankVars, transfers, orders, payments,
                 byKey, raced, credits>>

\* The notifier's answer: queued, or not, or none in time.
EnqueueAnswered(r) ==
  /\ request[r].step = "enqueue"
  /\ LET at == enqueues[request[r].id].at
     IN  \/ at = "queued" /\ ToPut(r, "accepted", "enqueued") /\ UNCHANGED losses
         \/ at = "refused" /\ ToPut(r, "accepted", "enqueue_failed") /\ UNCHANGED losses
         \/ /\ losses < MaxLost /\ losses' = losses + 1
            /\ ToPut(r, "accepted", "enqueue_failed")
  /\ UNCHANGED <<hookVars, bankVars, transfers, orders, payments, byKey, lost, raced, credits>>

\* Slip: a rejected payment may be tried again under its key.
PutAccepted(r) ==
  /\ request[r].step = "put"
  /\ LET q == request[r]
     IN  /\ payments' = [payments EXCEPT ![q.id] = [status |-> q.status, notification |-> q.notification]]
         /\ byKey' = IF KeyOf(r) = NoKey \/ q.status = "rejected" THEN byKey ELSE Put(byKey, KeyOf(r), q.id)
  /\ request' = [request EXCEPT ![r] = Waiting]
  /\ UNCHANGED <<hookVars, bankVars, transfers, orders, lost, raced, losses, credits>>

\* put, and the answer.
PutPayment(r) ==
  /\ request[r].step = "put"
  /\ LET q == request[r]
     IN  /\ payments' = [payments EXCEPT ![q.id] = [status |-> q.status, notification |-> q.notification]]
         /\ byKey' = IF KeyOf(r) = NoKey THEN byKey ELSE Put(byKey, KeyOf(r), q.id)
  /\ request' = [request EXCEPT ![r] = Waiting]
  /\ UNCHANGED <<hookVars, bankVars, transfers, orders, lost, raced, losses, credits>>
-----------------------------------------------------------------------------
PathInit ==
  /\ HooksInit
  /\ accounts = [a \in DOMAIN Seeded |-> Opened(Seeded[a].ccy, Seeded[a].cents)]
  /\ entries = <<>> /\ transfers = <<>> /\ orders = <<>> /\ payments = <<>>
  /\ request = [r \in Requests |-> Waiting]
  /\ byKey = [k \in {} |-> 0]
  /\ lost = {} /\ raced = {} /\ losses = 0 /\ credits = 0

Create(r) ==
  Ask(r) \/ Replay(r) \/ Send(r) \/ TransferAnswered(r) \/ EnqueueAnswered(r) \/ PutPayment(r)

PathNext ==
  \/ \E r \in Requests : Create(r)
  \/ \E p \in DOMAIN transfers : Transfer(p)
  \/ \E c \in Credits : Credit(c)
  \/ \E o \in Openings : CreateAccount(o)
  \/ HooksNext /\ UNCHANGED <<bankVars, transfers, request, orders, payments, byKey, lost, raced, losses, credits>>

PathSpec == PathInit /\ [][PathNext]_pathVars
-----------------------------------------------------------------------------
EntriesOf(p) == {i \in DOMAIN entries : entries[i].payment = p}

HasMoved(p) == EntriesOf(p) # {}

\* What the entries of account a add up to.
Total(s, a) ==
  LET sum[n \in 0..Len(s)] ==
        IF n = 0 THEN 0 ELSE sum[n - 1] + (IF s[n].account = a THEN s[n].cents ELSE 0)
  IN  sum[Len(s)]

\* The three services' books agree: an account holds what it opened with and
\* what its entries add up to, in a word that wraps; a payment has its debit
\* and, next to it, its credit, once, of the amount the bank read in the
\* order, or no entry; one recorded as accepted has moved, and the notifier
\* queued it if it is recorded so; one recorded as rejected has not moved, and
\* will not, unless the answer came too late (create, transfer, credit).
BooksAgree ==
  /\ \A a \in DOMAIN accounts :
       accounts[a].cents = Signed64(accounts[a].opening + Total(entries, a))
  /\ \A p \in DOMAIN orders :
       LET o == orders[p]
           amount == Parse(o.whole)
       IN  /\ HasMoved(p) =>
                \E i \in EntriesOf(p) :
                  /\ EntriesOf(p) = {i, i + 1}
                  /\ entries[i] = Entry(o.from, p, -amount) /\ entries[i + 1] = Entry(o.to, p, amount)
           /\ payments[p].status = "accepted" => HasMoved(p)
           /\ payments[p].notification = "enqueued" =>
                \E e \in DOMAIN events : events[e].by = "notifier" /\ events[e].about = p
           /\ payments[p].status = "rejected" /\ p \notin lost => transfers[p] = "refused" /\ ~HasMoved(p)

\* A client that repeats a request under its key is debited once, however
\* often it asks and whatever was lost on the way, unless two of its requests
\* were handled at once (create).
OneMovePerKey ==
  \A p, q \in DOMAIN orders :
    p < q /\ HasMoved(p) /\ HasMoved(q) /\ orders[p].key = orders[q].key =>
      orders[p].key \in raced \cup {NoKey}
=============================================================================
