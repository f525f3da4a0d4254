---------------------------- MODULE PaymentEngine ----------------------------
(***************************************************************************)
(* The settlement bank's ledger (internal/bankingcircle/ledger.go), the    *)
(* payment engine on top of it (payment.go) and the internal HTTP routes   *)
(* of cmd/bankingcircle that drive them.                                   *)
(*                                                                         *)
(* The ledger and the engine have a mutex each; one action is one critical *)
(* section of one of them (Reverse and Return hold the engine's while they *)
(* take the ledger's) or one call of onTransition.  A payment object is    *)
(* its position in heap; table says which objects e.payments still holds,  *)
(* since a second payment under the same id replaces the first there while *)
(* the first one's goroutine goes on.                                      *)
(***************************************************************************)
EXTENDS Naturals, Sequences, FiniteSets, Functions

CONSTANTS
  Sga,          \* the safeguarding accounts, one for each currency
  Creditors,    \* account ids payouts name as their creditor
  External,     \* "external_worldline", the debtor of incoming payments
  Ids,          \* payment ids the caller of POST /internal/payments chooses
  OwnId,        \* any id the bank makes up, never one used before
  Amounts,      \* amounts in cents
  MaxPayments,  \* bound: payment objects in a behaviour
  MaxForced,    \* bound: outcomes waiting in e.forced
  LastInstant,  \* bound: instants the lab clock can be set to
  CalendarDay   \* the day each instant belongs to (FinancialDay)

Instants == 1..LastInstant

ASSUME EngineAssumption ==
  /\ Sga # {} /\ IsFiniteSet(Sga) /\ IsFiniteSet(Creditors)
  /\ External \notin Sga \cup Creditors
  /\ OwnId \notin Ids
  /\ Amounts \subseteq Nat \ {0}
  /\ MaxPayments \in Nat /\ MaxForced \in Nat
  /\ LastInstant \in Nat \ {0}
  /\ CalendarDay \in [Instants -> Nat \ {0}]

VARIABLES
  cents,      \* balance of each account
  known,      \* accounts that exist: a payout's creditor is opened on demand
  openDay,    \* the day of the account's last movement, 0 before the first
  openCents,  \* its balance when that day began
  heap,       \* payment objects, in the order they are made
  work,       \* for each, what its goroutine and a reversing caller are at
  table,      \* e.payments: the objects it still holds
  forced,     \* e.forced
  sent,       \* for each, the notification types handed to onTransition
  clock,      \* the lab clock
  eve,        \* history: each account's balance before its last movements of a day
  dawn,       \* history: the balances when the clock last came to a new day
  past        \* history: the days the clock has been on and left

accounts == <<cents, openDay, openCents, eve>>
vars == <<accounts, known, heap, work, table, forced, sent, clock, dawn, past>>
-----------------------------------------------------------------------------
Accounts == Sga \cup Creditors
Objects == 1..MaxPayments
Days == {CalendarDay[i] : i \in Instants}
Outcomes == {"Rejected", "Pending"}

Types == {"OutgoingPaymentBooked", "OutgoingPaymentProcessed",
          "OutgoingPaymentRejected", "MissingFunding", "Reversed",
          "IncomingPaymentBooked", "IncomingPaymentProcessed"}

\* returnedBy and returnOf are 0 for "", as are the two timestamps; they name
\* objects where the code names payment ids.
Payment == [id: Ids \cup {OwnId}, from: Accounts \cup {External}, to: Accounts,
            amount: Amounts, state: Types,
            returnedBy: 0..MaxPayments, returnOf: 0..MaxPayments,
            created: Instants, updated: Instants,
            processed: 0..LastInstant, reversed: 0..LastInstant]

Points == {"credited",  \* CreditIncoming, the ledger credited, not registered
           "booked",    \* registered, the booking not yet notified
           "asleep",    \* process or processIncoming, before it does anything
           "moved",     \* Move answered without error
           "short",     \* Move answered ErrInsufficientFunds
           "refused",   \* Move answered another error, or a forced rejection
           "announce",  \* state set, its notification not yet sent
           "done"}

\* outcome is what Create took from e.forced; told is the state in the copy
\* the goroutine will notify; reversal is how far a Reverse call is.
Work == [at: Points, outcome: Outcomes \cup {"none"}, told: Types,
         reversal: {"none", "booking", "reversed", "done"}]

Starting(at, outcome, type) ==
  [at |-> at, outcome |-> outcome, told |-> type, reversal |-> "none"]

Outgoing(o) ==
  heap[o].state \in {"OutgoingPaymentBooked", "OutgoingPaymentProcessed",
                     "OutgoingPaymentRejected", "MissingFunding", "Reversed"}

Room == Len(heap) < MaxPayments

\* A payment as Create, CreditIncoming and Return make it.
NewPayment(id, from, dest, amount, type, orig) ==
  [id |-> id, from |-> from, to |-> dest, amount |-> amount, state |-> type,
   returnedBy |-> 0, returnOf |-> orig, created |-> clock, updated |-> clock,
   processed |-> 0, reversed |-> 0]
-----------------------------------------------------------------------------
(***************************************************************************)
(* The ledger                                                              *)
(***************************************************************************)
Today == CalendarDay[clock]

\* opening, for every account in A: the first movement of a day records the
\* balance the day began with.
Opening(A) ==
  LET fresh == {a \in A : openDay[a] # Today} IN
  /\ openDay' = [a \in Accounts |-> IF a \in fresh THEN Today ELSE openDay[a]]
  /\ openCents' = [a \in Accounts |-> IF a \in fresh THEN cents[a] ELSE openCents[a]]

\* The history beside a movement of the accounts in A: what each is left with
\* is what it had before any movement of another day.
Dated(A) ==
  eve' = [a \in Accounts |-> [d \in Days |->
            IF a \in A /\ d # Today THEN cents'[a] ELSE eve[a][d]]]

\* Move's error, in the order it looks for one.
MoveError(from, dest, amount) ==
  CASE from = dest -> "refused"
    [] from # dest /\ ~({from, dest} \subseteq known) -> "refused"
    [] from # dest /\ {from, dest} \subseteq known /\ cents[from] < amount -> "short"
    [] OTHER -> "none"

\* Slip: the day's opening balance is taken from the debtor only.
MoveOpensDebtor(from, dest, amount) ==
  /\ MoveError(from, dest, amount) = "none"
  /\ Opening({from})
  /\ cents' = [cents EXCEPT ![from] = @ - amount, ![dest] = @ + amount]
  /\ Dated({from, dest})

\* Move, when it answers no error.
Move(from, dest, amount) ==
  /\ MoveError(from, dest, amount) = "none"
  /\ Opening({from, dest})
  /\ cents' = [cents EXCEPT ![from] = @ - amount, ![dest] = @ + amount]
  /\ Dated({from, dest})

Credit(dest, amount) ==
  /\ dest \in known
  /\ Opening({dest})
  /\ cents' = [cents EXCEPT ![dest] = @ + amount]
  /\ Dated({dest})

\* DayAmounts' begin-of-day part.
BeginOfDay(a) == IF openDay[a] # Today THEN cents[a] ELSE openCents[a]
-----------------------------------------------------------------------------
(***************************************************************************)
(* Outgoing payments                                                       *)
(***************************************************************************)
Enter(p, w) ==
  /\ heap' = Append(heap, p)
  /\ work' = Append(work, w)
  /\ sent' = Append(sent, <<>>)

Goto(o, w) == work' = [work EXCEPT ![o] = w]

Record(o, p) == heap' = [heap EXCEPT ![o] = p]

\* createInternalPayment: GetOrCreate opens the creditor's account; Create
\* records the payment over any other with its id and takes an outcome.
Create(id, from, dest, amount) ==
  /\ Room
  /\ known' = known \cup {dest}
  /\ Enter(NewPayment(id, from, dest, amount, "OutgoingPaymentBooked", 0),
           Starting("booked", IF forced = <<>> THEN "none" ELSE Head(forced),
                    "OutgoingPaymentBooked"))
  /\ forced' = IF forced = <<>> THEN forced ELSE Tail(forced)
  /\ table' = {o \in table : heap[o].id # id} \cup {Len(heap) + 1}
  /\ UNCHANGED <<accounts, clock, dawn, past>>

ForceNext(outcomes) ==
  /\ Len(forced) + Len(outcomes) <= MaxForced
  /\ forced' = forced \o outcomes
  /\ UNCHANGED <<accounts, known, heap, work, table, sent, clock, dawn, past>>

\* notify as Create, CreditIncoming and Return call it, then the goroutine;
\* process leaves a Pending payment at once.
NotifyBooked(o) ==
  /\ work[o].at = "booked"
  /\ sent' = [sent EXCEPT ![o] = Append(@, work[o].told)]
  /\ Goto(o, [work[o] EXCEPT
                !.at = IF work[o].outcome = "Pending" THEN "done" ELSE "asleep"])
  /\ UNCHANGED <<accounts, known, heap, table, forced, clock, dawn, past>>

\* Slip: the goroutine returns on an error.
ProcessMoveGivesUp(o) ==
  LET p == heap[o] IN
  /\ work[o].at = "asleep" /\ Outgoing(o)
  /\ work[o].outcome = "none"
  /\ \/ /\ Move(p.from, p.to, p.amount)
        /\ Goto(o, [work[o] EXCEPT !.at = "moved"])
     \/ /\ MoveError(p.from, p.to, p.amount) # "none"
        /\ Goto(o, [work[o] EXCEPT !.at = "done"])
        /\ UNCHANGED accounts
  /\ UNCHANGED <<known, heap, table, forced, sent, clock, dawn, past>>

\* process after its delay: the ledger's critical section, without e.mu.
ProcessMove(o) ==
  LET p == heap[o] IN
  /\ work[o].at = "asleep" /\ Outgoing(o)
  /\ work[o].outcome = "none"
  /\ \/ /\ Move(p.from, p.to, p.amount)
        /\ Goto(o, [work[o] EXCEPT !.at = "moved"])
     \/ /\ MoveError(p.from, p.to, p.amount) # "none"
        /\ Goto(o, [work[o] EXCEPT !.at = MoveError(p.from, p.to, p.amount)])
        /\ UNCHANGED accounts
  /\ UNCHANGED <<known, heap, table, forced, sent, clock, dawn, past>>

ForcedRejection(o) ==
  /\ work[o].at = "asleep" /\ Outgoing(o)
  /\ work[o].outcome = "Rejected"
  /\ Goto(o, [work[o] EXCEPT !.at = "refused"])
  /\ UNCHANGED <<accounts, known, heap, table, forced, sent, clock, dawn, past>>

StateAfter(point) ==
  CASE point = "moved" -> "OutgoingPaymentProcessed"
    [] point = "short" -> "MissingFunding"
    [] point = "refused" -> "OutgoingPaymentRejected"

\* process under e.mu: the state that the move's answer decides.
Settle(o) ==
  /\ work[o].at \in {"moved", "short", "refused"}
  /\ Record(o, [heap[o] EXCEPT
                  !.state = StateAfter(work[o].at), !.updated = clock,
                  !.processed = IF work[o].at = "moved" THEN clock ELSE @])
  /\ Goto(o, [work[o] EXCEPT !.at = "announce", !.told = StateAfter(work[o].at)])
  /\ UNCHANGED <<accounts, known, table, forced, sent, clock, dawn, past>>

\* Slip: the notification is made from the payment and not from the copy.
NotifySettledLive(o) ==
  /\ work[o].at = "announce"
  /\ sent' = [sent EXCEPT ![o] = Append(@, heap[o].state)]
  /\ Goto(o, [work[o] EXCEPT !.at = "done"])
  /\ UNCHANGED <<accounts, known, heap, table, forced, clock, dawn, past>>

\* The last notification of process and of processIncoming.
NotifySettled(o) ==
  /\ work[o].at = "announce"
  /\ sent' = [sent EXCEPT ![o] = Append(@, work[o].told)]
  /\ Goto(o, [work[o] EXCEPT !.at = "done"])
  /\ UNCHANGED <<accounts, known, heap, table, forced, clock, dawn, past>>
-----------------------------------------------------------------------------
(***************************************************************************)
(* Incoming payments                                                       *)
(***************************************************************************)

\* CreditIncoming up to the ledger's answer: the money is there before the
\* payment is.
CreditIncoming(dest, amount) ==
  /\ Room
  /\ Credit(dest, amount)
  /\ Enter(NewPayment(OwnId, External, dest, amount, "IncomingPaymentBooked", 0),
           Starting("credited", "none", "IncomingPaymentBooked"))
  /\ UNCHANGED <<known, table, forced, clock, dawn, past>>

\* CreditIncoming under e.mu; the payment is made just before.
Register(o) ==
  /\ work[o].at = "credited"
  /\ Record(o, [heap[o] EXCEPT !.created = clock, !.updated = clock])
  /\ table' = table \cup {o}
  /\ Goto(o, [work[o] EXCEPT !.at = "booked"])
  /\ UNCHANGED <<accounts, known, forced, sent, clock, dawn, past>>

ProcessIncoming(o) ==
  /\ work[o].at = "asleep" /\ ~Outgoing(o)
  /\ Record(o, [heap[o] EXCEPT !.state = "IncomingPaymentProcessed",
                               !.updated = clock, !.processed = clock])
  /\ Goto(o, [work[o] EXCEPT !.at = "announce", !.told = "IncomingPaymentProcessed"])
  /\ UNCHANGED <<accounts, known, table, forced, sent, clock, dawn, past>>
-----------------------------------------------------------------------------
(***************************************************************************)
(* Reversals and returns                                                   *)
(***************************************************************************)

\* What Reverse and Return ask of the payment the table holds.
CanComeBack(o) ==
  /\ o \in table
  /\ heap[o].state = "OutgoingPaymentProcessed"
  /\ heap[o].returnedBy = 0

\* Slip: a returned payout can still be reversed.
ReverseReturned(o) ==
  /\ o \in table
  /\ heap[o].state = "OutgoingPaymentProcessed"
  /\ Move(heap[o].to, heap[o].from, heap[o].amount)
  /\ Record(o, [heap[o] EXCEPT !.state = "Reversed", !.reversed = clock,
                               !.updated = clock])
  /\ Goto(o, [work[o] EXCEPT !.reversal = "booking"])
  /\ UNCHANGED <<known, table, forced, sent, clock, dawn, past>>

\* Slip: the state is set while the move back fails.
ReverseUnfunded(o) ==
  LET p == heap[o] IN
  /\ CanComeBack(o)
  /\ \/ Move(p.to, p.from, p.amount)
     \/ MoveError(p.to, p.from, p.amount) # "none" /\ UNCHANGED accounts
  /\ Record(o, [heap[o] EXCEPT !.state = "Reversed", !.reversed = clock,
                               !.updated = clock])
  /\ Goto(o, [work[o] EXCEPT !.reversal = "booking"])
  /\ UNCHANGED <<known, table, forced, sent, clock, dawn, past>>

\* Reverse under e.mu; a creditor who spent the money makes it fail.
Reverse(o) ==
  /\ CanComeBack(o)
  /\ Move(heap[o].to, heap[o].from, heap[o].amount)
  /\ Record(o, [heap[o] EXCEPT !.state = "Reversed", !.reversed = clock,
                               !.updated = clock])
  /\ Goto(o, [work[o] EXCEPT !.reversal = "booking"])
  /\ UNCHANGED <<known, table, forced, sent, clock, dawn, past>>

\* Reverse's two notifications: the reversal booking, then the status.
NotifyReversal(o) ==
  /\ \/ /\ work[o].reversal = "booking"
        /\ sent' = [sent EXCEPT ![o] = Append(@, "OutgoingPaymentBooked")]
        /\ Goto(o, [work[o] EXCEPT !.reversal = "reversed"])
     \/ /\ work[o].reversal = "reversed"
        /\ sent' = [sent EXCEPT ![o] = Append(@, "Reversed")]
        /\ Goto(o, [work[o] EXCEPT !.reversal = "done"])
  /\ UNCHANGED <<accounts, known, heap, table, forced, clock, dawn, past>>

\* Slip: the return does not leave its mark on the payout.
ReturnUnmarked(o) ==
  LET p == heap[o] IN
  /\ Room
  /\ CanComeBack(o)
  /\ Move(p.to, p.from, p.amount)
  /\ Enter(NewPayment(OwnId, p.to, p.from, p.amount, "IncomingPaymentBooked", o),
           Starting("booked", "none", "IncomingPaymentBooked"))
  /\ table' = table \cup {Len(heap) + 1}
  /\ UNCHANGED <<known, forced, clock, dawn, past>>

\* Return under e.mu: the payout keeps its state, a new incoming payment
\* brings the money back.  The code links the two by their ids, which a
\* record that replaced the payout would share; here it is by the object.
Return(o) ==
  LET p == heap[o] IN
  /\ Room
  /\ CanComeBack(o)
  /\ Move(p.to, p.from, p.amount)
  /\ heap' = Append([heap EXCEPT ![o] = [p EXCEPT !.returnedBy = Len(heap) + 1]],
                    NewPayment(OwnId, p.to, p.from, p.amount, "IncomingPaymentBooked", o))
  /\ work' = Append(work, Starting("booked", "none", "IncomingPaymentBooked"))
  /\ sent' = Append(sent, <<>>)
  /\ table' = table \cup {Len(heap) + 1}
  /\ UNCHANGED <<known, forced, clock, dawn, past>>
-----------------------------------------------------------------------------
\* The lab clock the bank follows is at another instant: it went on, or an
\* operator set it, forwards or back.
Tick ==
  \E i \in Instants \ {clock} :
    /\ clock' = i
    /\ dawn' = IF CalendarDay[i] \in past \cup {Today} THEN dawn ELSE cents
    /\ past' = IF CalendarDay[i] # Today THEN past \cup {Today} ELSE past
    /\ UNCHANGED <<accounts, known, heap, work, table, forced, sent>>

Init ==
  /\ cents = [a \in Accounts |-> 0]
  /\ known = Sga
  /\ openDay = [a \in Accounts |-> 0]
  /\ openCents = [a \in Accounts |-> 0]
  /\ heap = <<>>
  /\ work = <<>>
  /\ table = {}
  /\ forced = <<>>
  /\ sent = <<>>
  /\ clock = 1
  /\ eve = [a \in Accounts |-> [d \in Days |-> 0]]
  /\ dawn = [a \in Accounts |-> 0]
  /\ past = {}

\* What callers of the internal routes do, and the clock.
Environment ==
  \/ \E id \in Ids, s \in Sga, a \in Accounts, n \in Amounts : Create(id, s, a, n)
  \/ \E s \in Sga, n \in Amounts : CreditIncoming(s, n)
  \/ \E k \in 1..MaxForced : \E outcomes \in [1..k -> Outcomes] : ForceNext(outcomes)
  \/ \E o \in DOMAIN heap : Reverse(o) \/ Return(o)
  \/ Tick

\* What the program's goroutines do next for payment o.
Advance(o) ==
  \/ NotifyBooked(o) \/ ProcessMove(o) \/ ForcedRejection(o) \/ Settle(o)
  \/ NotifySettled(o) \/ Register(o) \/ ProcessIncoming(o) \/ NotifyReversal(o)

Next == Environment \/ \E o \in DOMAIN heap : Advance(o)

Spec == Init /\ [][Next]_vars

\* Goroutines run, delays end: every payment that can advance does.
FairSpec == Spec /\ \A o \in Objects : WF_vars(o \in DOMAIN heap /\ Advance(o))
-----------------------------------------------------------------------------
(***************************************************************************)
(* Properties                                                              *)
(***************************************************************************)

\* Every variable has its type; in particular no balance is ever negative,
\* whatever moves are checked and made concurrently.
TypeOK ==
  /\ cents \in [Accounts -> Nat]
  /\ known \subseteq Accounts /\ Sga \subseteq known
  /\ openDay \in [Accounts -> {0} \cup Days]
  /\ openCents \in [Accounts -> Nat]
  /\ heap \in Seq(Payment) /\ Len(heap) <= MaxPayments
  /\ work \in Seq(Work) /\ Len(work) = Len(heap)
  /\ sent \in Seq(Seq(Types)) /\ Len(sent) = Len(heap)
  /\ table \subseteq DOMAIN heap
  /\ forced \in Seq(Outcomes)
  /\ clock \in Instants
  /\ eve \in [Accounts -> [Days -> Nat]]
  /\ dawn \in [Accounts -> Nat]
  /\ past \subseteq Days

\* The payment's money has left its debtor: the ledger answered, whether or
\* not the state says so yet.
Paid(o) ==
  \/ work[o].at = "moved"
  \/ heap[o].state \in {"OutgoingPaymentProcessed", "Reversed",
                        "IncomingPaymentBooked", "IncomingPaymentProcessed"}

\* What payment o has taken from account a and what it has brought it; one
\* that was reversed has gone both ways.
Took(o, a) ==
  (IF heap[o].from = a /\ Paid(o) THEN heap[o].amount ELSE 0)
    + (IF heap[o].to = a /\ heap[o].state = "Reversed" THEN heap[o].amount ELSE 0)
Brought(o, a) ==
  (IF heap[o].to = a /\ Paid(o) THEN heap[o].amount ELSE 0)
    + (IF heap[o].from = a /\ heap[o].state = "Reversed" THEN heap[o].amount ELSE 0)

\* f[1] + ... + f[n]
SumTo(n, f) ==
  LET sum[i \in 0..n] == IF i = 0 THEN 0 ELSE sum[i - 1] + f[i] IN sum[n]

Left(a) == SumTo(Len(heap), [o \in DOMAIN heap |-> Took(o, a)])
Arrived(a) == SumTo(Len(heap), [o \in DOMAIN heap |-> Brought(o, a)])

\* The payment records explain the ledger to the cent at every moment, the
\* moments between a move and its state included: no money is made, lost or
\* moved without the payment that says why, even one the table forgot.
LedgerExplained == \A a \in Accounts : cents[a] + Left(a) = Arrived(a)

\* A payout comes back at most once, by a reversal or by one return, however
\* the two are called; and the two records of a return point at each other.
ComesBackOnce ==
  /\ \A o, r \in DOMAIN heap : heap[r].returnOf = o <=> heap[o].returnedBy = r
  /\ \A o \in DOMAIN heap :
       heap[o].returnedBy # 0 => heap[o].state = "OutgoingPaymentProcessed"

\* The balance DayAmounts says an account began the day with is the one
\* before its last movements of that day, so that the intraday part is what
\* they came to, wherever the clock was set in between; and on a day the
\* clock had not been on before it is what the account held when the day
\* began.
DayAmountsTrue ==
  \A a \in Accounts :
    /\ BeginOfDay(a) = eve[a][Today]
    /\ Today \notin past => BeginOfDay(a) = dawn[a]

\* What the notifications of a payment come to once nobody is working on it.
Told(type) ==
  IF type \in {"IncomingPaymentBooked", "OutgoingPaymentBooked"}
  THEN {[t |-> type, n |-> 1]}
  ELSE IF type = "IncomingPaymentProcessed"
  THEN {[t |-> "IncomingPaymentBooked", n |-> 1], [t |-> type, n |-> 1]}
  ELSE IF type = "Reversed"
  THEN {[t |-> "OutgoingPaymentBooked", n |-> 2],
        [t |-> "OutgoingPaymentProcessed", n |-> 1], [t |-> type, n |-> 1]}
  ELSE {[t |-> "OutgoingPaymentBooked", n |-> 1], [t |-> type, n |-> 1]}

Times(s, x) == Cardinality({i \in DOMAIN s : s[i] = x})

\* The notification stream and the record agree about every payment that is
\* at rest: each of its bookings and each state it went through was notified
\* once, a reversal that overtook the processed notification included.
StreamTellsRecord ==
  \A o \in DOMAIN heap :
    work[o].at = "done" /\ work[o].reversal \in {"none", "done"} =>
      Told(heap[o].state) = {[t |-> x, n |-> Times(sent[o], x)] : x \in Range(sent[o])}

\* Every payment the bank takes comes to rest, and stays booked only if the
\* override said so.
PaymentsResolve ==
  \A o \in Objects :
    o \in DOMAIN heap ~>
      /\ o \in DOMAIN heap
      /\ work[o].at = "done" /\ work[o].reversal \in {"none", "done"}
      /\ heap[o].state \in {"OutgoingPaymentBooked", "IncomingPaymentBooked"}
           => work[o].outcome = "Pending"
-----------------------------------------------------------------------------
\* Where the payment and its money are, the two taken together.
FateOf(o) ==
  CASE heap[o].state = "OutgoingPaymentProcessed" /\ heap[o].returnedBy # 0 -> "returned"
    [] heap[o].state = "OutgoingPaymentProcessed" /\ heap[o].returnedBy = 0 -> "processed"
    [] heap[o].state = "OutgoingPaymentBooked" ->
         (CASE work[o].at = "moved" -> "processed"
            [] work[o].at = "short" -> "short"
            [] work[o].at = "refused" -> "rejected"
            [] OTHER -> "instructed")
    [] heap[o].state = "MissingFunding" -> "short"
    [] heap[o].state = "OutgoingPaymentRejected" -> "rejected"
    [] heap[o].state = "Reversed" -> "reversed"
    [] heap[o].state = "IncomingPaymentBooked" -> "incoming"
    [] heap[o].state = "IncomingPaymentProcessed" -> "received"

Lifecycle == INSTANCE PaymentLifecycle WITH
  terms <- [o \in DOMAIN heap |->
              [from |-> heap[o].from, to |-> heap[o].to, amount |-> heap[o].amount]],
  fate <- [o \in DOMAIN heap |-> FateOf(o)],
  balance <- cents

\* The engine's two locks and its goroutines implement the atomic lifecycle.
LifecycleSpec == Lifecycle!Spec
=============================================================================
