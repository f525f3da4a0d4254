---------------------------- MODULE PaymentReports ----------------------------
(***************************************************************************)
(* The two reports a reconciliation sweep reads                            *)
(* (internal/bankingcircle/reports.go), computed from the payments the     *)
(* engine holds when they are asked for.                                   *)
(***************************************************************************)
EXTENDS PaymentEngine

CONSTANT BusinessDay  \* the business date each instant belongs to

ASSUME ReportsAssumption == BusinessDay \in [Instants -> Nat \ {0}]
-----------------------------------------------------------------------------
\* A line is its payment, which of the two bookings it tells of and its date.
\* The time of the last status change that it also shows is left out: the
\* booking of a payment that is reversed gets that of the reversal.
Row == [pay: Objects, reversal: BOOLEAN, on: {BusinessDay[i] : i \in Instants}]

Booked(state) == state \notin {"OutgoingPaymentRejected", "MissingFunding"}

BookingRow(o, instant) == [pay |-> o, reversal |-> FALSE, on |-> BusinessDay[instant]]

ReversalRow(o) == [pay |-> o, reversal |-> TRUE, on |-> BusinessDay[heap[o].reversed]]

\* Slip: both lines carry the date of the last change.
BookingRowsUpdated(o) ==
  IF heap[o].state = "Reversed"
  THEN {BookingRow(o, heap[o].updated), ReversalRow(o)}
  ELSE {BookingRow(o, heap[o].updated)}

\* Every line a payment puts on the report: a reversed payment keeps the one
\* it was processed with and gains a second.
BookingRows(o) ==
  IF heap[o].state = "Reversed"
  THEN {BookingRow(o, heap[o].processed), ReversalRow(o)}
  ELSE {BookingRow(o, heap[o].updated)}

\* IntradayReconciliation for the transaction date d.
IntradayReconciliation(d) ==
  {row \in UNION {BookingRows(o) : o \in {x \in table : Booked(heap[x].state)}} :
     row.on = d}

\* Rejections for the transaction date d, with the parameters' defaults:
\* pending payments and unfunded ones included, booked ones not excluded.
Rejections(d) ==
  {o \in table : /\ BusinessDay[heap[o].created] = d
                 /\ heap[o].state \in {"OutgoingPaymentRejected", "MissingFunding",
                                       "OutgoingPaymentBooked"}}
-----------------------------------------------------------------------------
\* A sweep relies on each outgoing payment instructed on a date, unless it is
\* pending, being in exactly one of that date's two reports.
InExactlyOneReport ==
  \A o \in table : \A d \in {BusinessDay[heap[o].created]} :
    Outgoing(o) /\ heap[o].state # "OutgoingPaymentBooked" =>
      ((\E row \in IntradayReconciliation(d) : row.pay = o) <=> o \notin Rejections(d))

\* The line of a processed payment is never taken off a report: as long as the
\* engine holds the payment it stays on the report of the same date, whatever
\* is reversed, returned or processed later.  (Its status change time is not
\* part of Row.)
ProcessedLinesKept ==
  [][\A o \in table \cap table' :
       heap[o].processed # 0 =>
         \A row \in BookingRows(o) : row \in BookingRows(o)']_vars
=============================================================================
