--------------------------- MODULE MCPaymentEngine ---------------------------
(***************************************************************************)
(* Instances of the bank's engine and reports for TLC.                     *)
(***************************************************************************)
EXTENDS PaymentReports, TLC

\* Payment ids are interchangeable, and so are the safeguarding accounts.
Symmetry == Permutations(Ids) \cup Permutations(Sga)

\* Money from outside is booked and processed before anything else happens,
\* and nothing is credited once a payout is instructed.
CreditsFirst ==
  /\ \A o \in DOMAIN heap :
       heap[o].from = External /\ work[o].at # "done" =>
         Len(heap') = Len(heap) /\ work'[o].at # work[o].at
  /\ Len(heap') > Len(heap) /\ heap'[Len(heap')].from = External =>
       \A o \in DOMAIN heap : heap[o].from = External

\* Outcomes are forced before the first payment only.
ForcedFirst == Len(forced') > Len(forced) => heap = <<>>

\* The clock is set back once, after two of the payments are made and no
\* outcome forced, and not moved again.
SetBackOnce ==
  /\ clock' # clock => past # Days
  /\ clock' < clock => /\ Len(heap) = 2 /\ forced = <<>>
                      /\ \A o \in DOMAIN heap : work[o].outcome = "none"

\* Every instant is a day of its own.
DayByDay == [i \in Instants |-> i]

\* The second instant is after the bank's cut-off, the third on the next day.
CutOffCalendarDay == [i \in Instants |-> IF i <= 2 THEN 1 ELSE 2]
CutOffBusinessDay == [i \in Instants |-> IF i = 1 THEN 1 ELSE 2]
=============================================================================
