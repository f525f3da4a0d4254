------------------------- MODULE PaymentEngineProofs -------------------------
(***************************************************************************)
(* Proofs about PaymentEngine, and about the lines PaymentReports makes of *)
(* it, for every set of accounts, every set of payment ids and amounts,    *)
(* and every calendar.                                                     *)
(***************************************************************************)
EXTENDS PaymentReports, SequenceTheorems, FiniteSetTheorems, NaturalsInduction,
        WellFoundedInduction, TLAPS

(***************************************************************************)
(* The pieces of a step and the types they keep                            *)
(***************************************************************************)

\* A sequence with one element replaced or one added.
LEMMA SeqStep ==
  ASSUME NEW S, NEW s \in Seq(S), NEW e \in S
  PROVE  /\ Append(s, e) \in Seq(S)
         /\ Len(Append(s, e)) = Len(s) + 1
         /\ DOMAIN Append(s, e) = 1..(Len(s) + 1)
         /\ \A i \in 1..Len(s) : Append(s, e)[i] = s[i]
         /\ Append(s, e)[Len(s) + 1] = e
         /\ \A i \in 1..Len(s) :
              /\ [s EXCEPT ![i] = e] \in Seq(S)
              /\ Len([s EXCEPT ![i] = e]) = Len(s)
BY AppendProperties, ExceptSeq, LenProperties

\* The three sequences have an entry for each payment.
LEMMA Entries ==
  ASSUME TypeOK, NEW o \in DOMAIN heap
  PROVE  /\ heap[o] \in Payment /\ work[o] \in Work /\ sent[o] \in Seq(Types)
         /\ o \in 1..Len(heap) /\ o \in Objects /\ Len(heap) \in Nat
         /\ DOMAIN work = DOMAIN heap /\ DOMAIN sent = DOMAIN heap
         /\ DOMAIN heap = 1..Len(heap)
<1>1. DOMAIN heap = 1..Len(heap) /\ DOMAIN work = 1..Len(work) /\ DOMAIN sent = 1..Len(sent)
      /\ Len(heap) \in Nat
  BY LenProperties DEF TypeOK
<1>2. o \in 1..Len(heap) /\ o \in 1..Len(work) /\ o \in 1..Len(sent)
  BY <1>1 DEF TypeOK
<1>3. heap[o] \in Payment /\ work[o] \in Work /\ sent[o] \in Seq(Types)
  BY <1>2, ElementOfSeq DEF TypeOK
<1>. QED  BY <1>1, <1>2, <1>3, EngineAssumption DEF TypeOK, Objects

\* A new payment takes the next place in all three sequences.
LEMMA EnterTyped ==
  ASSUME TypeOK, Room, NEW p \in Payment, NEW w \in Work, Enter(p, w)
  PROVE  /\ heap' \in Seq(Payment) /\ work' \in Seq(Work) /\ sent' \in Seq(Seq(Types))
         /\ Len(heap') = Len(heap) + 1 /\ Len(heap') <= MaxPayments
         /\ Len(work') = Len(heap') /\ Len(sent') = Len(heap')
         /\ DOMAIN heap = 1..Len(heap) /\ DOMAIN heap' = 1..(Len(heap) + 1)
         /\ Len(heap) + 1 \in DOMAIN heap' /\ DOMAIN heap \subseteq DOMAIN heap'
<1>1. heap \in Seq(Payment) /\ work \in Seq(Work) /\ sent \in Seq(Seq(Types))
      /\ Len(heap) \in Nat /\ Len(work) = Len(heap) /\ Len(sent) = Len(heap)
      /\ Len(heap) < MaxPayments /\ DOMAIN heap = 1..Len(heap)
  BY LenProperties DEF TypeOK, Room
<1>2. <<>> \in Seq(Types)
  OBVIOUS
<1>3. heap' \in Seq(Payment) /\ Len(heap') = Len(heap) + 1 /\ DOMAIN heap' = 1..(Len(heap) + 1)
  BY <1>1, SeqStep DEF Enter
<1>4. work' \in Seq(Work) /\ Len(work') = Len(heap) + 1
  BY <1>1, SeqStep DEF Enter
<1>5. sent' \in Seq(Seq(Types)) /\ Len(sent') = Len(heap) + 1
  BY <1>1, <1>2, SeqStep DEF Enter
<1>. QED  BY <1>1, <1>3, <1>4, <1>5, EngineAssumption

\* A payment's record is replaced by another.
LEMMA RecordTyped ==
  ASSUME TypeOK, NEW o \in DOMAIN heap, NEW p \in Payment, Record(o, p)
  PROVE  heap' \in Seq(Payment) /\ Len(heap') = Len(heap) /\ DOMAIN heap' = DOMAIN heap
<1>1. heap \in Seq(Payment) /\ o \in 1..Len(heap)
  BY Entries DEF TypeOK
<1>2. heap' \in Seq(Payment) /\ Len(heap') = Len(heap)
  BY <1>1, SeqStep DEF Record
<1>. QED  BY <1>1, <1>2, LenProperties

\* A goroutine record is replaced by another.
LEMMA GotoTyped ==
  ASSUME TypeOK, NEW o \in DOMAIN heap, NEW w \in Work, Goto(o, w)
  PROVE  work' \in Seq(Work) /\ Len(work') = Len(work)
<1>1. work \in Seq(Work) /\ o \in 1..Len(work)
  BY Entries DEF TypeOK
<1>. QED  BY <1>1, SeqStep DEF Goto

\* A notification is added to a payment's stream.
LEMMA TellTyped ==
  ASSUME TypeOK, NEW o \in DOMAIN heap, NEW t \in Types,
         sent' = [sent EXCEPT ![o] = Append(@, t)]
  PROVE  sent' \in Seq(Seq(Types)) /\ Len(sent') = Len(sent)
<1>1. sent \in Seq(Seq(Types)) /\ o \in 1..Len(sent) /\ sent[o] \in Seq(Types)
  BY Entries DEF TypeOK
<1>2. Append(sent[o], t) \in Seq(Types)
  BY <1>1, SeqStep
<1>3. sent' = [sent EXCEPT ![o] = Append(sent[o], t)]
  OBVIOUS
<1>. QED  BY <1>1, <1>2, <1>3, SeqStep

\* Opening keeps the types of the two columns it writes.
LEMMA OpeningTyped ==
  ASSUME TypeOK, NEW A \in SUBSET Accounts, Opening(A)
  PROVE  /\ openDay' \in [Accounts -> {0} \cup Days]
         /\ openCents' \in [Accounts -> Nat]
<1>1. Today \in Days
  BY DEF TypeOK, Today, Days
<1>. QED  BY <1>1 DEF TypeOK, Opening

\* So does the history of a movement.
LEMMA DatedTyped ==
  ASSUME TypeOK, NEW A, Dated(A), cents' \in [Accounts -> Nat]
  PROVE  eve' \in [Accounts -> [Days -> Nat]]
BY DEF TypeOK, Dated

\* A move is between two accounts that exist, out of money that is there.
LEMMA MoveTyped ==
  ASSUME TypeOK, NEW from, NEW dest, NEW amount \in Amounts, Move(from, dest, amount)
  PROVE  /\ from \in Accounts /\ dest \in Accounts /\ from # dest
         /\ cents[from] >= amount
         /\ cents' = [cents EXCEPT ![from] = @ - amount, ![dest] = @ + amount]
         /\ Opening({from, dest})
         /\ cents' \in [Accounts -> Nat]
         /\ openDay' \in [Accounts -> {0} \cup Days]
         /\ openCents' \in [Accounts -> Nat]
         /\ Dated({from, dest})
         /\ eve' \in [Accounts -> [Days -> Nat]]
<1>1. from # dest /\ {from, dest} \subseteq known /\ ~(cents[from] < amount)
  BY DEF Move, MoveError
<1>2. from \in Accounts /\ dest \in Accounts
  BY <1>1 DEF TypeOK
<1>3. cents' = [cents EXCEPT ![from] = @ - amount, ![dest] = @ + amount] /\ Opening({from, dest})
      /\ Dated({from, dest})
  BY DEF Move
<1>4. amount \in Nat /\ cents \in [Accounts -> Nat]
  BY EngineAssumption DEF TypeOK
<1>5. cents[from] - amount \in Nat /\ cents[dest] + amount \in Nat /\ cents[from] >= amount
  BY <1>1, <1>2, <1>4
<1>6. cents' \in [Accounts -> Nat]
  BY <1>1, <1>2, <1>3, <1>4, <1>5
<1>7. eve' \in [Accounts -> [Days -> Nat]]
  BY <1>3, <1>6, DatedTyped
<1>. QED  BY <1>1, <1>2, <1>3, <1>5, <1>6, <1>7, OpeningTyped
-----------------------------------------------------------------------------
(***************************************************************************)
(* Type correctness                                                        *)
(***************************************************************************)

\* What NewPayment makes is a payment.
LEMMA NewPaymentTyped ==
  ASSUME TypeOK, NEW id \in Ids \cup {OwnId}, NEW from \in Accounts \cup {External},
         NEW dest \in Accounts, NEW amount \in Amounts, NEW type \in Types,
         NEW orig \in 0..MaxPayments
  PROVE  NewPayment(id, from, dest, amount, type, orig) \in Payment
<1>1. clock \in Instants /\ 0 \in 0..LastInstant /\ 0 \in 0..MaxPayments
  BY EngineAssumption DEF TypeOK
<1>. QED  BY <1>1 DEF NewPayment, Payment

\* Where a new payment's goroutine begins.
LEMMA StartingTyped ==
  ASSUME NEW at \in {"booked", "credited"}, NEW outcome \in Outcomes \cup {"none"},
         NEW type \in Types
  PROVE  Starting(at, outcome, type) \in Work
BY DEF Starting, Work, Points

\* The instants a record takes from the clock.
LEMMA ClockTyped ==
  ASSUME TypeOK
  PROVE  clock \in Instants /\ clock \in 0..LastInstant
BY EngineAssumption DEF TypeOK, Instants

\* The bank starts well typed.
LEMMA TypeInit == Init => TypeOK
<1> SUFFICES ASSUME Init PROVE TypeOK
  OBVIOUS
<1>1. heap \in Seq(Payment) /\ work \in Seq(Work) /\ sent \in Seq(Seq(Types))
      /\ forced \in Seq(Outcomes) /\ Len(heap) = 0 /\ Len(work) = 0 /\ Len(sent) = 0
  BY DEF Init
<1>2. Sga \subseteq Accounts /\ clock \in Instants /\ 0 <= MaxPayments
  BY EngineAssumption DEF Init, Accounts, Instants
<1>3. eve \in [Accounts -> [Days -> Nat]] /\ past \subseteq Days
  BY DEF Init
<1>. QED  BY <1>1, <1>2, <1>3 DEF Init, TypeOK

\* Every step of the bank keeps the types.
LEMMA TypeNext == TypeOK /\ [Next]_vars => TypeOK'
<1> SUFFICES ASSUME TypeOK, [Next]_vars PROVE TypeOK'
  OBVIOUS
<1> USE EngineAssumption
<1>1. ASSUME NEW id \in Ids, NEW s \in Sga, NEW a \in Accounts, NEW n \in Amounts,
             Create(id, s, a, n)
      PROVE  TypeOK'
  <2> DEFINE w == Starting("booked", IF forced = <<>> THEN "none" ELSE Head(forced),
                           "OutgoingPaymentBooked")
             p == NewPayment(id, s, a, n, "OutgoingPaymentBooked", 0)
  <2>1. /\ (IF forced = <<>> THEN "none" ELSE Head(forced)) \in Outcomes \cup {"none"}
        /\ forced' \in Seq(Outcomes)
    BY <1>1 DEF Create, TypeOK
  <2>2. w \in Work
    BY <2>1, StartingTyped DEF Types
  <2>3. p \in Payment
    BY NewPaymentTyped DEF Types, Accounts
  <2>4. Room /\ Enter(p, w)
    BY <1>1 DEF Create
  <2> HIDE DEF p, w
  <2>5. table' \subseteq DOMAIN heap'
    BY <1>1, <2>2, <2>3, <2>4, EnterTyped DEF Create, TypeOK
  <2>. QED  BY <1>1, <2>1, <2>2, <2>3, <2>4, <2>5, EnterTyped DEF Create, TypeOK, accounts
<1>2. ASSUME NEW s \in Sga, NEW n \in Amounts, CreditIncoming(s, n) PROVE TypeOK'
  <2> DEFINE w == Starting("credited", "none", "IncomingPaymentBooked")
             p == NewPayment(OwnId, External, s, n, "IncomingPaymentBooked", 0)
  <2>0. s \in Accounts /\ n \in Nat
    BY DEF Accounts
  <2>1. s \in Accounts /\ n \in Nat /\ cents[s] + n \in Nat
    BY <2>0 DEF TypeOK
  <2>2. w \in Work /\ p \in Payment
    <3>1. w \in Work
      BY StartingTyped DEF Types
    <3>2. p \in Payment
      <4>1. External \in Accounts \cup {External} /\ OwnId \in Ids \cup {OwnId}
            /\ "IncomingPaymentBooked" \in Types /\ 0 \in 0..MaxPayments
        BY EngineAssumption DEF Types
      <4>. QED  BY <2>1, <4>1, NewPaymentTyped
    <3>. QED  BY <3>1, <3>2
  <2>3. Room /\ Enter(p, w) /\ Credit(s, n)
    BY <1>2 DEF CreditIncoming
  <2> HIDE DEF p, w
  <2>4. cents' \in [Accounts -> Nat] /\ Opening({s})
    BY <2>1, <2>3 DEF Credit, TypeOK
  <2>6. eve' \in [Accounts -> [Days -> Nat]]
    BY <2>3, <2>4, DatedTyped DEF Credit
  <2>5. table' \subseteq DOMAIN heap'
    BY <1>2, <2>2, <2>3, EnterTyped DEF CreditIncoming, TypeOK
  <2>. QED
    BY <1>2, <2>1, <2>2, <2>3, <2>4, <2>5, <2>6, EnterTyped, OpeningTyped
    DEF CreditIncoming, TypeOK
<1>3. ASSUME NEW k \in 1..MaxForced, NEW outcomes \in [1..k -> Outcomes], ForceNext(outcomes)
      PROVE  TypeOK'
  <2>1. outcomes \in Seq(Outcomes)
    BY SeqDef
  <2>2. forced' \in Seq(Outcomes)
    BY <1>3, <2>1, ConcatProperties DEF ForceNext, TypeOK
  <2>. QED  BY <1>3, <2>2 DEF ForceNext, TypeOK, accounts
<1>4. ASSUME NEW o \in DOMAIN heap, Reverse(o) PROVE TypeOK'
  <2> DEFINE p == [heap[o] EXCEPT !.state = "Reversed", !.reversed = clock, !.updated = clock]
             w == [work[o] EXCEPT !.reversal = "booking"]
  <2>1. heap[o] \in Payment /\ work[o] \in Work
    BY Entries
  <2>2. p \in Payment /\ w \in Work
    BY <2>1, ClockTyped DEF Payment, Work, Types
  <2>3. Record(o, p) /\ Goto(o, w) /\ Move(heap[o].to, heap[o].from, heap[o].amount)
        /\ heap[o].amount \in Amounts
    BY <1>4, <2>1 DEF Reverse, Payment
  <2> HIDE DEF p, w
  <2>. QED
    BY <1>4, <2>2, <2>3, RecordTyped, GotoTyped, MoveTyped DEF Reverse, TypeOK
<1>5. ASSUME NEW o \in DOMAIN heap, Return(o) PROVE TypeOK'
  <2> DEFINE p == [heap[o] EXCEPT !.returnedBy = Len(heap) + 1]
             q == NewPayment(OwnId, heap[o].to, heap[o].from, heap[o].amount,
                             "IncomingPaymentBooked", o)
             w == Starting("booked", "none", "IncomingPaymentBooked")
             h == [heap EXCEPT ![o] = p]
  <2>1. heap[o] \in Payment /\ heap[o].amount \in Amounts /\ heap[o].to \in Accounts
        /\ o \in 1..Len(heap) /\ Len(heap) \in Nat /\ o \in 0..MaxPayments
    BY Entries DEF Payment, Objects
  <2>2. Room /\ Move(heap[o].to, heap[o].from, heap[o].amount)
    BY <1>5 DEF Return
  <2>3. heap[o].from \in Accounts
    BY <2>1, <2>2, MoveTyped
  <2>4. q \in Payment /\ w \in Work
    BY <2>1, <2>3, NewPaymentTyped, StartingTyped DEF Types
  <2>5. Len(heap) + 1 \in 0..MaxPayments
    BY <2>1, <2>2 DEF Room
  <2>6. p \in Payment
    BY <2>1, <2>5 DEF Payment
  <2>7. heap' = Append(h, q) /\ work' = Append(work, w) /\ sent' = Append(sent, <<>>)
        /\ table' = table \cup {Len(heap) + 1}
    BY <1>5 DEF Return
  <2> HIDE DEF p, q, w
  <2>8. h \in Seq(Payment) /\ Len(h) = Len(heap)
    BY <2>1, <2>6, SeqStep DEF TypeOK
  <2> HIDE DEF h
  <2>9. heap' \in Seq(Payment) /\ Len(heap') = Len(heap) + 1
        /\ DOMAIN heap' = 1..(Len(heap) + 1)
    BY <2>4, <2>7, <2>8, SeqStep
  <2>10. work' \in Seq(Work) /\ Len(work') = Len(heap) + 1
    BY <2>4, <2>7, SeqStep DEF TypeOK
  <2>11. sent' \in Seq(Seq(Types)) /\ Len(sent') = Len(heap) + 1
    <3>1. <<>> \in Seq(Types)
      OBVIOUS
    <3>. QED  BY <2>7, <3>1, SeqStep DEF TypeOK
  <2>12. table' \subseteq DOMAIN heap'
    BY <2>1, <2>7, <2>9, LenProperties, SMTT(40) DEF TypeOK
  <2>13. UNCHANGED <<known, forced, clock, dawn, past>>
    BY <1>5 DEF Return
  <2>14. Len(heap') <= MaxPayments
    BY <2>1, <2>2, <2>9 DEF Room
  <2>. QED
    BY <2>1, <2>2, <2>9, <2>10, <2>11, <2>12, <2>13, <2>14, MoveTyped DEF TypeOK
<1>6. ASSUME Tick PROVE TypeOK'
  <2>0. Today \in Days
    BY DEF TypeOK, Today, Days
  <2>1. clock' \in Instants /\ dawn' \in [Accounts -> Nat] /\ past' \subseteq Days
    BY <1>6, <2>0 DEF Tick, TypeOK
  <2>. QED  BY <1>6, <2>1 DEF Tick, TypeOK, accounts
<1>7. ASSUME NEW o \in DOMAIN heap, Advance(o) PROVE TypeOK'
  <2>1. heap[o] \in Payment /\ work[o] \in Work
    BY Entries
  <2>2. work[o].told \in Types
    BY <2>1 DEF Work
  <2>3. CASE NotifyBooked(o)
    <3> DEFINE w == [work[o] EXCEPT
                      !.at = IF work[o].outcome = "Pending" THEN "done" ELSE "asleep"]
    <3>1. w \in Work
      BY <2>1 DEF Work, Points
    <3>2. Goto(o, w) /\ sent' = [sent EXCEPT ![o] = Append(@, work[o].told)]
      BY <2>3 DEF NotifyBooked
    <3> HIDE DEF w
    <3>. QED  BY <2>2, <2>3, <3>1, <3>2, GotoTyped, TellTyped DEF NotifyBooked, TypeOK, accounts
  <2>4. CASE ProcessMove(o)
    <3>1. heap[o].amount \in Amounts
      BY <2>1 DEF Payment
    <3>2. CASE /\ Move(heap[o].from, heap[o].to, heap[o].amount)
               /\ Goto(o, [work[o] EXCEPT !.at = "moved"])
      <4>1. [work[o] EXCEPT !.at = "moved"] \in Work
        BY <2>1 DEF Work, Points
      <4>2. work' \in Seq(Work) /\ Len(work') = Len(work)
        BY <3>2, <4>1, GotoTyped
      <4>. QED  BY <2>4, <3>1, <3>2, <4>2, MoveTyped DEF ProcessMove, TypeOK
    <3>3. CASE LET e == MoveError(heap[o].from, heap[o].to, heap[o].amount) IN
               e # "none" /\ Goto(o, [work[o] EXCEPT !.at = e]) /\ UNCHANGED accounts
      <4> DEFINE e == MoveError(heap[o].from, heap[o].to, heap[o].amount)
      <4>1. e \in {"refused", "short", "none"}
        BY DEF MoveError
      <4>2. e # "none" /\ Goto(o, [work[o] EXCEPT !.at = e]) /\ UNCHANGED accounts
        BY <3>3
      <4> HIDE DEF e
      <4>3. [work[o] EXCEPT !.at = e] \in Work
        BY <2>1, <4>1, <4>2 DEF Work, Points
      <4>4. work' \in Seq(Work) /\ Len(work') = Len(work)
        BY <4>2, <4>3, GotoTyped
      <4>. QED  BY <2>4, <4>2, <4>4 DEF ProcessMove, TypeOK, accounts
    <3>. QED  BY <2>4, <3>2, <3>3 DEF ProcessMove
  <2>5. CASE ForcedRejection(o)
    <3>1. [work[o] EXCEPT !.at = "refused"] \in Work
      BY <2>1 DEF Work, Points
    <3>2. work' \in Seq(Work) /\ Len(work') = Len(work)
      BY <2>5, <3>1, GotoTyped DEF ForcedRejection
    <3>. QED  BY <2>5, <3>2 DEF ForcedRejection, TypeOK, accounts
  <2>6. CASE Settle(o)
    <3> DEFINE st == StateAfter(work[o].at)
               w == [work[o] EXCEPT !.at = "announce", !.told = st]
               p == [heap[o] EXCEPT !.state = st, !.updated = clock,
                       !.processed = IF work[o].at = "moved" THEN clock ELSE @]
    <3>1. st \in Types
      BY <2>6 DEF Settle, StateAfter, Types
    <3>2. Record(o, p) /\ Goto(o, w)
      BY <2>6 DEF Settle
    <3> HIDE DEF st
    <3>3. p \in Payment /\ w \in Work
      BY <2>1, <3>1, ClockTyped DEF Payment, Work, Points
    <3> HIDE DEF p, w
    <3>. QED  BY <2>6, <3>2, <3>3, RecordTyped, GotoTyped DEF Settle, TypeOK, accounts
  <2>7. CASE NotifySettled(o)
    <3>1. [work[o] EXCEPT !.at = "done"] \in Work
      BY <2>1 DEF Work, Points
    <3>2. work' \in Seq(Work) /\ Len(work') = Len(work)
      BY <2>7, <3>1, GotoTyped DEF NotifySettled
    <3>3. sent' \in Seq(Seq(Types)) /\ Len(sent') = Len(sent)
      BY <2>2, <2>7, TellTyped DEF NotifySettled
    <3>. QED  BY <2>7, <3>2, <3>3 DEF NotifySettled, TypeOK, accounts
  <2>8. CASE Register(o)
    <3> DEFINE p == [heap[o] EXCEPT !.created = clock, !.updated = clock]
               w == [work[o] EXCEPT !.at = "booked"]
    <3>1. p \in Payment /\ w \in Work
      BY <2>1, ClockTyped DEF Payment, Work, Points
    <3>2. Record(o, p) /\ Goto(o, w)
      BY <2>8 DEF Register
    <3> HIDE DEF p, w
    <3>. QED  BY <2>8, <3>1, <3>2, RecordTyped, GotoTyped DEF Register, TypeOK, accounts
  <2>9. CASE ProcessIncoming(o)
    <3> DEFINE p == [heap[o] EXCEPT !.state = "IncomingPaymentProcessed",
                                    !.updated = clock, !.processed = clock]
               w == [work[o] EXCEPT !.at = "announce", !.told = "IncomingPaymentProcessed"]
    <3>1. p \in Payment /\ w \in Work
      BY <2>1, ClockTyped DEF Payment, Work, Points, Types
    <3>2. Record(o, p) /\ Goto(o, w)
      BY <2>9 DEF ProcessIncoming
    <3> HIDE DEF p, w
    <3>. QED  BY <2>9, <3>1, <3>2, RecordTyped, GotoTyped DEF ProcessIncoming, TypeOK, accounts
  <2>10. CASE NotifyReversal(o)
    <3>1. PICK t \in Types, r \in {"reversed", "done"} :
            /\ sent' = [sent EXCEPT ![o] = Append(@, t)]
            /\ Goto(o, [work[o] EXCEPT !.reversal = r])
      BY <2>10 DEF NotifyReversal, Types
    <3>2. [work[o] EXCEPT !.reversal = r] \in Work
      BY <2>1, <3>1 DEF Work
    <3>3. work' \in Seq(Work) /\ Len(work') = Len(work)
      BY <3>1, <3>2, GotoTyped
    <3>4. sent' \in Seq(Seq(Types)) /\ Len(sent') = Len(sent)
      BY <3>1, TellTyped
    <3>. QED  BY <2>10, <3>3, <3>4 DEF NotifyReversal, TypeOK, accounts
  <2>. QED
    BY <1>7, <2>3, <2>4, <2>5, <2>6, <2>7, <2>8, <2>9, <2>10 DEF Advance
<1>8. CASE UNCHANGED vars
  BY <1>8 DEF vars, accounts, TypeOK
<1>. QED
  BY <1>1, <1>2, <1>3, <1>4, <1>5, <1>6, <1>7, <1>8 DEF Next, Environment

\* TypeOK holds in every reachable state, for every account, id and amount:
\* in particular no interleaving of moves overdraws an account.
THEOREM BankTypeCorrect == Spec => []TypeOK
<1>1. Init => TypeOK
  BY TypeInit
<1>2. TypeOK /\ [Next]_vars => TypeOK'
  BY TypeNext
<1>. QED  BY <1>1, <1>2, PTL DEF Spec
-----------------------------------------------------------------------------
(***************************************************************************)
(* What a step does to the payments                                        *)
(***************************************************************************)

\* Payment x is as it was, goroutine and record.
Untouched(x) == heap'[x] = heap[x] /\ work'[x].at = work[x].at

\* What is settled when a payment is made and never changes.
SameTerms(x) ==
  /\ heap'[x].from = heap[x].from /\ heap'[x].to = heap[x].to
  /\ heap'[x].amount = heap[x].amount /\ heap'[x].returnOf = heap[x].returnOf

\* Payment o goes from one of the points in from to dest, into state st.
Passes(o, from, dest, st) ==
  work[o].at \in from /\ work'[o].at = dest /\ heap'[o].state = st

\* A step of payment o alone: what Advance and Reverse may do to it.
StepOf(o) ==
  /\ Len(heap') = Len(heap) /\ DOMAIN heap' = DOMAIN heap
  /\ \A x \in DOMAIN heap : SameTerms(x) /\ heap'[x].returnedBy = heap[x].returnedBy
  /\ \A x \in DOMAIN heap \ {o} : Untouched(x)
  /\ \/ /\ \/ \E dest \in {"asleep", "done"} : Passes(o, {"booked"}, dest, heap[o].state)
           \/ Passes(o, {"announce"}, "done", heap[o].state)
           \/ Passes(o, {"credited"}, "booked", heap[o].state)
           \/ Outgoing(o) /\ Passes(o, {"asleep"}, "refused", heap[o].state)
           \/ /\ Outgoing(o) /\ Passes(o, {"asleep"}, "short", heap[o].state)
              /\ cents[heap[o].from] < heap[o].amount
           \/ ~Outgoing(o) /\ Passes(o, {"asleep"}, "announce", "IncomingPaymentProcessed")
           \/ Passes(o, {"moved", "short", "refused"}, "announce", StateAfter(work[o].at))
           \/ Untouched(o)
        /\ UNCHANGED accounts
     \/ /\ Outgoing(o) /\ Passes(o, {"asleep"}, "moved", heap[o].state)
        /\ Move(heap[o].from, heap[o].to, heap[o].amount)
     \/ /\ CanComeBack(o) /\ Passes(o, {work[o].at}, work[o].at, "Reversed")
        /\ Move(heap[o].to, heap[o].from, heap[o].amount)
  /\ UNCHANGED <<clock, dawn, past>>

\* A step that makes one more payment, last in the heap, into state st.
NewWith(at, st) ==
  LET n == Len(heap) + 1 IN
  /\ Len(heap') = n /\ DOMAIN heap' = 1..n
  /\ work'[n].at = at /\ heap'[n].state = st /\ heap'[n].returnedBy = 0
  /\ \A x \in DOMAIN heap : work'[x].at = work[x].at /\ SameTerms(x)
                           /\ heap'[x].state = heap[x].state
  /\ UNCHANGED <<clock, dawn, past>>

\* One payment's record and goroutine replaced, the others stay.
LEMMA ReplaceShape ==
  ASSUME TypeOK, NEW o \in DOMAIN heap, NEW p \in Payment, NEW w \in Work,
         Record(o, p) \/ (UNCHANGED heap /\ p = heap[o]), Goto(o, w)
  PROVE  /\ Len(heap') = Len(heap) /\ DOMAIN heap' = DOMAIN heap
         /\ heap'[o] = p /\ work'[o] = w
         /\ \A x \in DOMAIN heap \ {o} : heap'[x] = heap[x] /\ work'[x] = work[x]
<1>1. o \in DOMAIN heap /\ DOMAIN work = DOMAIN heap
  BY Entries
<1>2. Len(heap') = Len(heap) /\ DOMAIN heap' = DOMAIN heap
  BY RecordTyped
<1>3. heap'[o] = p /\ \A x \in DOMAIN heap \ {o} : heap'[x] = heap[x]
  BY <1>1 DEF Record
<1>4. work'[o] = w /\ \A x \in DOMAIN heap \ {o} : work'[x] = work[x]
  BY <1>1 DEF Goto
<1>. QED  BY <1>2, <1>3, <1>4

\* What a goroutine does for payment o is a step of o alone.
LEMMA AdvanceShape ==
  ASSUME TypeOK, NEW o \in DOMAIN heap, Advance(o)
  PROVE  StepOf(o)
<1>0. heap[o] \in Payment /\ work[o] \in Work
  BY Entries
<1> DEFINE h == heap[o]
           Kept(p) == /\ p.from = h.from /\ p.to = h.to /\ p.amount = h.amount
                      /\ p.returnOf = h.returnOf /\ p.returnedBy = h.returnedBy
<1>1. ASSUME NEW p \in Payment, NEW w \in Work, Kept(p), Goto(o, w),
             Record(o, p) \/ (UNCHANGED heap /\ p = heap[o])
      PROVE  /\ Len(heap') = Len(heap) /\ DOMAIN heap' = DOMAIN heap
             /\ \A x \in DOMAIN heap : SameTerms(x) /\ heap'[x].returnedBy = heap[x].returnedBy
             /\ \A x \in DOMAIN heap \ {o} : Untouched(x)
             /\ heap'[o] = p /\ work'[o] = w
  <2>1. /\ Len(heap') = Len(heap) /\ DOMAIN heap' = DOMAIN heap
        /\ heap'[o] = p /\ work'[o] = w
        /\ \A x \in DOMAIN heap \ {o} : heap'[x] = heap[x] /\ work'[x] = work[x]
    BY <1>1, ReplaceShape
  <2>. QED  BY <2>1, <1>1 DEF SameTerms, Untouched
<1> HIDE DEF Kept
<1>2. Kept(h)
  BY DEF Kept
<1>3. CASE NotifyBooked(o)
  <2> DEFINE d == IF work[o].outcome = "Pending" THEN "done" ELSE "asleep"
             w == [work[o] EXCEPT !.at = d]
  <2>1. d \in {"asleep", "done"}
    OBVIOUS
  <2>2. Goto(o, w) /\ UNCHANGED heap /\ UNCHANGED <<accounts, clock, dawn, past>>
        /\ work[o].at = "booked"
    BY <1>3 DEF NotifyBooked
  <2> HIDE DEF d
  <2>3. w \in Work /\ w.at = d
    BY <1>0, <2>1 DEF Work, Points
  <2> HIDE DEF w
  <2>4. Passes(o, {"booked"}, d, heap[o].state)
    BY <1>0, <1>1, <1>2, <2>2, <2>3 DEF Passes
  <2>. QED  BY <1>0, <1>1, <1>2, <2>1, <2>2, <2>3, <2>4 DEF StepOf
<1>4. CASE ProcessMove(o)
  <2>1. PICK d \in {"moved", "short", "refused"} :
          /\ Goto(o, [work[o] EXCEPT !.at = d])
          /\ \/ d = "moved" /\ Move(h.from, h.to, h.amount)
             \/ d = MoveError(h.from, h.to, h.amount) /\ d # "moved" /\ UNCHANGED accounts
    <3>1. MoveError(h.from, h.to, h.amount) \in {"none", "short", "refused"}
      BY DEF MoveError
    <3>. QED  BY <1>4, <3>1 DEF ProcessMove
  <2>2. UNCHANGED heap /\ UNCHANGED <<clock, dawn, past>> /\ work[o].at = "asleep" /\ Outgoing(o)
    BY <1>4 DEF ProcessMove
  <2> DEFINE w == [work[o] EXCEPT !.at = d]
  <2>3. w \in Work /\ w.at = d
    BY <1>0, <2>1 DEF Work, Points
  <2>4. Goto(o, w)
    BY <2>1
  <2> HIDE DEF w
  <2>5. Passes(o, {"asleep"}, d, heap[o].state)
    BY <1>0, <1>1, <1>2, <2>2, <2>3, <2>4 DEF Passes
  <2>6. d = "short" => cents[h.from] < h.amount
    BY <2>1 DEF MoveError
  <2>7. Len(heap') = Len(heap) /\ DOMAIN heap' = DOMAIN heap
        /\ (\A x \in DOMAIN heap : SameTerms(x) /\ heap'[x].returnedBy = heap[x].returnedBy)
        /\ (\A x \in DOMAIN heap \ {o} : Untouched(x))
    BY <1>0, <1>1, <1>2, <2>2, <2>3, <2>4
  <2>8. CASE d = "moved"
    BY <2>1, <2>2, <2>5, <2>7, <2>8 DEF StepOf
  <2>9. CASE d # "moved"
    BY <2>1, <2>2, <2>5, <2>6, <2>7, <2>9 DEF StepOf
  <2>. QED  BY <2>8, <2>9
<1>5. CASE ForcedRejection(o)
  <2> DEFINE w == [work[o] EXCEPT !.at = "refused"]
  <2>1. w \in Work /\ w.at = "refused"
    BY <1>0 DEF Work, Points
  <2>2. Goto(o, w) /\ UNCHANGED heap /\ UNCHANGED <<accounts, clock, dawn, past>>
        /\ work[o].at = "asleep" /\ Outgoing(o)
    BY <1>5 DEF ForcedRejection
  <2> HIDE DEF w
  <2>. QED  BY <1>0, <1>1, <1>2, <2>1, <2>2 DEF StepOf, Passes
<1>6. CASE Settle(o)
  <2> DEFINE st == StateAfter(work[o].at)
             w == [work[o] EXCEPT !.at = "announce", !.told = st]
             p == [heap[o] EXCEPT !.state = st, !.updated = clock,
                     !.processed = IF work[o].at = "moved" THEN clock ELSE @]
  <2>1. st \in Types /\ work[o].at \in {"moved", "short", "refused"}
    BY <1>6 DEF Settle, StateAfter, Types
  <2>2. Record(o, p) /\ Goto(o, w) /\ UNCHANGED <<accounts, clock, dawn, past>>
    BY <1>6 DEF Settle
  <2> HIDE DEF st
  <2>3. p \in Payment /\ w \in Work /\ Kept(p) /\ p.state = st /\ w.at = "announce"
    BY <1>0, <2>1, ClockTyped DEF Payment, Work, Points, Kept
  <2> HIDE DEF p, w
  <2>4. heap'[o] = p /\ work'[o] = w
    BY <1>1, <2>2, <2>3
  <2>5. Passes(o, {"moved", "short", "refused"}, "announce", StateAfter(work[o].at))
    BY <2>1, <2>3, <2>4 DEF Passes, st
  <2>. QED  BY <1>1, <2>2, <2>3, <2>5 DEF StepOf
<1>7. CASE NotifySettled(o)
  <2> DEFINE w == [work[o] EXCEPT !.at = "done"]
  <2>1. w \in Work /\ w.at = "done"
    BY <1>0 DEF Work, Points
  <2>2. Goto(o, w) /\ UNCHANGED heap /\ UNCHANGED <<accounts, clock, dawn, past>>
        /\ work[o].at = "announce"
    BY <1>7 DEF NotifySettled
  <2> HIDE DEF w
  <2>. QED  BY <1>0, <1>1, <1>2, <2>1, <2>2 DEF StepOf, Passes
<1>8. CASE Register(o)
  <2> DEFINE p == [heap[o] EXCEPT !.created = clock, !.updated = clock]
             w == [work[o] EXCEPT !.at = "booked"]
  <2>1. p \in Payment /\ w \in Work /\ Kept(p) /\ p.state = heap[o].state /\ w.at = "booked"
    BY <1>0, ClockTyped DEF Payment, Work, Points, Kept
  <2>2. Record(o, p) /\ Goto(o, w) /\ UNCHANGED <<accounts, clock, dawn, past>>
        /\ work[o].at = "credited"
    BY <1>8 DEF Register
  <2> HIDE DEF p, w
  <2>. QED  BY <1>1, <2>1, <2>2 DEF StepOf, Passes
<1>9. CASE ProcessIncoming(o)
  <2> DEFINE p == [heap[o] EXCEPT !.state = "IncomingPaymentProcessed",
                                  !.updated = clock, !.processed = clock]
             w == [work[o] EXCEPT !.at = "announce", !.told = "IncomingPaymentProcessed"]
  <2>1. p \in Payment /\ w \in Work /\ Kept(p) /\ p.state = "IncomingPaymentProcessed"
        /\ w.at = "announce"
    BY <1>0, ClockTyped DEF Payment, Work, Points, Types, Kept
  <2>2. Record(o, p) /\ Goto(o, w) /\ UNCHANGED <<accounts, clock, dawn, past>>
        /\ work[o].at = "asleep" /\ ~Outgoing(o)
    BY <1>9 DEF ProcessIncoming
  <2> HIDE DEF p, w
  <2>. QED  BY <1>1, <2>1, <2>2 DEF StepOf, Passes
<1>10. CASE NotifyReversal(o)
  <2>1. PICK r \in {"reversed", "done"} : Goto(o, [work[o] EXCEPT !.reversal = r])
    BY <1>10 DEF NotifyReversal
  <2> DEFINE w == [work[o] EXCEPT !.reversal = r]
  <2>2. w \in Work /\ w.at = work[o].at
    BY <1>0 DEF Work
  <2>3. Goto(o, w) /\ UNCHANGED heap /\ UNCHANGED <<accounts, clock, dawn, past>>
    BY <1>10, <2>1 DEF NotifyReversal
  <2> HIDE DEF w
  <2>4. Untouched(o)
    BY <1>0, <1>1, <1>2, <2>2, <2>3 DEF Untouched
  <2>. QED  BY <1>0, <1>1, <1>2, <2>2, <2>3, <2>4 DEF StepOf
<1>. QED
  BY <1>3, <1>4, <1>5, <1>6, <1>7, <1>8, <1>9, <1>10 DEF Advance

\* So is a reversal.
LEMMA ReverseShape ==
  ASSUME TypeOK, NEW o \in DOMAIN heap, Reverse(o)
  PROVE  StepOf(o)
<1> DEFINE p == [heap[o] EXCEPT !.state = "Reversed", !.reversed = clock, !.updated = clock]
           w == [work[o] EXCEPT !.reversal = "booking"]
<1>1. heap[o] \in Payment /\ work[o] \in Work
  BY Entries
<1>2. /\ p \in Payment /\ w \in Work /\ w.at = work[o].at /\ p.state = "Reversed"
      /\ p.from = heap[o].from /\ p.to = heap[o].to /\ p.amount = heap[o].amount
      /\ p.returnOf = heap[o].returnOf /\ p.returnedBy = heap[o].returnedBy
  BY <1>1, ClockTyped DEF Payment, Work, Types
<1>3. Record(o, p) /\ Goto(o, w) /\ CanComeBack(o) /\ UNCHANGED <<clock, dawn, past>>
      /\ Move(heap[o].to, heap[o].from, heap[o].amount)
  BY DEF Reverse
<1> HIDE DEF p, w
<1>4. /\ Len(heap') = Len(heap) /\ DOMAIN heap' = DOMAIN heap
      /\ heap'[o] = p /\ work'[o] = w
      /\ \A x \in DOMAIN heap \ {o} : heap'[x] = heap[x] /\ work'[x] = work[x]
  BY <1>1, <1>2, <1>3, ReplaceShape
<1>5. \A x \in DOMAIN heap : SameTerms(x) /\ heap'[x].returnedBy = heap[x].returnedBy
  BY <1>2, <1>4 DEF SameTerms
<1>6. Passes(o, {work[o].at}, work[o].at, "Reversed")
  BY <1>2, <1>4 DEF Passes
<1>. QED  BY <1>3, <1>4, <1>5, <1>6 DEF StepOf, Untouched

\* One more entry in heap and work; the others stay.
LEMMA EnterShape ==
  ASSUME TypeOK, Room, NEW p \in Payment, NEW w \in Work, Enter(p, w),
         UNCHANGED <<clock, dawn, past>>, p.returnedBy = 0
  PROVE  /\ NewWith(w.at, p.state) /\ heap'[Len(heap) + 1] = p
         /\ \A x \in DOMAIN heap : heap'[x] = heap[x]
<1>1. Len(heap') = Len(heap) + 1 /\ DOMAIN heap' = 1..(Len(heap) + 1)
      /\ DOMAIN heap = 1..Len(heap)
  BY EnterTyped
<1>2. heap'[Len(heap) + 1] = p /\ \A x \in 1..Len(heap) : heap'[x] = heap[x]
  BY SeqStep DEF Enter, TypeOK
<1>3. work'[Len(heap) + 1] = w /\ \A x \in 1..Len(heap) : work'[x] = work[x]
  BY SeqStep DEF Enter, TypeOK
<1>. QED  BY <1>1, <1>2, <1>3 DEF NewWith, SameTerms

\* POST /internal/payments adds a booked payout and touches no other.
LEMMA CreateShape ==
  ASSUME TypeOK, NEW id \in Ids, NEW s \in Sga, NEW a \in Accounts, NEW n \in Amounts,
         Create(id, s, a, n)
  PROVE  /\ NewWith("booked", "OutgoingPaymentBooked")
         /\ heap'[Len(heap) + 1].returnOf = 0
         /\ \A x \in DOMAIN heap : heap'[x] = heap[x]
         /\ heap'[Len(heap) + 1].from = s /\ heap'[Len(heap) + 1].to = a
         /\ heap'[Len(heap) + 1].amount = n
         /\ UNCHANGED accounts
<1> DEFINE w == Starting("booked", IF forced = <<>> THEN "none" ELSE Head(forced),
                         "OutgoingPaymentBooked")
           p == NewPayment(id, s, a, n, "OutgoingPaymentBooked", 0)
<1>1. (IF forced = <<>> THEN "none" ELSE Head(forced)) \in Outcomes \cup {"none"}
  BY DEF TypeOK
<1>2. w \in Work /\ w.at = "booked"
  BY <1>1, StartingTyped DEF Types, Starting
<1>3. p \in Payment /\ 0 \in 0..MaxPayments
  BY NewPaymentTyped, EngineAssumption DEF Types, Accounts
<1>4. p.state = "OutgoingPaymentBooked" /\ p.returnedBy = 0 /\ p.returnOf = 0
      /\ p.from = s /\ p.to = a /\ p.amount = n
  BY DEF NewPayment
<1>5. Room /\ Enter(p, w) /\ UNCHANGED <<accounts, clock, dawn, past>>
  BY DEF Create
<1> HIDE DEF p, w
<1>6. /\ NewWith(w.at, p.state) /\ heap'[Len(heap) + 1] = p
      /\ \A x \in DOMAIN heap : heap'[x] = heap[x]
  BY <1>2, <1>3, <1>4, <1>5, EnterShape
<1>. QED  BY <1>2, <1>4, <1>5, <1>6

\* Incoming money adds a payment that is not registered yet.
LEMMA CreditShape ==
  ASSUME TypeOK, NEW s \in Sga, NEW n \in Amounts, CreditIncoming(s, n)
  PROVE  /\ NewWith("credited", "IncomingPaymentBooked")
         /\ heap'[Len(heap) + 1].returnOf = 0
         /\ \A x \in DOMAIN heap : heap'[x] = heap[x]
         /\ heap'[Len(heap) + 1].from = External /\ heap'[Len(heap) + 1].to = s
         /\ heap'[Len(heap) + 1].amount = n
         /\ Credit(s, n)
<1> DEFINE w == Starting("credited", "none", "IncomingPaymentBooked")
           p == NewPayment(OwnId, External, s, n, "IncomingPaymentBooked", 0)
<1>1. w \in Work /\ w.at = "credited"
  BY StartingTyped DEF Types, Starting
<1>2. p \in Payment
  BY NewPaymentTyped, EngineAssumption DEF Types, Accounts
<1>3. p.state = "IncomingPaymentBooked" /\ p.returnedBy = 0 /\ p.returnOf = 0
      /\ p.from = External /\ p.to = s /\ p.amount = n
  BY DEF NewPayment
<1>4. Room /\ Enter(p, w) /\ Credit(s, n) /\ UNCHANGED <<clock, dawn, past>>
  BY DEF CreditIncoming
<1> HIDE DEF p, w
<1>5. /\ NewWith(w.at, p.state) /\ heap'[Len(heap) + 1] = p
      /\ \A x \in DOMAIN heap : heap'[x] = heap[x]
  BY <1>1, <1>2, <1>3, <1>4, EnterShape
<1>. QED  BY <1>1, <1>3, <1>4, <1>5

\* A return adds an incoming payment and marks the payout it returns.
LEMMA ReturnShape ==
  ASSUME TypeOK, NEW o \in DOMAIN heap, Return(o)
  PROVE  /\ NewWith("booked", "IncomingPaymentBooked")
         /\ heap'[Len(heap) + 1].returnOf = o
         /\ heap'[o].returnedBy = Len(heap) + 1
         /\ \A x \in DOMAIN heap \ {o} : heap'[x] = heap[x]
         /\ heap'[Len(heap) + 1].from = heap[o].to /\ heap'[Len(heap) + 1].to = heap[o].from
         /\ heap'[Len(heap) + 1].amount = heap[o].amount
         /\ CanComeBack(o) /\ Move(heap[o].to, heap[o].from, heap[o].amount)
         /\ Len(heap) \in Nat /\ DOMAIN heap = 1..Len(heap)
<1> DEFINE p == [heap[o] EXCEPT !.returnedBy = Len(heap) + 1]
           q == NewPayment(OwnId, heap[o].to, heap[o].from, heap[o].amount,
                           "IncomingPaymentBooked", o)
           w == Starting("booked", "none", "IncomingPaymentBooked")
           h == [heap EXCEPT ![o] = p]
           n == Len(heap) + 1
<1>1. heap[o] \in Payment /\ heap[o].amount \in Amounts /\ heap[o].to \in Accounts
      /\ o \in 1..Len(heap) /\ Len(heap) \in Nat /\ o \in 0..MaxPayments
      /\ DOMAIN heap = 1..Len(heap)
  BY Entries, EngineAssumption DEF Payment, Objects
<1>2. Room /\ Move(heap[o].to, heap[o].from, heap[o].amount) /\ CanComeBack(o)
      /\ UNCHANGED <<clock, dawn, past>>
  BY DEF Return
<1>3. heap[o].from \in Accounts
  BY <1>1, <1>2, MoveTyped
<1>4. q \in Payment /\ w \in Work
  BY <1>1, <1>3, NewPaymentTyped, StartingTyped DEF Types
<1>5. n \in 0..MaxPayments
  BY <1>1, <1>2, EngineAssumption DEF Room
<1>6. p \in Payment /\ p.returnedBy = n /\ p.state = heap[o].state
      /\ p.from = heap[o].from /\ p.to = heap[o].to /\ p.amount = heap[o].amount
      /\ p.returnOf = heap[o].returnOf
  BY <1>1, <1>5 DEF Payment
<1>7. q.state = "IncomingPaymentBooked" /\ q.returnedBy = 0 /\ q.returnOf = o
      /\ q.from = heap[o].to /\ q.to = heap[o].from /\ q.amount = heap[o].amount
      /\ w.at = "booked"
  BY DEF NewPayment, Starting
<1>8. heap' = Append(h, q) /\ work' = Append(work, w)
  BY DEF Return
<1> HIDE DEF p, q, w
<1>9. h \in Seq(Payment) /\ Len(h) = Len(heap)
  BY <1>1, <1>6, SeqStep DEF TypeOK
<1>10. h[o] = p /\ \A x \in DOMAIN heap \ {o} : h[x] = heap[x]
  BY <1>1
<1> HIDE DEF h
<1>11. Len(heap') = n /\ DOMAIN heap' = 1..n /\ heap'[n] = q
       /\ \A x \in 1..Len(heap) : heap'[x] = h[x]
  BY <1>4, <1>8, <1>9, SeqStep, SMTT(40)
<1>12. work'[n] = w /\ \A x \in 1..Len(heap) : work'[x] = work[x]
  <2>1. work \in Seq(Work) /\ Len(work) = Len(heap)
    BY DEF TypeOK
  <2>. QED  BY <1>4, <1>8, <2>1, SeqStep
<1>13. heap'[o] = p /\ \A x \in DOMAIN heap \ {o} : heap'[x] = heap[x]
  BY <1>1, <1>10, <1>11
<1>14. \A x \in DOMAIN heap : work'[x].at = work[x].at /\ SameTerms(x)
                            /\ heap'[x].state = heap[x].state
  BY <1>1, <1>6, <1>12, <1>13 DEF SameTerms
<1>. QED
  BY <1>1, <1>2, <1>6, <1>7, <1>11, <1>12, <1>13, <1>14 DEF NewWith
-----------------------------------------------------------------------------
(***************************************************************************)
(* A payout comes back at most once                                        *)
(***************************************************************************)

\* A payment is still booked until its goroutine has settled it.
Progress ==
  \A o \in DOMAIN heap :
    /\ work[o].at \in {"moved", "short", "refused"} => heap[o].state = "OutgoingPaymentBooked"
    /\ work[o].at \in {"booked", "asleep"} =>
         heap[o].state \in {"OutgoingPaymentBooked", "IncomingPaymentBooked"}
    /\ work[o].at = "credited" => heap[o].state = "IncomingPaymentBooked"

\* The links between a payout and its return stay inside the heap.
LinksInHeap ==
  \A o \in DOMAIN heap : heap[o].returnedBy \in 0..Len(heap) /\ heap[o].returnOf \in 0..Len(heap)

BackInv == Progress /\ LinksInHeap /\ ComesBackOnce

\* A step of one payment changes no link, and a returned payout stays
\* processed.
LEMMA BackStepOf ==
  ASSUME TypeOK, BackInv, NEW o \in DOMAIN heap, StepOf(o)
  PROVE  BackInv'
<1>1. heap[o] \in Payment /\ work[o] \in Work
  BY Entries
<1>2. Progress'
  <2>1. Progress /\ DOMAIN heap' = DOMAIN heap
    BY DEF BackInv, StepOf
  <2>2. \A x \in DOMAIN heap \ {o} : heap'[x].state = heap[x].state /\ work'[x].at = work[x].at
    BY DEF StepOf, Untouched
  <2>3. /\ work'[o].at \in {"moved", "short", "refused"} => heap'[o].state = "OutgoingPaymentBooked"
        /\ work'[o].at \in {"booked", "asleep"} =>
             heap'[o].state \in {"OutgoingPaymentBooked", "IncomingPaymentBooked"}
        /\ work'[o].at = "credited" => heap'[o].state = "IncomingPaymentBooked"
    <3>1. /\ work[o].at \in {"moved", "short", "refused"} => heap[o].state = "OutgoingPaymentBooked"
          /\ work[o].at \in {"booked", "asleep"} =>
               heap[o].state \in {"OutgoingPaymentBooked", "IncomingPaymentBooked"}
          /\ work[o].at = "credited" => heap[o].state = "IncomingPaymentBooked"
      BY <2>1 DEF Progress
    <3>. QED  BY <3>1 DEF StepOf, Passes, Untouched, Outgoing, CanComeBack
  <2>. QED  BY <2>1, <2>2, <2>3 DEF Progress
<1>3. LinksInHeap'
  BY DEF BackInv, LinksInHeap, StepOf, SameTerms
<1>4. ComesBackOnce'
  <2>1. ComesBackOnce /\ Progress /\ DOMAIN heap' = DOMAIN heap
    BY DEF BackInv, StepOf
  <2>2. \A x \in DOMAIN heap : heap'[x].returnedBy = heap[x].returnedBy
                             /\ heap'[x].returnOf = heap[x].returnOf
    BY DEF StepOf, SameTerms
  <2>3. \A x \in DOMAIN heap \ {o} : heap'[x].state = heap[x].state
    BY DEF StepOf, Untouched
  <2>4. heap[o].returnedBy # 0 => heap'[o].state = "OutgoingPaymentProcessed"
    <3> SUFFICES ASSUME heap[o].returnedBy # 0
                 PROVE  heap'[o].state = "OutgoingPaymentProcessed"
      OBVIOUS
    <3>1. heap[o].state = "OutgoingPaymentProcessed"
      BY <2>1 DEF ComesBackOnce
    <3>2. work[o].at \notin {"moved", "short", "refused", "booked", "asleep", "credited"}
      BY <2>1, <3>1 DEF Progress
    <3>. QED  BY <3>1, <3>2 DEF StepOf, Passes, Untouched, CanComeBack
  <2>. QED  BY <2>1, <2>2, <2>3, <2>4 DEF ComesBackOnce
<1>. QED  BY <1>2, <1>3, <1>4 DEF BackInv

\* A payment that is not a return joins the heap.
LEMMA BackEnter ==
  ASSUME TypeOK, BackInv, NEW at, NEW st, NewWith(at, st),
         \/ at = "booked" /\ st = "OutgoingPaymentBooked"
         \/ at = "credited" /\ st = "IncomingPaymentBooked",
         heap'[Len(heap) + 1].returnOf = 0,
         \A x \in DOMAIN heap : heap'[x] = heap[x]
  PROVE  BackInv'
<1> DEFINE n == Len(heap) + 1
<1>1. DOMAIN heap = 1..Len(heap) /\ Len(heap) \in Nat /\ DOMAIN heap' = 1..n /\ Len(heap') = n
  BY LenProperties DEF TypeOK, NewWith
<1>2. heap'[n].state = st /\ work'[n].at = at /\ heap'[n].returnedBy = 0
      /\ \A x \in DOMAIN heap : work'[x].at = work[x].at
  BY DEF NewWith
<1>3. Progress'
  BY <1>1, <1>2 DEF BackInv, Progress
<1>4. LinksInHeap'
  BY <1>1, <1>2 DEF BackInv, LinksInHeap
<1>5. ComesBackOnce'
  <2>1. \A o, r \in DOMAIN heap : heap[r].returnOf = o <=> heap[o].returnedBy = r
    BY DEF BackInv, ComesBackOnce
  <2>2. \A x \in DOMAIN heap : heap[x].returnedBy # n /\ heap[x].returnOf # n
    BY <1>1 DEF BackInv, LinksInHeap
  <2>3. \A o, r \in DOMAIN heap' : heap'[r].returnOf = o <=> heap'[o].returnedBy = r
    BY <1>1, <1>2, <2>1, <2>2
  <2>. QED  BY <1>1, <1>2, <2>3 DEF BackInv, ComesBackOnce
<1>. QED  BY <1>3, <1>4, <1>5 DEF BackInv

\* A return links two payments that had no link.
LEMMA BackReturn ==
  ASSUME TypeOK, BackInv, NEW o \in DOMAIN heap, Return(o)
  PROVE  BackInv'
<1> DEFINE n == Len(heap) + 1
<1>1. /\ NewWith("booked", "IncomingPaymentBooked")
      /\ heap'[n].returnOf = o /\ heap'[o].returnedBy = n
      /\ \A x \in DOMAIN heap \ {o} : heap'[x] = heap[x]
      /\ CanComeBack(o) /\ Len(heap) \in Nat /\ DOMAIN heap = 1..Len(heap)
  BY ReturnShape
<1>2. DOMAIN heap' = 1..n /\ Len(heap') = n /\ heap'[n].state = "IncomingPaymentBooked"
      /\ heap'[n].returnedBy = 0 /\ work'[n].at = "booked"
      /\ \A x \in DOMAIN heap : /\ work'[x].at = work[x].at /\ heap'[x].state = heap[x].state
                               /\ heap'[x].returnOf = heap[x].returnOf
  BY <1>1 DEF NewWith, SameTerms
<1>3. Progress'
  BY <1>1, <1>2 DEF BackInv, Progress
<1>4. LinksInHeap'
  BY <1>1, <1>2 DEF BackInv, LinksInHeap
<1>5. ComesBackOnce'
  <2>1. \A x, r \in DOMAIN heap : heap[r].returnOf = x <=> heap[x].returnedBy = r
    BY DEF BackInv, ComesBackOnce
  <2>2. \A x \in DOMAIN heap : heap[x].returnedBy # n /\ heap[x].returnOf # n
    BY <1>1 DEF BackInv, LinksInHeap
  <2>3. heap[o].returnedBy = 0 /\ heap[o].state = "OutgoingPaymentProcessed"
    BY <1>1 DEF CanComeBack
  <2>4. \A r \in DOMAIN heap : heap[r].returnOf # o
    BY <1>1, <2>1, <2>3
  <2>5. \A x, r \in DOMAIN heap' : heap'[r].returnOf = x <=> heap'[x].returnedBy = r
    BY <1>1, <1>2, <2>1, <2>2, <2>3, <2>4
  <2>6. \A x \in DOMAIN heap' :
          heap'[x].returnedBy # 0 => heap'[x].state = "OutgoingPaymentProcessed"
    BY <1>1, <1>2, <2>3 DEF BackInv, ComesBackOnce
  <2>. QED  BY <2>5, <2>6 DEF ComesBackOnce
<1>. QED  BY <1>3, <1>4, <1>5 DEF BackInv

\* With no payments there are no links.
LEMMA BackInit == Init => BackInv
BY DEF Init, BackInv, Progress, LinksInHeap, ComesBackOnce

\* The strengthened invariant is inductive.
LEMMA BackNext == TypeOK /\ BackInv /\ [Next]_vars => BackInv'
<1> SUFFICES ASSUME TypeOK, BackInv, [Next]_vars PROVE BackInv'
  OBVIOUS
<1>1. ASSUME NEW id \in Ids, NEW s \in Sga, NEW a \in Accounts, NEW n \in Amounts,
             Create(id, s, a, n)
      PROVE  BackInv'
  BY <1>1, CreateShape, BackEnter
<1>2. ASSUME NEW s \in Sga, NEW n \in Amounts, CreditIncoming(s, n) PROVE BackInv'
  BY <1>2, CreditShape, BackEnter
<1>3. ASSUME UNCHANGED <<heap, work>> PROVE BackInv'
  BY <1>3 DEF BackInv, Progress, LinksInHeap, ComesBackOnce
<1>4. ASSUME NEW o \in DOMAIN heap, Reverse(o) \/ Advance(o) PROVE BackInv'
  BY <1>4, ReverseShape, AdvanceShape, BackStepOf
<1>5. ASSUME NEW o \in DOMAIN heap, Return(o) PROVE BackInv'
  BY <1>5, BackReturn
<1>6. ASSUME NEW k, NEW outcomes \in [1..k -> Outcomes], ForceNext(outcomes) PROVE BackInv'
  BY <1>3, <1>6 DEF ForceNext
<1>7. CASE Tick
  BY <1>3, <1>7 DEF Tick
<1>8. CASE UNCHANGED vars
  BY <1>3, <1>8 DEF vars
<1>. QED
  BY <1>1, <1>2, <1>4, <1>5, <1>6, <1>7, <1>8 DEF Next, Environment

\* A payout comes back at most once, however Reverse and Return race, and a
\* return and its payout name each other.
THEOREM PayoutComesBackOnce == Spec => []ComesBackOnce
<1>1. Init => BackInv
  BY BackInit
<1>2. TypeOK /\ BackInv /\ [Next]_vars => BackInv'
  BY BackNext
<1>3. BackInv => ComesBackOnce
  BY DEF BackInv
<1>. QED  BY <1>1, <1>2, <1>3, BankTypeCorrect, PTL DEF Spec
-----------------------------------------------------------------------------
(***************************************************************************)
(* The day's opening balances                                              *)
(***************************************************************************)

\* What DayAmounts would answer on day d, with the clock there.
OpenOn(a, d) == IF openDay[a] = d THEN openCents[a] ELSE cents[a]

\* One pair of a day and a balance is enough for every day; an account has
\* only moved on days the clock has been on; and on one it came to for the
\* first time the account began with what it held then.
DayInv ==
  /\ \A a \in Accounts, d \in Days : eve[a][d] = OpenOn(a, d)
  /\ \A a \in Accounts : openDay[a] \in {0, Today} \cup past
  /\ Today \notin past => \A a \in Accounts : OpenOn(a, Today) = dawn[a]

\* The clock's day is one of the days, and none of them is 0.
LEMMA DayTyped ==
  ASSUME TypeOK
  PROVE  Today \in Days /\ 0 \notin Days
BY EngineAssumption DEF TypeOK, Today, Days

\* DayInv is what makes DayAmounts right.
LEMMA DayInvSays == TypeOK /\ DayInv => DayAmountsTrue
BY DayTyped DEF DayInv, DayAmountsTrue, BeginOfDay, OpenOn

\* Balances that change within a day do so after opening has looked at them.
LEMMA DayMovement ==
  ASSUME TypeOK, DayInv, NEW A \in SUBSET Accounts, Opening(A), Dated(A),
         UNCHANGED <<clock, dawn, past>>,
         \A a \in Accounts \ A : cents'[a] = cents[a]
  PROVE  DayInv'
<1>1. Today' = Today /\ Today \in Days
  BY DayTyped DEF Today
<1>2. \A a \in A : openDay'[a] = Today
  BY DEF Opening
<1>3. \A a \in Accounts \ A : openDay'[a] = openDay[a] /\ openCents'[a] = openCents[a]
  BY DEF Opening
<1>4. \A a \in A : openCents'[a] = OpenOn(a, Today)
  BY DEF Opening, OpenOn
<1>5. \A a \in Accounts : openDay'[a] \in {0, Today'} \cup past'
  BY <1>1, <1>2, <1>3 DEF DayInv
<1>6. \A a \in Accounts : OpenOn(a, Today)' = OpenOn(a, Today)
  <2>1. \A a \in A : OpenOn(a, Today)' = OpenOn(a, Today)
    BY <1>1, <1>2, <1>4 DEF OpenOn
  <2>2. \A a \in Accounts \ A : OpenOn(a, Today)' = OpenOn(a, Today)
    BY <1>1, <1>3 DEF OpenOn
  <2>. QED  BY <2>1, <2>2
<1>7. \A a \in Accounts, d \in Days : eve'[a][d] = OpenOn(a, d)'
  <2> SUFFICES ASSUME NEW a \in Accounts, NEW d \in Days PROVE eve'[a][d] = OpenOn(a, d)'
    OBVIOUS
  <2>1. eve'[a][d] = IF a \in A /\ d # Today THEN cents'[a] ELSE eve[a][d]
    BY DEF Dated
  <2>2. eve[a][d] = OpenOn(a, d)
    BY DEF DayInv
  <2>3. CASE a \in A /\ d # Today
    BY <1>2, <2>1, <2>3 DEF OpenOn
  <2>4. CASE d = Today
    BY <1>6, <2>1, <2>2, <2>4, <1>1 DEF OpenOn
  <2>5. CASE a \notin A
    BY <1>3, <2>1, <2>2, <2>5 DEF OpenOn
  <2>. QED  BY <2>3, <2>4, <2>5
<1>. QED  BY <1>1, <1>5, <1>6, <1>7 DEF DayInv

\* A move opens both its accounts and changes no other.
LEMMA DayMove ==
  ASSUME TypeOK, DayInv, NEW from, NEW dest, NEW amount \in Amounts, Move(from, dest, amount),
         UNCHANGED <<clock, dawn, past>>
  PROVE  DayInv'
<1>1. from \in Accounts /\ dest \in Accounts /\ Opening({from, dest}) /\ Dated({from, dest})
      /\ cents' = [cents EXCEPT ![from] = @ - amount, ![dest] = @ + amount]
  BY MoveTyped
<1>2. \A a \in Accounts \ {from, dest} : cents'[a] = cents[a]
  BY <1>1 DEF TypeOK
<1>. QED  BY <1>1, <1>2, DayMovement

\* Nothing moves and no time passes.
LEMMA DayStill ==
  ASSUME DayInv, UNCHANGED <<accounts, clock, dawn, past>>
  PROVE  DayInv'
BY DEF DayInv, OpenOn, Today, accounts

\* On a day that is new to the clock no account has moved.
LEMMA DayTick ==
  ASSUME TypeOK, DayInv, Tick
  PROVE  DayInv'
<1>1. PICK i \in Instants \ {clock} :
        /\ clock' = i
        /\ dawn' = IF CalendarDay[i] \in past \cup {Today} THEN dawn ELSE cents
        /\ past' = IF CalendarDay[i] # Today THEN past \cup {Today} ELSE past
        /\ UNCHANGED accounts
  BY DEF Tick
<1>2. Today' = CalendarDay[i] /\ Today' \in Days /\ Today' # 0
  BY <1>1, EngineAssumption DEF Today, Days
<1>3. \A a \in Accounts : \A d \in Days : OpenOn(a, d)' = OpenOn(a, d) /\ eve'[a][d] = eve[a][d]
  BY <1>1 DEF accounts, OpenOn
<1>4. \A a \in Accounts : openDay'[a] \in {0, Today'} \cup past'
  BY <1>1, <1>2 DEF DayInv, accounts
<1>5. ASSUME Today' \notin past', NEW a \in Accounts PROVE OpenOn(a, Today)' = dawn'[a]
  <2>1. CASE Today' = Today
    BY <1>1, <1>2, <1>5, <2>1 DEF DayInv, OpenOn, accounts
  <2>2. CASE Today' # Today
    <3>1. Today' \notin past \cup {Today} /\ dawn' = cents
      BY <1>1, <1>2, <1>5, <2>2
    <3>2. openDay[a] # Today'
      BY <1>2, <3>1 DEF DayInv
    <3>. QED  BY <1>1, <3>1, <3>2 DEF OpenOn, accounts
  <2>. QED  BY <2>1, <2>2
<1>6. \A a \in Accounts, d \in Days : eve'[a][d] = OpenOn(a, d)'
  BY <1>3 DEF DayInv
<1>. QED  BY <1>4, <1>5, <1>6 DEF DayInv

\* A goroutine's step and a reversal move money between two accounts or not
\* at all.
LEMMA DayStepOf ==
  ASSUME TypeOK, DayInv, NEW o \in DOMAIN heap, StepOf(o)
  PROVE  DayInv'
<1>1. heap[o].amount \in Amounts
  BY Entries DEF Payment
<1>2. \/ UNCHANGED <<accounts, clock, dawn, past>>
      \/ Move(heap[o].from, heap[o].to, heap[o].amount) /\ UNCHANGED <<clock, dawn, past>>
      \/ Move(heap[o].to, heap[o].from, heap[o].amount) /\ UNCHANGED <<clock, dawn, past>>
  BY DEF StepOf
<1>. QED  BY <1>1, <1>2, DayStill, DayMove

\* What DayAmounts reports as the day's opening balance is what the account
\* held before its last movements of that day, and when the clock came to a
\* new day: for any calendar, and a clock set forwards and back at will.
THEOREM DayAmountsCorrect == Spec => []DayAmountsTrue
<1>1. Init => DayInv
  BY DayTyped, TypeInit DEF Init, DayInv, OpenOn
<1>2. ASSUME TypeOK, DayInv, [Next]_vars PROVE DayInv'
  <2>1. ASSUME NEW id \in Ids, NEW s \in Sga, NEW a \in Accounts, NEW n \in Amounts,
               Create(id, s, a, n)
        PROVE  DayInv'
    BY <1>2, <2>1, DayStill DEF Create
  <2>2. ASSUME NEW s \in Sga, NEW n \in Amounts, CreditIncoming(s, n) PROVE DayInv'
    <3>1. Opening({s}) /\ Dated({s}) /\ cents' = [cents EXCEPT ![s] = @ + n]
          /\ UNCHANGED <<clock, dawn, past>>
      BY <2>2 DEF CreditIncoming, Credit
    <3>2. s \in Accounts /\ \A a \in Accounts \ {s} : cents'[a] = cents[a]
      BY <1>2, <3>1 DEF TypeOK, Accounts
    <3>. QED  BY <1>2, <3>1, <3>2, DayMovement
  <2>3. ASSUME NEW o \in DOMAIN heap, Reverse(o) \/ Advance(o) PROVE DayInv'
    BY <1>2, <2>3, ReverseShape, AdvanceShape, DayStepOf
  <2>4. ASSUME NEW o \in DOMAIN heap, Return(o) PROVE DayInv'
    <3>1. Move(heap[o].to, heap[o].from, heap[o].amount) /\ UNCHANGED <<clock, dawn, past>>
      BY <2>4 DEF Return
    <3>2. heap[o].amount \in Amounts
      BY <1>2, Entries DEF Payment
    <3>. QED  BY <1>2, <3>1, <3>2, DayMove
  <2>5. ASSUME NEW k, NEW outcomes \in [1..k -> Outcomes], ForceNext(outcomes) PROVE DayInv'
    BY <1>2, <2>5, DayStill DEF ForceNext
  <2>6. CASE Tick
    BY <1>2, <2>6, DayTick
  <2>7. CASE UNCHANGED vars
    BY <1>2, <2>7, DayStill DEF vars
  <2>. QED
    BY <1>2, <2>1, <2>2, <2>3, <2>4, <2>5, <2>6, <2>7 DEF Next, Environment
<1>3. TypeOK /\ DayInv => DayAmountsTrue
  BY DayInvSays
<1>. QED  BY <1>1, <1>2, <1>3, BankTypeCorrect, PTL DEF Spec
-----------------------------------------------------------------------------
(***************************************************************************)
(* The engine implements the atomic lifecycle                              *)
(***************************************************************************)

\* What the lifecycle sees of the engine.
TermsOf(o) == [from |-> heap[o].from, to |-> heap[o].to, amount |-> heap[o].amount]
AllTerms == [o \in DOMAIN heap |-> TermsOf(o)]
AllFates == [o \in DOMAIN heap |-> FateOf(o)]

\* A step of the lifecycle, or none.
Implements == [Lifecycle!Next]_(Lifecycle!vars)

\* A function on one more number is a sequence with one more element.
LEMMA OneMore ==
  ASSUME NEW S, NEW n \in Nat, NEW f \in [1..n -> S], NEW g \in [1..(n + 1) -> S],
         NEW e \in S, \A i \in 1..n : g[i] = f[i], g[n + 1] = e
  PROVE  g = Append(f, e)
<1>1. f \in Seq(S) /\ Len(f) = n
  BY SeqDef, LenProperties
<1>2. g \in Seq(S) /\ Len(g) = n + 1
  BY SeqDef, LenProperties
<1>3. /\ Append(f, e) \in Seq(S) /\ Len(Append(f, e)) = n + 1
      /\ \A i \in 1..n : Append(f, e)[i] = f[i]
      /\ Append(f, e)[n + 1] = e
  BY <1>1, SeqStep
<1>4. ASSUME NEW i \in 1..(n + 1) PROVE g[i] = Append(f, e)[i]
  <2>1. i \in 1..n \/ i = n + 1
    OBVIOUS
  <2>. QED  BY <1>3, <2>1
<1>. QED  BY <1>2, <1>3, <1>4, SeqEqual

\* The lifecycle's variables, in the engine's terms.
LEMMA LifecycleVars ==
  /\ Lifecycle!vars = <<AllTerms, AllFates, cents>>
  /\ Lifecycle!vars' = <<AllTerms', AllFates', cents'>>
BY DEF Lifecycle!vars, AllTerms, AllFates, TermsOf

\* The steps of the lifecycle, in the engine's terms.
LEMMA LifecycleSteps ==
  ASSUME NEW o \in DOMAIN heap
  PROVE  /\ \/ /\ AllFates[o] = "instructed" /\ AllTerms[o].from # AllTerms[o].to
               /\ cents[AllTerms[o].from] >= AllTerms[o].amount
               /\ cents' = [cents EXCEPT ![AllTerms[o].from] = @ - AllTerms[o].amount,
                                         ![AllTerms[o].to] = @ + AllTerms[o].amount]
               /\ AllFates' = [AllFates EXCEPT ![o] = "processed"] /\ AllTerms' = AllTerms
            \/ /\ AllFates[o] = "instructed"
               /\ cents[AllTerms[o].from] < AllTerms[o].amount
               /\ AllFates' = [AllFates EXCEPT ![o] = "short"]
               /\ AllTerms' = AllTerms /\ cents' = cents
            \/ /\ AllFates[o] = "instructed"
               /\ AllFates' = [AllFates EXCEPT ![o] = "rejected"]
               /\ AllTerms' = AllTerms /\ cents' = cents
            \/ /\ AllFates[o] = "incoming"
               /\ AllFates' = [AllFates EXCEPT ![o] = "received"]
               /\ AllTerms' = AllTerms /\ cents' = cents
            \/ /\ AllFates[o] = "processed" /\ AllTerms[o].to # AllTerms[o].from
               /\ cents[AllTerms[o].to] >= AllTerms[o].amount
               /\ cents' = [cents EXCEPT ![AllTerms[o].to] = @ - AllTerms[o].amount,
                                         ![AllTerms[o].from] = @ + AllTerms[o].amount]
               /\ AllFates' = [AllFates EXCEPT ![o] = "reversed"] /\ AllTerms' = AllTerms
            \/ AllTerms' = AllTerms /\ AllFates' = AllFates /\ cents' = cents
         => Implements
<1> DEFINE T == AllTerms
           F == AllFates
<1>1. Lifecycle!Process(o) \/ Lifecycle!RunShort(o) \/ Lifecycle!Reject(o)
      \/ Lifecycle!Receive(o) \/ Lifecycle!Reverse(o) => Implements
  BY DEF Implements, Lifecycle!Next
<1>2. Lifecycle!Process(o) <=>
        /\ F[o] = "instructed" /\ T[o].from # T[o].to /\ cents[T[o].from] >= T[o].amount
        /\ cents' = [cents EXCEPT ![T[o].from] = @ - T[o].amount, ![T[o].to] = @ + T[o].amount]
        /\ F' = [F EXCEPT ![o] = "processed"] /\ T' = T
  BY DEF Lifecycle!Process, Lifecycle!Transfer, Lifecycle!Become, AllTerms, AllFates, TermsOf
<1>3. Lifecycle!RunShort(o) <=>
        /\ F[o] = "instructed" /\ cents[T[o].from] < T[o].amount
        /\ F' = [F EXCEPT ![o] = "short"] /\ T' = T /\ cents' = cents
  BY DEF Lifecycle!RunShort, Lifecycle!Become, AllTerms, AllFates, TermsOf
<1>4. Lifecycle!Reject(o) <=>
        /\ F[o] = "instructed"
        /\ F' = [F EXCEPT ![o] = "rejected"] /\ T' = T /\ cents' = cents
  BY DEF Lifecycle!Reject, Lifecycle!Become, AllTerms, AllFates, TermsOf
<1>5. Lifecycle!Receive(o) <=>
        /\ F[o] = "incoming"
        /\ F' = [F EXCEPT ![o] = "received"] /\ T' = T /\ cents' = cents
  BY DEF Lifecycle!Receive, Lifecycle!Become, AllTerms, AllFates, TermsOf
<1>6. Lifecycle!Reverse(o) <=>
        /\ F[o] = "processed" /\ T[o].to # T[o].from /\ cents[T[o].to] >= T[o].amount
        /\ cents' = [cents EXCEPT ![T[o].to] = @ - T[o].amount, ![T[o].from] = @ + T[o].amount]
        /\ F' = [F EXCEPT ![o] = "reversed"] /\ T' = T
  BY DEF Lifecycle!Reverse, Lifecycle!Transfer, Lifecycle!Become, AllTerms, AllFates, TermsOf
<1>7. T' = T /\ F' = F /\ cents' = cents => Implements
  BY LifecycleVars DEF Implements
<1> HIDE DEF T, F
<1>. QED  BY <1>1, <1>2, <1>3, <1>4, <1>5, <1>6, <1>7 DEF T, F

\* A step that leaves the other payments alone changes one fate at most.
LEMMA OneFate ==
  ASSUME NEW o \in DOMAIN heap, StepOf(o)
  PROVE  /\ AllTerms' = AllTerms
         /\ AllFates' = [AllFates EXCEPT ![o] = FateOf(o)']
<1>1. DOMAIN heap' = DOMAIN heap
  BY DEF StepOf
<1>2. \A x \in DOMAIN heap : TermsOf(x)' = TermsOf(x)
  BY DEF StepOf, SameTerms, TermsOf
<1>3. \A x \in DOMAIN heap \ {o} : FateOf(x)' = FateOf(x)
  BY DEF StepOf, Untouched, FateOf
<1>4. AllTerms' = AllTerms
  BY <1>1, <1>2 DEF AllTerms
<1>5. AllFates' = [x \in DOMAIN heap |-> FateOf(x)']
  BY <1>1 DEF AllFates
<1>. QED  BY <1>3, <1>4, <1>5 DEF AllFates

\* What a goroutine does, and a reversal, is a step of the lifecycle or none:
\* the fate changes when the money does.
LEMMA FateStepOf ==
  ASSUME TypeOK, BackInv, NEW o \in DOMAIN heap, StepOf(o)
  PROVE  Implements
<1> DEFINE was == FateOf(o)
           is == FateOf(o)'
           from == heap[o].from
           dest == heap[o].to
           amount == heap[o].amount
<1>1. /\ AllTerms' = AllTerms /\ AllFates' = [AllFates EXCEPT ![o] = is]
      /\ AllFates[o] = was /\ AllTerms[o].from = from /\ AllTerms[o].to = dest
      /\ AllTerms[o].amount = amount
      /\ (is = was => AllFates' = AllFates)
  BY OneFate DEF AllFates, AllTerms, TermsOf
<1>2. heap[o] \in Payment /\ work[o] \in Work /\ amount \in Amounts
  BY Entries DEF Payment
<1>3. /\ work[o].at \in {"moved", "short", "refused"} => heap[o].state = "OutgoingPaymentBooked"
      /\ work[o].at \in {"booked", "asleep"} =>
           heap[o].state \in {"OutgoingPaymentBooked", "IncomingPaymentBooked"}
      /\ work[o].at = "credited" => heap[o].state = "IncomingPaymentBooked"
      /\ heap[o].returnedBy # 0 => heap[o].state = "OutgoingPaymentProcessed"
  BY DEF BackInv, Progress, ComesBackOnce
<1>4. heap'[o].returnedBy = heap[o].returnedBy
  BY DEF StepOf
<1>5. ASSUME UNCHANGED accounts PROVE cents' = cents
  BY <1>5 DEF accounts
<1>6. ASSUME NEW f, NEW d, Move(f, d, amount)
      PROVE  /\ f # d /\ cents[f] >= amount
             /\ cents' = [cents EXCEPT ![f] = @ - amount, ![d] = @ + amount]
  <2> HIDE DEF amount
  <2>. QED  BY <1>2, <1>6, MoveTyped
<1>8. \/ is = was /\ UNCHANGED accounts
      \/ was = "instructed" /\ is = "rejected" /\ UNCHANGED accounts
      \/ was = "instructed" /\ is = "short" /\ cents[from] < amount /\ UNCHANGED accounts
      \/ was = "incoming" /\ is = "received" /\ UNCHANGED accounts
      \/ was = "instructed" /\ is = "processed" /\ Move(from, dest, amount)
      \/ was = "processed" /\ is = "reversed" /\ Move(dest, from, amount)
  BY <1>3, <1>4 DEF StepOf, Passes, Untouched, FateOf, StateAfter, Outgoing, CanComeBack
<1> HIDE DEF was, is, from, dest, amount
<1>. QED  BY <1>1, <1>5, <1>6, <1>8, LifecycleSteps

\* The lifecycle's records, and the fates it knows.
Terms == [from: Accounts \cup {External}, to: Accounts, amount: Amounts]

BarsTyped ==
  /\ AllTerms \in [1..Len(heap) -> Terms]
  /\ AllFates \in [1..Len(heap) -> Lifecycle!Fates]
  /\ Len(heap) \in Nat /\ DOMAIN heap = 1..Len(heap)

\* Every payment has terms and a fate.
LEMMA Bars == TypeOK => BarsTyped
<1> SUFFICES ASSUME TypeOK PROVE BarsTyped
  OBVIOUS
<1>1. Len(heap) \in Nat /\ DOMAIN heap = 1..Len(heap)
  BY LenProperties DEF TypeOK
<1>2. \A o \in DOMAIN heap : TermsOf(o) \in Terms
  BY Entries DEF Payment, TermsOf, Terms
<1>3. ASSUME NEW o \in DOMAIN heap PROVE FateOf(o) \in Lifecycle!Fates
  <2>1. heap[o].state \in Types
    BY Entries DEF Payment
  <2>. QED  BY <2>1 DEF FateOf, Types, Lifecycle!Fates
<1>. QED  BY <1>1, <1>2, <1>3 DEF AllTerms, AllFates, BarsTyped

\* A payment that joins the heap joins the lifecycle, and touches no terms.
LEMMA NewTerms ==
  ASSUME TypeOK, TypeOK', NEW at, NEW st, NewWith(at, st), NEW k, k = Len(heap) + 1
  PROVE  AllTerms' = Append(AllTerms, TermsOf(k)')
<1> DEFINE n == Len(heap)
           g == AllTerms'
           e == TermsOf(k)'
<1>1. n \in Nat /\ AllTerms \in [1..n -> Terms] /\ DOMAIN heap = 1..n
  BY Bars DEF BarsTyped
<1>2. Len(heap') = n + 1 /\ DOMAIN heap' = 1..(n + 1)
  BY DEF NewWith
<1>3. g \in [1..(n + 1) -> Terms]
  <2>1. BarsTyped'
    BY Bars, PTL
  <2>. QED  BY <1>2, <2>1 DEF BarsTyped, Terms, Accounts
<1>4. \A x \in 1..n : TermsOf(x)' = TermsOf(x)
  BY <1>1 DEF NewWith, SameTerms, TermsOf
<1>5. \A x \in 1..(n + 1) : g[x] = TermsOf(x)'
  BY <1>2 DEF AllTerms
<1>6. \A x \in 1..n : g[x] = AllTerms[x]
  BY <1>1, <1>4, <1>5 DEF AllTerms
<1>7. n + 1 \in 1..(n + 1)
  BY <1>1
<1>8. g[n + 1] = e /\ e \in Terms
  BY <1>3, <1>5, <1>7
<1> HIDE DEF g, e, n
<1>9. g = Append(AllTerms, e)
  BY <1>1, <1>3, <1>6, <1>8, OneMore
<1>. QED  BY <1>9 DEF g, e, n

\* Its fate is the last, and the others keep theirs.
LEMMA NewFates ==
  ASSUME TypeOK, TypeOK', NEW at, NEW st, NewWith(at, st), NEW k,
         k = Len(heap) + 1, NEW F \in [1..Len(heap) -> Lifecycle!Fates],
         \A x \in DOMAIN heap : FateOf(x)' = F[x]
  PROVE  AllFates' = Append(F, FateOf(k)')
<1> DEFINE n == Len(heap)
           g == AllFates'
           e == FateOf(k)'
<1>1. n \in Nat /\ DOMAIN heap = 1..n
  BY Bars DEF BarsTyped
<1>2. Len(heap') = n + 1 /\ DOMAIN heap' = 1..(n + 1)
  BY DEF NewWith
<1>3. g \in [1..(n + 1) -> Lifecycle!Fates]
  <2>1. BarsTyped'
    BY Bars, PTL
  <2>. QED  BY <1>2, <2>1 DEF BarsTyped, Lifecycle!Fates
<1>4. \A x \in 1..(n + 1) : g[x] = FateOf(x)'
  BY <1>2 DEF AllFates
<1>5. \A x \in 1..n : g[x] = F[x]
  BY <1>1, <1>4
<1>6. n + 1 \in 1..(n + 1)
  BY <1>1
<1>7. g[n + 1] = e /\ e \in Lifecycle!Fates
  BY <1>3, <1>4, <1>6
<1>8. F \in [1..n -> Lifecycle!Fates]
  OBVIOUS
<1> HIDE DEF g, e, n
<1>9. g = Append(F, e)
  BY <1>1, <1>3, <1>5, <1>7, <1>8, OneMore
<1>. QED  BY <1>9 DEF g, e, n

\* A new payout is an instruction.
LEMMA FateCreate ==
  ASSUME TypeOK, TypeOK', NEW id \in Ids, NEW s \in Sga, NEW a \in Accounts, NEW n \in Amounts,
         Create(id, s, a, n)
  PROVE  Implements
<1>1. PICK k : k = Len(heap) + 1
  OBVIOUS
<1>2. /\ NewWith("booked", "OutgoingPaymentBooked") /\ UNCHANGED accounts
      /\ \A x \in DOMAIN heap : heap'[x] = heap[x]
      /\ heap'[k].from = s /\ heap'[k].to = a /\ heap'[k].amount = n
  BY <1>1, CreateShape
<1>3. /\ heap'[k].state = "OutgoingPaymentBooked" /\ work'[k].at = "booked"
      /\ \A x \in DOMAIN heap : work'[x].at = work[x].at
  BY <1>1, <1>2 DEF NewWith
<1>4. TermsOf(k)' = [from |-> s, to |-> a, amount |-> n] /\ FateOf(k)' = "instructed"
  BY <1>2, <1>3 DEF TermsOf, FateOf
<1>5. \A x \in DOMAIN heap : FateOf(x)' = AllFates[x]
  <2>1. \A x \in DOMAIN heap : FateOf(x)' = FateOf(x)
    BY <1>2, <1>3 DEF FateOf
  <2>. QED  BY <2>1 DEF AllFates
<1>6. AllTerms' = Append(AllTerms, [from |-> s, to |-> a, amount |-> n])
  BY <1>1, <1>2, <1>4, NewTerms
<1>7. AllFates' = Append(AllFates, "instructed")
  <2>1. AllFates \in [1..Len(heap) -> Lifecycle!Fates]
    BY Bars DEF BarsTyped
  <2>. QED  BY <1>1, <1>2, <1>4, <1>5, <2>1, NewFates
<1>8. cents' = cents /\ s \in Accounts
  BY <1>2 DEF accounts, Accounts
<1>9. Lifecycle!Instruct
  BY <1>6, <1>7, <1>8 DEF Lifecycle!Instruct, Lifecycle!Enter, AllTerms, AllFates, TermsOf
<1>. QED  BY <1>9 DEF Implements, Lifecycle!Next

\* Incoming money lands with its payment.
LEMMA FateCredit ==
  ASSUME TypeOK, TypeOK', NEW s \in Sga, NEW n \in Amounts, CreditIncoming(s, n)
  PROVE  Implements
<1>1. PICK k : k = Len(heap) + 1
  OBVIOUS
<1>2. /\ NewWith("credited", "IncomingPaymentBooked") /\ Credit(s, n)
      /\ \A x \in DOMAIN heap : heap'[x] = heap[x]
      /\ heap'[k].from = External /\ heap'[k].to = s /\ heap'[k].amount = n
  BY <1>1, CreditShape
<1>3. /\ heap'[k].state = "IncomingPaymentBooked" /\ work'[k].at = "credited"
      /\ \A x \in DOMAIN heap : work'[x].at = work[x].at
  BY <1>1, <1>2 DEF NewWith
<1>4. TermsOf(k)' = [from |-> External, to |-> s, amount |-> n] /\ FateOf(k)' = "incoming"
  BY <1>2, <1>3 DEF TermsOf, FateOf
<1>5. \A x \in DOMAIN heap : FateOf(x)' = AllFates[x]
  <2>1. \A x \in DOMAIN heap : FateOf(x)' = FateOf(x)
    BY <1>2, <1>3 DEF FateOf
  <2>. QED  BY <2>1 DEF AllFates
<1>6. AllTerms' = Append(AllTerms, [from |-> External, to |-> s, amount |-> n])
  BY <1>1, <1>2, <1>4, NewTerms
<1>7. AllFates' = Append(AllFates, "incoming")
  <2>1. AllFates \in [1..Len(heap) -> Lifecycle!Fates]
    BY Bars DEF BarsTyped
  <2>. QED  BY <1>1, <1>2, <1>4, <1>5, <2>1, NewFates
<1>8. cents' = [cents EXCEPT ![s] = @ + n] /\ s \in Accounts
  BY <1>2 DEF Credit, Accounts
<1>9. Lifecycle!Land
  BY <1>6, <1>7, <1>8 DEF Lifecycle!Land, Lifecycle!Enter, AllTerms, AllFates, TermsOf
<1>. QED  BY <1>9 DEF Implements, Lifecycle!Next

\* A return brings the money back and ends the payout in one step.
LEMMA FateReturn ==
  ASSUME TypeOK, TypeOK', NEW o \in DOMAIN heap, Return(o)
  PROVE  Implements
<1> DEFINE F == [AllFates EXCEPT ![o] = "returned"]
           t == [from |-> heap[o].to, to |-> heap[o].from, amount |-> heap[o].amount]
<1>1. PICK k : k = Len(heap) + 1
  OBVIOUS
<1>2. /\ NewWith("booked", "IncomingPaymentBooked")
      /\ heap'[o].returnedBy = k
      /\ \A x \in DOMAIN heap \ {o} : heap'[x] = heap[x]
      /\ heap'[k].from = heap[o].to /\ heap'[k].to = heap[o].from
      /\ heap'[k].amount = heap[o].amount
      /\ CanComeBack(o) /\ Move(heap[o].to, heap[o].from, heap[o].amount)
      /\ Len(heap) \in Nat /\ DOMAIN heap = 1..Len(heap)
  BY <1>1, ReturnShape
<1>3. /\ heap'[k].state = "IncomingPaymentBooked" /\ work'[k].at = "booked"
      /\ \A x \in DOMAIN heap : work'[x].at = work[x].at /\ heap'[x].state = heap[x].state
  BY <1>1, <1>2 DEF NewWith
<1>4. TermsOf(k)' = t /\ FateOf(k)' = "incoming"
  BY <1>2, <1>3 DEF TermsOf, FateOf
<1>5. AllFates \in [1..Len(heap) -> Lifecycle!Fates]
  BY Bars DEF BarsTyped
<1>6. /\ heap[o].state = "OutgoingPaymentProcessed" /\ heap[o].returnedBy = 0 /\ k # 0
      /\ AllFates[o] = "processed"
  BY <1>1, <1>2 DEF CanComeBack, AllFates, FateOf
<1>7. F \in [1..Len(heap) -> Lifecycle!Fates] /\ F[o] = "returned"
      /\ \A x \in DOMAIN heap \ {o} : F[x] = FateOf(x)
  BY <1>2, <1>5 DEF Lifecycle!Fates, AllFates
<1>8. FateOf(o)' = "returned" /\ \A x \in DOMAIN heap \ {o} : FateOf(x)' = FateOf(x)
  BY <1>2, <1>3, <1>6 DEF FateOf
<1>9. \A x \in DOMAIN heap : FateOf(x)' = F[x]
  BY <1>7, <1>8
<1> HIDE DEF F
<1>10. AllTerms' = Append(AllTerms, t)
  BY <1>1, <1>2, <1>4, NewTerms
<1>11. AllFates' = Append(F, "incoming")
  BY <1>1, <1>2, <1>4, <1>7, <1>9, NewFates
<1>12. /\ heap[o].to # heap[o].from /\ cents[heap[o].to] >= heap[o].amount
       /\ cents' = [cents EXCEPT ![heap[o].to] = @ - heap[o].amount,
                                 ![heap[o].from] = @ + heap[o].amount]
  <2>1. heap[o].amount \in Amounts
    BY Entries DEF Payment
  <2>2. ASSUME NEW f, NEW d, NEW m \in Amounts, Move(f, d, m)
        PROVE  /\ d # f /\ cents[f] >= m
               /\ cents' = [cents EXCEPT ![f] = @ - m, ![d] = @ + m]
    BY <2>2, MoveTyped
  <2>. QED  BY <1>2, <2>1, <2>2
<1>13. /\ AllTerms[o].from = heap[o].from /\ AllTerms[o].to = heap[o].to
       /\ AllTerms[o].amount = heap[o].amount
  BY DEF AllTerms, TermsOf
<1>14. Lifecycle!Return(o) <=>
         /\ AllFates[o] = "processed" /\ AllTerms[o].to # AllTerms[o].from
         /\ cents[AllTerms[o].to] >= AllTerms[o].amount
         /\ cents' = [cents EXCEPT ![AllTerms[o].to] = @ - AllTerms[o].amount,
                                   ![AllTerms[o].from] = @ + AllTerms[o].amount]
         /\ AllTerms' = Append(AllTerms, [from |-> AllTerms[o].to, to |-> AllTerms[o].from,
                                         amount |-> AllTerms[o].amount])
         /\ AllFates' = Append([AllFates EXCEPT ![o] = "returned"], "incoming")
  BY DEF Lifecycle!Return, Lifecycle!Transfer, Lifecycle!Enter, AllTerms, AllFates, TermsOf
<1>15. Lifecycle!Return(o)
  BY <1>6, <1>10, <1>11, <1>12, <1>13, <1>14 DEF F
<1>. QED  BY <1>15 DEF Implements, Lifecycle!Next

\* No payments, no money: the engine starts where the lifecycle does.
LEMMA LifecycleInit == Init => Lifecycle!Init
<1> SUFFICES ASSUME Init PROVE Lifecycle!Init
  OBVIOUS
<1>1. DOMAIN heap = {}
  BY DEF Init
<1>2. \A f, g : DOMAIN f = {} /\ f = [x \in {} |-> f[x]] => f = <<>>
  OBVIOUS
<1>. QED  BY <1>1, <1>2 DEF Init, Lifecycle!Init

\* The engine's locks and goroutines implement a bank that does everything in
\* one step, for any accounts, ids, amounts and calendar.
THEOREM EngineImplementsLifecycle == Spec => LifecycleSpec
<1>1. Init => Lifecycle!Init
  BY LifecycleInit
<1>2. ASSUME TypeOK, TypeOK', BackInv, [Next]_vars PROVE Implements
  <2>1. ASSUME NEW id \in Ids, NEW s \in Sga, NEW a \in Accounts, NEW n \in Amounts,
               Create(id, s, a, n)
        PROVE  Implements
    BY <1>2, <2>1, FateCreate
  <2>2. ASSUME NEW s \in Sga, NEW n \in Amounts, CreditIncoming(s, n) PROVE Implements
    BY <1>2, <2>2, FateCredit
  <2>3. ASSUME NEW o \in DOMAIN heap, Reverse(o) \/ Advance(o) PROVE Implements
    BY <1>2, <2>3, ReverseShape, AdvanceShape, FateStepOf
  <2>4. ASSUME NEW o \in DOMAIN heap, Return(o) PROVE Implements
    BY <1>2, <2>4, FateReturn
  <2>5. ASSUME UNCHANGED <<heap, work, cents>> PROVE Implements
    BY <2>5, LifecycleVars DEF Implements, AllTerms, AllFates, TermsOf, FateOf
  <2>6. ASSUME NEW k, NEW outcomes \in [1..k -> Outcomes], ForceNext(outcomes) PROVE Implements
    BY <2>5, <2>6 DEF ForceNext, accounts
  <2>7. CASE Tick
    BY <2>5, <2>7 DEF Tick, accounts
  <2>8. CASE UNCHANGED vars
    BY <2>5, <2>8 DEF vars, accounts
  <2>. QED
    BY <1>2, <2>1, <2>2, <2>3, <2>4, <2>6, <2>7, <2>8 DEF Next, Environment
<1>3. Spec => []BackInv
  <2>1. Init => BackInv
    BY BackInit
  <2>2. TypeOK /\ BackInv /\ [Next]_vars => BackInv'
    BY BackNext
  <2>. QED  BY <2>1, <2>2, BankTypeCorrect, PTL DEF Spec
<1>. QED
  BY <1>1, <1>2, <1>3, BankTypeCorrect, PTL DEF Spec, LifecycleSpec, Lifecycle!Spec, Implements
-----------------------------------------------------------------------------
(***************************************************************************)
(* Sums                                                                    *)
(***************************************************************************)

Less == {p \in Nat \X Nat : p[1] < p[2]}

\* No set of numbers is without a least one.
LEMMA LessWF == IsWellFoundedOn(Less, Nat)
<1>1. OpToRel(<, Nat) = Less
  BY Zenon DEF OpToRel, Less
<1> QED BY <1>1, NatLessThanWellFounded

\* A set that holds 0, and with each number the next, holds every number.
LEMMA Induct ==
  ASSUME NEW S, 0 \in S, \A n \in Nat : n \in S => n + 1 \in S
  PROVE  \A n \in Nat : n \in S
<1> SUFFICES ASSUME NEW n \in Nat, n \notin S PROVE FALSE
  OBVIOUS
<1> PICK T : T = Nat \ S
  OBVIOUS
<1>1. T \subseteq Nat /\ T # {}
  OBVIOUS
<1>2. \E x \in T : \A y \in T : ~(<<y, x>> \in Less)
  BY <1>1, LessWF, WFMin
<1>3. PICK m \in T : \A k \in T : m <= k
  <2>1. \A k, m \in Nat : k < m => <<k, m>> \in Less
    BY DEF Less
  <2>2. \A k, m \in Nat : ~(k < m) => m <= k
    OBVIOUS
  <2> QED BY <1>1, <1>2, <2>1, <2>2
<1>4. m # 0 /\ m - 1 \in Nat /\ m - 1 \notin T
  BY <1>3
<1>5. m - 1 \in S /\ (m - 1) + 1 = m
  BY <1>4
<1> QED BY <1>4, <1>5

\* The sums of f up to each of the first n.
Sums(n, f) == CHOOSE sum : sum = [i \in 0..n |-> IF i = 0 THEN 0 ELSE sum[i - 1] + f[i]]
AreSums(g, n, f) == g = [i \in 0..n |-> IF i = 0 THEN 0 ELSE g[i - 1] + f[i]]

\* SumTo's recursive function is that table.
LEMMA SumToIs == ASSUME NEW n, NEW f PROVE SumTo(n, f) = Sums(n, f)[n]
<1>. QED  BY Zenon DEF SumTo, Sums

\* A table of sums can be carried on.
LEMMA SumsGoOn ==
  ASSUME NEW n \in Nat, NEW f, NEW g, AreSums(g, n, f)
  PROVE  \E h : AreSums(h, n + 1, f)
<1> PICK h : h = [i \in 0..(n + 1) |-> IF i = n + 1 THEN g[n] + f[n + 1] ELSE g[i]]
  OBVIOUS
<1>1. DOMAIN g = 0..n /\ \A i \in 0..n : g[i] = IF i = 0 THEN 0 ELSE g[i - 1] + f[i]
  BY DEF AreSums
<1>2. ASSUME NEW i \in 0..(n + 1) PROVE h[i] = IF i = 0 THEN 0 ELSE h[i - 1] + f[i]
  <2>1. CASE i = n + 1
    <3>1. h[i] = g[n] + f[i] /\ h[i - 1] = g[n] /\ i # 0
      BY <2>1
    <3>. QED  BY <3>1
  <2>2. CASE i = 0
    BY <1>1, <2>2
  <2>3. CASE i \in 1..n
    <3>1. i - 1 \in 0..n /\ i \in 0..n /\ i - 1 # n + 1 /\ i # n + 1 /\ i # 0
      BY <2>3
    <3>2. h[i] = g[i] /\ h[i - 1] = g[i - 1]
      BY <3>1
    <3>. QED  BY <1>1, <3>1, <3>2
  <2>. QED  BY <2>1, <2>2, <2>3
<1>3. h = [i \in 0..(n + 1) |-> h[i]]
  OBVIOUS
<1>. QED  BY <1>2, <1>3, Zenon DEF AreSums

\* So there is one for every n.
LEMMA SumsAre ==
  ASSUME NEW n \in Nat, NEW f
  PROVE  AreSums(Sums(n, f), n, f)
<1> PICK S : S = {m \in Nat : \E g : AreSums(g, m, f)}
  OBVIOUS
<1>1. 0 \in S
  <2> PICK g : g = [i \in 0..0 |-> 0]
    OBVIOUS
  <2>1. AreSums(g, 0, f)
    BY DEF AreSums
  <2>. QED  BY <2>1
<1>2. \A m \in Nat : m \in S => m + 1 \in S
  BY SumsGoOn
<1>3. n \in S
  BY <1>1, <1>2, Induct
<1>4. \E g : AreSums(g, n, f)
  BY <1>3, Zenon
<1>. QED  BY <1>4 DEF Sums, AreSums

\* What is added before n does not depend on what comes after it.
LEMMA SumStep ==
  ASSUME NEW n \in Nat, NEW f
  PROVE  SumTo(0, f) = 0 /\ SumTo(n + 1, f) = SumTo(n, f) + f[n + 1]
<1> PICK g, h, m : g = Sums(n, f) /\ h = Sums(m, f) /\ m = n + 1
  OBVIOUS
<1>0. m \in Nat
  OBVIOUS
<1>1. \A i \in 0..n : g[i] = IF i = 0 THEN 0 ELSE g[i - 1] + f[i]
  BY SumsAre DEF AreSums
<1>2. \A i \in 0..m : h[i] = IF i = 0 THEN 0 ELSE h[i - 1] + f[i]
  BY <1>0, SumsAre DEF AreSums
<1> PICK S : S = {i \in Nat : i <= n => g[i] = h[i]}
  OBVIOUS
<1>3. 0 \in S
  BY <1>0, <1>1, <1>2
<1>4. ASSUME NEW i \in Nat, i \in S PROVE i + 1 \in S
  <2> SUFFICES ASSUME i + 1 <= n PROVE g[i + 1] = h[i + 1]
    OBVIOUS
  <2>1. g[i] = h[i] /\ i + 1 \in 0..n /\ i + 1 \in 0..m /\ i + 1 # 0 /\ (i + 1) - 1 = i
    BY <1>4
  <2>. QED  BY <1>1, <1>2, <2>1
<1>5. n \in S
  BY <1>3, <1>4, Induct
<1>6. g[n] = h[n] /\ h[m] = h[n] + f[m]
  <2>1. m \in 0..m /\ m # 0 /\ m - 1 = n
    OBVIOUS
  <2>. QED  BY <1>2, <1>5, <2>1
<1>7. SumTo(0, f) = 0
  <2> PICK k : k = Sums(0, f)
    OBVIOUS
  <2>1. k[0] = 0
    BY SumsAre DEF AreSums
  <2>. QED  BY <2>1, SumToIs
<1>. QED  BY <1>6, <1>7, SumToIs

\* The sum of numbers is one.
LEMMA SumNat ==
  ASSUME NEW n \in Nat, NEW f, \A i \in 1..n : f[i] \in Nat
  PROVE  SumTo(n, f) \in Nat
<1> PICK S : S = {i \in Nat : i <= n => SumTo(i, f) \in Nat}
  OBVIOUS
<1>1. 0 \in S
  BY SumStep
<1>2. ASSUME NEW i \in Nat, i \in S PROVE i + 1 \in S
  <2> SUFFICES ASSUME i + 1 <= n PROVE SumTo(i + 1, f) \in Nat
    OBVIOUS
  <2>1. SumTo(i, f) \in Nat /\ f[i + 1] \in Nat
    BY <1>2
  <2>. QED  BY <2>1, SumStep
<1>. QED  BY <1>1, <1>2, Induct

\* Equal up to n, equal sums.
SameTo(n, f, g) == \A i \in 1..n : f[i] = g[i]

LEMMA SumSame ==
  ASSUME NEW n \in Nat, NEW f, NEW g, SameTo(n, f, g)
  PROVE  SumTo(n, f) = SumTo(n, g)
<1> PICK S : S = {i \in Nat : i <= n => SumTo(i, f) = SumTo(i, g)}
  OBVIOUS
<1>1. 0 \in S
  BY SumStep
<1>2. ASSUME NEW i \in Nat, i \in S PROVE i + 1 \in S
  <2> SUFFICES ASSUME i + 1 <= n PROVE SumTo(i + 1, f) = SumTo(i + 1, g)
    OBVIOUS
  <2>1. SumTo(i, f) = SumTo(i, g) /\ f[i + 1] = g[i + 1]
    BY <1>2 DEF SameTo
  <2>. QED  BY <2>1, SumStep
<1>. QED  BY <1>1, <1>2, Induct

\* If one number changes, the sum changes by as much.
Replaces(n, f, g, o) ==
  \A i \in 1..n : f[i] \in Nat /\ g[i] \in Nat /\ (i # o => g[i] = f[i])
Replaced(n, f, g, o) == SumTo(n, g) + f[o] = SumTo(n, f) + g[o]

LEMMA SumReplace ==
  ASSUME NEW n \in Nat, NEW f, NEW g, NEW o \in 1..n, Replaces(n, f, g, o)
  PROVE  Replaced(n, f, g, o)
<1>0. \A i \in 1..n : f[i] \in Nat /\ g[i] \in Nat /\ (i # o => g[i] = f[i])
  BY DEF Replaces
<1> PICK S : S = {i \in Nat : i <= n => IF i < o THEN SumTo(i, g) = SumTo(i, f)
                                       ELSE SumTo(i, g) + f[o] = SumTo(i, f) + g[o]}
  OBVIOUS
<1>1. 0 \in S
  BY SumStep
<1>2. ASSUME NEW i \in Nat, i \in S PROVE i + 1 \in S
  <2> SUFFICES ASSUME i + 1 <= n
               PROVE  IF i + 1 < o THEN SumTo(i + 1, g) = SumTo(i + 1, f)
                      ELSE SumTo(i + 1, g) + f[o] = SumTo(i + 1, f) + g[o]
    OBVIOUS
  <2>0. i + 1 \in 1..n /\ i <= n
    OBVIOUS
  <2>1. PICK x, y, u, v : /\ x = SumTo(i, f) /\ y = SumTo(i, g)
                          /\ u = SumTo(i + 1, f) /\ v = SumTo(i + 1, g)
    OBVIOUS
  <2>2. x \in Nat /\ y \in Nat /\ f[i + 1] \in Nat /\ g[i + 1] \in Nat
        /\ f[o] \in Nat /\ g[o] \in Nat
    BY <1>0, <2>0, <2>1, SumNat
  <2>3. u = x + f[i + 1] /\ v = y + g[i + 1]
    BY <2>1, SumStep
  <2>4. IF i < o THEN y = x ELSE y + f[o] = x + g[o]
    BY <1>2, <2>0, <2>1
  <2>5. i + 1 = o \/ g[i + 1] = f[i + 1]
    BY <1>0, <2>0
  <2>6. IF i + 1 < o THEN v = u ELSE v + f[o] = u + g[o]
    BY <2>2, <2>3, <2>4, <2>5
  <2>. QED  BY <2>1, <2>6
<1>3. n \in S
  BY <1>1, <1>2, Induct
<1>. QED  BY <1>3 DEF Replaced
-----------------------------------------------------------------------------
(***************************************************************************)
(* The records explain the ledger                                          *)
(***************************************************************************)

\* What every payment took from and brought to every account.
AllTook == [a \in Accounts |-> [o \in DOMAIN heap |-> Took(o, a)]]
AllBrought == [a \in Accounts |-> [o \in DOMAIN heap |-> Brought(o, a)]]

Explained(a) ==
  cents[a] + SumTo(Len(heap), AllTook[a]) = SumTo(Len(heap), AllBrought[a])

\* The ledger is explained account by account.
LEMMA ExplainedIs == LedgerExplained <=> \A a \in Accounts : Explained(a)
BY DEF LedgerExplained, Explained, AllTook, AllBrought, Left, Arrived

\* They are amounts or nothing.
Parts ==
  /\ Len(heap) \in Nat /\ DOMAIN heap = 1..Len(heap) /\ \A a \in Accounts : cents[a] \in Nat
  /\ \A o \in DOMAIN heap : heap[o].amount \in Nat
  /\ \A a \in Accounts : \A o \in 1..Len(heap) : AllTook[a][o] \in Nat /\ AllBrought[a][o] \in Nat

LEMMA PartsTyped == TypeOK => Parts
<1> SUFFICES ASSUME TypeOK PROVE Parts
  OBVIOUS
<1>1. Len(heap) \in Nat /\ DOMAIN heap = 1..Len(heap) /\ \A a \in Accounts : cents[a] \in Nat
  BY LenProperties DEF TypeOK
<1>2. ASSUME NEW o \in DOMAIN heap PROVE heap[o].amount \in Nat
  BY Entries, EngineAssumption DEF Payment
<1>3. ASSUME NEW a \in Accounts, NEW o \in DOMAIN heap
      PROVE  AllTook[a][o] \in Nat /\ AllBrought[a][o] \in Nat
  BY <1>2 DEF AllTook, AllBrought, Took, Brought
<1>. QED  BY <1>1, <1>2, <1>3 DEF Parts

\* After a step too.
LEMMA PartsTypedAfter == TypeOK' => Parts'
BY PartsTyped, PTL

\* A step that changes what payment o took and brought, and the account by as
\* much, leaves the account explained.
LEMMA LedgerOne ==
  ASSUME TypeOK, TypeOK', NEW a \in Accounts, Explained(a),
         NEW o \in DOMAIN heap, Len(heap') = Len(heap),
         \A x \in DOMAIN heap \ {o} : /\ AllTook'[a][x] = AllTook[a][x]
                                      /\ AllBrought'[a][x] = AllBrought[a][x],
         cents'[a] + AllTook'[a][o] + AllBrought[a][o]
           = cents[a] + AllTook[a][o] + AllBrought'[a][o]
  PROVE  cents'[a] + SumTo(Len(heap'), AllTook'[a]) = SumTo(Len(heap'), AllBrought'[a])
<1> PICK n, t, b, s, c : /\ n = Len(heap) /\ t = AllTook[a] /\ b = AllBrought[a]
                         /\ s = AllTook'[a] /\ c = AllBrought'[a]
  OBVIOUS
<1>1. /\ n \in Nat /\ DOMAIN heap = 1..n /\ cents[a] \in Nat
      /\ \A x \in 1..n : t[x] \in Nat /\ b[x] \in Nat
  BY PartsTyped DEF Parts
<1>2. cents'[a] \in Nat /\ \A x \in 1..n : s[x] \in Nat /\ c[x] \in Nat
  BY <1>1, PartsTypedAfter DEF Parts
<1>3. SumTo(n, s) + t[o] = SumTo(n, t) + s[o] /\ SumTo(n, c) + b[o] = SumTo(n, b) + c[o]
  <2>1. o \in 1..n /\ \A x \in 1..n : x # o => s[x] = t[x] /\ c[x] = b[x]
    BY <1>1
  <2>2. Replaces(n, t, s, o) /\ Replaces(n, b, c, o)
    BY <1>1, <1>2, <2>1 DEF Replaces
  <2>3. Replaced(n, t, s, o) /\ Replaced(n, b, c, o)
    BY <1>1, <2>1, <2>2, SumReplace
  <2>. QED  BY <2>3 DEF Replaced
<1>4. /\ SumTo(n, s) \in Nat /\ SumTo(n, t) \in Nat /\ SumTo(n, c) \in Nat /\ SumTo(n, b) \in Nat
      /\ t[o] \in Nat /\ s[o] \in Nat /\ b[o] \in Nat /\ c[o] \in Nat
  BY <1>1, <1>2, SumNat
<1>5. cents[a] + SumTo(n, t) = SumTo(n, b)
  BY DEF Explained
<1>6. cents'[a] + s[o] + b[o] = cents[a] + t[o] + c[o]
  OBVIOUS
<1>7. cents'[a] + SumTo(n, s) = SumTo(n, c)
  <2>1. PICK p \in Nat, q \in Nat, x \in Nat, x2 \in Nat, y \in Nat, y2 \in Nat,
             u \in Nat, u2 \in Nat, v \in Nat, v2 \in Nat :
          /\ p = cents[a] /\ q = cents'[a] /\ x = t[o] /\ x2 = s[o] /\ y = b[o] /\ y2 = c[o]
          /\ u = SumTo(n, t) /\ u2 = SumTo(n, s) /\ v = SumTo(n, b) /\ v2 = SumTo(n, c)
    BY <1>1, <1>2, <1>4
  <2>2. u2 + x = u + x2 /\ v2 + y = v + y2 /\ p + u = v /\ q + x2 + y = p + x + y2
    BY <1>3, <1>5, <1>6, <2>1
  <2>3. q + u2 = v2
    BY <2>2
  <2>. QED  BY <2>1, <2>3
<1>. QED  BY <1>7

\* So does a new payment with what it took and brought.
LEMMA LedgerNew ==
  ASSUME TypeOK, TypeOK', NEW a \in Accounts, Explained(a),
         NEW k, k = Len(heap) + 1, Len(heap') = k,
         \A x \in DOMAIN heap : /\ AllTook'[a][x] = AllTook[a][x]
                                /\ AllBrought'[a][x] = AllBrought[a][x],
         cents'[a] + AllTook'[a][k] = cents[a] + AllBrought'[a][k]
  PROVE  cents'[a] + SumTo(Len(heap'), AllTook'[a]) = SumTo(Len(heap'), AllBrought'[a])
<1> PICK n, t, b, s, c : /\ n = Len(heap) /\ t = AllTook[a] /\ b = AllBrought[a]
                         /\ s = AllTook'[a] /\ c = AllBrought'[a]
  OBVIOUS
<1>1. /\ n \in Nat /\ DOMAIN heap = 1..n /\ cents[a] \in Nat
      /\ \A x \in 1..n : t[x] \in Nat /\ b[x] \in Nat
  BY PartsTyped DEF Parts
<1>2. cents'[a] \in Nat /\ \A x \in 1..k : s[x] \in Nat /\ c[x] \in Nat
  BY PartsTypedAfter DEF Parts
<1>3. SumTo(k, s) = SumTo(n, s) + s[k] /\ SumTo(k, c) = SumTo(n, c) + c[k]
  BY <1>1, SumStep
<1>4. SumTo(n, s) = SumTo(n, t) /\ SumTo(n, c) = SumTo(n, b)
  <2>1. SameTo(n, s, t) /\ SameTo(n, c, b)
    BY <1>1 DEF SameTo
  <2>. QED  BY <1>1, <2>1, SumSame
<1>5. SumTo(n, t) \in Nat /\ SumTo(n, b) \in Nat /\ s[k] \in Nat /\ c[k] \in Nat
  <2>1. k \in 1..k
    BY <1>1
  <2>. QED  BY <1>1, <1>2, <2>1, SumNat
<1>6. cents[a] + SumTo(n, t) = SumTo(n, b)
  BY DEF Explained
<1>7. cents'[a] + s[k] = cents[a] + c[k]
  OBVIOUS
<1>8. cents'[a] + SumTo(k, s) = SumTo(k, c)
  <2>1. PICK p \in Nat, q \in Nat, x \in Nat, y \in Nat, u \in Nat, v \in Nat :
          /\ p = cents[a] /\ q = cents'[a] /\ x = s[k] /\ y = c[k]
          /\ u = SumTo(n, t) /\ v = SumTo(n, b)
    BY <1>1, <1>2, <1>5, <1>4
  <2>2. SumTo(k, s) = u + x /\ SumTo(k, c) = v + y /\ p + u = v /\ q + x = p + y
    BY <1>3, <1>4, <1>6, <1>7, <2>1
  <2>3. q + (u + x) = v + y
    BY <2>2
  <2>. QED  BY <2>1, <2>2, <2>3
<1>. QED  BY <1>8

\* An account after a move of m from f to d.
LEMMA MoveIs ==
  ASSUME TypeOK, NEW f, NEW d, NEW m \in Amounts, Move(f, d, m), NEW a \in Accounts
  PROVE  /\ f # d /\ m \in Nat /\ cents[a] \in Nat /\ cents'[a] \in Nat
         /\ cents'[a] + (IF a = f THEN m ELSE 0) = cents[a] + (IF a = d THEN m ELSE 0)
<1>1. /\ f \in Accounts /\ d \in Accounts /\ f # d /\ cents[f] >= m
      /\ cents' = [cents EXCEPT ![f] = @ - m, ![d] = @ + m]
      /\ cents' \in [Accounts -> Nat]
  BY MoveTyped
<1>2. m \in Nat /\ cents \in [Accounts -> Nat]
  BY EngineAssumption DEF TypeOK
<1>3. cents'[a] = IF a = f THEN cents[f] - m ELSE IF a = d THEN cents[d] + m ELSE cents[a]
  BY <1>1, <1>2
<1>. QED  BY <1>1, <1>2, <1>3

\* A goroutine's step or a reversal moves what its payment then owns up to.
LEMMA LedgerStepOf ==
  ASSUME TypeOK, TypeOK', Progress, NEW o \in DOMAIN heap, StepOf(o), NEW a \in Accounts, Explained(a)
  PROVE  cents'[a] + SumTo(Len(heap'), AllTook'[a]) = SumTo(Len(heap'), AllBrought'[a])
<1> PICK f, d, m : f = heap[o].from /\ d = heap[o].to /\ m = heap[o].amount
  OBVIOUS
<1>0. m \in Amounts /\ m \in Nat /\ cents[a] \in Nat /\ Len(heap') = Len(heap)
      /\ DOMAIN heap' = DOMAIN heap
  BY Entries, EngineAssumption DEF Payment, TypeOK, StepOf
<1>1. \A x \in DOMAIN heap \ {o} : /\ AllTook'[a][x] = AllTook[a][x]
                                   /\ AllBrought'[a][x] = AllBrought[a][x]
  BY <1>0 DEF StepOf, Untouched, AllTook, AllBrought, Took, Brought, Paid
<1>2. heap'[o].from = f /\ heap'[o].to = d /\ heap'[o].amount = m
  BY DEF StepOf, SameTerms
<1>3. /\ work[o].at \in {"moved", "short", "refused"} => heap[o].state = "OutgoingPaymentBooked"
      /\ work[o].at \in {"booked", "asleep"} =>
           heap[o].state \in {"OutgoingPaymentBooked", "IncomingPaymentBooked"}
      /\ work[o].at = "credited" => heap[o].state = "IncomingPaymentBooked"
  BY DEF Progress
<1>4. \/ /\ Paid(o)' <=> Paid(o)
         /\ heap'[o].state = "Reversed" <=> heap[o].state = "Reversed"
         /\ UNCHANGED accounts
      \/ /\ ~Paid(o) /\ Paid(o)' /\ heap[o].state # "Reversed" /\ heap'[o].state # "Reversed"
         /\ Move(f, d, m)
      \/ /\ Paid(o) /\ Paid(o)' /\ heap[o].state # "Reversed" /\ heap'[o].state = "Reversed"
         /\ Move(d, f, m)
  BY <1>3 DEF StepOf, Passes, Untouched, Paid, StateAfter, Outgoing, CanComeBack
<1> DEFINE T(p, r) == (IF f = a /\ p THEN m ELSE 0) + (IF d = a /\ r THEN m ELSE 0)
           B(p, r) == (IF d = a /\ p THEN m ELSE 0) + (IF f = a /\ r THEN m ELSE 0)
<1>5. /\ AllTook[a][o] = T(Paid(o), heap[o].state = "Reversed")
      /\ AllBrought[a][o] = B(Paid(o), heap[o].state = "Reversed")
  BY DEF AllTook, AllBrought, Took, Brought
<1>6. /\ AllTook'[a][o] = T(Paid(o)', heap'[o].state = "Reversed")
      /\ AllBrought'[a][o] = B(Paid(o)', heap'[o].state = "Reversed")
  BY <1>0, <1>2 DEF AllTook, AllBrought, Took, Brought
<1>7. cents'[a] + AllTook'[a][o] + AllBrought[a][o] = cents[a] + AllTook[a][o] + AllBrought'[a][o]
  <2>1. CASE UNCHANGED accounts /\ (Paid(o)' <=> Paid(o))
             /\ (heap'[o].state = "Reversed" <=> heap[o].state = "Reversed")
    BY <1>0, <1>5, <1>6, <2>1 DEF accounts
  <2>2. CASE /\ ~Paid(o) /\ Paid(o)' /\ heap[o].state # "Reversed" /\ heap'[o].state # "Reversed"
             /\ Move(f, d, m)
    <3>1. /\ cents'[a] \in Nat
          /\ cents'[a] + (IF a = f THEN m ELSE 0) = cents[a] + (IF a = d THEN m ELSE 0)
      BY <1>0, <2>2, MoveIs
    <3>. QED  BY <1>0, <1>5, <1>6, <2>2, <3>1
  <2>3. CASE /\ Paid(o) /\ Paid(o)' /\ heap[o].state # "Reversed" /\ heap'[o].state = "Reversed"
             /\ Move(d, f, m)
    <3>1. /\ cents'[a] \in Nat
          /\ cents'[a] + (IF a = d THEN m ELSE 0) = cents[a] + (IF a = f THEN m ELSE 0)
      BY <1>0, <2>3, MoveIs
    <3>. QED  BY <1>0, <1>5, <1>6, <2>3, <3>1
  <2>. QED  BY <1>4, <2>1, <2>2, <2>3
<1>. QED  BY <1>0, <1>1, <1>7, LedgerOne

\* Money that comes in, or comes back, does so with its payment.
LEMMA LedgerEnter ==
  ASSUME TypeOK, TypeOK', NEW at, NEW st, NewWith(at, st), at # "moved", st # "Reversed",
         NEW a \in Accounts, Explained(a),
         NEW k, k = Len(heap) + 1,
         NEW t \in Nat, NEW b \in Nat,
         (st = "IncomingPaymentBooked"
           /\ t = (IF heap'[k].from = a THEN heap'[k].amount ELSE 0)
           /\ b = (IF heap'[k].to = a THEN heap'[k].amount ELSE 0))
         \/ (st = "OutgoingPaymentBooked" /\ t = 0 /\ b = 0),
         cents'[a] + t = cents[a] + b
  PROVE  cents'[a] + SumTo(Len(heap'), AllTook'[a]) = SumTo(Len(heap'), AllBrought'[a])
<1>1. /\ Len(heap') = k /\ DOMAIN heap' = 1..k /\ work'[k].at = at /\ heap'[k].state = st
      /\ \A x \in DOMAIN heap : /\ work'[x].at = work[x].at /\ heap'[x].state = heap[x].state
                               /\ heap'[x].from = heap[x].from /\ heap'[x].to = heap[x].to
                               /\ heap'[x].amount = heap[x].amount
  BY DEF NewWith, SameTerms
<1>2. Len(heap) \in Nat /\ DOMAIN heap = 1..Len(heap) /\ cents[a] \in Nat
  BY PartsTyped DEF Parts
<1>3. k \in DOMAIN heap' /\ DOMAIN heap \subseteq DOMAIN heap'
  BY <1>1, <1>2
<1>4. \A x \in DOMAIN heap : /\ AllTook'[a][x] = AllTook[a][x]
                             /\ AllBrought'[a][x] = AllBrought[a][x]
  BY <1>1, <1>3 DEF AllTook, AllBrought, Took, Brought, Paid
<1>5. AllTook'[a][k] = t /\ AllBrought'[a][k] = b
  <2>1. heap'[k].amount \in Nat
    BY <1>3, PartsTypedAfter DEF Parts
  <2>. QED  BY <1>1, <1>3, <2>1 DEF AllTook, AllBrought, Took, Brought, Paid
<1>. QED  BY <1>1, <1>2, <1>4, <1>5, LedgerNew

\* The payment records account for every cent on every account at every moment:
\* between a move and the state that tells of it, over reversals, returns and
\* payments replaced under their id.
THEOREM LedgerIsExplained == Spec => []LedgerExplained
<1>1. Init => LedgerExplained
  <2> SUFFICES ASSUME Init, NEW a \in Accounts PROVE Explained(a)
    BY ExplainedIs
  <2>1. Len(heap) = 0 /\ cents[a] = 0
    BY DEF Init
  <2>. QED  BY <2>1, SumStep DEF Explained
<1>2. ASSUME TypeOK, TypeOK', BackInv, LedgerExplained, [Next]_vars PROVE LedgerExplained'
  <2>1. ASSUME NEW a \in Accounts
        PROVE  cents'[a] + SumTo(Len(heap'), AllTook'[a]) = SumTo(Len(heap'), AllBrought'[a])
    <3>1. Explained(a) /\ Progress /\ cents[a] \in Nat
      BY <1>2, ExplainedIs DEF BackInv, TypeOK
    <3>2. PICK k : k = Len(heap) + 1
      OBVIOUS
    <3>3. ASSUME UNCHANGED <<heap, work, cents>>
          PROVE  cents'[a] + SumTo(Len(heap'), AllTook'[a]) = SumTo(Len(heap'), AllBrought'[a])
      BY <3>1, <3>3 DEF Explained, AllTook, AllBrought, Took, Brought, Paid
    <3>4. ASSUME NEW id \in Ids, NEW s \in Sga, NEW d \in Accounts, NEW n \in Amounts,
                 Create(id, s, d, n)
          PROVE  cents'[a] + SumTo(Len(heap'), AllTook'[a]) = SumTo(Len(heap'), AllBrought'[a])
      <4>1. NewWith("booked", "OutgoingPaymentBooked") /\ cents' = cents
        BY <1>2, <3>4, CreateShape DEF accounts
      <4>. QED  BY <1>2, <3>1, <3>2, <4>1, LedgerEnter
    <3>5. ASSUME NEW s \in Sga, NEW n \in Amounts, CreditIncoming(s, n)
          PROVE  cents'[a] + SumTo(Len(heap'), AllTook'[a]) = SumTo(Len(heap'), AllBrought'[a])
      <4>1. /\ NewWith("credited", "IncomingPaymentBooked") /\ Credit(s, n)
            /\ heap'[k].from = External /\ heap'[k].to = s /\ heap'[k].amount = n
        BY <1>2, <3>2, <3>5, CreditShape
      <4>2. External # a /\ n \in Nat /\ s \in Accounts /\ cents \in [Accounts -> Nat]
        BY <1>2, EngineAssumption DEF Accounts, TypeOK
      <4>3. cents' = [cents EXCEPT ![s] = @ + n]
        BY <4>1 DEF Credit
      <4>4. PICK t, b : t = 0 /\ b = IF s = a THEN n ELSE 0
        OBVIOUS
      <4>5. cents'[a] + t = cents[a] + b /\ t \in Nat /\ b \in Nat
        BY <4>2, <4>3, <4>4
      <4>6. t = (IF heap'[k].from = a THEN heap'[k].amount ELSE 0)
            /\ b = (IF heap'[k].to = a THEN heap'[k].amount ELSE 0)
        BY <4>1, <4>2, <4>4
      <4>. QED  BY <1>2, <3>1, <3>2, <4>1, <4>5, <4>6, LedgerEnter
    <3>6. ASSUME NEW o \in DOMAIN heap, Reverse(o) \/ Advance(o)
          PROVE  cents'[a] + SumTo(Len(heap'), AllTook'[a]) = SumTo(Len(heap'), AllBrought'[a])
      BY <1>2, <3>1, <3>6, ReverseShape, AdvanceShape, LedgerStepOf
    <3>7. ASSUME NEW o \in DOMAIN heap, Return(o)
          PROVE  cents'[a] + SumTo(Len(heap'), AllTook'[a]) = SumTo(Len(heap'), AllBrought'[a])
      <4>1. PICK f, d, m : f = heap[o].to /\ d = heap[o].from /\ m = heap[o].amount
        OBVIOUS
      <4>2. /\ NewWith("booked", "IncomingPaymentBooked") /\ Move(f, d, m)
            /\ heap'[k].from = f /\ heap'[k].to = d /\ heap'[k].amount = m
        BY <1>2, <3>2, <3>7, <4>1, ReturnShape
      <4>3. m \in Amounts
        BY <1>2, <4>1, Entries DEF Payment
      <4>4. /\ m \in Nat
            /\ cents'[a] + (IF a = f THEN m ELSE 0) = cents[a] + (IF a = d THEN m ELSE 0)
        BY <1>2, <4>2, <4>3, MoveIs
      <4>5. PICK t \in Nat, b \in Nat : t = (IF f = a THEN m ELSE 0) /\ b = (IF d = a THEN m ELSE 0)
        BY <4>4
      <4>6. cents'[a] + t = cents[a] + b
        BY <4>4, <4>5
      <4>7. t = (IF heap'[k].from = a THEN heap'[k].amount ELSE 0)
            /\ b = (IF heap'[k].to = a THEN heap'[k].amount ELSE 0)
        BY <4>2, <4>5
      <4>. QED  BY <1>2, <3>1, <3>2, <4>2, <4>6, <4>7, LedgerEnter
    <3>8. ASSUME NEW n, NEW outcomes \in [1..n -> Outcomes], ForceNext(outcomes)
          PROVE  UNCHANGED <<heap, work, cents>>
      BY <3>8 DEF ForceNext, accounts
    <3>9. Tick => UNCHANGED <<heap, work, cents>>
      BY DEF Tick, accounts
    <3>10. UNCHANGED vars => UNCHANGED <<heap, work, cents>>
      BY DEF vars, accounts
    <3>. QED
      BY <1>2, <3>3, <3>4, <3>5, <3>6, <3>7, <3>8, <3>9, <3>10 DEF Next, Environment
  <2>2. LedgerExplained' <=> \A a \in Accounts : Explained(a)'
    BY DEF LedgerExplained, Explained, AllTook, AllBrought, Left, Arrived
  <2>. QED  BY <2>1, <2>2 DEF Explained
<1>3. Init => BackInv
  BY BackInit
<1>4. TypeOK /\ BackInv /\ [Next]_vars => BackInv'
  BY BackNext
<1>. QED  BY <1>1, <1>2, <1>3, <1>4, BankTypeCorrect, PTL DEF Spec
-----------------------------------------------------------------------------
(***************************************************************************)
(* The notifications agree with the record                                 *)
(***************************************************************************)

\* A stream with one more told.
Longer(s, y) == Append(s, y)

\* How often x was told, when one more is told.
LEMMA TimesGrow ==
  ASSUME NEW s \in Seq(Types), NEW y \in Types, NEW t, t = Longer(s, y), NEW x
  PROVE  /\ Times(s, x) \in Nat /\ (Times(s, x) # 0 <=> x \in Range(s))
         /\ Times(t, x) = Times(s, x) + (IF x = y THEN 1 ELSE 0)
<1> PICK n, I, J : n = Len(s) /\ I = {i \in DOMAIN s : s[i] = x} /\ J = {i \in DOMAIN t : t[i] = x}
  OBVIOUS
<1>1. n \in Nat /\ DOMAIN s = 1..n
  BY LenProperties
<1>2. DOMAIN t = 1..(n + 1) /\ t[n + 1] = y /\ \A i \in 1..n : t[i] = s[i]
  BY SeqStep DEF Longer
<1>3. IsFiniteSet(I) /\ Cardinality(I) \in Nat
  <2>1. IsFiniteSet(1..n)
    BY <1>1, FS_Interval
  <2>2. I \subseteq 1..n
    BY <1>1
  <2>. QED  BY <2>1, <2>2, FS_Subset, FS_CardinalityType
<1>4. Cardinality(I) # 0 <=> x \in Range(s)
  <2>1. I # {} <=> x \in Range(s)
    BY DEF Range
  <2>. QED  BY <1>3, <2>1, FS_EmptySet
<1>5. Cardinality(J) = Cardinality(I) + (IF x = y THEN 1 ELSE 0)
  <2>1. CASE x = y
    <3>1. J = I \cup {n + 1} /\ n + 1 \notin I
      BY <1>1, <1>2, <2>1
    <3>. QED  BY <1>3, <2>1, <3>1, FS_AddElement
  <2>2. CASE x # y
    <3>1. J = I
      BY <1>1, <1>2, <2>2
    <3>2. Cardinality(J) = Cardinality(I)
      BY <3>1, Zenon
    <3>3. Cardinality(I) + 0 = Cardinality(I)
      BY <1>3
    <3>. QED  BY <2>2, <3>2, <3>3, Zenon
  <2>. QED  BY <2>1, <2>2
<1>. QED  BY <1>3, <1>4, <1>5 DEF Times

\* Nothing has been told of a new payment.
LEMMA TimesOfNone == \A x : Times(<<>>, x) = 0
<1>1. \A x : {i \in DOMAIN <<>> : <<>>[i] = x} = {}
  OBVIOUS
<1>. QED  BY <1>1, FS_EmptySet DEF Times

Bookings == {"OutgoingPaymentBooked", "IncomingPaymentBooked"}

\* The booking a payment in state st began with, and the state it settled in.
BookingOf(st) ==
  IF st \in {"IncomingPaymentBooked", "IncomingPaymentProcessed"}
  THEN "IncomingPaymentBooked" ELSE "OutgoingPaymentBooked"
FinalOf(st) == IF st = "Reversed" THEN "OutgoingPaymentProcessed" ELSE st

\* How often the payment's own goroutine has told x, and how often Reverse.
ByProcess(st, at, x) ==
  (IF x = BookingOf(st) /\ at \notin {"credited", "booked"} THEN 1 ELSE 0)
    + (IF x = FinalOf(st) /\ at = "done" /\ st \notin Bookings THEN 1 ELSE 0)
ByReverse(rev, x) ==
  (IF x = "OutgoingPaymentBooked" /\ rev \in {"reversed", "done"} THEN 1 ELSE 0)
    + (IF x = "Reversed" /\ rev = "done" THEN 1 ELSE 0)

\* What has been told is what the two goroutines have come to, and what the one
\* is about to tell is still so, or was before the other reversed it.
ToldRight(st, at, told, rev, s) ==
  /\ at \in {"credited", "booked", "asleep", "moved", "short", "refused"} => st \in Bookings
  /\ at \in {"moved", "short", "refused"} => st = "OutgoingPaymentBooked"
  /\ at \in {"credited", "booked"} => told = st
  /\ at = "announce" => told = FinalOf(st) /\ st \notin Bookings
  /\ rev = "none" <=> st # "Reversed"
  /\ \A x \in Types : Times(s, x) = ByProcess(st, at, x) + ByReverse(rev, x)

StreamInv ==
  \A o \in DOMAIN heap :
    ToldRight(heap[o].state, work[o].at, work[o].told, work[o].reversal, sent[o])

\* When both have ended, that is what the record says.
LEMMA StreamAtRest ==
  ASSUME NEW st \in Types, NEW told, NEW rev \in {"none", "done"}, NEW s \in Seq(Types),
         ToldRight(st, "done", told, rev, s)
  PROVE  Told(st) = {[t |-> x, n |-> Times(s, x)] : x \in Range(s)}
<1>1. \A x \in Types : Times(s, x) = ByProcess(st, "done", x) + ByReverse(rev, x)
  BY DEF ToldRight
<1>2. rev = "none" <=> st # "Reversed"
  BY DEF ToldRight
<1>3. \A x : Times(s, x) # 0 <=> x \in Range(s)
  BY TimesGrow
<1>4. Range(s) \subseteq Types
  BY LenProperties, ElementOfSeq DEF Range
<1>5. CASE st \in Bookings
  <2>1. \A x \in Types : Times(s, x) = IF x = st THEN 1 ELSE 0
    BY <1>1, <1>2, <1>5 DEF ByProcess, ByReverse, BookingOf, FinalOf, Bookings
  <2>2. Range(s) = {st}
    BY <1>3, <1>4, <2>1
  <2>3. Told(st) = {[t |-> st, n |-> 1]}
    BY <1>5 DEF Told, Bookings
  <2>. QED  BY <2>1, <2>2, <2>3
<1>6. CASE st = "Reversed"
  <2>1. \A x \in Types : Times(s, x) = IF x = "OutgoingPaymentBooked" THEN 2
                                      ELSE IF x \in {"OutgoingPaymentProcessed", "Reversed"} THEN 1 ELSE 0
    BY <1>1, <1>2, <1>6 DEF ByProcess, ByReverse, BookingOf, FinalOf, Bookings
  <2>2. Range(s) = {"OutgoingPaymentBooked", "OutgoingPaymentProcessed", "Reversed"}
    BY <1>3, <1>4, <2>1 DEF Types
  <2>3. Told(st) = {[t |-> "OutgoingPaymentBooked", n |-> 2],
                    [t |-> "OutgoingPaymentProcessed", n |-> 1], [t |-> "Reversed", n |-> 1]}
    BY <1>6 DEF Told
  <2>4. /\ Times(s, "OutgoingPaymentBooked") = 2 /\ Times(s, "OutgoingPaymentProcessed") = 1
        /\ Times(s, "Reversed") = 1
    BY <2>1 DEF Types
  <2>. QED  BY <2>2, <2>3, <2>4
<1>7. CASE st \notin Bookings /\ st # "Reversed"
  <2>1. \A x \in Types : Times(s, x) = IF x \in {BookingOf(st), st} THEN 1 ELSE 0
    BY <1>1, <1>2, <1>7 DEF ByProcess, ByReverse, BookingOf, FinalOf, Bookings
  <2>2. BookingOf(st) \in Types
    BY DEF BookingOf, Types
  <2>3. Range(s) = {BookingOf(st), st}
    BY <1>3, <1>4, <2>1, <2>2
  <2>4. Told(st) = {[t |-> BookingOf(st), n |-> 1], [t |-> st, n |-> 1]}
    BY <1>7 DEF Told, BookingOf, Bookings, Types
  <2>. QED  BY <2>1, <2>2, <2>3, <2>4
<1>. QED  BY <1>5, <1>6, <1>7

\* A notification that the one of the two owes.
Tells(at, told, rev, at2, rev2, y) ==
  \/ at = "booked" /\ at2 \in {"asleep", "done"} /\ y = told /\ rev2 = rev
  \/ at = "announce" /\ at2 = "done" /\ y = told /\ rev2 = rev
  \/ at2 = at /\ rev = "booking" /\ rev2 = "reversed" /\ y = "OutgoingPaymentBooked"
  \/ at2 = at /\ rev = "reversed" /\ rev2 = "done" /\ y = "Reversed"

LEMMA StreamTold ==
  ASSUME NEW st \in Types, NEW at, NEW told, NEW rev, NEW s \in Seq(Types),
         ToldRight(st, at, told, rev, s),
         NEW at2, NEW rev2, NEW y \in Types, NEW s2, s2 = Longer(s, y),
         Tells(at, told, rev, at2, rev2, y)
  PROVE  ToldRight(st, at2, told, rev2, s2)
<1>1. \A x : Times(s, x) \in Nat /\ Times(s2, x) = Times(s, x) + (IF x = y THEN 1 ELSE 0)
  BY TimesGrow
<1>2. rev = "none" <=> st # "Reversed"
  BY DEF ToldRight
<1>3. \A x \in Types : Times(s2, x) = ByProcess(st, at2, x) + ByReverse(rev2, x)
  <2> SUFFICES ASSUME NEW x \in Types PROVE Times(s2, x) = ByProcess(st, at2, x) + ByReverse(rev2, x)
    OBVIOUS
  <2>1. Times(s, x) = ByProcess(st, at, x) + ByReverse(rev, x)
    BY DEF ToldRight
  <2>2. ByProcess(st, at2, x) + ByReverse(rev2, x)
          = ByProcess(st, at, x) + ByReverse(rev, x) + (IF x = y THEN 1 ELSE 0)
    <3>1. CASE at = "booked" /\ at2 \in {"asleep", "done"} /\ y = told /\ rev2 = rev
      <4>1. st \in Bookings /\ told = st
        BY <3>1 DEF ToldRight
      <4>. QED  BY <3>1, <4>1 DEF ByProcess, ByReverse, BookingOf, FinalOf, Bookings
    <3>2. CASE at = "announce" /\ at2 = "done" /\ y = told /\ rev2 = rev
      <4>1. st \notin Bookings /\ told = FinalOf(st)
        BY <3>2 DEF ToldRight
      <4>. QED  BY <3>2, <4>1 DEF ByProcess, ByReverse, BookingOf, FinalOf, Bookings
    <3>3. CASE at2 = at /\ rev = "booking" /\ rev2 = "reversed" /\ y = "OutgoingPaymentBooked"
      BY <3>3 DEF ByProcess, ByReverse
    <3>4. CASE at2 = at /\ rev = "reversed" /\ rev2 = "done" /\ y = "Reversed"
      BY <3>4 DEF ByProcess, ByReverse
    <3>. QED  BY <3>1, <3>2, <3>3, <3>4 DEF Tells
  <2>. QED  BY <1>1, <2>1, <2>2
<1>. QED  BY <1>2, <1>3 DEF ToldRight, Tells

\* A change of state or point that nobody has been told of yet.
LEMMA StreamMoved ==
  ASSUME NEW st \in Types, NEW at, NEW told, NEW rev, NEW s, ToldRight(st, at, told, rev, s),
         NEW st2 \in Types, NEW at2, NEW told2, NEW rev2,
         \/ /\ at = "credited" /\ at2 = "booked" /\ st2 = st /\ told2 = told /\ rev2 = rev
         \/ /\ at = "asleep" /\ at2 \in {"moved", "short", "refused"} /\ st2 = st /\ rev2 = rev
            /\ st = "OutgoingPaymentBooked" /\ told2 = told
         \/ /\ at \in {"moved", "short", "refused"} /\ at2 = "announce" /\ told2 = st2 /\ rev2 = rev
            /\ st2 = StateAfter(at)
         \/ /\ at = "asleep" /\ at2 = "announce" /\ told2 = st2 /\ rev2 = rev
            /\ st = "IncomingPaymentBooked" /\ st2 = "IncomingPaymentProcessed"
         \/ /\ st = "OutgoingPaymentProcessed" /\ st2 = "Reversed" /\ at2 = at /\ told2 = told
            /\ rev2 = "booking"
  PROVE  ToldRight(st2, at2, told2, rev2, s)
<1>1. \A x \in Types : ByProcess(st2, at2, x) + ByReverse(rev2, x)
                         = ByProcess(st, at, x) + ByReverse(rev, x)
  BY DEF ToldRight, ByProcess, ByReverse, BookingOf, FinalOf, Bookings, StateAfter
<1>. QED  BY <1>1 DEF ToldRight, BookingOf, FinalOf, Bookings, StateAfter

\* What payment o's goroutine or its reversal does is seen in o's stream only.
LEMMA StreamStepOf ==
  ASSUME TypeOK, TypeOK', StreamInv, NEW o \in DOMAIN heap, Advance(o) \/ Reverse(o)
  PROVE  StreamInv'
<1>1. /\ DOMAIN heap' = DOMAIN heap
      /\ \A x \in DOMAIN heap \ {o} : heap'[x] = heap[x] /\ work'[x] = work[x] /\ sent'[x] = sent[x]
  BY Entries DEF Advance, NotifyBooked, ProcessMove, ForcedRejection, Settle, NotifySettled,
     Register, ProcessIncoming, NotifyReversal, Reverse, Record, Goto
<1>2. PICK p, w, s : p = heap[o] /\ w = work[o] /\ s = sent[o]
  OBVIOUS
<1>3. p \in Payment /\ w \in Work /\ s \in Seq(Types) /\ o \in DOMAIN work /\ o \in DOMAIN sent
  BY <1>2, Entries
<1>4. ToldRight(p.state, w.at, w.told, w.reversal, s)
  BY <1>2 DEF StreamInv
<1>5. p.state \in Types /\ w.told \in Types
  BY <1>3 DEF Payment, Work
<1>6. ToldRight(heap'[o].state, work'[o].at, work'[o].told, work'[o].reversal, sent'[o])
  <2>1. CASE NotifyBooked(o)
    <3>1. PICK d \in {"asleep", "done"} : work'[o] = [w EXCEPT !.at = d]
      BY <1>2, <1>3, <2>1 DEF NotifyBooked, Goto
    <3>2. heap'[o] = p /\ w.at = "booked" /\ sent'[o] = Longer(s, w.told)
      BY <1>2, <1>3, <2>1 DEF NotifyBooked, Longer
    <3>3. work'[o].at = d /\ work'[o].told = w.told /\ work'[o].reversal = w.reversal
      BY <1>3, <3>1 DEF Work
    <3>4. Tells(w.at, w.told, w.reversal, d, w.reversal, w.told)
      BY <3>2 DEF Tells
    <3>. QED  BY <1>3, <1>4, <1>5, <3>2, <3>3, <3>4, StreamTold
  <2>2. CASE ProcessMove(o) \/ ForcedRejection(o)
    <3>1. PICK d \in {"moved", "short", "refused"} : work'[o] = [w EXCEPT !.at = d]
      <4>1. MoveError(p.from, p.to, p.amount) \in {"none", "short", "refused"}
        BY DEF MoveError
      <4>. QED  BY <1>2, <1>3, <2>2, <4>1 DEF ProcessMove, ForcedRejection, Goto
    <3>2. heap'[o] = p /\ w.at = "asleep" /\ sent'[o] = s /\ Outgoing(o)
      BY <1>2, <2>2 DEF ProcessMove, ForcedRejection
    <3>3. work'[o].at = d /\ work'[o].told = w.told /\ work'[o].reversal = w.reversal
      BY <1>3, <3>1 DEF Work
    <3>4. p.state = "OutgoingPaymentBooked"
      BY <1>2, <1>4, <3>2 DEF ToldRight, Bookings, Outgoing
    <3>. QED  BY <1>4, <1>5, <3>2, <3>3, <3>4, StreamMoved
  <2>3. CASE Settle(o)
    <3>1. PICK st : st = StateAfter(w.at)
      OBVIOUS
    <3>2. /\ w.at \in {"moved", "short", "refused"} /\ sent'[o] = s
          /\ work'[o] = [w EXCEPT !.at = "announce", !.told = st]
      BY <1>2, <1>3, <2>3, <3>1 DEF Settle, Goto
    <3>3. heap'[o].state = st
      BY <1>2, <1>3, <2>3, <3>1 DEF Settle, Record, Payment
    <3>4. work'[o].at = "announce" /\ work'[o].told = st /\ work'[o].reversal = w.reversal
      BY <1>3, <3>2 DEF Work
    <3>5. st \in Types
      BY <3>1, <3>2 DEF StateAfter, Types
    <3>. QED  BY <1>4, <1>5, <3>1, <3>2, <3>3, <3>4, <3>5, StreamMoved
  <2>4. CASE NotifySettled(o)
    <3>1. /\ work'[o] = [w EXCEPT !.at = "done"] /\ w.at = "announce"
          /\ heap'[o] = p /\ sent'[o] = Longer(s, w.told)
      BY <1>2, <1>3, <2>4 DEF NotifySettled, Goto, Longer
    <3>2. work'[o].at = "done" /\ work'[o].told = w.told /\ work'[o].reversal = w.reversal
      BY <1>3, <3>1 DEF Work
    <3>3. Tells(w.at, w.told, w.reversal, "done", w.reversal, w.told)
      BY <3>1 DEF Tells
    <3>. QED  BY <1>3, <1>4, <1>5, <3>1, <3>2, <3>3, StreamTold
  <2>5. CASE Register(o)
    <3>1. work'[o] = [w EXCEPT !.at = "booked"] /\ w.at = "credited" /\ sent'[o] = s
      BY <1>2, <1>3, <2>5 DEF Register, Goto
    <3>2. heap'[o].state = p.state
      BY <1>2, <1>3, <2>5 DEF Register, Record, Payment
    <3>3. work'[o].at = "booked" /\ work'[o].told = w.told /\ work'[o].reversal = w.reversal
      BY <1>3, <3>1 DEF Work
    <3>. QED  BY <1>4, <1>5, <3>1, <3>2, <3>3, StreamMoved
  <2>6. CASE ProcessIncoming(o)
    <3>1. /\ work'[o] = [w EXCEPT !.at = "announce", !.told = "IncomingPaymentProcessed"]
          /\ w.at = "asleep" /\ ~Outgoing(o) /\ sent'[o] = s
      BY <1>2, <1>3, <2>6 DEF ProcessIncoming, Goto
    <3>2. heap'[o].state = "IncomingPaymentProcessed"
      BY <1>2, <1>3, <2>6 DEF ProcessIncoming, Record, Payment
    <3>3. /\ work'[o].at = "announce" /\ work'[o].told = "IncomingPaymentProcessed"
          /\ work'[o].reversal = w.reversal
      BY <1>3, <3>1 DEF Work
    <3>4. p.state = "IncomingPaymentBooked" /\ "IncomingPaymentProcessed" \in Types
      BY <1>2, <1>4, <3>1 DEF ToldRight, Bookings, Outgoing, Types
    <3>. QED  BY <1>4, <1>5, <3>1, <3>2, <3>3, <3>4, StreamMoved
  <2>7. CASE NotifyReversal(o)
    <3>1. \/ /\ work'[o] = [w EXCEPT !.reversal = "reversed"] /\ w.reversal = "booking"
             /\ sent'[o] = Longer(s, "OutgoingPaymentBooked")
          \/ /\ work'[o] = [w EXCEPT !.reversal = "done"] /\ w.reversal = "reversed"
             /\ sent'[o] = Longer(s, "Reversed")
      BY <1>2, <1>3, <2>7 DEF NotifyReversal, Goto, Longer
    <3>2. PICK r, y :
            /\ work'[o] = [w EXCEPT !.reversal = r] /\ sent'[o] = Longer(s, y)
            /\ \/ w.reversal = "booking" /\ r = "reversed" /\ y = "OutgoingPaymentBooked"
               \/ w.reversal = "reversed" /\ r = "done" /\ y = "Reversed"
      BY <3>1
    <3>3. heap'[o] = p /\ y \in Types
      BY <1>2, <2>7, <3>2 DEF NotifyReversal, Types
    <3>4. work'[o].at = w.at /\ work'[o].told = w.told /\ work'[o].reversal = r
      BY <1>3, <3>2 DEF Work
    <3>5. Tells(w.at, w.told, w.reversal, w.at, r, y)
      BY <3>2 DEF Tells
    <3>. QED  BY <1>3, <1>4, <1>5, <3>2, <3>3, <3>4, <3>5, StreamTold
  <2>8. CASE Reverse(o)
    <3>1. work'[o] = [w EXCEPT !.reversal = "booking"] /\ sent'[o] = s
          /\ p.state = "OutgoingPaymentProcessed"
      BY <1>2, <1>3, <2>8 DEF Reverse, Goto, CanComeBack
    <3>2. heap'[o].state = "Reversed"
      BY <1>2, <1>3, <2>8 DEF Reverse, Record, Payment
    <3>3. work'[o].at = w.at /\ work'[o].told = w.told /\ work'[o].reversal = "booking"
      BY <1>3, <3>1 DEF Work
    <3>4. "Reversed" \in Types
      BY DEF Types
    <3>. QED  BY <1>4, <1>5, <3>1, <3>2, <3>3, <3>4, StreamMoved
  <2>. QED  BY <2>1, <2>2, <2>3, <2>4, <2>5, <2>6, <2>7, <2>8 DEF Advance
<1>. QED  BY <1>1, <1>6 DEF StreamInv

\* A payment begins with nothing told.
LEMMA StreamEnter ==
  ASSUME TypeOK, StreamInv, NEW at \in {"booked", "credited"}, NEW st \in Bookings,
         NEW k, k = Len(heap) + 1, DOMAIN heap' = 1..k,
         heap'[k].state = st, work'[k].at = at, work'[k].told = st, work'[k].reversal = "none",
         sent'[k] = <<>>,
         \A x \in DOMAIN heap : /\ heap'[x].state = heap[x].state /\ work'[x] = work[x]
                                /\ sent'[x] = sent[x]
  PROVE  StreamInv'
<1>1. \A x \in Types : ByProcess(st, at, x) + ByReverse("none", x) = 0
  BY DEF ByProcess, ByReverse, Bookings
<1>2. ToldRight(heap'[k].state, work'[k].at, work'[k].told, work'[k].reversal, sent'[k])
  BY <1>1, TimesOfNone DEF ToldRight, Bookings
<1>3. Len(heap) \in Nat /\ DOMAIN heap = 1..Len(heap)
  BY LenProperties DEF TypeOK
<1>4. \A x \in DOMAIN heap' : x = k \/ x \in DOMAIN heap
  BY <1>3
<1>. QED  BY <1>2, <1>4 DEF StreamInv

\* The three ways a payment begins.
LEMMA StreamBegins ==
  ASSUME TypeOK, StreamInv, NEW k, k = Len(heap) + 1, NEW h \in Seq(Payment), Len(h) = Len(heap),
         \A x \in DOMAIN heap : h[x].state = heap[x].state,
         NEW p \in Payment, NEW at \in {"booked", "credited"}, NEW st \in Bookings, NEW out,
         p.state = st, Starting(at, out, st) \in Work,
         heap' = Append(h, p), work' = Append(work, Starting(at, out, st)),
         sent' = Append(sent, <<>>)
  PROVE  StreamInv'
<1>1. Len(heap) \in Nat /\ DOMAIN heap = 1..Len(heap) /\ work \in Seq(Work)
      /\ Len(work) = Len(heap) /\ sent \in Seq(Seq(Types)) /\ Len(sent) = Len(heap)
  BY LenProperties DEF TypeOK
<1>2. DOMAIN heap' = 1..k /\ heap'[k] = p /\ \A x \in 1..Len(heap) : heap'[x] = h[x]
  BY <1>1, SeqStep
<1>3. PICK w : w = Starting(at, out, st)
  OBVIOUS
<1>4. work'[k] = w /\ \A x \in 1..Len(heap) : work'[x] = work[x]
  BY <1>1, <1>3, SeqStep
<1>5. <<>> \in Seq(Types)
  OBVIOUS
<1>6. sent'[k] = <<>> /\ \A x \in 1..Len(heap) : sent'[x] = sent[x]
  BY <1>1, <1>5, SeqStep
<1>7. w.at = at /\ w.told = st /\ w.reversal = "none"
  BY <1>3 DEF Starting
<1>. QED  BY <1>1, <1>2, <1>4, <1>6, <1>7, StreamEnter

\* Every booking and every state a payment went through was notified, once, in
\* whatever order the goroutine's and a reversal's notifications came.
THEOREM StreamIsRight == Spec => []StreamTellsRecord
<1>1. Init => StreamInv
  BY DEF Init, StreamInv
<1>2. ASSUME TypeOK, TypeOK', StreamInv, [Next]_vars PROVE StreamInv'
  <2>0. heap \in Seq(Payment)
    BY <1>2 DEF TypeOK
  <2>1. ASSUME NEW id \in Ids, NEW s \in Sga, NEW d \in Accounts, NEW n \in Amounts,
               Create(id, s, d, n)
        PROVE  StreamInv'
    <3>1. PICK out : out = IF forced = <<>> THEN "none" ELSE Head(forced)
      OBVIOUS
    <3>2. out \in Outcomes \cup {"none"}
      BY <1>2, <3>1 DEF TypeOK
    <3>3. PICK p : p = NewPayment(id, s, d, n, "OutgoingPaymentBooked", 0)
      OBVIOUS
    <3>4. p \in Payment /\ p.state = "OutgoingPaymentBooked"
      <4>1. s \in Accounts \cup {External} /\ 0 \in 0..MaxPayments /\ "OutgoingPaymentBooked" \in Types
            /\ id \in Ids \cup {OwnId}
        BY EngineAssumption DEF Types, Accounts
      <4>. QED  BY <1>2, <3>3, <4>1, NewPaymentTyped DEF NewPayment
    <3>5. /\ heap' = Append(heap, p) /\ sent' = Append(sent, <<>>)
          /\ work' = Append(work, Starting("booked", out, "OutgoingPaymentBooked"))
      BY <2>1, <3>1, <3>3 DEF Create, Enter
    <3>6. Starting("booked", out, "OutgoingPaymentBooked") \in Work
      BY <3>2, StartingTyped DEF Types
    <3>. QED  BY <1>2, <2>0, <3>4, <3>5, <3>6, StreamBegins DEF Bookings
  <2>2. ASSUME NEW s \in Sga, NEW n \in Amounts, CreditIncoming(s, n) PROVE StreamInv'
    <3>1. PICK p : p = NewPayment(OwnId, External, s, n, "IncomingPaymentBooked", 0)
      OBVIOUS
    <3>2. p \in Payment /\ p.state = "IncomingPaymentBooked"
      <4>1. External \in Accounts \cup {External} /\ 0 \in 0..MaxPayments
            /\ "IncomingPaymentBooked" \in Types /\ OwnId \in Ids \cup {OwnId} /\ s \in Accounts
        BY EngineAssumption DEF Types, Accounts
      <4>. QED  BY <1>2, <3>1, <4>1, NewPaymentTyped DEF NewPayment
    <3>3. /\ heap' = Append(heap, p) /\ sent' = Append(sent, <<>>)
          /\ work' = Append(work, Starting("credited", "none", "IncomingPaymentBooked"))
      BY <2>2, <3>1 DEF CreditIncoming, Enter
    <3>4. Starting("credited", "none", "IncomingPaymentBooked") \in Work
      BY StartingTyped DEF Types
    <3>. QED  BY <1>2, <2>0, <3>2, <3>3, <3>4, StreamBegins DEF Bookings
  <2>3. ASSUME NEW o \in DOMAIN heap, Reverse(o) \/ Advance(o) PROVE StreamInv'
    BY <1>2, <2>3, StreamStepOf
  <2>4. ASSUME NEW o \in DOMAIN heap, Return(o) PROVE StreamInv'
    <3>1. PICK p, q, h :
            /\ p = NewPayment(OwnId, heap[o].to, heap[o].from, heap[o].amount,
                              "IncomingPaymentBooked", o)
            /\ q = [heap[o] EXCEPT !.returnedBy = Len(heap) + 1] /\ h = [heap EXCEPT ![o] = q]
      OBVIOUS
    <3>2. /\ heap' = Append(h, p) /\ sent' = Append(sent, <<>>)
          /\ work' = Append(work, Starting("booked", "none", "IncomingPaymentBooked"))
      BY <2>4, <3>1 DEF Return
    <3>3. Room /\ heap[o] \in Payment /\ o \in 1..Len(heap) /\ Len(heap) \in Nat
          /\ o \in 0..MaxPayments /\ Move(heap[o].to, heap[o].from, heap[o].amount)
      BY <1>2, <2>4, Entries, EngineAssumption DEF Return, Objects
    <3>4. heap[o].from \in Accounts /\ heap[o].to \in Accounts /\ heap[o].amount \in Amounts
      BY <1>2, <3>3, MoveTyped DEF Payment
    <3>5. p \in Payment /\ p.state = "IncomingPaymentBooked"
      <4>1. /\ heap[o].to \in Accounts \cup {External} /\ "IncomingPaymentBooked" \in Types
            /\ OwnId \in Ids \cup {OwnId}
        BY <3>4 DEF Types
      <4>. QED  BY <1>2, <3>1, <3>3, <3>4, <4>1, NewPaymentTyped DEF NewPayment
    <3>6. q \in Payment /\ q.state = heap[o].state
      <4>1. Len(heap) + 1 \in 0..MaxPayments
        BY <3>3, EngineAssumption DEF Room
      <4>. QED  BY <3>1, <3>3, <4>1 DEF Payment
    <3>7. h \in Seq(Payment) /\ Len(h) = Len(heap)
      BY <2>0, <3>1, <3>3, <3>6, SeqStep
    <3>8. \A x \in DOMAIN heap : h[x].state = heap[x].state
      BY <3>1, <3>6
    <3>9. Starting("booked", "none", "IncomingPaymentBooked") \in Work
      BY StartingTyped DEF Types
    <3>. QED  BY <1>2, <3>2, <3>5, <3>7, <3>8, <3>9, StreamBegins DEF Bookings
  <2>5. ASSUME UNCHANGED <<heap, work, sent>> PROVE StreamInv'
    BY <1>2, <2>5 DEF StreamInv
  <2>6. ASSUME NEW n, NEW outcomes \in [1..n -> Outcomes], ForceNext(outcomes) PROVE StreamInv'
    BY <2>5, <2>6 DEF ForceNext
  <2>7. CASE Tick
    BY <2>5, <2>7 DEF Tick
  <2>8. CASE UNCHANGED vars
    BY <2>5, <2>8 DEF vars
  <2>. QED
    BY <1>2, <2>1, <2>2, <2>3, <2>4, <2>6, <2>7, <2>8 DEF Next, Environment
<1>3. TypeOK /\ StreamInv => StreamTellsRecord
  <2> SUFFICES ASSUME TypeOK, StreamInv, NEW o \in DOMAIN heap,
                      work[o].at = "done", work[o].reversal \in {"none", "done"}
               PROVE  Told(heap[o].state) = {[t |-> x, n |-> Times(sent[o], x)] : x \in Range(sent[o])}
    BY DEF StreamTellsRecord
  <2>1. heap[o].state \in Types /\ sent[o] \in Seq(Types)
    BY Entries DEF Payment
  <2>. QED  BY <2>1, StreamAtRest DEF StreamInv
<1>. QED  BY <1>1, <1>2, <1>3, BankTypeCorrect, PTL DEF Spec
-----------------------------------------------------------------------------
(***************************************************************************)
(* Lines on the reconciliation report stay                                 *)
(***************************************************************************)

\* A payment that was processed says when; until it is reversed that is also when
\* it last changed.
LineRight(p) ==
  /\ p.processed # 0 <=>
       p.state \in {"OutgoingPaymentProcessed", "IncomingPaymentProcessed", "Reversed"}
  /\ p.state \in {"OutgoingPaymentProcessed", "IncomingPaymentProcessed"} =>
       p.updated = p.processed

LinesInv == \A o \in DOMAIN heap : LineRight(heap[o])

\* A record that keeps what its lines are made of.
SameLines(p, q) ==
  /\ q.state = p.state /\ q.processed = p.processed
  /\ p.processed # 0 => q.updated = p.updated /\ q.reversed = p.reversed

\* The report's lines of a record, as it is read from heap.
LinesOf(o, p) ==
  IF p.state = "Reversed"
  THEN {BookingRow(o, p.processed),
        [pay |-> o, reversal |-> TRUE, on |-> BusinessDay[p.reversed]]}
  ELSE {BookingRow(o, p.updated)}

\* BookingRows reads the record as it is in heap, before a step and after it.
LEMMA RowsAre ==
  ASSUME NEW o
  PROVE  BookingRows(o) = LinesOf(o, heap[o]) /\ BookingRows(o)' = LinesOf(o, heap'[o])
BY DEF BookingRows, LinesOf, ReversalRow, BookingRow

\* A change of o that keeps the lines it has.
LineKept(o, p, q) == LineRight(q) /\ (p.processed # 0 => LinesOf(o, p) \subseteq LinesOf(o, q))

\* A record that keeps what its lines are made of keeps its lines.
LEMMA SameKept ==
  ASSUME NEW o, NEW p, NEW q, LineRight(p), SameLines(p, q)
  PROVE  LineKept(o, p, q)
<1>1. LineRight(q)
  BY DEF LineRight, SameLines
<1>2. p.processed # 0 => LinesOf(o, p) = LinesOf(o, q)
  <2>1. CASE p.processed # 0 /\ p.state = "Reversed"
    BY <2>1, Zenon DEF SameLines, LinesOf
  <2>2. CASE p.processed # 0 /\ p.state # "Reversed"
    BY <2>2, Zenon DEF SameLines, LinesOf
  <2> QED BY <2>1, <2>2
<1> QED BY <1>1, <1>2 DEF LineKept

\* So does every step of a goroutine, and a reversal.
LEMMA LinesStepOf ==
  ASSUME TypeOK, Progress, LinesInv, NEW o \in DOMAIN heap, Advance(o) \/ Reverse(o)
  PROVE  /\ DOMAIN heap' = DOMAIN heap
         /\ \A x \in DOMAIN heap : LineKept(x, heap[x], heap'[x])
<1>1. /\ DOMAIN heap' = DOMAIN heap
      /\ \A x \in DOMAIN heap \ {o} : heap'[x] = heap[x]
  BY DEF Advance, NotifyBooked, ProcessMove, ForcedRejection, Settle, NotifySettled,
     Register, ProcessIncoming, NotifyReversal, Reverse, Record
<1>2. PICK p : p = heap[o]
  OBVIOUS
<1>3. p \in Payment /\ LineRight(p)
  BY <1>2, Entries DEF LinesInv
<1>4. \A x \in DOMAIN heap : LineRight(heap[x]) /\ SameLines(heap[x], heap[x])
  BY DEF LinesInv, SameLines
<1>5. LineKept(o, p, heap'[o])
  <2>1. CASE heap' = heap
    BY <1>2, <1>3, <1>4, <2>1, SameKept
  <2>0. clock # 0
    BY EngineAssumption DEF TypeOK, Instants
  <2>2. CASE Settle(o)
    <3>1. heap'[o] = [p EXCEPT !.state = StateAfter(work[o].at), !.updated = clock,
                        !.processed = IF work[o].at = "moved" THEN clock ELSE @]
      BY <1>2, <2>2 DEF Settle, Record
    <3>2. work[o].at \in {"moved", "short", "refused"} /\ p.state = "OutgoingPaymentBooked"
      BY <1>2, <2>2 DEF Settle, Progress
    <3>3. p.processed = 0
      BY <1>3, <3>2 DEF LineRight
    <3>4. /\ heap'[o].state = StateAfter(work[o].at) /\ heap'[o].updated = clock
          /\ heap'[o].processed = IF work[o].at = "moved" THEN clock ELSE 0
      BY <1>3, <3>1, <3>3 DEF Payment
    <3>. QED  BY <2>0, <3>2, <3>3, <3>4 DEF LineKept, LineRight, StateAfter
  <2>3. CASE Register(o)
    <3>1. heap'[o] = [p EXCEPT !.created = clock, !.updated = clock]
          /\ work[o].at = "credited" /\ p.state = "IncomingPaymentBooked"
      BY <1>2, <2>3 DEF Register, Record, Progress
    <3>2. p.processed = 0
      BY <1>3, <3>1 DEF LineRight
    <3>3. SameLines(p, heap'[o])
      BY <1>3, <3>1, <3>2 DEF SameLines, Payment
    <3>. QED  BY <1>3, <3>3, SameKept
  <2>4. CASE ProcessIncoming(o)
    <3>1. heap'[o] = [p EXCEPT !.state = "IncomingPaymentProcessed", !.updated = clock,
                               !.processed = clock]
          /\ work[o].at = "asleep" /\ p.state \in {"OutgoingPaymentBooked", "IncomingPaymentBooked"}
      BY <1>2, <2>4 DEF ProcessIncoming, Record, Progress
    <3>2. p.processed = 0
      BY <1>3, <3>1 DEF LineRight
    <3>3. /\ heap'[o].state = "IncomingPaymentProcessed" /\ heap'[o].updated = clock
          /\ heap'[o].processed = clock
      BY <1>3, <3>1 DEF Payment
    <3>. QED  BY <2>0, <3>2, <3>3 DEF LineKept, LineRight
  <2>5. CASE Reverse(o)
    <3>1. heap'[o] = [p EXCEPT !.state = "Reversed", !.reversed = clock, !.updated = clock]
          /\ p.state = "OutgoingPaymentProcessed"
      BY <1>2, <2>5 DEF Reverse, Record, CanComeBack
    <3>2. /\ heap'[o].state = "Reversed" /\ heap'[o].processed = p.processed
          /\ p.updated = p.processed
      BY <1>3, <3>1 DEF Payment, LineRight
    <3>3. LineRight(heap'[o])
      BY <1>3, <3>1, <3>2 DEF LineRight
    <3>4. LinesOf(o, p) = {BookingRow(o, p.processed)}
      BY <3>1, <3>2, Zenon DEF LinesOf
    <3>5. LinesOf(o, heap'[o]) = {BookingRow(o, p.processed),
             [pay |-> o, reversal |-> TRUE, on |-> BusinessDay[heap'[o].reversed]]}
      BY <3>2, Zenon DEF LinesOf
    <3>. QED  BY <3>3, <3>4, <3>5 DEF LineKept
  <2>. QED
    BY <2>1, <2>2, <2>3, <2>4, <2>5
       DEF Advance, NotifyBooked, ProcessMove, ForcedRejection, NotifySettled, NotifyReversal
<1>. QED  BY <1>1, <1>2, <1>4, <1>5, SameKept

\* A payment more, the others with their lines.
LEMMA LinesEnter ==
  ASSUME TypeOK, LinesInv, NEW k, k = Len(heap) + 1, NEW h \in Seq(Payment), Len(h) = Len(heap),
         \A x \in DOMAIN heap : SameLines(heap[x], h[x]),
         NEW p \in Payment, p.processed = 0,
         p.state \in {"OutgoingPaymentBooked", "IncomingPaymentBooked"}, heap' = Append(h, p)
  PROVE  /\ DOMAIN heap \subseteq DOMAIN heap' /\ LinesInv'
         /\ \A x \in DOMAIN heap : LineKept(x, heap[x], heap'[x])
<1>1. Len(heap) \in Nat /\ DOMAIN heap = 1..Len(heap)
  BY LenProperties DEF TypeOK
<1>2. DOMAIN heap' = 1..k /\ heap'[k] = p /\ \A x \in 1..Len(heap) : heap'[x] = h[x]
  BY <1>1, SeqStep
<1>3. \A x \in DOMAIN heap : LineKept(x, heap[x], heap'[x])
  BY <1>1, <1>2, SameKept DEF LinesInv
<1>4. LineRight(p)
  BY DEF LineRight
<1>5. LinesInv'
  BY <1>1, <1>2, <1>3, <1>4 DEF LinesInv, LineKept
<1>. QED  BY <1>1, <1>2, <1>3, <1>5

\* Every step keeps the lines there are.
LEMMA LinesNext ==
  ASSUME TypeOK, Progress, LinesInv, [Next]_vars
  PROVE  /\ DOMAIN heap \subseteq DOMAIN heap' /\ LinesInv'
         /\ \A x \in DOMAIN heap : LineKept(x, heap[x], heap'[x])
<1> DEFINE Kept == /\ DOMAIN heap \subseteq DOMAIN heap' /\ LinesInv'
                   /\ \A x \in DOMAIN heap : LineKept(x, heap[x], heap'[x])
<1>0. heap \in Seq(Payment) /\ \A x \in DOMAIN heap : SameLines(heap[x], heap[x])
  BY DEF TypeOK, SameLines
<1>1. ASSUME NEW id \in Ids, NEW s \in Sga, NEW d \in Accounts, NEW n \in Amounts,
             Create(id, s, d, n)
      PROVE  Kept
  <2>1. PICK p : p = NewPayment(id, s, d, n, "OutgoingPaymentBooked", 0)
    OBVIOUS
  <2>2. p \in Payment /\ p.state = "OutgoingPaymentBooked" /\ p.processed = 0
    <3>1. s \in Accounts \cup {External} /\ 0 \in 0..MaxPayments /\ "OutgoingPaymentBooked" \in Types
          /\ id \in Ids \cup {OwnId}
      BY EngineAssumption DEF Types, Accounts
    <3>. QED  BY <2>1, <3>1, NewPaymentTyped DEF NewPayment
  <2>3. heap' = Append(heap, p)
    BY <1>1, <2>1 DEF Create, Enter
  <2>. QED  BY <1>0, <2>2, <2>3, LinesEnter
<1>2. ASSUME NEW s \in Sga, NEW n \in Amounts, CreditIncoming(s, n) PROVE Kept
  <2>1. PICK p : p = NewPayment(OwnId, External, s, n, "IncomingPaymentBooked", 0)
    OBVIOUS
  <2>2. p \in Payment /\ p.state = "IncomingPaymentBooked" /\ p.processed = 0
    <3>1. External \in Accounts \cup {External} /\ 0 \in 0..MaxPayments
          /\ "IncomingPaymentBooked" \in Types /\ OwnId \in Ids \cup {OwnId} /\ s \in Accounts
      BY EngineAssumption DEF Types, Accounts
    <3>. QED  BY <2>1, <3>1, NewPaymentTyped DEF NewPayment
  <2>3. heap' = Append(heap, p)
    BY <1>2, <2>1 DEF CreditIncoming, Enter
  <2>. QED  BY <1>0, <2>2, <2>3, LinesEnter
<1>3. ASSUME NEW o \in DOMAIN heap, Reverse(o) \/ Advance(o) PROVE Kept
  BY <1>3, LinesStepOf DEF LinesInv, LineKept
<1>4. ASSUME NEW o \in DOMAIN heap, Return(o) PROVE Kept
  <2>1. PICK p, q, h :
          /\ p = NewPayment(OwnId, heap[o].to, heap[o].from, heap[o].amount,
                            "IncomingPaymentBooked", o)
          /\ q = [heap[o] EXCEPT !.returnedBy = Len(heap) + 1] /\ h = [heap EXCEPT ![o] = q]
    OBVIOUS
  <2>2. heap' = Append(h, p)
    BY <1>4, <2>1 DEF Return
  <2>3. Room /\ heap[o] \in Payment /\ o \in 1..Len(heap) /\ Len(heap) \in Nat
        /\ o \in 0..MaxPayments /\ Move(heap[o].to, heap[o].from, heap[o].amount)
    BY <1>4, Entries, EngineAssumption DEF Return, Objects
  <2>4. heap[o].from \in Accounts /\ heap[o].to \in Accounts /\ heap[o].amount \in Amounts
    BY <2>3, MoveTyped DEF Payment
  <2>5. p \in Payment /\ p.state = "IncomingPaymentBooked" /\ p.processed = 0
    <3>1. /\ heap[o].to \in Accounts \cup {External} /\ "IncomingPaymentBooked" \in Types
          /\ OwnId \in Ids \cup {OwnId}
      BY <2>4 DEF Types
    <3>. QED  BY <2>1, <2>3, <2>4, <3>1, NewPaymentTyped DEF NewPayment
  <2>6. q \in Payment /\ SameLines(heap[o], q)
    <3>1. Len(heap) + 1 \in 0..MaxPayments
      BY <2>3, EngineAssumption DEF Room
    <3>. QED  BY <2>1, <2>3, <3>1 DEF Payment, SameLines
  <2>7. h \in Seq(Payment) /\ Len(h) = Len(heap)
    BY <1>0, <2>1, <2>3, <2>6, SeqStep
  <2>8. \A x \in DOMAIN heap : SameLines(heap[x], h[x])
    BY <1>0, <2>1, <2>6
  <2>. QED  BY <2>2, <2>5, <2>7, <2>8, LinesEnter
<1>5. ASSUME UNCHANGED heap PROVE Kept
  BY <1>0, <1>5, SameKept DEF LinesInv
<1>6. ASSUME NEW n, NEW outcomes \in [1..n -> Outcomes], ForceNext(outcomes) PROVE Kept
  BY <1>5, <1>6 DEF ForceNext
<1>7. ASSUME Tick PROVE Kept
  BY <1>5, <1>7 DEF Tick
<1>8. ASSUME UNCHANGED vars PROVE Kept
  BY <1>5, <1>8 DEF vars
<1> HIDE DEF Kept
<1>9. Kept
  BY <1>1, <1>2, <1>3, <1>4, <1>6, <1>7, <1>8 DEF Next, Environment
<1>. QED  BY <1>9 DEF Kept

\* The line of a processed payment is on the report of one date for good: a
\* reversal adds a line, a return and a later payment change none.
THEOREM LinesStay == Spec => ProcessedLinesKept
<1>1. Init => LinesInv
  BY DEF Init, LinesInv
<1>2. TypeOK /\ BackInv /\ LinesInv /\ [Next]_vars => LinesInv'
  BY LinesNext DEF BackInv
<1>3. ASSUME TypeOK, BackInv, LinesInv, [Next]_vars
      PROVE  [\A o \in table \cap table' :
                heap[o].processed # 0 =>
                  \A row \in BookingRows(o) : row \in BookingRows(o)']_vars
  <2> SUFFICES ASSUME NEW o \in table, heap[o].processed # 0,
                      NEW row \in BookingRows(o)
               PROVE  row \in BookingRows(o)'
    OBVIOUS
  <2>1. o \in DOMAIN heap
    BY <1>3 DEF TypeOK
  <2>2. LineKept(o, heap[o], heap'[o])
    BY <1>3, <2>1, LinesNext DEF BackInv
  <2>. QED  BY <2>2, RowsAre DEF LineKept
<1>4. Init => BackInv
  BY BackInit
<1>5. TypeOK /\ BackInv /\ [Next]_vars => BackInv'
  BY BackNext
<1>. QED
  BY <1>1, <1>2, <1>3, <1>4, <1>5, BankTypeCorrect, PTL DEF Spec, ProcessedLinesKept
=============================================================================
