---------------------------- MODULE SettlementFile ----------------------------
(***************************************************************************)
(* Worldline's settlement file (internal/worldline): what a transaction    *)
(* becomes in it, how it is rendered as rows of text and how a platform    *)
(* reads it back.  Operators only; Acquirer is where files are cut.        *)
(*                                                                         *)
(* A transaction is [mid, ccy, amount, date, type], its amount in minor    *)
(* units; merchants are numbers so that they can be sorted.  A cell of     *)
(* text is kept as its value, except an amount's, whose conversion is what *)
(* can lose a cent.                                                        *)
(***************************************************************************)
EXTENDS Integers, Sequences, SequencesExt

CONSTANT Wrap \* amounts are integers modulo 2 * Wrap; the code's Wrap is 2^63

ASSUME WrapAssumption == Wrap \in Nat \ {0}

IsTransaction(t) ==
  /\ DOMAIN t = {"mid", "ccy", "amount", "date", "type"}
  /\ t.mid \in Nat /\ t.date \in Int /\ t.amount \in -Wrap..(Wrap - 1)

\* What each section's rows say besides their type; chargebacks are never
\* cut here.
Cells ==
  [Settlement |-> {"amount", "ccy", "date", "items"},
   Batch      |-> {"amount", "ccy", "items"},
   TXER       |-> {"amount", "mid", "ref", "ccy", "date", "kind"}]

IsRow(row) ==
  \/ row = [type |-> "RECORD_TYPE"]
  \/ row.type \in DOMAIN Cells /\ DOMAIN row = Cells[row.type] \cup {"type"}

\* A 64-bit sum or product, with as many bits as Wrap has.
Signed(x) == ((x + Wrap) % (2 * Wrap)) - Wrap

\* The sum of a sequence of integers.
SumOf(values) ==
  LET sum[i \in 0..Len(values)] == IF i = 0 THEN 0 ELSE sum[i - 1] + values[i]
  IN  sum[Len(values)]

SumAmounts(rows) == Signed(SumOf([i \in 1..Len(rows) |-> rows[i].amount]))
-----------------------------------------------------------------------------
(***************************************************************************)
(* Cutting                                                                 *)
(***************************************************************************)

\* A sale settles, and a refund, as a negative row; no other entry does.
Settles(t) == t.amount > 0 \/ (t.amount < 0 /\ t.type = "Refund")

Covered(t, ccy, from, to) == from <= t.date /\ t.date <= to /\ Settles(t) /\ t.ccy = ccy

\* A TXER row.  Everything synthesised for it, the references included, is
\* worked out from the merchant, the date and the row's index.
Row(mid, t, idx) ==
  [mid |-> mid, ref |-> <<mid, t.date, idx>>, amount |-> t.amount, ccy |-> t.ccy,
   date |-> t.date, type |-> t.type]

\* GenerateBambora: one merchant's rows, numbered as they are found, and, when
\* there are any, their batch.
Batch(txns, mid, ccy, from, to) ==
  LET rows[n \in 0..Len(txns)] ==
        IF n = 0 THEN <<>>
        ELSE IF txns[n].mid = mid /\ Covered(txns[n], ccy, from, to)
        THEN Append(rows[n - 1], Row(mid, txns[n], Len(rows[n - 1])))
        ELSE rows[n - 1]
      picked == rows[Len(txns)]
  IN  [amount |-> SumAmounts(picked), ccy |-> ccy, items |-> Len(picked), rows |-> picked]

\* A set of numbers, in their order.
InOrder(S) ==
  CHOOSE s \in [1..Cardinality(S) -> S] : \A i, j \in 1..Cardinality(S) : i < j => s[i] < s[j]

\* The merchants with a row, sorted so that the same input renders the same.
Traded(txns, ccy, from, to) ==
  InOrder({txns[i].mid : i \in {j \in 1..Len(txns) : Covered(txns[j], ccy, from, to)}})

\* GenerateSettlementFile: a batch for each merchant that traded, and the
\* figures of the whole file in its settlement row.
File(txns, ccy, from, to) ==
  LET mids == Traded(txns, ccy, from, to)
      batches == [i \in 1..Len(mids) |-> Batch(txns, mids[i], ccy, from, to)]
  IN  [amount |-> SumAmounts(batches), ccy |-> ccy, date |-> to,
       items |-> SumOf([i \in 1..Len(batches) |-> batches[i].items]),
       batches |-> batches]
-----------------------------------------------------------------------------
(***************************************************************************)
(* Writing                                                                 *)
(***************************************************************************)

\* Slip: the sign is that of the whole part.
SignOfWhole(minor) ==
  LET n == IF minor < 0 THEN -minor ELSE minor
  IN  [negative |-> minor < 0 /\ n \div 100 > 0, whole |-> n \div 100,
       frac |-> <<(n % 100) \div 10, n % 10>>]

\* formatMajorUnits: a sign, a whole part and two decimals.
MajorUnits(minor) ==
  LET n == IF minor < 0 THEN -minor ELSE minor
  IN  [negative |-> minor < 0, whole |-> n \div 100, frac |-> <<(n % 100) \div 10, n % 10>>]

Header == [type |-> "RECORD_TYPE"]

MetaRow(f) ==
  [type |-> "Settlement", amount |-> MajorUnits(f.amount), ccy |-> f.ccy, date |-> f.date,
   items |-> f.items]

BatchRow(b) ==
  [type |-> "Batch", amount |-> MajorUnits(b.amount), ccy |-> b.ccy, items |-> b.items]

TxerRow(r) ==
  [type |-> "TXER", amount |-> MajorUnits(r.amount), mid |-> r.mid, ref |-> r.ref,
   ccy |-> r.ccy, date |-> r.date, kind |-> r.type]

BatchSection(b) ==
  <<Header, BatchRow(b), Header>> \o [i \in 1..Len(b.rows) |-> TxerRow(b.rows[i])]

\* WriteCSV: each section under a header of its own, and the chargebacks'
\* header although a file cut here has none.
Text(f) ==
  <<Header, MetaRow(f)>> \o
  FlattenSeq([i \in 1..Len(f.batches) |-> BatchSection(f.batches[i])]) \o
  <<Header>>
-----------------------------------------------------------------------------
(***************************************************************************)
(* Reading                                                                 *)
(***************************************************************************)

\* What reading an amount or a file comes to when it is refused.
Unreadable == [error |-> TRUE]

IsRead(x) == "error" \notin DOMAIN x

Read(value) == [value |-> value]

TrimZeros(frac) ==
  LET kept == {i \in 1..Len(frac) : frac[i] # 0}
  IN  SubSeq(frac, 1, IF kept = {} THEN 0 ELSE Max(kept))

\* One decimal is tenths: the code pads the digits to two.
Cents(frac) ==
  CASE frac = <<>> -> 0 [] Len(frac) = 1 -> 10 * frac[1] [] OTHER -> 10 * frac[1] + frac[2]

\* majorUnitAmounts: no more than two decimals that are not zeros; a whole
\* part that fits is multiplied by a hundred without another look.
MinorUnits(cell) ==
  LET frac == TrimZeros(cell.frac)
      minor == Signed(cell.whole * 100 + Cents(frac))
  IN  IF Len(frac) > 2 THEN Unreadable ELSE Read(Signed(IF cell.negative THEN -minor ELSE minor))

\* minorUnitAmounts: this lab's old files wrote minor units, with no point.
OldUnits(cell) ==
  IF cell.frac # <<>> THEN Unreadable
  ELSE Read(IF cell.negative THEN -cell.whole ELSE cell.whole)

\* recordTypeOf: the old names still count, a header or an unknown type does not.
RecordType(row) ==
  CASE row.type \in {"Settlement", "ST"} -> "Settlement"
    [] row.type \in {"Batch", "BT"}      -> "Batch"
    [] row.type \in {"TXER", "CB"}       -> row.type
    [] OTHER                             -> ""

\* The unit is decided once, by the file's settlement row.
Amount(text, cell) ==
  IF \E i \in 1..Len(text) : text[i].type = "ST" THEN OldUnits(cell) ELSE MinorUnits(cell)

\* ParseBamboraCSV refuses a file with an amount it cannot read, or with a
\* TXER row before any batch's.
Readable(text) ==
  \A i \in 1..Len(text) :
    /\ RecordType(text[i]) # "" => IsRead(Amount(text, text[i].amount))
    /\ RecordType(text[i]) = "TXER" => \E j \in 1..(i - 1) : RecordType(text[j]) = "Batch"

ValueOf(text, i) == Amount(text, text[i].amount).value

\* PayoutsByMID: what a readable file owes each merchant of its TXER rows.
IsRowOf(row, mid) == RecordType(row) = "TXER" /\ row.mid = mid

PayoutsByMid(text) ==
  [mid \in {text[i].mid : i \in {j \in 1..Len(text) : RecordType(text[j]) = "TXER"}} |->
     Signed(SumOf([i \in 1..Len(text) |-> IF IsRowOf(text[i], mid) THEN ValueOf(text, i) ELSE 0]))]

MetaAmount(text) ==
  LET i == CHOOSE j \in 1..Len(text) : RecordType(text[j]) = "Settlement" IN ValueOf(text, i)

\* FilenameSlot: found from the end of the name, as the identifier before it
\* may look like anything; a name here is [slot, ccy, at].
SlotOf(name) == IF name.slot \in {"ER", "AR"} THEN name.slot ELSE ""
=============================================================================
