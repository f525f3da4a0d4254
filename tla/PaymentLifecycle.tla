--------------------------- MODULE PaymentLifecycle ---------------------------
(***************************************************************************)
(* What the settlement bank promises about money and payments, with no     *)
(* goroutines and no locks: a payment's money and its fate change in one   *)
(* step, an unfunded payment moves nothing, and a processed payout comes   *)
(* back at most once, by a reversal or by a return.                        *)
(***************************************************************************)
EXTENDS Naturals, Sequences

CONSTANTS
  Accounts,  \* accounts of the bank's ledger
  External,  \* the party incoming money comes from
  Amounts    \* amounts of payments

VARIABLES
  terms,    \* who pays whom how much, for each payment
  fate,     \* how far each payment is
  balance   \* what each account holds

vars == <<terms, fate, balance>>

Fates == {"instructed", "processed", "short", "rejected", "reversed",
          "returned", "incoming", "received"}

Init ==
  /\ terms = <<>>
  /\ fate = <<>>
  /\ balance = [a \in Accounts |-> 0]

Become(o, f) == fate' = [fate EXCEPT ![o] = f]

\* amount goes from one account to another that differs from it.
Transfer(from, dest, amount) ==
  /\ from # dest
  /\ balance[from] >= amount
  /\ balance' = [balance EXCEPT ![from] = @ - amount, ![dest] = @ + amount]

Enter(from, dest, amount) ==
  terms' = Append(terms, [from |-> from, to |-> dest, amount |-> amount])

Instruct ==
  /\ \E a, b \in Accounts, n \in Amounts : Enter(a, b, n)
  /\ fate' = Append(fate, "instructed")
  /\ UNCHANGED balance

Process(o) ==
  /\ fate[o] = "instructed"
  /\ Transfer(terms[o].from, terms[o].to, terms[o].amount)
  /\ Become(o, "processed")
  /\ UNCHANGED terms

RunShort(o) ==
  /\ fate[o] = "instructed"
  /\ balance[terms[o].from] < terms[o].amount
  /\ Become(o, "short")
  /\ UNCHANGED <<terms, balance>>

Reject(o) ==
  /\ fate[o] = "instructed"
  /\ Become(o, "rejected")
  /\ UNCHANGED <<terms, balance>>

\* Money lands from outside.
Land ==
  /\ \E a \in Accounts, n \in Amounts :
       Enter(External, a, n) /\ balance' = [balance EXCEPT ![a] = @ + n]
  /\ fate' = Append(fate, "incoming")

Receive(o) ==
  /\ fate[o] = "incoming"
  /\ Become(o, "received")
  /\ UNCHANGED <<terms, balance>>

Reverse(o) ==
  /\ fate[o] = "processed"
  /\ Transfer(terms[o].to, terms[o].from, terms[o].amount)
  /\ Become(o, "reversed")
  /\ UNCHANGED terms

\* The money of a return is an incoming payment of its own.
Return(o) ==
  /\ fate[o] = "processed"
  /\ Transfer(terms[o].to, terms[o].from, terms[o].amount)
  /\ Enter(terms[o].to, terms[o].from, terms[o].amount)
  /\ fate' = Append([fate EXCEPT ![o] = "returned"], "incoming")

Next ==
  \/ Instruct \/ Land
  \/ \E o \in DOMAIN fate :
       \/ Process(o) \/ RunShort(o) \/ Reject(o)
       \/ Receive(o) \/ Reverse(o) \/ Return(o)

Spec == Init /\ [][Next]_vars
=============================================================================
