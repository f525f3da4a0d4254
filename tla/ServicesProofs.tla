----------------------------- MODULE ServicesProofs -----------------------------
(***************************************************************************)
(* Theorems about the services around the banks: the payment path          *)
(* (PaymentPath) with its senders (Webhooks), the gate and the declines of *)
(* Verification, and the Console.                                          *)
(***************************************************************************)
EXTENDS PaymentPath, Verification, Console, NaturalsInduction, WellFoundedInduction, TLAPS
-----------------------------------------------------------------------------
(***************************************************************************)
(* Arithmetic: induction over a set of numbers, from the library's fact    *)
(* that they are well-founded under <; a word that wraps; sums.            *)
(***************************************************************************)

\* A set of numbers that holds 0 and each one after one it holds.
Less == {p \in Nat \X Nat : p[1] < p[2]}
LEMMA LessWF == IsWellFoundedOn(Less, Nat)
<1>1. OpToRel(<, Nat) = Less
  BY Zenon DEF OpToRel, Less
<1> QED BY <1>1, NatLessThanWellFounded

LEMMA Induct ==
  ASSUME NEW S, 0 \in S, \A n \in Nat : n \in S => n + 1 \in S
  PROVE  \A n \in Nat : n \in S
<1> SUFFICES ASSUME NEW n \in Nat, n \notin S PROVE FALSE
  OBVIOUS
<1> PICK T : T = Nat \ S
  OBVIOUS
<1>1. T \subseteq Nat /\ T # {}
  OBVIOUS
<1>2. \E x \in T : \A y \in T : ~(<<y, x>> \in Less)
  BY <1>1, LessWF, WFMin
<1>3. PICK m \in T : \A k \in T : m <= k
  <2>1. \A k, m \in Nat : k < m => <<k, m>> \in Less
    BY DEF Less
  <2>2. \A k, m \in Nat : ~(k < m) => m <= k
    OBVIOUS
  <2> QED BY <1>1, <1>2, <2>1, <2>2
<1>4. m # 0 /\ m - 1 \in Nat /\ m - 1 \notin T
  BY <1>3
<1>5. m - 1 \in S /\ (m - 1) + 1 = m
  BY <1>4
<1> QED BY <1>4, <1>5


LEMMA ProductGrows == ASSUME NEW w \in Nat \ {0}, NEW d \in Int, d >= 1 PROVE w * d >= w
<1> SUFFICES ASSUME NEW d0 \in Nat, d = d0 + 1 PROVE w * d >= w
  <2>1. d - 1 \in Nat /\ d = (d - 1) + 1
    OBVIOUS
  <2> QED BY <2>1
<1>1. w * (d0 + 1) = w * d0 + w /\ w * d0 >= 0
  OBVIOUS
<1> QED BY <1>1

LEMMA OneRest ==
  ASSUME NEW w \in Nat \ {0}, NEW a \in Int, NEW b \in Int, NEW r \in 0..(w - 1), NEW s \in 0..(w - 1),
         w * a + r = w * b + s
  PROVE  r = s
<1>1. w * (a - b) = s - r /\ w * (b - a) = r - s
  OBVIOUS
<1>2. CASE a = b
  BY <1>1, <1>2
<1>3. CASE a > b
  <2>1. w * (a - b) >= w
    <3>1. a - b \in Int /\ a - b >= 1
      BY <1>3
    <3> QED BY <3>1, ProductGrows
  <2> QED BY <1>1, <2>1
<1>4. CASE b > a
  <2>1. w * (b - a) >= w
    <3>1. b - a \in Int /\ b - a >= 1
      BY <1>4
    <3> QED BY <3>1, ProductGrows
  <2> QED BY <1>1, <2>1
<1> QED BY <1>2, <1>3, <1>4

LEMMA RestIs ==
  ASSUME NEW w \in Nat \ {0}, NEW z \in Int
  PROVE  z % w \in 0..(w - 1) /\ z \div w \in Int /\ z = w * (z \div w) + (z % w)
<1> QED OBVIOUS

LEMMA RestOfShift ==
  ASSUME NEW w \in Nat \ {0}, NEW z \in Int, NEW k \in Int
  PROVE  (z + w * k) % w = z % w
<1> PICK y \in Int : y = z + w * k
  OBVIOUS
<1>1. y % w \in 0..(w - 1) /\ y \div w \in Int /\ y = w * (y \div w) + (y % w)
  BY RestIs
<1>2. z % w \in 0..(w - 1) /\ z \div w \in Int /\ z = w * (z \div w) + (z % w)
  BY RestIs
<1> PICK q \in Int, p \in Int, r \in 0..(w - 1), s \in 0..(w - 1) :
     q = y \div w /\ p = z \div w /\ r = y % w /\ s = z % w
  BY <1>1, <1>2
<1>3. w * q + r = w * (p + k) + s
  <2>1. w * (p + k) = w * p + w * k
    OBVIOUS
  <2> QED BY <1>1, <1>2, <2>1
<1>4. p + k \in Int
  OBVIOUS
<1> QED BY <1>3, <1>4, OneRest

LEMMA Distributes ==
  ASSUME NEW w \in Int, NEW p \in Int, NEW q \in Int
  PROVE  w * (p + q) = w * p + w * q /\ w * p \in Int
<1> QED OBVIOUS

LEMMA Minus ==
  ASSUME NEW w \in Nat \ {0}, NEW x \in Int
  PROVE  /\ x % w \in Int
         /\ \E k \in Int : x % w = x + w * k
         /\ \E k \in Int : (x % w) - w = x + w * k
<1>0. x % w \in Int /\ x \div w \in Int
  BY RestIs
<1> PICK q \in Int, r \in Int : q = x \div w /\ r = x % w
  BY <1>0
<1> PICK p \in Int : p = -q
  OBVIOUS
<1>1. x = w * q + r
  BY RestIs
<1>2. w * (p + q) = w * p + w * q /\ w * p \in Int /\ w * q \in Int
  BY Distributes
<1>3. w * (p + q) = 0
  <2>1. p + q = 0
    OBVIOUS
  <2> QED BY <2>1
<1>4. w * (p + (-1)) = w * p + w * (-1) /\ w * (-1) = -w
  OBVIOUS
<1>5. r = x + w * p
  BY <1>1, <1>2, <1>3
<1>6. r - w = x + w * (p + (-1))
  BY <1>2, <1>4, <1>5
<1>7. p \in Int /\ p + (-1) \in Int
  OBVIOUS
<1> QED BY <1>5, <1>6, <1>7

LEMMA SignedIs ==
  ASSUME NEW x \in Int
  PROVE  Signed64(x) \in Int /\ \E k \in Int : Signed64(x) = x + Word * k
<1>1. Word \in Nat \ {0}
  BY PaymentPathAssumption
<1>2. /\ x % Word \in Int
      /\ \E k \in Int : x % Word = x + Word * k
      /\ \E k \in Int : (x % Word) - Word = x + Word * k
  BY <1>1, Minus
<1>3. Signed64(x) \in {x % Word, (x % Word) - Word}
  BY DEF Signed64
<1>4. CASE Signed64(x) = x % Word
  BY <1>2, <1>4, Zenon
<1>5. CASE Signed64(x) = (x % Word) - Word
  <2>1. (x % Word) - Word \in Int
    BY <1>1, <1>2
  <2> QED BY <1>2, <1>5, <2>1, Zenon
<1> QED BY <1>3, <1>4, <1>5, Zenon

\* The word wraps sums as it wraps what they are made of.
LEMMA SignedSum ==
  ASSUME NEW x \in Int, NEW y \in Int
  PROVE  Signed64(Signed64(x) + y) = Signed64(x + y)
<1> PICK k \in Int : Signed64(x) = x + Word * k
  BY SignedIs
<1>1. Word \in Nat \ {0}
  BY PaymentPathAssumption
<1>2. Signed64(x) + y = (x + y) + Word * k
  <2>1. Word * k \in Int
    BY <1>1
  <2> QED BY <2>1
<1>3. x + y \in Int
  OBVIOUS
<1>4. (Signed64(x) + y) % Word = (x + y) % Word
  BY <1>1, <1>2, <1>3, RestOfShift
<1> QED BY <1>4 DEF Signed64

LEMMA SignedSmall ==
  ASSUME NEW c \in (Word \div 2 - Word)..(Word \div 2 - 1)
  PROVE  Signed64(c) = c
<1>1. Word \in Nat \ {0}
  BY PaymentPathAssumption
<1>2. Word \div 2 \in Nat /\ Word \div 2 < Word
  BY <1>1
<1> PICK h \in Nat : h = Word \div 2 /\ h < Word
  BY <1>2
<1>3. c \in Int /\ h - Word <= c /\ c <= h - 1
  BY <1>1
<1>4. c % Word \in 0..(Word - 1) /\ c \div Word \in Int /\ c = Word * (c \div Word) + (c % Word)
  BY <1>1, <1>3, RestIs
<1>5. CASE c >= 0
  <2>1. Word * (c \div Word) + (c % Word) = Word * 0 + c
    BY <1>1, <1>3, <1>4
  <2>2. c \in 0..(Word - 1)
    BY <1>1, <1>3, <1>5
  <2>3. c % Word = c
    BY <1>1, <1>4, <2>1, <2>2, OneRest
  <2> QED BY <1>3, <2>3 DEF Signed64
<1>6. CASE c < 0
  <2>1. Word * (c \div Word) + (c % Word) = Word * (-1) + (c + Word)
    BY <1>1, <1>3, <1>4
  <2>2. c + Word \in 0..(Word - 1)
    BY <1>1, <1>3, <1>6
  <2>3. c % Word = c + Word
    BY <1>1, <1>4, <2>1, <2>2, OneRest
  <2> QED BY <1>1, <1>3, <2>3 DEF Signed64
<1> QED BY <1>3, <1>5, <1>6
-----------------------------------------------------------------------------
\* What entry i adds to account a.
Part(s, a, i) == IF s[i].account = a THEN s[i].cents ELSE 0

\* The sums of s up to each of the first n entries.
Sums(s, a, n) == CHOOSE sum : sum = [i \in 0..n |-> IF i = 0 THEN 0 ELSE sum[i - 1] + Part(s, a, i)]

LEMMA TotalIs == ASSUME NEW s, NEW a PROVE Total(s, a) = Sums(s, a, Len(s))[Len(s)]
<1> QED BY Zenon DEF Total, Sums, Part

\* f holds the sums of the first n entries.
AreSums(f, s, a, n) == f = [i \in 0..n |-> IF i = 0 THEN 0 ELSE f[i - 1] + Part(s, a, i)]

LEMMA SumsGoOn ==
  ASSUME NEW s, NEW a, NEW n \in Nat, NEW f, AreSums(f, s, a, n)
  PROVE  \E g : AreSums(g, s, a, n + 1)
<1> PICK g : g = [i \in 0..(n + 1) |-> IF i = n + 1 THEN f[n] + Part(s, a, n + 1) ELSE f[i]]
  OBVIOUS
<1>1. DOMAIN f = 0..n /\ \A i \in 0..n : f[i] = IF i = 0 THEN 0 ELSE f[i - 1] + Part(s, a, i)
  BY DEF AreSums
<1>2. \A i \in 0..(n + 1) : g[i] = IF i = 0 THEN 0 ELSE g[i - 1] + Part(s, a, i)
  <2> SUFFICES ASSUME NEW i \in 0..(n + 1) PROVE g[i] = IF i = 0 THEN 0 ELSE g[i - 1] + Part(s, a, i)
    OBVIOUS
  <2>1. CASE i = n + 1
    <3>1. g[i] = f[n] + Part(s, a, i) /\ g[i - 1] = f[n] /\ i # 0
      BY <2>1
    <3> QED BY <3>1
  <2>2. CASE i = 0
    BY <1>1, <2>2
  <2>3. CASE i \in 1..n
    <3>1. i - 1 \in 0..n /\ i \in 0..n /\ i - 1 # n + 1 /\ i # n + 1 /\ i # 0
      BY <2>3
    <3>2. g[i] = f[i] /\ g[i - 1] = f[i - 1]
      BY <3>1
    <3> QED BY <1>1, <3>1, <3>2
  <2> QED BY <2>1, <2>2, <2>3
<1>3. g = [i \in 0..(n + 1) |-> g[i]]
  OBVIOUS
<1> QED BY <1>2, <1>3, Zenon DEF AreSums

LEMMA SumsAre ==
  ASSUME NEW s, NEW a, NEW n \in Nat
  PROVE  AreSums(Sums(s, a, n), s, a, n)
<1> PICK S : S = {m \in Nat : \E f : AreSums(f, s, a, m)}
  OBVIOUS
<1>1. 0 \in S
  <2> PICK f : f = [i \in 0..0 |-> 0]
    OBVIOUS
  <2>1. AreSums(f, s, a, 0)
    BY DEF AreSums
  <2> QED BY <2>1
<1>2. \A m \in Nat : m \in S => m + 1 \in S
  BY SumsGoOn
<1>3. n \in S
  BY <1>1, <1>2, Induct
<1>4. \E f : AreSums(f, s, a, n)
  BY <1>3
<1> QED BY <1>4 DEF Sums, AreSums

\* The sums of two ledgers are the same as far as the ledgers are.
LEMMA SumsAgree ==
  ASSUME NEW s, NEW t, NEW a, NEW n \in Nat,
         \A i \in 1..n : Part(s, a, i) = Part(t, a, i)
  PROVE  Sums(s, a, n)[n] = Sums(t, a, n + 1)[n]
<1> PICK f, g : f = Sums(s, a, n) /\ g = Sums(t, a, n + 1)
  OBVIOUS
<1>1. \A i \in 0..n : f[i] = IF i = 0 THEN 0 ELSE f[i - 1] + Part(s, a, i)
  BY SumsAre DEF AreSums
<1>2. \A i \in 0..(n + 1) : g[i] = IF i = 0 THEN 0 ELSE g[i - 1] + Part(t, a, i)
  BY SumsAre DEF AreSums
<1> PICK S : S = {i \in Nat : i <= n => f[i] = g[i]}
  OBVIOUS
<1>3. 0 \in S
  BY <1>1, <1>2
<1>4. ASSUME NEW i \in Nat, i \in S PROVE i + 1 \in S
  <2> SUFFICES ASSUME i + 1 <= n PROVE f[i + 1] = g[i + 1]
    OBVIOUS
  <2>1. f[i] = g[i] /\ i + 1 \in 1..n /\ i + 1 \in 0..n /\ i + 1 \in 0..(n + 1) /\ i + 1 # 0 /\ (i + 1) - 1 = i
    BY <1>4
  <2> QED BY <1>1, <1>2, <2>1
<1>5. \A i \in Nat : i \in S
  BY <1>3, <1>4, Induct
<1> QED BY <1>5

\* An entry at the end of the ledger adds to its account, and to no other.
LEMMA TotalGrows ==
  ASSUME NEW s, NEW t, NEW a, Len(s) \in Nat, Len(t) = Len(s) + 1,
         \A i \in 1..Len(s) : t[i] = s[i]
  PROVE  Total(t, a) = Total(s, a) + Part(t, a, Len(t))
<1> PICK n \in Nat : n = Len(s)
  OBVIOUS
<1>1. Total(s, a) = Sums(s, a, n)[n] /\ Total(t, a) = Sums(t, a, n + 1)[n + 1]
  BY TotalIs
<1>2. Sums(t, a, n + 1)[n + 1] = Sums(t, a, n + 1)[n] + Part(t, a, n + 1)
  <2> PICK m \in Nat : m = n + 1
    OBVIOUS
  <2> PICK g : g = Sums(t, a, m)
    OBVIOUS
  <2>1. \A i \in 0..m : g[i] = IF i = 0 THEN 0 ELSE g[i - 1] + Part(t, a, i)
    BY SumsAre DEF AreSums
  <2>2. m \in 0..m /\ m # 0 /\ m - 1 = n
    OBVIOUS
  <2> QED BY <2>1, <2>2
<1>3. Sums(s, a, n)[n] = Sums(t, a, n + 1)[n]
  <2>1. \A i \in 1..n : Part(s, a, i) = Part(t, a, i)
    BY DEF Part
  <2> QED BY <2>1, SumsAgree
<1> QED BY <1>1, <1>2, <1>3

LEMMA TotalIsWhole ==
  ASSUME NEW s, NEW a, Len(s) \in Nat, \A i \in 1..Len(s) : s[i].cents \in Int
  PROVE  Total(s, a) \in Int
<1> PICK n \in Nat : n = Len(s)
  OBVIOUS
<1> PICK f : f = Sums(s, a, n)
  OBVIOUS
<1>1. \A i \in 0..n : f[i] = IF i = 0 THEN 0 ELSE f[i - 1] + Part(s, a, i)
  BY SumsAre DEF AreSums
<1> PICK S : S = {i \in Nat : i <= n => f[i] \in Int}
  OBVIOUS
<1>2. 0 \in S
  BY <1>1
<1>3. ASSUME NEW i \in Nat, i \in S PROVE i + 1 \in S
  <2> SUFFICES ASSUME i + 1 <= n PROVE f[i + 1] \in Int
    OBVIOUS
  <2>1. f[i] \in Int /\ i + 1 \in 1..n /\ i + 1 \in 0..n /\ i + 1 # 0 /\ (i + 1) - 1 = i
    BY <1>3
  <2>2. Part(s, a, i + 1) \in Int
    BY <2>1 DEF Part
  <2> QED BY <1>1, <2>1, <2>2
<1>4. n \in S
  BY <1>2, <1>3, Induct
<1>5. f[n] \in Int
  BY <1>4
<1> QED BY <1>5, TotalIs

LEMMA TotalOfNothing == ASSUME NEW a PROVE Total(<<>>, a) = 0
<1> PICK f : f = Sums(<<>>, a, 0)
  OBVIOUS
<1>1. f[0] = 0
  BY SumsAre DEF AreSums
<1> QED BY <1>1, TotalIs

-----------------------------------------------------------------------------
(***************************************************************************)
(* The payment path                                                        *)
(***************************************************************************)

EventRecords ==
  [by: {"notifier", "gateway"}, about: Nat, sub: Nat, url: Urls, step: {"try", "give up", "done"},
   state: {"pending", "held", "delivered", "aborted", "failed"}, attempts: Nat]
Subscriptions == [id: Nat, url: Urls, status: {"active", "failed"}]

HooksShape ==
  /\ events \in Seq(EventRecords) /\ received \in Seq(Nat) /\ Len(received) = Len(events)
  /\ sub \in Subscriptions
  /\ DOMAIN enqueues \subseteq Nat
  /\ \A p \in DOMAIN enqueues :
       enqueues[p] \in [at: {"sent", "checked", "queued", "refused"}, sub: Subscriptions]

\* An event's record, what the receiver stored of it, and the subscription's
\* number.
EventRight(rec, stored, latest) ==
  /\ stored <= rec.attempts /\ rec.attempts <= MaxTry
  /\ stored > 0 => rec.url = Receiver
  /\ rec.state = "delivered" => stored > 0
  /\ rec.state = "held" => stored = 0
  /\ rec.step # "done" => rec.state = "pending"
  /\ rec.step = "try" => rec.attempts < MaxTry
  /\ rec.step = "give up" => rec.attempts = MaxTry
  /\ rec.by = "notifier" => rec.sub <= latest

\* An event of the subscription there now that was given up.
GivenUp == \E e \in DOMAIN events : ItsOwn(e) /\ events[e].state = "failed" /\ events[e].attempts = MaxTry
                                   /\ events[e].step = "done"

HooksInv ==
  /\ HooksShape
  /\ \A e \in DOMAIN events : EventRight(events[e], received[e], sub.id)
  /\ sub.status = "failed" => GivenUp
  /\ \A p \in DOMAIN enqueues :
       /\ enqueues[p].sub.id <= sub.id
       /\ enqueues[p].at = "queued" => \E e \in DOMAIN events : events[e].by = "notifier" /\ events[e].about = p

IBANs == DOMAIN Seeded \cup {c.to : c \in Credits} \cup {o.iban : o \in Openings}

\* A request that has made up a payment.
Past(q) == q.step \in {"transfer", "enqueue", "put"}

IsRequest(q) ==
  /\ q.step \in {"idle", "look", "transfer", "enqueue", "put"}
  /\ q.step = "look" => DOMAIN q = {"step", "order"} /\ q.order \in Orders
  /\ q.step \in {"transfer", "enqueue"} => DOMAIN q = {"step", "order", "id"}
  /\ q.step = "put" => DOMAIN q = {"step", "order", "id", "status", "notification"}

TransferStates == {"sent", "moved", "refused"}
PaymentRecords == [status: {"", "accepted", "rejected"},
                   notification: {"", "enqueued", "enqueue_failed", "not_enqueued"}]
EntryRecords == [account: IBANs, payment: Nat, cents: Int]

PathShape ==
  /\ orders \in Seq(Orders)
  /\ transfers \in Seq(TransferStates) /\ Len(transfers) = Len(orders)
  /\ payments \in Seq(PaymentRecords)
  /\ Len(payments) = Len(orders)
  /\ entries \in Seq(EntryRecords)
  /\ DOMAIN accounts \subseteq IBANs
  /\ DOMAIN request = Requests /\ \A r \in Requests : IsRequest(request[r])

\* What has been said of a payment, and whether it bears it.
Bears(p, status, notification) ==
  /\ status = "accepted" => transfers[p] = "moved"
  /\ status = "rejected" /\ p \notin lost => transfers[p] = "refused"
  /\ notification = "enqueued" => p \in DOMAIN enqueues /\ enqueues[p].at = "queued"

\* A request at work on its payment, which no other is at work on.
Busy(r) ==
  LET q == request[r]
  IN  Past(q) =>
        /\ q.id \in DOMAIN orders /\ q.order = orders[q.id] /\ payments[q.id] = NotRecorded
        /\ \A s \in Requests \ {r} : Past(request[s]) => request[s].id # q.id
        /\ q.step = "enqueue" => transfers[q.id] = "moved" /\ q.id \in DOMAIN enqueues
        /\ q.step = "put" => /\ q.status \in {"accepted", "rejected"}
                             /\ q.notification \in {"enqueued", "enqueue_failed", "not_enqueued"}
                             /\ Bears(q.id, q.status, q.notification)

\* A payment is at work or its key is known, and two that share one have met.
KeysKept ==
  /\ \A p \in DOMAIN orders :
       \/ orders[p].key \in {NoKey} \cup DOMAIN byKey
       \/ \E r \in Requests : Past(request[r]) /\ request[r].id = p
  /\ \A p, q \in DOMAIN orders :
       p < q /\ orders[p].key = orders[q].key => orders[p].key \in raced \cup {NoKey}

\* The entries of a payment, in a ledger.
Mine(s, p) == {i \in DOMAIN s : s[i].payment = p}
MovedOnce(s, p, o) ==
  \E i \in DOMAIN s :
    /\ Mine(s, p) = {i, i + 1}
    /\ s[i] = Entry(o.from, p, -Parse(o.whole)) /\ s[i + 1] = Entry(o.to, p, Parse(o.whole))

LedgerRight ==
  /\ \A p \in DOMAIN orders : IF transfers[p] = "moved" THEN MovedOnce(entries, p, orders[p])
                                                          ELSE Mine(entries, p) = {}
  /\ \A i \in DOMAIN entries : entries[i].payment \in {0} \cup DOMAIN orders

AccountsRight ==
  \A a \in IBANs :
    IF a \in DOMAIN accounts
    THEN /\ DOMAIN accounts[a] = {"ccy", "cents", "opening"}
         /\ accounts[a].cents \in Int /\ accounts[a].opening \in Int
         /\ accounts[a].cents = Signed64(accounts[a].opening + Total(entries, a))
    ELSE Total(entries, a) = 0

\* The inductive invariant of the payment path.
PathInv ==
  /\ HooksInv /\ PathShape
  /\ \A r \in Requests : Busy(r)
  /\ \A p \in DOMAIN orders : Bears(p, payments[p].status, payments[p].notification)
  /\ KeysKept /\ LedgerRight /\ AccountsRight

-----------------------------------------------------------------------------
(***************************************************************************)
(* The senders and the receiver                                            *)
(***************************************************************************)

LEMMA AllowedUrls == Permitted \subseteq Urls /\ Receiver \in Urls /\ DefaultUrl \in Urls /\ MaxTry \in Nat \ {0}
<1> QED BY WebhooksAssumption

\* What an event says of itself, kept by any later subscription.
LEMMA EventStaysRight ==
  ASSUME NEW rec \in EventRecords, NEW stored \in Nat, NEW m \in Nat, NEW n \in Nat, m <= n,
         EventRight(rec, stored, m)
  PROVE  EventRight(rec, stored, n)
<1>1. rec.sub \in Nat /\ rec.attempts \in Nat /\ MaxTry \in Nat
  BY AllowedUrls DEF EventRecords
<1>2. rec.sub <= m => rec.sub <= n
  BY <1>1
<1> QED BY <1>2, Zenon DEF EventRight

LEMMA FirstRecord ==
  ASSUME NEW by \in {"notifier", "gateway"}, NEW about \in Nat, NEW id \in Nat, NEW url \in Urls,
         NEW step, NEW state, (step = "try" /\ state = "pending") \/ (step = "done" /\ state = "held"),
         NEW m \in Nat, by = "notifier" => id <= m,
         NEW rec, rec = [by |-> by, about |-> about, sub |-> id, url |-> url, step |-> step, state |-> state, attempts |-> 0]
  PROVE  rec \in EventRecords /\ EventRight(rec, 0, m)
<1>1. rec \in EventRecords
  BY DEF EventRecords
<1>2. rec.by = by /\ rec.sub = id /\ rec.attempts = 0 /\ rec.step = step /\ rec.state = state
  OBVIOUS
<1>3. MaxTry \in Nat /\ 0 <= 0 /\ 0 <= MaxTry /\ 0 < MaxTry /\ ~(0 > 0)
  BY AllowedUrls
<1>4. rec.by = "notifier" => rec.sub <= m
  BY <1>2
<1>5. (state = "pending" /\ step = "try") \/ (state = "held" /\ step = "done")
  OBVIOUS
<1> QED BY <1>1, <1>2, <1>3, <1>4, <1>5 DEF EventRight

LEMMA Counts ==
  ASSUME NEW n \in Nat, NEW most \in Nat, NEW had \in Nat, NEW stored \in Nat, n < most, had <= n,
         stored \in {had, had + 1}
  PROVE  /\ stored <= n + 1 /\ n + 1 <= most /\ n + 1 \in Nat
         /\ ~(n + 1 < most) => n + 1 = most
         /\ stored > 0 => stored # had \/ had > 0
<1> QED OBVIOUS

\* What an attempt leaves of a record.
StatesTried == {"pending", "delivered"}
StepsTried == {"try", "give up", "done"}
After(was, n, state, step) == [was EXCEPT !.attempts = n, !.state = state, !.step = step]

IsAfter(rec, was, n, state, step) ==
  /\ rec \in EventRecords
  /\ rec.by = was.by /\ rec.about = was.about /\ rec.sub = was.sub /\ rec.url = was.url
  /\ rec.attempts = n /\ rec.state = state /\ rec.step = step

LEMMA AfterIs ==
  ASSUME NEW was \in EventRecords, NEW n \in Nat, NEW state \in StatesTried, NEW step \in StepsTried
  PROVE  IsAfter(After(was, n, state, step), was, n, state, step)
<1> QED BY DEF After, IsAfter, EventRecords, StatesTried, StepsTried

LEMMA Attempt ==
  ASSUME NEW was \in EventRecords, was.state = "pending", NEW answered
  PROVE  \E rec \in EventRecords :
           /\ rec = Attempted(was, answered)
           /\ rec.by = was.by /\ rec.about = was.about /\ rec.sub = was.sub /\ rec.url = was.url
           /\ rec.attempts = was.attempts + 1
           /\ \/ answered /\ rec.state = "delivered" /\ rec.step = "done"
              \/ rec.state = "pending" /\ rec.step = "try" /\ was.attempts + 1 < MaxTry
              \/ rec.state = "pending" /\ rec.step = "give up" /\ ~(was.attempts + 1 < MaxTry)
<1>0. was.attempts + 1 \in Nat
  <2>1. was.attempts \in Nat
    BY DEF EventRecords
  <2> QED BY <2>1
<1>1. CASE answered
  <2>1. Attempted(was, answered) = After(was, was.attempts + 1, "delivered", "done")
    BY <1>1, Zenon DEF After, Attempted
  <2>2. "delivered" \in StatesTried /\ "done" \in StepsTried
    BY DEF StatesTried, StepsTried
  <2>3. IsAfter(After(was, was.attempts + 1, "delivered", "done"), was, was.attempts + 1, "delivered", "done")
    BY <1>0, <2>2, AfterIs, Zenon
  <2> QED BY <1>1, <2>1, <2>3, Zenon DEF IsAfter
<1>2. CASE ~answered
  <2>1. CASE was.attempts + 1 < MaxTry
    <3>1. Attempted(was, answered) = After(was, was.attempts + 1, "pending", "try")
      BY <1>2, <2>1, Zenon DEF After, Attempted, ShouldRetry
    <3>2. "pending" \in StatesTried /\ "try" \in StepsTried
      BY DEF StatesTried, StepsTried
    <3>3. IsAfter(After(was, was.attempts + 1, "pending", "try"), was, was.attempts + 1, "pending", "try")
      BY <1>0, <3>2, AfterIs, Zenon
    <3> QED BY <2>1, <3>1, <3>3, Zenon DEF IsAfter
  <2>2. CASE ~(was.attempts + 1 < MaxTry)
    <3>1. Attempted(was, answered) = After(was, was.attempts + 1, "pending", "give up")
      BY <1>2, <2>2, Zenon DEF After, Attempted, ShouldRetry
    <3>2. "pending" \in StatesTried /\ "give up" \in StepsTried
      BY DEF StatesTried, StepsTried
    <3>3. IsAfter(After(was, was.attempts + 1, "pending", "give up"), was, was.attempts + 1, "pending", "give up")
      BY <1>0, <3>2, AfterIs, Zenon
    <3> QED BY <2>2, <3>1, <3>3, Zenon DEF IsAfter
  <2> QED BY <1>0, <2>1, <2>2
<1> QED BY <1>1, <1>2

\* An attempt, stored or not, answered or not.
LEMMA AttemptRight ==
  ASSUME NEW was \in EventRecords, NEW had \in Nat, NEW stored \in Nat, NEW m \in Nat,
         EventRight(was, had, m), was.step = "try",
         NEW answered, stored \in {had, had + 1}, stored # had => was.url = Receiver, answered => stored > 0
  PROVE  EventRight(Attempted(was, answered), stored, m)
<1>1. was.attempts \in Nat /\ MaxTry \in Nat
  BY AllowedUrls DEF EventRecords
<1>2. was.attempts < MaxTry /\ had <= was.attempts /\ was.state = "pending" /\ (had > 0 => was.url = Receiver)
      /\ (was.by = "notifier" => was.sub <= m)
  BY DEF EventRight
<1>3. /\ stored <= was.attempts + 1 /\ was.attempts + 1 <= MaxTry
      /\ ~(was.attempts + 1 < MaxTry) => was.attempts + 1 = MaxTry
      /\ stored > 0 => stored # had \/ had > 0
  BY <1>1, <1>2, Counts
<1>4. PICK rec \in EventRecords :
      /\ rec = Attempted(was, answered)
      /\ rec.by = was.by /\ rec.sub = was.sub /\ rec.url = was.url
      /\ rec.attempts = was.attempts + 1
      /\ \/ answered /\ rec.state = "delivered" /\ rec.step = "done"
         \/ rec.state = "pending" /\ rec.step = "try" /\ was.attempts + 1 < MaxTry
         \/ rec.state = "pending" /\ rec.step = "give up" /\ ~(was.attempts + 1 < MaxTry)
  BY <1>2, Attempt, Zenon
<1>5. rec.state # "held" /\ (rec.state = "delivered" => answered) /\ (rec.step # "done" => rec.state = "pending")
      /\ (rec.step = "try" => was.attempts + 1 < MaxTry) /\ (rec.step = "give up" => ~(was.attempts + 1 < MaxTry))
  BY <1>4, Zenon
<1>6. EventRight(rec, stored, m)
  BY <1>2, <1>3, <1>4, <1>5, Zenon DEF EventRight
<1> QED BY <1>4, <1>6, Zenon

\* One event changes, and the subscription perhaps fails.
LEMMA EventChanges ==
  ASSUME HooksInv, NEW e \in DOMAIN events, NEW rec \in EventRecords, NEW stored \in Nat,
         events' = [events EXCEPT ![e] = rec], received' = [received EXCEPT ![e] = stored],
         EventRight(rec, stored, sub.id),
         rec.by = events[e].by, rec.about = events[e].about, rec.sub = events[e].sub,
         events[e].step # "done",
         \/ sub' = sub
         \/ /\ sub' = [sub EXCEPT !.status = "failed"]
            /\ ItsOwn(e) /\ rec.step = "done" /\ rec.state = "failed" /\ rec.attempts = MaxTry,
         UNCHANGED enqueues
  PROVE  HooksInv'
<1>1. /\ sub' \in Subscriptions /\ sub'.id = sub.id /\ sub.id \in Nat
  BY DEF HooksInv, HooksShape, Subscriptions
<1>2. /\ events' \in Seq(EventRecords) /\ received' \in Seq(Nat) /\ DOMAIN events' = DOMAIN events
      /\ DOMAIN received = DOMAIN events /\ Len(received') = Len(events')
      /\ events'[e] = rec /\ received'[e] = stored
      /\ \A d \in DOMAIN events \ {e} : events'[d] = events[d] /\ received'[d] = received[d]
  BY DEF HooksInv, HooksShape
<1>3. HooksShape'
  BY <1>1, <1>2 DEF HooksInv, HooksShape
<1>4. \A d \in DOMAIN events' : EventRight(events'[d], received'[d], sub'.id)
  BY <1>1, <1>2 DEF HooksInv
<1>5. sub'.status = "failed" => GivenUp'
  <2> SUFFICES ASSUME sub'.status = "failed"
               PROVE  \E d \in DOMAIN events' :
                        /\ events'[d].by = "notifier" /\ events'[d].sub = sub'.id
                        /\ events'[d].state = "failed" /\ events'[d].attempts = MaxTry /\ events'[d].step = "done"
    BY DEF GivenUp, ItsOwn
  <2>1. CASE sub' = sub
    <3> PICK d \in DOMAIN events : ItsOwn(d) /\ events[d].state = "failed" /\ events[d].attempts = MaxTry
                                   /\ events[d].step = "done"
      BY <2>1 DEF HooksInv, GivenUp
    <3>1. d # e
      OBVIOUS
    <3> QED BY <1>1, <1>2, <3>1 DEF ItsOwn
  <2>2. CASE sub' # sub
    BY <1>1, <1>2, <2>2 DEF ItsOwn
  <2> QED BY <2>1, <2>2
<1>6. \A p \in DOMAIN enqueues' :
        /\ enqueues'[p].sub.id <= sub'.id
        /\ enqueues'[p].at = "queued" => \E d \in DOMAIN events' : events'[d].by = "notifier" /\ events'[d].about = p
  <2> SUFFICES ASSUME NEW p \in DOMAIN enqueues
               PROVE  /\ enqueues[p].sub.id <= sub.id
                      /\ enqueues[p].at = "queued" => \E d \in DOMAIN events' : events'[d].by = "notifier" /\ events'[d].about = p
    BY <1>1
  <2>1. \A d \in DOMAIN events : events'[d].by = events[d].by /\ events'[d].about = events[d].about
    BY <1>2
  <2> QED BY <1>2, <2>1 DEF HooksInv
<1> QED BY <1>3, <1>4, <1>5, <1>6 DEF HooksInv

\* An event is added.
LEMMA EventAdded ==
  ASSUME HooksInv, NEW rec \in EventRecords, EventRight(rec, 0, sub.id),
         events' = Append(events, rec), received' = Append(received, 0), UNCHANGED sub,
         DOMAIN enqueues' = DOMAIN enqueues,
         \A p \in DOMAIN enqueues :
           /\ enqueues'[p] \in [at: {"sent", "checked", "queued", "refused"}, sub: Subscriptions]
           /\ enqueues'[p].sub = enqueues[p].sub
           /\ enqueues'[p].at = "queued" =>
                enqueues[p].at = "queued" \/ (rec.by = "notifier" /\ rec.about = p)
  PROVE  HooksInv'
<1> PICK n \in Nat : n = Len(events)
  BY DEF HooksInv, HooksShape
<1>1. /\ events' \in Seq(EventRecords) /\ received' \in Seq(Nat)
      /\ DOMAIN events = 1..n /\ DOMAIN received = 1..n /\ DOMAIN events' = 1..(n + 1)
      /\ Len(events') = n + 1 /\ Len(received') = n + 1
      /\ events'[n + 1] = rec /\ received'[n + 1] = 0
      /\ \A d \in 1..n : events'[d] = events[d] /\ received'[d] = received[d]
  BY DEF HooksInv, HooksShape
<1>2. HooksShape'
  BY <1>1 DEF HooksInv, HooksShape
<1>3. \A d \in DOMAIN events' : EventRight(events'[d], received'[d], sub'.id)
  <2> SUFFICES ASSUME NEW d \in 1..(n + 1) PROVE EventRight(events'[d], received'[d], sub.id)
    BY <1>1
  <2>1. CASE d = n + 1
    BY <1>1, <2>1
  <2>2. CASE d \in 1..n
    BY <1>1, <2>2 DEF HooksInv
  <2>3. d = n + 1 \/ d \in 1..n
    OBVIOUS
  <2> QED BY <2>1, <2>2, <2>3
<1>4. sub'.status = "failed" => GivenUp'
  <2> SUFFICES ASSUME sub.status = "failed"
               PROVE  \E d \in DOMAIN events' :
                        /\ events'[d].by = "notifier" /\ events'[d].sub = sub.id
                        /\ events'[d].state = "failed" /\ events'[d].attempts = MaxTry /\ events'[d].step = "done"
    BY DEF GivenUp, ItsOwn
  <2> PICK d \in DOMAIN events : ItsOwn(d) /\ events[d].state = "failed" /\ events[d].attempts = MaxTry
                                 /\ events[d].step = "done"
    BY DEF HooksInv, GivenUp
  <2>1. d \in 1..n /\ d \in 1..(n + 1)
    BY <1>1
  <2> QED BY <1>1, <2>1 DEF ItsOwn
<1>5. \A p \in DOMAIN enqueues' :
        /\ enqueues'[p].sub.id <= sub'.id
        /\ enqueues'[p].at = "queued" => \E d \in DOMAIN events' : events'[d].by = "notifier" /\ events'[d].about = p
  <2> SUFFICES ASSUME NEW p \in DOMAIN enqueues
               PROVE  /\ enqueues[p].sub.id <= sub.id
                      /\ enqueues'[p].at = "queued" => \E d \in DOMAIN events' : events'[d].by = "notifier" /\ events'[d].about = p
    OBVIOUS
  <2>1. enqueues[p].sub.id <= sub.id
    BY DEF HooksInv
  <2>2. ASSUME enqueues[p].at = "queued"
        PROVE  \E d \in DOMAIN events' : events'[d].by = "notifier" /\ events'[d].about = p
    <3> PICK d \in DOMAIN events : events[d].by = "notifier" /\ events[d].about = p
      BY <2>2 DEF HooksInv
    <3>1. d \in 1..n /\ d \in 1..(n + 1)
      BY <1>1
    <3> QED BY <1>1, <3>1
  <2>3. ASSUME rec.by = "notifier", rec.about = p
        PROVE  \E d \in DOMAIN events' : events'[d].by = "notifier" /\ events'[d].about = p
    <3>1. n + 1 \in DOMAIN events'
      BY <1>1
    <3> QED BY <1>1, <2>3, <3>1
  <2> QED BY <2>1, <2>2, <2>3
<1> QED BY <1>2, <1>3, <1>4, <1>5 DEF HooksInv

\* A call to the notifier is made, or moves on.
FreshCall(c) == \E at \in {"sent", "checked", "refused"} : c = [at |-> at, sub |-> sub]

LEMMA EnqueueMoves ==
  ASSUME HooksInv, UNCHANGED <<events, received, sub>>, DOMAIN enqueues' \subseteq Nat,
         \A p \in DOMAIN enqueues' :
           \/ p \in DOMAIN enqueues /\ enqueues'[p] = enqueues[p]
           \/ FreshCall(enqueues'[p])
  PROVE  HooksInv'
<1>1. sub \in Subscriptions /\ sub.id <= sub.id
  BY DEF HooksInv, HooksShape, Subscriptions
<1>2. \A p \in DOMAIN enqueues' :
        /\ enqueues'[p] \in [at: {"sent", "checked", "queued", "refused"}, sub: Subscriptions]
        /\ enqueues'[p].sub.id <= sub.id
        /\ enqueues'[p].at = "queued" => \E d \in DOMAIN events : events[d].by = "notifier" /\ events[d].about = p
  <2> SUFFICES ASSUME NEW p \in DOMAIN enqueues'
               PROVE  /\ enqueues'[p] \in [at: {"sent", "checked", "queued", "refused"}, sub: Subscriptions]
                      /\ enqueues'[p].sub.id <= sub.id
                      /\ enqueues'[p].at = "queued" =>
                           \E d \in DOMAIN events : events[d].by = "notifier" /\ events[d].about = p
    OBVIOUS
  <2>1. CASE p \in DOMAIN enqueues /\ enqueues'[p] = enqueues[p]
    BY <2>1 DEF HooksInv, HooksShape
  <2>2. CASE FreshCall(enqueues'[p])
    BY <1>1, <2>2 DEF FreshCall
  <2> QED BY <2>1, <2>2
<1>3. HooksShape'
  BY <1>2 DEF HooksInv, HooksShape
<1>4. GivenUp' = GivenUp
  BY DEF GivenUp, ItsOwn
<1> QED BY <1>2, <1>3, <1>4 DEF HooksInv

LEMMA HooksKeep == HooksInv /\ HooksNext => HooksInv'
<1> SUFFICES ASSUME HooksInv, HooksNext PROVE HooksInv'
  OBVIOUS
<1>0. /\ events \in Seq(EventRecords) /\ received \in Seq(Nat) /\ Len(received) = Len(events)
      /\ DOMAIN received = DOMAIN events /\ DOMAIN events \subseteq Nat
      /\ \A e \in DOMAIN events : events[e] \in EventRecords /\ received[e] \in Nat
      /\ sub \in Subscriptions /\ sub.id \in Nat
  BY DEF HooksInv, HooksShape, Subscriptions
<1>1. ASSUME NEW url \in Urls, PutSub(url) PROVE HooksInv'
  <2>1. /\ sub' = [id |-> sub.id + 1, url |-> url, status |-> "active"]
        /\ UNCHANGED <<enqueues, events, received>>
    BY <1>1 DEF PutSub
  <2>2. sub' \in Subscriptions /\ sub'.id = sub.id + 1 /\ sub'.status # "failed"
    BY <1>0, <2>1 DEF Subscriptions
  <2>3. HooksShape'
    BY <2>1, <2>2 DEF HooksInv, HooksShape
  <2>4. \A e \in DOMAIN events : EventRight(events[e], received[e], sub'.id)
    <3> SUFFICES ASSUME NEW e \in DOMAIN events PROVE EventRight(events[e], received[e], sub'.id)
      OBVIOUS
    <3>1. EventRight(events[e], received[e], sub.id)
      BY DEF HooksInv
    <3>2. sub.id + 1 \in Nat /\ sub.id <= sub.id + 1
      BY <1>0
    <3> QED BY <1>0, <2>2, <3>1, <3>2, EventStaysRight
  <2>5. \A p \in DOMAIN enqueues : enqueues[p].sub.id <= sub'.id
    <3>1. \A p \in DOMAIN enqueues : enqueues[p].sub.id \in Nat /\ enqueues[p].sub.id <= sub.id
      BY DEF HooksInv, HooksShape, Subscriptions
    <3> QED BY <1>0, <2>2, <3>1
  <2> QED BY <2>1, <2>2, <2>3, <2>4, <2>5 DEF HooksInv
<1>2. ASSUME NEW p \in DOMAIN enqueues, CheckSubscription(p) PROVE HooksInv'
  <2>1. /\ enqueues' = [enqueues EXCEPT ![p] = IF sub.status = "active" THEN [at |-> "checked", sub |-> sub]
                                              ELSE [at |-> "refused", sub |-> sub]]
        /\ UNCHANGED <<events, received, sub>>
    BY <1>2 DEF CheckSubscription
  <2>2. DOMAIN enqueues' \subseteq Nat
    BY <2>1 DEF HooksInv, HooksShape
  <2>3. \A q \in DOMAIN enqueues' :
          \/ q \in DOMAIN enqueues /\ enqueues'[q] = enqueues[q]
          \/ FreshCall(enqueues'[q])
    BY <2>1 DEF FreshCall
  <2> QED BY <2>1, <2>2, <2>3, EnqueueMoves
<1>3. ASSUME NEW p \in DOMAIN enqueues, Queue(p) PROVE HooksInv'
  <2> PICK rec : rec = Started("notifier", p, enqueues[p].sub)
    OBVIOUS
  <2>1. enqueues[p] \in [at: {"sent", "checked", "queued", "refused"}, sub: Subscriptions] /\ p \in Nat
        /\ enqueues[p].sub.id <= sub.id
    BY DEF HooksInv, HooksShape
  <2>2. rec \in EventRecords /\ EventRight(rec, 0, sub.id) /\ rec.by = "notifier" /\ rec.about = p
    <3>1. rec = [by |-> "notifier", about |-> p, sub |-> enqueues[p].sub.id, url |-> enqueues[p].sub.url,
                 step |-> "try", state |-> "pending", attempts |-> 0]
      BY DEF Started
    <3>2. enqueues[p].sub.id \in Nat /\ enqueues[p].sub.url \in Urls
      BY <2>1 DEF Subscriptions
    <3>3. rec \in EventRecords /\ EventRight(rec, 0, sub.id)
      <4> PICK about \in Nat, id \in Nat, url \in Urls, m \in Nat :
            about = p /\ id = enqueues[p].sub.id /\ url = enqueues[p].sub.url /\ m = sub.id
        BY <1>0, <2>1, <3>2
      <4>1. id <= m /\ rec = [by |-> "notifier", about |-> about, sub |-> id, url |-> url,
                              step |-> "try", state |-> "pending", attempts |-> 0]
        BY <2>1, <3>1
      <4>2. rec \in EventRecords /\ EventRight(rec, 0, m)
        BY <4>1, FirstRecord
      <4> QED BY <4>2
    <3> QED BY <3>1, <3>3
  <2>3. /\ events' = Append(events, rec) /\ received' = Append(received, 0) /\ UNCHANGED sub
        /\ enqueues' = [enqueues EXCEPT ![p].at = "queued"]
    BY <1>3 DEF Queue
  <2>4. DOMAIN enqueues' = DOMAIN enqueues
    BY <2>3
  <2>5. \A q \in DOMAIN enqueues :
           /\ enqueues'[q] \in [at: {"sent", "checked", "queued", "refused"}, sub: Subscriptions]
           /\ enqueues'[q].sub = enqueues[q].sub
           /\ enqueues'[q].at = "queued" =>
                enqueues[q].at = "queued" \/ (rec.by = "notifier" /\ rec.about = q)
    BY <2>1, <2>2, <2>3 DEF HooksInv, HooksShape
  <2> QED BY <2>2, <2>3, <2>4, <2>5, EventAdded
<1>4. ASSUME NEW e \in DOMAIN events, Run(e) PROVE HooksInv'
  <2>0. /\ events[e] \in EventRecords /\ received[e] \in Nat /\ EventRight(events[e], received[e], sub.id)
        /\ UNCHANGED enqueues
    BY <1>0, <1>4 DEF HooksInv, Run, Abort, Try, GiveUp
  <2>1. CASE Abort(e)
    <3> PICK rec : rec = [events[e] EXCEPT !.step = "done", !.state = "aborted"]
      OBVIOUS
    <3>1. /\ events' = [events EXCEPT ![e] = rec] /\ received' = received /\ sub' = sub /\ events[e].step # "done"
      BY <1>0, <2>0, <2>1 DEF Abort
    <3>2. received' = [received EXCEPT ![e] = received[e]]
      BY <1>0, <3>1
    <3>3. rec \in EventRecords /\ EventRight(rec, received[e], sub.id)
          /\ rec.by = events[e].by /\ rec.about = events[e].about /\ rec.sub = events[e].sub
      BY <2>0 DEF EventRecords, EventRight
    <3> QED BY <2>0, <3>1, <3>2, <3>3, EventChanges
  <2>2. CASE Try(e)
    <3>1. PICK o \in Outcomes(events[e].url) :
          /\ received' = IF o.stored THEN [received EXCEPT ![e] = received[e] + 1] ELSE received
          /\ events' = [events EXCEPT ![e] = Attempted(events[e], o.answered)]
      BY <2>2, Zenon DEF Try
    <3>2. sub' = sub /\ events[e].step = "try" /\ events[e].step # "done"
      BY <2>2 DEF Try
    <3>3. (o.answered => o.stored) /\ (o.stored => events[e].url = Receiver)
      BY DEF Outcomes
    <3>4. \E stored \in Nat :
            /\ received' = [received EXCEPT ![e] = stored] /\ stored \in {received[e], received[e] + 1}
            /\ stored # received[e] => o.stored
            /\ o.stored => stored > 0
      <4>1. CASE o.stored
        <5>1. received[e] + 1 \in Nat /\ received[e] + 1 > 0
          BY <1>0
        <5> QED BY <3>1, <4>1, <5>1, Zenon
      <4>2. CASE ~o.stored
        <5>1. received = [received EXCEPT ![e] = received[e]]
          BY <1>0
        <5> QED BY <1>0, <3>1, <4>2, <5>1, Zenon
      <4> QED BY <4>1, <4>2
    <3>5. PICK stored \in Nat :
            /\ received' = [received EXCEPT ![e] = stored] /\ stored \in {received[e], received[e] + 1}
            /\ stored # received[e] => events[e].url = Receiver
            /\ o.answered => stored > 0
      BY <3>3, <3>4, Zenon
    <3>6. events[e].state = "pending"
      BY <2>0, <3>2 DEF EventRight
    <3>7. EventRight(Attempted(events[e], o.answered), stored, sub.id)
      <4> PICK was \in EventRecords, had \in Nat, m \in Nat :
            was = events[e] /\ had = received[e] /\ m = sub.id
        BY <1>0, <2>0
      <4>1. EventRight(was, had, m) /\ was.step = "try" /\ stored \in {had, had + 1}
            /\ (stored # had => was.url = Receiver)
        BY <2>0, <3>2, <3>5
      <4>2. EventRight(Attempted(was, o.answered), stored, m)
        BY <3>5, <4>1, AttemptRight
      <4> QED BY <4>2
    <3>8. PICK rec \in EventRecords :
            /\ rec = Attempted(events[e], o.answered)
            /\ rec.by = events[e].by /\ rec.about = events[e].about /\ rec.sub = events[e].sub
      BY <2>0, <3>6, Attempt, ZenonT(30)
    <3>9. EventRight(rec, stored, sub.id)
      BY <3>7, <3>8, Zenon
    <3>10. events' = [events EXCEPT ![e] = rec]
      BY <3>1, <3>8, Zenon
    <3> QED BY <2>0, <3>2, <3>5, <3>8, <3>9, <3>10, EventChanges, Zenon
  <2>3. CASE GiveUp(e)
    <3> PICK rec : rec = [events[e] EXCEPT !.step = "done", !.state = "failed"]
      OBVIOUS
    <3>1. /\ events' = [events EXCEPT ![e] = rec] /\ received' = received /\ events[e].step = "give up"
          /\ sub' = IF ItsOwn(e) THEN [sub EXCEPT !.status = "failed"] ELSE sub
      <4>1. events' = [events EXCEPT ![e].step = "done", ![e].state = "failed"]
        BY <2>3 DEF GiveUp
      <4>2. events' = [events EXCEPT ![e] = rec]
        BY <1>0, <2>0, <4>1
      <4>3. received' = received /\ events[e].step = "give up"
            /\ sub' = IF ItsOwn(e) THEN [sub EXCEPT !.status = "failed"] ELSE sub
        BY <2>3 DEF GiveUp
      <4> QED BY <4>2, <4>3
    <3>2. received' = [received EXCEPT ![e] = received[e]]
      <4>1. received' = received
        BY <3>1
      <4> QED BY <1>0, <4>1
    <3>3. rec \in EventRecords /\ EventRight(rec, received[e], sub.id)
          /\ rec.by = events[e].by /\ rec.about = events[e].about /\ rec.sub = events[e].sub
          /\ rec.step = "done" /\ rec.state = "failed" /\ rec.attempts = MaxTry
      BY <2>0, <3>1 DEF EventRecords, EventRight
    <3>4. events[e].step # "done"
      BY <3>1
    <3> QED BY <2>0, <3>1, <3>2, <3>3, <3>4, EventChanges
  <2> QED BY <1>4, <2>1, <2>2, <2>3 DEF Run
<1>5. ASSUME SimulatePayment(Len(events) + 1) PROVE HooksInv'
  <2> PICK first : first = Started("gateway", Len(events) + 1, Gateway)
    OBVIOUS
  <2> PICK rec : rec = IF wiring THEN first ELSE [first EXCEPT !.step = "done", !.state = "held"]
    OBVIOUS
  <2>1. first = [by |-> "gateway", about |-> Len(events) + 1, sub |-> 0, url |-> Receiver,
                 step |-> "try", state |-> "pending", attempts |-> 0]
    BY DEF Started, Gateway
  <2>2. Len(events) + 1 \in Nat
    BY <1>0
  <2>3. rec \in EventRecords /\ EventRight(rec, 0, sub.id)
    <3>1. CASE wiring
      <4>1. rec = [by |-> "gateway", about |-> Len(events) + 1, sub |-> 0, url |-> Receiver,
                   step |-> "try", state |-> "pending", attempts |-> 0]
        BY <2>1, <3>1
      <4> QED BY <1>0, <2>2, <4>1, AllowedUrls, FirstRecord
    <3>2. CASE ~wiring
      <4>1. rec = [by |-> "gateway", about |-> Len(events) + 1, sub |-> 0, url |-> Receiver,
                   step |-> "done", state |-> "held", attempts |-> 0]
        <5>1. rec = [first EXCEPT !.step = "done", !.state = "held"]
          BY <3>2
        <5> PICK n : n = Len(events) + 1
          OBVIOUS
        <5>2. first = [by |-> "gateway", about |-> n, sub |-> 0, url |-> Receiver,
                       step |-> "try", state |-> "pending", attempts |-> 0]
          BY <2>1
        <5>3. rec = [by |-> "gateway", about |-> n, sub |-> 0, url |-> Receiver,
                     step |-> "done", state |-> "held", attempts |-> 0]
          <6>1. rec = [[by |-> "gateway", about |-> n, sub |-> 0, url |-> Receiver,
                        step |-> "try", state |-> "pending", attempts |-> 0]
                          EXCEPT !.step = "done", !.state = "held"]
            BY <5>1, <5>2
          <6> QED BY <6>1
        <5> QED BY <5>3
      <4> QED BY <1>0, <2>2, <4>1, AllowedUrls, FirstRecord
    <3> QED BY <3>1, <3>2
  <2>4. events' = Append(events, rec) /\ received' = Append(received, 0) /\ UNCHANGED <<sub, enqueues>>
    BY <1>5 DEF SimulatePayment
  <2>5. \A q \in DOMAIN enqueues :
           enqueues'[q] \in [at: {"sent", "checked", "queued", "refused"}, sub: Subscriptions]
    BY <2>4 DEF HooksInv, HooksShape
  <2> QED BY <2>3, <2>4, <2>5, EventAdded
<1>6. ASSUME Set PROVE HooksInv'
  BY <1>6 DEF Set, HooksInv, HooksShape, GivenUp, ItsOwn
<1> QED BY <1>1, <1>2, <1>3, <1>4, <1>5, <1>6 DEF HooksNext

LEMMA HooksStart == HooksInit => HooksInv
<1> SUFFICES ASSUME HooksInit PROVE HooksInv
  OBVIOUS
<1>1. sub \in Subscriptions /\ sub.status # "failed"
  BY AllowedUrls DEF HooksInit, Subscriptions
<1>2. events = <<>> /\ received = <<>> /\ enqueues = <<>>
  BY DEF HooksInit
<1> QED BY <1>1, <1>2 DEF HooksInv, HooksShape

LEMMA RecordsTell == HooksInv => RecordsTellTheTruth
<1> SUFFICES ASSUME HooksInv PROVE RecordsTellTheTruth
  OBVIOUS
<1> QED BY DEF HooksInv, EventRight, RecordsTellTheTruth, GivenUp

-----------------------------------------------------------------------------
(***************************************************************************)
(* The ledger and the accounts                                             *)
(***************************************************************************)

LEMMA ParseIs == ASSUME NEW w \in Int PROVE Parse(w) \in Int
<1> QED BY SignedIs DEF Parse

LEMMA SignedStays == ASSUME NEW v \in Int PROVE Signed64(v) = Signed64(Signed64(v) + 0)
<1>1. Signed64(Signed64(v) + 0) = Signed64(v + 0)
  BY SignedSum
<1>2. v + 0 = v
  OBVIOUS
<1> QED BY <1>1, <1>2

LEMMA ParsedStays == ASSUME NEW w \in Int PROVE Parse(w) = Signed64(Parse(w) + 0)
<1>1. w * 100 \in Int
  OBVIOUS
<1> QED BY <1>1, SignedStays, Zenon DEF Parse

LEMMA Amounts ==
  /\ \A o \in Orders \cup Credits \cup Openings : o.whole \in Int /\ Parse(o.whole) \in Int
  /\ 0 \notin Nat \ {0} /\ Word \in Nat \ {0}
<1> QED BY PaymentPathAssumption, ParseIs

LEMMA PutIs ==
  ASSUME NEW f, NEW k, NEW v
  PROVE  /\ DOMAIN Put(f, k, v) = DOMAIN f \cup {k} /\ Put(f, k, v)[k] = v
         /\ \A x \in DOMAIN f \ {k} : Put(f, k, v)[x] = f[x]
<1> QED BY DEF Put

\* A ledger t that is s, of n entries, and e.
HasOneMore(t, s, e, n) ==
  /\ t \in Seq(EntryRecords) /\ n \in Nat /\ Len(t) = n + 1 /\ DOMAIN s = 1..n /\ DOMAIN t = 1..(n + 1)
  /\ t[n + 1] = e /\ \A i \in 1..n : t[i] = s[i]
  /\ \A a : Total(s, a) \in Int /\ (e.account # a => Total(t, a) = Total(s, a))
            /\ (e.account = a => Total(t, a) = Total(s, a) + e.cents)
  /\ \A p : e.payment # p => Mine(t, p) = Mine(s, p)

LEMMA OneEntry ==
  ASSUME NEW s \in Seq(EntryRecords), NEW e \in EntryRecords
  PROVE  HasOneMore(Append(s, e), s, e, Len(s))
<1> PICK n \in Nat : n = Len(s)
  OBVIOUS
<1> PICK t : t = Append(s, e)
  OBVIOUS
<1>1. /\ t \in Seq(EntryRecords) /\ n \in Nat /\ Len(t) = n + 1 /\ DOMAIN s = 1..n /\ DOMAIN t = 1..(n + 1)
      /\ t[n + 1] = e /\ \A i \in 1..n : t[i] = s[i]
  OBVIOUS
<1>2. ASSUME NEW a
      PROVE  Total(s, a) \in Int /\ (e.account # a => Total(t, a) = Total(s, a))
             /\ (e.account = a => Total(t, a) = Total(s, a) + e.cents)
  <2>1. \A i \in 1..Len(s) : s[i].cents \in Int
    <3> SUFFICES ASSUME NEW i \in 1..Len(s) PROVE s[i].cents \in Int
      OBVIOUS
    <3>1. s[i] \in EntryRecords
      OBVIOUS
    <3> QED BY <3>1 DEF EntryRecords
  <2>2. Total(s, a) \in Int
    BY <1>1, <2>1, TotalIsWhole
  <2>3. Total(t, a) = Total(s, a) + Part(t, a, n + 1)
    BY <1>1, TotalGrows
  <2>4. e.cents \in Int
    BY DEF EntryRecords
  <2>5. Part(t, a, n + 1) = IF e.account = a THEN e.cents ELSE 0
    BY <1>1 DEF Part
  <2> QED BY <2>2, <2>3, <2>4, <2>5
<1>3. ASSUME NEW p, e.payment # p PROVE Mine(t, p) = Mine(s, p)
  BY <1>1, <1>3 DEF Mine
<1> QED BY <1>1, <1>2, <1>3 DEF HasOneMore

\* What an account holds keeps up with its entries.
LEMMA KeepsUp ==
  ASSUME NEW open \in Int, NEW total \in Int, NEW x \in Int
  PROVE  /\ Signed64(Signed64(open + total) + x) = Signed64(open + (total + x))
         /\ Signed64(Signed64(open + total) + x) \in Int
<1>1. open + total \in Int /\ (open + total) + x = open + (total + x) /\ (open + total) + x \in Int
  OBVIOUS
<1> QED BY <1>1, SignedSum, SignedIs

\* A move stays where it was as the ledger grows.
LEMMA MoveStays ==
  ASSUME NEW s, NEW t, NEW p, NEW o, DOMAIN s \subseteq DOMAIN t, \A i \in DOMAIN s : t[i] = s[i],
         Mine(t, p) = Mine(s, p), MovedOnce(s, p, o)
  PROVE  MovedOnce(t, p, o)
<1> PICK i \in DOMAIN s :
      /\ Mine(s, p) = {i, i + 1}
      /\ s[i] = Entry(o.from, p, -Parse(o.whole)) /\ s[i + 1] = Entry(o.to, p, Parse(o.whole))
  BY DEF MovedOnce
<1>1. i + 1 \in DOMAIN s
  BY DEF Mine
<1> QED BY <1>1 DEF MovedOnce

\* What the bank does by itself leaves the rest as it was.
LEMMA OnlyBank ==
  ASSUME PathInv, UNCHANGED <<sub, enqueues, events, received, transfers, request, orders, payments, byKey, lost, raced>>,
         entries' \in Seq(EntryRecords), DOMAIN accounts' \subseteq IBANs, LedgerRight', AccountsRight'
  PROVE  PathInv'
<1>1. HooksInv'
  BY DEF PathInv, HooksInv, HooksShape, GivenUp, ItsOwn
<1>2. PathShape'
  BY DEF PathInv, PathShape
<1>3. \A r \in Requests : Busy(r)'
  BY DEF PathInv, Busy, Bears
<1>4. (\A p \in DOMAIN orders : Bears(p, payments[p].status, payments[p].notification))'
  BY DEF PathInv, Bears
<1>5. KeysKept'
  BY DEF PathInv, KeysKept
<1> QED BY <1>1, <1>2, <1>3, <1>4, <1>5 DEF PathInv

\* One entry of no payment is added.
LEMMA LedgerAppends ==
  ASSUME PathInv, NEW e \in EntryRecords, e.payment = 0, entries' = Append(entries, e), UNCHANGED <<orders, transfers>>
  PROVE  entries' \in Seq(EntryRecords) /\ LedgerRight'
<1>0. entries \in Seq(EntryRecords) /\ DOMAIN orders \subseteq Nat \ {0}
  <2>1. entries \in Seq(EntryRecords)
    BY DEF PathInv, PathShape
  <2>2. orders \in Seq(Orders)
    BY DEF PathInv, PathShape
  <2> QED BY <2>1, <2>2
<1> PICK n : n = Len(entries)
  OBVIOUS
<1> PICK t : t = Append(entries, e)
  OBVIOUS
<1>1. /\ t \in Seq(EntryRecords) /\ n \in Nat /\ DOMAIN entries = 1..n /\ DOMAIN t = 1..(n + 1)
      /\ t[n + 1] = e /\ \A i \in 1..n : t[i] = entries[i]
      /\ \A p : e.payment # p => Mine(t, p) = Mine(entries, p)
  <2>1. HasOneMore(t, entries, e, n)
    BY <1>0, OneEntry, Zenon
  <2> QED BY <2>1, Zenon DEF HasOneMore
<1>2. DOMAIN entries \subseteq DOMAIN t
  BY <1>1
<1>3. ASSUME NEW p \in DOMAIN orders
      PROVE  IF transfers[p] = "moved" THEN MovedOnce(t, p, orders[p]) ELSE Mine(t, p) = {}
  <2>1. Mine(t, p) = Mine(entries, p)
    BY <1>0, <1>1
  <2>2. IF transfers[p] = "moved" THEN MovedOnce(entries, p, orders[p]) ELSE Mine(entries, p) = {}
    BY DEF PathInv, LedgerRight
  <2> QED BY <1>1, <1>2, <2>1, <2>2, MoveStays
<1>4. \A i \in DOMAIN t : t[i].payment \in {0} \cup DOMAIN orders
  <2>1. \A i \in 1..n : entries[i].payment \in {0} \cup DOMAIN orders
    BY <1>1 DEF PathInv, LedgerRight
  <2> SUFFICES ASSUME NEW i \in 1..(n + 1) PROVE t[i].payment \in {0} \cup DOMAIN orders
    BY <1>1
  <2>2. i \in 1..n \/ i = n + 1
    BY <1>1
  <2> QED BY <1>1, <2>1, <2>2
<1> QED BY <1>1, <1>3, <1>4 DEF LedgerRight

\* An account the bank has, or will have opened, is given more.
LEMMA CreditKeeps == ASSUME PathInv, NEW c \in Credits, Credit(c) PROVE PathInv'
<1> PICK x \in Int : x = Parse(c.whole)
  BY Amounts
<1> DEFINE known == IF c.to \in DOMAIN accounts THEN accounts ELSE Put(accounts, c.to, Opened(c.ccy, 0))
<1>0. c.to \in IBANs /\ DOMAIN accounts \subseteq IBANs /\ entries \in Seq(EntryRecords) /\ AccountsRight /\ LedgerRight
  BY DEF IBANs, PathInv, PathShape
<1>1. UNCHANGED <<sub, enqueues, events, received, transfers, request, orders, payments, byKey, lost, raced>>
  BY DEF Credit, hookVars
<1>2. CASE UNCHANGED bankVars
  BY <1>0, <1>1, <1>2, OnlyBank DEF bankVars, AccountsRight, LedgerRight
<1>3. CASE accounts' = [known EXCEPT ![c.to].cents = Signed64(@ + x)] /\ entries' = Append(entries, Entry(c.to, 0, x))
  <2> PICK e : e = Entry(c.to, 0, x)
    OBVIOUS
  <2>1. e \in EntryRecords /\ e.payment = 0 /\ e.account = c.to /\ e.cents = x
    BY <1>0 DEF Entry, EntryRecords
  <2>2. entries' \in Seq(EntryRecords) /\ LedgerRight'
    BY <1>1, <1>3, <2>1, LedgerAppends
  <2>3. \A a : Total(entries, a) \in Int /\ (c.to # a => Total(entries', a) = Total(entries, a))
               /\ (c.to = a => Total(entries', a) = Total(entries, a) + x)
    <3> PICK t : t = Append(entries, e)
      OBVIOUS
    <3>1. \A a : Total(entries, a) \in Int /\ (e.account # a => Total(t, a) = Total(entries, a))
               /\ (e.account = a => Total(t, a) = Total(entries, a) + e.cents)
      <4>1. HasOneMore(t, entries, e, Len(entries))
        BY <1>0, <2>1, OneEntry, Zenon
      <4> QED BY <4>1, Zenon DEF HasOneMore
    <3> QED BY <1>3, <2>1, <3>1
  <2>4. /\ DOMAIN known = DOMAIN accounts \cup {c.to}
        /\ \A a \in DOMAIN accounts : known[a] = accounts[a]
        /\ c.to \notin DOMAIN accounts => known[c.to] = Opened(c.ccy, 0)
    <3>1. CASE c.to \in DOMAIN accounts
      BY <3>1
    <3>2. CASE c.to \notin DOMAIN accounts
      <4>1. known = Put(accounts, c.to, Opened(c.ccy, 0))
        BY <3>2
      <4> HIDE DEF known
      <4>2. /\ DOMAIN known = DOMAIN accounts \cup {c.to} /\ known[c.to] = Opened(c.ccy, 0)
            /\ \A a \in DOMAIN accounts \ {c.to} : known[a] = accounts[a]
        BY <4>1 DEF Put
      <4> QED BY <3>2, <4>2
    <3> QED BY <3>1, <3>2
  <2>5. PICK open \in Int :
          /\ DOMAIN known[c.to] = {"ccy", "cents", "opening"} /\ known[c.to].opening = open
          /\ Signed64(known[c.to].cents + x) = Signed64(open + (Total(entries, c.to) + x))
          /\ Signed64(known[c.to].cents + x) \in Int
    <3>1. CASE c.to \in DOMAIN accounts
      <4> PICK open \in Int : open = accounts[c.to].opening
        BY <1>0, <3>1 DEF AccountsRight
      <4>1. DOMAIN accounts[c.to] = {"ccy", "cents", "opening"}
            /\ accounts[c.to].cents = Signed64(open + Total(entries, c.to))
        BY <1>0, <3>1 DEF AccountsRight
      <4>2. known[c.to] = accounts[c.to] /\ Total(entries, c.to) \in Int
        BY <2>3, <2>4, <3>1
      <4>3. Signed64(accounts[c.to].cents + x) = Signed64(open + (Total(entries, c.to) + x))
            /\ Signed64(accounts[c.to].cents + x) \in Int
        BY <4>1, <4>2, KeepsUp
      <4> QED BY <4>1, <4>2, <4>3
    <3>2. CASE c.to \notin DOMAIN accounts
      <4>1. Total(entries, c.to) = 0
        BY <1>0, <3>2 DEF AccountsRight
      <4>2. /\ DOMAIN known[c.to] = {"ccy", "cents", "opening"}
            /\ known[c.to].cents = 0 /\ known[c.to].opening = 0
        BY <2>4, <3>2 DEF Opened
      <4>3. Signed64(0 + x) \in Int /\ 0 + (0 + x) = 0 + x
        BY SignedIs
      <4> QED BY <4>1, <4>2, <4>3
    <3> QED BY <3>1, <3>2
  <2> HIDE DEF known
  <2> PICK new \in Int : new = Signed64(known[c.to].cents + x)
    BY <2>5
  <2>6. accounts' = [known EXCEPT ![c.to] = [known[c.to] EXCEPT !.cents = new]]
    BY <1>3
  <2>7. /\ DOMAIN accounts' = DOMAIN accounts \cup {c.to}
        /\ \A a \in DOMAIN accounts \ {c.to} : accounts'[a] = accounts[a]
        /\ accounts'[c.to] = [known[c.to] EXCEPT !.cents = new]
    BY <2>4, <2>6
  <2>8. /\ DOMAIN accounts'[c.to] = {"ccy", "cents", "opening"}
        /\ accounts'[c.to].cents = new /\ accounts'[c.to].opening = known[c.to].opening
    BY <2>5, <2>7
  <2>9. AccountsRight'
    <3> SUFFICES ASSUME NEW a \in IBANs
                 PROVE  IF a \in DOMAIN accounts'
                        THEN /\ DOMAIN accounts'[a] = {"ccy", "cents", "opening"}
                             /\ accounts'[a].cents \in Int /\ accounts'[a].opening \in Int
                             /\ accounts'[a].cents = Signed64(accounts'[a].opening + Total(entries', a))
                        ELSE Total(entries', a) = 0
      BY DEF AccountsRight
    <3>1. CASE a = c.to
      BY <2>3, <2>5, <2>7, <2>8, <3>1
    <3>2. CASE a # c.to
      BY <1>0, <2>3, <2>7, <3>2 DEF AccountsRight
    <3> QED BY <3>1, <3>2
  <2>10. DOMAIN accounts' \subseteq IBANs
    BY <1>0, <2>7
  <2> QED BY <1>1, <2>2, <2>9, <2>10, OnlyBank
<1> QED BY <1>2, <1>3 DEF Credit

\* An account is opened, with what it is told.
LEMMA CreateAccountKeeps == ASSUME PathInv, NEW o \in Openings, CreateAccount(o) PROVE PathInv'
<1> PICK x \in Int : x = Parse(o.whole)
  BY Amounts
<1> PICK a : a = o.iban
  OBVIOUS
<1>0. a \in IBANs /\ DOMAIN accounts \subseteq IBANs /\ entries \in Seq(EntryRecords) /\ AccountsRight /\ LedgerRight
  BY DEF IBANs, PathInv, PathShape
<1>1. /\ UNCHANGED <<sub, enqueues, events, received, transfers, request, orders, payments, byKey, lost, raced, entries>>
      /\ a \notin DOMAIN accounts /\ accounts' = Put(accounts, a, Opened(o.ccy, x))
  BY DEF CreateAccount, hookVars
<1>2. /\ DOMAIN accounts' = DOMAIN accounts \cup {a} /\ accounts'[a] = Opened(o.ccy, x)
      /\ \A b \in DOMAIN accounts : accounts'[b] = accounts[b]
  BY <1>1 DEF Put
<1>3. /\ DOMAIN accounts'[a] = {"ccy", "cents", "opening"}
      /\ accounts'[a].cents = x /\ accounts'[a].opening = x
  BY <1>2 DEF Opened
<1>4. x = Signed64(x + 0)
  BY Amounts, ParsedStays
<1>5. AccountsRight'
  <2> SUFFICES ASSUME NEW b \in IBANs
               PROVE  IF b \in DOMAIN accounts'
                      THEN /\ DOMAIN accounts'[b] = {"ccy", "cents", "opening"}
                           /\ accounts'[b].cents \in Int /\ accounts'[b].opening \in Int
                           /\ accounts'[b].cents = Signed64(accounts'[b].opening + Total(entries, b))
                      ELSE Total(entries, b) = 0
    BY <1>1 DEF AccountsRight
  <2>1. CASE b = a
    <3>1. Total(entries, a) = 0
      BY <1>0, <1>1 DEF AccountsRight
    <3> QED BY <1>2, <1>3, <1>4, <2>1, <3>1
  <2>2. CASE b # a
    BY <1>0, <1>2, <2>2 DEF AccountsRight
  <2> QED BY <2>1, <2>2
<1>6. DOMAIN accounts' \subseteq IBANs /\ entries' \in Seq(EntryRecords) /\ LedgerRight'
  BY <1>0, <1>1, <1>2 DEF LedgerRight
<1> QED BY <1>1, <1>5, <1>6, OnlyBank

LEMMA TwoEntries ==
  ASSUME NEW s \in Seq(EntryRecords), NEW d \in EntryRecords, NEW e \in EntryRecords
  PROVE  s \o <<d, e>> = Append(Append(s, d), e)
<1> PICK n \in Nat : n = Len(s)
  OBVIOUS
<1>1. s \o <<d, e>> \in Seq(EntryRecords) /\ Append(Append(s, d), e) \in Seq(EntryRecords)
  OBVIOUS
<1>2. Len(s \o <<d, e>>) = n + 2 /\ Len(Append(Append(s, d), e)) = n + 2
  OBVIOUS
<1>3. ASSUME NEW i \in 1..(n + 2) PROVE (s \o <<d, e>>)[i] = Append(Append(s, d), e)[i]
  OBVIOUS
<1> QED BY <1>1, <1>2, <1>3

\* A ledger t with the entries d and e of a transfer, and the transfers then.
HasMoveMore(t, sent, d, e) ==
  /\ t \in Seq(EntryRecords)
  /\ \A q \in DOMAIN orders : IF sent[q] = "moved" THEN MovedOnce(t, q, orders[q]) ELSE Mine(t, q) = {}
  /\ \A i \in DOMAIN t : t[i].payment \in {0} \cup DOMAIN orders
  /\ \A a : /\ Total(entries, a) \in Int
            /\ a = d.account /\ a # e.account => Total(t, a) = Total(entries, a) + d.cents
            /\ a # d.account /\ a = e.account => Total(t, a) = Total(entries, a) + e.cents
            /\ a # d.account /\ a # e.account => Total(t, a) = Total(entries, a)

LEMMA LedgerMoves ==
  ASSUME PathInv, NEW p \in DOMAIN orders, transfers[p] = "sent",
         NEW d \in EntryRecords, NEW e \in EntryRecords, d.payment = p, e.payment = p,
         d = Entry(orders[p].from, p, -Parse(orders[p].whole)), e = Entry(orders[p].to, p, Parse(orders[p].whole))
  PROVE  HasMoveMore(entries \o <<d, e>>, [transfers EXCEPT ![p] = "moved"], d, e)
<1> PICK t : t = entries \o <<d, e>>
  OBVIOUS
<1> PICK sent : sent = [transfers EXCEPT ![p] = "moved"]
  OBVIOUS
<1>0. entries \in Seq(EntryRecords) /\ DOMAIN transfers = DOMAIN orders
  <2>1. entries \in Seq(EntryRecords)
    BY DEF PathInv, PathShape
  <2>2. orders \in Seq(Orders) /\ transfers \in Seq(TransferStates) /\ Len(transfers) = Len(orders)
    BY DEF PathInv, PathShape
  <2> QED BY <2>1, <2>2
<1> PICK n : n = Len(entries)
  OBVIOUS
<1> PICK m : m = Append(entries, d)
  OBVIOUS
<1>1. HasOneMore(m, entries, d, n) /\ HasOneMore(t, m, e, n + 1)
  <2>1. HasOneMore(m, entries, d, n)
    BY <1>0, OneEntry, Zenon
  <2>2. m \in Seq(EntryRecords) /\ Len(m) = n + 1
    BY <2>1, Zenon DEF HasOneMore
  <2>3. t = Append(m, e)
    BY <1>0, TwoEntries, Zenon
  <2>4. HasOneMore(t, m, e, Len(m))
    BY <2>2, <2>3, OneEntry, Zenon
  <2> QED BY <2>1, <2>2, <2>4, Zenon
<1> HIDE DEF HasOneMore
<1>2. n \in Nat /\ DOMAIN entries = 1..n /\ DOMAIN m = 1..(n + 1) /\ DOMAIN t = 1..(n + 1 + 1)
      /\ t \in Seq(EntryRecords)
  BY <1>1, Zenon DEF HasOneMore
<1>3. /\ t[n + 1] = d /\ t[n + 1 + 1] = e
      /\ \A i \in 1..n : t[i] = entries[i]
  <2>1. m[n + 1] = d /\ t[n + 1 + 1] = e
    BY <1>1, Zenon DEF HasOneMore
  <2>2. \A i \in 1..n : m[i] = entries[i]
    BY <1>1, Zenon DEF HasOneMore
  <2>3. \A i \in 1..(n + 1) : t[i] = m[i]
    BY <1>1, Zenon DEF HasOneMore
  <2>4. n + 1 \in 1..(n + 1) /\ \A i \in 1..n : i \in 1..(n + 1)
    BY <1>2
  <2> QED BY <2>1, <2>2, <2>3, <2>4, Zenon
<1>4. ASSUME NEW q \in DOMAIN orders, q # p
      PROVE  IF sent[q] = "moved" THEN MovedOnce(t, q, orders[q]) ELSE Mine(t, q) = {}
  <2>1. Mine(t, q) = Mine(entries, q)
    <3>1. \A r : d.payment # r => Mine(m, r) = Mine(entries, r)
      BY <1>1, Zenon DEF HasOneMore
    <3>2. \A r : e.payment # r => Mine(t, r) = Mine(m, r)
      BY <1>1, Zenon DEF HasOneMore
    <3> QED BY <1>4, <3>1, <3>2, Zenon
  <2>2. sent[q] = transfers[q]
    BY <1>0, <1>4
  <2>3. IF transfers[q] = "moved" THEN MovedOnce(entries, q, orders[q]) ELSE Mine(entries, q) = {}
    BY <1>4 DEF PathInv, LedgerRight
  <2>4. DOMAIN entries \subseteq DOMAIN t
    BY <1>2
  <2>5. MovedOnce(entries, q, orders[q]) => MovedOnce(t, q, orders[q])
    BY <1>2, <1>3, <2>1, <2>4, MoveStays, ZenonT(30)
  <2> QED BY <2>1, <2>2, <2>3, <2>5
<1>5. MovedOnce(t, p, orders[p]) /\ sent[p] = "moved"
  <2>1. Mine(entries, p) = {}
    BY DEF PathInv, LedgerRight
  <2>2. \A i \in 1..n : t[i].payment # p
    <3>1. \A i \in 1..n : entries[i].payment # p
      BY <1>2, <2>1 DEF Mine
    <3> QED BY <1>3, <3>1, Zenon
  <2>3. t[n + 1].payment = p /\ t[n + 1 + 1].payment = p
    BY <1>3, Zenon
  <2>4. Mine(t, p) = {n + 1, n + 1 + 1}
    <3>1. ASSUME NEW i \in 1..(n + 1 + 1) PROVE t[i].payment = p <=> i \in {n + 1, n + 1 + 1}
      <4>1. i \in 1..n \/ i = n + 1 \/ i = n + 1 + 1
        BY <1>2
      <4>2. i \in 1..n => i \notin {n + 1, n + 1 + 1}
        BY <1>2
      <4> QED BY <2>2, <2>3, <4>1, <4>2, Zenon
    <3>2. n + 1 \in 1..(n + 1 + 1) /\ n + 1 + 1 \in 1..(n + 1 + 1)
      BY <1>2
    <3> QED BY <1>2, <3>1, <3>2, Zenon DEF Mine
  <2>5. n + 1 \in DOMAIN t
    BY <1>2
  <2>6. sent[p] = "moved"
    BY <1>0
  <2> QED BY <1>3, <2>4, <2>5, <2>6, Zenon DEF MovedOnce
<1>6. ASSUME NEW i \in DOMAIN t PROVE t[i].payment \in {0} \cup DOMAIN orders
  <2>1. \A j \in 1..n : entries[j].payment \in {0} \cup DOMAIN orders
    BY <1>2 DEF PathInv, LedgerRight
  <2>2. i \in 1..n \/ i = n + 1 \/ i = n + 1 + 1
    BY <1>2
  <2> QED BY <1>3, <2>1, <2>2, Zenon
<1>7. ASSUME NEW a
      PROVE  /\ Total(entries, a) \in Int
             /\ a = d.account /\ a # e.account => Total(t, a) = Total(entries, a) + d.cents
             /\ a # d.account /\ a = e.account => Total(t, a) = Total(entries, a) + e.cents
             /\ a # d.account /\ a # e.account => Total(t, a) = Total(entries, a)
  <2>1. Total(entries, a) \in Int /\ (d.account # a => Total(m, a) = Total(entries, a))
            /\ (d.account = a => Total(m, a) = Total(entries, a) + d.cents)
    BY <1>1, Zenon DEF HasOneMore
  <2>2. (e.account # a => Total(t, a) = Total(m, a))
            /\ (e.account = a => Total(t, a) = Total(m, a) + e.cents)
    BY <1>1, Zenon DEF HasOneMore
  <2> QED BY <2>1, <2>2, Zenon
<1>8. ASSUME NEW q \in DOMAIN orders
      PROVE  IF sent[q] = "moved" THEN MovedOnce(t, q, orders[q]) ELSE Mine(t, q) = {}
  BY <1>4, <1>5
<1> QED BY <1>2, <1>6, <1>7, <1>8, Zenon DEF HasMoveMore

\* Money moved leaves the account of one side keeping up with its entries.
LEMMA MovedRight ==
  ASSUME NEW a \in DOMAIN accounts, NEW x \in Int, NEW total \in Int, NEW open \in Int,
         DOMAIN accounts[a] = {"ccy", "cents", "opening"}, accounts[a].opening = open,
         accounts[a].cents = Signed64(open + total)
  PROVE  /\ DOMAIN Moved(a, x) = {"ccy", "cents", "opening"} /\ Moved(a, x).opening = open
         /\ Moved(a, x).cents \in Int /\ Moved(a, x).cents = Signed64(open + (total + x))
<1>1. Signed64(accounts[a].cents + x) = Signed64(open + (total + x)) /\ Signed64(accounts[a].cents + x) \in Int
  BY KeepsUp
<1>2. /\ DOMAIN Moved(a, x) = {"ccy", "cents", "opening"} /\ Moved(a, x).opening = accounts[a].opening
      /\ Moved(a, x).cents = Signed64(accounts[a].cents + x)
  BY DEF Moved
<1> QED BY <1>1, <1>2

\* Money is moved, or refused, once asked.
LEMMA TransferKeeps == ASSUME PathInv, NEW p \in DOMAIN transfers, Transfer(p) PROVE PathInv'
<1>0. /\ DOMAIN transfers = DOMAIN orders /\ p \in DOMAIN orders /\ DOMAIN orders \subseteq Nat \ {0}
      /\ orders[p] \in Orders
  <2>1. orders \in Seq(Orders) /\ transfers \in Seq(TransferStates) /\ Len(transfers) = Len(orders)
    BY DEF PathInv, PathShape
  <2> QED BY <2>1
<1> PICK o \in Orders : o = orders[p]
  BY <1>0
<1> PICK x \in Int : x = Parse(o.whole)
  BY Amounts
<1> PICK a, b : a = o.from /\ b = o.to
  OBVIOUS
<1>1. /\ UNCHANGED <<sub, enqueues, events, received, request, orders, payments, byKey, lost, raced>>
      /\ transfers[p] = "sent"
  BY DEF Transfer, hookVars
<1>2. PICK answer \in {"moved", "refused"} :
        /\ transfers' = [transfers EXCEPT ![p] = answer]
        /\ IF answer = "moved"
           THEN /\ MayMove(o)
                /\ accounts' = [accounts EXCEPT ![a] = Moved(a, -x), ![b] = Moved(b, x)]
                /\ entries' = entries \o <<Entry(a, p, -x), Entry(b, p, x)>>
           ELSE UNCHANGED bankVars
  <2>1. CASE MayMove(o)
    BY <2>1 DEF Transfer
  <2>2. CASE ~MayMove(o)
    BY <2>2 DEF Transfer
  <2> QED BY <2>1, <2>2
<1>3. /\ transfers' \in Seq(TransferStates) /\ Len(transfers') = Len(transfers)
      /\ DOMAIN transfers' = DOMAIN transfers /\ transfers'[p] = answer
      /\ \A q \in DOMAIN transfers \ {p} : transfers'[q] = transfers[q]
  <2>1. transfers \in Seq(TransferStates) /\ p \in DOMAIN transfers
    BY DEF PathInv, PathShape
  <2>2. transfers' = [transfers EXCEPT ![p] = answer] /\ answer \in TransferStates
    BY <1>2 DEF TransferStates
  <2> QED BY <2>1, <2>2
<1>4. \A q \in DOMAIN orders : transfers[q] \in {"moved", "refused"} => transfers'[q] = transfers[q]
  BY <1>0, <1>1, <1>3
<1>5. HooksInv'
  BY <1>1 DEF PathInv, HooksInv, HooksShape, GivenUp, ItsOwn
<1>6. ASSUME NEW r \in Requests PROVE Busy(r)'
  BY <1>1, <1>4 DEF PathInv, Busy, Bears
<1>7. (\A q \in DOMAIN orders : Bears(q, payments[q].status, payments[q].notification))'
  BY <1>1, <1>4 DEF PathInv, Bears
<1>8. KeysKept'
  BY <1>1 DEF PathInv, KeysKept
<1>9. /\ entries' \in Seq(EntryRecords) /\ DOMAIN accounts' \subseteq IBANs
      /\ LedgerRight' /\ AccountsRight'
  <2>1. CASE answer = "refused"
    <3>1. UNCHANGED <<accounts, entries>>
      BY <1>2, <2>1 DEF bankVars
    <3>2. LedgerRight'
      <4>1. \A q \in DOMAIN orders : transfers'[q] = "moved" <=> transfers[q] = "moved"
        BY <1>0, <1>1, <1>3, <2>1
      <4> QED BY <1>1, <3>1, <4>1 DEF PathInv, LedgerRight
    <3> QED BY <3>1, <3>2 DEF PathInv, PathShape, AccountsRight
  <2>2. CASE answer = "moved"
    <3>1. /\ accounts' = [accounts EXCEPT ![a] = Moved(a, -x), ![b] = Moved(b, x)]
          /\ entries' = entries \o <<Entry(a, p, -x), Entry(b, p, x)>>
      BY <1>2, <2>2
    <3>2. a \in DOMAIN accounts /\ b \in DOMAIN accounts /\ a # b
      BY <1>2, <2>2 DEF MayMove
    <3>3. DOMAIN accounts \subseteq IBANs /\ AccountsRight
      BY DEF PathInv, PathShape
    <3> PICK d : d = Entry(a, p, -x)
      OBVIOUS
    <3> PICK e : e = Entry(b, p, x)
      OBVIOUS
    <3>4. /\ d \in EntryRecords /\ d.payment = p /\ d.account = a /\ d.cents = -x
          /\ e \in EntryRecords /\ e.payment = p /\ e.account = b /\ e.cents = x
      BY <1>0, <3>2, <3>3 DEF Entry, EntryRecords
    <3>5. entries' = entries \o <<d, e>> /\ transfers' = [transfers EXCEPT ![p] = "moved"]
      BY <1>2, <2>2, <3>1
    <3>6. /\ entries' \in Seq(EntryRecords)
          /\ \A q \in DOMAIN orders : IF transfers'[q] = "moved" THEN MovedOnce(entries', q, orders[q])
                                                                  ELSE Mine(entries', q) = {}
          /\ \A i \in DOMAIN entries' : entries'[i].payment \in {0} \cup DOMAIN orders
          /\ \A c : /\ Total(entries, c) \in Int
                    /\ c = a /\ c # b => Total(entries', c) = Total(entries, c) + (-x)
                    /\ c # a /\ c = b => Total(entries', c) = Total(entries, c) + x
                    /\ c # a /\ c # b => Total(entries', c) = Total(entries, c)
      <4>1. d = Entry(orders[p].from, p, -Parse(orders[p].whole)) /\ e = Entry(orders[p].to, p, Parse(orders[p].whole))
        BY Zenon
      <4>2. HasMoveMore(entries \o <<d, e>>, [transfers EXCEPT ![p] = "moved"], d, e)
        BY <1>0, <1>1, <3>4, <4>1, LedgerMoves, Zenon
      <4>3. HasMoveMore(entries', transfers', d, e)
        BY <3>5, <4>2, Zenon
      <4>4. d.account = a /\ e.account = b /\ d.cents = -x /\ e.cents = x
        BY <3>4
      <4> QED BY <4>3, <4>4, Zenon DEF HasMoveMore
    <3>7. LedgerRight'
      BY <1>1, <3>6 DEF LedgerRight
    <3>8. /\ DOMAIN accounts' = DOMAIN accounts /\ accounts'[a] = Moved(a, -x) /\ accounts'[b] = Moved(b, x)
          /\ \A c \in DOMAIN accounts \ {a, b} : accounts'[c] = accounts[c]
      BY <3>1, <3>2
    <3>9. ASSUME NEW c \in DOMAIN accounts, NEW y \in Int, accounts'[c] = Moved(c, y),
                 Total(entries', c) = Total(entries, c) + y
          PROVE  /\ DOMAIN accounts'[c] = {"ccy", "cents", "opening"}
                 /\ accounts'[c].cents \in Int /\ accounts'[c].opening \in Int
                 /\ accounts'[c].cents = Signed64(accounts'[c].opening + Total(entries', c))
      <4>1. /\ DOMAIN accounts[c] = {"ccy", "cents", "opening"} /\ accounts[c].opening \in Int
            /\ accounts[c].cents = Signed64(accounts[c].opening + Total(entries, c))
        BY <3>3, <3>9 DEF AccountsRight
      <4>2. Total(entries, c) \in Int
        BY <3>6
      <4> PICK open \in Int, total \in Int : open = accounts[c].opening /\ total = Total(entries, c)
        BY <4>1, <4>2
      <4>3. /\ DOMAIN Moved(c, y) = {"ccy", "cents", "opening"} /\ Moved(c, y).opening = open
            /\ Moved(c, y).cents \in Int /\ Moved(c, y).cents = Signed64(open + (total + y))
        BY <3>9, <4>1, MovedRight
      <4> QED BY <3>9, <4>3
    <3>10. AccountsRight'
      <4> SUFFICES ASSUME NEW c \in IBANs
                   PROVE  IF c \in DOMAIN accounts'
                          THEN /\ DOMAIN accounts'[c] = {"ccy", "cents", "opening"}
                               /\ accounts'[c].cents \in Int /\ accounts'[c].opening \in Int
                               /\ accounts'[c].cents = Signed64(accounts'[c].opening + Total(entries', c))
                          ELSE Total(entries', c) = 0
        BY DEF AccountsRight
      <4>1. CASE c = a
        BY <3>2, <3>6, <3>8, <3>9, <4>1
      <4>2. CASE c = b
        BY <3>2, <3>6, <3>8, <3>9, <4>2
      <4>3. CASE c # a /\ c # b
        BY <3>3, <3>6, <3>8, <4>3 DEF AccountsRight
      <4> QED BY <4>1, <4>2, <4>3
    <3> QED BY <3>3, <3>6, <3>7, <3>8, <3>10
  <2> QED BY <2>1, <2>2
<1>10. PathShape'
  BY <1>1, <1>3, <1>9 DEF PathInv, PathShape
<1> QED BY <1>5, <1>6, <1>7, <1>8, <1>9, <1>10 DEF PathInv
-----------------------------------------------------------------------------
(***************************************************************************)
(* The payment API's requests                                              *)
(***************************************************************************)

LEMMA BankStays ==
  ASSUME PathInv, UNCHANGED <<accounts, entries>>
  PROVE  AccountsRight' /\ (UNCHANGED <<orders, transfers>> => LedgerRight')
<1> QED BY DEF PathInv, AccountsRight, LedgerRight

LEMMA NothingSaid == NotRecorded.status = "" /\ NotRecorded.notification = ""
<1> QED BY DEF NotRecorded

\* A request goes on, with the payment it is at if it has one.
LEMMA RequestGoesOn ==
  ASSUME PathInv, NEW r \in Requests, NEW q, IsRequest(q), request' = [request EXCEPT ![r] = q],
         UNCHANGED <<accounts, entries, transfers, orders, payments, byKey, raced>>, HooksInv', lost \subseteq lost',
         DOMAIN enqueues \subseteq DOMAIN enqueues',
         \A p \in DOMAIN enqueues : enqueues'[p] = enqueues[p] \/ (Past(q) /\ p = q.id),
         Past(q) <=> Past(request[r]),
         Past(q) => q.id = request[r].id /\ q.order = request[r].order,
         q.step = "enqueue" => transfers[q.id] = "moved" /\ q.id \in DOMAIN enqueues',
         q.step = "put" => /\ q.status \in {"accepted", "rejected"}
                           /\ q.notification \in {"enqueued", "enqueue_failed", "not_enqueued"}
                           /\ Bears(q.id, q.status, q.notification)'
  PROVE  PathInv'
<1>1. /\ DOMAIN request = Requests /\ DOMAIN request' = Requests /\ request'[r] = q
      /\ \A s \in Requests \ {r} : request'[s] = request[s]
  BY DEF PathInv, PathShape
<1>2. \A s \in Requests : (Past(request'[s]) <=> Past(request[s]))
                          /\ (Past(request[s]) => request'[s].id = request[s].id /\ request'[s].order = request[s].order)
  BY <1>1
<1>3. PathShape'
  BY <1>1 DEF PathInv, PathShape
<1>4. ASSUME NEW s \in Requests PROVE Busy(s)'
  <2>0. Busy(s)
    BY DEF PathInv
  <2> SUFFICES ASSUME Past(request[s]), NEW w, w = request'[s]
               PROVE  /\ w.id \in DOMAIN orders /\ w.order = orders[w.id] /\ payments[w.id] = NotRecorded
                      /\ \A v \in Requests \ {s} : Past(request'[v]) => request'[v].id # w.id
                      /\ w.step = "enqueue" => transfers[w.id] = "moved" /\ w.id \in DOMAIN enqueues'
                      /\ w.step = "put" => /\ w.status \in {"accepted", "rejected"}
                                           /\ w.notification \in {"enqueued", "enqueue_failed", "not_enqueued"}
                                           /\ Bears(w.id, w.status, w.notification)'
    BY <1>2 DEF Busy, Bears
  <2>1. w.id = request[s].id /\ w.order = request[s].order
    BY <1>2
  <2>2. w.id \in DOMAIN orders /\ w.order = orders[w.id] /\ payments[w.id] = NotRecorded
    BY <2>0, <2>1 DEF Busy
  <2>3. \A v \in Requests \ {s} : Past(request'[v]) => request'[v].id # w.id
    <3> SUFFICES ASSUME NEW v \in Requests \ {s}, Past(request'[v]) PROVE request'[v].id # w.id
      OBVIOUS
    <3>1. Past(request[v]) /\ request'[v].id = request[v].id
      BY <1>2
    <3>2. request[v].id # request[s].id
      BY <2>0, <3>1 DEF Busy
    <3> QED BY <2>1, <3>1, <3>2
  <2>4. CASE s = r
    BY <1>1, <2>2, <2>3, <2>4
  <2>5. CASE s # r
    <3>1. w = request[s]
      BY <1>1, <2>5
    <3>2. w.step = "enqueue" => transfers[w.id] = "moved" /\ w.id \in DOMAIN enqueues'
      BY <2>0, <3>1 DEF Busy
    <3>3. ASSUME w.step = "put"
          PROVE  /\ w.status \in {"accepted", "rejected"}
                 /\ w.notification \in {"enqueued", "enqueue_failed", "not_enqueued"}
                 /\ Bears(w.id, w.status, w.notification)'
      <4>1. /\ w.status \in {"accepted", "rejected"}
            /\ w.notification \in {"enqueued", "enqueue_failed", "not_enqueued"}
            /\ Bears(w.id, w.status, w.notification)
        BY <2>0, <3>1, <3>3 DEF Busy
      <4>2. Past(q) => w.id # q.id
        BY <2>0, <2>5, <3>1 DEF Busy
      <4>3. Bears(w.id, w.status, w.notification)'
        <5>1. w.id \in DOMAIN enqueues => w.id \in DOMAIN enqueues' /\ enqueues'[w.id] = enqueues[w.id]
          BY <4>2
        <5> QED BY <4>1, <5>1 DEF Bears
      <4> QED BY <4>1, <4>3
    <3> QED BY <2>2, <2>3, <3>2, <3>3
  <2> QED BY <2>4, <2>5
<1>5. (\A p \in DOMAIN orders : Bears(p, payments[p].status, payments[p].notification))'
  <2> SUFFICES ASSUME NEW p \in DOMAIN orders PROVE Bears(p, payments[p].status, payments[p].notification)'
    BY Zenon
  <2>1. Bears(p, payments[p].status, payments[p].notification)
    BY DEF PathInv
  <2>2. CASE Past(q) /\ p = q.id
    <3>1. payments[p] = NotRecorded
      <4>1. Past(request[r]) /\ request[r].id = p
        BY <2>2
      <4> QED BY <4>1 DEF PathInv, Busy
    <3>2. payments[p].status = "" /\ payments[p].notification = ""
      BY <3>1, NothingSaid, Zenon
    <3> QED BY <3>2 DEF Bears
  <2>3. CASE ~(Past(q) /\ p = q.id)
    BY <2>1, <2>3 DEF Bears
  <2> QED BY <2>2, <2>3
<1>6. KeysKept'
  <2>1. ASSUME NEW p \in DOMAIN orders
        PROVE  \/ orders[p].key \in {NoKey} \cup DOMAIN byKey
               \/ \E s \in Requests : Past(request'[s]) /\ request'[s].id = p
    BY <1>2 DEF PathInv, KeysKept
  <2> QED BY <2>1 DEF PathInv, KeysKept
<1> QED BY <1>3, <1>4, <1>5, <1>6, BankStays DEF PathInv

\* It is asked something.
LEMMA AskKeeps == ASSUME PathInv, NEW r \in Requests, Ask(r) PROVE PathInv'
<1>1. PICK o \in Orders : request' = [request EXCEPT ![r] = [step |-> "look", order |-> o]]
  BY DEF Ask
<1>2. /\ UNCHANGED <<accounts, entries, transfers, orders, payments, byKey, raced, lost>>
      /\ UNCHANGED <<sub, enqueues, events, received>> /\ request[r].step = "idle"
  BY DEF Ask, hookVars, bankVars
<1> PICK q : q = [step |-> "look", order |-> o]
  OBVIOUS
<1>3. IsRequest(q) /\ ~Past(q) /\ ~Past(request[r]) /\ q.step = "look"
  BY <1>1, <1>2 DEF IsRequest, Past
<1>4. HooksInv'
  BY <1>2 DEF PathInv, HooksInv, HooksShape, GivenUp, ItsOwn
<1> QED BY <1>1, <1>2, <1>3, <1>4, RequestGoesOn

\* It is answered with the payment its key has.
LEMMA ReplayKeeps == ASSUME PathInv, NEW r \in Requests, Replay(r) PROVE PathInv'
<1>1. /\ UNCHANGED <<accounts, entries, transfers, orders, payments, byKey, raced, lost>>
      /\ UNCHANGED <<sub, enqueues, events, received>> /\ request[r].step = "look"
      /\ request' = [request EXCEPT ![r] = Waiting]
  BY DEF Replay, hookVars, bankVars
<1>2. IsRequest(Waiting) /\ ~Past(Waiting) /\ ~Past(request[r]) /\ Waiting.step = "idle"
  BY <1>1 DEF IsRequest, Past, Waiting
<1>3. HooksInv'
  BY <1>1 DEF PathInv, HooksInv, HooksShape, GivenUp, ItsOwn
<1> PICK q : q = Waiting
  OBVIOUS
<1> QED BY <1>1, <1>2, <1>3, RequestGoesOn

\* What a request is to record.
Recording(w, status, notification) ==
  [step |-> "put", order |-> w.order, id |-> w.id, status |-> status, notification |-> notification]

LEMMA RecordingIs ==
  ASSUME NEW w, NEW status, NEW notification, NEW q, q = Recording(w, status, notification)
  PROVE  /\ IsRequest(q) /\ Past(q) /\ q.step = "put" /\ q.id = w.id /\ q.order = w.order
         /\ q.status = status /\ q.notification = notification
<1> QED BY DEF Recording, IsRequest, Past

\* The bank has answered, or has not.
LEMMA TransferAnsweredKeeps == ASSUME PathInv, NEW r \in Requests, TransferAnswered(r) PROVE PathInv'
<1> PICK w : w = request[r]
  OBVIOUS
<1> PICK p : p = w.id
  OBVIOUS
<1>1. /\ UNCHANGED <<accounts, entries, transfers, orders, payments, byKey, raced>>
      /\ UNCHANGED <<sub, events, received>> /\ w.step = "transfer" /\ lost \subseteq lost'
  BY DEF TransferAnswered, bankVars
<1>2. Past(w) /\ DOMAIN request = Requests /\ IsRequest(w)
  BY <1>1 DEF Past, PathInv, PathShape
<1>3. p \in DOMAIN orders /\ DOMAIN orders \subseteq Nat
  <2>1. orders \in Seq(Orders)
    BY DEF PathInv, PathShape
  <2>2. p \in DOMAIN orders
    BY <1>2 DEF PathInv, Busy
  <2> QED BY <2>1, <2>2
<1>4. CASE /\ transfers[p] = "moved" /\ enqueues' = Put(enqueues, p, [at |-> "sent", sub |-> sub])
           /\ request' = [request EXCEPT ![r].step = "enqueue"]
  <2>1. /\ DOMAIN enqueues' = DOMAIN enqueues \cup {p} /\ enqueues'[p] = [at |-> "sent", sub |-> sub]
        /\ \A x \in DOMAIN enqueues \ {p} : enqueues'[x] = enqueues[x]
    BY <1>4 DEF Put
  <2>2. HooksInv'
    <3>1. DOMAIN enqueues' \subseteq Nat
      BY <1>3, <2>1 DEF PathInv, HooksInv, HooksShape
    <3>2. \A x \in DOMAIN enqueues' :
           \/ x \in DOMAIN enqueues /\ enqueues'[x] = enqueues[x]
           \/ FreshCall(enqueues'[x])
      BY <2>1 DEF FreshCall
    <3>3. HooksInv
      BY DEF PathInv
    <3>4. UNCHANGED <<events, received, sub>>
      BY <1>1
    <3> QED BY <3>1, <3>2, <3>3, <3>4, EnqueueMoves, Zenon
  <2> PICK q : q = [w EXCEPT !.step = "enqueue"]
    OBVIOUS
  <2>3. IsRequest(q) /\ Past(q) /\ q.step = "enqueue" /\ q.id = p /\ q.order = w.order
    BY <1>1, <1>2 DEF IsRequest, Past
  <2>4. request' = [request EXCEPT ![r] = q]
    BY <1>4
  <2>5. /\ DOMAIN enqueues \subseteq DOMAIN enqueues' /\ p \in DOMAIN enqueues'
        /\ \A x \in DOMAIN enqueues : enqueues'[x] = enqueues[x] \/ (Past(q) /\ x = q.id)
    BY <2>1, <2>3
  <2>6. (Past(q) <=> Past(request[r])) /\ (Past(q) => q.id = request[r].id /\ q.order = request[r].order)
    BY <1>2, <2>3
  <2>7. /\ q.step = "enqueue" => transfers[q.id] = "moved" /\ q.id \in DOMAIN enqueues'
        /\ q.step # "put"
    BY <1>4, <2>3, <2>5
  <2> QED BY <1>1, <2>2, <2>3, <2>4, <2>5, <2>6, <2>7, RequestGoesOn
<1>5. CASE UNCHANGED enqueues /\ ToPut(r, "rejected", "not_enqueued")
           /\ (transfers[p] = "refused" \/ lost' = lost \cup {p})
  <2> PICK q : q = Recording(w, "rejected", "not_enqueued")
    OBVIOUS
  <2>1. /\ IsRequest(q) /\ Past(q) /\ q.step = "put" /\ q.id = p /\ q.order = w.order
        /\ q.status = "rejected" /\ q.notification = "not_enqueued"
    BY RecordingIs
  <2>2. request' = [request EXCEPT ![r] = q]
    BY <1>5 DEF ToPut, Recording
  <2>3. HooksInv'
    BY <1>1, <1>5 DEF PathInv, HooksInv, HooksShape, GivenUp, ItsOwn
  <2>4. Bears(q.id, q.status, q.notification)'
    BY <1>1, <1>5, <2>1 DEF Bears
  <2> QED BY <1>1, <1>2, <1>5, <2>1, <2>2, <2>3, <2>4, RequestGoesOn
<1> QED BY <1>4, <1>5 DEF TransferAnswered

\* The notifier has answered, or has not.
LEMMA EnqueueAnsweredKeeps == ASSUME PathInv, NEW r \in Requests, EnqueueAnswered(r) PROVE PathInv'
<1> PICK w : w = request[r]
  OBVIOUS
<1> PICK p : p = w.id
  OBVIOUS
<1>1. /\ UNCHANGED <<accounts, entries, transfers, orders, payments, byKey, raced, lost>>
      /\ UNCHANGED <<sub, enqueues, events, received>> /\ w.step = "enqueue"
  BY DEF EnqueueAnswered, bankVars, hookVars
<1>2. Past(w) /\ DOMAIN request = Requests
  BY <1>1 DEF Past, PathInv, PathShape
<1>3. p \in DOMAIN enqueues /\ transfers[p] = "moved"
  BY <1>1, <1>2 DEF PathInv, Busy
<1>4. PICK told \in {"enqueued", "enqueue_failed"} :
        ToPut(r, "accepted", told) /\ (told = "enqueued" => enqueues[p].at = "queued")
  BY DEF EnqueueAnswered
<1> PICK q : q = Recording(w, "accepted", told)
  OBVIOUS
<1>5. /\ IsRequest(q) /\ Past(q) /\ q.step = "put" /\ q.id = p /\ q.order = w.order
      /\ q.status = "accepted" /\ q.notification = told
  BY RecordingIs
<1>6. request' = [request EXCEPT ![r] = q]
  BY <1>4 DEF ToPut, Recording
<1>7. HooksInv'
  BY <1>1 DEF PathInv, HooksInv, HooksShape, GivenUp, ItsOwn
<1>8. Bears(q.id, q.status, q.notification)'
  BY <1>1, <1>3, <1>4, <1>5 DEF Bears
<1> QED BY <1>1, <1>2, <1>4, <1>5, <1>6, <1>7, <1>8, RequestGoesOn

\* t is s, of n elements of S, and x.
HasNext(t, s, S, x, n) ==
  /\ t \in Seq(S) /\ Len(t) = n + 1 /\ DOMAIN t = 1..(n + 1) /\ DOMAIN s = 1..n
  /\ t[n + 1] = x /\ \A p \in 1..n : t[p] = s[p]

LEMMA Appended ==
  ASSUME NEW S, NEW s \in Seq(S), NEW x \in S, NEW n \in Nat, Len(s) = n
  PROVE  HasNext(Append(s, x), s, S, x, n)
<1> QED BY DEF HasNext

\* It is handed a payment of its own.
LEMMA SendKeeps == ASSUME PathInv, NEW r \in Requests, Send(r) PROVE PathInv'
<1> PICK o : o = request[r].order
  OBVIOUS
<1>0. /\ orders \in Seq(Orders) /\ payments \in Seq(PaymentRecords) /\ transfers \in Seq(TransferStates)
      /\ Len(transfers) = Len(orders) /\ Len(payments) = Len(orders)
      /\ DOMAIN request = Requests /\ request[r].step = "look" /\ o \in Orders
  <2>1. IsRequest(request[r]) /\ request[r].step = "look"
    BY DEF PathInv, PathShape, Send
  <2>2. o \in Orders
    BY <2>1 DEF IsRequest
  <2> QED BY <2>1, <2>2 DEF PathInv, PathShape
<1> PICK n \in Nat : n = Len(orders)
  BY <1>0
<1>1. /\ UNCHANGED <<accounts, entries, byKey, lost, sub, enqueues, events, received>>
      /\ orders' = Append(orders, o) /\ payments' = Append(payments, NotRecorded)
      /\ transfers' = Append(transfers, "sent")
      /\ request' = [request EXCEPT ![r] = [step |-> "transfer", order |-> o, id |-> n + 1]]
      /\ raced' = IF AtOnce(r) THEN raced \cup {o.key} ELSE raced
      /\ o.key = NoKey \/ o.key \notin DOMAIN byKey
  BY DEF Send, hookVars, bankVars, KeyOf
<1> PICK q : q = [step |-> "transfer", order |-> o, id |-> n + 1]
  OBVIOUS
<1>2. IsRequest(q) /\ Past(q) /\ q.step = "transfer" /\ q.order = o /\ q.id = n + 1
  BY DEF IsRequest, Past
<1>3. /\ DOMAIN request' = Requests /\ request'[r] = q /\ \A s \in Requests \ {r} : request'[s] = request[s]
      /\ ~Past(request[r])
  BY <1>0, <1>1 DEF Past
<1>4. /\ DOMAIN orders = 1..n /\ DOMAIN payments = 1..n /\ DOMAIN transfers = 1..n
      /\ DOMAIN orders' = 1..(n + 1) /\ DOMAIN payments' = 1..(n + 1) /\ DOMAIN transfers' = 1..(n + 1)
      /\ orders'[n + 1] = o /\ payments'[n + 1] = NotRecorded /\ transfers'[n + 1] = "sent"
      /\ \A p \in 1..n : p # n + 1 /\ p \in 1..(n + 1)
                        /\ orders'[p] = orders[p] /\ payments'[p] = payments[p] /\ transfers'[p] = transfers[p]
      /\ n + 1 \in 1..(n + 1) /\ \A p \in 1..(n + 1) : p = n + 1 \/ p \in 1..n
      /\ orders' \in Seq(Orders) /\ payments' \in Seq(PaymentRecords) /\ transfers' \in Seq(TransferStates)
      /\ Len(transfers') = Len(orders') /\ Len(payments') = Len(orders')
  <2>1. "sent" \in TransferStates /\ NotRecorded \in PaymentRecords
    BY DEF TransferStates, PaymentRecords, NotRecorded
  <2>2. HasNext(orders', orders, Orders, o, n) /\ HasNext(payments', payments, PaymentRecords, NotRecorded, n)
        /\ HasNext(transfers', transfers, TransferStates, "sent", n)
    <3>1. Len(payments) = n /\ Len(transfers) = n /\ Len(orders) = n
      BY <1>0
    <3>2. HasNext(Append(orders, o), orders, Orders, o, n)
      BY <1>0, <3>1, Appended, Zenon
    <3>3. HasNext(Append(payments, NotRecorded), payments, PaymentRecords, NotRecorded, n)
      BY <1>0, <2>1, <3>1, Appended, Zenon
    <3>4. HasNext(Append(transfers, "sent"), transfers, TransferStates, "sent", n)
      BY <1>0, <2>1, <3>1, Appended, Zenon
    <3> QED BY <1>1, <3>2, <3>3, <3>4, Zenon
  <2>3. n + 1 \in 1..(n + 1) /\ \A p \in 1..(n + 1) : p = n + 1 \/ p \in 1..n
    OBVIOUS
  <2>4. \A p \in 1..n : p # n + 1 /\ p \in 1..(n + 1)
    OBVIOUS
  <2> QED BY <2>2, <2>3, <2>4, Zenon DEF HasNext
<1>5. HooksInv'
  BY <1>1 DEF PathInv, HooksInv, HooksShape, GivenUp, ItsOwn
<1>6. PathShape'
  BY <1>1, <1>2, <1>3, <1>4 DEF PathInv, PathShape
<1>7. ASSUME NEW s \in Requests PROVE Busy(s)'
  <2>1. CASE s = r
    <3>1. \A v \in Requests \ {s} : Past(request'[v]) => request'[v].id # n + 1
      BY <1>3, <1>4, <2>1 DEF PathInv, Busy
    <3> QED BY <1>2, <1>3, <1>4, <2>1, <3>1 DEF Busy
  <2>2. CASE s # r
    <3>1. request'[s] = request[s]
      BY <1>3, <2>2
    <3> SUFFICES ASSUME Past(request[s]) PROVE Busy(s)'
      BY <3>1 DEF Busy
    <3> PICK w : w = request[s]
      OBVIOUS
    <3>2. /\ w.id \in 1..n /\ w.order = orders[w.id] /\ payments[w.id] = NotRecorded
          /\ \A v \in Requests \ {s} : Past(request[v]) => request[v].id # w.id
          /\ w.step = "enqueue" => transfers[w.id] = "moved" /\ w.id \in DOMAIN enqueues
          /\ w.step = "put" => /\ w.status \in {"accepted", "rejected"}
                               /\ w.notification \in {"enqueued", "enqueue_failed", "not_enqueued"}
                               /\ Bears(w.id, w.status, w.notification)
      BY <1>4 DEF PathInv, Busy
    <3>3. \A v \in Requests \ {s} : Past(request'[v]) => request'[v].id # w.id
      BY <1>2, <1>3, <1>4, <3>2
    <3>4. w.step = "put" => Bears(w.id, w.status, w.notification)'
      BY <1>1, <1>4, <3>2 DEF Bears
    <3> QED BY <1>1, <1>4, <3>1, <3>2, <3>3, <3>4 DEF Busy
  <2> QED BY <2>1, <2>2
<1>8. (\A p \in DOMAIN orders : Bears(p, payments[p].status, payments[p].notification))'
  <2> SUFFICES ASSUME NEW p \in 1..(n + 1) PROVE Bears(p, payments[p].status, payments[p].notification)'
    BY <1>4
  <2>1. CASE p = n + 1
    <3>1. payments'[p].status = "" /\ payments'[p].notification = ""
      BY <1>4, <2>1, NothingSaid, Zenon
    <3> QED BY <3>1 DEF Bears
  <2>2. CASE p \in 1..n
    <3>1. Bears(p, payments[p].status, payments[p].notification)
      BY <1>4, <2>2 DEF PathInv
    <3> QED BY <1>1, <1>4, <2>2, <3>1 DEF Bears
  <2> QED BY <1>4, <2>1, <2>2
<1>9. KeysKept'
  <2>1. ASSUME NEW p \in 1..(n + 1)
        PROVE  \/ orders'[p].key \in {NoKey} \cup DOMAIN byKey
               \/ \E s \in Requests : Past(request'[s]) /\ request'[s].id = p
    <3>1. CASE p = n + 1
      BY <1>2, <1>3, <3>1
    <3>2. CASE p \in 1..n
      <4>1. \/ orders[p].key \in {NoKey} \cup DOMAIN byKey
            \/ \E s \in Requests : Past(request[s]) /\ request[s].id = p
        BY <1>4, <3>2 DEF PathInv, KeysKept
      <4>2. ASSUME NEW s \in Requests, Past(request[s]) PROVE request'[s] = request[s]
        BY <1>3, <4>2
      <4> QED BY <1>4, <3>2, <4>1, <4>2
    <3> QED BY <1>4, <3>1, <3>2
  <2>2. ASSUME NEW p \in 1..n, orders[p].key = o.key
        PROVE  o.key \in raced' \cup {NoKey}
    <3> SUFFICES ASSUME o.key # NoKey PROVE AtOnce(r)
      BY <1>1
    <3>1. PICK s \in Requests : Past(request[s]) /\ request[s].id = p
      BY <1>1, <1>4, <2>2 DEF PathInv, KeysKept
    <3>2. s # r /\ request[s].step \notin {"idle", "look"}
      BY <1>3, <3>1 DEF Past
    <3>3. request[s].order = orders[p]
      BY <3>1 DEF PathInv, Busy
    <3> QED BY <2>2, <3>2, <3>3 DEF AtOnce, KeyOf
  <2>3. ASSUME NEW p \in 1..(n + 1), NEW t \in 1..(n + 1), p < t, orders'[p].key = orders'[t].key
        PROVE  orders'[p].key \in raced' \cup {NoKey}
    <3>1. p \in 1..n
      BY <2>3
    <3>2. CASE t = n + 1
      BY <1>4, <2>2, <2>3, <3>1, <3>2
    <3>3. CASE t \in 1..n
      <4>1. orders[p].key \in raced \cup {NoKey}
        BY <1>4, <2>3, <3>1, <3>3 DEF PathInv, KeysKept
      <4>2. raced \subseteq raced'
        BY <1>1
      <4> QED BY <1>4, <3>1, <4>1, <4>2
    <3> QED BY <1>4, <2>3, <3>2, <3>3
  <2> QED BY <1>1, <1>4, <2>1, <2>3 DEF KeysKept
<1>10. LedgerRight'
  <2>1. ASSUME NEW p \in 1..(n + 1)
        PROVE  IF transfers'[p] = "moved" THEN MovedOnce(entries, p, orders'[p]) ELSE Mine(entries, p) = {}
    <3>1. CASE p = n + 1
      BY <1>4, <3>1 DEF PathInv, LedgerRight, Mine
    <3>2. CASE p \in 1..n
      BY <1>4, <3>2 DEF PathInv, LedgerRight
    <3> QED BY <1>4, <3>1, <3>2
  <2>2. \A i \in DOMAIN entries : entries[i].payment \in {0} \cup DOMAIN orders'
    BY <1>4 DEF PathInv, LedgerRight
  <2> QED BY <1>1, <1>4, <2>1, <2>2 DEF LedgerRight
<1> QED BY <1>1, <1>5, <1>6, <1>7, <1>8, <1>9, <1>10, BankStays DEF PathInv

\* It records its payment, and the payment's key.
LEMMA PutKeeps == ASSUME PathInv, NEW r \in Requests, PutPayment(r) PROVE PathInv'
<1> PICK w : w = request[r]
  OBVIOUS
<1> PICK p : p = w.id
  OBVIOUS
<1>1. /\ UNCHANGED <<accounts, entries, transfers, orders, raced, lost>>
      /\ UNCHANGED <<sub, enqueues, events, received>> /\ w.step = "put"
      /\ payments' = [payments EXCEPT ![p] = [status |-> w.status, notification |-> w.notification]]
      /\ byKey' = IF w.order.key = NoKey THEN byKey ELSE Put(byKey, w.order.key, p)
      /\ request' = [request EXCEPT ![r] = Waiting]
  BY DEF PutPayment, bankVars, hookVars, KeyOf
<1>2. Past(w) /\ DOMAIN request = Requests
  BY <1>1 DEF Past, PathInv, PathShape
<1>3. /\ p \in DOMAIN orders /\ w.order = orders[p] /\ w.status \in {"accepted", "rejected"}
      /\ w.notification \in {"enqueued", "enqueue_failed", "not_enqueued"}
      /\ Bears(p, w.status, w.notification)
      /\ \A s \in Requests \ {r} : Past(request[s]) => request[s].id # p
  BY <1>1, <1>2 DEF PathInv, Busy
<1>4. payments \in Seq(PaymentRecords) /\ Len(payments) = Len(orders) /\ DOMAIN payments = DOMAIN orders
  <2>1. payments \in Seq(PaymentRecords) /\ Len(payments) = Len(orders) /\ orders \in Seq(Orders)
    BY DEF PathInv, PathShape
  <2> QED BY <2>1
<1> PICK rec : rec = [status |-> w.status, notification |-> w.notification]
  OBVIOUS
<1>5. rec \in PaymentRecords /\ rec.status = w.status /\ rec.notification = w.notification
  BY <1>3 DEF PaymentRecords
<1>6. /\ payments' \in Seq(PaymentRecords) /\ Len(payments') = Len(payments) /\ payments'[p] = rec
      /\ \A t \in DOMAIN orders \ {p} : payments'[t] = payments[t]
  <2>1. payments' = [payments EXCEPT ![p] = rec]
    BY <1>1
  <2> QED BY <1>3, <1>4, <1>5, <2>1
<1>7. /\ DOMAIN request' = Requests /\ request'[r] = Waiting /\ ~Past(Waiting) /\ IsRequest(Waiting)
      /\ \A s \in Requests \ {r} : request'[s] = request[s]
  BY <1>1, <1>2 DEF Past, IsRequest, Waiting
<1>8. DOMAIN byKey \subseteq DOMAIN byKey' /\ w.order.key \in {NoKey} \cup DOMAIN byKey'
  BY <1>1 DEF Put
<1>9. HooksInv'
  BY <1>1 DEF PathInv, HooksInv, HooksShape, GivenUp, ItsOwn
<1>10. PathShape'
  BY <1>1, <1>4, <1>6, <1>7 DEF PathInv, PathShape
<1>11. ASSUME NEW s \in Requests PROVE Busy(s)'
  <2>1. CASE s = r
    BY <1>7, <2>1 DEF Busy
  <2>2. CASE s # r
    <3>1. request'[s] = request[s]
      BY <1>7, <2>2
    <3> SUFFICES ASSUME Past(request[s]) PROVE Busy(s)'
      BY <3>1 DEF Busy
    <3> PICK v : v = request[s]
      OBVIOUS
    <3>2. /\ v.id \in DOMAIN orders /\ v.order = orders[v.id] /\ payments[v.id] = NotRecorded
          /\ \A u \in Requests \ {s} : Past(request[u]) => request[u].id # v.id
          /\ v.step = "enqueue" => transfers[v.id] = "moved" /\ v.id \in DOMAIN enqueues
          /\ v.step = "put" => /\ v.status \in {"accepted", "rejected"}
                               /\ v.notification \in {"enqueued", "enqueue_failed", "not_enqueued"}
                               /\ Bears(v.id, v.status, v.notification)
      BY DEF PathInv, Busy
    <3>3. payments'[v.id] = NotRecorded
      BY <1>3, <1>6, <2>2, <3>2
    <3>4. \A u \in Requests \ {s} : Past(request'[u]) => request'[u].id # v.id
      BY <1>7, <3>2
    <3>5. v.step = "put" => Bears(v.id, v.status, v.notification)'
      BY <1>1, <3>2 DEF Bears
    <3> QED BY <1>1, <3>1, <3>2, <3>3, <3>4, <3>5 DEF Busy
  <2> QED BY <2>1, <2>2
<1>12. (\A t \in DOMAIN orders : Bears(t, payments[t].status, payments[t].notification))'
  <2> SUFFICES ASSUME NEW t \in DOMAIN orders PROVE Bears(t, payments[t].status, payments[t].notification)'
    BY <1>1
  <2>1. CASE t = p
    BY <1>1, <1>3, <1>5, <1>6, <2>1 DEF Bears
  <2>2. CASE t # p
    <3>1. Bears(t, payments[t].status, payments[t].notification)
      BY DEF PathInv
    <3>2. payments'[t] = payments[t]
      BY <1>6, <2>2
    <3> QED BY <1>1, <3>1, <3>2 DEF Bears
  <2> QED BY <2>1, <2>2
<1>13. KeysKept'
  <2>1. ASSUME NEW t \in DOMAIN orders
        PROVE  \/ orders[t].key \in {NoKey} \cup DOMAIN byKey'
               \/ \E s \in Requests : Past(request'[s]) /\ request'[s].id = t
    <3>1. CASE t = p
      BY <1>3, <1>8, <3>1
    <3>2. CASE t # p
      <4>1. \/ orders[t].key \in {NoKey} \cup DOMAIN byKey
            \/ \E s \in Requests : Past(request[s]) /\ request[s].id = t
        BY DEF PathInv, KeysKept
      <4>2. ASSUME NEW s \in Requests, Past(request[s]), request[s].id = t PROVE request'[s] = request[s]
        BY <1>7, <3>2, <4>2
      <4> QED BY <1>8, <4>1, <4>2
    <3> QED BY <3>1, <3>2
  <2> QED BY <1>1, <2>1 DEF PathInv, KeysKept
<1> QED BY <1>1, <1>9, <1>10, <1>11, <1>12, <1>13, BankStays DEF PathInv

-----------------------------------------------------------------------------
(***************************************************************************)
(* The whole path                                                          *)
(***************************************************************************)

\* What the senders do by themselves: a call that is queued stays so.
LEMMA CallsStay ==
  HooksNext => /\ DOMAIN enqueues' = DOMAIN enqueues
               /\ \A p \in DOMAIN enqueues : enqueues[p].at = "queued" => enqueues'[p].at = "queued"
<1> SUFFICES ASSUME HooksNext
             PROVE  /\ DOMAIN enqueues' = DOMAIN enqueues
                    /\ \A p \in DOMAIN enqueues : enqueues[p].at = "queued" => enqueues'[p].at = "queued"
  OBVIOUS
<1>1. CASE UNCHANGED enqueues
  BY <1>1
<1>2. ASSUME NEW p \in DOMAIN enqueues, NEW f, enqueues[p].at # "queued", enqueues' = [enqueues EXCEPT ![p] = f]
      PROVE  /\ DOMAIN enqueues' = DOMAIN enqueues
             /\ \A q \in DOMAIN enqueues : enqueues[q].at = "queued" => enqueues'[q].at = "queued"
  BY <1>2
<1>3. ASSUME NEW p \in DOMAIN enqueues, CheckSubscription(p) \/ Queue(p)
      PROVE  enqueues[p].at # "queued" /\ \E f : enqueues' = [enqueues EXCEPT ![p] = f]
  BY <1>3 DEF CheckSubscription, Queue
<1> QED BY <1>1, <1>2, <1>3 DEF HooksNext, PutSub, Run, Abort, Try, GiveUp, SimulatePayment, Set

LEMMA HooksStepKeeps ==
  ASSUME PathInv, HooksNext,
         UNCHANGED <<bankVars, transfers, request, orders, payments, byKey, lost, raced, losses, credits>>
  PROVE  PathInv'
<1>1. UNCHANGED <<accounts, entries, transfers, request, orders, payments, byKey, lost, raced>>
  BY DEF bankVars
<1>2. /\ DOMAIN enqueues' = DOMAIN enqueues
      /\ \A p \in DOMAIN enqueues : enqueues[p].at = "queued" => enqueues'[p].at = "queued"
  BY CallsStay
<1>3. HooksInv'
  BY HooksKeep DEF PathInv
<1>4. ASSUME NEW p, NEW status, NEW notification, Bears(p, status, notification)
      PROVE  Bears(p, status, notification)'
  BY <1>1, <1>2, <1>4 DEF Bears
<1>5. PathShape'
  BY <1>1 DEF PathInv, PathShape
<1>6. ASSUME NEW r \in Requests PROVE Busy(r)'
  <2>1. Busy(r)
    BY DEF PathInv
  <2> PICK w : w = request[r]
    OBVIOUS
  <2>2. Past(w) /\ w.step = "put" => Bears(w.id, w.status, w.notification)'
    BY <1>4, <2>1 DEF Busy
  <2> QED BY <1>1, <1>2, <2>1, <2>2 DEF Busy
<1>7. (\A p \in DOMAIN orders : Bears(p, payments[p].status, payments[p].notification))'
  <2> SUFFICES ASSUME NEW p \in DOMAIN orders PROVE Bears(p, payments[p].status, payments[p].notification)'
    BY <1>1
  <2>1. Bears(p, payments[p].status, payments[p].notification)
    BY DEF PathInv
  <2> QED BY <1>1, <1>2, <2>1 DEF Bears
<1>8. KeysKept'
  BY <1>1 DEF PathInv, KeysKept
<1> QED BY <1>1, <1>3, <1>5, <1>6, <1>7, <1>8, BankStays DEF PathInv

LEMMA PathStarts == PathInit => PathInv
<1> SUFFICES ASSUME PathInit PROVE PathInv
  OBVIOUS
<1>1. /\ HooksInit /\ accounts = [a \in DOMAIN Seeded |-> Opened(Seeded[a].ccy, Seeded[a].cents)]
      /\ entries = <<>> /\ transfers = <<>> /\ orders = <<>> /\ payments = <<>>
      /\ request = [r \in Requests |-> Waiting]
  BY DEF PathInit
<1>2. IsRequest(Waiting) /\ ~Past(Waiting)
  BY DEF IsRequest, Past, Waiting
<1>3. PathShape
  BY <1>1, <1>2 DEF PathShape, IBANs
<1>4. \A r \in Requests : Busy(r)
  BY <1>1, <1>2 DEF Busy
<1>5. LedgerRight /\ KeysKept /\ \A p \in DOMAIN orders : Bears(p, payments[p].status, payments[p].notification)
  BY <1>1 DEF LedgerRight, KeysKept
<1>6. AccountsRight
  <2> SUFFICES ASSUME NEW a \in IBANs
               PROVE  IF a \in DOMAIN accounts
                      THEN /\ DOMAIN accounts[a] = {"ccy", "cents", "opening"}
                           /\ accounts[a].cents \in Int /\ accounts[a].opening \in Int
                           /\ accounts[a].cents = Signed64(accounts[a].opening + Total(entries, a))
                      ELSE Total(entries, a) = 0
    BY DEF AccountsRight
  <2>1. Total(entries, a) = 0
    BY <1>1, TotalOfNothing
  <2>2. CASE a \in DOMAIN accounts
    <3> PICK c : c = Seeded[a].cents
      OBVIOUS
    <3>1. c \in (Word \div 2 - Word)..(Word \div 2 - 1)
      BY <1>1, <2>2, PaymentPathAssumption
    <3>2. Signed64(c) = c /\ c \in Int
      BY <3>1, SignedSmall, PaymentPathAssumption
    <3>3. Signed64(c) = Signed64(Signed64(c) + 0)
      BY <3>2, SignedStays
    <3>4. DOMAIN accounts[a] = {"ccy", "cents", "opening"} /\ accounts[a].cents = c /\ accounts[a].opening = c
      BY <1>1, <2>2 DEF Opened
    <3> QED BY <2>1, <2>2, <3>2, <3>3, <3>4
  <2> QED BY <2>1, <2>2
<1> QED BY <1>1, <1>3, <1>4, <1>5, <1>6, HooksStart DEF PathInv

LEMMA PathStutters == PathInv /\ UNCHANGED pathVars => PathInv'
<1> SUFFICES ASSUME PathInv, UNCHANGED pathVars PROVE PathInv'
  OBVIOUS
<1>1. /\ UNCHANGED <<sub, enqueues, events, received, transfers, request, orders, payments, byKey, lost, raced>>
      /\ UNCHANGED <<accounts, entries>>
  BY DEF pathVars, hookVars
<1>2. entries' \in Seq(EntryRecords) /\ DOMAIN accounts' \subseteq IBANs
  BY <1>1 DEF PathInv, PathShape
<1> QED BY <1>1, <1>2, OnlyBank, BankStays

LEMMA PathKeeps == PathInv /\ [PathNext]_pathVars => PathInv'
<1> SUFFICES ASSUME PathInv, [PathNext]_pathVars PROVE PathInv'
  OBVIOUS
<1>1. ASSUME NEW r \in Requests, Create(r) PROVE PathInv'
  BY <1>1, AskKeeps, ReplayKeeps, SendKeeps, TransferAnsweredKeeps, EnqueueAnsweredKeeps, PutKeeps DEF Create
<1>2. ASSUME NEW p \in DOMAIN transfers, Transfer(p) PROVE PathInv'
  BY <1>2, TransferKeeps
<1>3. ASSUME NEW c \in Credits, Credit(c) PROVE PathInv'
  BY <1>3, CreditKeeps
<1>4. ASSUME NEW o \in Openings, CreateAccount(o) PROVE PathInv'
  BY <1>4, CreateAccountKeeps
<1>5. ASSUME HooksNext /\ UNCHANGED <<bankVars, transfers, request, orders, payments, byKey, lost, raced, losses, credits>>
      PROVE  PathInv'
  BY <1>5, HooksStepKeeps
<1>6. CASE UNCHANGED pathVars
  BY <1>6, PathStutters
<1> QED BY <1>1, <1>2, <1>3, <1>4, <1>5, <1>6 DEF PathNext

LEMMA PathAlways == PathSpec => []PathInv
<1> QED BY PathStarts, PathKeeps, PTL DEF PathSpec

\* A payment that has entries has moved.
LEMMA HasMovedIs == PathInv => \A p \in DOMAIN orders : HasMoved(p) <=> transfers[p] = "moved"
<1> SUFFICES ASSUME PathInv, NEW p \in DOMAIN orders PROVE HasMoved(p) <=> transfers[p] = "moved"
  OBVIOUS
<1>1. EntriesOf(p) = Mine(entries, p)
  BY DEF EntriesOf, Mine
<1>2. CASE transfers[p] = "moved"
  BY <1>1, <1>2 DEF PathInv, LedgerRight, MovedOnce, HasMoved
<1>3. CASE transfers[p] # "moved"
  BY <1>1, <1>3 DEF PathInv, LedgerRight, HasMoved
<1> QED BY <1>2, <1>3

LEMMA BooksShow == PathInv => BooksAgree
<1> SUFFICES ASSUME PathInv PROVE BooksAgree
  OBVIOUS
<1>1. \A a \in DOMAIN accounts : accounts[a].cents = Signed64(accounts[a].opening + Total(entries, a))
  BY DEF PathInv, PathShape, AccountsRight
<1>2. ASSUME NEW p \in DOMAIN orders
      PROVE  LET o == orders[p]
                 amount == Parse(o.whole)
             IN  /\ HasMoved(p) =>
                      \E i \in EntriesOf(p) :
                        /\ EntriesOf(p) = {i, i + 1}
                        /\ entries[i] = Entry(o.from, p, -amount) /\ entries[i + 1] = Entry(o.to, p, amount)
                 /\ payments[p].status = "accepted" => HasMoved(p)
                 /\ payments[p].notification = "enqueued" =>
                      \E e \in DOMAIN events : events[e].by = "notifier" /\ events[e].about = p
                 /\ payments[p].status = "rejected" /\ p \notin lost => transfers[p] = "refused" /\ ~HasMoved(p)
  <2>1. EntriesOf(p) = Mine(entries, p)
    BY DEF EntriesOf, Mine
  <2>2. HasMoved(p) <=> transfers[p] = "moved"
    BY HasMovedIs
  <2>3. ASSUME transfers[p] = "moved"
        PROVE  \E i \in EntriesOf(p) :
                 /\ EntriesOf(p) = {i, i + 1}
                 /\ entries[i] = Entry(orders[p].from, p, -Parse(orders[p].whole))
                 /\ entries[i + 1] = Entry(orders[p].to, p, Parse(orders[p].whole))
    <3>1. MovedOnce(entries, p, orders[p])
      BY <2>3 DEF PathInv, LedgerRight
    <3> QED BY <2>1, <3>1 DEF MovedOnce
  <2>4. Bears(p, payments[p].status, payments[p].notification)
    BY DEF PathInv
  <2>5. payments[p].notification = "enqueued" => \E e \in DOMAIN events : events[e].by = "notifier" /\ events[e].about = p
    BY <2>4 DEF Bears, PathInv, HooksInv
  <2>6. /\ payments[p].status = "accepted" => transfers[p] = "moved"
        /\ payments[p].status = "rejected" /\ p \notin lost => transfers[p] = "refused"
    BY <2>4 DEF Bears
  <2> QED BY <2>2, <2>3, <2>5, <2>6
<1> QED BY <1>1, <1>2 DEF BooksAgree

LEMMA KeysShow == PathInv => OneMovePerKey
<1> QED BY DEF PathInv, KeysKept, OneMovePerKey

\* The bank's accounts hold what they opened with and what their entries add
\* up to, in the word they are kept in; a payment's debit and credit stand
\* together, once, in the amount the bank read; and what the payment API has
\* recorded of a payment the bank and the notifier bear out (transfer, create).
THEOREM BooksAgreed == PathSpec => []BooksAgree
<1> QED BY PathAlways, BooksShow, PTL

\* Two payments made under one Idempotency-Key are not both moved unless both
\* requests had looked the key up before either recorded it (create).
THEOREM MovedOncePerKey == PathSpec => []OneMovePerKey
<1> QED BY PathAlways, KeysShow, PTL

\* What the senders' records say of an event is true of the receiver, and a
\* subscription has failed only by an event of its own that was given up (run,
\* deliver, putSub).
THEOREM RecordsAreTrue == PathSpec => []RecordsTellTheTruth
<1>1. PathInv => RecordsTellTheTruth
  BY RecordsTell DEF PathInv
<1> QED BY <1>1, PathAlways, PTL

-----------------------------------------------------------------------------
(***************************************************************************)
(* Verification                                                            *)
(***************************************************************************)

IsGate(g) ==
  /\ DOMAIN g = {"step", "id", "looks", "lists"}
  /\ g.step = "trigger" \/ (g.step = "look" /\ g.looks \in 1..MaxPolls)

\* Whatever was decided is what the list at work says, and every gate that is
\* being passed has noted that list.
VerificationInv ==
  /\ DOMAIN gate = Payers
  /\ \A p \in Payers : gate[p] # Closed => IsGate(gate[p]) /\ declines \in gate[p].lists
  /\ \A d \in deciding : DOMAIN d = {"id", "decision"} /\ d.decision = Decision(d.id)
  /\ \A i \in DOMAIN decisions : decisions[i] = Decision(i)
  /\ DeclineHolds

LEMMA StepsAreGates == \A p : gate[p].step \in {"trigger", "look"} => gate[p] # Closed
<1> QED BY DEF Closed

LEMMA GatesAreOpen == \A g : IsGate(g) => g # Closed
<1> QED BY DEF IsGate, Closed

\* A gate comes out, with a verdict that is right.
LEMMA VerdictKeeps ==
  ASSUME VerificationInv, NEW p \in Payers, gate[p] # Closed, NEW approved, NEW failed,
         Verdict(p, approved, failed), UNCHANGED <<declines, keyed, decisions>>,
         deciding' \subseteq deciding \cup {[id |-> gate[p].id, decision |-> Decision(gate[p].id)]},
         (~failed /\ keyed /\ approved) =>
           (gate[p].id \notin declines \/ (gate[p].looks = MaxPolls /\ gate[p].id \notin DOMAIN decisions)),
         ~approved => gate[p].id \in declines
  PROVE  VerificationInv'
<1> DEFINE v == [id |-> gate[p].id, looks |-> gate[p].looks, lists |-> gate[p].lists,
                 approved |-> approved, failed |-> failed, ready |-> gate[p].id \in DOMAIN decisions]
<1>1. verdicts' = verdicts \cup {v} /\ gate' = [gate EXCEPT ![p] = Closed]
  BY DEF Verdict
<1>2. declines \in gate[p].lists
  BY DEF VerificationInv
<1>3. /\ v.id = gate[p].id /\ v.looks = gate[p].looks /\ v.lists = gate[p].lists
      /\ v.approved = approved /\ v.failed = failed /\ v.ready = (gate[p].id \in DOMAIN decisions)
  OBVIOUS
<1>4. DeclineHolds'
  <2> HIDE DEF v
  <2> QED BY <1>1, <1>2, <1>3 DEF VerificationInv, DeclineHolds
<1>5. \A d \in deciding' : DOMAIN d = {"id", "decision"} /\ d.decision = Decision(d.id)
  BY DEF VerificationInv
<1>6. Decision(0) = Decision(0)' /\ \A i : Decision(i)' = Decision(i)
  BY DEF Decision
<1> HIDE DEF v
<1> QED BY <1>1, <1>4, <1>5, <1>6 DEF VerificationInv, IsGate

LEMMA EnterKeeps ==
  ASSUME VerificationInv, NEW p \in Payers, Enter(p)
  PROVE  VerificationInv'
<1>1. \A i : Decision(i)' = Decision(i)
  BY DEF Decision, Enter
<1>2. PICK m \in Merchants :
        gate' = [gate EXCEPT ![p] =
          [step |-> "trigger", id |-> FnvPositive(m), looks |-> 0, lists |-> {declines}]]
  BY DEF Enter
<1>3. DeclineHolds'
  BY DEF Enter, VerificationInv, DeclineHolds
<1> QED BY <1>1, <1>2, <1>3 DEF VerificationInv, IsGate, Enter

LEMMA TriggerKeeps ==
  ASSUME VerificationInv, NEW p \in Payers, Trigger(p)
  PROVE  VerificationInv'
<1>1. \A i : Decision(i)' = Decision(i)
  BY DEF Decision, Trigger
<1>2. \A d \in deciding' : DOMAIN d = {"id", "decision"} /\ d.decision = Decision(d.id)
  BY DEF VerificationInv, Trigger, Triggered
<1>3. DeclineHolds'
  BY DEF Trigger, VerificationInv, DeclineHolds
<1>4. gate[p] # Closed /\ gate' = [gate EXCEPT ![p].step = "look", ![p].looks = 1]
  BY DEF Trigger, Closed
<1>5. 1 \in 1..MaxPolls
  BY VerificationAssumption
<1>6. DOMAIN gate' = Payers
  BY <1>4 DEF VerificationInv
<1>7. \A q \in Payers : gate'[q] # Closed => IsGate(gate'[q]) /\ declines \in gate'[q].lists
  BY <1>4, <1>5 DEF VerificationInv, IsGate
<1>8. \A i \in DOMAIN decisions : decisions[i] = Decision(i)
  BY DEF VerificationInv
<1> QED BY <1>1, <1>2, <1>3, <1>6, <1>7, <1>8 DEF VerificationInv, Trigger, IsGate

LEMMA MissKeeps ==
  ASSUME VerificationInv, NEW p \in Payers, Miss(p)
  PROVE  VerificationInv'
<1>1. deciding' \subseteq deciding \cup {[id |-> gate[p].id, decision |-> Decision(gate[p].id)]}
  BY DEF Miss, Triggered
<1> QED BY <1>1, VerdictKeeps DEF Miss

LEMMA LookKeeps ==
  ASSUME VerificationInv, NEW p \in Payers, Look(p)
  PROVE  VerificationInv'
<1>1. gate[p] # Closed
  BY DEF Look, Closed
<1> DEFINE there == keyed /\ gate[p].id \in DOMAIN decisions
<1>2. CASE keyed /\ ~there /\ gate[p].looks < MaxPolls
  <2>1. \A i : Decision(i)' = Decision(i)
    BY DEF Decision, Look
  <2>2. gate' = [gate EXCEPT ![p].looks = @ + 1] /\ UNCHANGED <<verdicts, declines, keyed, deciding, decisions>>
    BY <1>2 DEF Look
  <2>3. gate[p].looks \in 1..MaxPolls /\ gate[p].looks + 1 \in 1..MaxPolls
    BY <1>1, <1>2, VerificationAssumption DEF VerificationInv, IsGate, Look
  <2>4. \A q \in Payers : gate'[q] # Closed => IsGate(gate'[q]) /\ declines \in gate'[q].lists
    BY <1>1, <2>2, <2>3 DEF VerificationInv, IsGate
  <2>5. DeclineHolds'
    BY <2>2 DEF VerificationInv, DeclineHolds
  <2>6. DOMAIN gate' = Payers
    BY <2>2 DEF VerificationInv
  <2> QED BY <2>1, <2>2, <2>4, <2>5, <2>6 DEF VerificationInv, IsGate
<1>3. CASE ~(keyed /\ ~there /\ gate[p].looks < MaxPolls)
  <2>1. Verdict(p, there => decisions[gate[p].id] = "APPROVED", FALSE)
        /\ UNCHANGED <<declines, keyed, deciding, decisions>>
    BY <1>3 DEF Look
  <2>2. gate[p].looks \in 1..MaxPolls
    BY <1>1 DEF VerificationInv, IsGate, Look
  <2>3. there => decisions[gate[p].id] = Decision(gate[p].id)
    BY DEF VerificationInv
  <2>4. PICK approved : approved = (there => decisions[gate[p].id] = "APPROVED")
    OBVIOUS
  <2>5. (keyed /\ approved) =>
          (gate[p].id \notin declines \/ (gate[p].looks = MaxPolls /\ gate[p].id \notin DOMAIN decisions))
    <3>1. CASE there
      BY <2>3, <2>4, <3>1 DEF Decision
    <3>2. CASE ~there
      BY <1>3, <2>2, <3>2, VerificationAssumption
    <3> QED BY <3>1, <3>2
  <2>6. ~approved => gate[p].id \in declines
    BY <2>3, <2>4 DEF Decision
  <2> QED BY <1>1, <2>1, <2>4, <2>5, <2>6, VerdictKeeps
<1> QED BY <1>2, <1>3

LEMMA DecideKeeps ==
  ASSUME VerificationInv, NEW d \in deciding, Decide(d)
  PROVE  VerificationInv'
<1>1. \A i : Decision(i)' = Decision(i)
  BY DEF Decision, Decide
<1>2. \A i \in DOMAIN decisions' : decisions'[i] = Decision(i)
  BY DEF Decide, VerificationInv
<1>3. DeclineHolds'
  BY DEF Decide, VerificationInv, DeclineHolds
<1> QED BY <1>1, <1>2, <1>3 DEF Decide, VerificationInv, IsGate

LEMMA VerifyRestartKeeps ==
  ASSUME VerificationInv, RestartVerify
  PROVE  VerificationInv'
<1>1. gate' = [p \in Payers |-> IF gate[p] = Closed THEN Closed
                               ELSE [gate[p] EXCEPT !.lists = @ \cup {declines'}]]
  BY DEF RestartVerify
<1>2. \A p \in Payers : gate'[p] # Closed => IsGate(gate'[p]) /\ declines' \in gate'[p].lists
  BY <1>1 DEF VerificationInv, IsGate
<1>3. DeclineHolds'
  BY DEF RestartVerify, VerificationInv, DeclineHolds
<1>4. deciding' = {} /\ DOMAIN decisions' = {}
  BY DEF RestartVerify, NoDecisions
<1> QED BY <1>1, <1>2, <1>3, <1>4 DEF VerificationInv, IsGate

\* A decline that was given in time keeps its merchant out, whatever other
\* gates, lists and merchants are around, and nobody else is kept out
\* (checkVerification, Engine.Trigger).
THEOREM DeclinesHold == VerificationSpec => []DeclineHolds
<1>1. VerificationInit => VerificationInv
  BY DEF VerificationInit, VerificationInv, DeclineHolds, NoDecisions
<1>2. VerificationInv /\ [VerificationNext]_verificationVars => VerificationInv'
  <2> SUFFICES ASSUME VerificationInv, [VerificationNext]_verificationVars PROVE VerificationInv'
    OBVIOUS
  <2>1. CASE UNCHANGED verificationVars
    BY <2>1 DEF verificationVars, VerificationInv, IsGate, Decision, DeclineHolds
  <2> QED BY <2>1, EnterKeeps, TriggerKeeps, MissKeeps, LookKeeps, DecideKeeps, VerifyRestartKeeps
       DEF VerificationNext, CheckVerification
<1> QED BY <1>1, <1>2, PTL DEF VerificationSpec, VerificationInv

-----------------------------------------------------------------------------
(***************************************************************************)
(* The console                                                             *)
(***************************************************************************)

\* What a job's next steps are about.
Lefts == {<<>>, <<"timer">>, <<"banking-circle", "aci">>, <<"aci">>}
Owner(l) == IF l = <<"timer">> THEN "settlement" ELSE "receiver"

\* An application, with the subscription at a version, the wirings that lead
\* elsewhere and the muddled things.
IsApplication(j, at, off, mud) ==
  /\ DOMAIN j = {"kind", "prefs", "todo", "left", "on", "step", "version"}
  /\ j.step \in {"read", "set", "put"} /\ j.version \in Nat /\ j.version <= at
  /\ DOMAIN j.prefs \subseteq StandIns /\ j.todo \subseteq DOMAIN j.prefs
  /\ j.left \in Lefts
  /\ j.left = <<>> => j.step = "read"
  /\ j.left # <<>> => /\ Owner(j.left) \in DOMAIN j.prefs \ j.todo
                      /\ j.on = j.prefs[Owner(j.left)].connected
  /\ j.step = "put" => Head(j.left) = "banking-circle" /\ "banking-circle" \notin off
  /\ j.step = "set" /\ Head(j.left) \in off => Head(j.left) \in mud \cup {"banking-circle"}

IsFunding(j) ==
  /\ DOMAIN j = {"kind", "todo", "step"}
  /\ j.todo \in {<<"EUR", "GBP">>, <<"GBP">>} /\ j.step \in {"read", "credit"}

ConsoleShape ==
  /\ DOMAIN job = Slots
  /\ \A k \in Slots :
       /\ job[k].kind \in {"none", "apply", "fund", "move"}
       /\ job[k].kind = "none" => job[k] = NoJob
       /\ job[k].kind = "apply" => IsApplication(job[k], version, away, muddled)
       /\ job[k].kind = "fund" => IsFunding(job[k])
  /\ DOMAIN now = Things /\ DOMAIN asked = Things
  /\ DOMAIN money = Accounts
  /\ \A a \in Accounts : DOMAIN money[a] = {"open", "moved"} /\ money[a].open \in Int /\ money[a].moved \in Int
  /\ version \in Nat /\ away \subseteq {"banking-circle", "aci"}
  /\ DOMAIN card = Plugins /\ DOMAIN applied = Plugins /\ wished = applied

\* Whoever acts on a check that no longer holds is late.
LateOnes ==
  \A k \in Slots :
    /\ job[k].kind = "move" /\ WallClockPlugin => k \in late
    /\ job[k].kind = "fund" /\ job[k].step = "credit" /\ Balance(Head(job[k].todo)) > 0 => k \in late

\* A job that has listed the bank's subscription before it changed will leave
\* it as it is.
Stale(k) == job[k].kind = "apply" /\ job[k].step = "put" /\ version # job[k].version
Owes(k) == Covers(k) \ (IF Stale(k) THEN {"banking-circle"} ELSE {})

\* Those that still have to change a thing will make it what was asked, and if
\* there are none it is so.
AskedOrOwed ==
  \A t \in Things \ muddled :
    /\ \A k \in Slots : t \in Owes(k) => Wish(job[k].prefs, t) = asked[t]
    /\ (\A k \in Slots : t \notin Owes(k)) => now[t] = asked[t]

ConsoleInv == ConsoleShape /\ LateOnes /\ ChecksHold /\ AskedOrOwed

LEMMA LeftsAre ==
  /\ <<>> \in Lefts
  /\ \A s \in StandIns : /\ WiringFor(s) \in Lefts \ {<<>>} /\ Owner(WiringFor(s)) = s
  /\ \A l \in Lefts \ {<<>>} :
       /\ Owner(l) \in StandIns /\ Head(l) \in ToSet(l) /\ Tail(l) \in Lefts
       /\ ToSet(l) \subseteq ToSet(WiringFor(Owner(l)))
       /\ ToSet(Tail(l)) = ToSet(l) \ {Head(l)}
       /\ Tail(l) # <<>> => Owner(Tail(l)) = Owner(l)
  /\ ToSet(<<>>) = {}
<1>1. <<>> \in Lefts
  BY DEF Lefts
<1>2. /\ ToSet(<<"timer">>) = {"timer"} /\ ToSet(<<"aci">>) = {"aci"}
      /\ ToSet(<<"banking-circle", "aci">>) = {"banking-circle", "aci"}
      /\ ToSet(<<>>) = {}
  BY DEF ToSet
<1>3. <<"timer">> # <<>> /\ <<"aci">> # <<>> /\ <<"banking-circle", "aci">> # <<>>
      /\ <<"timer">> # <<"aci">> /\ <<"timer">> # <<"banking-circle", "aci">>
  OBVIOUS
<1>4. \A s \in StandIns : WiringFor(s) \in Lefts \ {<<>>} /\ Owner(WiringFor(s)) = s
  BY <1>3 DEF StandIns, Lefts, WiringFor, Owner
<1>5. ASSUME NEW l \in Lefts \ {<<>>}
      PROVE  /\ Owner(l) \in StandIns /\ Head(l) \in ToSet(l) /\ Tail(l) \in Lefts
             /\ ToSet(l) \subseteq ToSet(WiringFor(Owner(l)))
             /\ ToSet(Tail(l)) = ToSet(l) \ {Head(l)}
             /\ Tail(l) # <<>> => Owner(Tail(l)) = Owner(l)
  <2>1. CASE l = <<"timer">>
    <3>1. Head(l) = "timer" /\ Tail(l) = <<>> /\ Owner(l) = "settlement"
      BY <2>1 DEF Owner
    <3> QED BY <1>1, <1>2, <2>1, <3>1 DEF StandIns, WiringFor
  <2>2. CASE l = <<"aci">>
    <3>1. Head(l) = "aci" /\ Tail(l) = <<>> /\ Owner(l) = "receiver"
      BY <1>3, <2>2 DEF Owner
    <3> QED BY <1>1, <1>2, <2>2, <3>1 DEF StandIns, WiringFor
  <2>3. CASE l = <<"banking-circle", "aci">>
    <3>1. Head(l) = "banking-circle" /\ Tail(l) = <<"aci">> /\ Owner(l) = "receiver" /\ Owner(<<"aci">>) = "receiver"
      BY <1>3, <2>3 DEF Owner
    <3> QED BY <1>2, <2>3, <3>1 DEF StandIns, WiringFor, Lefts
  <2> QED BY <2>1, <2>2, <2>3 DEF Lefts
<1> QED BY <1>1, <1>2, <1>4, <1>5

\* Each wiring is one stand-in's, and none has the name of a stand-in.
LEMMA WiringsApart ==
  /\ \A s \in StandIns : ToSet(WiringFor(s)) \cap StandIns = {}
  /\ \A s, u \in StandIns : s # u => ToSet(WiringFor(s)) \cap ToSet(WiringFor(u)) = {}
  /\ \A s \in StandIns : ToSet(WiringFor(s)) \subseteq Things
  /\ StandIns \subseteq Things
<1>1. ToSet(WiringFor("settlement")) = {"timer"} /\ ToSet(WiringFor("receiver")) = {"banking-circle", "aci"}
  BY DEF WiringFor, ToSet
<1> QED BY <1>1 DEF StandIns, Things

LEMMA WishesAre ==
  ASSUME NEW prefs
  PROVE  /\ \A s \in StandIns : Wish(prefs, s) = prefs[s].shown
         /\ \A s \in StandIns : \A t \in ToSet(WiringFor(s)) : Wish(prefs, t) = prefs[s].connected
<1>1. ASSUME NEW s \in StandIns, NEW t \in ToSet(WiringFor(s))
      PROVE  (CHOOSE u \in StandIns : t \in ToSet(WiringFor(u))) = s
  BY WiringsApart
<1> QED BY <1>1, WiringsApart DEF Wish
-----------------------------------------------------------------------------
LEMMA OthersAsTheyWere ==
  ASSUME NEW k, job'[k] = job[k], UNCHANGED <<version, away>>
  PROVE  Covers(k)' = Covers(k) /\ Owes(k)' = Owes(k) /\ Stale(k)' = Stale(k)
<1> QED BY DEF Covers, Owes, Stale, Wanted

LEMMA IdleOwesNothing ==
  ASSUME NEW k, job[k].kind # "apply"
  PROVE  Covers(k) = {} /\ Owes(k) = {}
<1> QED BY DEF Covers, Owes

LEMMA OwedAreCovered == \A k : Owes(k) \subseteq Covers(k)
<1> QED BY DEF Owes
-----------------------------------------------------------------------------
\* What an application covers, and that its steps only lessen it.
CoversOf(j) == (ToSet(j.left) \ away) \cup UNION {Wanted(s, j.prefs[s]) : s \in j.todo}

LEMMA CoversAre ==
  ASSUME NEW k, job[k].kind = "apply"
  PROVE  Covers(k) = CoversOf(job[k])
<1> QED BY DEF Covers, CoversOf

LEMMA StepIs ==
  ASSUME ConsoleInv, NEW k \in Slots, NEW j, Step(k, j), j.kind = "apply", away' = away
  PROVE  /\ DOMAIN job' = Slots /\ \A d \in Slots \ {k} : job'[d] = job[d]
         /\ job'[k] = j \/ (job'[k] = NoJob /\ j.todo = {} /\ j.left = <<>>)
         /\ Covers(k)' = CoversOf(j)
<1>1. /\ DOMAIN job' = Slots /\ \A d \in Slots \ {k} : job'[d] = job[d]
      /\ job'[k] = j \/ (job'[k] = NoJob /\ j.todo = {} /\ j.left = <<>>)
  BY DEF Step, ConsoleInv, ConsoleShape
<1>2. CASE job'[k] = j
  <2>1. Covers(k)' = (ToSet(j.left) \ away) \cup UNION {Wanted(s, j.prefs[s])' : s \in j.todo}
    BY <1>2 DEF Covers
  <2>2. \A s : Wanted(s, j.prefs[s])' = Wanted(s, j.prefs[s])
    BY DEF Wanted
  <2> QED BY <1>1, <2>1, <2>2 DEF CoversOf
<1>3. CASE job'[k] = NoJob /\ j.todo = {} /\ j.left = <<>>
  <2>1. Covers(k)' = {}
    BY <1>3 DEF Covers, NoJob
  <2>2. CoversOf(j) = {}
    BY <1>3, LeftsAre DEF CoversOf
  <2> QED BY <1>1, <2>1, <2>2
<1> QED BY <1>1, <1>2, <1>3

LEMMA ApplicationGoesOn ==
  ASSUME ConsoleInv, NEW k \in Slots, NEW j, Step(k, j), j.kind = "apply", IsApplication(j, version', away, muddled'),
         UNCHANGED <<card, applied, wished, away, money, late, credited, moved>>,
         version' \in Nat, version <= version', DOMAIN now' = Things, DOMAIN asked' = Things,
         muddled \subseteq muddled'
  PROVE  ConsoleShape' /\ LateOnes' /\ ChecksHold'
<1>1. /\ DOMAIN job' = Slots /\ \A d \in Slots \ {k} : job'[d] = job[d]
      /\ job'[k] = j \/ job'[k] = NoJob
  BY StepIs
<1>2. \A d \in Slots \ {k} : job[d].kind = "apply" => IsApplication(job[d], version', away, muddled')
  BY DEF ConsoleInv, ConsoleShape, IsApplication
<1>3. job'[k].kind \in {"none", "apply"}
  BY <1>1 DEF NoJob
<1>4. \A d \in Slots :
        /\ job'[d].kind \in {"none", "apply", "fund", "move"}
        /\ job'[d].kind = "none" => job'[d] = NoJob
        /\ job'[d].kind = "apply" => IsApplication(job'[d], version', away, muddled')
        /\ job'[d].kind = "fund" => IsFunding(job'[d])
  <2>1. /\ job'[k].kind = "none" => job'[k] = NoJob
        /\ job'[k].kind = "apply" => IsApplication(job'[k], version', away, muddled')
    <3>1. CASE job'[k] = j
      BY <3>1 DEF IsApplication
    <3>2. CASE job'[k] = NoJob
      BY <3>2 DEF NoJob
    <3> QED BY <1>1, <3>1, <3>2
  <2>2. \A d \in Slots \ {k} :
          /\ job'[d].kind \in {"none", "apply", "fund", "move"}
          /\ job'[d].kind = "none" => job'[d] = NoJob
          /\ job'[d].kind = "apply" => IsApplication(job'[d], version', away, muddled')
          /\ job'[d].kind = "fund" => IsFunding(job'[d])
    BY <1>1, <1>2 DEF ConsoleInv, ConsoleShape
  <2> QED BY <1>3, <2>1, <2>2
<1>5. ConsoleShape'
  BY <1>1, <1>4 DEF ConsoleInv, ConsoleShape, IsFunding
<1>6. LateOnes'
  <2>1. WallClockPlugin' = WallClockPlugin /\ \A a : Balance(a)' = Balance(a)
    BY DEF WallClockPlugin, Wall, Balance
  <2> QED BY <1>1, <1>3, <2>1 DEF ConsoleInv, LateOnes, Balance
<1>7. ChecksHold'
  BY DEF ConsoleInv, ChecksHold
<1> QED BY <1>5, <1>6, <1>7

\* Less is owed than was, and what nobody owes any more is as asked.
LEMMA LessIsOwed ==
  ASSUME ConsoleInv, UNCHANGED asked, muddled \subseteq muddled',
         \A t \in Things \ muddled' :
           /\ \A d \in Slots : t \in Owes(d)' =>
                t \in Owes(d) /\ Wish(job'[d].prefs, t) = Wish(job[d].prefs, t)
           /\ \/ now'[t] = asked[t]
              \/ now'[t] = now[t] /\ \A d \in Slots : t \in Owes(d) => t \in Owes(d)'
  PROVE  AskedOrOwed'
<1> SUFFICES ASSUME NEW t \in Things \ muddled'
             PROVE  /\ \A k \in Slots : t \in Owes(k)' => Wish(job'[k].prefs, t) = asked[t]
                    /\ (\A k \in Slots : t \notin Owes(k)') => now'[t] = asked[t]
  BY DEF AskedOrOwed, Wish
<1> QED BY DEF ConsoleInv, AskedOrOwed
-----------------------------------------------------------------------------
LEMMA HeadIs ==
  ASSUME ConsoleInv, NEW k \in Slots, job[k].kind = "apply", job[k].left # <<>>,
         NEW h, h = Head(job[k].left)
  PROVE  /\ IsApplication(job[k], version, away, muddled)
         /\ h \in Things /\ Wish(job[k].prefs, h) = job[k].on
         /\ h \notin away => h \in Covers(k)
         /\ h \in away => h \notin Covers(k)
         /\ \A s \in job[k].todo : h \notin Wanted(s, job[k].prefs[s])
<1>1. IsApplication(job[k], version, away, muddled)
  BY DEF ConsoleInv, ConsoleShape
<1> PICK s : s = Owner(job[k].left)
  OBVIOUS
<1>2. /\ s \in StandIns /\ s \notin job[k].todo /\ job[k].on = job[k].prefs[s].connected
      /\ h \in ToSet(job[k].left) /\ h \in ToSet(WiringFor(s))
  <2>1. job[k].left \in Lefts \ {<<>>}
    BY <1>1 DEF IsApplication
  <2>2. /\ Owner(job[k].left) \in StandIns /\ Head(job[k].left) \in ToSet(job[k].left)
        /\ ToSet(job[k].left) \subseteq ToSet(WiringFor(Owner(job[k].left)))
    BY <2>1, LeftsAre
  <2>3. Owner(job[k].left) \in DOMAIN job[k].prefs \ job[k].todo /\ job[k].on = job[k].prefs[Owner(job[k].left)].connected
    BY <1>1 DEF IsApplication
  <2> QED BY <2>2, <2>3
<1>3. h \in Things /\ Wish(job[k].prefs, h) = job[k].on
  BY <1>2, WiringsApart, WishesAre
<1>4. \A u \in job[k].todo : h \notin Wanted(u, job[k].prefs[u])
  <2> SUFFICES ASSUME NEW u \in job[k].todo PROVE h # u /\ h \notin ToSet(WiringFor(u))
    BY DEF Wanted
  <2>1. u \in StandIns /\ u # s
    BY <1>1, <1>2 DEF IsApplication
  <2> QED BY <1>2, <2>1, WiringsApart
<1>5. h \in Covers(k) <=> h \notin away
  BY <1>2, <1>4 DEF Covers
<1> QED BY <1>1, <1>3, <1>4, <1>5

LEMMA DroppedIs ==
  ASSUME ConsoleInv, NEW k \in Slots, job[k].kind = "apply", job[k].left # <<>>
  PROVE  /\ Dropped(k).kind = "apply" /\ Dropped(k).prefs = job[k].prefs /\ Dropped(k).step = "read"
         /\ \A v \in Nat : \A m : version <= v => IsApplication(Dropped(k), v, away, m)
         /\ CoversOf(Dropped(k)) = Covers(k) \ {Head(job[k].left)}
<1>1. IsApplication(job[k], version, away, muddled)
  BY DEF ConsoleInv, ConsoleShape
<1> PICK l : l = Tail(job[k].left)
  OBVIOUS
<1> PICK d : d = Dropped(k)
  OBVIOUS
<1>2. /\ DOMAIN d = DOMAIN job[k] /\ d.kind = job[k].kind /\ d.prefs = job[k].prefs /\ d.step = "read"
      /\ d.todo = job[k].todo /\ d.left = l /\ d.on = job[k].on /\ d.version = job[k].version
  BY <1>1 DEF Dropped, IsApplication
<1>3. /\ l \in Lefts /\ ToSet(l) = ToSet(job[k].left) \ {Head(job[k].left)}
      /\ l # <<>> => Owner(l) = Owner(job[k].left)
  <2>1. job[k].left \in Lefts \ {<<>>}
    BY <1>1 DEF IsApplication
  <2> QED BY <2>1, LeftsAre
<1>4. \A v \in Nat : \A m : version <= v => IsApplication(d, v, away, m)
  <2>1. version \in Nat
    BY DEF ConsoleInv, ConsoleShape
  <2> QED BY <1>1, <1>2, <1>3, <2>1 DEF IsApplication
<1>5. CoversOf(d) = Covers(k) \ {Head(job[k].left)}
  <2>1. CoversOf(d) = (ToSet(l) \ away) \cup UNION {Wanted(s, job[k].prefs[s]) : s \in job[k].todo}
    BY <1>2 DEF CoversOf
  <2>2. \A s \in job[k].todo : Head(job[k].left) \notin Wanted(s, job[k].prefs[s])
    BY HeadIs
  <2> QED BY <1>3, <2>1, <2>2 DEF Covers
<1> QED BY <1>2, <1>4, <1>5

\* A wiring is dropped as it is wanted, or as one that this job does not owe.
LEMMA DropKeeps ==
  ASSUME ConsoleInv, NEW k \in Slots, job[k].kind = "apply", job[k].left # <<>>, Drop(k),
         NEW h, h = Head(job[k].left),
         UNCHANGED <<card, applied, wished, away, money, late, credited, moved, asked>>,
         muddled \subseteq muddled', version' \in Nat, version <= version', DOMAIN now' = Things,
         \A t \in Things \ muddled' : t # h => now'[t] = now[t],
         h \notin muddled' =>
           (now'[h] = asked[h] \/ (now'[h] = now[h] /\ h \notin Owes(k))),
         version' = version \/ (h = "banking-circle" /\ now'[h] = asked[h]) \/ h \in muddled',
         version' = version \/ h = "banking-circle"
  PROVE  ConsoleInv'
<1>1. /\ Dropped(k).kind = "apply" /\ Dropped(k).prefs = job[k].prefs /\ Dropped(k).step = "read"
      /\ IsApplication(Dropped(k), version', away, muddled')
      /\ CoversOf(Dropped(k)) = Covers(k) \ {h}
  BY DroppedIs
<1>2. ConsoleShape' /\ LateOnes' /\ ChecksHold'
  <2>1. DOMAIN asked' = Things
    BY DEF ConsoleInv, ConsoleShape
  <2> QED BY <1>1, <2>1, ApplicationGoesOn DEF Drop
<1>3. /\ \A d \in Slots \ {k} : job'[d] = job[d]
      /\ Covers(k)' = Covers(k) \ {h}
      /\ job'[k] = Dropped(k) \/ (job'[k] = NoJob /\ Covers(k)' = {})
  <2>1. job'[k] = NoJob => Covers(k)' = {}
    BY DEF Covers, NoJob
  <2> QED BY <1>1, <2>1, StepIs DEF Drop
<1>4. Owes(k)' = Covers(k)'
  BY <1>1, <1>3 DEF Owes, Stale, NoJob
<1>5. Owes(k) = Covers(k) \/ (h = "banking-circle" /\ Owes(k) = Covers(k) \ {h})
  <2>1. Stale(k) => h = "banking-circle"
    BY HeadIs DEF Stale, IsApplication
  <2> QED BY <2>1 DEF Owes
<1>6. Owes(k) \ {h} = Owes(k)' /\ h \notin Owes(k)'
  BY <1>3, <1>4, <1>5
<1>7. \A d \in Slots \ {k} : /\ Covers(d)' = Covers(d)
                             /\ Owes(d)' \subseteq Owes(d)
                             /\ Owes(d) \subseteq Owes(d)' \cup {"banking-circle"}
                             /\ version' = version => Owes(d)' = Owes(d)
  <2> SUFFICES ASSUME NEW d \in Slots \ {k}
               PROVE  /\ Covers(d)' = Covers(d)
                      /\ Owes(d)' \subseteq Owes(d)
                      /\ Owes(d) \subseteq Owes(d)' \cup {"banking-circle"}
                      /\ version' = version => Owes(d)' = Owes(d)
    OBVIOUS
  <2>1. job'[d] = job[d]
    BY <1>3
  <2>2. Covers(d)' = Covers(d)
    BY <2>1 DEF Covers, Wanted
  <2>3. Stale(d) => Stale(d)'
    <3>1. job[d].kind = "apply" => job[d].version \in Nat /\ job[d].version <= version /\ version \in Nat
      BY DEF ConsoleInv, ConsoleShape, IsApplication
    <3> QED BY <2>1, <3>1 DEF Stale
  <2>4. version' = version => Stale(d)' = Stale(d)
    BY <2>1 DEF Stale
  <2> QED BY <2>2, <2>3, <2>4 DEF Owes
<1>8. AskedOrOwed'
  <2> SUFFICES ASSUME NEW t \in Things \ muddled'
      PROVE  /\ \A d \in Slots : t \in Owes(d)' =>
                  t \in Owes(d) /\ Wish(job'[d].prefs, t) = Wish(job[d].prefs, t)
             /\ \/ now'[t] = asked[t]
                \/ now'[t] = now[t] /\ \A d \in Slots : t \in Owes(d) => t \in Owes(d)'
    BY LessIsOwed
  <2>1. ASSUME NEW d \in Slots, t \in Owes(d)'
        PROVE  t \in Owes(d) /\ Wish(job'[d].prefs, t) = Wish(job[d].prefs, t)
    <3>1. CASE d = k
      <4>1. job'[k] = Dropped(k)
        BY <1>3, <1>4, <2>1, <3>1
      <4> QED BY <1>1, <1>6, <2>1, <3>1, <4>1
    <3>2. CASE d # k
      BY <1>3, <1>7, <2>1, <3>2
    <3> QED BY <3>1, <3>2
  <2>2. CASE t # h
    <3>1. \A d \in Slots : t \in Owes(d) => t \in Owes(d)'
      BY <1>6, <1>7, <2>2
    <3> QED BY <2>1, <2>2, <3>1
  <2>3. CASE t = h
    <3>1. CASE now'[h] = asked[h]
      BY <2>1, <2>3, <3>1
    <3>2. CASE now'[h] # asked[h]
      <4>1. version' = version /\ now'[h] = now[h] /\ h \notin Owes(k)
        BY <2>3, <3>2
      <4>2. \A d \in Slots : t \in Owes(d) => t \in Owes(d)'
        BY <1>7, <2>3, <4>1
      <4> QED BY <2>1, <2>3, <4>1, <4>2
    <3> QED BY <3>1, <3>2
  <2> QED BY <2>2, <2>3
<1> QED BY <1>2, <1>8 DEF ConsoleInv

\* A job turns to the next step of the same wiring.
LEMMA SameWiringKeeps ==
  ASSUME ConsoleInv, NEW k \in Slots, job[k].kind = "apply", job[k].left # <<>>,
         NEW j, Step(k, j), IsApplication(j, version, away, muddled'), j.kind = "apply",
         j.prefs = job[k].prefs, j.todo = job[k].todo, j.left = job[k].left,
         job[k].step # "put", j.step = "put" => j.version = version,
         UNCHANGED <<card, applied, wished, away, money, late, credited, moved, asked, now, version>>,
         muddled \subseteq muddled'
  PROVE  ConsoleInv'
<1>1. ConsoleShape' /\ LateOnes' /\ ChecksHold'
  <2>1. DOMAIN asked' = Things /\ DOMAIN now' = Things /\ version' \in Nat /\ version <= version'
        /\ IsApplication(j, version', away, muddled')
    BY DEF ConsoleInv, ConsoleShape
  <2> QED BY <2>1, ApplicationGoesOn
<1>2. /\ \A d \in Slots \ {k} : job'[d] = job[d] /\ Owes(d)' = Owes(d)
      /\ job'[k] = j /\ Covers(k)' = CoversOf(j)
  BY StepIs, OthersAsTheyWere
<1>3. CoversOf(j) = Covers(k)
  BY CoversAre DEF CoversOf
<1>4. Owes(k)' = Owes(k)
  BY <1>2, <1>3 DEF Owes, Stale
<1>5. AskedOrOwed'
  BY <1>2, <1>4, LessIsOwed
<1> QED BY <1>1, <1>5 DEF ConsoleInv
-----------------------------------------------------------------------------
LEMMA ReadingKeeps ==
  ASSUME ConsoleInv, NEW k \in Slots, ReadWiring(k)
  PROVE  ConsoleInv'
<1> PICK h : h = Head(job[k].left)
  OBVIOUS
<1>0. job[k].kind = "apply" /\ job[k].left # <<>> /\ job[k].step = "read"
  BY DEF ReadWiring, Applying
<1>1. /\ IsApplication(job[k], version, away, muddled)
      /\ h \in away => h \notin Covers(k)
  BY <1>0, HeadIs
<1>2. UNCHANGED <<card, applied, wished, away, money, late, credited, moved, asked, now, version, muddled>>
  BY DEF ReadWiring, askHistory, checkHistory
<1>3. version' \in Nat /\ version <= version' /\ DOMAIN now' = Things
  BY <1>2 DEF ConsoleInv, ConsoleShape
<1>4. CASE h \in away
  <2>1. Drop(k)
    BY <1>4 DEF ReadWiring
  <2>2. h \notin Owes(k)
    BY <1>1, <1>4, OwedAreCovered
  <2> QED BY <1>0, <1>2, <1>3, <2>1, <2>2, DropKeeps
<1>5. CASE h \notin away
  <2> PICK j : j = [job[k] EXCEPT !.step = "set"]
    OBVIOUS
  <2>1. Step(k, j)
    BY <1>5 DEF ReadWiring
  <2>2. /\ DOMAIN j = DOMAIN job[k] /\ j.kind = job[k].kind /\ j.prefs = job[k].prefs /\ j.step = "set"
        /\ j.todo = job[k].todo /\ j.left = job[k].left /\ j.on = job[k].on /\ j.version = job[k].version
    BY <1>1 DEF IsApplication
  <2>3. IsApplication(j, version, away, muddled')
    BY <1>0, <1>1, <1>2, <1>5, <2>2 DEF IsApplication
  <2> QED BY <1>0, <1>2, <2>1, <2>2, <2>3, SameWiringKeeps
<1> QED BY <1>4, <1>5

\* A job about to change its wiring owes it, or has it muddled.
LEMMA SettingKeeps ==
  ASSUME ConsoleInv, NEW k \in Slots, SetSwitch(k)
  PROVE  ConsoleInv'
<1> PICK h : h = Head(job[k].left)
  OBVIOUS
<1>0. job[k].kind = "apply" /\ job[k].left # <<>> /\ job[k].step = "set" /\ h # "banking-circle" /\ Drop(k)
  BY DEF SetSwitch, Applying
<1>1. /\ IsApplication(job[k], version, away, muddled)
      /\ h \in Things /\ Wish(job[k].prefs, h) = job[k].on
      /\ h \notin away => h \in Covers(k)
  BY <1>0, HeadIs
<1>2. UNCHANGED <<card, applied, wished, away, money, late, credited, moved, asked, version, muddled>>
  BY DEF SetSwitch, askHistory, checkHistory
<1>3. DOMAIN now = Things /\ version' \in Nat /\ version <= version'
  BY <1>2 DEF ConsoleInv, ConsoleShape
<1>4. now' = [now EXCEPT ![h] = job[k].on]
  BY DEF SetSwitch, Switched
<1>5. DOMAIN now' = Things /\ now'[h] = job[k].on /\ \A t \in Things : t # h => now'[t] = now[t]
  BY <1>1, <1>3, <1>4
<1>6. h \notin muddled' => now'[h] = asked[h]
  <2> SUFFICES ASSUME h \notin muddled PROVE now'[h] = asked[h]
    BY <1>2
  <2>1. h \notin away
    BY <1>0, <1>1 DEF IsApplication
  <2>2. h \in Owes(k)
    BY <1>0, <1>1, <2>1 DEF Owes, Stale
  <2> QED BY <1>1, <1>5, <2>2 DEF ConsoleInv, AskedOrOwed
<1> QED BY <1>0, <1>2, <1>3, <1>5, <1>6, DropKeeps

LEMMA ListingKeeps ==
  ASSUME ConsoleInv, NEW k \in Slots, ListSubscriptions(k)
  PROVE  ConsoleInv'
<1> PICK h : h = Head(job[k].left)
  OBVIOUS
<1>0. job[k].kind = "apply" /\ job[k].left # <<>> /\ job[k].step = "set" /\ h = "banking-circle"
  BY DEF ListSubscriptions, Applying
<1>1. /\ IsApplication(job[k], version, away, muddled)
      /\ h \in Things /\ Wish(job[k].prefs, h) = job[k].on
      /\ h \notin away => h \in Covers(k)
      /\ h \in away => h \notin Covers(k)
  BY <1>0, HeadIs
<1>2. UNCHANGED <<card, applied, wished, away, money, late, credited, moved, asked, now, version, muddled>>
  BY DEF ListSubscriptions, askHistory, checkHistory
<1>3. version \in Nat /\ version' \in Nat /\ version <= version' /\ DOMAIN now' = Things
  BY <1>2 DEF ConsoleInv, ConsoleShape
<1>4. CASE h \in away \/ now[h] = job[k].on
  <2>1. Drop(k)
    BY <1>0, <1>4 DEF ListSubscriptions
  <2>2. h \notin muddled' => (now'[h] = asked[h] \/ (now'[h] = now[h] /\ h \notin Owes(k)))
    <3>1. CASE h \in away
      BY <1>1, <1>2, <3>1, OwedAreCovered
    <3>2. CASE h \notin away
      <4>1. h \in Owes(k)
        BY <1>0, <1>1, <3>2 DEF Owes, Stale
      <4>2. h \notin muddled => asked[h] = job[k].on
        BY <1>1, <4>1 DEF ConsoleInv, AskedOrOwed
      <4> QED BY <1>2, <1>4, <3>2, <4>2
    <3> QED BY <3>1, <3>2
  <2> QED BY <1>0, <1>2, <1>3, <2>1, <2>2, DropKeeps
<1>5. CASE h \notin away /\ now[h] # job[k].on
  <2> PICK j : j = [job[k] EXCEPT !.step = "put", !.version = version]
    OBVIOUS
  <2>1. Step(k, j)
    BY <1>0, <1>5 DEF ListSubscriptions
  <2>2. /\ DOMAIN j = DOMAIN job[k] /\ j.kind = job[k].kind /\ j.prefs = job[k].prefs /\ j.step = "put"
        /\ j.todo = job[k].todo /\ j.left = job[k].left /\ j.on = job[k].on /\ j.version = version
    BY <1>1 DEF IsApplication
  <2>3. IsApplication(j, version, away, muddled')
    BY <1>0, <1>1, <1>3, <1>5, <2>2 DEF IsApplication
  <2> QED BY <1>0, <1>2, <2>1, <2>2, <2>3, SameWiringKeeps
<1> QED BY <1>4, <1>5

LEMMA PuttingKeeps ==
  ASSUME ConsoleInv, NEW k \in Slots, PutSubscription(k)
  PROVE  ConsoleInv'
<1> PICK h : h = Head(job[k].left)
  OBVIOUS
<1>0. job[k].kind = "apply" /\ job[k].left # <<>> /\ job[k].step = "put" /\ Drop(k)
  BY DEF PutSubscription, Applying
<1>1. /\ IsApplication(job[k], version, away, muddled)
      /\ h \in Things /\ Wish(job[k].prefs, h) = job[k].on
      /\ h \notin away => h \in Covers(k)
  BY <1>0, HeadIs
<1>2. UNCHANGED <<card, applied, wished, away, money, late, credited, moved, asked, muddled>>
  BY DEF PutSubscription, askHistory, checkHistory
<1>3. h = "banking-circle" /\ h \notin away
  BY <1>0, <1>1 DEF IsApplication
<1>4. version \in Nat /\ DOMAIN now = Things
  BY DEF ConsoleInv, ConsoleShape
<1>5. CASE version = job[k].version
  <2>1. version' = version + 1 /\ now' = [now EXCEPT ![h] = job[k].on]
    BY <1>3, <1>5 DEF PutSubscription, Switched
  <2>2. DOMAIN now' = Things /\ now'[h] = job[k].on /\ \A t \in Things : t # h => now'[t] = now[t]
    BY <1>1, <1>4, <2>1
  <2>3. h \in Owes(k)
    BY <1>1, <1>3, <1>5 DEF Owes, Stale
  <2>4. h \notin muddled' => now'[h] = asked[h]
    BY <1>1, <1>2, <2>2, <2>3 DEF ConsoleInv, AskedOrOwed
  <2>5. version' \in Nat /\ version <= version'
    BY <1>4, <2>1
  <2> QED BY <1>0, <1>2, <1>3, <2>2, <2>4, <2>5, DropKeeps
<1>6. CASE version # job[k].version
  <2>1. UNCHANGED <<now, version>>
    BY <1>6 DEF PutSubscription
  <2>2. h \notin Owes(k)
    BY <1>0, <1>3, <1>6 DEF Owes, Stale
  <2>3. version' \in Nat /\ version <= version' /\ DOMAIN now' = Things
    BY <1>4, <2>1
  <2> QED BY <1>0, <1>2, <2>1, <2>2, <2>3, DropKeeps
<1> QED BY <1>5, <1>6

LEMMA FailingKeeps ==
  ASSUME ConsoleInv, NEW k \in Slots, CallFails(k)
  PROVE  ConsoleInv'
<1> PICK h : h = Head(job[k].left)
  OBVIOUS
<1>0. job[k].kind = "apply" /\ job[k].left # <<>>
  BY DEF CallFails
<1>1. /\ IsApplication(job[k], version, away, muddled)
      /\ h \in Things
      /\ h \in away => h \notin Covers(k)
  BY <1>0, HeadIs
<1>2. UNCHANGED <<card, applied, wished, away, money, late, credited, moved, asked, now, version>>
  BY DEF CallFails, checkHistory
<1>3. version \in Nat /\ version' \in Nat /\ version <= version' /\ DOMAIN now' = Things
      /\ away \subseteq {"banking-circle", "aci"}
  BY <1>2 DEF ConsoleInv, ConsoleShape
<1>4. CASE job[k].step = "read"
  <2> PICK j : j = [job[k] EXCEPT !.step = "set"]
    OBVIOUS
  <2>1. Step(k, j) /\ muddled' = muddled \cup ({h} \cap away \cap {"aci"})
    BY <1>4 DEF CallFails
  <2>2. /\ DOMAIN j = DOMAIN job[k] /\ j.kind = job[k].kind /\ j.prefs = job[k].prefs /\ j.step = "set"
        /\ j.todo = job[k].todo /\ j.left = job[k].left /\ j.on = job[k].on /\ j.version = job[k].version
    BY <1>1 DEF IsApplication
  <2>3. h \in away => h \in muddled' \cup {"banking-circle"}
    BY <1>3, <2>1
  <2>4. IsApplication(j, version, away, muddled')
    BY <1>0, <1>1, <1>2, <2>2, <2>3 DEF IsApplication
  <2> QED BY <1>0, <1>2, <1>4, <2>1, <2>2, <2>4, SameWiringKeeps
<1>5. CASE job[k].step # "read"
  <2>1. Drop(k) /\ muddled' = muddled \cup ({h} \ away)
    BY <1>5 DEF CallFails
  <2>2. h \notin muddled' => h \notin Owes(k)
    BY <1>1, <2>1, OwedAreCovered
  <2> QED BY <1>0, <1>2, <1>3, <2>1, <2>2, DropKeeps
<1> QED BY <1>4, <1>5

LEMMA TakingUpKeeps ==
  ASSUME ConsoleInv, NEW k \in Slots, TakeUp(k)
  PROVE  ConsoleInv'
<1>0. job[k].kind = "apply" /\ job[k].left = <<>>
  BY DEF TakeUp
<1>1. IsApplication(job[k], version, away, muddled) /\ job[k].step = "read"
  BY <1>0 DEF ConsoleInv, ConsoleShape, IsApplication
<1> PICK s \in job[k].todo : 
      /\ now' = IF job[k].prefs[s].shown = Nil THEN now ELSE [now EXCEPT ![s] = job[k].prefs[s].shown]
      /\ Step(k, [job[k] EXCEPT !.todo = @ \ {s}, !.on = job[k].prefs[s].connected,
                     !.left = IF job[k].prefs[s].connected = Nil THEN <<>> ELSE WiringFor(s)])
  BY DEF TakeUp
<1> PICK pref : pref = job[k].prefs[s]
  OBVIOUS
<1> PICK j : j = [job[k] EXCEPT !.todo = @ \ {s}, !.on = pref.connected,
                     !.left = IF pref.connected = Nil THEN <<>> ELSE WiringFor(s)]
  OBVIOUS
<1>2. /\ DOMAIN j = DOMAIN job[k] /\ j.kind = "apply" /\ j.prefs = job[k].prefs /\ j.step = "read"
      /\ j.todo = job[k].todo \ {s} /\ j.left = (IF pref.connected = Nil THEN <<>> ELSE WiringFor(s))
      /\ j.on = pref.connected /\ j.version = job[k].version
  BY <1>0, <1>1 DEF IsApplication
<1>3. Step(k, j)
  OBVIOUS
<1>4. s \in StandIns /\ s \in DOMAIN job[k].prefs /\ s \in Things
  BY <1>1, WiringsApart DEF IsApplication
<1>5. UNCHANGED <<card, applied, wished, away, money, late, credited, moved, asked, version, muddled>>
  BY DEF TakeUp, askHistory, checkHistory
<1>6. DOMAIN now = Things /\ DOMAIN now' = Things /\ DOMAIN asked' = Things /\ version' \in Nat /\ version <= version'
  BY <1>5 DEF ConsoleInv, ConsoleShape
<1>7. j.left = <<>> \/ (j.left \in Lefts \ {<<>>} /\ Owner(j.left) = s /\ j.left = WiringFor(s))
  BY <1>2, <1>4, LeftsAre
<1>8. IsApplication(j, version', away, muddled')
  BY <1>1, <1>2, <1>4, <1>5, <1>7, LeftsAre DEF IsApplication
<1>9. ConsoleShape' /\ LateOnes' /\ ChecksHold'
  BY <1>2, <1>3, <1>5, <1>6, <1>8, ApplicationGoesOn
<1>10. /\ \A d \in Slots \ {k} : job'[d] = job[d] /\ Owes(d)' = Owes(d)
       /\ Covers(k)' = CoversOf(j)
       /\ job'[k] = j \/ job'[k] = NoJob
  <2>1. /\ \A d \in Slots \ {k} : job'[d] = job[d]
        /\ Covers(k)' = CoversOf(j)
        /\ job'[k] = j \/ job'[k] = NoJob
    BY <1>2, <1>3, <1>5, StepIs
  <2>2. UNCHANGED <<version, away>>
    BY <1>5
  <2>3. \A d \in Slots \ {k} : Owes(d)' = Owes(d)
    BY <2>1, <2>2, OthersAsTheyWere
  <2> QED BY <2>1, <2>3
<1>11. Owes(k) = Covers(k) /\ Owes(k)' = Covers(k)'
  <2>1. ~Stale(k)
    BY <1>1 DEF Stale
  <2>2. ~Stale(k)'
    <3>1. CASE job'[k] = j
      BY <1>2, <3>1 DEF Stale
    <3>2. CASE job'[k] = NoJob
      BY <3>2 DEF Stale, NoJob
    <3> QED BY <1>10, <3>1, <3>2
  <2> QED BY <2>1, <2>2 DEF Owes
<1>12. /\ CoversOf(j) \subseteq Covers(k)
       /\ Covers(k) \subseteq CoversOf(j) \cup (IF pref.shown = Nil THEN {} ELSE {s})
       /\ pref.shown # Nil => s \in Covers(k)
  <2>1. Covers(k) = UNION {Wanted(u, job[k].prefs[u]) : u \in job[k].todo}
    BY <1>0, LeftsAre DEF Covers
  <2>2. CoversOf(j) = (ToSet(j.left) \ away) \cup UNION {Wanted(u, job[k].prefs[u]) : u \in job[k].todo \ {s}}
    BY <1>2 DEF CoversOf
  <2>3. Wanted(s, pref) = (IF pref.shown = Nil THEN {} ELSE {s}) \cup (ToSet(j.left) \ away)
    BY <1>2, LeftsAre DEF Wanted
  <2> QED BY <2>1, <2>2, <2>3
<1>13. \A t \in Things : t # s \/ pref.shown = Nil => now'[t] = now[t]
  BY <1>6
<1>14. pref.shown # Nil /\ s \notin muddled => now'[s] = asked[s]
  <2> SUFFICES ASSUME pref.shown # Nil, s \notin muddled PROVE now'[s] = asked[s]
    OBVIOUS
  <2>1. now'[s] = pref.shown
    BY <1>4, <1>6
  <2>2. Wish(job[k].prefs, s) = pref.shown
    BY <1>4, WishesAre
  <2>3. s \in Owes(k)
    BY <1>11, <1>12
  <2> QED BY <1>4, <2>1, <2>2, <2>3 DEF ConsoleInv, AskedOrOwed
<1>15. AskedOrOwed'
  <2> SUFFICES ASSUME NEW t \in Things \ muddled'
      PROVE  /\ \A d \in Slots : t \in Owes(d)' =>
                  t \in Owes(d) /\ Wish(job'[d].prefs, t) = Wish(job[d].prefs, t)
             /\ \/ now'[t] = asked[t]
                \/ now'[t] = now[t] /\ \A d \in Slots : t \in Owes(d) => t \in Owes(d)'
    BY <1>5, LessIsOwed
  <2>1. ASSUME NEW d \in Slots, t \in Owes(d)'
        PROVE  t \in Owes(d) /\ Wish(job'[d].prefs, t) = Wish(job[d].prefs, t)
    <3>1. CASE d = k
      <4>1. job'[k] # NoJob
        BY <2>1, <3>1 DEF Owes, Covers, NoJob
      <4>2. job'[k].prefs = job[k].prefs
        BY <1>2, <1>10, <4>1
      <4>3. Owes(k)' \subseteq Owes(k)
        BY <1>10, <1>11, <1>12
      <4> QED BY <2>1, <3>1, <4>2, <4>3
    <3> QED BY <1>10, <2>1, <3>1
  <2>2. CASE t = s /\ pref.shown # Nil
    BY <1>5, <1>14, <2>1, <2>2
  <2>3. CASE ~(t = s /\ pref.shown # Nil)
    <3>1. \A d \in Slots : t \in Owes(d) => t \in Owes(d)'
      BY <1>10, <1>11, <1>12, <2>3
    <3> QED BY <1>13, <2>1, <2>3, <3>1
  <2> QED BY <2>2, <2>3
<1> QED BY <1>9, <1>15 DEF ConsoleInv

LEMMA OthersKeep ==
  ASSUME ConsoleInv, NEW on \in BOOLEAN, OthersWrite(on)
  PROVE  ConsoleInv'
<1> PICK h : h = "banking-circle"
  OBVIOUS
<1>1. /\ version' = version + 1 /\ now' = [now EXCEPT ![h] = on] /\ asked' = [asked EXCEPT ![h] = on]
      /\ muddled' = (muddled \ {h}) \cup (({h} \cap UNION {Covers(k) : k \in {l \in Slots : ~Applying(l, "put")}}))
      /\ UNCHANGED <<card, applied, job, away, money, wished, late, credited, moved>>
  BY DEF OthersWrite, checkHistory
<1>2. /\ version \in Nat /\ DOMAIN now = Things /\ DOMAIN asked = Things
  BY DEF ConsoleInv, ConsoleShape
<1>3. h \in Things
  BY WiringsApart DEF WiringFor, ToSet, StandIns
<1>4. ConsoleShape'
  <2>1. \A d \in Slots : job[d].kind = "apply" => IsApplication(job[d], version', away, muddled')
    <3> SUFFICES ASSUME NEW d \in Slots, job[d].kind = "apply" PROVE IsApplication(job[d], version', away, muddled')
      OBVIOUS
    <3>1. IsApplication(job[d], version, away, muddled)
      BY DEF ConsoleInv, ConsoleShape
    <3>2. muddled \subseteq muddled' \cup {"banking-circle"}
      BY <1>1
    <3> QED BY <1>1, <1>2, <3>1, <3>2 DEF IsApplication
  <2>2. version' \in Nat /\ DOMAIN now' = Things /\ DOMAIN asked' = Things
    BY <1>1, <1>2
  <2> QED BY <1>1, <2>1, <2>2 DEF ConsoleInv, ConsoleShape, IsFunding
<1>5. LateOnes' /\ ChecksHold'
  <2>1. WallClockPlugin' = WallClockPlugin /\ \A a : Balance(a)' = Balance(a)
    BY <1>1 DEF WallClockPlugin, Wall, Balance
  <2> QED BY <1>1, <2>1 DEF ConsoleInv, LateOnes, ChecksHold, Balance
<1>6. AskedOrOwed'
  <2>1. \A d \in Slots : Covers(d)' = Covers(d)
    BY <1>1 DEF Covers, Wanted
  <2>2. ASSUME NEW d \in Slots PROVE Owes(d)' \ {h} = Owes(d) \ {h}
    BY <2>1 DEF Owes
  <2>3. ASSUME NEW d \in Slots, h \notin muddled' PROVE h \notin Owes(d)'
    <3>1. CASE Applying(d, "put")
      <4>1. job[d].version \in Nat /\ job[d].version <= version
        BY <3>1 DEF Applying, ConsoleInv, ConsoleShape, IsApplication
      <4>2. Stale(d)'
        BY <1>1, <1>2, <3>1, <4>1 DEF Stale, Applying
      <4> QED BY <4>2 DEF Owes
    <3>2. CASE ~Applying(d, "put")
      <4>1. h \notin Covers(d)
        BY <1>1, <2>3, <3>2
      <4> QED BY <2>1, <4>1 DEF Owes
    <3> QED BY <3>1, <3>2
  <2> SUFFICES ASSUME NEW t \in Things \ muddled'
               PROVE  /\ \A d \in Slots : t \in Owes(d)' => Wish(job[d].prefs, t) = asked'[t]
                      /\ (\A d \in Slots : t \notin Owes(d)') => now'[t] = asked'[t]
    BY <1>1 DEF AskedOrOwed, Wish
  <2>4. CASE t = h
    BY <1>1, <1>2, <1>3, <2>3, <2>4
  <2>5. CASE t # h
    <3>1. now'[t] = now[t] /\ asked'[t] = asked[t] /\ t \notin muddled
      BY <1>1, <1>2, <2>5
    <3>2. \A d \in Slots : t \in Owes(d)' <=> t \in Owes(d)
      BY <2>2, <2>5
    <3> QED BY <3>1, <3>2 DEF ConsoleInv, AskedOrOwed
  <2> QED BY <2>4, <2>5
<1> QED BY <1>4, <1>5, <1>6 DEF ConsoleInv
-----------------------------------------------------------------------------
\* An application begins in an idle slot: it covers what it names, and what
\* others cover too is muddled.
LEMMA BeginningKeeps ==
  ASSUME ConsoleInv, NEW k \in Slots, NEW prefs, DOMAIN prefs \subseteq StandIns,
         BeginJob(k, Application(prefs)), Want(prefs),
         DOMAIN card' = Plugins, DOMAIN applied' = Plugins, wished' = applied',
         UNCHANGED <<now, version, away, money, credited, moved>>,
         late \subseteq late',
         \A d \in Slots : job[d].kind = "move" /\ WallClockPlugin' => d \in late'
  PROVE  ConsoleInv'
<1> PICK j : j = Application(prefs)
  OBVIOUS
<1> PICK names : names = Named(prefs)
  OBVIOUS
<1>1. /\ DOMAIN job' = Slots /\ \A d \in Slots \ {k} : job'[d] = job[d]
      /\ job[k] = NoJob /\ job'[k] = j
  BY DEF BeginJob, ConsoleInv, ConsoleShape
<1>2. /\ version \in Nat /\ away \subseteq {"banking-circle", "aci"}
      /\ DOMAIN now = Things /\ DOMAIN asked = Things
  BY DEF ConsoleInv, ConsoleShape
<1>3. /\ asked' = [t \in Things |-> IF t \in names THEN Wish(prefs, t) ELSE asked[t]]
      /\ muddled' = (muddled \ names) \cup (names \cap Covered)
  BY DEF Want
<1>4. names \cap away = {}
  <2>1. \A s \in StandIns : s \notin {"banking-circle", "aci"}
    BY DEF StandIns
  <2> QED BY <1>2, <2>1 DEF Named, Wanted
<1>5. IsApplication(j, version, away, muddled') /\ j.kind = "apply" /\ j.left = <<>> /\ j.step = "read"
      /\ j.prefs = prefs /\ j.todo = DOMAIN prefs
  BY <1>2, LeftsAre DEF Application, IsApplication
<1>6. ConsoleShape'
  <2>1. \A d \in Slots \ {k} : job[d].kind = "apply" => IsApplication(job[d], version, away, muddled')
    BY <1>3, <1>4 DEF ConsoleInv, ConsoleShape, IsApplication
  <2>2. \A d \in Slots :
          /\ job'[d].kind \in {"none", "apply", "fund", "move"}
          /\ job'[d].kind = "none" => job'[d] = NoJob
          /\ job'[d].kind = "apply" => IsApplication(job'[d], version, away, muddled')
          /\ job'[d].kind = "fund" => IsFunding(job'[d])
    BY <1>1, <1>5, <2>1 DEF ConsoleInv, ConsoleShape
  <2>3. DOMAIN asked' = Things
    BY <1>3
  <2> QED BY <1>1, <2>2, <2>3 DEF ConsoleInv, ConsoleShape, IsFunding
<1>7. LateOnes'
  <2> SUFFICES ASSUME NEW d \in Slots
      PROVE  /\ job'[d].kind = "move" /\ WallClockPlugin' => d \in late'
             /\ job'[d].kind = "fund" /\ job'[d].step = "credit" /\ Balance(Head(job'[d].todo)) > 0 => d \in late'
    BY DEF LateOnes, Balance
  <2>1. CASE d = k
    BY <1>1, <1>5, <2>1
  <2>2. CASE d # k
    BY <1>1, <2>2 DEF ConsoleInv, LateOnes
  <2> QED BY <2>1, <2>2
<1>8. ChecksHold'
  BY DEF ConsoleInv, ChecksHold
<1>9. \A d \in Slots \ {k} : Owes(d)' = Owes(d)
  BY <1>1, OthersAsTheyWere
<1>10. Owes(k)' = names /\ Owes(k) = {}
  <2>1. Covers(k)' = UNION {Wanted(s, prefs[s])' : s \in DOMAIN prefs}
    BY <1>1, <1>5, LeftsAre DEF Covers
  <2>2. \A s : Wanted(s, prefs[s])' = Wanted(s, prefs[s])
    BY DEF Wanted
  <2>3. Owes(k)' = Covers(k)'
    BY <1>1, <1>5 DEF Owes, Stale
  <2>4. Owes(k) = {}
    BY <1>1, IdleOwesNothing DEF NoJob
  <2> QED BY <2>1, <2>2, <2>3, <2>4 DEF Named
<1>11. AskedOrOwed'
  <2> SUFFICES ASSUME NEW t \in Things \ muddled'
               PROVE  /\ \A d \in Slots : t \in Owes(d)' => Wish(job'[d].prefs, t) = asked'[t]
                      /\ (\A d \in Slots : t \notin Owes(d)') => now'[t] = asked'[t]
    BY DEF AskedOrOwed, Wish
  <2>1. CASE t \in names
    <3>1. \A d \in Slots : t \notin Owes(d)
      BY <1>3, <2>1, OwedAreCovered DEF Covered
    <3>2. \A d \in Slots \ {k} : t \notin Owes(d)'
      BY <1>9, <3>1
    <3>3. Wish(job'[k].prefs, t) = asked'[t]
      BY <1>1, <1>3, <1>5, <2>1
    <3> QED BY <1>10, <2>1, <3>2, <3>3
  <2>2. CASE t \notin names
    <3>1. t \notin muddled /\ asked'[t] = asked[t] /\ now'[t] = now[t]
      BY <1>3, <2>2
    <3>2. t \notin Owes(k)' /\ t \notin Owes(k)
      BY <1>10, <2>2
    <3>3. \A d \in Slots \ {k} : Owes(d)' = Owes(d) /\ job'[d] = job[d]
      BY <1>1, <1>9
    <3>4. \A d \in Slots : t \in Owes(d) => Wish(job[d].prefs, t) = asked[t]
      BY <3>1 DEF ConsoleInv, AskedOrOwed
    <3>5. (\A d \in Slots : t \notin Owes(d)) => now[t] = asked[t]
      BY <3>1 DEF ConsoleInv, AskedOrOwed
    <3>6. ASSUME NEW d \in Slots, t \in Owes(d)'
          PROVE  Wish(job'[d].prefs, t) = asked'[t]
      <4>1. d # k
        BY <3>2, <3>6
      <4> QED BY <3>1, <3>3, <3>4, <3>6, <4>1
    <3>7. ASSUME \A d \in Slots : t \notin Owes(d)'
          PROVE  now'[t] = asked'[t]
      BY <3>1, <3>2, <3>3, <3>5, <3>7
    <3> QED BY <3>6, <3>7
  <2> QED BY <2>1, <2>2
<1> QED BY <1>6, <1>7, <1>8, <1>11 DEF ConsoleInv

LEMMA PressingKeeps ==
  ASSUME ConsoleInv, NEW k \in Slots, NEW prefs \in Buttons, PressStandIn(k, prefs)
  PROVE  ConsoleInv'
<1>1. DOMAIN prefs \subseteq StandIns
  BY ConsoleAssumption
<1>2. /\ BeginJob(k, Application(prefs)) /\ Want(prefs)
      /\ UNCHANGED <<card, applied, wished, now, version, away, money, late, credited, moved>>
  BY DEF PressStandIn, checkHistory
<1>3. DOMAIN card' = Plugins /\ DOMAIN applied' = Plugins /\ wished' = applied'
  BY <1>2 DEF ConsoleInv, ConsoleShape
<1>4. \A d \in Slots : job[d].kind = "move" /\ WallClockPlugin' => d \in late'
  <2>1. WallClockPlugin' = WallClockPlugin
    BY <1>2 DEF WallClockPlugin, Wall
  <2> QED BY <1>2, <2>1 DEF ConsoleInv, LateOnes
<1> QED BY <1>1, <1>2, <1>3, <1>4, BeginningKeeps

\* The jobs stay as they are, and so does what is asked.
LEMMA JobsAsTheyWere ==
  ASSUME ConsoleInv, UNCHANGED <<job, now, version, away, asked, muddled, money, credited, moved>>,
         DOMAIN card' = Plugins, DOMAIN applied' = Plugins, wished' = applied',
         late \subseteq late',
         \A d \in Slots : job[d].kind = "move" /\ WallClockPlugin' => d \in late'
  PROVE  ConsoleInv'
<1>1. ConsoleShape'
  BY DEF ConsoleInv, ConsoleShape, IsFunding
<1>2. LateOnes'
  BY DEF ConsoleInv, LateOnes, Balance
<1>3. ChecksHold'
  BY DEF ConsoleInv, ChecksHold
<1>4. \A d : Owes(d)' = Owes(d)
  BY DEF Owes, Covers, Stale, Wanted
<1>5. AskedOrOwed'
  BY <1>4 DEF ConsoleInv, AskedOrOwed, Wish
<1> QED BY <1>1, <1>2, <1>3, <1>5 DEF ConsoleInv

LEMMA RegisteringKeeps ==
  ASSUME ConsoleInv, NEW p \in Plugins, NEW d \in Descriptors, RegisterPlugin(p, d)
  PROVE  ConsoleInv'
<1>1. DOMAIN d.wishes \subseteq StandIns
  BY ConsoleAssumption DEF RegisterPlugin, DescriptorValid
<1>2. /\ card' = [card EXCEPT ![p] = [state |-> "live", clock |-> d.clock]]
      /\ late' = IF d.clock = "wall" /\ ~Wall(p) THEN late \cup {k \in Slots : job[k].kind = "move"} ELSE late
      /\ UNCHANGED <<now, version, away, money, credited, moved>>
  BY DEF RegisterPlugin
<1>3. DOMAIN card = Plugins /\ DOMAIN applied = Plugins /\ wished = applied
  BY DEF ConsoleInv, ConsoleShape
<1>4. DOMAIN card' = Plugins /\ late \subseteq late'
  BY <1>2, <1>3
<1>5. \A k \in Slots : job[k].kind = "move" /\ WallClockPlugin' => k \in late'
  <2> SUFFICES ASSUME NEW k \in Slots, job[k].kind = "move", WallClockPlugin'
               PROVE  k \in late'
    OBVIOUS
  <2>1. CASE WallClockPlugin
    BY <1>4, <2>1 DEF ConsoleInv, LateOnes
  <2>2. CASE ~WallClockPlugin
    <3> PICK q \in Plugins : card'[q] = [state |-> "live", clock |-> "wall"]
      BY DEF WallClockPlugin, Wall
    <3>1. q = p
      BY <1>2, <1>3, <2>2 DEF WallClockPlugin, Wall
    <3>2. d.clock = "wall" /\ ~Wall(p)
      BY <1>2, <1>3, <2>2, <3>1 DEF WallClockPlugin
    <3> QED BY <1>2, <3>2
  <2> QED BY <2>1, <2>2
<1>6. CASE StandInChanged(p, d.wishes)
  <2>1. applied' = [applied EXCEPT ![p] = d.wishes] /\ \E k \in Slots : BeginJob(k, Application(d.wishes))
    BY <1>6 DEF RegisterPlugin
  <2>2. wished' = [wished EXCEPT ![p] = d.wishes] /\ Want(d.wishes)
    BY <1>3, <1>6 DEF RegisterPlugin, StandInChanged
  <2>3. DOMAIN applied' = Plugins /\ wished' = applied'
    BY <1>3, <2>1, <2>2
  <2> QED BY <1>1, <1>2, <1>4, <1>5, <2>1, <2>2, <2>3, BeginningKeeps
<1>7. CASE ~StandInChanged(p, d.wishes)
  <2>1. UNCHANGED <<applied, job, asked, wished, muddled>>
    BY <1>3, <1>7 DEF RegisterPlugin, StandInChanged
  <2>2. DOMAIN applied' = Plugins /\ wished' = applied'
    BY <1>3, <2>1
  <2> QED BY <1>2, <1>4, <1>5, <2>1, <2>2, JobsAsTheyWere
<1> QED BY <1>6, <1>7

LEMMA LeavingKeeps ==
  ASSUME ConsoleInv, NEW p \in Plugins, Lapse(p) \/ Unregister(p)
  PROVE  ConsoleInv'
<1>1. /\ \E s \in {"lapsed", "stopped"} : card' = [card EXCEPT ![p].state = s]
      /\ UNCHANGED <<applied, job, now, version, away, money, asked, wished, muddled, late, credited, moved>>
  BY DEF Lapse, Unregister, askHistory, checkHistory
<1>2. DOMAIN card = Plugins /\ DOMAIN applied = Plugins /\ wished = applied
  BY DEF ConsoleInv, ConsoleShape
<1>3. DOMAIN card' = Plugins /\ DOMAIN applied' = Plugins /\ wished' = applied'
  BY <1>1, <1>2
<1>4. WallClockPlugin' => WallClockPlugin
  <2> SUFFICES ASSUME NEW q \in Plugins, card'[q] = [state |-> "live", clock |-> "wall"]
               PROVE  card[q] = [state |-> "live", clock |-> "wall"]
    BY DEF WallClockPlugin, Wall
  <2> PICK s \in {"lapsed", "stopped"} : card' = [card EXCEPT ![p].state = s]
    BY <1>1
  <2>1. CASE q # p
    BY <1>2, <2>1
  <2>2. CASE q = p
    <3>1. card'[p] = [card[p] EXCEPT !.state = s]
      BY <1>2
    <3>2. card'[p].state = s \/ "state" \notin DOMAIN card'[p]
      BY <3>1
    <3>3. card'[p].state = "live" /\ DOMAIN card'[p] = {"state", "clock"}
      BY <2>2
    <3> QED BY <3>2, <3>3
  <2> QED BY <2>1, <2>2
<1>5. \A d \in Slots : job[d].kind = "move" /\ WallClockPlugin' => d \in late'
  BY <1>1, <1>4 DEF ConsoleInv, LateOnes
<1> QED BY <1>1, <1>3, <1>5, JobsAsTheyWere
-----------------------------------------------------------------------------
\* A job that is no application begins, goes on or ends.
LEMMA OtherJobKeeps ==
  ASSUME ConsoleInv, NEW k \in Slots, NEW j, job' = [job EXCEPT ![k] = j],
         job[k].kind # "apply",
         j = NoJob \/ (j.kind = "fund" /\ IsFunding(j)) \/ j.kind = "move",
         UNCHANGED <<card, applied, wished, now, version, away, asked, muddled>>,
         DOMAIN money' = Accounts,
         \A a \in Accounts : DOMAIN money'[a] = {"open", "moved"} /\ money'[a].open \in Int /\ money'[a].moved \in Int
  PROVE  /\ ConsoleShape' /\ AskedOrOwed'
         /\ job'[k] = j /\ \A d \in Slots \ {k} : job'[d] = job[d]
<1>1. /\ DOMAIN job' = Slots /\ \A d \in Slots \ {k} : job'[d] = job[d]
      /\ job'[k] = j /\ j.kind # "apply"
  BY DEF ConsoleInv, ConsoleShape, NoJob
<1>2. \A d \in Slots :
        /\ job'[d].kind \in {"none", "apply", "fund", "move"}
        /\ job'[d].kind = "none" => job'[d] = NoJob
        /\ job'[d].kind = "apply" => IsApplication(job'[d], version, away, muddled)
        /\ job'[d].kind = "fund" => IsFunding(job'[d])
  BY <1>1 DEF ConsoleInv, ConsoleShape, NoJob
<1>3. ConsoleShape'
  BY <1>1, <1>2 DEF ConsoleInv, ConsoleShape, IsFunding
<1>4. \A d \in Slots \ {k} : Owes(d)' = Owes(d)
  BY <1>1, OthersAsTheyWere
<1>5. Owes(k)' = {} /\ Owes(k) = {}
  BY <1>1 DEF Owes, Covers
<1>6. AskedOrOwed'
  <2>1. \A d \in Slots : Owes(d)' = Owes(d) /\ (job'[d] = job[d] \/ Owes(d) = {})
    BY <1>1, <1>4, <1>5
  <2> QED BY <2>1, LessIsOwed
<1> QED BY <1>1, <1>3, <1>6

LEMMA MoneyIs ==
  ASSUME ConsoleInv
  PROVE  /\ DOMAIN money = Accounts
         /\ \A a \in Accounts : /\ DOMAIN money[a] = {"open", "moved"} /\ money[a].open \in Int /\ money[a].moved \in Int
                                /\ Balance(a) \in Int /\ Balance(a) = money[a].open + money[a].moved
<1> QED BY DEF ConsoleInv, ConsoleShape, Balance

\* What is left when one currency is done.
LEMMA NextIs ==
  ASSUME ConsoleInv, NEW k \in Slots, job[k].kind = "fund", NextCurrency(k)
  PROVE  /\ IsFunding(job[k]) /\ Head(job[k].todo) \in Accounts
         /\ \E j : /\ job' = [job EXCEPT ![k] = j]
                   /\ j = NoJob \/ (j.kind = "fund" /\ IsFunding(j) /\ j.step = "read")
<1>1. IsFunding(job[k])
  BY DEF ConsoleInv, ConsoleShape
<1>2. /\ Head(job[k].todo) \in Accounts
      /\ Len(job[k].todo) # 1 => Tail(job[k].todo) = <<"GBP">>
  <2>1. CASE job[k].todo = <<"EUR", "GBP">>
    <3>1. Head(job[k].todo) = "EUR" /\ Tail(job[k].todo) = <<"GBP">>
      BY <2>1
    <3> QED BY <3>1 DEF Accounts
  <2>2. CASE job[k].todo = <<"GBP">>
    <3>1. Head(job[k].todo) = "GBP" /\ Len(job[k].todo) = 1
      BY <2>2
    <3> QED BY <3>1 DEF Accounts
  <2> QED BY <1>1, <2>1, <2>2 DEF IsFunding
<1> PICK r : r = [job[k] EXCEPT !.todo = Tail(@), !.step = "read"]
  OBVIOUS
<1>3. r.kind = "fund" /\ DOMAIN r = DOMAIN job[k] /\ r.todo = Tail(job[k].todo) /\ r.step = "read"
  BY <1>1 DEF IsFunding
<1>4. job' = [job EXCEPT ![k] = IF Len(job[k].todo) = 1 THEN NoJob ELSE r]
  BY Zenon DEF NextCurrency
<1>5. Len(job[k].todo) # 1 => IsFunding(r)
  BY <1>1, <1>2, <1>3 DEF IsFunding
<1> QED BY <1>1, <1>2, <1>3, <1>4, <1>5

LEMMA FundingBegins ==
  ASSUME ConsoleInv, NEW k \in Slots, FundSGA(k)
  PROVE  ConsoleInv'
<1> PICK j : j = [kind |-> "fund", todo |-> <<"EUR", "GBP">>, step |-> "read"]
  OBVIOUS
<1>1. /\ job' = [job EXCEPT ![k] = j] /\ job[k].kind # "apply"
      /\ UNCHANGED <<card, applied, wished, now, version, away, asked, muddled, money, late, credited, moved>>
  BY DEF FundSGA, BeginJob, NoJob, askHistory, checkHistory
<1>2. j.kind = "fund" /\ IsFunding(j) /\ j.step = "read"
  BY DEF IsFunding
<1>3. ConsoleShape' /\ AskedOrOwed' /\ job'[k] = j /\ \A d \in Slots \ {k} : job'[d] = job[d]
  BY <1>1, <1>2, MoneyIs, OtherJobKeeps
<1>4. WallClockPlugin' = WallClockPlugin /\ \A a : Balance(a)' = Balance(a)
  BY <1>1 DEF WallClockPlugin, Wall, Balance
<1>5. LateOnes'
  <2> SUFFICES ASSUME NEW d \in Slots
      PROVE  /\ job'[d].kind = "move" /\ WallClockPlugin => d \in late
             /\ job'[d].kind = "fund" /\ job'[d].step = "credit" /\ Balance(Head(job'[d].todo)) > 0 => d \in late
    BY <1>1, <1>4 DEF LateOnes, Balance
  <2> QED BY <1>2, <1>3 DEF ConsoleInv, LateOnes
<1>6. ChecksHold'
  BY <1>1 DEF ConsoleInv, ChecksHold
<1> QED BY <1>3, <1>5, <1>6 DEF ConsoleInv

LEMMA BalanceRead ==
  ASSUME ConsoleInv, NEW k \in Slots, ReadBalance(k)
  PROVE  ConsoleInv'
<1>1. /\ job[k].kind = "fund" /\ job[k].step = "read"
      /\ UNCHANGED <<card, applied, wished, now, version, away, asked, muddled, money, credited, moved>>
  BY DEF ReadBalance, askHistory
<1>2. IsFunding(job[k]) /\ Head(job[k].todo) \in Accounts
  BY <1>1 DEF ConsoleInv, ConsoleShape, IsFunding, Accounts
<1>3. WallClockPlugin' = WallClockPlugin /\ \A a : Balance(a)' = Balance(a)
  BY <1>1 DEF WallClockPlugin, Wall, Balance
<1>4. ChecksHold'
  BY <1>1 DEF ConsoleInv, ChecksHold
<1>5. CASE FoundEmpty(Head(job[k].todo))
  <2> PICK j : j = [job[k] EXCEPT !.step = "credit"]
    OBVIOUS
  <2>1. job' = [job EXCEPT ![k] = j] /\ late' = late \ {k}
    BY <1>5 DEF ReadBalance, ConsoleInv, ConsoleShape
  <2>2. j.kind = "fund" /\ IsFunding(j) /\ j.todo = job[k].todo
    BY <1>1, <1>2 DEF IsFunding
  <2>3. ConsoleShape' /\ AskedOrOwed' /\ job'[k] = j /\ \A d \in Slots \ {k} : job'[d] = job[d]
    BY <1>1, <2>1, <2>2, MoneyIs, OtherJobKeeps
  <2>4. ~(Balance(Head(job[k].todo)) > 0)
    BY <1>2, <1>5, MoneyIs DEF FoundEmpty
  <2>5. LateOnes'
    <3> SUFFICES ASSUME NEW d \in Slots
        PROVE  /\ job'[d].kind = "move" /\ WallClockPlugin => d \in late'
               /\ job'[d].kind = "fund" /\ job'[d].step = "credit" /\ Balance(Head(job'[d].todo)) > 0 => d \in late'
      BY <1>1, <1>3 DEF LateOnes, Balance
    <3>1. CASE d = k
      BY <2>2, <2>3, <2>4, <3>1
    <3>2. CASE d # k
      BY <2>1, <2>3, <3>2 DEF ConsoleInv, LateOnes
    <3> QED BY <3>1, <3>2
  <2> QED BY <1>4, <2>3, <2>5 DEF ConsoleInv
<1>6. CASE ~FoundEmpty(Head(job[k].todo))
  <2>1. NextCurrency(k) /\ late' = late
    BY <1>6 DEF ReadBalance
  <2> PICK j : /\ job' = [job EXCEPT ![k] = j]
               /\ j = NoJob \/ (j.kind = "fund" /\ IsFunding(j) /\ j.step = "read")
    BY <1>1, <2>1, NextIs
  <2>2. ConsoleShape' /\ AskedOrOwed' /\ job'[k] = j /\ \A d \in Slots \ {k} : job'[d] = job[d]
    BY <1>1, MoneyIs, OtherJobKeeps
  <2>3. LateOnes'
    <3> SUFFICES ASSUME NEW d \in Slots
        PROVE  /\ job'[d].kind = "move" /\ WallClockPlugin => d \in late
               /\ job'[d].kind = "fund" /\ job'[d].step = "credit" /\ Balance(Head(job'[d].todo)) > 0 => d \in late
      BY <1>1, <1>3, <2>1 DEF LateOnes, Balance
    <3>1. CASE d = k
      BY <2>2, <3>1 DEF NoJob
    <3>2. CASE d # k
      BY <2>2, <3>2 DEF ConsoleInv, LateOnes
    <3> QED BY <3>1, <3>2
  <2> QED BY <1>4, <2>2, <2>3 DEF ConsoleInv
<1> QED BY <1>5, <1>6

\* Whoever else has found that account empty is late now.
LEMMA CreditMade ==
  ASSUME ConsoleInv, NEW k \in Slots, CreditSGA(k)
  PROVE  ConsoleInv'
<1> PICK a : a = Head(job[k].todo)
  OBVIOUS
<1>1. /\ job[k].kind = "fund" /\ job[k].step = "credit"
      /\ money' = [money EXCEPT ![a].moved = @ + 1]
      /\ credited' = credited \cup {[held |-> Balance(a) > 0, late |-> k \in late]}
      /\ late' = late \cup (Checked(a) \ {k})
      /\ NextCurrency(k)
      /\ UNCHANGED <<card, applied, wished, now, version, away, asked, muddled, moved>>
  BY DEF CreditSGA, askHistory
<1> PICK j : /\ job' = [job EXCEPT ![k] = j]
             /\ j = NoJob \/ (j.kind = "fund" /\ IsFunding(j) /\ j.step = "read")
  BY <1>1, NextIs
<1>2. a \in Accounts
  BY <1>1, NextIs
<1>3. /\ DOMAIN money' = Accounts /\ \A b \in Accounts : b # a => money'[b] = money[b]
      /\ DOMAIN money'[a] = {"open", "moved"} /\ money'[a].open \in Int /\ money'[a].moved \in Int
  BY <1>1, <1>2, MoneyIs
<1>4. ConsoleShape' /\ AskedOrOwed' /\ job'[k] = j /\ \A d \in Slots \ {k} : job'[d] = job[d]
  <2>1. \A b \in Accounts : DOMAIN money'[b] = {"open", "moved"} /\ money'[b].open \in Int /\ money'[b].moved \in Int
    BY <1>3, MoneyIs
  <2> QED BY <1>1, <1>3, <2>1, OtherJobKeeps
<1>5. ChecksHold'
  <2>1. Balance(a) > 0 => k \in late
    BY <1>1 DEF ConsoleInv, LateOnes
  <2> PICK held, tardy : held = (Balance(a) > 0) /\ tardy = (k \in late)
    OBVIOUS
  <2>2. credited' = credited \cup {[held |-> held, late |-> tardy]} /\ (held => tardy)
    BY <1>1, <2>1
  <2>3. \A c \in credited' : c.held => c.late
    <3> PICK r : r = [held |-> held, late |-> tardy]
      OBVIOUS
    <3>1. r.held = held /\ r.late = tardy
      BY Zenon
    <3>2. \A c \in credited : c.held => c.late
      BY DEF ConsoleInv, ChecksHold
    <3> QED BY <2>2, <3>1, <3>2, Zenon
  <2> QED BY <1>1, <2>3, Zenon DEF ConsoleInv, ChecksHold
<1>6. LateOnes'
  <2>1. WallClockPlugin' = WallClockPlugin
    BY <1>1 DEF WallClockPlugin, Wall
  <2> SUFFICES ASSUME NEW d \in Slots
      PROVE  /\ job'[d].kind = "move" /\ WallClockPlugin => d \in late'
             /\ (job'[d].kind = "fund" /\ job'[d].step = "credit"
                  /\ money'[Head(job'[d].todo)].open + money'[Head(job'[d].todo)].moved > 0) => d \in late'
    BY <2>1 DEF LateOnes, Balance
  <2>2. CASE d = k
    BY <1>4, <2>2 DEF NoJob
  <2>3. CASE d # k
    <3>1. job'[d] = job[d]
      BY <1>4, <2>3
    <3>2. job[d].kind = "move" /\ WallClockPlugin => d \in late'
      BY <1>1 DEF ConsoleInv, LateOnes
    <3>3. ASSUME job[d].kind = "fund", job[d].step = "credit",
                 money'[Head(job[d].todo)].open + money'[Head(job[d].todo)].moved > 0
          PROVE  d \in late'
      <4>1. CASE Head(job[d].todo) = a
        BY <1>1, <2>3, <3>3, <4>1 DEF Checked
      <4>2. CASE Head(job[d].todo) # a
        <5>1. Head(job[d].todo) \in Accounts
          BY <3>3 DEF ConsoleInv, ConsoleShape, IsFunding, Accounts
        <5>2. Balance(Head(job[d].todo)) > 0
          BY <1>3, <3>3, <4>2, <5>1 DEF Balance
        <5> QED BY <1>1, <3>3, <5>2 DEF ConsoleInv, LateOnes
      <4> QED BY <4>1, <4>2
    <3> QED BY <3>1, <3>2, <3>3
  <2> QED BY <2>2, <2>3
<1> QED BY <1>4, <1>5, <1>6 DEF ConsoleInv

LEMMA FundingGoesOn ==
  ASSUME ConsoleInv, NEW k \in Slots, FundingFails(k)
  PROVE  ConsoleInv'
<1>1. /\ job[k].kind = "fund" /\ NextCurrency(k)
      /\ UNCHANGED <<card, applied, wished, now, version, away, asked, muddled, money, late, credited, moved>>
  BY DEF FundingFails, askHistory, checkHistory
<1> PICK j : /\ job' = [job EXCEPT ![k] = j]
             /\ j = NoJob \/ (j.kind = "fund" /\ IsFunding(j) /\ j.step = "read")
  BY <1>1, NextIs
<1>2. ConsoleShape' /\ AskedOrOwed' /\ job'[k] = j /\ \A d \in Slots \ {k} : job'[d] = job[d]
  BY <1>1, MoneyIs, OtherJobKeeps
<1>3. WallClockPlugin' = WallClockPlugin /\ \A a : Balance(a)' = Balance(a)
  BY <1>1 DEF WallClockPlugin, Wall, Balance
<1>4. LateOnes'
  <2> SUFFICES ASSUME NEW d \in Slots
      PROVE  /\ job'[d].kind = "move" /\ WallClockPlugin => d \in late
             /\ job'[d].kind = "fund" /\ job'[d].step = "credit" /\ Balance(Head(job'[d].todo)) > 0 => d \in late
    BY <1>1, <1>3 DEF LateOnes, Balance
  <2>1. CASE d = k
    BY <1>2, <2>1 DEF NoJob
  <2>2. CASE d # k
    BY <1>2, <2>2 DEF ConsoleInv, LateOnes
  <2> QED BY <2>1, <2>2
<1>5. ChecksHold'
  BY <1>1 DEF ConsoleInv, ChecksHold
<1> QED BY <1>2, <1>4, <1>5 DEF ConsoleInv

\* Money moves at the bank, and the jobs are as they were.
LEMMA MoneyMoves ==
  ASSUME ConsoleInv,
         UNCHANGED <<card, applied, job, wished, now, version, away, asked, muddled, credited, moved>>,
         DOMAIN money' = Accounts,
         \A a \in Accounts : /\ DOMAIN money'[a] = {"open", "moved"} /\ money'[a].open \in Int /\ money'[a].moved \in Int
                             /\ \/ money'[a].open + money'[a].moved <= Balance(a)
                                \/ Checked(a) \subseteq late',
         late \subseteq late'
  PROVE  ConsoleInv'
<1>1. ConsoleShape'
  BY DEF ConsoleInv, ConsoleShape, IsFunding
<1>2. \A d : Owes(d)' = Owes(d)
  BY DEF Owes, Covers, Stale, Wanted
<1>3. AskedOrOwed'
  BY <1>2 DEF ConsoleInv, AskedOrOwed, Wish
<1>4. ChecksHold'
  BY DEF ConsoleInv, ChecksHold
<1>5. LateOnes'
  <2>1. WallClockPlugin' = WallClockPlugin
    BY DEF WallClockPlugin, Wall
  <2> SUFFICES ASSUME NEW d \in Slots
      PROVE  /\ job[d].kind = "move" /\ WallClockPlugin => d \in late'
             /\ (job[d].kind = "fund" /\ job[d].step = "credit"
                  /\ money'[Head(job[d].todo)].open + money'[Head(job[d].todo)].moved > 0) => d \in late'
    BY <2>1 DEF LateOnes, Balance
  <2>2. job[d].kind = "move" /\ WallClockPlugin => d \in late'
    BY DEF ConsoleInv, LateOnes
  <2>3. ASSUME job[d].kind = "fund", job[d].step = "credit",
               money'[Head(job[d].todo)].open + money'[Head(job[d].todo)].moved > 0
        PROVE  d \in late'
    <3> PICK a : a = Head(job[d].todo)
      OBVIOUS
    <3>1. a \in Accounts
      BY <2>3 DEF ConsoleInv, ConsoleShape, IsFunding, Accounts
    <3>2. CASE Checked(a) \subseteq late'
      BY <2>3, <3>2 DEF Checked
    <3>3. CASE money'[a].open + money'[a].moved <= Balance(a)
      <4>1. Balance(a) > 0
        BY <2>3, <3>1, <3>3, MoneyIs
      <4> QED BY <2>3, <4>1 DEF ConsoleInv, LateOnes
    <3> QED BY <3>1, <3>2, <3>3
  <2> QED BY <2>2, <2>3
<1> QED BY <1>1, <1>3, <1>4, <1>5 DEF ConsoleInv

LEMMA BankKeeps ==
  ASSUME ConsoleInv, (\E a \in Accounts, by \in {1, -1} : BankMoves(a, by)) \/ DayTurns
  PROVE  ConsoleInv'
<1>1. ASSUME NEW a \in Accounts, NEW by \in {1, -1}, BankMoves(a, by)
      PROVE  ConsoleInv'
  <2>1. /\ money' = [money EXCEPT ![a].moved = @ + by]
        /\ late' = IF by > 0 THEN late \cup Checked(a) ELSE late
        /\ UNCHANGED <<card, applied, job, wished, now, version, away, asked, muddled, credited, moved>>
    BY <1>1 DEF BankMoves, askHistory
  <2>2. /\ DOMAIN money' = Accounts /\ \A b \in Accounts : b # a => money'[b] = money[b]
        /\ DOMAIN money'[a] = {"open", "moved"} /\ money'[a].open = money[a].open
        /\ money'[a].moved = money[a].moved + by
    BY <2>1, MoneyIs
  <2>3. \A b \in Accounts : /\ DOMAIN money'[b] = {"open", "moved"} /\ money'[b].open \in Int /\ money'[b].moved \in Int
                            /\ \/ money'[b].open + money'[b].moved <= Balance(b)
                               \/ Checked(b) \subseteq late'
    <3> SUFFICES ASSUME NEW b \in Accounts
        PROVE  /\ DOMAIN money'[b] = {"open", "moved"} /\ money'[b].open \in Int /\ money'[b].moved \in Int
               /\ \/ money'[b].open + money'[b].moved <= Balance(b)
                  \/ Checked(b) \subseteq late'
      OBVIOUS
    <3>1. CASE b # a
      BY <2>2, <3>1, MoneyIs
    <3>2. CASE b = a
      BY <2>1, <2>2, <3>2, MoneyIs
    <3> QED BY <3>1, <3>2
  <2>4. late \subseteq late'
    BY <2>1
  <2> QED BY <2>1, <2>2, <2>3, <2>4, MoneyMoves
<1>2. ASSUME DayTurns PROVE ConsoleInv'
  <2>1. /\ money' = [a \in Accounts |-> [open |-> Balance(a), moved |-> 0]]
        /\ UNCHANGED <<card, applied, job, wished, now, version, away, asked, muddled, late, credited, moved>>
    BY <1>2 DEF DayTurns, askHistory, checkHistory
  <2>2. \A b \in Accounts : /\ DOMAIN money'[b] = {"open", "moved"} /\ money'[b].open \in Int /\ money'[b].moved \in Int
                            /\ money'[b].open + money'[b].moved <= Balance(b)
    BY <2>1, MoneyIs
  <2> QED BY <2>1, <2>2, MoneyMoves
<1> QED BY <1>1, <1>2

LEMMA ClockKeeps ==
  ASSUME ConsoleInv, NEW k \in Slots, SetLabClock(k) \/ ClockMoves(k)
  PROVE  ConsoleInv'
<1>1. CASE SetLabClock(k)
  <2> PICK j : j = [kind |-> "move"]
    OBVIOUS
  <2>1. /\ job' = [job EXCEPT ![k] = j] /\ job[k].kind # "apply" /\ ~WallClockPlugin /\ late' = late \ {k}
        /\ UNCHANGED <<card, applied, wished, now, version, away, asked, muddled, money, credited, moved>>
    BY <1>1 DEF SetLabClock, BeginJob, NoJob, askHistory
  <2>2. j.kind = "move"
    OBVIOUS
  <2>3. ConsoleShape' /\ AskedOrOwed' /\ job'[k] = j /\ \A d \in Slots \ {k} : job'[d] = job[d]
    BY <2>1, <2>2, MoneyIs, OtherJobKeeps
  <2>4. WallClockPlugin' = WallClockPlugin
    BY <2>1 DEF WallClockPlugin, Wall
  <2>5. LateOnes'
    <3> SUFFICES ASSUME NEW d \in Slots
        PROVE  (job'[d].kind = "fund" /\ job'[d].step = "credit" /\ Balance(Head(job'[d].todo)) > 0) => d \in late'
      BY <2>1, <2>4 DEF LateOnes, Balance
    <3>1. CASE d = k
      BY <2>2, <2>3, <3>1
    <3>2. CASE d # k
      BY <2>1, <2>3, <3>2 DEF ConsoleInv, LateOnes
    <3> QED BY <3>1, <3>2
  <2>6. ChecksHold'
    BY <2>1 DEF ConsoleInv, ChecksHold
  <2> QED BY <2>3, <2>5, <2>6 DEF ConsoleInv
<1>2. CASE ClockMoves(k)
  <2>1. /\ job' = [job EXCEPT ![k] = NoJob] /\ job[k].kind = "move"
        /\ moved' = moved \cup {[wall |-> WallClockPlugin, late |-> k \in late]}
        /\ UNCHANGED <<card, applied, wished, now, version, away, asked, muddled, money, late, credited>>
    BY <1>2 DEF ClockMoves, askHistory
  <2>2. ConsoleShape' /\ AskedOrOwed' /\ job'[k] = NoJob /\ \A d \in Slots \ {k} : job'[d] = job[d]
    BY <2>1, MoneyIs, OtherJobKeeps
  <2>3. WallClockPlugin' = WallClockPlugin /\ \A a : Balance(a)' = Balance(a)
    BY <2>1 DEF WallClockPlugin, Wall, Balance
  <2>4. LateOnes'
    <3> SUFFICES ASSUME NEW d \in Slots
        PROVE  /\ job'[d].kind = "move" /\ WallClockPlugin => d \in late
               /\ job'[d].kind = "fund" /\ job'[d].step = "credit" /\ Balance(Head(job'[d].todo)) > 0 => d \in late
      BY <2>1, <2>3 DEF LateOnes, Balance
    <3>1. CASE d = k
      BY <2>2, <3>1 DEF NoJob
    <3>2. CASE d # k
      BY <2>2, <3>2 DEF ConsoleInv, LateOnes
    <3> QED BY <3>1, <3>2
  <2>5. ChecksHold'
    <3>1. WallClockPlugin => k \in late
      BY <2>1 DEF ConsoleInv, LateOnes
    <3> PICK wall, tardy : wall = WallClockPlugin /\ tardy = (k \in late)
      OBVIOUS
    <3>2. moved' = moved \cup {[wall |-> wall, late |-> tardy]} /\ (wall => tardy)
      BY <2>1, <3>1
    <3>3. \A m \in moved' : m.wall => m.late
      <4> PICK r : r = [wall |-> wall, late |-> tardy]
        OBVIOUS
      <4>1. r.wall = wall /\ r.late = tardy
        BY Zenon
      <4>2. \A m \in moved : m.wall => m.late
        BY DEF ConsoleInv, ChecksHold
      <4> QED BY <3>2, <4>1, <4>2, Zenon
    <3> QED BY <2>1, <3>3, Zenon DEF ConsoleInv, ChecksHold
  <2> QED BY <2>2, <2>4, <2>5 DEF ConsoleInv
<1> QED BY <1>1, <1>2
-----------------------------------------------------------------------------
LEMMA ConsoleRestarts ==
  ASSUME ConsoleInv, RestartConsole
  PROVE  ConsoleInv'
<1>1. /\ card' = [p \in Plugins |-> NoCard] /\ applied' = [p \in Plugins |-> <<>>] /\ wished' = applied'
      /\ job' = [k \in Slots |-> NoJob]
      /\ now' = [t \in Things |-> IF t \in StandIns THEN ShownAtStart ELSE now[t]]
      /\ asked' = [t \in Things |-> IF t \in StandIns THEN ShownAtStart ELSE asked[t]]
      /\ muddled' = (muddled \cup Covered) \ StandIns
      /\ UNCHANGED <<version, away, money, late, credited, moved>>
  BY DEF RestartConsole, checkHistory
<1>2. ConsoleShape'
  BY <1>1 DEF ConsoleInv, ConsoleShape, NoJob
<1>3. LateOnes' /\ ChecksHold'
  BY <1>1 DEF ConsoleInv, LateOnes, ChecksHold, NoJob
<1>4. AskedOrOwed'
  <2> SUFFICES ASSUME NEW t \in Things \ muddled' PROVE now'[t] = asked'[t]
    <3>1. \A k \in Slots : Owes(k)' = {}
      BY <1>1 DEF Owes, Covers, NoJob
    <3> QED BY <3>1 DEF AskedOrOwed
  <2>1. CASE t \in StandIns
    BY <1>1, <2>1
  <2>2. CASE t \notin StandIns
    <3>1. t \notin muddled /\ \A k \in Slots : t \notin Owes(k)
      BY <1>1, <2>2, OwedAreCovered DEF Covered
    <3> QED BY <1>1, <2>2, <3>1 DEF ConsoleInv, AskedOrOwed
  <2> QED BY <2>1, <2>2
<1> QED BY <1>2, <1>3, <1>4 DEF ConsoleInv

LEMMA ConsoleStarts == ConsoleInit => ConsoleInv
<1> SUFFICES ASSUME ConsoleInit PROVE ConsoleInv
  OBVIOUS
<1>1. ConsoleShape
  BY DEF ConsoleInit, ConsoleShape, NoJob
<1>2. LateOnes /\ ChecksHold
  BY DEF ConsoleInit, LateOnes, ChecksHold, NoJob
<1>3. AskedOrOwed
  BY DEF ConsoleInit, AskedOrOwed, Owes, Covers, NoJob
<1> QED BY <1>1, <1>2, <1>3 DEF ConsoleInv

LEMMA ConsoleSteps == ConsoleInv /\ [ConsoleNext]_consoleVars => ConsoleInv'
<1> SUFFICES ASSUME ConsoleInv, [ConsoleNext]_consoleVars PROVE ConsoleInv'
  OBVIOUS
<1>1. CASE Registrations
  BY <1>1, RegisteringKeeps, LeavingKeeps DEF Registrations
<1>2. CASE Apply
  BY <1>2, OthersKeep, PressingKeeps, TakingUpKeeps, ReadingKeeps, SettingKeeps, ListingKeeps, PuttingKeeps,
     FailingKeeps DEF Apply
<1>3. CASE CheckAndAct
  BY <1>3, BankKeeps, FundingBegins, BalanceRead, CreditMade, FundingGoesOn, ClockKeeps DEF CheckAndAct
<1>4. CASE RestartConsole
  BY <1>4, ConsoleRestarts
<1>5. CASE UNCHANGED consoleVars
  <2>1. UNCHANGED <<card, applied, job, now, version, away, money, asked, wished, muddled, late, credited, moved>>
    BY <1>5 DEF consoleVars, askHistory, checkHistory
  <2>2. DOMAIN card' = Plugins /\ DOMAIN applied' = Plugins /\ wished' = applied'
    BY <2>1 DEF ConsoleInv, ConsoleShape
  <2>3. \A d \in Slots : job[d].kind = "move" /\ WallClockPlugin' => d \in late'
    <3>1. WallClockPlugin' = WallClockPlugin
      BY <2>1 DEF WallClockPlugin, Wall
    <3> QED BY <2>1, <3>1 DEF ConsoleInv, LateOnes
  <2> QED BY <2>1, <2>2, <2>3, JobsAsTheyWere
<1> QED BY <1>1, <1>2, <1>3, <1>4, <1>5 DEF ConsoleNext

\* Whatever the console's buttons and the platforms that register with it ask
\* for, in any number of requests and background goroutines at once, with
\* calls that fail, with others who write to the bank's subscription and over
\* restarts: a stand-in's wiring and card are what was asked last, but for
\* what an application still has before it and what the model names as
\* muddled (applyStandIn, SetReceiverConnected, Register).
THEOREM WiringAsAsked == ConsoleSpec => []StandInsAsAsked
<1>1. ConsoleInv => StandInsAsAsked
  <2> SUFFICES ASSUME ConsoleInv, NEW t \in Things \ (muddled \cup Covered)
               PROVE  now[t] = asked[t]
    BY DEF StandInsAsAsked
  <2>1. \A k \in Slots : t \notin Owes(k)
    BY OwedAreCovered DEF Covered
  <2> QED BY <2>1 DEF ConsoleInv, AskedOrOwed
<1> QED BY <1>1, ConsoleStarts, ConsoleSteps, PTL DEF ConsoleSpec

\* The console credits a safeguarding account that holds money, or moves the
\* clock under a live platform on the wall clock, only when that came about
\* after its check (FundSafeguarding, clockLock).
THEOREM ChecksAreKept == ConsoleSpec => []ChecksHold
<1>1. ConsoleInv => ChecksHold
  BY DEF ConsoleInv
<1> QED BY <1>1, ConsoleStarts, ConsoleSteps, PTL DEF ConsoleSpec

=============================================================================
