------------------------------ MODULE MCServices ------------------------------
(***************************************************************************)
(* Instances of EnrolmentDesk, B4BDirectory, PaymentPath (with Webhooks),  *)
(* Verification, Console and MerchantRegistry for TLC.  They share         *)
(* nothing: a behaviour looks at one of ten subjects, chosen at the start, *)
(* and leaves the others as they begin.                                    *)
(***************************************************************************)
EXTENDS EnrolmentDesk, B4BDirectory, PaymentPath, Verification, Console, MerchantRegistry, TLC

CONSTANTS outlet, Subjects

VARIABLE subject

\* The desk: a batch with an outlet and one without a reference, or garbage.
MCContents == {[subs |-> <<outlet, Blank>>], Garbage}
MCMid == outlet :> 17

\* The directory: boarding under reference 11, and payees under 12.
Board ==
  {[kind |-> "company", valid |-> TRUE, ref |-> 11, companyWaived |-> w, personWaived |-> FALSE] :
     w \in BOOLEAN}
  \cup {[kind |-> "company", valid |-> FALSE, ref |-> 0], [kind |-> "address", valid |-> TRUE, of |-> 11],
   [kind |-> "person", valid |-> TRUE, of |-> 11, natural |-> TRUE, papers |-> FALSE],
   [kind |-> "person", valid |-> TRUE, of |-> 11, natural |-> FALSE, papers |-> FALSE],
   [kind |-> "extended", of |-> 11, documents |-> {}],
   [kind |-> "extended", of |-> 11, documents |-> {1}],
   [kind |-> "document"], [kind |-> "viban", of |-> 11, currency |-> "EUR"],
   [kind |-> "screen company", of |-> 11, to |-> "fail"],
   [kind |-> "screen person", of |-> 2, to |-> "", pep |-> "review"]}
Payees ==
  {[kind |-> "payee", valid |-> TRUE, company |-> 0, ref |-> 12, account |-> 7, sanctions |-> ""],
   [kind |-> "payment", of |-> 12, account |-> 0, by |-> 0],
   [kind |-> "payment", of |-> 1, account |-> 7, by |-> 0],
   [kind |-> "status", of |-> 1, to |-> "disabled"],
   [kind |-> "sanctions", of |-> 12, to |-> "fail"],
   [kind |-> "sanctions", of |-> 12, to |-> "pass"]}
MCAsks == Board \cup Payees
MCOwn == [n \in {1, 2, 3, 12} |-> 9]

\* The bank: a funded account and one that one more payment takes over the
\* edge of the word; the shop's opens with a credit or by hand, in either
\* currency.
MCSeeded == [a \in {"alice", "bob"} |-> [ccy |-> "EUR", cents |-> IF a = "alice" THEN 300 ELSE 450]]
MCOrders ==
  {[key |-> "k", from |-> "alice", to |-> "bob", whole |-> 1, ccy |-> "EUR"],
   [key |-> "", from |-> "alice", to |-> "shop", whole |-> 2, ccy |-> "EUR"]}
MCCredits == {[to |-> "shop", ccy |-> "EUR", whole |-> 1], [to |-> "bob", ccy |-> "GBP", whole |-> 1]}
MCOpenings == {[iban |-> "shop", ccy |-> "GBP", whole |-> 0]}

\* Verification: two merchants of one hash but for its sign, one of hash 0, one
\* of the hash with no positive; the list is empty or has everybody.
MCMerchants == {"a", "b", "zero", "least"}
MCHash == [m \in MCMerchants |-> CASE m = "a" -> 3 [] m = "b" -> -3 [] m = "zero" -> 0 [] m = "least" -> -8]
MCLists == {{}, {3, 0, -8}}

\* The console: a platform that asks for the stand-ins off, on or not at all,
\* on either clock, and buttons that ask for less.
Pref(connected, shown) == [connected |-> connected, shown |-> shown]
Off == "settlement" :> Pref(FALSE, FALSE) @@ "receiver" :> Pref(FALSE, Nil)
On == "receiver" :> Pref(TRUE, TRUE)
MCDescriptors ==
  {[valid |-> TRUE, clock |-> c, wishes |-> w] : c \in {"follows", "wall"}, w \in {<<>>, Off, On}}
  \cup {[valid |-> FALSE]}
MCButtons == {"receiver" :> Pref(FALSE, TRUE)}

\* The registry: a batch of two merchants with an outlet each; the first and
\* the last of two merchants' outlets have one MID.
MCShapes == {[size |-> 4, merchants |-> {1, 3}]}
MCMidOf == <<21, 22, 23, 22, 25>>
MCPayeeIds == 1..4
-----------------------------------------------------------------------------
vars == <<deskVars, dirVars, pathVars, verificationVars, consoleVars, registryVars, subject>>

Init ==
  /\ DeskInit /\ DirectoryInit /\ PathInit /\ VerificationInit /\ ConsoleInit /\ RegistryInit
  /\ subject \in Subjects
  /\ subject # "webhooks" => wiring
  /\ subject # "verification" => declines = {} /\ keyed
  /\ away \subseteq IF subject = "stand-ins" THEN {"aci"} ELSE {}

\* At most one thing goes wrong with a batch, and with a second one there is
\* one clerk or nothing goes wrong.
Desk ==
  /\ subject = "desk" /\ DeskNext
  /\ faults' + deskRestarts' <= 1
  /\ 2 \in DOMAIN inbox' => inbox'[2].goal # Garbage
  /\ uploads' = 2 => requests' + faults' + deskRestarts' <= 1
  /\ UNCHANGED <<dirVars, pathVars, verificationVars, consoleVars, registryVars, subject>>

\* Slots, callers and provisioners are alike: the first to work is always the
\* same.
FirstFirst(work, first, second) == work[first] = work[second] => work'[second] = work[second]

\* Boarding, or payees, but not both: boarding, a save copies no payees, and
\* the order of the ids does not matter.
Directory ==
  /\ subject \in {"board", "payees"} /\ DirectoryNext
  /\ FirstFirst(caller, "x", "y")
  /\ LET underWay == {caller'[c].ask : c \in {d \in Callers : caller'[d].step # "free"}}
     IN  IF subject = "board"
         THEN /\ underWay \subseteq Board /\ Used' \ Used \subseteq {n \in Fresh : \A m \in Fresh : n <= m}
              /\ \A c \in Callers : caller[c].step = "copy" => caller'[c].step = "write"
         ELSE /\ underWay \subseteq Payees \cup {[kind |-> "hop"]}
              /\ (\E c \in Callers : caller[c].step = "copy") => asks' = asks
  /\ UNCHANGED <<deskVars, pathVars, verificationVars, consoleVars, registryVars, subject>>

\* Of the webhooks, only that an event is queued.
Payments ==
  /\ subject = "payments" /\ PathNext
  /\ sub' = sub /\ wiring' = wiring /\ Cards' = {}
  /\ \A e \in DOMAIN events : events'[e] = events[e]
  /\ credits' + losses' <= 1
  /\ UNCHANGED <<deskVars, dirVars, verificationVars, consoleVars, registryVars, subject>>

\* Anyone may post to the notifier; a card is simulated beside one such event.
Post ==
  /\ Cardinality(DOMAIN enqueues) + Cardinality(Cards) < 2
  /\ enqueues' = Put(enqueues, Cardinality(DOMAIN enqueues) + 1, [at |-> "sent", sub |-> sub])
  /\ UNCHANGED <<sub, events, received, wiring, flips>>

Hooks ==
  /\ subject = "webhooks"
  /\ Post \/ HooksNext
  /\ Cardinality(DOMAIN enqueues') + Cardinality(Cards') <= 2
  /\ UNCHANGED <<deskVars, dirVars, bankVars, transfers, request, orders, payments, byKey, lost,
                 raced, losses, credits, verificationVars, consoleVars, registryVars, subject>>

Verifying ==
  /\ subject = "verification" /\ VerificationNext
  /\ UNCHANGED <<deskVars, dirVars, pathVars, consoleVars, registryVars, subject>>

\* Of the clocks a platform runs on, the stand-ins know nothing.
StandIn ==
  /\ subject = "stand-ins" /\ ConsoleNext
  /\ \A p \in Plugins : card'[p] \in {NoCard, [state |-> "live", clock |-> "follows"]}
  /\ \A k \in Slots : job'[k].kind \in {"none", "apply"}
  /\ money' = money
  /\ FirstFirst(job, 1, 2)
  /\ consoleAsks' + consoleFails' + consoleRestarts' <= 3
  /\ UNCHANGED <<deskVars, dirVars, pathVars, verificationVars, registryVars, subject>>

\* The safeguarding accounts, or the clock beside a platform's cards.
Checking ==
  /\ subject \in {"funding", "clock"} /\ ConsoleNext
  /\ job[1] = NoJob => FirstFirst(job, 1, 2)
  /\ wished' = wished /\ asked' = asked /\ version' = version
  /\ consoleAsks' <= 2 /\ consoleRestarts' = consoleRestarts
  /\ IF subject = "funding" THEN card' = card ELSE money' = money
  /\ \A k \in Slots : job'[k].kind \in {"none", IF subject = "funding" THEN "fund" ELSE "move"}
  /\ UNCHANGED <<deskVars, dirVars, pathVars, verificationVars, registryVars, subject>>

\* A fifth id only for a batch, and with a fourth but no batch two requests
\* meet with nothing that goes wrong; parties come first, and an operator names
\* the MID that two ids have or one of no outlet.  A payee takes the last id
\* that is left, or the first if its MID has one.
Registering ==
  /\ subject = "registry" /\ RegistryNext
  /\ FirstFirst(errand, "x", "y")
  /\ errands' + saveFails' + registryRestarts' <= 3
  /\ mem.batches \cup mem'.batches = {} =>
       /\ mem'.seq < MaxIds
       /\ mem'.seq = MaxIds - 1 => errands' <= 1 \/ saveFails' + registryRestarts' = 0
  /\ mem'.seq > mem.seq /\ mem'.outlets = mem.outlets => mem.seq = 0
  /\ \A c \in Provisioners : errand'[c].left \notin {{23}, {25}}
  /\ \A i \in DOMAIN rail'.payees \ DOMAIN rail.payees :
       \/ i \notin PayeeIds \/ \A j \in Undrawn : j <= i
       \/ Known(rail'.payees[i].ref) /\ \A j \in Undrawn : i <= j
  /\ UNCHANGED <<deskVars, dirVars, pathVars, verificationVars, consoleVars, subject>>

Next == Desk \/ Directory \/ Payments \/ Hooks \/ Verifying \/ StandIn \/ Checking \/ Registering

Spec == Init /\ [][Next]_vars /\ DeskFairness
=============================================================================
