-------------------------------- MODULE Console --------------------------------
(***************************************************************************)
(* The console (internal/console, cmd/console) where it changes what       *)
(* others depend on: the cards platforms register, the stand-ins they ask  *)
(* to have disconnected or hidden, the money it puts on empty safeguarding *)
(* accounts and the moves of the lab clock it lets through.                *)
(*                                                                         *)
(* A stand-in's wiring is a switch at the service that owns it, or the     *)
(* bank's subscription.  A preference is carried out in the background or  *)
(* in a request, a call at a time, with no lock held over two calls.       *)
(***************************************************************************)
EXTENDS Integers, SequencesExt

CONSTANTS
  Plugins,      \* the ids platforms register under
  Descriptors,  \* what one registers: [valid, clock, wishes]
  Buttons,      \* what the console's own buttons ask, like wishes
  Slots,        \* requests and background goroutines at work together
  Nil,          \* a field that is left out
  ShownAtStart, \* CONSOLE_STAND_INS_SHOWN
  MaxConsoleAsks, MaxConsoleFails, MaxConsoleRestarts, MaxVersion, MaxMoney \* bounds

\* The stand-ins that have wiring; payment-api and notifier have none.
StandIns == {"settlement", "receiver"}

ASSUME ConsoleAssumption ==
  /\ ShownAtStart \in BOOLEAN
  /\ \A d \in Descriptors : d.valid => DOMAIN d.wishes \subseteq StandIns \* validStandIns
  /\ \A prefs \in Buttons : DOMAIN prefs \subseteq StandIns
  /\ {MaxConsoleAsks, MaxConsoleFails, MaxConsoleRestarts, MaxVersion, MaxMoney} \subseteq Nat

VARIABLES
  card,     \* Catalogue.plugins: whether each has registered, renews, and on which clock
  applied,  \* Catalogue.appliedStandIns
  job,      \* what each slot is at
  now,      \* whether a wiring is connected, a card shown
  version,  \* the row version of the bank's subscription to the receiver
  away,     \* the wirings that do not lead to the stand-in in this lab
  money,    \* the safeguarding accounts: the day's opening and what moved since
  asked, wished, muddled,  \* history: what was asked last, by each plugin, and where calls met or failed
  late, credited, moved,   \* history: whose check is out of date, and what was done on a check
  consoleAsks, consoleFails, consoleRestarts \* for the bounds

askHistory == <<asked, wished, muddled>>
checkHistory == <<late, credited, moved>>
consoleBounds == <<consoleAsks, consoleFails, consoleRestarts>>
consoleVars ==
  <<card, applied, job, now, version, away, money, askHistory, checkHistory, consoleBounds>>
-----------------------------------------------------------------------------
WiringFor(s) == IF s = "settlement" THEN <<"timer">> ELSE <<"banking-circle", "aci">>

\* A wiring, or the card of a stand-in under its name.
Things == StandIns \cup UNION {ToSet(WiringFor(s)) : s \in StandIns}

Accounts == {"EUR", "GBP"}

NoCard == [state |-> "none", clock |-> "none"]

NoJob == [kind |-> "none"]

\* What a preference for stand-in s is about, and what it asks of that.
Wanted(s, pref) ==
  (IF pref.shown = Nil THEN {} ELSE {s})
    \cup (IF pref.connected = Nil THEN {} ELSE ToSet(WiringFor(s)) \ away)

Wish(prefs, t) ==
  IF t \in StandIns THEN prefs[t].shown
  ELSE prefs[CHOOSE s \in StandIns : t \in ToSet(WiringFor(s))].connected

Named(prefs) == UNION {Wanted(s, prefs[s]) : s \in DOMAIN prefs}

\* What a job may still change.
Covers(k) ==
  IF job[k].kind # "apply" THEN {}
  ELSE (ToSet(job[k].left) \ away) \cup UNION {Wanted(s, job[k].prefs[s]) : s \in job[k].todo}

Covered == UNION {Covers(k) : k \in Slots}

\* For the properties: prefs is what is wanted from now on.
Want(prefs) ==
  /\ asked' = [t \in Things |-> IF t \in Named(prefs) THEN Wish(prefs, t) ELSE asked[t]]
  /\ muddled' = (muddled \ Named(prefs)) \cup (Named(prefs) \cap Covered)

BeginJob(k, j) == job[k] = NoJob /\ job' = [job EXCEPT ![k] = j]

\* An ended job leaves its slot.
Step(k, j) ==
  job' = [job EXCEPT ![k] = IF j.todo = {} /\ j.left = <<>> THEN NoJob ELSE j]

Dropped(k) == [job[k] EXCEPT !.left = Tail(@), !.step = "read"]
Drop(k) == Step(k, Dropped(k))

Application(prefs) ==
  [kind |-> "apply", prefs |-> prefs, todo |-> DOMAIN prefs, left |-> <<>>, on |-> FALSE,
   step |-> "read", version |-> 0]
-----------------------------------------------------------------------------
(***************************************************************************)
(* Cards                                                                   *)
(***************************************************************************)

\* A plugin that registers on the wall clock and is live.
Wall(p) == card[p] = [state |-> "live", clock |-> "wall"]

WallClockPlugin == \E p \in Plugins : Wall(p)

\* validate and validStandIns.
DescriptorValid(d) == d.valid

\* Slip: every renewal is taken for a change.
StandInChangedAlways(p, wishes) == wishes # <<>>

StandInChanged(p, wishes) == wishes # <<>> /\ applied[p] # wishes

\* Register and applyPluginStandIns: the descriptor replaces the one before;
\* its wishes are carried out in the background when they are others than
\* the last.
RegisterPlugin(p, d) ==
  /\ DescriptorValid(d)
  /\ card' = [card EXCEPT ![p] = [state |-> "live", clock |-> d.clock]]
  /\ late' = IF d.clock = "wall" /\ ~Wall(p) THEN late \cup {k \in Slots : job[k].kind = "move"} ELSE late
  /\ IF StandInChanged(p, d.wishes)
     THEN /\ applied' = [applied EXCEPT ![p] = d.wishes]
          /\ \E k \in Slots : BeginJob(k, Application(d.wishes))
     ELSE UNCHANGED <<applied, job>>
  /\ IF d.wishes # <<>> /\ wished[p] # d.wishes
     THEN /\ consoleAsks < MaxConsoleAsks /\ consoleAsks' = consoleAsks + 1
          /\ wished' = [wished EXCEPT ![p] = d.wishes] /\ Want(d.wishes)
     ELSE UNCHANGED <<asked, wished, muddled, consoleAsks>>
  /\ UNCHANGED <<now, version, away, money, credited, moved, consoleFails, consoleRestarts>>

\* PluginTTL has passed without a renewal.
Lapse(p) ==
  /\ card[p].state = "live"
  /\ card' = [card EXCEPT ![p].state = "lapsed"]
  /\ UNCHANGED <<applied, job, now, version, away, money, askHistory, checkHistory, consoleBounds>>

Unregister(p) ==
  /\ card[p].state \in {"live", "lapsed"}
  /\ card' = [card EXCEPT ![p].state = "stopped"]
  /\ UNCHANGED <<applied, job, now, version, away, money, askHistory, checkHistory, consoleBounds>>
-----------------------------------------------------------------------------
(***************************************************************************)
(* Stand-ins                                                               *)
(***************************************************************************)

\* setStandIn: the button of one stand-in.
PressStandIn(k, prefs) ==
  /\ consoleAsks < MaxConsoleAsks /\ consoleAsks' = consoleAsks + 1
  /\ BeginJob(k, Application(prefs))
  /\ Want(prefs)
  /\ UNCHANGED <<card, applied, now, version, away, money, wished, checkHistory, consoleFails,
                 consoleRestarts>>

Applying(k, step) == job[k].kind = "apply" /\ job[k].left # <<>> /\ job[k].step = step

\* applyStandIn: a map is ranged over in any order; the card is the console's
\* own and changes at once.
TakeUp(k) ==
  /\ job[k].kind = "apply" /\ job[k].left = <<>>
  /\ \E s \in job[k].todo :
       LET pref == job[k].prefs[s]
       IN  /\ now' = IF pref.shown = Nil THEN now ELSE [now EXCEPT ![s] = pref.shown]
           /\ Step(k, [job[k] EXCEPT !.todo = @ \ {s}, !.on = pref.connected,
                                     !.left = IF pref.connected = Nil THEN <<>> ELSE WiringFor(s)])
  /\ UNCHANGED <<card, applied, version, away, money, askHistory, checkHistory, consoleBounds>>

\* Wiring that does not lead to the stand-in is left alone.
ReadWiring(k) ==
  /\ Applying(k, "read")
  /\ IF Head(job[k].left) \in away THEN Drop(k) ELSE Step(k, [job[k] EXCEPT !.step = "set"])
  /\ UNCHANGED <<card, applied, now, version, away, money, askHistory, checkHistory, consoleBounds>>

\* Switch.Set, at the service itself.
Switched(w, on) == [now EXCEPT ![w] = on]

SetSwitch(k) ==
  /\ Applying(k, "set") /\ Head(job[k].left) # "banking-circle"
  /\ now' = Switched(Head(job[k].left), job[k].on)
  /\ Drop(k)
  /\ UNCHANGED <<card, applied, version, away, money, askHistory, checkHistory, consoleBounds>>

\* The bank's subscriptions to the receiver, of which those that are not as
\* wanted are written to.
ListSubscriptions(k) ==
  /\ Applying(k, "set") /\ Head(job[k].left) = "banking-circle"
  /\ IF "banking-circle" \in away \/ now["banking-circle"] = job[k].on
     THEN Drop(k) ELSE Step(k, [job[k] EXCEPT !.step = "put", !.version = version])
  /\ UNCHANGED <<card, applied, now, version, away, money, askHistory, checkHistory, consoleBounds>>

\* If-Match: refused when the subscription has changed since it was listed.
PutSubscription(k) ==
  /\ Applying(k, "put")
  /\ IF version = job[k].version
     THEN now' = Switched("banking-circle", job[k].on) /\ version' = version + 1
     ELSE UNCHANGED <<now, version>>
  /\ Drop(k)
  /\ UNCHANGED <<card, applied, away, money, askHistory, checkHistory, consoleBounds>>

\* A call that fails is reported and does not stop the rest; a wiring that
\* could not be read is set all the same.
CallFails(k) ==
  /\ consoleFails < MaxConsoleFails /\ consoleFails' = consoleFails + 1
  /\ job[k].kind = "apply" /\ job[k].left # <<>>
  /\ IF job[k].step = "read"
     THEN Step(k, [job[k] EXCEPT !.step = "set"]) ELSE Drop(k)
  /\ muddled' = muddled \cup (IF job[k].step = "read" THEN {Head(job[k].left)} \cap away \cap {"aci"}
                               ELSE {Head(job[k].left)} \ away)
  /\ UNCHANGED <<card, applied, now, version, away, money, asked, wished, checkHistory,
                 consoleAsks, consoleRestarts>>

\* Others at the bank: another client, or the dispatcher after its last retry.
OthersWrite(on) ==
  /\ version < MaxVersion /\ version' = version + 1
  /\ "banking-circle" \notin away
  /\ now' = [now EXCEPT !["banking-circle"] = on]
  /\ asked' = [asked EXCEPT !["banking-circle"] = on]
  /\ muddled' = (muddled \ {"banking-circle"})
                  \cup (({"banking-circle"} \cap UNION {Covers(k) : k \in {l \in Slots : ~Applying(l, "put")}}))
  /\ UNCHANGED <<card, applied, job, away, money, wished, checkHistory, consoleBounds>>
-----------------------------------------------------------------------------
(***************************************************************************)
(* Funding and the clock: a check in one call, the act in another          *)
(***************************************************************************)

Balance(a) == money[a].open + money[a].moved

\* Slip: what the day began with is left out.
FoundEmptyToday(a) == money[a].moved <= 0

\* intraDayBalance: the day's opening and what has moved since.
FoundEmpty(a) == Balance(a) <= 0

FundSGA(k) ==
  /\ consoleAsks < MaxConsoleAsks /\ consoleAsks' = consoleAsks + 1
  /\ BeginJob(k, [kind |-> "fund", todo |-> <<"EUR", "GBP">>, step |-> "read"])
  /\ UNCHANGED <<card, applied, now, version, away, money, askHistory, checkHistory,
                 consoleFails, consoleRestarts>>

\* On to the next currency.
NextCurrency(k) ==
  LET j == job[k]
  IN  job' = [job EXCEPT ![k] = IF Len(j.todo) = 1 THEN NoJob
                                ELSE [j EXCEPT !.todo = Tail(j.todo), !.step = "read"]]

ReadBalance(k) ==
  /\ job[k].kind = "fund" /\ job[k].step = "read"
  /\ IF FoundEmpty(Head(job[k].todo))
     THEN job' = [job EXCEPT ![k].step = "credit"] /\ late' = late \ {k}
     ELSE NextCurrency(k) /\ UNCHANGED late
  /\ UNCHANGED <<card, applied, now, version, away, money, askHistory, credited, moved, consoleBounds>>

\* Those who have found the account empty.
Checked(a) == {k \in Slots : job[k].kind = "fund" /\ job[k].step = "credit" /\ Head(job[k].todo) = a}

CreditSGA(k) ==
  /\ job[k].kind = "fund" /\ job[k].step = "credit"
  /\ LET a == Head(job[k].todo)
     IN  /\ money' = [money EXCEPT ![a].moved = @ + 1]
         /\ credited' = credited \cup {[held |-> Balance(a) > 0, late |-> k \in late]}
         /\ late' = late \cup (Checked(a) \ {k})
  /\ NextCurrency(k)
  /\ UNCHANGED <<card, applied, now, version, away, askHistory, moved, consoleBounds>>

\* The other currency is tried all the same.
FundingFails(k) ==
  /\ consoleFails < MaxConsoleFails /\ consoleFails' = consoleFails + 1
  /\ job[k].kind = "fund"
  /\ NextCurrency(k)
  /\ UNCHANGED <<card, applied, now, version, away, money, askHistory, checkHistory,
                 consoleAsks, consoleRestarts>>

\* The bank's other movements, and its midnight.
BankMoves(a, by) ==
  /\ Balance(a) + by \in 0..MaxMoney
  /\ money' = [money EXCEPT ![a].moved = @ + by]
  /\ late' = IF by > 0 THEN late \cup Checked(a) ELSE late
  /\ UNCHANGED <<card, applied, job, now, version, away, askHistory, credited, moved, consoleBounds>>

DayTurns ==
  /\ money' = [a \in Accounts |-> [open |-> Balance(a), moved |-> 0]]
  /\ UNCHANGED <<card, applied, job, now, version, away, askHistory, checkHistory, consoleBounds>>

\* setLabClock asks clockLock and forwards the move in another call.
SetLabClock(k) ==
  /\ consoleAsks < MaxConsoleAsks /\ consoleAsks' = consoleAsks + 1
  /\ ~WallClockPlugin
  /\ BeginJob(k, [kind |-> "move"])
  /\ late' = late \ {k}
  /\ UNCHANGED <<card, applied, now, version, away, money, askHistory, credited, moved,
                 consoleFails, consoleRestarts>>

ClockMoves(k) ==
  /\ job[k].kind = "move"
  /\ job' = [job EXCEPT ![k] = NoJob]
  /\ moved' = moved \cup {[wall |-> WallClockPlugin, late |-> k \in late]}
  /\ UNCHANGED <<card, applied, now, version, away, money, askHistory, late, credited, consoleBounds>>
-----------------------------------------------------------------------------
\* Cards, wishes and requests were in memory; the wiring is where it was.
RestartConsole ==
  /\ consoleRestarts < MaxConsoleRestarts /\ consoleRestarts' = consoleRestarts + 1
  /\ card' = [p \in Plugins |-> NoCard]
  /\ applied' = [p \in Plugins |-> <<>>] /\ wished' = applied'
  /\ job' = [k \in Slots |-> NoJob]
  /\ now' = [t \in Things |-> IF t \in StandIns THEN ShownAtStart ELSE now[t]]
  /\ asked' = [t \in Things |-> IF t \in StandIns THEN ShownAtStart ELSE asked[t]]
  /\ muddled' = (muddled \cup Covered) \ StandIns
  /\ UNCHANGED <<version, away, money, checkHistory, consoleAsks, consoleFails>>

ConsoleInit ==
  /\ card = [p \in Plugins |-> NoCard] /\ applied = [p \in Plugins |-> <<>>]
  /\ job = [k \in Slots |-> NoJob]
  /\ now = [t \in Things |-> t \in StandIns => ShownAtStart]
  /\ version = 0 /\ away \in SUBSET {"banking-circle", "aci"}
  /\ money = [a \in Accounts |-> [open |-> 0, moved |-> 0]]
  /\ asked = now /\ wished = applied /\ muddled = {}
  /\ late = {} /\ credited = {} /\ moved = {}
  /\ consoleAsks = 0 /\ consoleFails = 0 /\ consoleRestarts = 0

Registrations ==
  \E p \in Plugins : (\E d \in Descriptors : RegisterPlugin(p, d)) \/ Lapse(p) \/ Unregister(p)

Apply ==
  \/ \E on \in BOOLEAN : OthersWrite(on)
  \/ \E k \in Slots :
       \/ \E prefs \in Buttons : PressStandIn(k, prefs)
       \/ TakeUp(k) \/ ReadWiring(k) \/ SetSwitch(k)
       \/ ListSubscriptions(k) \/ PutSubscription(k) \/ CallFails(k)

CheckAndAct ==
  \/ \E a \in Accounts, by \in {1, -1} : BankMoves(a, by)
  \/ DayTurns
  \/ \E k \in Slots : \/ FundSGA(k) \/ ReadBalance(k) \/ CreditSGA(k) \/ FundingFails(k)
                      \/ SetLabClock(k) \/ ClockMoves(k)

ConsoleNext == Registrations \/ Apply \/ CheckAndAct \/ RestartConsole

ConsoleSpec == ConsoleInit /\ [][ConsoleNext]_consoleVars
-----------------------------------------------------------------------------
\* A stand-in's wiring and card are what was last asked, by a button or by a
\* plugin whose wishes are new: renewals do not undo a button, a preference
\* that leaves a field out leaves it alone, and nothing is written over a
\* change made at the bank.  Excepted is what a call failed at or where two
\* applications met.  ACI's wiring, when it leads to a platform, is switched
\* only by an application that failed to read it (StandInChanged,
\* applyStandIn).
StandInsAsAsked == \A t \in Things \ (muddled \cup Covered) : now[t] = asked[t]

\* The console's two checks hold unless what was checked has changed before
\* the act: a credit goes to an account that holds money only if the money
\* came after the look, over midnights, and the clock is moved under a live
\* platform on the wall clock only if that came after (FundSafeguarding,
\* clockLock).
ChecksHold ==
  /\ \A c \in credited : c.held => c.late
  /\ \A m \in moved : m.wall => m.late
=============================================================================
