------------------------------ MODULE Settlement ------------------------------
(***************************************************************************)
(* The platform's settlement service (internal/settlement, cmd/settlement):*)
(* it takes delivery of Worldline's files, turns each submerchant of a     *)
(* morning file into a record, walks the record to Settled, and submits a  *)
(* payout for it to B4B, whose callbacks move the payout's state.          *)
(*                                                                         *)
(* Records are saved at every change, under the store's mutex, so one      *)
(* action is one critical section of the store, one call to another        *)
(* service, or one step on a file.  The puller does everything in turn, a  *)
(* submission included; operators' requests, callbacks and the batch over  *)
(* the platform's own ledger run beside it.  The process may be killed at  *)
(* any moment.                                                             *)
(***************************************************************************)
EXTENDS Naturals, Sequences, FiniteSets, Functions

CONSTANTS
  Files, Slot,    \* Worldline's files and the slot each name tells
  Mids, Carries,  \* submerchants, and those a file owes something
  Puller, Ledger, \* the two goroutines that make records
  Operators,      \* bound: requests of operators at one time
  Levels,         \* the states of a payment at B4B; the first is Accepted
  Unset,          \* no payout state yet
  Stopped,        \* a payout state of ours: a gate, or submission_failed
  Empty, Garbled, \* contents of a state file that a save was writing
  MaxRecords, MaxBatch, MaxPayments, MaxOwed, MaxCrashes \* bounds

ASSUME SettlementAssumption ==
  /\ Slot \in [Files -> {"morning", "afternoon", "none"}]
  /\ Carries \in [Files -> SUBSET Mids]
  /\ Puller # Ledger /\ Puller \notin Operators /\ Ledger \notin Files
  /\ IsFiniteSet(Operators)
  /\ Levels \in Nat \ {0}
  /\ {Unset, Stopped} \cap Nat = {} /\ Unset # Stopped
  /\ Empty # Garbled
  /\ MaxRecords \in Nat /\ MaxBatch \in Nat /\ MaxPayments \in Nat /\ MaxOwed \in Nat /\ MaxCrashes \in Nat

VARIABLES
  up,        \* the process is running
  records,   \* s.records
  saved,     \* the state file
  made,      \* where each record came from, in the order of Create
  seen,      \* p.seen: files claimed
  archive,   \* files in the archive directory
  fetching,  \* the file the puller has claimed, if any
  fetched,   \* the file it has downloaded, if any
  making,    \* the two makers of records
  sub,       \* from the goroutines inside submitPayout to what they submit
  b4b,       \* B4B's payments, in order of arrival
  calls,     \* B4B's callbacks on their way: a payment and a state
  hooks,     \* webhook handlers that have found their record
  crashes,
  owed,      \* history: payments each record may have led to
  unarchived,\* history: files of which the archive could not be written
  failed,    \* history: files that could not be downloaded or parsed
  refused    \* history: records taken out of their maker's hands

store == <<records, saved>>
puller == <<seen, archive, fetching, fetched>>
bank == <<b4b, calls>>
excuses == <<unarchived, failed, refused>>
vars == <<up, store, made, puller, making, sub, bank, hooks, crashes, owed, excuses>>
-----------------------------------------------------------------------------
Makers == {Puller, Ledger}
Submitters == Operators \cup {Puller}
Stages == {"Scheduled", "Processing", "Settled", "Failed", "Superseded"}

\* A payout state is none, one of ours, or B4B's.
Record == [stage: Stages, report: BOOLEAN, payout: 0..MaxPayments,
           status: {Unset, Stopped} \cup 1..Levels]

Save == saved' = records'

\* Transition: the state graph, and the report Settle asks for.
Transitions ==
  {<<"Scheduled", "process", "Processing">>, <<"Processing", "settle", "Settled">>,
   <<"Processing", "fail", "Failed">>, <<"Failed", "retry", "Scheduled">>,
   <<"Settled", "supersede", "Superseded">>, <<"Superseded", "reactivate", "Scheduled">>}

Allowed(r, event) ==
  /\ \E t \in Transitions : t[1] = records[r].stage /\ t[2] = event
  /\ event = "settle" => records[r].report

Target(r, event) == (CHOOSE t \in Transitions : t[1] = records[r].stage /\ t[2] = event)[3]

Transition(r, event) ==
  /\ Allowed(r, event)
  /\ records' = [records EXCEPT ![r].stage = Target(r, event)]
  /\ Save

SetPayout(r, p, s) ==
  /\ records' = [records EXCEPT ![r].payout = p, ![r].status = s]
  /\ Save
-----------------------------------------------------------------------------
(***************************************************************************)
(* Payouts                                                                 *)
(***************************************************************************)

On(r) == {g \in DOMAIN sub : sub[g].rec = r}

\* A goroutine enters submitPayout.
Submit(g, r) == sub' = [x \in DOMAIN sub \cup {g} |-> IF x = g THEN [rec |-> r, pay |-> 0] ELSE sub[x]]

\* It returns; the puller goes on to the next submerchant.
Leave(g) ==
  /\ sub' = Restrict(sub, DOMAIN sub \ {g})
  /\ making' = IF g = Puller THEN [making EXCEPT ![Puller].step = "create"] ELSE making

\* A balance, verification or sanctions gate does not open, or B4B does not
\* take the payment.
Stop(g) ==
  /\ g \in DOMAIN sub /\ sub[g].pay = 0
  /\ SetPayout(sub[g].rec, 0, Stopped)
  /\ Leave(g)
  /\ UNCHANGED <<up, made, puller, bank, hooks, crashes, owed, excuses>>

\* The gates open and B4B makes a payment and tells of it.
Take(g) ==
  /\ g \in DOMAIN sub /\ sub[g].pay = 0
  /\ Len(b4b) < MaxPayments
  /\ b4b' = Append(b4b, [ref |-> sub[g].rec, level |-> 1])
  /\ calls' = calls \cup {<<Len(b4b) + 1, 1>>}
  /\ sub' = [sub EXCEPT ![g].pay = Len(b4b) + 1]
  /\ UNCHANGED <<up, store, made, puller, making, hooks, crashes, owed, excuses>>

Answer(g) ==
  /\ g \in DOMAIN sub /\ sub[g].pay > 0
  /\ SetPayout(sub[g].rec, sub[g].pay, 1)
  /\ Leave(g)
  /\ UNCHANGED <<up, made, puller, bank, hooks, crashes, owed, excuses>>

\* Slip: the id is kept although the answer never came.
LoseAnswerKeepId(g) ==
  /\ g \in DOMAIN sub /\ sub[g].pay > 0
  /\ SetPayout(sub[g].rec, records[sub[g].rec].payout, Stopped)
  /\ Leave(g)
  /\ owed' = [owed EXCEPT ![sub[g].rec] = @ + 1]
  /\ UNCHANGED <<up, made, puller, bank, hooks, crashes, excuses>>

\* A timeout, or an answer that does not parse.
LoseAnswer(g) ==
  /\ g \in DOMAIN sub /\ sub[g].pay > 0
  /\ SetPayout(sub[g].rec, 0, Stopped)
  /\ Leave(g)
  /\ owed' = [owed EXCEPT ![sub[g].rec] = @ + 1]
  /\ UNCHANGED <<up, made, puller, bank, hooks, crashes, excuses>>

\* Slip: whatever came of the payout, it may be retried.
RetryPayoutAny(g, r) ==
  /\ up /\ r \in DOMAIN records /\ g \notin DOMAIN sub
  /\ records[r].stage = "Settled"
  /\ Submit(g, r)
  /\ IF On(r) = {} THEN UNCHANGED owed
     ELSE owed[r] < MaxOwed /\ owed' = [owed EXCEPT ![r] = @ + 1]
  /\ UNCHANGED <<up, store, made, puller, making, bank, hooks, crashes, excuses>>

\* The check of retryPayout, without a lock, and the call that follows it.
RetryPayout(g, r) ==
  /\ up /\ r \in DOMAIN records /\ g \notin DOMAIN sub
  /\ records[r].stage = "Settled" /\ records[r].status = Stopped
  /\ Submit(g, r)
  /\ IF On(r) = {} THEN UNCHANGED owed
     ELSE owed[r] < MaxOwed /\ owed' = [owed EXCEPT ![r] = @ + 1]
  /\ UNCHANGED <<up, store, made, puller, making, bank, hooks, crashes, excuses>>

\* A request to .../transition other than settle.
Move(r, event) ==
  /\ up /\ r \in DOMAIN records
  /\ event # "settle" /\ Transition(r, event)
  /\ UNCHANGED <<up, made, puller, making, sub, bank, hooks, crashes, owed, excuses>>

\* Slip: an operator's settle submits nothing.
OperatorSettlesOnly(g, r) ==
  /\ up /\ r \in DOMAIN records /\ g \notin DOMAIN sub /\ owed[r] < MaxOwed
  /\ Transition(r, "settle")
  /\ owed' = [owed EXCEPT ![r] = @ + 1]
  /\ UNCHANGED <<up, made, puller, making, sub, bank, hooks, crashes, excuses>>

\* ... and settle, which pays.
OperatorSettles(g, r) ==
  /\ up /\ r \in DOMAIN records /\ g \notin DOMAIN sub /\ owed[r] < MaxOwed
  /\ Transition(r, "settle")
  /\ Submit(g, r)
  /\ owed' = [owed EXCEPT ![r] = @ + 1]
  /\ UNCHANGED <<up, made, puller, making, bank, hooks, crashes, excuses>>
-----------------------------------------------------------------------------
(***************************************************************************)
(* B4B and its callbacks                                                   *)
(***************************************************************************)

Progress(p) ==
  /\ b4b[p].level < Levels
  /\ b4b' = [b4b EXCEPT ![p].level = @ + 1]
  /\ calls' = calls \cup {<<p, b4b[p].level + 1>>}
  /\ UNCHANGED <<up, store, made, puller, making, sub, hooks, crashes, owed, excuses>>

\* A callback arrives: its record is looked up by payout id.  B4B calls again
\* if it does not hear the answer; without a record the answer is "ignored".
Receive(p, s) ==
  /\ up /\ <<p, s>> \in calls
  /\ hooks' = hooks \cup {<<r, p, s>> : r \in {x \in DOMAIN records : records[x].payout = p}}
  /\ calls' \in {calls, calls \ {<<p, s>>}}
  /\ UNCHANGED <<up, store, made, puller, making, sub, b4b, crashes, owed, excuses>>

\* The handler has released the store between finding and setting.
Hook(r, p, s) ==
  /\ <<r, p, s>> \in hooks
  /\ hooks' = hooks \ {<<r, p, s>>}
  /\ SetPayout(r, p, s)
  /\ UNCHANGED <<up, made, puller, making, sub, bank, crashes, owed, excuses>>

\* Nobody answers, and B4B gives up.
GiveUp(p, s) ==
  /\ <<p, s>> \in calls
  /\ calls' = calls \ {<<p, s>>}
  /\ UNCHANGED <<up, store, made, puller, making, sub, b4b, hooks, crashes, owed, excuses>>
-----------------------------------------------------------------------------
(***************************************************************************)
(* Files                                                                   *)
(***************************************************************************)
IdleMaker == [src |-> Ledger, mids |-> {}, rec |-> 0, step |-> "create"]
IdlePuller == fetching = {} /\ fetched = {} /\ making[Puller] = IdleMaker

\* Passes exclude each other, and only they change seen: a pass is a run of
\* claims.
Claim(f) ==
  /\ up /\ IdlePuller
  /\ f \notin seen /\ seen' = seen \cup {f}
  /\ fetching' = {f}
  /\ UNCHANGED <<up, store, made, archive, fetched, making, sub, bank, hooks, crashes, owed, excuses>>

Download(f) ==
  /\ f \in fetching /\ fetching' = {}
  /\ \/ fetched' = {f} /\ UNCHANGED failed
     \/ failed' = failed \cup {f} /\ UNCHANGED fetched
  /\ UNCHANGED <<up, store, made, seen, archive, making, sub, bank, hooks, crashes, owed, unarchived, refused>>

\* The archive is written, or the error logged; then a morning file is
\* parsed and the others are left at that.
Archive(f) ==
  /\ f \in fetched /\ fetched' = {}
  /\ \/ archive' = archive \cup {f} /\ UNCHANGED unarchived
     \/ unarchived' = unarchived \cup {f} /\ UNCHANGED archive
  /\ \/ /\ Slot[f] = "morning"
        /\ making' = [making EXCEPT ![Puller] =
                        [src |-> f, mids |-> Carries[f], rec |-> 0, step |-> "create"]]
        /\ UNCHANGED failed
     \/ Slot[f] = "morning" /\ failed' = failed \cup {f} /\ UNCHANGED making
     \/ Slot[f] # "morning" /\ UNCHANGED <<making, failed>>
  /\ UNCHANGED <<up, store, made, seen, fetching, sub, bank, hooks, crashes, owed, refused>>
-----------------------------------------------------------------------------
(***************************************************************************)
(* Making records: process(), of a file, and runBatch(), of the ledger     *)
(***************************************************************************)
FromLedger == {r \in DOMAIN made : made[r].src = Ledger}

StartBatch ==
  /\ up /\ making[Ledger] = IdleMaker
  /\ \E M \in SUBSET Mids \ {{}} :
       /\ Cardinality(M) + Cardinality(FromLedger) <= MaxBatch
       /\ making' = [making EXCEPT ![Ledger] = [src |-> Ledger, mids |-> M, rec |-> 0, step |-> "create"]]
  /\ UNCHANGED <<up, store, made, puller, sub, bank, hooks, crashes, owed, excuses>>

Making(w, step) == making[w] # IdleMaker /\ making[w].step = step

\* w goes on to its next step, or to its next submerchant.
Goto(w, step) == making' = [making EXCEPT ![w].step = step]

Create(w) ==
  /\ Making(w, "create")
  /\ w = Puller => Len(made) < MaxRecords + Cardinality(FromLedger)
  /\ \E m \in making[w].mids :
       LET r == Len(made) + 1 IN
       /\ records' = [x \in DOMAIN records \cup {r} |->
                        IF x = r THEN [stage |-> "Scheduled", report |-> FALSE, payout |-> 0, status |-> Unset]
                        ELSE records[x]]
       /\ made' = Append(made, [src |-> making[w].src, mid |-> m])
       /\ making' = [making EXCEPT ![w] =
                       [src |-> @.src, mids |-> @.mids \ {m}, rec |-> r, step |-> "process"]]
  /\ Save
  /\ owed' = Append(owed, 0)
  /\ UNCHANGED <<up, puller, sub, bank, hooks, crashes, excuses>>

\* A transition an operator has overtaken is refused, and the record is left.
Process(w) ==
  LET r == making[w].rec IN
  /\ Making(w, "process")
  /\ \/ Transition(r, "process") /\ Goto(w, "report") /\ UNCHANGED refused
     \/ ~Allowed(r, "process") /\ Goto(w, "create") /\ refused' = refused \cup {r} /\ UNCHANGED store
  /\ UNCHANGED <<up, made, puller, sub, bank, hooks, crashes, owed, unarchived, failed>>

SetReport(w) ==
  LET r == making[w].rec IN
  /\ Making(w, "report")
  /\ records' = [records EXCEPT ![r].report = TRUE]
  /\ Save
  /\ Goto(w, "settle")
  /\ UNCHANGED <<up, made, puller, sub, bank, hooks, crashes, owed, excuses>>

\* Slip: records of files are left to somebody else to pay, too.
SettleUnpaid(w) ==
  LET r == making[w].rec IN
  /\ Making(w, "settle")
  /\ \/ Transition(r, "settle") /\ Goto(w, "create") /\ UNCHANGED <<sub, owed>>
     \/ ~Allowed(r, "settle") /\ Goto(w, "fail") /\ UNCHANGED <<store, sub, owed>>
  /\ UNCHANGED <<up, made, puller, bank, hooks, crashes, excuses>>

\* Only a record from a file is paid: a batch that paid too would pay every
\* merchant twice.
Settle(w) ==
  LET r == making[w].rec IN
  /\ Making(w, "settle")
  /\ \/ /\ Transition(r, "settle")
        /\ IF w = Puller
           THEN Goto(w, "pay") /\ Submit(w, r) /\ owed' = [owed EXCEPT ![r] = @ + 1]
           ELSE Goto(w, "create") /\ UNCHANGED <<sub, owed>>
     \/ ~Allowed(r, "settle") /\ Goto(w, "fail") /\ UNCHANGED <<store, sub, owed>>
  /\ UNCHANGED <<up, made, puller, bank, hooks, crashes, excuses>>

FailRecord(w) ==
  LET r == making[w].rec IN
  /\ Making(w, "fail")
  /\ Transition(r, "fail") \/ (~Allowed(r, "fail") /\ UNCHANGED store)
  /\ Goto(w, "create") /\ refused' = refused \cup {r}
  /\ UNCHANGED <<up, made, puller, sub, bank, hooks, crashes, owed, unarchived, failed>>

\* A maker with no submerchant left is done.
Done(w) ==
  /\ Making(w, "create") /\ making[w].mids = {}
  /\ making' = [making EXCEPT ![w] = IdleMaker]
  /\ UNCHANGED <<up, store, made, puller, sub, bank, hooks, crashes, owed, excuses>>
-----------------------------------------------------------------------------
(***************************************************************************)
(* Death and restart                                                       *)
(***************************************************************************)
\* The process is killed, perhaps in the middle of a save, which truncates
\* the state file before it writes.  A payment B4B has taken is not heard of.
Crash ==
  /\ up /\ crashes < MaxCrashes
  /\ up' = FALSE /\ crashes' = crashes + 1
  /\ records' = <<>> /\ saved' \in {saved, Empty, Garbled}
  /\ seen' = {} /\ fetching' = {} /\ fetched' = {}
  /\ making' = [w \in Makers |-> IdleMaker]
  /\ sub' = <<>> /\ hooks' = {}
  /\ owed' = [r \in DOMAIN owed |-> owed[r] + Cardinality({g \in On(r) : sub[g].pay > 0})]
  /\ UNCHANGED <<made, archive, bank, excuses>>

\* Slip: what was archived on an earlier run is not remembered.
RestartBlank ==
  /\ ~up /\ saved # Garbled
  /\ up' = TRUE
  /\ records' = (IF saved = Empty THEN <<>> ELSE saved) /\ UNCHANGED saved
  /\ UNCHANGED <<made, puller, making, sub, bank, hooks, crashes, owed, excuses>>

\* An empty state file is a store without records; one that does not parse
\* stops the service.
Restart ==
  /\ ~up /\ saved # Garbled
  /\ up' = TRUE
  /\ records' = (IF saved = Empty THEN <<>> ELSE saved) /\ UNCHANGED saved
  /\ seen' = archive
  /\ UNCHANGED <<made, archive, fetching, fetched, making, sub, bank, hooks, crashes, owed, excuses>>
-----------------------------------------------------------------------------
Init ==
  /\ up = TRUE
  /\ records = <<>> /\ saved = <<>> /\ made = <<>>
  /\ seen = {} /\ archive = {} /\ fetching = {} /\ fetched = {}
  /\ making = [w \in Makers |-> IdleMaker]
  /\ sub = <<>> /\ b4b = <<>> /\ calls = {} /\ hooks = {}
  /\ crashes = 0 /\ owed = <<>>
  /\ unarchived = {} /\ failed = {} /\ refused = {}

Pull(f) == Claim(f) \/ Download(f) \/ Archive(f)
Make(w) == Create(w) \/ Process(w) \/ SetReport(w) \/ Settle(w) \/ FailRecord(w) \/ Done(w)
Submission(g) == Stop(g) \/ Take(g) \/ Answer(g) \/ LoseAnswer(g)

Next ==
  \/ \E f \in Files : Pull(f)
  \/ \E w \in Makers : Make(w)
  \/ \E g \in Submitters : Submission(g)
  \/ \E g \in Operators, r \in DOMAIN records : RetryPayout(g, r) \/ OperatorSettles(g, r)
  \/ \E r \in DOMAIN records, t \in Transitions : Move(r, t[2])
  \/ \E p \in DOMAIN b4b : Progress(p)
  \/ \E p \in DOMAIN b4b, s \in 1..Levels :
       Receive(p, s) \/ GiveUp(p, s) \/ \E r \in DOMAIN records : Hook(r, p, s)
  \/ StartBatch \/ Crash \/ Restart

\* The puller's loop and the goroutines run, and calls end.
Fairness ==
  /\ \A f \in Files : WF_vars(Pull(f))
  /\ \A w \in Makers : WF_vars(Make(w))
  /\ \A g \in Submitters : WF_vars(Submission(g))

Spec == Init /\ [][Next]_vars
FairSpec == Spec /\ Fairness
-----------------------------------------------------------------------------
(***************************************************************************)
(* Properties                                                              *)
(***************************************************************************)

\* What the store holds, or the state file.
IsStore(s) == DOMAIN s \subseteq DOMAIN made /\ \A r \in DOMAIN s : s[r] \in Record

\* Every variable has its type; the state file is what memory holds unless a
\* crash tore it; the puller does one thing at a time, and waits exactly while
\* it submits; and nothing runs while the process is down.
TypeOK ==
  /\ up \in BOOLEAN /\ crashes \in 0..MaxCrashes
  /\ made \in Seq([src: Files \cup {Ledger}, mid: Mids])
  /\ owed \in Seq(Nat) /\ Len(owed) = Len(made)
  /\ IsStore(records) /\ (saved \in {Empty, Garbled} \/ IsStore(saved))
  /\ IF up THEN saved = records \/ (records = <<>> /\ saved = Empty) ELSE records = <<>>
  /\ seen \subseteq Files /\ archive \subseteq Files /\ fetching \subseteq Files /\ fetched \subseteq Files
  /\ making \in [Makers -> [src: Files \cup {Ledger}, mids: SUBSET Mids, rec: Nat,
                             step: {"create", "process", "report", "settle", "fail", "pay"}]]
  /\ \A w \in Makers : making[w].step # "create" => making[w].rec \in DOMAIN records
  /\ fetching = {} \/ fetched = {}
  /\ fetching \cup fetched # {} => making[Puller] = IdleMaker
  /\ making[Puller].step = "pay" <=> Puller \in DOMAIN sub
  /\ DOMAIN sub \subseteq Submitters
  /\ \A g \in DOMAIN sub : sub[g] \in [rec: DOMAIN records, pay: 0..Len(b4b)]
  /\ b4b \in Seq([ref: DOMAIN made, level: 1..Levels]) /\ Len(b4b) <= MaxPayments
  /\ calls \subseteq (DOMAIN b4b) \X (1..Levels)
  /\ hooks \subseteq (DOMAIN records) \X (DOMAIN b4b) \X (1..Levels)
  /\ unarchived \subseteq Files /\ failed \subseteq Files /\ refused \subseteq DOMAIN made
  /\ ~up => /\ DOMAIN sub = {} /\ hooks = {} /\ fetching = {} /\ fetched = {}
            /\ \A w \in Makers : making[w] = IdleMaker

Payments(r) == {p \in DOMAIN b4b : b4b[p].ref = r}

\* B4B makes no more payments for a record than the times it was settled to
\* be paid, the answers that were lost on the way, and the retries that began
\* while another submission was under way.  Nothing else pays twice: not a
\* retry after a gate, a restart, a late callback, or the ledger's batch.
PaidAsOwed == \A r \in DOMAIN made : Cardinality(Payments(r)) <= owed[r]

\* A file is processed once, over restarts as well, unless it could not be
\* archived; and only the morning's.
OncePerFile ==
  \A r, q \in DOMAIN made : made[r].src \in Files =>
    /\ Slot[made[r].src] = "morning"
    /\ made[r] = made[q] => r = q \/ made[r].src \in unarchived

\* Whatever order callbacks, answers and retries come in, a payout id on a
\* record is that of a payment B4B made for this record, with a state that
\* payment has reached; and a record that says a payout stopped has no id.
StatusIsB4Bs ==
  \A r \in DOMAIN records :
    LET p == records[r].payout IN
    /\ p = 0 <=> records[r].status \in {Unset, Stopped}
    /\ p > 0 => /\ p \in DOMAIN b4b /\ b4b[p].ref = r
                /\ records[r].status <= b4b[p].level

\* While the process lives, a record that was settled to be paid is either
\* being submitted or has an outcome: a record without one cannot be retried.
NoneStranded ==
  crashes = 0 =>
    \A r \in DOMAIN records : owed[r] > 0 /\ records[r].status = Unset => On(r) # {}

\* A record for m was made from f, and has an outcome or was taken away.
Outcome(f, m) ==
  \E r \in DOMAIN made :
    /\ made[r] = [src |-> f, mid |-> m]
    /\ r \in refused \/ (r \in DOMAIN records /\ records[r].status # Unset)

\* Every submerchant of every morning file comes to an outcome, unless the
\* file cannot be read or the process dies.
EveryMidGetsAnOutcome ==
  \A f \in Files : \A m \in Carries[f] :
    Slot[f] = "morning" => <>(Outcome(f, m) \/ f \in failed \/ crashes > 0)
=============================================================================
