---------------------------- MODULE SettlementProofs ----------------------------
(***************************************************************************)
(* Theorems about Settlement.                                              *)
(***************************************************************************)
EXTENDS Settlement, FiniteSetTheorems, TLAPS

\* The parts of TypeOK.
HistoryOK ==
  /\ up \in BOOLEAN /\ crashes \in 0..MaxCrashes
  /\ made \in Seq([src: Files \cup {Ledger}, mid: Mids])
  /\ owed \in Seq(Nat) /\ Len(owed) = Len(made)
  /\ unarchived \subseteq Files /\ failed \subseteq Files /\ refused \subseteq DOMAIN made

StoreOK ==
  /\ IsStore(records) /\ (saved \in {Empty, Garbled} \/ IsStore(saved))
  /\ IF up THEN saved = records \/ (records = <<>> /\ saved = Empty) ELSE records = <<>>

MakerRecord == [src: Files \cup {Ledger}, mids: SUBSET Mids, rec: Nat,
                step: {"create", "process", "report", "settle", "fail", "pay"}]

PullerOK ==
  /\ seen \subseteq Files /\ archive \subseteq Files /\ fetching \subseteq Files /\ fetched \subseteq Files
  /\ fetching = {} \/ fetched = {}
  /\ fetching \cup fetched # {} => making[Puller] = IdleMaker
  /\ making[Puller].step = "pay" <=> Puller \in DOMAIN sub

MakingOK ==
  /\ making \in [Makers -> MakerRecord]
  /\ \A w \in Makers : making[w].step # "create" => making[w].rec \in DOMAIN records

SubOK ==
  /\ DOMAIN sub \subseteq Submitters
  /\ \A g \in DOMAIN sub : sub[g] \in [rec: DOMAIN records, pay: 0..Len(b4b)]

BankOK ==
  /\ b4b \in Seq([ref: DOMAIN made, level: 1..Levels]) /\ Len(b4b) <= MaxPayments
  /\ calls \subseteq (DOMAIN b4b) \X (1..Levels)
  /\ hooks \subseteq (DOMAIN records) \X (DOMAIN b4b) \X (1..Levels)

DownOK ==
  ~up => /\ DOMAIN sub = {} /\ hooks = {} /\ fetching = {} /\ fetched = {}
         /\ \A w \in Makers : making[w] = IdleMaker

LEMMA TypeParts ==
  TypeOK <=> HistoryOK /\ StoreOK /\ PullerOK /\ MakingOK /\ SubOK /\ BankOK /\ DownOK
  BY DEF TypeOK, HistoryOK, StoreOK, MakerRecord, PullerOK, MakingOK, SubOK, BankOK, DownOK

\* How the store changes: one record, keeping what the change is not about.
Changes(r) ==
  /\ r \in DOMAIN records /\ DOMAIN records' = DOMAIN records /\ saved' = records'
  /\ records'[r] \in Record
  /\ \A x \in DOMAIN records : x # r => records'[x] = records[x]

LEMMA TransitionShape ==
  ASSUME StoreOK, NEW r \in DOMAIN records, NEW e, Transition(r, e)
  PROVE  /\ Changes(r)
         /\ records'[r].payout = records[r].payout /\ records'[r].status = records[r].status
         /\ records'[r].report = records[r].report
<1>1. PICK t \in Transitions : t[1] = records[r].stage /\ t[2] = e /\ Target(r, e) = t[3]
  BY DEF Transition, Allowed, Target
<1>2. Target(r, e) \in Stages
  BY <1>1 DEF Transitions, Stages
<1>3. PICK q \in Record : q = records[r]
  BY DEF StoreOK, IsStore
<1>4. PICK s \in Stages : s = Target(r, e)
  BY <1>2
<1>5. records' = [records EXCEPT ![r].stage = s] /\ saved' = records'
  BY <1>4 DEF Transition, Save
<1>6. [q EXCEPT !.stage = s] \in Record /\ records'[r] = [q EXCEPT !.stage = s]
  BY <1>3, <1>5 DEF Record
<1> QED
  BY <1>3, <1>5, <1>6 DEF Changes, Record

LEMMA SetPayoutShape ==
  ASSUME StoreOK, NEW r \in DOMAIN records, NEW p \in 0..MaxPayments,
         NEW s \in {Unset, Stopped} \cup 1..Levels, SetPayout(r, p, s)
  PROVE  Changes(r) /\ records'[r].payout = p /\ records'[r].status = s
<1>1. PICK q \in Record : q = records[r]
  BY DEF StoreOK, IsStore
<1>2. records' = [records EXCEPT ![r].payout = p, ![r].status = s] /\ saved' = records'
  BY DEF SetPayout, Save
<1>3. records'[r] = [q EXCEPT !.payout = p, !.status = s]
  BY <1>1, <1>2
<1>4. [q EXCEPT !.payout = p, !.status = s] \in Record
  BY DEF Record
<1> QED
  BY <1>1, <1>2, <1>3, <1>4 DEF Changes, Record

LEMMA SetReportShape ==
  ASSUME StoreOK, NEW r \in DOMAIN records, records' = [records EXCEPT ![r].report = TRUE], Save
  PROVE  /\ Changes(r)
         /\ records'[r].payout = records[r].payout /\ records'[r].status = records[r].status
<1>1. PICK q \in Record : q = records[r]
  BY DEF StoreOK, IsStore
<1>3. records'[r] = [q EXCEPT !.report = TRUE]
  BY <1>1
<1>4. [q EXCEPT !.report = TRUE] \in Record
  BY DEF Record
<1> QED
  BY <1>1, <1>3, <1>4 DEF Changes, Record, Save

LEMMA StoreChanges ==
  ASSUME StoreOK, NEW r, Changes(r), UNCHANGED <<up, made>>, up
  PROVE  StoreOK'
  BY DEF StoreOK, IsStore, Changes

\* How the set of submissions changes.
LEMMA SubmitShape ==
  ASSUME NEW g, NEW r, Submit(g, r)
  PROVE  /\ DOMAIN sub' = DOMAIN sub \cup {g} /\ sub'[g] = [rec |-> r, pay |-> 0]
         /\ \A x \in DOMAIN sub : x # g => sub'[x] = sub[x]
  BY DEF Submit

LEMMA LeaveShape ==
  ASSUME NEW g, Leave(g)
  PROVE  /\ DOMAIN sub' = DOMAIN sub \ {g}
         /\ \A x \in DOMAIN sub' : sub'[x] = sub[x]
  BY DEF Leave, Restrict

\* How a maker goes on.
LEMMA GotoShape ==
  ASSUME MakingOK, NEW w \in Makers, NEW s \in {"create", "process", "report", "settle", "fail", "pay"},
         Goto(w, s)
  PROVE  /\ making' \in [Makers -> MakerRecord]
         /\ making'[w].step = s /\ making'[w].rec = making[w].rec
         /\ making'[w].mids = making[w].mids /\ making'[w].src = making[w].src
         /\ \A v \in Makers : v # w => making'[v] = making[v]
<1>1. PICK q \in MakerRecord : q = making[w]
  BY DEF MakingOK
<1>2. making' = [making EXCEPT ![w] = [q EXCEPT !.step = s]]
  BY <1>1 DEF Goto, MakingOK
<1>3. [q EXCEPT !.step = s] \in MakerRecord
  BY DEF MakerRecord
<1> QED
  BY <1>1, <1>2, <1>3 DEF MakingOK, MakerRecord

\* What no step takes away.
Grows ==
  /\ DOMAIN records \subseteq DOMAIN records' /\ DOMAIN made \subseteq DOMAIN made'
  /\ Len(b4b) <= Len(b4b')

LEMMA SubStays == ASSUME SubOK, BankOK, BankOK', Grows, sub' = sub PROVE SubOK'
<1>1. Len(b4b) \in Nat /\ Len(b4b') \in Nat
  BY DEF BankOK
<1>2. ASSUME NEW g \in DOMAIN sub PROVE sub[g] \in [rec: DOMAIN records', pay: 0..Len(b4b')]
  BY <1>1 DEF SubOK, Grows
<1> QED
  BY <1>2 DEF SubOK

LEMMA BankStays ==
  ASSUME BankOK, Grows, UNCHANGED <<b4b, calls, hooks>>
  PROVE  BankOK'
<1>1. b4b \in Seq([ref: DOMAIN made', level: 1..Levels])
  <2>1. [ref: DOMAIN made, level: 1..Levels] \subseteq [ref: DOMAIN made', level: 1..Levels]
    BY DEF Grows
  <2>2. \A S, T : S \subseteq T => Seq(S) \subseteq Seq(T)
    OBVIOUS
  <2> QED
    BY <2>1, <2>2 DEF BankOK
<1>2. hooks \subseteq (DOMAIN records') \X (DOMAIN b4b) \X (1..Levels)
  BY DEF BankOK, Grows
<1> QED
  BY <1>1, <1>2 DEF BankOK

LEMMA MakingStays == ASSUME MakingOK, Grows, making' = making PROVE MakingOK'
  BY DEF MakingOK, Grows

\* A step that changes one record and no more of what the parts are about.
LEMMA ChangeGrows ==
  ASSUME BankOK, NEW r, Changes(r), UNCHANGED <<made, b4b>>
  PROVE  Grows
  BY DEF BankOK, Changes, Grows

LEMMA OwedTyped ==
  ASSUME HistoryOK, StoreOK, NEW r \in DOMAIN records, owed' = [owed EXCEPT ![r] = @ + 1]
  PROVE  Len(owed') = Len(owed) /\ owed' \in Seq(Nat)
<1>1. r \in 1..Len(owed) /\ owed \in [1..Len(owed) -> Nat] /\ Len(owed) \in Nat
  BY DEF HistoryOK, StoreOK, IsStore
<1>2. owed' \in [1..Len(owed) -> Nat]
  BY <1>1
<1> QED
  BY <1>1, <1>2

LEMMA PullTyped == ASSUME TypeOK, NEW f \in Files, Pull(f) PROVE TypeOK'
<1> USE TypeParts
<1>1. UNCHANGED <<up, records, saved, made, sub, b4b, calls, hooks, crashes, owed, refused>>
  BY DEF Pull, Claim, Download, Archive, store, bank, excuses
<1>2. up /\ making[Puller] = IdleMaker
  BY DEF Pull, Claim, Download, Archive, IdlePuller, DownOK, PullerOK
<1>3. Puller \notin DOMAIN sub
  BY <1>2 DEF PullerOK, IdleMaker
<1>4. /\ making' \in [Makers -> MakerRecord]
      /\ \A w \in Makers : w # Puller => making'[w] = making[w]
      /\ making'[Puller].step = "create"
  <2>1. CASE making' = making
    BY <2>1, <1>2 DEF MakingOK, IdleMaker
  <2>2. CASE making' = [making EXCEPT ![Puller] = [src |-> f, mids |-> Carries[f], rec |-> 0, step |-> "create"]]
    <3>1. [src |-> f, mids |-> Carries[f], rec |-> 0, step |-> "create"] \in MakerRecord
      BY SettlementAssumption DEF MakerRecord
    <3> QED
      BY <2>2, <3>1 DEF MakingOK, Makers
  <2> QED
    BY <2>1, <2>2 DEF Pull, Claim, Download, Archive
<1>5. /\ seen' \subseteq Files /\ archive' \subseteq Files /\ fetching' \subseteq Files /\ fetched' \subseteq Files
      /\ unarchived' \subseteq Files /\ failed' \subseteq Files
      /\ fetching' = {} \/ fetched' = {}
      /\ fetching' \cup fetched' # {} => making' = making
  <2> USE DEF PullerOK, HistoryOK
  <2>1. CASE Claim(f)
    BY <2>1 DEF Claim, IdlePuller, excuses
  <2>2. CASE Download(f)
    BY <2>2 DEF Download
  <2>3. CASE Archive(f)
    BY <2>3 DEF Archive
  <2> QED
    BY <2>1, <2>2, <2>3 DEF Pull
<1>6. fetching' \cup fetched' # {} => making'[Puller] = IdleMaker
  BY <1>2, <1>5
<1>7. HistoryOK' /\ StoreOK'
  BY <1>1, <1>5 DEF HistoryOK, StoreOK, IsStore
<1>8. PullerOK'
  BY <1>1, <1>3, <1>4, <1>5, <1>6 DEF PullerOK
<1>9. MakingOK'
  BY <1>1, <1>4 DEF MakingOK
<1>10. SubOK' /\ BankOK'
  BY <1>1 DEF SubOK, BankOK
<1>11. DownOK'
  BY <1>1, <1>2 DEF DownOK
<1> QED
  BY <1>7, <1>8, <1>9, <1>10, <1>11, TypeParts, PTL

LEMMA SubmissionTyped == ASSUME TypeOK, NEW g \in Submitters, Submission(g) PROVE TypeOK'
<1> USE TypeParts
<1>0. g \in DOMAIN sub /\ up /\ sub[g].rec \in DOMAIN records /\ sub[g].pay \in 0..Len(b4b)
  BY DEF Submission, Stop, Take, Answer, LoseAnswer, SubOK, DownOK
<1> PICK r \in DOMAIN records : r = sub[g].rec
  BY <1>0
<1>1. CASE Take(g)
  <2>1. PICK n \in Nat : n = Len(b4b)
    BY DEF BankOK
  <2>2. PICK a : a = [ref |-> r, level |-> 1]
    OBVIOUS
  <2>3. a \in [ref: DOMAIN made, level: 1..Levels]
    BY <1>0, <2>2, SettlementAssumption DEF StoreOK, IsStore
  <2>4. b4b' = Append(b4b, a) /\ n < MaxPayments
    BY <1>1, <2>1, <2>2 DEF Take
  <2>5. /\ b4b' \in Seq([ref: DOMAIN made, level: 1..Levels]) /\ Len(b4b') = n + 1
        /\ DOMAIN b4b' = 1..(n + 1) /\ DOMAIN b4b = 1..n
    BY <2>1, <2>3, <2>4 DEF BankOK
  <2>6. calls' = calls \cup {<<n + 1, 1>>} /\ sub' = [sub EXCEPT ![g].pay = n + 1]
    BY <1>1, <2>1 DEF Take
  <2>7. UNCHANGED <<up, records, saved, made, seen, archive, fetching, fetched, making, hooks, crashes, owed,
                    unarchived, failed, refused>>
    BY <1>1 DEF Take, store, puller, excuses
  <2>8. BankOK'
    BY <2>4, <2>5, <2>6, <2>7, SettlementAssumption, SMTT(40) DEF BankOK
  <2>9. PICK q : q = sub[g] /\ q \in [rec: DOMAIN records, pay: 0..Len(b4b)]
    BY <1>0 DEF SubOK
  <2>10. sub'[g] = [q EXCEPT !.pay = n + 1] /\ DOMAIN sub' = DOMAIN sub /\ \A x \in DOMAIN sub : x # g => sub'[x] = sub[x]
    BY <1>0, <2>6, <2>9
  <2>11. sub'[g] \in [rec: DOMAIN records', pay: 0..Len(b4b')]
    BY <2>5, <2>7, <2>9, <2>10
  <2>12. \A x \in DOMAIN sub : sub[x] \in [rec: DOMAIN records', pay: 0..Len(b4b')]
    BY <2>1, <2>5, <2>7 DEF SubOK
  <2>13. SubOK'
    BY <2>10, <2>11, <2>12 DEF SubOK
  <2>14. HistoryOK' /\ StoreOK' /\ MakingOK'
    BY <2>7 DEF HistoryOK, StoreOK, IsStore, MakingOK
  <2>15. PullerOK' /\ DownOK'
    BY <2>7, <2>10, <1>0 DEF PullerOK, DownOK
  <2> QED
    BY <2>8, <2>13, <2>14, <2>15, TypeParts, PTL
<1>2. CASE Stop(g) \/ Answer(g) \/ LoseAnswer(g)
  <2>1. PICK p \in 0..MaxPayments, s \in {Unset, Stopped} \cup 1..Levels : SetPayout(r, p, s)
    <3>1. CASE Stop(g) \/ LoseAnswer(g)
      BY <3>1, SettlementAssumption DEF Stop, LoseAnswer
    <3>2. CASE Answer(g)
      <4>1. sub[g].pay \in 0..MaxPayments /\ 1 \in 1..Levels
        BY <1>0, SettlementAssumption DEF BankOK
      <4> QED
        BY <3>2, <4>1 DEF Answer
    <3> QED
      BY <1>2, <3>1, <3>2
  <2>2. Changes(r)
    BY <1>0, <2>1, SetPayoutShape
  <2>3. Leave(g)
    BY <1>2 DEF Stop, Answer, LoseAnswer
  <2>4. UNCHANGED <<up, made, seen, archive, fetching, fetched, b4b, calls, hooks, crashes, unarchived, failed, refused>>
    BY <1>2 DEF Stop, Answer, LoseAnswer, puller, bank, excuses
  <2>5. Len(owed') = Len(owed) /\ owed' \in Seq(Nat)
    <3>1. CASE owed' = owed
      BY <3>1 DEF HistoryOK
    <3>2. CASE owed' = [owed EXCEPT ![r] = @ + 1]
      BY <3>2, OwedTyped
    <3> QED
      BY <1>2, <3>1, <3>2 DEF Stop, Answer, LoseAnswer
  <2>6. HistoryOK'
    BY <2>4, <2>5 DEF HistoryOK
  <2>7. StoreOK' /\ Grows
    BY <1>0, <2>2, <2>4, StoreChanges, ChangeGrows
  <2>8. BankOK'
    BY <2>4, <2>7, BankStays
  <2>9. DOMAIN sub' = DOMAIN sub \ {g} /\ \A x \in DOMAIN sub' : sub'[x] = sub[x]
    BY <2>3, LeaveShape
  <2>10. SubOK'
    BY <2>2, <2>4, <2>9 DEF SubOK, Changes
  <2>11. MakingOK' /\ PullerOK'
    <3>1. CASE g = Puller
      <4>1. making[Puller].step = "pay" /\ making' = [making EXCEPT ![Puller].step = "create"]
        BY <2>3, <3>1, <1>0 DEF Leave, PullerOK
      <4>2. /\ making' \in [Makers -> MakerRecord] /\ making'[Puller].step = "create"
            /\ \A w \in Makers : w # Puller => making'[w] = making[w]
        BY <4>1, GotoShape DEF Goto, Makers
      <4>3. fetching = {} /\ fetched = {}
        BY <4>1 DEF PullerOK, IdleMaker
      <4>4. MakingOK'
        BY <4>2, <2>7 DEF MakingOK, Grows
      <4>5. PullerOK'
        BY <4>2, <4>3, <2>4, <2>9, <3>1 DEF PullerOK
      <4> QED
        BY <4>4, <4>5
    <3>2. CASE g # Puller
      <4>1. making' = making
        BY <2>3, <3>2 DEF Leave
      <4>2. MakingOK'
        BY <4>1, <2>7, MakingStays
      <4>3. PullerOK'
        BY <4>1, <2>4, <2>9, <3>2 DEF PullerOK
      <4> QED
        BY <4>2, <4>3
    <3> QED
      BY <3>1, <3>2
  <2>12. DownOK'
    BY <2>4, <1>0 DEF DownOK
  <2> QED
    BY <2>6, <2>7, <2>8, <2>10, <2>11, <2>12, TypeParts, PTL
<1> QED
  BY <1>1, <1>2 DEF Submission

\* A goroutine that was not submitting begins to.
LEMMA SubmitTyped ==
  ASSUME SubOK, BankOK, BankOK', Grows, NEW g \in Submitters, NEW r \in DOMAIN records, Submit(g, r)
  PROVE  SubOK'
<1>1. Len(b4b) \in Nat /\ Len(b4b') \in Nat
  BY DEF BankOK
<1>2. [rec |-> r, pay |-> 0] \in [rec: DOMAIN records', pay: 0..Len(b4b')]
  BY <1>1 DEF Grows
<1>3. ASSUME NEW x \in DOMAIN sub PROVE sub[x] \in [rec: DOMAIN records', pay: 0..Len(b4b')]
  BY <1>1 DEF SubOK, Grows
<1> QED
  BY <1>2, <1>3, SubmitShape, ZenonT(40) DEF SubOK

LEMMA OwnersApart == Puller \in Makers /\ Puller \in Submitters /\ Puller \notin Operators
  BY SettlementAssumption DEF Makers, Submitters

\* The maker of records takes a step that concerns the record in its hands.
LEMMA MakeRecordTyped ==
  ASSUME TypeOK, NEW w \in Makers,
         Process(w) \/ SetReport(w) \/ Settle(w) \/ FailRecord(w)
  PROVE  TypeOK'
<1> USE TypeParts
<1> PICK r : r = making[w].rec
  OBVIOUS
<1>0. /\ making[w] # IdleMaker /\ making[w].step \in {"process", "report", "settle", "fail"}
      /\ r \in DOMAIN records
  BY DEF Process, SetReport, Settle, FailRecord, Making, MakingOK
<1>1. up /\ (w = Puller => fetching = {} /\ fetched = {} /\ Puller \notin DOMAIN sub)
  BY <1>0 DEF DownOK, PullerOK
<1>2. UNCHANGED <<up, made, seen, archive, fetching, fetched, b4b, calls, hooks, crashes, unarchived, failed>>
  BY DEF Process, SetReport, Settle, FailRecord, puller, bank, excuses
<1>3. Changes(r) \/ UNCHANGED <<records, saved>>
  <2>1. CASE SetReport(w)
    BY <1>0, <2>1, SetReportShape DEF SetReport
  <2>2. CASE Process(w) \/ Settle(w) \/ FailRecord(w)
    <3>1. Transition(r, "process") \/ Transition(r, "settle") \/ Transition(r, "fail") \/ UNCHANGED store
      BY <2>2 DEF Process, Settle, FailRecord
    <3> QED
      BY <1>0, <3>1, TransitionShape DEF store
  <2> QED
    BY <2>1, <2>2
<1>4. StoreOK' /\ Grows
  <2>1. CASE Changes(r)
    BY <1>1, <1>2, <2>1, StoreChanges, ChangeGrows
  <2>2. CASE UNCHANGED <<records, saved>>
    BY <1>2, <2>2 DEF StoreOK, IsStore, Grows, BankOK
  <2> QED
    BY <1>3, <2>1, <2>2
<1>5. BankOK'
  BY <1>2, <1>4, BankStays
<1>6. /\ \/ owed' = owed
         \/ owed' = [owed EXCEPT ![r] = @ + 1]
      /\ refused' \subseteq refused \cup {r}
  BY DEF Process, SetReport, Settle, FailRecord, excuses
<1>7. HistoryOK'
  <2>1. Len(owed') = Len(owed) /\ owed' \in Seq(Nat)
    BY <1>0, <1>6, OwedTyped DEF HistoryOK
  <2>2. r \in DOMAIN made
    BY <1>0 DEF StoreOK, IsStore
  <2> QED
    BY <1>2, <1>6, <2>1, <2>2 DEF HistoryOK
<1>8. /\ making' \in [Makers -> MakerRecord] /\ making'[w].rec = r
      /\ \A v \in Makers : v # w => making'[v] = making[v]
      /\ \/ making'[w].step # "pay" /\ sub' = sub
         \/ making'[w].step = "pay" /\ w = Puller /\ Submit(Puller, r)
  <2>1. PICK s \in {"create", "process", "report", "settle", "fail", "pay"} :
          /\ Goto(w, s)
          /\ \/ s # "pay" /\ sub' = sub
             \/ s = "pay" /\ w = Puller /\ Submit(Puller, r)
    BY DEF Process, SetReport, Settle, FailRecord
  <2> QED
    BY <2>1, GotoShape
<1>9. MakingOK'
  BY <1>0, <1>4, <1>8 DEF MakingOK, Grows
<1>10. SubOK'
  BY <1>0, <1>4, <1>5, <1>8, SubStays, SubmitTyped, OwnersApart
<1>11. PullerOK'
  <2>1. CASE w = Puller
    BY <1>1, <1>2, <1>8, <2>1, SubmitShape DEF PullerOK
  <2>2. CASE w # Puller
    BY <1>1, <1>2, <1>8, <2>2, OwnersApart DEF PullerOK
  <2> QED
    BY <2>1, <2>2
<1>12. DownOK'
  BY <1>1, <1>2 DEF DownOK
<1> QED
  BY <1>4, <1>5, <1>7, <1>9, <1>10, <1>11, <1>12, TypeParts, PTL

LEMMA CreateShape ==
  ASSUME TypeOK, NEW w \in Makers, Create(w)
  PROVE  \E m \in making[w].mids, r \in Nat :
           /\ r = Len(made) + 1 /\ r \notin DOMAIN records
           /\ DOMAIN records' = DOMAIN records \cup {r}
           /\ records'[r] = [stage |-> "Scheduled", report |-> FALSE, payout |-> 0, status |-> Unset]
           /\ \A x \in DOMAIN records : records'[x] = records[x]
           /\ saved' = records'
           /\ made' = Append(made, [src |-> making[w].src, mid |-> m])
           /\ owed' = Append(owed, 0)
           /\ \A v \in Makers : v # w => making'[v] = making[v]
           /\ making' \in [Makers -> MakerRecord]
           /\ making'[w] = [src |-> making[w].src, mids |-> making[w].mids \ {m}, rec |-> r, step |-> "process"]
<1> USE TypeParts
<1>1. PICK m \in making[w].mids :
        LET r == Len(made) + 1 IN
        /\ records' = [x \in DOMAIN records \cup {r} |->
                         IF x = r THEN [stage |-> "Scheduled", report |-> FALSE, payout |-> 0, status |-> Unset]
                         ELSE records[x]]
        /\ made' = Append(made, [src |-> making[w].src, mid |-> m])
        /\ making' = [making EXCEPT ![w] =
                       [src |-> @.src, mids |-> @.mids \ {m}, rec |-> r, step |-> "process"]]
  BY DEF Create
<1>2. PICK r \in Nat : r = Len(made) + 1
  BY DEF HistoryOK
<1>3. r \notin DOMAIN records
  BY <1>2 DEF StoreOK, IsStore, HistoryOK
<1>4. PICK q \in MakerRecord : q = making[w]
  BY DEF MakingOK
<1>5. PICK M \in SUBSET Mids : M = q.mids \ {m}
  BY <1>4 DEF MakerRecord
<1>6. making' = [making EXCEPT ![w] = [src |-> q.src, mids |-> M, rec |-> r, step |-> "process"]]
  BY <1>1, <1>2, <1>4, <1>5
<1>61. [src |-> q.src, mids |-> M, rec |-> r, step |-> "process"] \in MakerRecord
  BY <1>4 DEF MakerRecord
<1>7. /\ making' \in [Makers -> MakerRecord]
      /\ \A v \in Makers : v # w => making'[v] = making[v]
      /\ making'[w] = [src |-> making[w].src, mids |-> making[w].mids \ {m}, rec |-> r, step |-> "process"]
  BY <1>4, <1>5, <1>6, <1>61 DEF MakingOK
<1>8. saved' = records' /\ owed' = Append(owed, 0)
  BY DEF Create, Save
<1> QED
  BY <1>1, <1>2, <1>3, <1>7, <1>8

LEMMA CreateTyped == ASSUME TypeOK, NEW w \in Makers, Create(w) PROVE TypeOK'
<1> USE TypeParts
<1>0. PICK m \in making[w].mids, r \in Nat :
           /\ r = Len(made) + 1 /\ r \notin DOMAIN records
           /\ DOMAIN records' = DOMAIN records \cup {r}
           /\ records'[r] = [stage |-> "Scheduled", report |-> FALSE, payout |-> 0, status |-> Unset]
           /\ \A x \in DOMAIN records : records'[x] = records[x]
           /\ saved' = records'
           /\ made' = Append(made, [src |-> making[w].src, mid |-> m])
           /\ owed' = Append(owed, 0)
           /\ \A v \in Makers : v # w => making'[v] = making[v]
           /\ making' \in [Makers -> MakerRecord]
           /\ making'[w] = [src |-> making[w].src, mids |-> making[w].mids \ {m}, rec |-> r, step |-> "process"]
  BY CreateShape
<1>1. /\ making[w] # IdleMaker /\ making[w].step = "create" /\ making[w] \in MakerRecord
      /\ UNCHANGED <<up, seen, archive, fetching, fetched, sub, b4b, calls, hooks, crashes, unarchived, failed, refused>>
  BY DEF Create, Making, MakingOK, puller, bank, excuses
<1>2. up /\ (w = Puller => fetching = {} /\ fetched = {} /\ Puller \notin DOMAIN sub)
  BY <1>1 DEF DownOK, PullerOK
<1>3. /\ made' \in Seq([src: Files \cup {Ledger}, mid: Mids]) /\ DOMAIN made' = DOMAIN made \cup {r}
      /\ Len(made') = Len(made) + 1
  <2>1. PICK e : e = [src |-> making[w].src, mid |-> m]
    OBVIOUS
  <2>2. e \in [src: Files \cup {Ledger}, mid: Mids]
    BY <1>1, <2>1 DEF MakerRecord
  <2>3. made' = Append(made, e)
    BY <1>0, <2>1
  <2> QED
    BY <1>0, <2>2, <2>3, SMTT(40) DEF HistoryOK
<1>4. owed' \in Seq(Nat) /\ Len(owed') = Len(owed) + 1
  BY <1>0 DEF HistoryOK
<1>5. HistoryOK'
  BY <1>1, <1>3, <1>4 DEF HistoryOK
<1>6. StoreOK' /\ Grows
  <2>1. [stage |-> "Scheduled", report |-> FALSE, payout |-> 0, status |-> Unset] \in Record
    <3>1. MaxPayments \in Nat
      BY SettlementAssumption
    <3> QED
      BY <3>1 DEF Record, Stages
  <2>2. IsStore(records)'
    BY <1>0, <1>3, <2>1 DEF StoreOK, IsStore
  <2> QED
    BY <1>0, <1>1, <1>2, <1>3, <2>2 DEF StoreOK, IsStore, Grows, BankOK
<1>7. BankOK'
  BY <1>1, <1>6, BankStays
<1>8. SubOK'
  BY <1>1, <1>6, <1>7, SubStays
<1>9. MakingOK'
  <2>1. making'[w].rec \in DOMAIN records'
    BY <1>0
  <2>2. ASSUME NEW v \in Makers, v # w, making'[v].step # "create"
        PROVE  making'[v].rec \in DOMAIN records'
    BY <1>0, <2>2 DEF MakingOK
  <2> QED
    BY <1>0, <2>1, <2>2 DEF MakingOK
<1>10. PullerOK'
  <2>1. CASE w = Puller
    BY <1>0, <1>1, <1>2, <2>1 DEF PullerOK
  <2>2. CASE w # Puller
    BY <1>0, <1>1, <2>2, OwnersApart DEF PullerOK
  <2> QED
    BY <2>1, <2>2
<1>11. DownOK'
  BY <1>1, <1>2 DEF DownOK
<1> QED
  BY <1>5, <1>6, <1>7, <1>8, <1>9, <1>10, <1>11, TypeParts, PTL

\* A batch starts, or a maker is done.
LEMMA MakerTurnTyped ==
  ASSUME TypeOK, StartBatch \/ \E w \in Makers : Done(w)
  PROVE  TypeOK'
<1> USE TypeParts
<1>1. UNCHANGED <<up, records, saved, made, seen, archive, fetching, fetched, sub, b4b, calls, hooks,
                  crashes, owed, unarchived, failed, refused>>
  BY DEF StartBatch, Done, store, puller, bank, excuses
<1>2. PICK w \in Makers :
        /\ up /\ making' \in [Makers -> MakerRecord]
        /\ making[w].step = "create" /\ making'[w].step = "create"
        /\ \A v \in Makers : v # w => making'[v] = making[v]
        /\ w = Puller => making'[w] = IdleMaker
  <2>1. CASE StartBatch
    <3>2. PICK M \in SUBSET Mids :
            making' = [making EXCEPT ![Ledger] = [src |-> Ledger, mids |-> M, rec |-> 0, step |-> "create"]]
      BY <2>1 DEF StartBatch
    <3>3. [src |-> Ledger, mids |-> M, rec |-> 0, step |-> "create"] \in MakerRecord
      BY DEF MakerRecord
    <3> QED
      BY <2>1, <3>2, <3>3, SettlementAssumption DEF StartBatch, IdleMaker, Makers, MakingOK
  <2>2. ASSUME NEW w \in Makers, Done(w)
        PROVE  /\ up /\ making' \in [Makers -> MakerRecord]
               /\ making[w].step = "create" /\ making'[w].step = "create"
               /\ \A v \in Makers : v # w => making'[v] = making[v]
               /\ w = Puller => making'[w] = IdleMaker
    <3>1. IdleMaker \in MakerRecord /\ IdleMaker.step = "create"
      BY DEF MakerRecord, IdleMaker
    <3>2. up
      BY <2>2 DEF Done, Making, DownOK
    <3> QED
      BY <2>2, <3>1, <3>2 DEF Done, Making, MakingOK
  <2> QED
    BY <2>1, <2>2
<1>3. HistoryOK' /\ StoreOK' /\ SubOK' /\ BankOK'
  BY <1>1 DEF HistoryOK, StoreOK, IsStore, SubOK, BankOK
<1>4. MakingOK'
  BY <1>1, <1>2 DEF MakingOK
<1>5. PullerOK'
  <2>1. CASE w = Puller
    BY <1>1, <1>2, <2>1 DEF PullerOK
  <2>2. CASE w # Puller
    BY <1>1, <1>2, <2>2, OwnersApart DEF PullerOK
  <2> QED
    BY <2>1, <2>2
<1>6. DownOK'
  BY <1>1, <1>2 DEF DownOK
<1> QED
  BY <1>3, <1>4, <1>5, <1>6, TypeParts, PTL

LEMMA OperatorTyped ==
  ASSUME TypeOK,
         \/ \E g \in Operators, r \in DOMAIN records : RetryPayout(g, r) \/ OperatorSettles(g, r)
         \/ \E r \in DOMAIN records, t \in Transitions : Move(r, t[2])
  PROVE  TypeOK'
<1> USE TypeParts
<1>1. PICK r \in DOMAIN records :
        /\ \/ UNCHANGED store
           \/ \E e : Transition(r, e)
        /\ sub' = sub \/ \E g \in Operators : Submit(g, r)
        /\ owed' = owed \/ owed' = [owed EXCEPT ![r] = @ + 1]
        /\ up
  BY DEF RetryPayout, OperatorSettles, Move
<1>2. UNCHANGED <<up, made, seen, archive, fetching, fetched, making, b4b, calls, hooks, crashes,
                  unarchived, failed, refused>>
  BY DEF RetryPayout, OperatorSettles, Move, puller, bank, excuses
<1>3. Changes(r) \/ UNCHANGED <<records, saved>>
  BY <1>1, TransitionShape DEF store
<1>4. StoreOK' /\ Grows
  <2>1. CASE Changes(r)
    BY <1>1, <1>2, <2>1, StoreChanges, ChangeGrows
  <2>2. CASE UNCHANGED <<records, saved>>
    BY <1>2, <2>2 DEF StoreOK, IsStore, Grows, BankOK
  <2> QED
    BY <1>3, <2>1, <2>2
<1>5. BankOK'
  BY <1>2, <1>4, BankStays
<1>6. Len(owed') = Len(owed) /\ owed' \in Seq(Nat)
  BY <1>1, OwedTyped DEF HistoryOK
<1>7. HistoryOK'
  BY <1>2, <1>6 DEF HistoryOK
<1>8. MakingOK'
  BY <1>2, <1>4, MakingStays
<1>9. Operators \subseteq Submitters
  BY DEF Submitters
<1>10. SubOK'
  BY <1>1, <1>4, <1>5, <1>9, SubStays, SubmitTyped
<1>11. Puller \in DOMAIN sub' <=> Puller \in DOMAIN sub
  <2>1. ASSUME NEW g \in Operators, Submit(g, r) PROVE DOMAIN sub' = DOMAIN sub \cup {g} /\ g # Puller
    BY <2>1, SubmitShape, OwnersApart
  <2> QED
    BY <1>1, <2>1
<1>12. PullerOK' /\ DownOK'
  BY <1>1, <1>2, <1>11 DEF PullerOK, DownOK
<1> QED
  BY <1>4, <1>5, <1>7, <1>8, <1>10, <1>12, TypeParts, PTL

LEMMA CallbackTyped ==
  ASSUME TypeOK, NEW p \in DOMAIN b4b, NEW s \in 1..Levels, NEW r \in DOMAIN records,
         Hook(r, p, s)
  PROVE  TypeOK'
<1> USE TypeParts
<1>0. up
  BY DEF Hook, DownOK
<1>1. p \in 0..MaxPayments
  <2>1. Len(b4b) \in Nat /\ DOMAIN b4b = 1..Len(b4b) /\ Len(b4b) <= MaxPayments
    BY DEF BankOK
  <2> QED
    BY <2>1, SettlementAssumption
<1>2. UNCHANGED <<up, made, seen, archive, fetching, fetched, making, sub, b4b, calls, crashes, owed,
                  unarchived, failed, refused>> /\ hooks' \subseteq hooks
  BY DEF Hook, puller, bank, excuses
<1>3. SetPayout(r, p, s)
  BY DEF Hook
<1>4. Changes(r)
  BY <1>1, <1>3, SetPayoutShape
<1>5. StoreOK' /\ Grows
  BY <1>0, <1>2, <1>4, StoreChanges, ChangeGrows
<1>6. BankOK'
  <2>1. hooks' \subseteq (DOMAIN records') \X (DOMAIN b4b) \X (1..Levels)
    BY <1>2, <1>4 DEF BankOK, Changes
  <2> QED
    BY <1>2, <2>1 DEF BankOK
<1>7. SubOK' /\ MakingOK'
  BY <1>2, <1>5, <1>6, SubStays, MakingStays
<1>8. HistoryOK' /\ PullerOK' /\ DownOK'
  BY <1>0, <1>2 DEF HistoryOK, PullerOK, DownOK
<1> QED
  BY <1>5, <1>6, <1>7, <1>8, TypeParts, PTL

LEMMA B4BTyped ==
  ASSUME TypeOK, NEW p \in DOMAIN b4b,
         Progress(p) \/ \E s \in 1..Levels : Receive(p, s) \/ GiveUp(p, s)
  PROVE  TypeOK'
<1> USE TypeParts
<1>1. UNCHANGED <<up, records, saved, made, seen, archive, fetching, fetched, making, sub, crashes, owed,
                  unarchived, failed, refused>>
  BY DEF Progress, Receive, GiveUp, store, puller, excuses
<1>2. DOMAIN b4b = 1..Len(b4b) /\ Len(b4b) \in Nat
  BY DEF BankOK
<1>3. BankOK' /\ Len(b4b') = Len(b4b)
  <2>1. CASE Progress(p)
    <3>0. b4b \in [1..Len(b4b) -> [ref: DOMAIN made, level: 1..Levels]]
      <4>1. \A S : \A t \in Seq(S) : t \in [1..Len(t) -> S]
        OBVIOUS
      <4> QED
        BY <4>1 DEF BankOK
    <3>1. PICK q \in [ref: DOMAIN made, level: 1..Levels] : q = b4b[p]
      BY <1>2, <3>0
    <3>2. PICK n \in 1..Levels : n = q.level + 1
      BY <2>1, <3>1, SettlementAssumption DEF Progress
    <3>3. b4b' = [b4b EXCEPT ![p] = [q EXCEPT !.level = n]]
      BY <2>1, <3>1, <3>2 DEF Progress
    <3>4. [q EXCEPT !.level = n] \in [ref: DOMAIN made, level: 1..Levels]
      BY <3>1
    <3>5. /\ b4b' \in Seq([ref: DOMAIN made, level: 1..Levels]) /\ Len(b4b') = Len(b4b)
          /\ DOMAIN b4b' = DOMAIN b4b
      BY <3>3, <3>4, <1>2 DEF BankOK
    <3>6. calls' = calls \cup {<<p, n>>} /\ hooks' = hooks
      BY <2>1, <3>1, <3>2 DEF Progress
    <3> QED
      BY <1>1, <3>5, <3>6 DEF BankOK
  <2>2. ASSUME NEW s \in 1..Levels, Receive(p, s) \/ GiveUp(p, s) PROVE BankOK' /\ Len(b4b') = Len(b4b)
    <3>1. calls' \subseteq calls /\ b4b' = b4b
      BY <2>2 DEF Receive, GiveUp
    <3>2. hooks' \subseteq hooks \cup {<<r, p, s>> : r \in DOMAIN records}
      BY <2>2 DEF Receive, GiveUp
    <3> QED
      BY <1>1, <3>1, <3>2 DEF BankOK
  <2> QED
    BY <2>1, <2>2
<1>4. Grows
  BY <1>1, <1>2, <1>3 DEF Grows
<1>5. SubOK' /\ MakingOK'
  BY <1>1, <1>3, <1>4, SubStays, MakingStays
<1>6. up \/ hooks' = {}
  BY DEF Progress, Receive, GiveUp, DownOK
<1>7. HistoryOK' /\ StoreOK' /\ PullerOK' /\ DownOK'
  BY <1>1, <1>6 DEF HistoryOK, StoreOK, IsStore, PullerOK, DownOK
<1> QED
  BY <1>3, <1>5, <1>7, TypeParts, PTL

LEMMA IdleTyped == IdleMaker \in MakerRecord /\ IdleMaker.step = "create"
  BY DEF IdleMaker, MakerRecord

LEMMA CrashTyped == ASSUME TypeOK, Crash PROVE TypeOK'
<1> USE TypeParts
<1>1. UNCHANGED <<made, archive, b4b, calls, unarchived, failed, refused>>
  BY DEF Crash, bank, excuses
<1>2. /\ up' = FALSE /\ records' = <<>> /\ seen' = {} /\ fetching' = {} /\ fetched' = {}
      /\ making' = [w \in Makers |-> IdleMaker] /\ sub' = <<>> /\ hooks' = {}
      /\ saved' \in {saved, Empty, Garbled} /\ crashes' \in 0..MaxCrashes
  BY SettlementAssumption DEF Crash, HistoryOK
<1>3. owed' \in Seq(Nat) /\ Len(owed') = Len(owed)
  <2>1. DOMAIN sub \subseteq Operators \cup {Puller}
    BY DEF SubOK, Submitters
  <2>2. \A r \in DOMAIN owed : IsFiniteSet({g \in On(r) : sub[g].pay > 0})
    <3>1. IsFiniteSet(Operators \cup {Puller})
      BY SettlementAssumption, FS_AddElement
    <3>2. \A r \in DOMAIN owed : {g \in On(r) : sub[g].pay > 0} \subseteq Operators \cup {Puller}
      BY <2>1 DEF On
    <3> QED
      BY <3>1, <3>2, FS_Subset
  <2>3. \A r \in DOMAIN owed : Cardinality({g \in On(r) : sub[g].pay > 0}) \in Nat
    BY <2>2, FS_CardinalityType
  <2>0. Len(owed) \in Nat /\ owed \in [1..Len(owed) -> Nat] /\ DOMAIN owed = 1..Len(owed)
    BY DEF HistoryOK
  <2>4. \A r \in DOMAIN owed : owed[r] + Cardinality({g \in On(r) : sub[g].pay > 0}) \in Nat
    <3>1. \A n, c \in Nat : n + c \in Nat
      OBVIOUS
    <3>2. ASSUME NEW r \in DOMAIN owed PROVE owed[r] \in Nat
      BY <2>0
    <3> QED
      BY <2>3, <3>1, <3>2, ZenonT(20)
  <2>5. owed' \in [1..Len(owed) -> Nat] /\ Len(owed) \in Nat
    BY <2>0, <2>4 DEF Crash
  <2> QED
    BY <2>5
<1>4. DOMAIN sub' = {} /\ DOMAIN records' = {}
  BY <1>2
<1>5. HistoryOK' /\ StoreOK' /\ SubOK' /\ DownOK'
  BY <1>1, <1>2, <1>3, <1>4 DEF HistoryOK, StoreOK, IsStore, SubOK, DownOK
<1>6. BankOK'
  BY <1>1, <1>2 DEF BankOK
<1>7. MakingOK' /\ PullerOK'
  BY <1>1, <1>2, <1>4, IdleTyped, OwnersApart DEF MakingOK, PullerOK
<1> QED
  BY <1>5, <1>6, <1>7, TypeParts, PTL

LEMMA RestartTyped == ASSUME TypeOK, Restart PROVE TypeOK'
<1> USE TypeParts
<1>1. UNCHANGED <<saved, made, archive, fetching, fetched, making, sub, b4b, calls, hooks, crashes, owed,
                  unarchived, failed, refused>>
  BY DEF Restart, bank, excuses
<1>2. ~up /\ up' = TRUE /\ seen' = archive /\ saved # Garbled
  BY DEF Restart
<1>3. StoreOK'
  <2>1. CASE saved = Empty
    <3>1. records' = <<>> /\ DOMAIN records' = {}
      BY <2>1 DEF Restart
    <3> QED
      BY <1>1, <1>2, <2>1, <3>1 DEF StoreOK, IsStore
  <2>2. CASE saved # Empty
    BY <1>1, <1>2, <2>2 DEF Restart, StoreOK, IsStore
  <2> QED
    BY <2>1, <2>2
<1>4. HistoryOK' /\ DownOK'
  BY <1>1, <1>2 DEF HistoryOK, DownOK
<1>5. SubOK' /\ BankOK'
  BY <1>1, <1>2 DEF DownOK, SubOK, BankOK
<1>6. MakingOK'
  BY <1>1, <1>2, IdleTyped DEF DownOK, MakingOK
<1>7. PullerOK'
  BY <1>1, <1>2 DEF PullerOK
<1> QED
  BY <1>3, <1>4, <1>5, <1>6, <1>7, TypeParts, PTL

LEMMA InitTyped == Init => TypeOK
<1> SUFFICES ASSUME Init PROVE TypeOK
  OBVIOUS
<1>1. HistoryOK /\ StoreOK /\ DownOK
  BY SettlementAssumption DEF Init, HistoryOK, StoreOK, IsStore, DownOK
<1>2. MakingOK /\ PullerOK
  BY IdleTyped, OwnersApart DEF Init, MakingOK, PullerOK
<1>3. SubOK /\ BankOK
  BY SettlementAssumption DEF Init, SubOK, BankOK
<1> QED
  BY <1>1, <1>2, <1>3, TypeParts

LEMMA StutterTyped == TypeOK /\ UNCHANGED vars => TypeOK'
<1> SUFFICES ASSUME TypeOK, UNCHANGED vars PROVE TypeOK'
  OBVIOUS
<1>1. UNCHANGED <<up, records, saved, made, seen, archive, fetching, fetched, making, sub, b4b, calls, hooks,
                  crashes, owed, unarchived, failed, refused>>
  BY DEF vars, store, puller, bank, excuses
<1> QED
  BY <1>1 DEF TypeOK, IsStore

LEMMA NextTyped == TypeOK /\ [Next]_vars => TypeOK'
<1> SUFFICES ASSUME TypeOK, Next PROVE TypeOK'
  BY StutterTyped
<1>1. ASSUME NEW f \in Files, Pull(f) PROVE TypeOK'
  BY <1>1, PullTyped
<1>2. ASSUME NEW w \in Makers, Make(w) PROVE TypeOK'
  BY <1>2, CreateTyped, MakeRecordTyped, MakerTurnTyped DEF Make
<1>3. ASSUME NEW g \in Submitters, Submission(g) PROVE TypeOK'
  BY <1>3, SubmissionTyped
<1>4. CASE \/ \E g \in Operators, r \in DOMAIN records : RetryPayout(g, r) \/ OperatorSettles(g, r)
           \/ \E r \in DOMAIN records, t \in Transitions : Move(r, t[2])
  BY <1>4, OperatorTyped
<1>5. ASSUME NEW p \in DOMAIN b4b, Progress(p) \/ \E s \in 1..Levels : Receive(p, s) \/ GiveUp(p, s)
      PROVE TypeOK'
  BY <1>5, B4BTyped
<1>6. ASSUME NEW p \in DOMAIN b4b, NEW s \in 1..Levels, NEW r \in DOMAIN records, Hook(r, p, s)
      PROVE TypeOK'
  BY <1>6, CallbackTyped
<1>7. CASE StartBatch \/ Crash \/ Restart
  BY <1>7, MakerTurnTyped, CrashTyped, RestartTyped
<1> QED
  BY <1>1, <1>2, <1>3, <1>4, <1>5, <1>6, <1>7 DEF Next

\* The variables keep their types, the store agrees with its file, and the
\* puller does one thing at a time, whatever operators, callbacks and crashes
\* come between.
THEOREM SettlementTypeCorrect == Spec => []TypeOK
  BY InitTyped, NextTyped, PTL DEF Spec
-----------------------------------------------------------------------------
(***************************************************************************)
(* Payout ids and states are B4B's.                                        *)
(***************************************************************************)

\* StatusIsB4Bs, of a record and of any records, with any payments.
PayoutFits(r, q, b) ==
  /\ q.payout = 0 <=> q.status \in {Unset, Stopped}
  /\ q.payout > 0 => /\ q.payout \in DOMAIN b /\ b[q.payout].ref = r
                     /\ q.status <= b[q.payout].level

Fits(s, b) == \A r \in DOMAIN s : PayoutFits(r, s[r], b)

\* What is on its way to a record is a payment of that record, with a state
\* the payment has reached.
OnTheWay ==
  /\ \A g \in DOMAIN sub : sub[g].pay > 0 => b4b[sub[g].pay].ref = sub[g].rec
  /\ \A c \in calls : c[2] <= b4b[c[1]].level
  /\ \A h \in hooks : b4b[h[2]].ref = h[1] /\ h[3] <= b4b[h[2]].level

\* The state file says nothing else either.
StatusInv ==
  /\ Fits(records, b4b) /\ (saved \notin {Empty, Garbled} => Fits(saved, b4b))
  /\ OnTheWay

\* Payments are kept, and only go on.
GoesOn(b, c) ==
  /\ DOMAIN b \subseteq DOMAIN c
  /\ \A p \in DOMAIN b : c[p].ref = b[p].ref /\ b[p].level <= c[p].level

AreLevels(b) == \A p \in DOMAIN b : b[p].level \in Nat

LEMMA BankShape ==
  ASSUME BankOK
  PROVE  /\ DOMAIN b4b = 1..Len(b4b) /\ Len(b4b) \in Nat /\ AreLevels(b4b)
         /\ \A p \in DOMAIN b4b : b4b[p] \in [ref: DOMAIN made, level: 1..Levels]
<1>1. \A S : \A t \in Seq(S) : DOMAIN t = 1..Len(t) /\ Len(t) \in Nat /\ t \in [1..Len(t) -> S]
  OBVIOUS
<1>2. \A p \in DOMAIN b4b : b4b[p] \in [ref: DOMAIN made, level: 1..Levels]
  BY <1>1, ZenonT(40) DEF BankOK
<1>3. AreLevels(b4b)
  BY <1>2, SettlementAssumption DEF AreLevels
<1> QED
  BY <1>1, <1>2, <1>3 DEF BankOK

LEMMA FitsStays ==
  ASSUME NEW s, \A r \in DOMAIN s : s[r] \in Record, NEW b, NEW c, GoesOn(b, c), AreLevels(b), AreLevels(c),
         Fits(s, b)
  PROVE  Fits(s, c)
<1>1. ASSUME NEW r \in DOMAIN s PROVE PayoutFits(r, s[r], c)
  <2>1. PICK q \in Record : q = s[r]
    OBVIOUS
  <2>2. PayoutFits(r, q, b)
    BY <2>1 DEF Fits
  <2>3. ASSUME q.payout > 0
        PROVE  q.payout \in DOMAIN c /\ c[q.payout].ref = r /\ q.status <= c[q.payout].level
    <3>1. q.payout \in DOMAIN b /\ b[q.payout].ref = r /\ q.status <= b[q.payout].level
      BY <2>2, <2>3 DEF PayoutFits
    <3>2. q.status \in 1..Levels
      BY <2>2, <2>3 DEF Record, PayoutFits
    <3>3. b[q.payout].level \in Nat /\ c[q.payout].level \in Nat
      BY <3>1 DEF GoesOn, AreLevels
    <3> QED
      BY <3>1, <3>2, <3>3, SettlementAssumption DEF GoesOn
  <2> QED
    BY <2>1, <2>2, <2>3 DEF PayoutFits
<1> QED
  BY <1>1 DEF Fits

LEMMA LevelsTyped == TypeOK => AreLevels(b4b)
  BY TypeParts, BankShape

\* B4B takes a payment, or one of its payments goes on.
LEMMA BankStepGoesOn ==
  ASSUME TypeOK, TypeOK',
         (\E g \in Submitters : Take(g)) \/ (\E p \in DOMAIN b4b : Progress(p)) \/ UNCHANGED b4b
  PROVE  GoesOn(b4b, b4b') /\ AreLevels(b4b) /\ AreLevels(b4b')
<1>1. AreLevels(b4b) /\ DOMAIN b4b = 1..Len(b4b) /\ Len(b4b) \in Nat
  BY TypeParts, BankShape
<1>2. AreLevels(b4b')
  <2>1. AreLevels(b4b)'
    BY LevelsTyped, PTL
  <2> QED
    BY <2>1 DEF AreLevels
<1>3. ASSUME NEW g \in Submitters, Take(g) PROVE GoesOn(b4b, b4b')
  <2>1. PICK a : b4b' = Append(b4b, a)
    BY <1>3 DEF Take
  <2>2. DOMAIN b4b \subseteq DOMAIN b4b' /\ \A p \in DOMAIN b4b : b4b'[p] = b4b[p]
    <3>1. \A S : \A t \in Seq(S) : DOMAIN Append(t, a) = 1..(Len(t) + 1) /\ \A i \in 1..Len(t) : Append(t, a)[i] = t[i]
      OBVIOUS
    <3>2. DOMAIN b4b' = 1..(Len(b4b) + 1) /\ \A i \in 1..Len(b4b) : b4b'[i] = b4b[i]
      BY <2>1, <3>1, TypeParts DEF BankOK
    <3> QED
      BY <1>1, <3>2
  <2> QED
    BY <1>1, <2>2 DEF GoesOn, AreLevels
<1>4. ASSUME NEW p \in DOMAIN b4b, Progress(p) PROVE GoesOn(b4b, b4b')
  <2>1. PICK q \in [ref: DOMAIN made, level: 1..Levels] : q = b4b[p]
    BY TypeParts, BankShape
  <2>2. b4b' = [b4b EXCEPT ![p] = [q EXCEPT !.level = q.level + 1]]
    BY <1>4, <2>1 DEF Progress
  <2>3. DOMAIN b4b' = DOMAIN b4b /\ \A x \in DOMAIN b4b : x # p => b4b'[x] = b4b[x]
    BY <2>2
  <2>4. b4b'[p].ref = q.ref /\ q.level <= b4b'[p].level
    BY <2>2, SettlementAssumption
  <2> QED
    BY <1>1, <2>1, <2>3, <2>4 DEF GoesOn, AreLevels
<1>5. CASE UNCHANGED b4b
  BY <1>1, <1>5 DEF GoesOn, AreLevels
<1> QED
  BY <1>1, <1>2, <1>3, <1>4, <1>5

\* A step that changes no payout id or state.
LEMMA SubStaysB4Bs ==
  ASSUME TypeOK, OnTheWay, GoesOn(b4b, b4b'), AreLevels(b4b), AreLevels(b4b'),
         \A g \in DOMAIN sub' : sub'[g].pay > 0 => g \in DOMAIN sub /\ sub'[g] = sub[g],
         calls' \subseteq calls, hooks' \subseteq hooks
  PROVE  OnTheWay'
<1>1. \A g \in DOMAIN sub : sub[g].pay > 0 => sub[g].pay \in DOMAIN b4b
  BY TypeParts, BankShape DEF SubOK
<1>2. ASSUME NEW g \in DOMAIN sub', sub'[g].pay > 0 PROVE b4b'[sub'[g].pay].ref = sub'[g].rec
  BY <1>1, <1>2 DEF OnTheWay, GoesOn
<1>3. ASSUME NEW c \in calls' PROVE c[2] <= b4b'[c[1]].level
  <2>1. c[1] \in DOMAIN b4b /\ c[2] \in 1..Levels /\ c[2] <= b4b[c[1]].level
    BY TypeParts DEF BankOK, OnTheWay
  <2>2. b4b[c[1]].level \in Nat /\ b4b'[c[1]].level \in Nat /\ b4b[c[1]].level <= b4b'[c[1]].level
    BY <2>1 DEF GoesOn, AreLevels
  <2> QED
    BY <2>1, <2>2, SettlementAssumption
<1>4. ASSUME NEW h \in hooks' PROVE b4b'[h[2]].ref = h[1] /\ h[3] <= b4b'[h[2]].level
  <2>1. h[2] \in DOMAIN b4b /\ h[3] \in 1..Levels /\ b4b[h[2]].ref = h[1] /\ h[3] <= b4b[h[2]].level
    BY TypeParts DEF BankOK, OnTheWay
  <2>2. b4b[h[2]].level \in Nat /\ b4b'[h[2]].level \in Nat /\ b4b[h[2]].level <= b4b'[h[2]].level
    BY <2>1 DEF GoesOn, AreLevels
  <2> QED
    BY <2>1, <2>2, SettlementAssumption DEF GoesOn
<1> QED
  BY <1>2, <1>3, <1>4 DEF OnTheWay

\* A record changes, and fits.
LEMMA ChangeFits ==
  ASSUME TypeOK, TypeOK', Fits(records, b4b), UNCHANGED b4b, NEW r, Changes(r), PayoutFits(r, records'[r], b4b)
  PROVE  Fits(records', b4b') /\ Fits(saved', b4b')
  BY DEF Fits, Changes

\* Its payout is left as it was.
LEMMA TransitionFits ==
  ASSUME TypeOK, TypeOK', Fits(records, b4b), UNCHANGED b4b, NEW r, Changes(r),
         records'[r].payout = records[r].payout, records'[r].status = records[r].status
  PROVE  Fits(records', b4b') /\ Fits(saved', b4b')
<1>1. PayoutFits(r, records'[r], b4b)
  BY DEF Fits, PayoutFits, Changes
<1> QED
  BY <1>1, ChangeFits

\* The store is left alone while B4B goes on.
LEMMA StoreFits ==
  ASSUME TypeOK, TypeOK', StatusInv, GoesOn(b4b, b4b'), AreLevels(b4b), AreLevels(b4b'),
         records' = records \/ records' = <<>>, saved' \in {saved, Empty, Garbled}
  PROVE  Fits(records', b4b') /\ (saved' \notin {Empty, Garbled} => Fits(saved', b4b'))
<1>1. \A r \in DOMAIN records : records[r] \in Record
  BY TypeParts DEF StoreOK, IsStore
<1>2. saved \notin {Empty, Garbled} => \A r \in DOMAIN saved : saved[r] \in Record
  BY TypeParts DEF StoreOK, IsStore
<1>3. Fits(records, b4b')
  BY <1>1, FitsStays DEF StatusInv
<1>4. Fits(<<>>, b4b')
  BY DEF Fits
<1>5. saved \notin {Empty, Garbled} => Fits(saved, b4b')
  BY <1>2, FitsStays DEF StatusInv
<1> QED
  BY <1>3, <1>4, <1>5

LEMMA SubmissionFits ==
  ASSUME TypeOK, TypeOK', StatusInv, NEW g \in Submitters, Submission(g)
  PROVE  StatusInv'
<1>0. GoesOn(b4b, b4b') /\ AreLevels(b4b) /\ AreLevels(b4b')
  BY BankStepGoesOn DEF Submission, Stop, Answer, LoseAnswer, bank
<1>1. g \in DOMAIN sub /\ sub[g].rec \in DOMAIN records /\ sub[g].pay \in 0..Len(b4b)
  BY TypeParts DEF Submission, Stop, Take, Answer, LoseAnswer, SubOK
<1>2. DOMAIN b4b = 1..Len(b4b) /\ Len(b4b) \in Nat
  BY TypeParts, BankShape
<1>3. CASE Take(g)
  <2>1. Fits(records', b4b') /\ (saved' \notin {Empty, Garbled} => Fits(saved', b4b'))
    BY <1>0, <1>3, StoreFits DEF Take, store
  <2>2. PICK n \in Nat : n = Len(b4b) + 1
    BY <1>2
  <2>3. PICK a : a = [ref |-> sub[g].rec, level |-> 1]
    OBVIOUS
  <2>4. b4b' = Append(b4b, a) /\ calls' = calls \cup {<<n, 1>>} /\ sub' = [sub EXCEPT ![g].pay = n] /\ hooks' = hooks
    BY <1>3, <2>2, <2>3 DEF Take
  <2>5. DOMAIN b4b' = 1..n /\ b4b'[n] = a
    <3>1. \A S : \A t \in Seq(S) : DOMAIN Append(t, a) = 1..(Len(t) + 1) /\ Append(t, a)[Len(t) + 1] = a
      OBVIOUS
    <3> QED
      BY <2>2, <2>4, <3>1, TypeParts DEF BankOK
  <2>6. PICK q \in [rec: DOMAIN records, pay: 0..Len(b4b)] : q = sub[g]
    BY <1>1, TypeParts DEF SubOK
  <2>7. /\ DOMAIN sub' = DOMAIN sub /\ sub'[g].pay = n /\ sub'[g].rec = sub[g].rec
        /\ \A x \in DOMAIN sub : x # g => sub'[x] = sub[x]
    BY <1>1, <2>4, <2>6
  <2>8. ASSUME NEW x \in DOMAIN sub', sub'[x].pay > 0 PROVE b4b'[sub'[x].pay].ref = sub'[x].rec
    <3>1. CASE x = g
      BY <2>3, <2>5, <2>7, <3>1
    <3>2. CASE x # g
      <4>1. sub[x].pay \in DOMAIN b4b /\ b4b[sub[x].pay].ref = sub[x].rec
        BY <1>2, <2>7, <2>8, <3>2, TypeParts DEF SubOK, StatusInv, OnTheWay
      <4> QED
        BY <1>0, <2>7, <3>2, <4>1 DEF GoesOn
    <3> QED
      BY <3>1, <3>2
  <2>9. ASSUME NEW c \in calls' PROVE c[2] <= b4b'[c[1]].level
    <3>1. CASE c = <<n, 1>>
      BY <2>3, <2>5, <3>1
    <3>2. CASE c \in calls
      <4>1. c[1] \in DOMAIN b4b /\ c[2] \in 1..Levels /\ c[2] <= b4b[c[1]].level
        BY <3>2, TypeParts DEF BankOK, StatusInv, OnTheWay
      <4>2. b4b[c[1]].level \in Nat /\ b4b'[c[1]].level \in Nat /\ b4b[c[1]].level <= b4b'[c[1]].level
        BY <1>0, <4>1 DEF GoesOn, AreLevels
      <4> QED
        BY <4>1, <4>2, SettlementAssumption, SMTT(40)
    <3> QED
      BY <2>4, <3>1, <3>2
  <2>10. ASSUME NEW h \in hooks' PROVE b4b'[h[2]].ref = h[1] /\ h[3] <= b4b'[h[2]].level
    <3>1. h[2] \in DOMAIN b4b /\ h[3] \in 1..Levels /\ b4b[h[2]].ref = h[1] /\ h[3] <= b4b[h[2]].level
      BY <2>4, TypeParts DEF BankOK, StatusInv, OnTheWay
    <3>2. b4b[h[2]].level \in Nat /\ b4b'[h[2]].level \in Nat /\ b4b[h[2]].level <= b4b'[h[2]].level
      BY <1>0, <3>1 DEF GoesOn, AreLevels
    <3> QED
      BY <1>0, <3>1, <3>2, SettlementAssumption DEF GoesOn
  <2> QED
    BY <2>1, <2>8, <2>9, <2>10 DEF StatusInv, OnTheWay
<1>4. CASE Stop(g) \/ Answer(g) \/ LoseAnswer(g)
  <2> PICK r \in DOMAIN records : r = sub[g].rec
    BY <1>1
  <2>1. UNCHANGED <<b4b, calls, hooks>> /\ Leave(g)
    BY <1>4 DEF Stop, Answer, LoseAnswer, bank
  <2>2. Changes(r) /\ PayoutFits(r, records'[r], b4b)
    <3>1. CASE Stop(g) \/ LoseAnswer(g)
      <4>1. Changes(r) /\ records'[r].payout = 0 /\ records'[r].status = Stopped
        BY <3>1, SetPayoutShape, TypeParts, SettlementAssumption DEF Stop, LoseAnswer
      <4> QED
        BY <4>1 DEF PayoutFits
    <3>2. CASE Answer(g)
      <4>1. PICK p \in DOMAIN b4b : p = sub[g].pay /\ p > 0
        BY <1>1, <1>2, <3>2 DEF Answer
      <4>2. p \in 0..MaxPayments /\ 1 \in 1..Levels
        BY <1>2, <4>1, TypeParts, SettlementAssumption DEF BankOK
      <4>3. Changes(r) /\ records'[r].payout = p /\ records'[r].status = 1
        BY <3>2, <4>1, <4>2, SetPayoutShape, TypeParts DEF Answer
      <4>4. b4b[p].ref = r
        BY <1>1, <4>1 DEF StatusInv, OnTheWay
      <4>5. 1 <= b4b[p].level
        BY TypeParts, BankShape
      <4> QED
        BY <4>1, <4>3, <4>4, <4>5, SettlementAssumption DEF PayoutFits
    <3> QED
      BY <1>4, <3>1, <3>2
  <2>3. Fits(records', b4b') /\ Fits(saved', b4b')
    BY <2>1, <2>2, ChangeFits DEF StatusInv
  <2>4. OnTheWay'
    BY <1>0, <2>1, LeaveShape, SubStaysB4Bs DEF StatusInv
  <2> QED
    BY <2>3, <2>4 DEF StatusInv
<1> QED
  BY <1>3, <1>4 DEF Submission

LEMMA HookFits ==
  ASSUME TypeOK, TypeOK', StatusInv,
         NEW p \in DOMAIN b4b, NEW s \in 1..Levels, NEW r \in DOMAIN records, Hook(r, p, s)
  PROVE  StatusInv'
<1>0. GoesOn(b4b, b4b') /\ AreLevels(b4b) /\ AreLevels(b4b')
  BY BankStepGoesOn DEF Hook, bank
<1>1. UNCHANGED <<sub, b4b, calls>> /\ hooks' \subseteq hooks /\ b4b[p].ref = r /\ s <= b4b[p].level
  BY DEF Hook, bank, StatusInv, OnTheWay
<1>2. DOMAIN b4b = 1..Len(b4b) /\ Len(b4b) \in Nat /\ Len(b4b) <= MaxPayments
  BY TypeParts, BankShape DEF BankOK
<1>3. p \in 0..MaxPayments /\ p > 0
  BY <1>2, SettlementAssumption
<1>4. Changes(r) /\ records'[r].payout = p /\ records'[r].status = s
  BY <1>3, SetPayoutShape, TypeParts DEF Hook
<1>5. PayoutFits(r, records'[r], b4b)
  BY <1>1, <1>3, <1>4, SettlementAssumption DEF PayoutFits
<1>6. Fits(records', b4b') /\ Fits(saved', b4b')
  BY <1>1, <1>4, <1>5, ChangeFits DEF StatusInv
<1>7. OnTheWay'
  BY <1>0, <1>1, SubStaysB4Bs DEF StatusInv
<1> QED
  BY <1>6, <1>7 DEF StatusInv

\* A maker's or an operator's step on a record that exists.
LEMMA StageFits ==
  ASSUME TypeOK, TypeOK', StatusInv,
         \/ \E w \in Makers : Process(w) \/ SetReport(w) \/ Settle(w) \/ FailRecord(w)
         \/ \E g \in Operators, r \in DOMAIN records : RetryPayout(g, r) \/ OperatorSettles(g, r)
         \/ \E r \in DOMAIN records, t \in Transitions : Move(r, t[2])
  PROVE  StatusInv'
<1>1. UNCHANGED <<b4b, calls, hooks>>
  BY DEF Process, SetReport, Settle, FailRecord, RetryPayout, OperatorSettles, Move, bank
<1>2. GoesOn(b4b, b4b') /\ AreLevels(b4b) /\ AreLevels(b4b')
  BY <1>1, BankStepGoesOn
<1>3. PICK r : \/ UNCHANGED store
               \/ r \in DOMAIN records /\ \E e : Transition(r, e)
               \/ r \in DOMAIN records /\ records' = [records EXCEPT ![r].report = TRUE] /\ Save
  <2>1. ASSUME NEW w \in Makers, Process(w) \/ SetReport(w) \/ Settle(w) \/ FailRecord(w)
        PROVE  LET r == making[w].rec IN
               \/ UNCHANGED store
               \/ r \in DOMAIN records /\ \E e : Transition(r, e)
               \/ r \in DOMAIN records /\ records' = [records EXCEPT ![r].report = TRUE] /\ Save
    <3>1. making[w].rec \in DOMAIN records
      BY <2>1, TypeParts DEF Process, SetReport, Settle, FailRecord, Making, MakingOK
    <3> QED
      BY <2>1, <3>1 DEF Process, SetReport, Settle, FailRecord
  <2> QED
    BY <2>1 DEF RetryPayout, OperatorSettles, Move
<1>4. Fits(records', b4b') /\ (saved' \notin {Empty, Garbled} => Fits(saved', b4b'))
  <2>1. CASE UNCHANGED store
    BY <1>2, <2>1, StoreFits DEF store
  <2>2. CASE r \in DOMAIN records /\ \E e : Transition(r, e)
    BY <1>1, <2>2, TransitionShape, TransitionFits, TypeParts DEF StatusInv
  <2>3. CASE r \in DOMAIN records /\ records' = [records EXCEPT ![r].report = TRUE] /\ Save
    BY <1>1, <2>3, SetReportShape, TransitionFits, TypeParts DEF StatusInv
  <2> QED
    BY <1>3, <2>1, <2>2, <2>3
<1>5. sub' = sub \/ \E g, x : Submit(g, x)
  BY DEF Process, SetReport, Settle, FailRecord, RetryPayout, OperatorSettles, Move
<1>6. \A g \in DOMAIN sub' : sub'[g].pay > 0 => g \in DOMAIN sub /\ sub'[g] = sub[g]
  <2>1. ASSUME NEW g, NEW x, Submit(g, x)
        PROVE  \A y \in DOMAIN sub' : sub'[y].pay > 0 => y \in DOMAIN sub /\ sub'[y] = sub[y]
    <3>0. PICK a : a = [rec |-> x, pay |-> 0]
      OBVIOUS
    <3>1. /\ DOMAIN sub' = DOMAIN sub \cup {g} /\ sub'[g] = a
          /\ \A y \in DOMAIN sub : y # g => sub'[y] = sub[y]
      BY <2>1, <3>0, SubmitShape
    <3>2. a.pay = 0
      BY <3>0
    <3> QED
      BY <3>1, <3>2
  <2> QED
    BY <1>5, <2>1
<1>7. OnTheWay'
  BY <1>1, <1>2, <1>6, SubStaysB4Bs DEF StatusInv
<1> QED
  BY <1>4, <1>7 DEF StatusInv

LEMMA CreateFits == ASSUME TypeOK, TypeOK', StatusInv, NEW w \in Makers, Create(w) PROVE StatusInv'
<1>1. UNCHANGED <<sub, b4b, calls, hooks>>
  BY DEF Create, bank
<1>2. GoesOn(b4b, b4b') /\ AreLevels(b4b) /\ AreLevels(b4b')
  BY <1>1, BankStepGoesOn
<1>3. PICK r : /\ r \notin DOMAIN records /\ DOMAIN records' = DOMAIN records \cup {r} /\ saved' = records'
               /\ records'[r] = [stage |-> "Scheduled", report |-> FALSE, payout |-> 0, status |-> Unset]
               /\ \A x \in DOMAIN records : records'[x] = records[x]
  BY CreateShape, TypeParts
<1>4. PayoutFits(r, records'[r], b4b)
  BY <1>3 DEF PayoutFits
<1>5. Fits(records', b4b')
  BY <1>1, <1>3, <1>4 DEF StatusInv, Fits
<1>6. OnTheWay'
  BY <1>1, <1>2, SubStaysB4Bs DEF StatusInv
<1> QED
  BY <1>3, <1>5, <1>6 DEF StatusInv

\* A step of B4B, of the puller on a file, of a maker between records, of the
\* process: no record gets another payout.
LEMMA OthersFit ==
  ASSUME TypeOK, TypeOK', StatusInv,
         \/ \E f \in Files : Pull(f)
         \/ \E w \in Makers : Done(w)
         \/ StartBatch \/ Crash \/ UNCHANGED vars
         \/ \E p \in DOMAIN b4b : Progress(p) \/ \E s \in 1..Levels : Receive(p, s) \/ GiveUp(p, s)
  PROVE  StatusInv'
<1>1. (\E p \in DOMAIN b4b : Progress(p)) \/ UNCHANGED <<b4b, calls>> \/ (UNCHANGED b4b /\ calls' \subseteq calls)
  BY DEF Pull, Claim, Download, Archive, Done, StartBatch, Crash, Receive, GiveUp, bank, vars
<1>2. GoesOn(b4b, b4b') /\ AreLevels(b4b) /\ AreLevels(b4b')
  BY <1>1, BankStepGoesOn
<1>3. /\ records' = records \/ records' = <<>>
      /\ saved' \in {saved, Empty, Garbled} /\ (sub' = sub \/ sub' = <<>>)
  BY DEF Pull, Claim, Download, Archive, Done, StartBatch, Crash, Progress, Receive, GiveUp, store, vars
<1>4. Fits(records', b4b') /\ (saved' \notin {Empty, Garbled} => Fits(saved', b4b'))
  BY <1>2, <1>3, StoreFits
<1>5. \A g \in DOMAIN sub' : sub'[g].pay > 0 => g \in DOMAIN sub /\ sub'[g] = sub[g]
  BY <1>3
<1>6. OnTheWay'
  <2>1. CASE hooks' \subseteq hooks /\ calls' \subseteq calls
    BY <1>2, <1>5, <2>1, SubStaysB4Bs DEF StatusInv
  <2>2. ASSUME NEW p \in DOMAIN b4b, Progress(p) PROVE OnTheWay'
    <3>1. UNCHANGED <<sub, hooks>> /\ calls' = calls \cup {<<p, b4b[p].level + 1>>}
      BY <2>2 DEF Progress
    <3>2. b4b'[p].level = b4b[p].level + 1
      <4>1. PICK q \in [ref: DOMAIN made, level: 1..Levels] : q = b4b[p]
        BY TypeParts, BankShape
      <4> QED
        BY <2>2, <4>1 DEF Progress
    <3>3. \A g \in DOMAIN sub' : sub'[g].pay > 0 => b4b'[sub'[g].pay].ref = sub'[g].rec
      BY <1>2, <3>1, TypeParts, BankShape DEF StatusInv, OnTheWay, SubOK, GoesOn
    <3>4. ASSUME NEW c \in calls' PROVE c[2] <= b4b'[c[1]].level
      <4>1. CASE c = <<p, b4b[p].level + 1>>
        BY <1>2, <3>2, <4>1 DEF AreLevels
      <4>2. CASE c \in calls
        <5>1. c[1] \in DOMAIN b4b /\ c[2] \in 1..Levels /\ c[2] <= b4b[c[1]].level
          BY <4>2, TypeParts DEF BankOK, StatusInv, OnTheWay
        <5>2. b4b[c[1]].level \in Nat /\ b4b'[c[1]].level \in Nat /\ b4b[c[1]].level <= b4b'[c[1]].level
          BY <1>2, <5>1 DEF GoesOn, AreLevels
        <5> QED
          BY <5>1, <5>2, SettlementAssumption
      <4> QED
        BY <3>1, <4>1, <4>2
    <3>5. ASSUME NEW h \in hooks' PROVE b4b'[h[2]].ref = h[1] /\ h[3] <= b4b'[h[2]].level
      <4>1. h[2] \in DOMAIN b4b /\ h[3] \in 1..Levels /\ b4b[h[2]].ref = h[1] /\ h[3] <= b4b[h[2]].level
        BY <3>1, TypeParts DEF BankOK, StatusInv, OnTheWay
      <4>2. b4b[h[2]].level \in Nat /\ b4b'[h[2]].level \in Nat /\ b4b[h[2]].level <= b4b'[h[2]].level
        BY <1>2, <4>1 DEF GoesOn, AreLevels
      <4> QED
        BY <1>2, <4>1, <4>2, SettlementAssumption DEF GoesOn
    <3> QED
      BY <3>3, <3>4, <3>5 DEF OnTheWay
  <2>3. ASSUME NEW p \in DOMAIN b4b, NEW s \in 1..Levels, Receive(p, s) PROVE OnTheWay'
    <3>1. UNCHANGED <<sub, b4b, records>> /\ calls' \subseteq calls /\ <<p, s>> \in calls
      BY <2>3 DEF Receive, store
    <3>2. hooks' = hooks \cup {<<r, p, s>> : r \in {x \in DOMAIN records : records[x].payout = p}}
      BY <2>3 DEF Receive
    <3>3. ASSUME NEW h \in hooks' PROVE b4b'[h[2]].ref = h[1] /\ h[3] <= b4b'[h[2]].level
      <4>1. CASE h \in hooks
        BY <3>1, <4>1 DEF StatusInv, OnTheWay
      <4>2. ASSUME NEW r \in DOMAIN records, records[r].payout = p, h = <<r, p, s>>
            PROVE  b4b'[h[2]].ref = h[1] /\ h[3] <= b4b'[h[2]].level
        <5>1. p > 0
          BY TypeParts, BankShape
        <5> QED
          BY <3>1, <4>2, <5>1 DEF StatusInv, OnTheWay, Fits, PayoutFits
      <4> QED
        BY <3>2, <4>1, <4>2
    <3> QED
      BY <3>1, <3>3 DEF StatusInv, OnTheWay
  <2>4. \/ hooks' \subseteq hooks /\ calls' \subseteq calls
        \/ \E p \in DOMAIN b4b : Progress(p)
        \/ \E p \in DOMAIN b4b, s \in 1..Levels : Receive(p, s)
    BY DEF Pull, Claim, Download, Archive, Done, StartBatch, Crash, GiveUp, bank, vars
  <2> QED
    BY <2>1, <2>2, <2>3, <2>4
<1> QED
  BY <1>4, <1>6 DEF StatusInv

LEMMA RestartFits == ASSUME TypeOK, TypeOK', StatusInv, Restart PROVE StatusInv'
<1>1. UNCHANGED <<sub, b4b, calls, hooks, saved>> /\ records' = (IF saved = Empty THEN <<>> ELSE saved) /\ saved # Garbled
  BY DEF Restart, bank
<1>2. Fits(<<>>, b4b)
  BY DEF Fits
<1> QED
  BY <1>1, <1>2 DEF StatusInv, OnTheWay

LEMMA NextFits == TypeOK /\ TypeOK' /\ StatusInv /\ [Next]_vars => StatusInv'
<1> SUFFICES ASSUME TypeOK, TypeOK', StatusInv, [Next]_vars PROVE StatusInv'
  OBVIOUS
<1>1. CASE \E w \in Makers : Make(w)
  <2>1. ASSUME NEW w \in Makers, Make(w) PROVE StatusInv'
    <3>1. CASE Process(w) \/ SetReport(w) \/ Settle(w) \/ FailRecord(w)
      BY <3>1, StageFits
    <3>2. CASE Create(w)
      BY <3>2, CreateFits
    <3>3. CASE Done(w)
      BY <3>3, OthersFit
    <3> QED
      BY <2>1, <3>1, <3>2, <3>3 DEF Make
  <2> QED
    BY <1>1, <2>1
<1>2. CASE \E g \in Submitters : Submission(g)
  BY <1>2, SubmissionFits
<1>3. CASE \/ \E g \in Operators, r \in DOMAIN records : RetryPayout(g, r) \/ OperatorSettles(g, r)
           \/ \E r \in DOMAIN records, t \in Transitions : Move(r, t[2])
  BY <1>3, StageFits
<1>4. CASE \E p \in DOMAIN b4b, s \in 1..Levels, r \in DOMAIN records : Hook(r, p, s)
  BY <1>4, HookFits
<1>5. CASE Restart
  BY <1>5, RestartFits
<1>6. CASE \/ \E f \in Files : Pull(f)
           \/ StartBatch \/ Crash \/ UNCHANGED vars
           \/ \E p \in DOMAIN b4b : Progress(p) \/ \E s \in 1..Levels : Receive(p, s) \/ GiveUp(p, s)
  BY <1>6, OthersFit
<1> QED
  BY <1>1, <1>2, <1>3, <1>4, <1>5, <1>6 DEF Next

LEMMA FitsStatus == StatusInv => StatusIsB4Bs
  BY DEF StatusInv, StatusIsB4Bs, Fits, PayoutFits

\* Whatever order answers, retries and webhooks come in, and over restarts, a
\* record's payout is a payment of that record, in a state it has reached.
THEOREM SettlementStatusIsB4Bs == Spec => []StatusIsB4Bs
<1>1. Init => StatusInv
  BY DEF Init, StatusInv, OnTheWay, Fits
<1> QED
  BY <1>1, InitTyped, NextTyped, NextFits, FitsStatus, PTL DEF Spec
-----------------------------------------------------------------------------
(***************************************************************************)
(* No record waits for a payout that nobody is submitting.                 *)
(***************************************************************************)
NeverDown == crashes = 0 => up

\* Every record that waits for a payout did so before, and no submission of
\* one ends.
Waits(r) == r \in DOMAIN records /\ owed[r] > 0 /\ records[r].status = Unset

LEMMA WaitsFor ==
  ASSUME NoneStranded, NeverDown, crashes' = crashes, up' = up \/ up',
         \A r : Waits(r)' => On(r)' # {} \/ (Waits(r) /\ (On(r) # {} => On(r)' # {}))
  PROVE  NoneStranded' /\ NeverDown'
  BY DEF NoneStranded, NeverDown, Waits

\* Submissions that are not of r go on.
LEMMA OnStays ==
  ASSUME NEW r, \A g \in DOMAIN sub : sub[g].rec = r => g \in DOMAIN sub' /\ sub'[g].rec = sub[g].rec
  PROVE  On(r) # {} => On(r)' # {}
  BY DEF On

LEMMA OwedDomain ==
  ASSUME TypeOK
  PROVE  DOMAIN records \subseteq DOMAIN owed /\ owed = [x \in DOMAIN owed |-> owed[x]]
  BY TypeParts DEF HistoryOK, StoreOK, IsStore

LEMMA SubmissionWaits ==
  ASSUME TypeOK, TypeOK', NoneStranded, NeverDown, NEW g \in Submitters, Submission(g)
  PROVE  NoneStranded' /\ NeverDown'
<1>1. g \in DOMAIN sub /\ sub[g].rec \in DOMAIN records /\ sub[g].pay \in 0..Len(b4b)
  BY TypeParts DEF Submission, Stop, Take, Answer, LoseAnswer, SubOK
<1>2. UNCHANGED <<up, crashes>>
  BY DEF Submission, Stop, Take, Answer, LoseAnswer
<1>3. CASE Take(g)
  <2>1. UNCHANGED <<records, owed>> /\ sub' = [sub EXCEPT ![g].pay = Len(b4b) + 1]
    BY <1>3 DEF Take, store
  <2>2. PICK q \in [rec: DOMAIN records, pay: 0..Len(b4b)] : q = sub[g]
    BY <1>1, TypeParts DEF SubOK
  <2>3. \A x \in DOMAIN sub : x \in DOMAIN sub' /\ sub'[x].rec = sub[x].rec
    BY <2>1, <2>2
  <2>4. \A r : Waits(r)' => Waits(r) /\ (On(r) # {} => On(r)' # {})
    BY <2>1, <2>3, OnStays DEF Waits
  <2> QED
    BY <1>2, <2>4, WaitsFor
<1>4. CASE Stop(g) \/ Answer(g) \/ LoseAnswer(g)
  <2> PICK r \in DOMAIN records : r = sub[g].rec
    BY <1>1
  <2>1. Changes(r) /\ records'[r].status # Unset
    <3>1. CASE Stop(g) \/ LoseAnswer(g)
      BY <3>1, SetPayoutShape, TypeParts, SettlementAssumption DEF Stop, LoseAnswer
    <3>2. CASE Answer(g)
      <4>1. sub[g].pay \in 0..MaxPayments /\ 1 \in 1..Levels /\ 1 # Unset
        <5>1. Len(b4b) \in Nat /\ Len(b4b) <= MaxPayments
          BY TypeParts DEF BankOK
        <5> QED
          BY <1>1, <5>1, SettlementAssumption
      <4> QED
        BY <3>2, <4>1, SetPayoutShape, TypeParts DEF Answer
    <3> QED
      BY <1>4, <3>1, <3>2
  <2>2. \A x \in DOMAIN records : x # r => owed'[x] = owed[x]
    <3>1. owed' = owed \/ owed' = [owed EXCEPT ![r] = @ + 1]
      BY <1>4 DEF Stop, Answer, LoseAnswer
    <3> QED
      BY <3>1, OwedDomain
  <2>3. /\ DOMAIN sub' = DOMAIN sub \ {g}
        /\ \A x \in DOMAIN sub' : sub'[x] = sub[x]
    BY <1>4, LeaveShape DEF Stop, Answer, LoseAnswer
  <2>4. ASSUME NEW x, Waits(x)' PROVE Waits(x) /\ (On(x) # {} => On(x)' # {})
    <3>1. x # r
      BY <2>1, <2>4 DEF Waits
    <3>2. Waits(x)
      BY <2>1, <2>2, <2>4, <3>1 DEF Waits, Changes
    <3> QED
      BY <2>3, <3>1, <3>2, OnStays
  <2> QED
    BY <1>2, <2>4, WaitsFor
<1> QED
  BY <1>3, <1>4 DEF Submission

\* Submission g of r begins, as a retry of a payout that stopped, or as one
\* that is owed.
Begins(g, r) ==
  /\ Submit(g, r) /\ g \in Submitters \ DOMAIN sub
  /\ \/ owed' = owed /\ On(r) = {} /\ records[r].status = Stopped
     \/ owed' = [owed EXCEPT ![r] = @ + 1]

StageStep ==
  \/ \E w \in Makers : Process(w) \/ SetReport(w) \/ Settle(w) \/ FailRecord(w)
  \/ \E g \in Operators, r \in DOMAIN records : RetryPayout(g, r) \/ OperatorSettles(g, r)
  \/ \E r \in DOMAIN records, t \in Transitions : Move(r, t[2])

\* A record changes stage; if it is to be paid, it is submitted at once.
LEMMA StageShape ==
  ASSUME TypeOK, StageStep
  PROVE  /\ UNCHANGED <<up, crashes, made, b4b>> /\ up
         /\ DOMAIN records' = DOMAIN records
         /\ \A x \in DOMAIN records : records'[x].status = records[x].status
         /\ UNCHANGED <<sub, owed>> \/ \E g, r : r \in DOMAIN records /\ Begins(g, r)
<1> DEFINE Stored(r) == \/ UNCHANGED store
                        \/ r \in DOMAIN records /\ \E e : Transition(r, e)
                        \/ r \in DOMAIN records /\ records' = [records EXCEPT ![r].report = TRUE] /\ Save
           Submitted(r) == UNCHANGED <<sub, owed>> \/ (r \in DOMAIN records /\ \E g : Begins(g, r))
<1>1. UNCHANGED <<up, crashes, made, b4b>> /\ up
  <2>1. UNCHANGED <<up, crashes, made, b4b>>
    BY DEF StageStep, Process, SetReport, Settle, FailRecord, RetryPayout, OperatorSettles, Move, bank
  <2>2. \A w \in Makers : ~up => making[w] = IdleMaker
    BY TypeParts DEF DownOK
  <2>3. up
    BY <2>2 DEF StageStep, Process, SetReport, Settle, FailRecord, RetryPayout, OperatorSettles, Move, Making
  <2> QED BY <2>1, <2>3
<1>2. \E r : Stored(r) /\ Submitted(r)
  <2>1. ASSUME NEW w \in Makers, Process(w) \/ SetReport(w) \/ Settle(w) \/ FailRecord(w)
        PROVE  Stored(making[w].rec) /\ Submitted(making[w].rec)
    <3>1. making[w].rec \in DOMAIN records
      BY <2>1, TypeParts DEF Process, SetReport, Settle, FailRecord, Making, MakingOK
    <3>2. CASE Process(w) \/ SetReport(w) \/ FailRecord(w)
      BY <3>1, <3>2 DEF Process, SetReport, FailRecord
    <3>3. CASE Settle(w)
      <4>1. w = Puller => Puller \in Submitters \ DOMAIN sub
        BY <3>3, OwnersApart, TypeParts DEF Settle, Making, PullerOK
      <4> QED
        BY <3>1, <3>3, <4>1 DEF Settle, Begins
    <3> QED
      BY <2>1, <3>2, <3>3
  <2>2. ASSUME NEW r \in DOMAIN records, NEW t \in Transitions, Move(r, t[2])
        PROVE  Stored(r) /\ Submitted(r)
    BY <2>2 DEF Move
  <2>3. ASSUME NEW r \in DOMAIN records, NEW g \in Operators, RetryPayout(g, r) \/ OperatorSettles(g, r)
        PROVE  Stored(r) /\ Submitted(r)
    BY <2>3 DEF RetryPayout, OperatorSettles, Begins, Submitters
  <2> QED
    BY <2>1, <2>2, <2>3 DEF StageStep
<1>3. PICK r : Stored(r) /\ Submitted(r)
  BY <1>2
<1>4. /\ DOMAIN records' = DOMAIN records
      /\ \A x \in DOMAIN records : records'[x].status = records[x].status
  <2>1. CASE UNCHANGED store
    BY <2>1 DEF store
  <2>2. CASE r \in DOMAIN records /\ \E e : Transition(r, e)
    BY <2>2, TransitionShape, TypeParts DEF Changes
  <2>3. CASE r \in DOMAIN records /\ records' = [records EXCEPT ![r].report = TRUE] /\ Save
    BY <2>3, SetReportShape, TypeParts DEF Changes
  <2> QED
    BY <1>3, <2>1, <2>2, <2>3
<1> QED BY <1>1, <1>3, <1>4

LEMMA StageWaits == ASSUME TypeOK, TypeOK', NoneStranded, NeverDown, StageStep PROVE NoneStranded' /\ NeverDown'
<1>1. UNCHANGED <<up, crashes>>
  BY StageShape
<1>3. /\ DOMAIN records' = DOMAIN records
      /\ \A x \in DOMAIN records : records'[x].status = records[x].status
  BY StageShape
<1>4. CASE UNCHANGED <<sub, owed>>
  <2>1. \A x : Waits(x)' => Waits(x) /\ (On(x) # {} => On(x)' # {})
    BY <1>3, <1>4 DEF Waits, On
  <2> QED
    BY <1>1, <2>1, WaitsFor
<1>5. ASSUME NEW g, NEW r \in DOMAIN records, Begins(g, r)
      PROVE  NoneStranded' /\ NeverDown'
  <2>1. PICK a : a = [rec |-> r, pay |-> 0]
    OBVIOUS
  <2>2. /\ DOMAIN sub' = DOMAIN sub \cup {g} /\ sub'[g] = a
        /\ \A y \in DOMAIN sub : sub'[y] = sub[y]
    BY <1>5, <2>1, SubmitShape DEF Begins
  <2>3. On(r)' # {}
    BY <2>1, <2>2 DEF On
  <2>4. \A x \in DOMAIN records : x # r => owed'[x] = owed[x]
    BY <1>5, OwedDomain DEF Begins
  <2>5. ASSUME NEW x, Waits(x)' PROVE On(x)' # {} \/ (Waits(x) /\ (On(x) # {} => On(x)' # {}))
    <3>1. CASE x = r
      BY <2>3, <3>1
    <3>2. CASE x # r
      <4>1. Waits(x)
        BY <1>3, <2>4, <2>5, <3>2 DEF Waits
      <4>2. On(x) # {} => On(x)' # {}
        BY <2>2, OnStays
      <4> QED
        BY <4>1, <4>2
    <3> QED
      BY <3>1, <3>2
  <2> QED
    BY <1>1, <2>5, WaitsFor
<1> QED
  BY StageShape, <1>4, <1>5

LEMMA CreateWaits ==
  ASSUME TypeOK, TypeOK', NoneStranded, NeverDown, NEW w \in Makers, Create(w)
  PROVE  NoneStranded' /\ NeverDown'
<1>1. UNCHANGED <<up, crashes, sub>>
  BY DEF Create
<1>2. PICK r : /\ r = Len(made) + 1 /\ r \notin DOMAIN records /\ DOMAIN records' = DOMAIN records \cup {r}
               /\ \A x \in DOMAIN records : records'[x] = records[x]
               /\ owed' = Append(owed, 0)
  BY CreateShape, TypeParts
<1>3. r = Len(owed) + 1 /\ DOMAIN records \subseteq 1..Len(owed)
  BY <1>2, TypeParts DEF HistoryOK, StoreOK, IsStore
<1>4. owed'[r] = 0 /\ \A x \in DOMAIN records : owed'[x] = owed[x]
  <2>1. \A S : \A t \in Seq(S) : Append(t, 0)[Len(t) + 1] = 0 /\ \A i \in 1..Len(t) : Append(t, 0)[i] = t[i]
    OBVIOUS
  <2> QED
    BY <1>2, <1>3, <2>1, TypeParts DEF HistoryOK
<1>5. ASSUME NEW x, Waits(x)' PROVE Waits(x) /\ (On(x) # {} => On(x)' # {})
  <2>1. x # r
    BY <1>4, <1>5 DEF Waits
  <2>2. Waits(x)
    BY <1>2, <1>4, <1>5, <2>1 DEF Waits
  <2>3. On(x)' = On(x)
    BY <1>1 DEF On
  <2> QED
    BY <2>2, <2>3
<1> QED
  BY <1>1, <1>5, WaitsFor

LEMMA HookWaits ==
  ASSUME TypeOK, TypeOK', NoneStranded, NeverDown,
         NEW p \in DOMAIN b4b, NEW s \in 1..Levels, NEW r \in DOMAIN records, Hook(r, p, s)
  PROVE  NoneStranded' /\ NeverDown'
<1>1. UNCHANGED <<up, crashes, sub, owed>>
  BY DEF Hook
<1>2. DOMAIN b4b = 1..Len(b4b) /\ Len(b4b) \in Nat /\ Len(b4b) <= MaxPayments
  BY TypeParts, BankShape DEF BankOK
<1>3. p \in 0..MaxPayments
  BY <1>2, SettlementAssumption
<1>4. Changes(r) /\ records'[r].status = s
  BY <1>3, SetPayoutShape, TypeParts DEF Hook
<1>5. s # Unset
  BY SettlementAssumption
<1>6. \A x : Waits(x)' => Waits(x) /\ (On(x) # {} => On(x)' # {})
  BY <1>1, <1>4, <1>5 DEF Waits, On, Changes
<1> QED
  BY <1>1, <1>6, WaitsFor

LEMMA OthersWait ==
  ASSUME TypeOK, TypeOK', NoneStranded, NeverDown,
         \/ \E f \in Files : Pull(f)
         \/ \E w \in Makers : Done(w)
         \/ StartBatch \/ UNCHANGED vars
         \/ \E p \in DOMAIN b4b : Progress(p) \/ \E s \in 1..Levels : Receive(p, s) \/ GiveUp(p, s)
  PROVE  NoneStranded' /\ NeverDown'
<1>1. UNCHANGED <<up, crashes, sub, owed, records>>
  BY DEF Pull, Claim, Download, Archive, Done, StartBatch, Progress, Receive, GiveUp, store, vars
<1>2. \A x : Waits(x)' => Waits(x) /\ (On(x) # {} => On(x)' # {})
  BY <1>1 DEF Waits, On
<1> QED
  BY <1>1, <1>2, WaitsFor

LEMMA NextWaits == TypeOK /\ TypeOK' /\ NoneStranded /\ NeverDown /\ [Next]_vars => NoneStranded' /\ NeverDown'
<1> SUFFICES ASSUME TypeOK, TypeOK', NoneStranded, NeverDown, [Next]_vars PROVE NoneStranded' /\ NeverDown'
  OBVIOUS
<1>1. CASE \E w \in Makers : Make(w)
  <2>1. ASSUME NEW w \in Makers, Make(w) PROVE NoneStranded' /\ NeverDown'
    <3>1. CASE Process(w) \/ SetReport(w) \/ Settle(w) \/ FailRecord(w)
      BY <2>1, <3>1, StageWaits DEF StageStep
    <3>2. CASE Create(w)
      BY <3>2, CreateWaits
    <3>3. CASE Done(w)
      BY <3>3, OthersWait
    <3> QED
      BY <2>1, <3>1, <3>2, <3>3 DEF Make
  <2> QED
    BY <1>1, <2>1
<1>2. CASE \E g \in Submitters : Submission(g)
  BY <1>2, SubmissionWaits
<1>3. CASE \/ \E g \in Operators, r \in DOMAIN records : RetryPayout(g, r) \/ OperatorSettles(g, r)
           \/ \E r \in DOMAIN records, t \in Transitions : Move(r, t[2])
  BY <1>3, StageWaits DEF StageStep
<1>4. CASE \E p \in DOMAIN b4b, s \in 1..Levels, r \in DOMAIN records : Hook(r, p, s)
  BY <1>4, HookWaits
<1>5. CASE Crash \/ Restart
  <2>1. crashes \in Nat /\ (crashes' = crashes + 1 \/ (crashes' = crashes /\ ~up))
    BY <1>5, TypeParts DEF Crash, Restart, HistoryOK
  <2>2. crashes' # 0
    BY <2>1 DEF NeverDown
  <2> QED
    BY <2>2 DEF NoneStranded, NeverDown
<1>6. CASE \/ \E f \in Files : Pull(f)
           \/ StartBatch \/ UNCHANGED vars
           \/ \E p \in DOMAIN b4b : Progress(p) \/ \E s \in 1..Levels : Receive(p, s) \/ GiveUp(p, s)
  BY <1>6, OthersWait
<1> QED
  BY <1>1, <1>2, <1>3, <1>4, <1>5, <1>6 DEF Next

\* While the process lives, every record settled to be paid is being submitted
\* or has an outcome, whoever settled it and whatever came of retries.
THEOREM SettlementNoneStranded == Spec => []NoneStranded
<1>1. Init => NoneStranded /\ NeverDown
  BY DEF Init, NoneStranded, NeverDown
<1> QED
  BY <1>1, InitTyped, NextTyped, NextWaits, PTL DEF Spec
-----------------------------------------------------------------------------
(***************************************************************************)
(* A file is processed once.                                               *)
(***************************************************************************)

\* The puller is making records of f.
FileAt(f) == making[Puller].src = f

\* A file the puller has come to is archived or excused, and one that is
\* archived is not claimed: what the puller is still to make of a file is not
\* made.
FilesOnce ==
  /\ OncePerFile
  /\ making[Ledger].src = Ledger
  /\ up => archive \subseteq seen
  /\ fetching \cup fetched \subseteq seen \ archive
  /\ \A f \in Files :
       /\ FileAt(f) => Slot[f] = "morning"
       /\ FileAt(f) \/ (\E r \in DOMAIN made : made[r].src = f) => f \in archive \cup unarchived
       /\ FileAt(f) /\ f \notin unarchived =>
            \A r \in DOMAIN made : made[r].src = f => made[r].mid \notin making[Puller].mids

\* A step that makes no record and leaves the files, and what is to be made of
\* them, or forgets it.
LEMMA FilesLeft ==
  ASSUME FilesOnce, UNCHANGED <<made, archive, unarchived>>, up' => archive \subseteq seen',
         fetching' \cup fetched' \subseteq seen' \ archive,
         making'[Ledger].src = Ledger,
         \/ making'[Puller].src = making[Puller].src /\ making'[Puller].mids = making[Puller].mids
         \/ making'[Puller].src = Ledger
  PROVE  FilesOnce'
<1>1. OncePerFile'
  BY DEF FilesOnce, OncePerFile
<1>2. ASSUME NEW f \in Files
      PROVE  /\ FileAt(f)' => Slot[f] = "morning"
             /\ FileAt(f)' \/ (\E r \in DOMAIN made : made[r].src = f) => f \in archive \cup unarchived
             /\ FileAt(f)' /\ f \notin unarchived =>
                  \A r \in DOMAIN made : made[r].src = f => made[r].mid \notin making'[Puller].mids
  <2>1. FileAt(f)' => FileAt(f) /\ making'[Puller].mids = making[Puller].mids
    BY SettlementAssumption DEF FileAt
  <2> QED BY <2>1 DEF FilesOnce
<1> QED BY <1>1, <1>2 DEF FilesOnce

LEMMA PullOnce == ASSUME TypeOK, FilesOnce, NEW f \in Files, Pull(f) PROVE FilesOnce'
<1>0. UNCHANGED <<made, up>>
  BY DEF Pull, Claim, Download, Archive
<1>1. CASE Claim(f)
  <2>1. up /\ f \notin seen /\ seen' = seen \cup {f} /\ fetching' = {f} /\ fetched' = {}
        /\ UNCHANGED <<archive, unarchived, making>>
    BY <1>1 DEF Claim, IdlePuller, excuses
  <2> QED BY <1>0, <2>1, FilesLeft DEF FilesOnce
<1>2. CASE Download(f)
  <2>1. f \in fetching /\ fetching' = {} /\ fetched' \subseteq fetched \cup {f}
        /\ UNCHANGED <<archive, unarchived, making, seen>>
    BY <1>2 DEF Download
  <2> QED BY <1>0, <2>1, FilesLeft DEF FilesOnce
<1>3. CASE Archive(f)
  <2>1. /\ f \in fetched /\ fetched' = {} /\ seen' = seen /\ fetching' = fetching
        /\ \/ archive' = archive \cup {f} /\ unarchived' = unarchived
           \/ unarchived' = unarchived \cup {f} /\ archive' = archive
    BY <1>3 DEF Archive
  <2>2. f \in seen \ archive /\ f \notin fetching /\ fetching = {} /\ making[Puller] = IdleMaker
    BY <2>1, TypeParts DEF FilesOnce, PullerOK
  <2>3. \/ making' = making
        \/ Slot[f] = "morning"
           /\ making' = [making EXCEPT ![Puller] = [src |-> f, mids |-> Carries[f], rec |-> 0, step |-> "create"]]
    BY <1>3 DEF Archive
  <2>4. making'[Ledger].src = Ledger
    BY <2>3, TypeParts, SettlementAssumption DEF MakingOK, Makers, FilesOnce
  <2>5. ASSUME NEW g \in Files, FileAt(g)' PROVE g = f /\ Slot[f] = "morning"
    BY <2>2, <2>3, <2>5, TypeParts, SettlementAssumption DEF FileAt, MakingOK, Makers, IdleMaker
  <2>6. f \notin unarchived' => \A r \in DOMAIN made : made[r].src # f
    BY <2>1, <2>2 DEF FilesOnce
  <2>7. OncePerFile'
    <3>1. unarchived \subseteq unarchived'
      BY <2>1
    <3> QED BY <1>0, <3>1 DEF FilesOnce, OncePerFile
  <2>8. f \in archive' \cup unarchived' /\ archive \cup unarchived \subseteq archive' \cup unarchived'
    BY <2>1
  <2>9. (up' => archive' \subseteq seen') /\ fetching' \cup fetched' \subseteq seen' \ archive'
    BY <1>0, <2>1, <2>2 DEF FilesOnce
  <2>10. \A g \in Files :
           FileAt(g)' \/ (\E r \in DOMAIN made : made[r].src = g) => g \in archive' \cup unarchived'
    BY <2>5, <2>8 DEF FilesOnce
  <2>11. \A g \in Files :
           FileAt(g)' /\ g \notin unarchived' => \A r \in DOMAIN made : made[r].src # g
    BY <2>5, <2>6
  <2> QED BY <1>0, <2>4, <2>5, <2>7, <2>9, <2>10, <2>11 DEF FilesOnce
<1> QED BY <1>1, <1>2, <1>3 DEF Pull

LEMMA CreateOnce == ASSUME TypeOK, FilesOnce, NEW w \in Makers, Create(w) PROVE FilesOnce'
<1>1. PICK m \in making[w].mids : \E r \in Nat :
           /\ r = Len(made) + 1
           /\ made' = Append(made, [src |-> making[w].src, mid |-> m])
           /\ \A v \in Makers : v # w => making'[v] = making[v]
           /\ making'[w] = [src |-> making[w].src, mids |-> making[w].mids \ {m}, rec |-> r, step |-> "process"]
  BY CreateShape
<1>2. PICK n \in Nat : n = Len(made)
  BY TypeParts DEF HistoryOK
<1>3. PICK a : a = [src |-> making[w].src, mid |-> m]
  OBVIOUS
<1>4. /\ DOMAIN made = 1..n /\ DOMAIN made' = 1..(n + 1) /\ made'[n + 1] = a
      /\ \A r \in 1..n : made'[r] = made[r]
  <2>1. made \in Seq([src: Files \cup {Ledger}, mid: Mids])
    BY TypeParts DEF HistoryOK
  <2>2. made' = Append(made, a)
    BY <1>1, <1>3
  <2>3. \A S : \A t \in Seq(S) : DOMAIN t = 1..Len(t) /\ DOMAIN Append(t, a) = 1..(Len(t) + 1)
                               /\ Append(t, a)[Len(t) + 1] = a /\ \A r \in 1..Len(t) : Append(t, a)[r] = t[r]
    OBVIOUS
  <2> QED BY <1>2, <2>1, <2>2, <2>3
<1>5. UNCHANGED <<up, seen, archive, fetching, fetched, unarchived>>
  BY DEF Create, puller, excuses
<1>6. /\ making'[Ledger].src = Ledger /\ making'[Puller].src = making[Puller].src
      /\ making'[Puller].mids = IF w = Puller THEN making[Puller].mids \ {m} ELSE making[Puller].mids
  <2>1. making'[w].src = making[w].src /\ making'[w].mids = making[w].mids \ {m}
    BY <1>1
  <2>2. /\ \A v \in Makers : v # w => making'[v] = making[v]
        /\ Ledger \in Makers /\ Puller \in Makers /\ Puller # Ledger
    BY <1>1, SettlementAssumption DEF Makers
  <2>3. w = Puller \/ w = Ledger
    BY DEF Makers
  <2> QED BY <2>1, <2>2, <2>3 DEF FilesOnce
<1>7. a.src \in Files => w = Puller /\ FileAt(a.src)
  BY <1>3, SettlementAssumption DEF FileAt, Makers, FilesOnce
<1>8. a.mid = m /\ (a.src \in Files /\ a.src \notin unarchived => \A r \in 1..n : made[r] # a)
  <2>1. a.mid = m
    BY <1>3
  <2>2. ASSUME a.src \in Files, a.src \notin unarchived, NEW r \in 1..n, made[r] = a PROVE FALSE
    BY <1>1, <1>4, <1>7, <2>1, <2>2 DEF FilesOnce
  <2> QED BY <2>1, <2>2
<1>9. OncePerFile'
  <2> SUFFICES ASSUME NEW r \in 1..(n + 1), NEW q \in 1..(n + 1), made'[r].src \in Files
               PROVE  /\ Slot[made'[r].src] = "morning"
                      /\ made'[r] = made'[q] => r = q \/ made'[r].src \in unarchived
    BY <1>4, <1>5 DEF OncePerFile
  <2>1. r \in 1..n \/ r = n + 1
    OBVIOUS
  <2>2. q \in 1..n \/ q = n + 1
    OBVIOUS
  <2>3. Slot[made'[r].src] = "morning"
    BY <1>4, <1>7, <2>1 DEF FilesOnce, OncePerFile
  <2>4. ASSUME made'[r] = made'[q], r # q PROVE made'[r].src \in unarchived
    <3>1. CASE r \in 1..n /\ q \in 1..n
      BY <1>4, <2>4, <3>1 DEF FilesOnce, OncePerFile
    <3>2. CASE r = n + 1 /\ q \in 1..n
      BY <1>4, <1>8, <2>4, <3>2
    <3>3. CASE r \in 1..n /\ q = n + 1
      BY <1>4, <1>8, <2>4, <3>3
    <3> QED BY <2>1, <2>2, <2>4, <3>1, <3>2, <3>3
  <2> QED BY <2>3, <2>4
<1>10. ASSUME NEW f \in Files
       PROVE  /\ FileAt(f)' => Slot[f] = "morning"
              /\ FileAt(f)' \/ (\E r \in DOMAIN made' : made'[r].src = f) => f \in archive \cup unarchived
              /\ FileAt(f)' /\ f \notin unarchived =>
                   \A r \in DOMAIN made' : made'[r].src = f => made'[r].mid \notin making'[Puller].mids
  <2>1. FileAt(f)' <=> FileAt(f)
    BY <1>6 DEF FileAt
  <2>2. ASSUME NEW r \in 1..(n + 1) PROVE r \in 1..n \/ r = n + 1
    OBVIOUS
  <2>3. ASSUME NEW r \in 1..(n + 1), made'[r].src = f PROVE f \in archive \cup unarchived
    <3>1. CASE r \in 1..n
      BY <1>4, <2>3, <3>1 DEF FilesOnce
    <3>2. CASE r = n + 1
      BY <1>4, <1>7, <2>3, <3>2 DEF FilesOnce
    <3> QED BY <2>2, <3>1, <3>2
  <2>4. ASSUME FileAt(f), f \notin unarchived, NEW r \in 1..(n + 1), made'[r].src = f
        PROVE  made'[r].mid \notin making'[Puller].mids
    <3>1. CASE r \in 1..n
      BY <1>4, <1>6, <2>4, <3>1 DEF FilesOnce
    <3>2. CASE r = n + 1
      BY <1>4, <1>6, <1>7, <1>8, <2>4, <3>2
    <3> QED BY <2>2, <3>1, <3>2
  <2> QED BY <1>4, <2>1, <2>3, <2>4 DEF FilesOnce
<1> QED BY <1>5, <1>6, <1>9, <1>10 DEF FilesOnce

\* The puller's step and submissions leave what it has to make.
LEMMA OthersOnce ==
  ASSUME TypeOK, TypeOK', FilesOnce,
         \/ \E w \in Makers : Process(w) \/ SetReport(w) \/ Settle(w) \/ FailRecord(w) \/ Done(w)
         \/ \E g \in Submitters : Submission(g)
         \/ \E g \in Operators, r \in DOMAIN records : RetryPayout(g, r) \/ OperatorSettles(g, r)
         \/ \E r \in DOMAIN records, t \in Transitions : Move(r, t[2])
         \/ \E p \in DOMAIN b4b : Progress(p)
         \/ \E p \in DOMAIN b4b, s \in 1..Levels :
              Receive(p, s) \/ GiveUp(p, s) \/ \E r \in DOMAIN records : Hook(r, p, s)
         \/ StartBatch \/ UNCHANGED vars
  PROVE  FilesOnce'
<1>1. UNCHANGED <<made, archive, seen, fetching, fetched, unarchived, up>>
  BY DEF Process, SetReport, Settle, FailRecord, Done, Submission, Stop, Take, Answer, LoseAnswer, RetryPayout,
         OperatorSettles, Move, Progress, Receive, GiveUp, Hook, StartBatch, vars, puller, excuses
<1>2. \/ making' = making
      \/ \E w \in Makers, s \in {"create", "process", "report", "settle", "fail", "pay"} : Goto(w, s)
      \/ \E w \in Makers : making' = [making EXCEPT ![w] = IdleMaker]
      \/ \E M : making' = [making EXCEPT ![Ledger] = [src |-> Ledger, mids |-> M, rec |-> 0, step |-> "create"]]
  BY OwnersApart
     DEF Process, SetReport, Settle, FailRecord, Done, Submission, Stop, Take, Answer, LoseAnswer, Leave, RetryPayout,
         OperatorSettles, Move, Progress, Receive, GiveUp, Hook, StartBatch, vars, Goto
<1>3. Ledger \in Makers /\ Puller \in Makers /\ Puller # Ledger
  BY SettlementAssumption DEF Makers
<1>4. /\ making'[Ledger].src = Ledger
      /\ \/ making'[Puller].src = making[Puller].src /\ making'[Puller].mids = making[Puller].mids
         \/ making'[Puller].src = Ledger
  <2>1. CASE making' = making
    BY <2>1 DEF FilesOnce
  <2>2. ASSUME NEW w \in Makers, NEW s \in {"create", "process", "report", "settle", "fail", "pay"}, Goto(w, s)
        PROVE  \A v \in Makers : making'[v].src = making[v].src /\ making'[v].mids = making[v].mids
    <3>1. making'[w].src = making[w].src /\ making'[w].mids = making[w].mids
          /\ \A v \in Makers : v # w => making'[v] = making[v]
      BY <2>2, GotoShape, TypeParts
    <3> QED BY <3>1
  <2>3. ASSUME NEW w \in Makers, making' = [making EXCEPT ![w] = IdleMaker]
        PROVE  \A v \in Makers : making'[v] = IF v = w THEN IdleMaker ELSE making[v]
    BY <2>3, TypeParts DEF MakingOK
  <2>4. IdleMaker.src = Ledger
    BY DEF IdleMaker
  <2>5. ASSUME NEW M, making' = [making EXCEPT ![Ledger] = [src |-> Ledger, mids |-> M, rec |-> 0, step |-> "create"]]
        PROVE  making'[Ledger].src = Ledger /\ making'[Puller] = making[Puller]
    BY <1>3, <2>5, TypeParts DEF MakingOK
  <2>6. CASE \E w \in Makers, s \in {"create", "process", "report", "settle", "fail", "pay"} : Goto(w, s)
    BY <1>3, <2>2, <2>6 DEF FilesOnce
  <2>7. CASE \E w \in Makers : making' = [making EXCEPT ![w] = IdleMaker]
    BY <1>3, <2>3, <2>4, <2>7 DEF FilesOnce
  <2>8. CASE \E M : making' = [making EXCEPT ![Ledger] = [src |-> Ledger, mids |-> M, rec |-> 0, step |-> "create"]]
    BY <2>5, <2>8
  <2> QED BY <1>2, <2>1, <2>6, <2>7, <2>8
<1> QED BY <1>1, <1>4, FilesLeft DEF FilesOnce

LEMMA DeathOnce == ASSUME TypeOK, FilesOnce, Crash \/ Restart PROVE FilesOnce'
<1>1. UNCHANGED <<made, archive, unarchived>>
  BY DEF Crash, Restart, excuses
<1>2. CASE Crash
  <2>1. ~up' /\ fetching' = {} /\ fetched' = {} /\ making' = [w \in Makers |-> IdleMaker]
    BY <1>2 DEF Crash
  <2>2. making'[Ledger].src = Ledger /\ making'[Puller].src = Ledger
    BY <2>1 DEF Makers, IdleMaker
  <2> QED BY <1>1, <2>1, <2>2, FilesLeft
<1>3. CASE Restart
  <2>1. fetching' = {} /\ fetched' = {} /\ seen' = archive /\ making' = making
    BY <1>3, TypeParts DEF Restart, DownOK
  <2> QED BY <1>1, <2>1, FilesLeft DEF FilesOnce
<1> QED BY <1>2, <1>3

LEMMA NextOnce == TypeOK /\ TypeOK' /\ FilesOnce /\ [Next]_vars => FilesOnce'
BY PullOnce, CreateOnce, OthersOnce, DeathOnce DEF Next, Make

\* No file leads to two records of one submerchant, whenever the service dies
\* and however often it is restarted, unless the file could not be archived;
\* and none but the morning's leads to any (take, process).
THEOREM SettlementOncePerFile == Spec => []OncePerFile
<1>1. Init => FilesOnce
  BY SettlementAssumption DEF Init, FilesOnce, OncePerFile, FileAt, IdleMaker, Makers
<1>2. FilesOnce => OncePerFile
  BY DEF FilesOnce
<1> QED BY <1>1, <1>2, InitTyped, NextTyped, NextOnce, PTL DEF Spec
-----------------------------------------------------------------------------
(***************************************************************************)
(* No more is paid than was owed.                                          *)
(***************************************************************************)

\* The submissions of r that may still lead to a payment.
Hoping(r) == {g \in On(r) : sub[g].pay = 0}

\* A payout of r has stopped, and will have after a restart.
Stands(r) ==
  IF up THEN r \in DOMAIN records /\ records[r].status = Stopped
  ELSE saved \notin {Empty, Garbled} /\ r \in DOMAIN saved /\ saved[r].status = Stopped

Retriable(r) == On(r) = {} /\ Stands(r)

\* Every chance of a payment is covered: those being submitted, and a retry of
\* one that stopped when nobody is at it.
Covered(r) ==
  Cardinality(Payments(r)) + Cardinality(Hoping(r)) + (IF Retriable(r) THEN 1 ELSE 0) <= owed[r]

PaidInv == \A r \in DOMAIN made : Covered(r)

LEMMA Counts ==
  ASSUME TypeOK, NEW r
  PROVE  /\ IsFiniteSet(Payments(r)) /\ Cardinality(Payments(r)) \in Nat
         /\ IsFiniteSet(On(r)) /\ IsFiniteSet(Hoping(r)) /\ Cardinality(Hoping(r)) \in Nat
         /\ r \in DOMAIN made => owed[r] \in Nat
<1>1. IsFiniteSet(DOMAIN b4b)
  <2>1. DOMAIN b4b = 1..Len(b4b) /\ Len(b4b) \in Nat
    BY TypeParts DEF BankOK
  <2> QED BY <2>1, FS_Interval
<1>2. IsFiniteSet(Submitters)
  BY SettlementAssumption, FS_AddElement DEF Submitters
<1>3. Payments(r) \subseteq DOMAIN b4b /\ On(r) \subseteq Submitters /\ Hoping(r) \subseteq On(r)
  BY TypeParts DEF Payments, On, Hoping, SubOK
<1>4. IsFiniteSet(Payments(r)) /\ IsFiniteSet(On(r))
  BY <1>1, <1>2, <1>3, FS_Subset
<1>5. IsFiniteSet(Hoping(r))
  BY <1>3, <1>4, FS_Subset
<1>6. r \in DOMAIN made => owed[r] \in Nat
  BY TypeParts DEF HistoryOK
<1> QED BY <1>4, <1>5, <1>6, FS_CardinalityType

\* A record none of whose chances is new: a retry that was not possible before
\* is so since a submission ended, or the record is owed one more.
LEMMA StaysCovered ==
  ASSUME TypeOK, TypeOK', NEW r \in DOMAIN made, Covered(r), Payments(r)' = Payments(r),
         Hoping(r)' \subseteq Hoping(r), r \in DOMAIN made', owed'[r] >= owed[r],
         Retriable(r)' => Retriable(r) \/ Hoping(r)' # Hoping(r) \/ owed'[r] >= owed[r] + 1
  PROVE  Covered(r)'
<1>1. PICK p \in Nat, h \in Nat, k \in Nat, o \in Nat, n \in Nat :
        /\ p = Cardinality(Payments(r)) /\ h = Cardinality(Hoping(r)) /\ k = Cardinality(Hoping(r)')
        /\ o = owed[r] /\ n = owed'[r]
  <2>1. Cardinality(Hoping(r)') \in Nat /\ owed'[r] \in Nat
    <3>1. IsFiniteSet(Hoping(r)')
      BY Counts, FS_Subset
    <3>2. owed'[r] \in Nat
      <4>1. owed' \in Seq(Nat) /\ Len(owed') = Len(made') /\ made' \in Seq([src: Files \cup {Ledger}, mid: Mids])
        BY DEF TypeOK
      <4>2. \A S : \A t \in Seq(S) : DOMAIN t = 1..Len(t) /\ \A i \in 1..Len(t) : t[i] \in S
        OBVIOUS
      <4> QED BY <4>1, <4>2
    <3> QED BY <3>1, <3>2, FS_CardinalityType
  <2> QED BY <2>1, Counts
<1>2. k <= h /\ (Hoping(r)' # Hoping(r) => k <= h - 1)
  <2>1. k <= h /\ (k = h => Hoping(r)' = Hoping(r))
    BY <1>1, Counts, FS_Subset
  <2> QED BY <2>1
<1>3. p + h + (IF Retriable(r) THEN 1 ELSE 0) <= o
  BY <1>1 DEF Covered
<1>4. Cardinality(Payments(r)') = p
  BY <1>1
<1>5. p + k + (IF Retriable(r)' THEN 1 ELSE 0) <= n
  <2>1. CASE Retriable(r)'
    BY <1>1, <1>2, <1>3, <2>1
  <2>2. CASE ~Retriable(r)'
    BY <1>1, <1>2, <1>3, <2>2
  <2> QED BY <2>1, <2>2
<1> QED BY <1>1, <1>4, <1>5 DEF Covered

\* A submission begins.
LEMMA BeginsCovered ==
  ASSUME TypeOK, TypeOK', PaidInv, NEW r \in DOMAIN records, NEW g, Begins(g, r), up, up',
         UNCHANGED <<made, b4b>>, DOMAIN records' = DOMAIN records,
         \A x \in DOMAIN records : records'[x].status = records[x].status
  PROVE  PaidInv'
<1>1. PICK a : a = [rec |-> r, pay |-> 0]
  OBVIOUS
<1>2. /\ DOMAIN sub' = DOMAIN sub \cup {g} /\ sub'[g] = a /\ g \notin DOMAIN sub
      /\ \A y \in DOMAIN sub : sub'[y] = sub[y]
  BY <1>1, SubmitShape DEF Begins
<1>3. a.rec = r /\ a.pay = 0
  BY <1>1
<1>4. \A x : Payments(x)' = Payments(x) /\ (Stands(x)' => Stands(x))
  BY DEF Payments, Stands
<1>5. /\ Hoping(r)' = Hoping(r) \cup {g} /\ g \notin Hoping(r) /\ On(r)' # {}
      /\ \A x : x # r => On(x)' = On(x) /\ Hoping(x)' = Hoping(x)
  BY <1>2, <1>3 DEF On, Hoping
<1>6. \A x \in DOMAIN records : x # r => owed'[x] = owed[x]
  BY OwedDomain DEF Begins
<1>7. DOMAIN made \subseteq DOMAIN owed /\ r \in DOMAIN made
  BY TypeParts DEF HistoryOK, StoreOK, IsStore
<1>8. ASSUME NEW x \in DOMAIN made, x # r PROVE Covered(x)'
  <2>1. owed'[x] = owed[x]
    BY <1>7, <1>8 DEF Begins
  <2> QED BY <1>4, <1>5, <1>8, <2>1, Counts, StaysCovered DEF PaidInv, Retriable
<1>9. Covered(r)'
  <2>1. PICK p \in Nat, h \in Nat, o \in Nat :
          p = Cardinality(Payments(r)) /\ h = Cardinality(Hoping(r)) /\ o = owed[r]
    BY Counts, <1>7
  <2>2. Cardinality(Hoping(r)') = h + 1
    BY <1>5, <2>1, Counts, FS_AddElement
  <2>3. p + h + (IF Retriable(r) THEN 1 ELSE 0) <= o
    BY <1>7, <2>1 DEF PaidInv, Covered
  <2>4. owed'[r] = o + 1 \/ (owed'[r] = o /\ Retriable(r))
    BY <1>7, <2>1, OwedDomain DEF Begins, Retriable, Stands
  <2>5. ~Retriable(r)' /\ Cardinality(Payments(r)') = p
    BY <1>4, <1>5, <2>1 DEF Retriable
  <2>6. p + (h + 1) + 0 <= owed'[r]
    BY <2>3, <2>4
  <2> QED BY <2>2, <2>5, <2>6 DEF Covered
<1> QED BY <1>8, <1>9 DEF PaidInv

\* B4B makes a payment of a submission.
LEMMA TakePaid == ASSUME TypeOK, TypeOK', PaidInv, NEW g \in Submitters, Take(g) PROVE PaidInv'
<1>1. /\ g \in DOMAIN sub /\ sub[g].pay = 0 /\ sub[g] \in [rec: DOMAIN records, pay: 0..Len(b4b)]
      /\ UNCHANGED <<up, records, saved, made, owed>>
  BY TypeParts DEF Take, SubOK, store
<1>2. PICK r \in DOMAIN records : r = sub[g].rec
  BY <1>1
<1>3. PICK n \in Nat : n = Len(b4b) /\ DOMAIN b4b = 1..n
  BY TypeParts DEF BankOK
<1>4. PICK a : a = [ref |-> r, level |-> 1]
  OBVIOUS
<1>5. DOMAIN b4b' = 1..(n + 1) /\ b4b'[n + 1] = a /\ \A p \in 1..n : b4b'[p] = b4b[p]
  <2>1. b4b' = Append(b4b, a) /\ b4b \in Seq([ref: DOMAIN made, level: 1..Levels])
    BY <1>2, <1>4, TypeParts DEF Take, BankOK
  <2>2. \A S : \A t \in Seq(S) : DOMAIN Append(t, a) = 1..(Len(t) + 1)
                               /\ Append(t, a)[Len(t) + 1] = a /\ \A i \in 1..Len(t) : Append(t, a)[i] = t[i]
    OBVIOUS
  <2> QED BY <1>3, <2>1, <2>2
<1>6. PICK q \in [rec: DOMAIN records, pay: 0..Len(b4b)] : q = sub[g]
  BY <1>1
<1>7. /\ DOMAIN sub' = DOMAIN sub /\ sub'[g] = [q EXCEPT !.pay = n + 1]
      /\ \A x \in DOMAIN sub : x # g => sub'[x] = sub[x]
  BY <1>1, <1>3, <1>6 DEF Take
<1>8. sub'[g].rec = r /\ sub'[g].pay = n + 1 /\ n + 1 # 0 /\ q.rec = r /\ q.pay = 0
  BY <1>1, <1>2, <1>6, <1>7
<1>9. /\ \A x : On(x)' = On(x) /\ (x # r => Hoping(x)' = Hoping(x))
      /\ Hoping(r)' = Hoping(r) \ {g} /\ g \in Hoping(r)
  BY <1>1, <1>2, <1>6, <1>7, <1>8 DEF On, Hoping
<1>10. a.ref = r
  BY <1>4
<1>11. /\ Payments(r)' = Payments(r) \cup {n + 1} /\ n + 1 \notin Payments(r)
       /\ \A x : x # r => Payments(x)' = Payments(x)
  <2>1. \A p : p \in 1..(n + 1) <=> p \in 1..n \/ p = n + 1
    OBVIOUS
  <2>2. n + 1 \notin 1..n
    OBVIOUS
  <2> QED BY <1>3, <1>5, <1>10, <2>1, <2>2 DEF Payments
<1>12. r \in DOMAIN made /\ \A x : Retriable(x)' <=> Retriable(x)
  <2>1. r \in DOMAIN made
    BY TypeParts DEF StoreOK, IsStore
  <2>2. \A x : Stands(x)' <=> Stands(x)
    BY <1>1 DEF Stands
  <2> QED BY <1>9, <2>1, <2>2 DEF Retriable
<1>13. Covered(r)'
  <2>1. PICK p \in Nat, h \in Nat :
          p = Cardinality(Payments(r)) /\ h = Cardinality(Hoping(r)) /\ owed[r] \in Nat
    BY Counts, <1>12
  <2>2. Cardinality(Hoping(r)') = h - 1 /\ Cardinality(Payments(r)') = p + 1
    <3>1. IsFiniteSet(Hoping(r)) /\ IsFiniteSet(Payments(r))
      BY Counts
    <3>2. Cardinality(Hoping(r) \ {g}) = Cardinality(Hoping(r)) - 1
      BY <1>9, <3>1, FS_RemoveElement
    <3>3. Cardinality(Payments(r) \cup {n + 1}) = Cardinality(Payments(r)) + 1
      BY <1>11, <3>1, FS_AddElement
    <3> QED BY <1>9, <1>11, <2>1, <3>2, <3>3
  <2>3. p + h + (IF Retriable(r) THEN 1 ELSE 0) <= owed[r]
    BY <1>12, <2>1 DEF PaidInv, Covered
  <2> QED BY <1>1, <1>12, <2>1, <2>2, <2>3 DEF Covered
<1>14. ASSUME NEW x \in DOMAIN made, x # r PROVE Covered(x)'
  BY <1>1, <1>9, <1>11, <1>12, <1>14, Counts, StaysCovered DEF PaidInv
<1> QED BY <1>1, <1>13, <1>14 DEF PaidInv

\* A submission ends: unless it is answered, its record may be retried.
LEMMA EndPaid ==
  ASSUME TypeOK, TypeOK', PaidInv, NEW g \in Submitters, Stop(g) \/ Answer(g) \/ LoseAnswer(g)
  PROVE  PaidInv'
<1>1. g \in DOMAIN sub /\ up /\ sub[g].rec \in DOMAIN records /\ sub[g].pay \in 0..Len(b4b)
  BY TypeParts DEF Stop, Answer, LoseAnswer, SubOK, DownOK
<1>2. PICK r \in DOMAIN records : r = sub[g].rec
  BY <1>1
<1>3. UNCHANGED <<up, made, b4b>>
  BY DEF Stop, Answer, LoseAnswer, bank
<1>4. DOMAIN sub' = DOMAIN sub \ {g} /\ \A x \in DOMAIN sub' : sub'[x] = sub[x]
  BY LeaveShape DEF Stop, Answer, LoseAnswer
<1>41. ASSUME Stop(g) \/ LoseAnswer(g) PROVE Changes(r)
  BY <1>2, <1>41, SetPayoutShape, TypeParts, SettlementAssumption DEF Stop, LoseAnswer
<1>42. ASSUME Answer(g) PROVE Changes(r) /\ records'[r].status # Stopped
  <2>1. Len(b4b) \in Nat /\ Len(b4b) <= MaxPayments
    BY TypeParts, BankShape DEF BankOK
  <2>2. sub[g].pay \in 0..MaxPayments
    BY <1>1, <2>1, SettlementAssumption
  <2>4. 1 \in 1..Levels /\ 1 # Stopped
    BY SettlementAssumption
  <2>3. SetPayout(r, sub[g].pay, 1)
    BY <1>2, <1>42 DEF Answer
  <2> QED BY <2>2, <2>3, <2>4, SetPayoutShape, TypeParts
<1>5. Changes(r)
  BY <1>41, <1>42
<1>6. /\ r \in DOMAIN made /\ DOMAIN made \subseteq DOMAIN owed
      /\ \A x \in DOMAIN made : x # r => owed'[x] = owed[x]
      /\ (owed'[r] = owed[r] \/ owed'[r] = owed[r] + 1)
      /\ LoseAnswer(g) => owed'[r] = owed[r] + 1
  <2>1. r \in DOMAIN made /\ DOMAIN made \subseteq DOMAIN owed
    BY TypeParts DEF HistoryOK, StoreOK, IsStore
  <2>2. /\ owed' = owed \/ owed' = [owed EXCEPT ![r] = @ + 1]
        /\ LoseAnswer(g) => owed' = [owed EXCEPT ![r] = @ + 1]
    BY <1>2 DEF Stop, Answer, LoseAnswer
  <2> QED BY <2>1, <2>2
<1>7. \A x : Payments(x)' = Payments(x) /\ Hoping(x)' = Hoping(x) \ {g} /\ On(x)' = On(x) \ {g}
  BY <1>3, <1>4 DEF Payments, On, Hoping
<1>8. \A x \in DOMAIN made : x # r => (Stands(x)' => Stands(x)) /\ On(x)' = On(x)
  BY <1>1, <1>2, <1>3, <1>4, <1>5, <1>7 DEF Stands, Changes, On
<1>9. ASSUME NEW x \in DOMAIN made PROVE Covered(x)'
  <2>1. CASE x = r
    <3>1. Retriable(r)' => Hoping(r)' # Hoping(r) \/ owed'[r] = owed[r] + 1
      <4>1. CASE Stop(g)
        <5>1. g \in Hoping(r)
          BY <1>2, <4>1 DEF Stop, Hoping, On
        <5> QED BY <1>7, <5>1
      <4>2. CASE Answer(g)
        BY <1>1, <1>3, <1>42, <4>2 DEF Retriable, Stands
      <4>3. CASE LoseAnswer(g)
        BY <1>6, <4>3
      <4> QED BY <4>1, <4>2, <4>3
    <3>2. owed[r] \in Nat
      BY <1>6, Counts
    <3> QED BY <1>3, <1>6, <1>7, <2>1, <3>1, <3>2, StaysCovered DEF PaidInv
  <2>2. CASE x # r
    <3>1. owed'[x] = owed[x] /\ owed[x] \in Nat
      BY <1>6, <2>2, Counts
    <3> QED BY <1>3, <1>7, <1>8, <2>2, <3>1, StaysCovered DEF PaidInv, Retriable
  <2> QED BY <2>1, <2>2
<1> QED BY <1>3, <1>9 DEF PaidInv

LEMMA CreatePaid == ASSUME TypeOK, TypeOK', PaidInv, NEW w \in Makers, Create(w) PROVE PaidInv'
<1>1. UNCHANGED <<up, sub, b4b>> /\ up
  <2>1. UNCHANGED <<up, sub, b4b>>
    BY DEF Create, bank
  <2>2. up
    BY TypeParts DEF Create, Making, DownOK
  <2> QED BY <2>1, <2>2
<1>2. PICK r : /\ r = Len(made) + 1 /\ r \notin DOMAIN records /\ DOMAIN records' = DOMAIN records \cup {r}
               /\ records'[r] = [stage |-> "Scheduled", report |-> FALSE, payout |-> 0, status |-> Unset]
               /\ \A x \in DOMAIN records : records'[x] = records[x]
               /\ \E m : made' = Append(made, m)
               /\ owed' = Append(owed, 0)
  BY CreateShape, TypeParts
<1>3. /\ DOMAIN made = 1..Len(made) /\ DOMAIN made' = DOMAIN made \cup {r} /\ r \notin DOMAIN made
      /\ owed'[r] = 0 /\ \A x \in DOMAIN made : owed'[x] = owed[x]
  <2>1. \A S : \A t \in Seq(S) : \A a : DOMAIN t = 1..Len(t) /\ Len(t) \in Nat
                               /\ DOMAIN Append(t, a) = 1..(Len(t) + 1)
                               /\ Append(t, a)[Len(t) + 1] = a /\ \A i \in 1..Len(t) : Append(t, a)[i] = t[i]
    OBVIOUS
  <2>2. PICK n \in Nat : n = Len(made) /\ n = Len(owed)
    BY TypeParts DEF HistoryOK
  <2>3. DOMAIN made = 1..n /\ DOMAIN made' = 1..(n + 1)
    BY <1>2, <2>1, <2>2, TypeParts DEF HistoryOK
  <2>4. owed'[n + 1] = 0 /\ \A i \in 1..n : owed'[i] = owed[i]
    BY <1>2, <2>1, <2>2, TypeParts DEF HistoryOK
  <2> QED BY <1>2, <2>2, <2>3, <2>4
<1>4. \A x : Payments(x)' = Payments(x) /\ Hoping(x)' = Hoping(x) /\ On(x)' = On(x)
  BY <1>1 DEF Payments, Hoping, On
<1>5. Payments(r) = {} /\ On(r) = {} /\ Hoping(r) = {}
  <2>1. \A p \in DOMAIN b4b : b4b[p].ref \in DOMAIN made
    BY TypeParts, BankShape
  <2>2. \A g \in DOMAIN sub : sub[g].rec \in DOMAIN records
    BY TypeParts DEF SubOK
  <2> QED BY <1>2, <1>3, <2>1, <2>2 DEF Payments, On, Hoping
<1>6. ~Stands(r)'
  <2>1. records'[r].status = Unset
    BY <1>2
  <2> QED BY <1>1, <2>1, SettlementAssumption DEF Stands
<1>7. Covered(r)'
  <2>1. Cardinality(Payments(r)') = 0 /\ Cardinality(Hoping(r)') = 0
    BY <1>4, <1>5, FS_EmptySet
  <2>2. ~Retriable(r)'
    BY <1>6 DEF Retriable
  <2> QED BY <1>3, <2>1, <2>2 DEF Covered
<1>8. \A x \in DOMAIN made : Stands(x)' => Stands(x)
  BY <1>1, <1>2, <1>3 DEF Stands
<1>9. ASSUME NEW x \in DOMAIN made PROVE Covered(x)'
  <2>1. owed'[x] = owed[x] /\ owed[x] \in Nat /\ x \in DOMAIN made'
    BY <1>3, Counts
  <2> QED BY <1>4, <1>8, <2>1, StaysCovered DEF PaidInv, Retriable
<1> QED BY <1>3, <1>7, <1>9 DEF PaidInv

LEMMA CrashPaid == ASSUME TypeOK, TypeOK', PaidInv, Crash PROVE PaidInv'
<1>1. /\ up /\ ~up' /\ UNCHANGED <<made, b4b>> /\ DOMAIN sub' = {} /\ saved' \in {saved, Empty, Garbled}
      /\ owed' = [r \in DOMAIN owed |-> owed[r] + Cardinality({g \in On(r) : sub[g].pay > 0})]
  BY DEF Crash, bank
<1>2. \A x : Payments(x)' = Payments(x) /\ Hoping(x)' = {} /\ On(x)' = {}
  BY <1>1 DEF Payments, Hoping, On
<1>3. \A x : Stands(x)' => Stands(x)
  <2>1. saved = records \/ saved = Empty
    BY <1>1, TypeParts DEF StoreOK
  <2> QED BY <1>1, <2>1 DEF Stands
<1>4. DOMAIN made \subseteq DOMAIN owed
  BY TypeParts DEF HistoryOK
<1>5. ASSUME NEW x \in DOMAIN made PROVE Covered(x)'
  <2> DEFINE Taken == {g \in On(x) : sub[g].pay > 0}
  <2>1. IsFiniteSet(Taken) /\ Cardinality(Taken) \in Nat /\ owed[x] \in Nat
    BY Counts, FS_Subset, FS_CardinalityType
  <2>2. owed'[x] = owed[x] + Cardinality(Taken)
    BY <1>1, <1>4
  <2>3. Taken # {} => Cardinality(Taken) >= 1
    BY <2>1, FS_EmptySet
  <2>4. \A g \in On(x) : sub[g].pay = 0 \/ sub[g].pay > 0
    BY TypeParts DEF On, SubOK
  <2>5. On(x) # {} => Taken # {} \/ Hoping(x) # {}
    BY <2>4 DEF Hoping
  <2>6. Retriable(x)' => Retriable(x) \/ Hoping(x) # {} \/ Cardinality(Taken) >= 1
    BY <1>3, <2>3, <2>5 DEF Retriable
  <2> HIDE DEF Taken
  <2>7. owed'[x] >= owed[x] /\ (Cardinality(Taken) >= 1 => owed'[x] >= owed[x] + 1)
    BY <2>1, <2>2
  <2> QED BY <1>1, <1>2, <2>6, <2>7, StaysCovered DEF PaidInv
<1> QED BY <1>1, <1>5 DEF PaidInv

\* The steps that submit nothing and pay nothing.
LEMMA QuietPaid ==
  ASSUME TypeOK, TypeOK', PaidInv, UNCHANGED <<made, owed, sub>>,
         \A x : Payments(x)' = Payments(x) /\ (Stands(x)' => Stands(x))
  PROVE  PaidInv'
<1>1. \A x : Hoping(x)' = Hoping(x) /\ On(x)' = On(x)
  BY DEF Hoping, On
<1>2. ASSUME NEW x \in DOMAIN made PROVE Covered(x)'
  <2>1. owed[x] \in Nat
    BY Counts
  <2> QED BY <1>1, <2>1, StaysCovered DEF PaidInv, Retriable
<1> QED BY <1>2 DEF PaidInv

LEMMA RestartPaid == ASSUME TypeOK, TypeOK', PaidInv, Restart PROVE PaidInv'
<1>1. ~up /\ up' /\ saved # Garbled /\ records' = (IF saved = Empty THEN <<>> ELSE saved)
      /\ UNCHANGED <<made, owed, sub, b4b>>
  BY DEF Restart, bank
<1>2. \A x : Stands(x)' => Stands(x)
  BY <1>1 DEF Stands
<1> QED BY <1>1, <1>2, QuietPaid DEF Payments

LEMMA HookPaid ==
  ASSUME TypeOK, TypeOK', PaidInv,
         NEW p \in DOMAIN b4b, NEW s \in 1..Levels, NEW r \in DOMAIN records, Hook(r, p, s)
  PROVE  PaidInv'
<1>1. UNCHANGED <<up, made, sub, owed, b4b>> /\ up
  <2>1. UNCHANGED <<up, made, sub, owed, b4b>>
    BY DEF Hook, bank
  <2>2. up
    BY TypeParts DEF Hook, DownOK
  <2> QED BY <2>1, <2>2
<1>2. DOMAIN b4b = 1..Len(b4b) /\ Len(b4b) \in Nat /\ Len(b4b) <= MaxPayments
  BY TypeParts, BankShape DEF BankOK
<1>3. p \in 0..MaxPayments
  BY <1>2, SettlementAssumption
<1>4. Changes(r) /\ records'[r].status = s
  BY <1>3, SetPayoutShape, TypeParts DEF Hook
<1>5. s # Stopped
  BY SettlementAssumption
<1>6. \A x : Stands(x)' => Stands(x)
  BY <1>1, <1>4, <1>5 DEF Stands, Changes
<1> QED BY <1>1, <1>6, QuietPaid DEF Payments

LEMMA StagePaid == ASSUME TypeOK, TypeOK', PaidInv, StageStep PROVE PaidInv'
<1>1. /\ UNCHANGED <<up, made, b4b>> /\ up
      /\ DOMAIN records' = DOMAIN records
      /\ \A x \in DOMAIN records : records'[x].status = records[x].status
  BY StageShape
<1>2. CASE UNCHANGED <<sub, owed>>
  <2>1. \A x : Payments(x)' = Payments(x) /\ (Stands(x)' => Stands(x))
    BY <1>1 DEF Payments, Stands
  <2> QED BY <1>1, <1>2, <2>1, QuietPaid
<1>3. ASSUME NEW g, NEW r \in DOMAIN records, Begins(g, r) PROVE PaidInv'
  BY <1>1, <1>3, BeginsCovered
<1> QED BY <1>2, <1>3, StageShape

LEMMA OthersPaid ==
  ASSUME TypeOK, TypeOK', PaidInv,
         \/ \E f \in Files : Pull(f)
         \/ \E w \in Makers : Done(w)
         \/ StartBatch \/ UNCHANGED vars
         \/ \E p \in DOMAIN b4b : Progress(p) \/ \E s \in 1..Levels : Receive(p, s) \/ GiveUp(p, s)
  PROVE  PaidInv'
<1>1. UNCHANGED <<up, made, sub, owed, records, saved>>
  BY DEF Pull, Claim, Download, Archive, Done, StartBatch, Progress, Receive, GiveUp, store, vars
<1>2. \A x : Payments(x)' = Payments(x)
  <2>1. CASE b4b' = b4b
    BY <2>1 DEF Payments
  <2>2. ASSUME NEW p \in DOMAIN b4b, Progress(p)
        PROVE  DOMAIN b4b' = DOMAIN b4b /\ \A q \in DOMAIN b4b : b4b'[q].ref = b4b[q].ref
    <3>3. PICK q \in [ref: DOMAIN made, level: 1..Levels] : q = b4b[p]
      BY TypeParts, BankShape
    <3>1. PICK n \in 1..Levels : n = q.level
      OBVIOUS
    <3>4. b4b' = [b4b EXCEPT ![p] = [q EXCEPT !.level = n + 1]]
      BY <2>2, <3>1, <3>3 DEF Progress
    <3>5. [q EXCEPT !.level = n + 1].ref = q.ref
      OBVIOUS
    <3> QED BY <3>3, <3>4, <3>5
  <2>3. b4b' = b4b \/ \E p \in DOMAIN b4b : Progress(p)
    BY DEF Pull, Claim, Download, Archive, Done, StartBatch, Progress, Receive, GiveUp, bank, vars
  <2> QED BY <2>1, <2>2, <2>3 DEF Payments
<1> QED BY <1>1, <1>2, QuietPaid DEF Stands

LEMMA NextPaid == TypeOK /\ TypeOK' /\ PaidInv /\ [Next]_vars => PaidInv'
<1> SUFFICES ASSUME TypeOK, TypeOK', PaidInv, [Next]_vars PROVE PaidInv'
  OBVIOUS
<1>1. CASE \E w \in Makers : Make(w)
  BY <1>1, StagePaid, CreatePaid, OthersPaid DEF Make, StageStep
<1>2. CASE \E g \in Submitters : Submission(g)
  BY <1>2, TakePaid, EndPaid DEF Submission
<1>3. CASE \/ \E g \in Operators, r \in DOMAIN records : RetryPayout(g, r) \/ OperatorSettles(g, r)
           \/ \E r \in DOMAIN records, t \in Transitions : Move(r, t[2])
  BY <1>3, StagePaid DEF StageStep
<1>4. CASE \E p \in DOMAIN b4b, s \in 1..Levels, r \in DOMAIN records : Hook(r, p, s)
  BY <1>4, HookPaid
<1>5. CASE Crash \/ Restart
  BY <1>5, CrashPaid, RestartPaid
<1>6. CASE \/ \E f \in Files : Pull(f)
           \/ StartBatch \/ UNCHANGED vars
           \/ \E p \in DOMAIN b4b : Progress(p) \/ \E s \in 1..Levels : Receive(p, s) \/ GiveUp(p, s)
  BY <1>6, OthersPaid
<1> QED BY <1>1, <1>2, <1>3, <1>4, <1>5, <1>6 DEF Next

\* B4B pays a record no more often than it was settled to be paid, its answer
\* was lost, or a retry began beside another submission, for any number of
\* operators, batches, crashes and callbacks (retryPayout, submitPayout).
THEOREM SettlementPaidAsOwed == Spec => []PaidAsOwed
<1>1. Init => PaidInv
  BY DEF Init, PaidInv
<1>2. TypeOK /\ PaidInv => PaidAsOwed
  <2> SUFFICES ASSUME TypeOK, PaidInv, NEW r \in DOMAIN made PROVE Cardinality(Payments(r)) <= owed[r]
    BY DEF PaidAsOwed
  <2>1. PICK p \in Nat, h \in Nat, o \in Nat :
          p = Cardinality(Payments(r)) /\ h = Cardinality(Hoping(r)) /\ o = owed[r]
    BY Counts
  <2>2. p + h + (IF Retriable(r) THEN 1 ELSE 0) <= o
    BY <2>1 DEF PaidInv, Covered
  <2> QED BY <2>1, <2>2
<1> QED BY <1>1, <1>2, InitTyped, NextTyped, NextPaid, PTL DEF Spec
=============================================================================
