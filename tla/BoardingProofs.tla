----------------------------- MODULE BoardingProofs -----------------------------
(***************************************************************************)
(* Theorems about the three that take a merchant on board: the console's   *)
(* MerchantRegistry, B4B's B4BDirectory and Worldline's EnrolmentDesk.     *)
(***************************************************************************)
EXTENDS MerchantRegistry, B4BDirectory, EnrolmentDesk,
        NaturalsInduction, WellFoundedInduction, FiniteSetTheorems, TLAPS
-----------------------------------------------------------------------------
(***************************************************************************)
(* The naturals: the library states that they are well-founded under <,    *)
(* from which follow least elements and induction over a set.              *)
(***************************************************************************)

Less == {p \in Nat \X Nat : p[1] < p[2]}

LEMMA LessWellFounded == IsWellFoundedOn(Less, Nat)
<1>1. OpToRel(<, Nat) = Less
  BY Zenon DEF OpToRel, Less
<1> QED BY <1>1, NatLessThanWellFounded

\* Every set of naturals but the empty one has a least element.
LEMMA Least ==
  ASSUME NEW S, S \subseteq Nat, S # {}
  PROVE  \E m \in S : \A n \in S : m <= n
<1>1. PICK m \in S : \A n \in S : ~(<<n, m>> \in Less)
  BY LessWellFounded, WFMin
<1>2. ASSUME NEW n \in S PROVE m <= n
  <2>1. m \in Nat /\ n \in Nat
    OBVIOUS
  <2>2. n < m => <<n, m>> \in Less
    BY <2>1 DEF Less
  <2> QED BY <1>1, <2>1, <2>2
<1> QED BY <1>2

LEMMA MinIsLeast ==
  ASSUME NEW S, S \subseteq Nat, S # {}
  PROVE  Min(S) \in S /\ \A n \in S : Min(S) <= n
<1> QED BY Least DEF Min

\* A bounded set of naturals has a greatest element.
LEMMA MaxIsGreatest ==
  ASSUME NEW S, S \subseteq Nat, S # {}, NEW b \in Nat, \A n \in S : n <= b
  PROVE  Max(S) \in S /\ \A n \in S : n <= Max(S)
<1> DEFINE Bounds == {k \in Nat : \A n \in S : n <= k}
<1>1. PICK m \in Bounds : \A k \in Bounds : m <= k
  <2> HIDE DEF Bounds
  <2>1. Bounds \subseteq Nat /\ b \in Bounds
    BY DEF Bounds
  <2> QED BY <2>1, Least
<1>2. m \in S
  <2> SUFFICES ASSUME m \notin S PROVE FALSE
    OBVIOUS
  <2>1. PICK n \in S : TRUE
    OBVIOUS
  <2>2. n \in Nat /\ n <= m /\ n # m /\ m \in Nat
    BY <1>1
  <2>3. \A k \in S : k <= m - 1
    BY <1>1
  <2>4. m - 1 \in Nat
    BY <2>2
  <2> QED BY <1>1, <2>3, <2>4
<1> QED BY <1>1, <1>2 DEF Max
-----------------------------------------------------------------------------
\* Maps: the functions of a part of D to R.
Maps(D, R) == UNION {[S -> R] : S \in SUBSET D}

LEMMA MapsAre ==
  ASSUME NEW D, NEW R, NEW f
  PROVE  f \in Maps(D, R) <=> DOMAIN f \subseteq D /\ f \in [DOMAIN f -> R]
<1> QED BY DEF Maps

LEMMA JoinedMaps ==
  ASSUME NEW D, NEW R, NEW f \in Maps(D, R), NEW g \in Maps(D, R)
  PROVE  /\ Joined(f, g) \in Maps(D, R)
         /\ DOMAIN Joined(f, g) = DOMAIN f \cup DOMAIN g
         /\ \A n \in DOMAIN f : Joined(f, g)[n] = f[n]
         /\ \A n \in DOMAIN g \ DOMAIN f : Joined(f, g)[n] = g[n]
<1> QED BY MapsAre DEF Joined
-----------------------------------------------------------------------------
(***************************************************************************)
(* The merchant registry                                                   *)
(***************************************************************************)

Statuses == Standings \cup {"pass"}
Payees == [id : Int, standing : Statuses]
OutletRecords == [of : Nat, told : Payees \cup {Unregistered}]

Registers ==
  [seq : 0..MaxIds, batches : SUBSET Nat, merchants : Maps(Nat, Nat),
   outlets : Maps(Nat, OutletRecords)]

PayeeRecords == [ref : Mids \cup {NoRef}, standing : Statuses]
Rails == [payees : Maps(Int, PayeeRecords), byRef : Maps(Mids, Int)]

\* What an errand may have left: outlets, or a MID and no merchant.
Wants == Standings \cup {"register"}
LeftFor(want) == IF want = "register" THEN 1..MaxIds ELSE Mids
IsErrand(e) == e.left \subseteq LeftFor(e.want) /\ (e.want # "register" => e.merchants = {})

CallErrands ==
  {e \in [merchants : SUBSET Nat, left : SUBSET Nat, step : {"call"}, want : Wants] :
     IsErrand(e)}
RecordErrands ==
  {e \in [merchants : SUBSET Nat, left : (SUBSET Nat) \ {{}}, step : {"record"}, want : Wants,
          payee : Payees] :
     IsErrand(e)}
Errands == {NoErrand} \cup CallErrands \cup RecordErrands

RegistryTypeOK ==
  /\ mem \in Registers /\ saved \in Registers
  /\ rail \in Rails /\ railFile \in Maps(Int, PayeeRecords)
  /\ errand \in [Provisioners -> Errands]
  /\ given \subseteq 1..MaxIds /\ hazy \subseteq Mids /\ unsaved \subseteq Mids

\* Ids are of the counter, and what is saved is what memory has, but for the
\* outlets changed since.
SavedBut ==
  /\ DOMAIN mem.outlets \subseteq 1..mem.seq /\ DOMAIN mem.outlets \subseteq given
  /\ DOMAIN saved.outlets \subseteq 1..saved.seq /\ DOMAIN saved.outlets \subseteq given
  /\ \A o \in DOMAIN mem.outlets \cup DOMAIN saved.outlets :
       MidOf[o] \notin unsaved =>
         /\ o \in DOMAIN mem.outlets /\ o \in DOMAIN saved.outlets
         /\ mem.outlets[o] = saved.outlets[o]

\* An id that is not given again by memory, nor after a restart unless its
\* MID is known to differ.
Taken(p) == p <= mem.seq /\ (p <= saved.seq \/ MidOf[p] \in unsaved)

\* A MID the rail knows is that of such an id.
UsedAreTaken ==
  \A mid \in Mids :
    Known(mid) => mid \in hazy \cup Answered(Provisioners)
                  \/ \E p \in given : MidOf[p] = mid /\ Taken(p)

\* A payee has an id of the rail's own and a reference, or the id of a MID and
\* no reference.
PayeesAre(payees) ==
  \A i \in DOMAIN payees :
    \/ i \in PayeeIds /\ payees[i].ref \in Mids
    \/ i \in Mids /\ payees[i].ref = NoRef

RailIs ==
  /\ PayeesAre(rail.payees)
  /\ \A i \in DOMAIN rail.payees : rail.payees[i].ref \in Mids => rail.payees[i].ref \in DOMAIN rail.byRef
  /\ \A m \in DOMAIN rail.byRef :
       /\ rail.byRef[m] \in DOMAIN rail.payees /\ rail.byRef[m] \in PayeeIds
       /\ rail.payees[rail.byRef[m]].ref = m

\* An answer to be recorded is what the rail has, and the only one.
AnswerHolds(c) ==
  errand[c].step = "record" /\ Current(c) \notin hazy =>
    /\ errand[c].payee = OnRail(Current(c))
    /\ \A d \in Provisioners \ {c} : errand[d].step = "record" => Current(d) # Current(c)

AnswersHold == \A c \in Provisioners : AnswerHolds(c)

RegistryInv ==
  /\ RegistryTypeOK /\ SavedBut /\ UsedAreTaken /\ RailIs /\ PayeesAre(railFile)
  /\ AnswersHold /\ OutletTellsTheRail
-----------------------------------------------------------------------------
LEMMA UpToAreNaturals ==
  ASSUME NEW n \in Nat, NEW S \in SUBSET (1..n)
  PROVE  \A p \in S : p \in Nat
<1> QED OBVIOUS

LEMMA RegistryInitially == RegistryInit => RegistryInv
<1> SUFFICES ASSUME RegistryInit PROVE RegistryInv
  OBVIOUS
<1> USE DEF RegistryInit
<1>1. RegistryTypeOK
  <2>1. [i \in {} |-> ""] \in Maps(Int, PayeeRecords) /\ [m \in {} |-> 0] \in Maps(Mids, Int)
        /\ [m \in {} |-> 0] \in Maps(Nat, Nat) /\ [o \in {} |-> 0] \in Maps(Nat, OutletRecords)
    BY MapsAre
  <2>2. mem \in Registers
    BY <2>1, RegistryAssumption DEF Registers
  <2>3. errand \in [Provisioners -> Errands]
    BY DEF Errands
  <2> QED BY <2>1, <2>2, <2>3 DEF RegistryTypeOK, Rails
<1>2. SavedBut
  BY DEF SavedBut
<1>3. UsedAreTaken
  BY DEF UsedAreTaken, Known
<1>4. RailIs /\ PayeesAre(railFile)
  BY DEF RailIs, PayeesAre
<1>5. AnswersHold
  BY DEF AnswersHold, AnswerHolds, NoErrand
<1>6. OutletTellsTheRail
  BY DEF OutletTellsTheRail
<1> QED BY <1>1, <1>2, <1>3, <1>4, <1>5, <1>6 DEF RegistryInv

\* What an errand has left: the next of it, and the MID it stands for.
LEMMA CurrentIsLeft ==
  ASSUME RegistryTypeOK, NEW c \in Provisioners, errand[c].left # {}
  PROVE  /\ Min(errand[c].left) \in errand[c].left
         /\ Current(c) \in Mids
         /\ errand[c].step = "call" => errand[c] \in CallErrands
         /\ errand[c].step = "record" => errand[c] \in RecordErrands
<1>1. errand[c] \in CallErrands \cup RecordErrands
  BY DEF RegistryTypeOK, Errands, NoErrand
<1>2. errand[c].left \subseteq Nat /\ errand[c].left \subseteq LeftFor(errand[c].want)
  BY <1>1 DEF CallErrands, RecordErrands, IsErrand
<1>3. Min(errand[c].left) \in errand[c].left
  BY <1>2, MinIsLeast
<1>4. Current(c) \in Mids
  BY <1>2, <1>3, RegistryAssumption DEF Current, LeftFor
<1>5. /\ errand[c].step = "call" => errand[c] \in CallErrands
      /\ errand[c].step = "record" => errand[c] \in RecordErrands
  BY <1>1 DEF CallErrands, RecordErrands
<1> QED BY <1>3, <1>4, <1>5

LEMMA RecordingHasOne ==
  ASSUME RegistryTypeOK, NEW c \in Provisioners, errand[c].step = "record"
  PROVE  errand[c].left # {} /\ errand[c] \in RecordErrands /\ Current(c) \in Mids
<1>1. errand[c] \in RecordErrands
  BY DEF RegistryTypeOK, Errands, NoErrand, CallErrands
<1>2. errand[c].left # {}
  BY <1>1 DEF RecordErrands
<1> QED BY <1>1, <1>2, CurrentIsLeft

LEMMA AnsweredAre ==
  ASSUME RegistryTypeOK
  PROVE  Answered(Provisioners) \subseteq Mids
<1> QED BY RecordingHasOne DEF Answered

\* An outlet's MID is one an operator may name.
LEMMA MidsOfOutlets ==
  ASSUME RegistryTypeOK, SavedBut
  PROVE  \A o \in given \cup DOMAIN mem.outlets \cup DOMAIN saved.outlets : MidOf[o] \in Mids
<1> QED BY RegistryAssumption DEF RegistryTypeOK, SavedBut
-----------------------------------------------------------------------------
(***************************************************************************)
(* The rail                                                                *)
(***************************************************************************)

LEMMA RegisteredRail ==
  ASSUME RegistryTypeOK, RailIs, NEW mid \in Mids, NEW id \in Undrawn, rail' = Registered(mid, id)
  PROVE  /\ rail' \in Rails
         /\ RailIs'
         /\ \A n \in Mids : Known(n)' <=> Known(n) \/ n = mid
         /\ \A n \in Mids \ {mid} : OnRail(n)' = OnRail(n)
         /\ mid \notin DOMAIN rail.payees => OnRail(mid)' = [id |-> id, standing |-> "pass"]
<1> DEFINE s == [i \in {id} |-> [ref |-> mid, standing |-> "pass"]]
           b == [m \in {mid} |-> id]
<1>1. id \in Int /\ id \in PayeeIds /\ id \notin Mids /\ id \notin DOMAIN rail.payees
  BY RegistryAssumption DEF Undrawn
<1>2. rail.payees \in Maps(Int, PayeeRecords) /\ rail.byRef \in Maps(Mids, Int)
  BY DEF RegistryTypeOK, Rails
<1>3. s \in Maps(Int, PayeeRecords) /\ b \in Maps(Mids, Int)
  <2>1. [ref |-> mid, standing |-> "pass"] \in PayeeRecords
    BY DEF PayeeRecords, Statuses
  <2> QED BY <2>1, <1>1, MapsAre
<1>4. rail'.payees = Joined(s, rail.payees) /\ rail'.byRef = Joined(b, rail.byRef)
  BY DEF Registered
<1>5. rail' \in Rails
  BY <1>2, <1>3, JoinedMaps DEF Registered, Rails
<1>6. DOMAIN s = {id} /\ s[id] = [ref |-> mid, standing |-> "pass"] /\ DOMAIN b = {mid} /\ b[mid] = id
  OBVIOUS
<1> HIDE DEF s, b
<1>7. /\ DOMAIN rail'.payees = DOMAIN rail.payees \cup {id}
      /\ rail'.payees[id] = [ref |-> mid, standing |-> "pass"]
      /\ \A i \in DOMAIN rail.payees : rail'.payees[i] = rail.payees[i]
  BY <1>1, <1>4, <1>6 DEF Joined
<1>8. /\ DOMAIN rail'.byRef = DOMAIN rail.byRef \cup {mid}
      /\ rail'.byRef[mid] = id
      /\ \A m \in DOMAIN rail.byRef \ {mid} : rail'.byRef[m] = rail.byRef[m]
  BY <1>4, <1>6 DEF Joined
<1>9. PayeesAre(rail'.payees)
  BY <1>1, <1>7 DEF PayeesAre, RailIs
<1>10. RailIs'
  <2>1. \A i \in DOMAIN rail'.payees : rail'.payees[i].ref \in Mids => rail'.payees[i].ref \in DOMAIN rail'.byRef
    BY <1>7, <1>8 DEF RailIs
  <2>2. ASSUME NEW m \in DOMAIN rail'.byRef
        PROVE  /\ rail'.byRef[m] \in DOMAIN rail'.payees /\ rail'.byRef[m] \in PayeeIds
               /\ rail'.payees[rail'.byRef[m]].ref = m
    BY <1>1, <1>7, <1>8 DEF RailIs
  <2> QED BY <1>9, <2>1, <2>2 DEF RailIs
<1>11. \A n \in Mids : Known(n)' <=> Known(n) \/ n = mid
  BY <1>1, <1>7, <1>8 DEF Known
<1>12. ASSUME NEW n \in Mids, n # mid PROVE OnRail(n)' = OnRail(n)
  <2>1. n # id
    BY <1>1
  <2>2. Known(n)' <=> Known(n)
    BY <1>11, <1>12
  <2>3. Known(n) => PayeeOf(n)' = PayeeOf(n) /\ PayeeOf(n) \in DOMAIN rail.payees
    BY <2>1, <1>12, <1>7, <1>8 DEF PayeeOf, Known, RailIs
  <2> QED BY <2>2, <2>3, <1>7 DEF OnRail
<1>13. ASSUME mid \notin DOMAIN rail.payees
       PROVE  OnRail(mid)' = [id |-> id, standing |-> "pass"]
  <2>1. mid # id
    BY <1>1
  <2> QED BY <1>7, <1>8, <1>13, <2>1 DEF OnRail, Known, PayeeOf
<1> QED BY <1>5, <1>10, <1>11, <1>12, <1>13

LEMMA SanctionedRail ==
  ASSUME RegistryTypeOK, RailIs, NEW mid \in Mids, NEW st \in Standings, rail' = Sanctioned(mid, st)
  PROVE  /\ rail' \in Rails
         /\ RailIs'
         /\ \A n \in Mids : Known(n)' <=> Known(n) \/ n = mid
         /\ \A n \in Mids \ {mid} : OnRail(n)' = OnRail(n)
         /\ OnRail(mid)' = [id |-> IF Known(mid) THEN PayeeOf(mid) ELSE mid, standing |-> st]
         /\ Known(mid) => PayeeOf(mid) \in Int
<1> DEFINE p == IF Known(mid) THEN PayeeOf(mid) ELSE mid
           x == IF Known(mid) THEN [rail.payees[PayeeOf(mid)] EXCEPT !.standing = st]
                ELSE [ref |-> NoRef, standing |-> st]
           s == [i \in {p} |-> x]
<1>1. /\ rail.payees \in Maps(Int, PayeeRecords) /\ rail.byRef \in Maps(Mids, Int)
      /\ \A i \in DOMAIN rail.payees : i \in Int /\ rail.payees[i] \in PayeeRecords
  BY MapsAre DEF RegistryTypeOK, Rails
<1>2. /\ Known(mid) => p \in DOMAIN rail.payees /\ p = PayeeOf(mid)
      /\ ~Known(mid) => p = mid /\ p \notin DOMAIN rail.payees
  BY DEF RailIs, Known, PayeeOf
<1>3. p \in Int
  BY <1>1, <1>2, RegistryAssumption
<1>4. x \in PayeeRecords /\ x.standing = st
      /\ x.ref = IF Known(mid) THEN rail.payees[p].ref ELSE NoRef
  <2>1. CASE Known(mid)
    BY <2>1, <1>1, <1>2 DEF PayeeRecords, Statuses
  <2>2. CASE ~Known(mid)
    BY <2>2 DEF PayeeRecords, Statuses
  <2> QED BY <2>1, <2>2
<1>5. s \in Maps(Int, PayeeRecords) /\ DOMAIN s = {p} /\ s[p] = x
  BY <1>3, <1>4, MapsAre
<1>6. rail' = [rail EXCEPT !.payees = Joined(s, @)]
  <2>1. CASE Known(mid)
    BY <2>1 DEF Sanctioned
  <2>2. CASE ~Known(mid)
    BY <2>2 DEF Sanctioned
  <2> QED BY <2>1, <2>2
<1> HIDE DEF s, x, p
<1>7. rail' \in Rails /\ rail'.payees = Joined(s, rail.payees) /\ rail'.byRef = rail.byRef
  <2>1. Joined(s, rail.payees) \in Maps(Int, PayeeRecords)
    BY <1>1, <1>5, JoinedMaps
  <2>2. rail \in Rails
    BY DEF RegistryTypeOK
  <2> QED BY <2>1, <2>2, <1>6 DEF Rails
<1>8. /\ DOMAIN rail'.payees = DOMAIN rail.payees \cup {p}
      /\ rail'.payees[p] = x
      /\ \A i \in DOMAIN rail.payees \ {p} : rail'.payees[i] = rail.payees[i]
  BY <1>5, <1>7 DEF Joined
<1>9. \A i \in DOMAIN rail.payees : rail'.payees[i].ref = rail.payees[i].ref
  BY <1>2, <1>4, <1>8
<1>10. PayeesAre(rail'.payees)
  BY <1>2, <1>4, <1>8, <1>9 DEF PayeesAre, RailIs
<1>11. RailIs'
  <2>1. \A i \in DOMAIN rail'.payees : rail'.payees[i].ref \in Mids => rail'.payees[i].ref \in DOMAIN rail'.byRef
    BY <1>2, <1>4, <1>7, <1>8, <1>9, RegistryAssumption DEF RailIs
  <2>2. \A m \in DOMAIN rail'.byRef :
          /\ rail'.byRef[m] \in DOMAIN rail'.payees /\ rail'.byRef[m] \in PayeeIds
          /\ rail'.payees[rail'.byRef[m]].ref = m
    BY <1>7, <1>8, <1>9 DEF RailIs
  <2> QED BY <1>10, <2>1, <2>2 DEF RailIs
<1>12. \A n \in Mids : n = p => n = mid
  <2>1. ASSUME Known(mid), mid \notin DOMAIN rail.payees PROVE p \in PayeeIds
    BY <2>1, <1>2 DEF PayeeOf, Known, RailIs
  <2>2. Known(mid) /\ mid \in DOMAIN rail.payees => p = mid
    BY <1>2 DEF PayeeOf
  <2> QED BY <2>1, <2>2, <1>2, RegistryAssumption
<1>13. \A n \in Mids : Known(n)' <=> Known(n) \/ n = mid
  <2>1. Known(mid)'
    BY <1>2, <1>7, <1>8 DEF Known
  <2> QED BY <2>1, <1>7, <1>8, <1>12 DEF Known
<1>14. ASSUME NEW n \in Mids, n # mid PROVE OnRail(n)' = OnRail(n)
  <2>1. Known(n)' <=> Known(n)
    BY <1>13, <1>14
  <2>2. n \in DOMAIN rail'.payees <=> n \in DOMAIN rail.payees
    BY <1>8, <1>12, <1>14
  <2>3. Known(n) => PayeeOf(n)' = PayeeOf(n) /\ PayeeOf(n) \in DOMAIN rail.payees
    BY <2>2, <1>7 DEF PayeeOf, Known, RailIs
  <2>4. Known(n) => PayeeOf(n) # p
    <3>1. CASE n \in DOMAIN rail.payees
      BY <3>1, <1>12, <1>14 DEF PayeeOf
    <3>2. CASE n \notin DOMAIN rail.payees /\ n \in DOMAIN rail.byRef
      <4>1. PayeeOf(n) \in PayeeIds /\ rail.payees[PayeeOf(n)].ref = n
        BY <3>2 DEF PayeeOf, RailIs
      <4>2. p \in Mids \/ rail.payees[p].ref = mid
        BY <1>2 DEF PayeeOf, Known, RailIs
      <4> QED BY <4>1, <4>2, <1>14, RegistryAssumption
    <3> QED BY <3>1, <3>2 DEF Known
  <2> QED BY <2>1, <2>3, <2>4, <1>8 DEF OnRail
<1>15. OnRail(mid)' = [id |-> p, standing |-> st]
  <2>1. Known(mid)'
    BY <1>13
  <2>2. PayeeOf(mid)' = p
    <3>1. CASE mid \in DOMAIN rail.payees
      BY <3>1, <1>2, <1>8 DEF PayeeOf, Known
    <3>2. CASE mid \notin DOMAIN rail.payees /\ mid \in DOMAIN rail.byRef
      <4>1. p = rail.byRef[mid] /\ p \in PayeeIds
        BY <3>2, <1>2 DEF PayeeOf, Known, RailIs
      <4>2. mid \notin DOMAIN rail'.payees
        BY <4>1, <3>2, <1>8, RegistryAssumption
      <4> QED BY <4>1, <4>2, <1>7 DEF PayeeOf
    <3>3. CASE ~Known(mid)
      BY <3>3, <1>2, <1>8 DEF PayeeOf
    <3> QED BY <3>1, <3>2, <3>3 DEF Known
  <2> QED BY <2>1, <2>2, <1>4, <1>8 DEF OnRail
<1>16. Known(mid) => PayeeOf(mid) \in Int
  BY <1>2, <1>3
<1> QED BY <1>7, <1>11, <1>13, <1>14, <1>15, <1>16 DEF p
-----------------------------------------------------------------------------
\* The rail's file is as before or as the rail is.
LEMMA RailFileKeeps ==
  ASSUME railFile \in Maps(Int, PayeeRecords), PayeesAre(railFile), rail' \in Rails, RailIs', SaveRail
  PROVE  railFile' \in Maps(Int, PayeeRecords) /\ PayeesAre(railFile')
<1> QED BY DEF SaveRail, Rails, RailIs, PayeesAre

\* What the file makes of the rail: of a MID that was registered once at most,
\* and whose payees are in the file, what it was.
LEMMA RestoredRail ==
  ASSUME RegistryTypeOK, RailIs, PayeesAre(railFile), rail' = Restored(railFile)
  PROVE  /\ rail' \in Rails /\ RailIs'
         /\ \A mid \in Mids :
              Bearers(railFile, mid) = Bearers(rail.payees, mid) /\ ~Twice(mid)
                => (Known(mid)' <=> Known(mid)) /\ OnRail(mid)' = OnRail(mid)
<1> DEFINE Bearing(m) == {i \in DOMAIN railFile : railFile[i].ref = m}
           refs == {railFile[i].ref : i \in DOMAIN railFile} \ {NoRef}
<1>1. railFile \in Maps(Int, PayeeRecords) /\ rail.payees \in Maps(Int, PayeeRecords)
  BY DEF RegistryTypeOK, Rails
<1>2. rail'.payees = railFile /\ rail'.byRef = [m \in refs |-> Max(Bearing(m))]
  BY DEF Restored
<1>3. refs \subseteq Mids
  BY RegistryAssumption DEF PayeesAre
<1>4. ASSUME NEW m \in refs
      PROVE  /\ Bearing(m) \subseteq PayeeIds /\ Max(Bearing(m)) \in Bearing(m)
  <2>1. Bearing(m) \subseteq PayeeIds /\ Bearing(m) # {}
    BY <1>3, RegistryAssumption DEF PayeesAre
  <2>2. PICK b \in Nat : Bearing(m) \subseteq Nat /\ \A i \in Bearing(m) : i <= b
    BY <2>1, RegistryAssumption
  <2>3. Max(Bearing(m)) \in Bearing(m)
    <3>1. PICK B : B = Bearing(m)
      OBVIOUS
    <3>2. B \subseteq Nat /\ B # {} /\ \A i \in B : i <= b
      BY <2>1, <2>2, <3>1
    <3>3. Max(B) \in B
      BY <3>2, MaxIsGreatest
    <3> HIDE DEF Bearing
    <3> QED BY <3>1, <3>3
  <2> QED BY <2>1, <2>3
<1>5. \A m \in refs : Max(Bearing(m)) \in Int
  <2>1. PayeeIds \subseteq Int
    BY RegistryAssumption
  <2> HIDE DEF Bearing, refs
  <2> QED BY <1>4, <2>1
<1>6. rail'.byRef \in Maps(Mids, Int)
  <2>1. [m \in refs |-> Max(Bearing(m))] \in [refs -> Int]
    <3> HIDE DEF Bearing, refs
    <3> QED BY <1>5
  <2>2. rail'.byRef \in [refs -> Int]
    BY <2>1, <1>2
  <2> HIDE DEF refs
  <2> QED BY <2>2, <1>3 DEF Maps
<1>7. rail' \in Rails
  BY <1>1, <1>2, <1>6 DEF Restored, Rails
<1>8. RailIs'
  <2>1. \A i \in DOMAIN railFile : railFile[i].ref \in Mids => railFile[i].ref \in refs
    BY RegistryAssumption
  <2>2. \A m \in refs : Max(Bearing(m)) \in DOMAIN railFile /\ Max(Bearing(m)) \in PayeeIds
                        /\ railFile[Max(Bearing(m))].ref = m
    BY <1>4
  <2> HIDE DEF Bearing, refs
  <2>3. PayeesAre(rail'.payees)
    BY <1>2
  <2> QED BY <2>1, <2>2, <2>3, <1>2 DEF RailIs
<1>9. ASSUME NEW mid \in Mids, Bearers(railFile, mid) = Bearers(rail.payees, mid), ~Twice(mid)
      PROVE  (Known(mid)' <=> Known(mid)) /\ OnRail(mid)' = OnRail(mid)
  <2> DEFINE Of(f) == {i \in DOMAIN f : i = mid \/ f[i].ref = mid}
  <2>1. /\ Of(railFile) = Of(rail.payees)
        /\ \A i \in Of(rail.payees) : railFile[i] = rail.payees[i]
    <3>1. DOMAIN Bearers(railFile, mid) = Of(railFile)
          /\ DOMAIN Bearers(rail.payees, mid) = Of(rail.payees)
      BY DEF Bearers
    <3>2. \A i \in Of(railFile) : Bearers(railFile, mid)[i] = railFile[i]
      BY DEF Bearers
    <3>3. \A i \in Of(rail.payees) : Bearers(rail.payees, mid)[i] = rail.payees[i]
      BY DEF Bearers
    <3> HIDE DEF Of
    <3> QED BY <3>1, <3>2, <3>3, <1>9
  <2>2. mid \in DOMAIN railFile <=> mid \in DOMAIN rail.payees
    BY <2>1
  <2>3. \A i \in DOMAIN rail.payees : rail.payees[i].ref = mid =>
           i \in DOMAIN railFile /\ railFile[i].ref = mid
    BY <2>1
  <2>4. \A i \in DOMAIN railFile : railFile[i].ref = mid =>
           i \in DOMAIN rail.payees /\ rail.payees[i].ref = mid
    BY <2>1
  <2>5. mid \in refs <=> mid \in DOMAIN rail.byRef
    <3>1. ASSUME mid \in refs PROVE mid \in DOMAIN rail.byRef
      <4>1. PICK i \in DOMAIN railFile : railFile[i].ref = mid
        BY <3>1
      <4> QED BY <4>1, <2>4 DEF RailIs
    <3>2. ASSUME mid \in DOMAIN rail.byRef PROVE mid \in refs
      <4>1. rail.byRef[mid] \in DOMAIN rail.payees /\ rail.payees[rail.byRef[mid]].ref = mid
        BY <3>2 DEF RailIs
      <4> QED BY <4>1, <2>3, RegistryAssumption
    <3> QED BY <3>1, <3>2
  <2>6. Known(mid)' <=> Known(mid)
    <3> HIDE DEF refs, Bearing
    <3> QED BY <2>2, <2>5, <1>2 DEF Known
  <2>7. ASSUME mid \in DOMAIN rail.byRef PROVE Max(Bearing(mid)) = rail.byRef[mid]
    <3>1. mid \in refs
      BY <2>5, <2>7
    <3>2. Max(Bearing(mid)) \in DOMAIN railFile /\ railFile[Max(Bearing(mid))].ref = mid
      BY <3>1, <1>4
    <3>3. rail.byRef[mid] \in DOMAIN rail.payees /\ rail.payees[rail.byRef[mid]].ref = mid
      BY <2>7 DEF RailIs
    <3> HIDE DEF Bearing
    <3>4. Max(Bearing(mid)) \in DOMAIN rail.payees /\ rail.payees[Max(Bearing(mid))].ref = mid
      BY <3>2, <2>4
    <3> QED BY <3>3, <3>4, <1>9 DEF Twice
  <2>8. Known(mid) => /\ PayeeOf(mid)' = PayeeOf(mid)
                      /\ railFile[PayeeOf(mid)] = rail.payees[PayeeOf(mid)]
    <3>1. CASE mid \in DOMAIN rail.payees
      BY <3>1, <2>1, <2>2, <1>2 DEF PayeeOf
    <3>2. CASE mid \notin DOMAIN rail.payees /\ mid \in DOMAIN rail.byRef
      <4>1. PayeeOf(mid) = rail.byRef[mid]
        BY <3>2 DEF PayeeOf
      <4>2. PayeeOf(mid)' = Max(Bearing(mid))
        <5> HIDE DEF refs, Bearing
        <5> QED BY <3>2, <2>2, <2>5, <1>2 DEF PayeeOf
      <4>3. rail.byRef[mid] \in Of(rail.payees)
        BY <3>2 DEF RailIs
      <4> QED BY <4>1, <4>2, <4>3, <2>1, <2>7, <3>2
    <3> QED BY <3>1, <3>2 DEF Known
  <2> HIDE DEF refs, Bearing
  <2> QED BY <2>6, <2>8, <1>2 DEF OnRail
<1> QED BY <1>7, <1>8, <1>9
-----------------------------------------------------------------------------
(***************************************************************************)
(* The registry's own changes                                              *)
(***************************************************************************)

LEMMA AmendSaves ==
  ASSUME RegistryTypeOK, SavedBut, NEW r \in Registers, mem.seq <= r.seq,
         DOMAIN r.outlets \subseteq 1..r.seq, Amend(r)
  PROVE  /\ mem' \in Registers /\ saved' \in Registers
         /\ unsaved' \subseteq Mids /\ given' \subseteq 1..MaxIds /\ given \subseteq given'
         /\ SavedBut'
         /\ \A p \in given : Taken(p) => Taken(p)'
         /\ \A o \in DOMAIN r.outlets : o \in given' /\ Taken(o)'
<1>0. /\ mem \in Registers /\ saved \in Registers
      /\ unsaved \subseteq Mids /\ given \subseteq 1..MaxIds
  BY DEF RegistryTypeOK
<1>1. mem.seq \in Nat /\ saved.seq \in Nat /\ r.seq \in 0..MaxIds /\ MaxIds \in Nat
  BY <1>0, RegistryAssumption DEF Registers
<1>a. \A p \in given : p \in Nat
  BY <1>0, <1>1, UpToAreNaturals
<1>2. mem' = r /\ given' = given \cup DOMAIN r.outlets
  BY DEF Amend
<1>3. given' \subseteq 1..MaxIds
  <2>1. 1..r.seq \subseteq 1..MaxIds
    BY <1>1
  <2> QED BY <2>1, <1>0, <1>2
<1>4. Differing(mem, r) \subseteq Mids
  <2>1. \A o \in DOMAIN mem.outlets \cup DOMAIN r.outlets : MidOf[o] \in Mids
    BY <1>2, <1>3, RegistryAssumption DEF SavedBut
  <2> QED BY <2>1 DEF Differing
<1>5. ASSUME NEW o \in DOMAIN mem.outlets \cup DOMAIN r.outlets, MidOf[o] \notin Differing(mem, r)
      PROVE  o \in DOMAIN mem.outlets /\ o \in DOMAIN r.outlets /\ mem.outlets[o] = r.outlets[o]
  BY <1>5 DEF Differing
<1>6. CASE saved' = r /\ unsaved' = {}
  <2>1. SavedBut'
    BY <1>1, <1>2, <1>6 DEF SavedBut
  <2>2. \A p \in given : Taken(p) => Taken(p)'
    BY <1>a, <1>1, <1>2, <1>6 DEF Taken
  <2>3. \A o \in DOMAIN r.outlets : o \in given' /\ Taken(o)'
    BY <1>1, <1>2, <1>6 DEF Taken
  <2> QED BY <2>1, <2>2, <2>3, <1>0, <1>2, <1>3, <1>6
<1>7. CASE saved' = saved /\ unsaved' = unsaved \cup Differing(mem, r)
  <2>1. SavedBut'
    <3>1. ASSUME NEW o \in DOMAIN r.outlets \cup DOMAIN saved.outlets, MidOf[o] \notin unsaved'
          PROVE  /\ o \in DOMAIN r.outlets /\ o \in DOMAIN saved.outlets
                 /\ r.outlets[o] = saved.outlets[o]
      <4>1. MidOf[o] \notin Differing(mem, r) /\ MidOf[o] \notin unsaved
        BY <3>1, <1>7
      <4>2. o \in DOMAIN mem.outlets \cup DOMAIN saved.outlets
            => o \in DOMAIN mem.outlets /\ o \in DOMAIN saved.outlets
               /\ mem.outlets[o] = saved.outlets[o]
        BY <4>1 DEF SavedBut
      <4> QED BY <4>1, <4>2, <1>5
    <3> QED BY <3>1, <1>2, <1>7 DEF SavedBut
  <2>2. \A p \in given : Taken(p) => Taken(p)'
    BY <1>a, <1>1, <1>2, <1>7 DEF Taken
  <2>3. ASSUME NEW o \in DOMAIN r.outlets PROVE o \in given' /\ Taken(o)'
    <3>1. o \in Nat /\ o <= r.seq
      BY <1>1
    <3>2. MidOf[o] \notin unsaved' => o <= saved.seq
      <4>1. ASSUME MidOf[o] \notin unsaved' PROVE o \in DOMAIN saved.outlets
        BY <4>1, <1>2, <1>7, <2>1 DEF SavedBut
      <4> QED BY <4>1, <1>1 DEF SavedBut
    <3> QED BY <3>1, <3>2, <1>2, <1>7 DEF Taken
  <2>4. unsaved' \subseteq Mids
    BY <1>0, <1>4, <1>7
  <2> QED BY <2>1, <2>2, <2>3, <2>4, <1>0, <1>2, <1>3, <1>7
<1> QED BY <1>6, <1>7 DEF Amend

\* What is known at the rail stays that of an id that is taken, when nothing
\* that is known comes about.
LEMMA UsedStayTaken ==
  ASSUME UsedAreTaken, given \subseteq given', \A p \in given : Taken(p) => Taken(p)',
         hazy \cup Answered(Provisioners) \subseteq hazy' \cup Answered(Provisioners)',
         \A n \in Mids : Known(n)' => Known(n) \/ n \in hazy' \cup Answered(Provisioners)'
  PROVE  UsedAreTaken'
<1> SUFFICES ASSUME NEW n \in Mids, Known(n)', n \notin hazy' \cup Answered(Provisioners)'
             PROVE  \E p \in given' : MidOf[p] = n /\ Taken(p)'
  BY DEF UsedAreTaken
<1>1. Known(n) /\ n \notin hazy \cup Answered(Provisioners)
  OBVIOUS
<1>2. PICK p \in given : MidOf[p] = n /\ Taken(p)
  BY <1>1 DEF UsedAreTaken
<1> QED BY <1>2

\* A change that leaves the outlets it keeps as they are, and whose new ones
\* have new ids.
Grown(r) ==
  /\ r \in Registers /\ mem.seq <= r.seq /\ DOMAIN r.outlets \subseteq 1..r.seq
  /\ \A o \in DOMAIN r.outlets :
       \/ o \in DOMAIN mem.outlets /\ r.outlets[o] = mem.outlets[o]
       \/ o > mem.seq /\ r.outlets[o].told = Unregistered

LEMMA GrowingKeeps ==
  ASSUME RegistryInv, NEW r, Grown(r), Amend(r), UNCHANGED <<rail, railFile, errand, hazy>>
  PROVE  RegistryInv'
<1> USE DEF RegistryInv
<1>1. r \in Registers /\ mem.seq <= r.seq /\ DOMAIN r.outlets \subseteq 1..r.seq
  BY DEF Grown
<1>2. /\ mem' \in Registers /\ saved' \in Registers
      /\ unsaved' \subseteq Mids /\ given' \subseteq 1..MaxIds /\ given \subseteq given'
      /\ SavedBut'
      /\ \A p \in given : Taken(p) => Taken(p)'
      /\ \A o \in DOMAIN r.outlets : o \in given' /\ Taken(o)'
  BY <1>1, AmendSaves
<1>3. mem' = r
  BY DEF Amend
<1>4. RegistryTypeOK'
  BY <1>2 DEF RegistryTypeOK
<1>5. \A mid \in Mids : Known(mid)' = Known(mid) /\ OnRail(mid)' = OnRail(mid)
  BY DEF Known, OnRail, PayeeOf
<1>6. \A c \in Provisioners : Current(c)' = Current(c)
  BY DEF Current
<1>7. Answered(Provisioners)' = Answered(Provisioners)
  BY <1>6 DEF Answered
<1>8. UsedAreTaken'
  BY <1>2, <1>5, <1>7, UsedStayTaken
<1>9. RailIs' /\ PayeesAre(railFile')
  BY DEF RailIs, PayeesAre
<1>10. AnswersHold'
  BY <1>6 DEF AnswersHold, AnswerHolds, OnRail, Known, PayeeOf
<1>11. ASSUME NEW o \in DOMAIN r.outlets, MidOf[o] \notin hazy \cup Answered(Provisioners),
              ~Shared(o)'
       PROVE  r.outlets[o].told = OnRail(MidOf[o])
  <2>1. CASE o \in DOMAIN mem.outlets /\ r.outlets[o] = mem.outlets[o]
    <3>1. ~Shared(o)
      BY <1>2, <1>11 DEF Shared
    <3> QED BY <1>11, <2>1, <3>1 DEF OutletTellsTheRail
  <2>2. CASE o > mem.seq /\ r.outlets[o].told = Unregistered
    <3>1. MidOf[o] \in Mids
      BY <1>2, RegistryAssumption
    <3>2. ASSUME NEW p \in given, MidOf[p] = MidOf[o], Taken(p) PROVE FALSE
      <4>1. p = o
        BY <1>2, <1>11, <3>2 DEF Shared
      <4>2. o \in Nat /\ mem.seq \in Nat
        BY <1>1, <1>2, <4>1 DEF Registers, RegistryTypeOK
      <4> QED BY <2>2, <3>2, <4>1, <4>2 DEF Taken
    <3>3. ~Known(MidOf[o])
      BY <1>11, <3>1, <3>2 DEF UsedAreTaken
    <3> QED BY <3>3, <2>2 DEF OnRail
  <2> QED BY <2>1, <2>2 DEF Grown
<1>12. OutletTellsTheRail'
  <2>1. \A o \in DOMAIN r.outlets : MidOf[o] \in Mids
    BY <1>2, RegistryAssumption
  <2> QED BY <1>3, <1>5, <1>7, <1>11, <2>1 DEF OutletTellsTheRail
<1> QED BY <1>2, <1>4, <1>8, <1>9, <1>10, <1>12

LEMMA NewOutletTyped ==
  ASSUME NEW m \in Nat
  PROVE  NewOutlet(m) \in OutletRecords /\ NewOutlet(m).told = Unregistered
<1> QED BY DEF NewOutlet, OutletRecords

\* New outlets with new ids make a register grow, whatever merchants come.
LEMMA GrowsByOutlets ==
  ASSUME RegistryTypeOK, SavedBut, NEW r, NEW n \in 0..MaxIds, mem.seq <= n,
         NEW f \in Maps(Nat, OutletRecords),
         DOMAIN f \subseteq mem.seq + 1 .. n, \A o \in DOMAIN f : f[o].told = Unregistered,
         r \in [seq : {n}, batches : SUBSET Nat, merchants : Maps(Nat, Nat),
                outlets : {Joined(mem.outlets, f)}]
  PROVE  Grown(r)
<1>1. mem.seq \in Nat /\ mem.outlets \in Maps(Nat, OutletRecords) /\ n \in Nat
  BY RegistryAssumption DEF RegistryTypeOK, Registers
<1>2. r.seq = n /\ r.outlets = Joined(mem.outlets, f) /\ r.batches \subseteq Nat
      /\ r.merchants \in Maps(Nat, Nat)
  OBVIOUS
<1>3. /\ Joined(mem.outlets, f) \in Maps(Nat, OutletRecords)
      /\ DOMAIN r.outlets = DOMAIN mem.outlets \cup DOMAIN f
      /\ \A o \in DOMAIN mem.outlets : r.outlets[o] = mem.outlets[o]
      /\ \A o \in DOMAIN f \ DOMAIN mem.outlets : r.outlets[o] = f[o]
  <2>1. Joined(mem.outlets, f) \in Maps(Nat, OutletRecords)
    BY <1>1, JoinedMaps
  <2> QED BY <2>1, <1>2 DEF Joined
<1>4. r \in Registers
  BY <1>2, <1>3 DEF Registers
<1>5. DOMAIN r.outlets \subseteq 1..n
  BY <1>1, <1>3 DEF SavedBut
<1>6. \A o \in DOMAIN r.outlets :
       \/ o \in DOMAIN mem.outlets /\ r.outlets[o] = mem.outlets[o]
       \/ o > mem.seq /\ r.outlets[o].told = Unregistered
  BY <1>1, <1>3
<1> QED BY <1>2, <1>4, <1>5, <1>6 DEF Grown

LEMMA MerchantGrows ==
  ASSUME RegistryTypeOK, SavedBut, NEW count \in OpeningCounts, WithMerchant(mem, count).seq <= MaxIds
  PROVE  Grown(WithMerchant(mem, count))
<1> DEFINE m == mem.seq + 1
           f == [o \in m + 1 .. m + count |-> NewOutlet(m)]
           g == [x \in {m} |-> 0]
<1>1. mem.seq \in Nat /\ count \in Nat
  BY RegistryAssumption DEF RegistryTypeOK, Registers
<1>2. m \in Nat /\ m + count \in 0..MaxIds /\ mem.seq <= m + count
  <2>1. WithMerchant(mem, count).seq = m + count
    BY DEF WithMerchant, RegistryTypeOK, Registers
  <2> QED BY <2>1, <1>1, RegistryAssumption
<1>3. f \in Maps(Nat, OutletRecords) /\ DOMAIN f \subseteq mem.seq + 1 .. m + count
  <2>1. f \in [m + 1 .. m + count -> OutletRecords]
    BY <1>2, NewOutletTyped
  <2>2. m + 1 .. m + count \subseteq Nat
    BY <1>2
  <2>3. m + 1 .. m + count \subseteq mem.seq + 1 .. m + count
    BY <1>1
  <2> QED BY <2>1, <2>2, <2>3, MapsAre
<1>4. \A o \in DOMAIN f : f[o].told = Unregistered
  BY <1>2, NewOutletTyped
<1>5. mem.merchants \in Maps(Nat, Nat) /\ g \in Maps(Nat, Nat)
  BY <1>2, MapsAre DEF RegistryTypeOK, Registers
<1>6. Joined(mem.merchants, g) \in Maps(Nat, Nat)
  BY <1>5, JoinedMaps
<1>7. WithMerchant(mem, count)
      \in [seq : {m + count}, batches : SUBSET Nat, merchants : Maps(Nat, Nat),
           outlets : {Joined(mem.outlets, f)}]
  BY <1>6 DEF WithMerchant, RegistryTypeOK, Registers
<1> HIDE DEF f
<1> QED BY <1>2, <1>3, <1>4, <1>7, GrowsByOutlets

LEMMA OutletGrows ==
  ASSUME RegistryTypeOK, SavedBut, NEW m \in DOMAIN mem.merchants, WithOutlet(mem, m).seq <= MaxIds
  PROVE  Grown(WithOutlet(mem, m))
<1> DEFINE f == [o \in {mem.seq + 1} |-> NewOutlet(m)]
<1>1. /\ mem.seq \in Nat /\ m \in Nat /\ mem.merchants \in Maps(Nat, Nat)
      /\ mem.seq + 1 \in 0..MaxIds
  <2>1. WithOutlet(mem, m).seq = mem.seq + 1
    BY DEF WithOutlet, RegistryTypeOK, Registers
  <2> QED BY <2>1, MapsAre, RegistryAssumption DEF RegistryTypeOK, Registers
<1>2. f \in Maps(Nat, OutletRecords) /\ DOMAIN f \subseteq mem.seq + 1 .. mem.seq + 1
  BY <1>1, NewOutletTyped, MapsAre
<1>3. \A o \in DOMAIN f : f[o].told = Unregistered
  BY <1>1, NewOutletTyped
<1>4. WithOutlet(mem, m)
      \in [seq : {mem.seq + 1}, batches : SUBSET Nat, merchants : Maps(Nat, Nat),
           outlets : {Joined(mem.outlets, f)}]
  BY <1>1 DEF WithOutlet, RegistryTypeOK, Registers
<1> HIDE DEF f
<1> QED BY <1>1, <1>2, <1>3, <1>4, GrowsByOutlets

LEMMA BatchGrows ==
  ASSUME RegistryTypeOK, SavedBut, NEW shape \in BatchShapes, WithBatch(mem, shape).seq <= MaxIds
  PROVE  Grown(WithBatch(mem, shape))
<1> DEFINE b == mem.seq + 1
           ms == {b + i : i \in shape.merchants}
           new == (b + 1 .. b + shape.size) \ ms
           f == [o \in new |-> NewOutlet(Max({m \in ms : m < o}))]
           g == [m \in ms |-> b]
<1>1. mem.seq \in Nat /\ shape.size \in Nat /\ shape.merchants \subseteq 1..shape.size
      /\ 1 \in shape.merchants
  BY RegistryAssumption DEF RegistryTypeOK, Registers
<1>2. b \in Nat /\ b + shape.size \in 0..MaxIds /\ mem.seq <= b + shape.size
  <2>1. WithBatch(mem, shape).seq = b + shape.size
    BY DEF WithBatch, RegistryTypeOK, Registers
  <2> QED BY <2>1, <1>1, RegistryAssumption
<1>3. ms \subseteq b + 1 .. b + shape.size /\ b + 1 \in ms
  BY <1>1
<1>4. ASSUME NEW o \in new PROVE NewOutlet(Max({m \in ms : m < o})) \in OutletRecords
                               /\ NewOutlet(Max({m \in ms : m < o})).told = Unregistered
  <2> DEFINE below == {m \in ms : m < o}
  <2>1. o \in Nat /\ o > b + 1
    BY <1>2, <1>3
  <2>2. below \subseteq Nat /\ b + 1 \in below /\ \A m \in below : m <= o
    BY <1>2, <1>3, <2>1
  <2>3. Max(below) \in Nat
    <3> HIDE DEF below
    <3> QED BY <2>1, <2>2, MaxIsGreatest
  <2> HIDE DEF below
  <2>4. NewOutlet(Max(below)) \in OutletRecords /\ NewOutlet(Max(below)).told = Unregistered
    BY <2>3, NewOutletTyped
  <2> QED BY <2>4 DEF below
<1>5. f \in Maps(Nat, OutletRecords) /\ DOMAIN f \subseteq mem.seq + 1 .. b + shape.size
  <2>1. f \in [new -> OutletRecords]
    BY <1>4
  <2>2. new \subseteq Nat /\ new \subseteq mem.seq + 1 .. b + shape.size
    BY <1>1, <1>2
  <2> QED BY <2>1, <2>2, MapsAre
<1>6. \A o \in DOMAIN f : f[o].told = Unregistered
  BY <1>4
<1>7. mem.merchants \in Maps(Nat, Nat) /\ g \in Maps(Nat, Nat)
  <2>1. g \in [ms -> Nat] /\ ms \subseteq Nat
    BY <1>2, <1>3
  <2> QED BY <2>1, MapsAre DEF RegistryTypeOK, Registers
<1>8. Joined(mem.merchants, g) \in Maps(Nat, Nat)
  BY <1>7, JoinedMaps
<1>9. WithBatch(mem, shape)
      \in [seq : {b + shape.size}, batches : SUBSET Nat, merchants : Maps(Nat, Nat),
           outlets : {Joined(mem.outlets, f)}]
  BY <1>2, <1>8 DEF WithBatch, RegistryTypeOK, Registers
<1> HIDE DEF f, b
<1> QED BY <1>2, <1>5, <1>6, <1>9, GrowsByOutlets

LEMMA PartyGrows ==
  ASSUME RegistryTypeOK, SavedBut, [mem EXCEPT !.seq = @ + 1].seq <= MaxIds
  PROVE  Grown([mem EXCEPT !.seq = @ + 1])
<1>1. mem.seq \in Nat /\ mem.seq + 1 \in 0..MaxIds
  BY RegistryAssumption DEF RegistryTypeOK, Registers
<1> QED BY <1>1 DEF Grown, RegistryTypeOK, Registers, SavedBut

\* What is left of a register is a register, whichever batches stay.
LEMMA LeftGrows ==
  ASSUME RegistryTypeOK, SavedBut, NEW ms, NEW bs \in SUBSET Nat
  PROVE  /\ Grown(Without(mem, ms))
         /\ Grown([Without(mem, ms) EXCEPT !.batches = bs])
<1> DEFINE r == Without(mem, ms)
           q == [r EXCEPT !.batches = bs]
<1>1. /\ mem.seq \in Nat /\ mem.batches \subseteq Nat
      /\ mem.merchants \in Maps(Nat, Nat) /\ mem.outlets \in Maps(Nat, OutletRecords)
  BY DEF RegistryTypeOK, Registers
<1> DEFINE g == [m \in DOMAIN mem.merchants \ ms |-> mem.merchants[m]]
           f == [o \in DOMAIN mem.outlets \ OutletsOf(mem, ms) |-> mem.outlets[o]]
<1>2. g \in Maps(Nat, Nat) /\ f \in Maps(Nat, OutletRecords)
  BY <1>1, MapsAre
<1>3. /\ r \in Registers /\ q \in Registers /\ r.seq = mem.seq /\ q.seq = mem.seq
      /\ r.outlets = f /\ q.outlets = f
  BY <1>1, <1>2 DEF Without, RegistryTypeOK, Registers
<1>4. /\ DOMAIN f \subseteq 1..mem.seq
      /\ \A o \in DOMAIN f : o \in DOMAIN mem.outlets /\ f[o] = mem.outlets[o]
  BY DEF SavedBut
<1> HIDE DEF r, q, f
<1>5. Grown(r) /\ Grown(q)
  BY <1>1, <1>3, <1>4 DEF Grown
<1> QED BY <1>5 DEF r, q

LEMMA ChangesKeep ==
  ASSUME RegistryInv,
         AddMerchant \/ AddOutlet \/ AddBatch \/ AddParty \/ DeleteMerchant \/ DeleteBatch
  PROVE  RegistryInv'
<1>0. RegistryTypeOK /\ SavedBut
  BY DEF RegistryInv
<1>1. CASE AddMerchant
  BY <1>0, <1>1, MerchantGrows, GrowingKeeps DEF AddMerchant, Add
<1>2. CASE AddOutlet
  BY <1>0, <1>2, OutletGrows, GrowingKeeps DEF AddOutlet, Add
<1>3. CASE AddBatch
  BY <1>0, <1>3, BatchGrows, GrowingKeeps DEF AddBatch, Add
<1>4. CASE AddParty
  BY <1>0, <1>4, PartyGrows, GrowingKeeps DEF AddParty, Add
<1>5. CASE DeleteMerchant
  BY <1>0, <1>5, LeftGrows, GrowingKeeps DEF DeleteMerchant
<1>6. CASE DeleteBatch
  <2>1. PICK b \in mem.batches :
          Amend([Without(mem, BatchMerchants(b)) EXCEPT !.batches = @ \ {b}])
    BY <1>6 DEF DeleteBatch
  <2>2. [Without(mem, BatchMerchants(b)) EXCEPT !.batches = @ \ {b}]
        = [Without(mem, BatchMerchants(b)) EXCEPT !.batches = mem.batches \ {b}]
    BY <1>0 DEF Without, RegistryTypeOK, Registers
  <2>3. mem.batches \ {b} \in SUBSET Nat
    BY <1>0 DEF RegistryTypeOK, Registers
  <2>4. Grown([Without(mem, BatchMerchants(b)) EXCEPT !.batches = @ \ {b}])
    BY <1>0, <2>2, <2>3, LeftGrows
  <2> QED BY <2>1, <2>4, <1>6, GrowingKeeps DEF DeleteBatch
<1> QED BY <1>1, <1>2, <1>3, <1>4, <1>5, <1>6
-----------------------------------------------------------------------------
(***************************************************************************)
(* Provisioning                                                            *)
(***************************************************************************)

\* What provisioner c does with its errand leaves the others' as they are.
LEMMA OtherErrands ==
  ASSUME RegistryTypeOK, NEW c \in Provisioners, NEW e, errand' = [errand EXCEPT ![c] = e]
  PROVE  /\ errand'[c] = e
         /\ \A d \in Provisioners \ {c} : errand'[d] = errand[d] /\ Current(d)' = Current(d)
         /\ e \in Errands => errand' \in [Provisioners -> Errands]
<1> QED BY DEF RegistryTypeOK, Current

\* An errand with no answer on its way, before and after.
LEMMA TakingOutletsKeeps ==
  ASSUME RegistryInv, NEW c \in Provisioners, NEW e \in Errands,
         errand' = [errand EXCEPT ![c] = e], errand[c].step # "record", e.step # "record",
         UNCHANGED <<mem, saved, rail, railFile, given, hazy, unsaved>>
  PROVE  RegistryInv'
<1> USE DEF RegistryInv
<1>1. /\ errand'[c] = e
      /\ \A d \in Provisioners \ {c} : errand'[d] = errand[d] /\ Current(d)' = Current(d)
      /\ errand' \in [Provisioners -> Errands]
  BY OtherErrands
<1>2. RegistryTypeOK'
  BY <1>1 DEF RegistryTypeOK
<1>3. SavedBut'
  BY DEF SavedBut
<1>4. Answered(Provisioners)' = Answered(Provisioners)
  BY <1>1 DEF Answered
<1>5. UsedAreTaken'
  BY <1>4 DEF UsedAreTaken, Taken, Known
<1>6. RailIs' /\ PayeesAre(railFile')
  BY DEF RailIs, PayeesAre
<1>7. AnswersHold'
  BY <1>1 DEF AnswersHold, AnswerHolds, OnRail, Known, PayeeOf
<1>8. OutletTellsTheRail'
  BY <1>4 DEF OutletTellsTheRail, Shared, OnRail, Known, PayeeOf
<1> QED BY <1>2, <1>3, <1>5, <1>6, <1>7, <1>8

LEMMA BeginningKeeps ==
  ASSUME RegistryInv, NEW c \in Provisioners,
         ProvisionMerchant(c) \/ ProvisionBatch(c) \/ AskSanctions(c)
  PROVE  RegistryInv'
<1>0. RegistryTypeOK
  BY DEF RegistryInv
<1>1. DOMAIN mem.merchants \subseteq Nat
  BY <1>0, MapsAre DEF RegistryTypeOK, Registers
<1>2. ASSUME NEW e \in Errands, e.step # "record", BeginErrand(c, e),
             UNCHANGED <<mem, saved, rail, railFile, given, hazy, unsaved>>
      PROVE  RegistryInv'
  <2>1. errand[c].step # "record" /\ errand' = [errand EXCEPT ![c] = e]
    BY <1>2 DEF BeginErrand, NoErrand
  <2> QED BY <1>2, <2>1, TakingOutletsKeeps
<1>3. \A ms \in SUBSET Nat : Provision(ms) \in Errands /\ Provision(ms).step # "record"
  BY DEF Provision, Errands, CallErrands, IsErrand, Wants
<1>4. CASE ProvisionMerchant(c)
  BY <1>1, <1>2, <1>3, <1>4 DEF ProvisionMerchant
<1>5. CASE ProvisionBatch(c)
  <2>1. \A b : BatchMerchants(b) \subseteq Nat
    BY <1>1 DEF BatchMerchants
  <2> QED BY <1>2, <1>3, <1>5, <2>1 DEF ProvisionBatch
<1>6. CASE AskSanctions(c)
  <2>1. PICK mid \in Mids, standing \in Standings :
          BeginErrand(c, [merchants |-> {}, left |-> {mid}, step |-> "call", want |-> standing])
    BY <1>6 DEF AskSanctions
  <2> DEFINE e == [merchants |-> {}, left |-> {mid}, step |-> "call", want |-> standing]
  <2>2. e \in Errands /\ e.step # "record"
    BY RegistryAssumption DEF Errands, CallErrands, IsErrand, LeftFor, Wants
  <2> QED BY <1>2, <1>6, <2>1, <2>2 DEF AskSanctions
<1> QED BY <1>4, <1>5, <1>6

LEMMA TakingMerchantKeeps ==
  ASSUME RegistryInv, NEW c \in Provisioners, TakeMerchant(c)
  PROVE  RegistryInv'
<1>0. RegistryTypeOK /\ SavedBut
  BY DEF RegistryInv
<1> DEFINE m == Min(errand[c].merchants)
           e == [errand[c] EXCEPT !.merchants = @ \ {m}, !.left = OutletsOf(mem, {m})]
           f == IF e.merchants = {} /\ e.left = {} THEN NoErrand ELSE e
<1>1. errand[c] \in CallErrands
  BY <1>0 DEF TakeMerchant, RegistryTypeOK, Errands, NoErrand, RecordErrands
<1>2. OutletsOf(mem, {m}) \subseteq 1..MaxIds /\ OutletsOf(mem, {m}) \subseteq Nat
  BY <1>0, RegistryAssumption DEF OutletsOf, RegistryTypeOK, SavedBut
<1>3. errand[c].want = "register"
  BY <1>1 DEF TakeMerchant, CallErrands, IsErrand
<1>4. e \in CallErrands
  BY <1>1, <1>2, <1>3 DEF CallErrands, IsErrand, LeftFor
<1>5. errand' = [errand EXCEPT ![c] = f]
  BY DEF TakeMerchant, OnWith
<1>6. f \in Errands /\ f.step # "record"
  BY <1>4 DEF Errands, CallErrands, NoErrand
<1>7. errand[c].step # "record"
  BY <1>1 DEF CallErrands
<1>8. UNCHANGED <<mem, saved, rail, railFile, given, hazy, unsaved>>
  BY DEF TakeMerchant
<1> HIDE DEF f
<1> QED BY <1>5, <1>6, <1>7, <1>8, TakingOutletsKeeps

\* What a call makes of the rail and its file, and what it is answered with.
LEMMA CallIs ==
  ASSUME RegistryInv, NEW c \in Provisioners, Calling(c), NEW reply \in Replies(c), rail' = reply.rail,
         SaveRail, NEW mid, mid = Current(c)
  PROVE  /\ mid \in Mids /\ errand[c] \in CallErrands /\ errand[c].left # {}
         /\ rail' \in Rails /\ RailIs'
         /\ railFile' \in Maps(Int, PayeeRecords) /\ PayeesAre(railFile')
         /\ \A n \in Mids : Known(n)' <=> Known(n) \/ n = mid
         /\ \A n \in Mids \ {mid} : OnRail(n)' = OnRail(n)
         /\ reply.payee \in Payees
         /\ (errand[c].want = "register" => mid \notin DOMAIN rail.payees)
            => OnRail(mid)' = reply.payee
<1>0. RegistryTypeOK /\ RailIs /\ PayeesAre(railFile) /\ railFile \in Maps(Int, PayeeRecords)
  BY DEF RegistryInv, RegistryTypeOK
<1>1. mid \in Mids /\ errand[c] \in CallErrands /\ errand[c].left # {}
  BY <1>0, CurrentIsLeft DEF Calling
<1>2. ASSUME rail' \in Rails, RailIs'
      PROVE  railFile' \in Maps(Int, PayeeRecords) /\ PayeesAre(railFile')
  BY <1>0, <1>2, RailFileKeeps
<1>3. CASE errand[c].want = "register"
  <2>1. PICK id \in Undrawn :
          reply = [rail |-> Registered(mid, id), payee |-> [id |-> id, standing |-> "pass"]]
    BY <1>3 DEF Replies
  <2>2. rail' = Registered(mid, id) /\ reply.payee = [id |-> id, standing |-> "pass"]
    BY <2>1
  <2>3. reply.payee \in Payees
    BY <2>2, RegistryAssumption DEF Payees, Statuses, Undrawn
  <2>4. /\ rail' \in Rails /\ RailIs'
        /\ \A n \in Mids : Known(n)' <=> Known(n) \/ n = mid
        /\ \A n \in Mids \ {mid} : OnRail(n)' = OnRail(n)
        /\ mid \notin DOMAIN rail.payees => OnRail(mid)' = [id |-> id, standing |-> "pass"]
    BY <1>0, <1>1, <2>2, RegisteredRail
  <2> QED BY <1>1, <1>2, <1>3, <2>2, <2>3, <2>4
<1>4. CASE errand[c].want # "register"
  <2> DEFINE st == errand[c].want
             p == IF Known(mid) THEN PayeeOf(mid) ELSE mid
  <2>1. st \in Standings
    BY <1>1, <1>4 DEF CallErrands, Wants
  <2>2. rail' = Sanctioned(mid, st) /\ reply.payee = [id |-> p, standing |-> st]
    BY <1>4 DEF Replies
  <2> HIDE DEF st
  <2>3. /\ rail' \in Rails /\ RailIs'
        /\ \A n \in Mids : Known(n)' <=> Known(n) \/ n = mid
        /\ \A n \in Mids \ {mid} : OnRail(n)' = OnRail(n)
        /\ OnRail(mid)' = [id |-> p, standing |-> st]
        /\ Known(mid) => PayeeOf(mid) \in Int
    BY <1>0, <1>1, <2>1, <2>2, SanctionedRail
  <2>4. p \in Int
    BY <1>1, <2>3, RegistryAssumption
  <2>5. reply.payee \in Payees
    BY <2>1, <2>2, <2>4 DEF Payees, Statuses
  <2> QED BY <1>1, <1>2, <1>4, <2>2, <2>3, <2>5
<1> QED BY <1>3, <1>4

LEMMA CallKeeps ==
  ASSUME RegistryInv, NEW c \in Provisioners, CallRail(c)
  PROVE  RegistryInv'
<1>a. PICK mid : mid = Current(c)
  OBVIOUS
<1>b. PICK reply \in Replies(c) :
        /\ rail' = reply.rail
        /\ errand' = [errand EXCEPT ![c] =
                        [merchants |-> errand[c].merchants, left |-> errand[c].left,
                         want |-> errand[c].want, step |-> "record", payee |-> reply.payee]]
  BY DEF CallRail, RegistryInv, RegistryTypeOK
<1> DEFINE e == [merchants |-> errand[c].merchants, left |-> errand[c].left,
                 want |-> errand[c].want, step |-> "record", payee |-> reply.payee]
<1>0. RegistryTypeOK /\ SavedBut /\ UsedAreTaken /\ AnswersHold /\ OutletTellsTheRail
  BY DEF RegistryInv
<1>1. /\ mid \in Mids /\ errand[c] \in CallErrands /\ errand[c].left # {}
      /\ rail' \in Rails /\ RailIs'
      /\ railFile' \in Maps(Int, PayeeRecords) /\ PayeesAre(railFile')
      /\ \A n \in Mids : Known(n)' <=> Known(n) \/ n = mid
      /\ \A n \in Mids \ {mid} : OnRail(n)' = OnRail(n)
      /\ reply.payee \in Payees
      /\ (errand[c].want = "register" => mid \notin DOMAIN rail.payees)
         => OnRail(mid)' = reply.payee
  BY <1>a, <1>b, CallIs DEF CallRail
<1>2. errand' = [errand EXCEPT ![c] = e]
  BY <1>b
<1>3. e \in RecordErrands /\ e.step = "record" /\ e.left = errand[c].left /\ e.payee = reply.payee
      /\ e.want = errand[c].want
  BY <1>1 DEF CallErrands, RecordErrands, IsErrand
<1>4. /\ errand'[c] = e
      /\ \A d \in Provisioners \ {c} : errand'[d] = errand[d] /\ Current(d)' = Current(d)
      /\ errand' \in [Provisioners -> Errands]
  <2> HIDE DEF e
  <2> QED BY <1>0, <1>2, <1>3, OtherErrands DEF Errands
<1>5. Current(c)' = mid
  BY <1>a, <1>3, <1>4 DEF Current
<1> HIDE DEF e
<1>6. /\ UNCHANGED <<mem, saved, given, unsaved>>
      /\ hazy' = IF mid \in Answered(Provisioners \ {c})
                    \/ (errand[c].want = "register" /\ mid \in DOMAIN rail.payees)
                 THEN hazy \cup {mid} ELSE hazy \ {mid}
  BY <1>a DEF CallRail
<1>7. RegistryTypeOK'
  BY <1>0, <1>1, <1>4, <1>6 DEF RegistryTypeOK
<1>8. SavedBut'
  BY <1>0, <1>6 DEF SavedBut
<1>9. Answered(Provisioners)' = Answered(Provisioners) \cup {mid}
  <2>1. errand[c].step # "record" /\ errand'[c].step = "record"
    BY <1>1, <1>3, <1>4 DEF CallErrands
  <2> QED BY <2>1, <1>4, <1>5 DEF Answered
<1>10. UsedAreTaken'
  <2>1. hazy \cup Answered(Provisioners) \subseteq hazy' \cup Answered(Provisioners)'
    BY <1>6, <1>9
  <2>2. \A p \in given : Taken(p) => Taken(p)'
    BY <1>6 DEF Taken
  <2>3. \A n \in Mids : Known(n)' => Known(n) \/ n \in hazy' \cup Answered(Provisioners)'
    BY <1>1, <1>9
  <2> QED BY <2>1, <2>2, <2>3, <1>0, <1>6, UsedStayTaken
<1>11. AnswersHold'
  <2>1. ASSUME NEW d \in Provisioners, errand'[d].step = "record", Current(d)' \notin hazy'
        PROVE  /\ errand'[d].payee = OnRail(Current(d))'
               /\ \A x \in Provisioners \ {d} : errand'[x].step = "record" => Current(x)' # Current(d)'
    <3>1. CASE d = c
      <4>1. /\ mid \notin Answered(Provisioners \ {c})
            /\ errand[c].want = "register" => mid \notin DOMAIN rail.payees
        BY <2>1, <3>1, <1>5, <1>6
      <4>2. errand'[d].payee = OnRail(mid)'
        BY <3>1, <4>1, <1>1, <1>3, <1>4
      <4>3. \A x \in Provisioners \ {c} : errand[x].step = "record" => Current(x) # mid
        BY <4>1 DEF Answered
      <4> QED BY <3>1, <4>2, <4>3, <1>4, <1>5
    <3>2. CASE d # c
      <4>1. errand'[d] = errand[d] /\ Current(d)' = Current(d) /\ errand[d].step = "record"
        BY <3>2, <2>1, <1>4
      <4>2. Current(d) \in Mids
        BY <4>1, <1>0, RecordingHasOne
      <4>3. Current(d) # mid
        BY <2>1, <3>2, <4>1, <1>6 DEF Answered
      <4>4. Current(d) \notin hazy
        BY <2>1, <4>1, <4>3, <1>6
      <4>5. AnswerHolds(d)
        BY <1>0 DEF AnswersHold
      <4>6. errand[d].payee = OnRail(Current(d))'
        BY <4>1, <4>2, <4>3, <4>4, <4>5, <1>1 DEF AnswerHolds
      <4>7. \A x \in Provisioners \ {d} : errand'[x].step = "record" => Current(x)' # Current(d)
        BY <4>1, <4>3, <4>4, <4>5, <1>4, <1>5 DEF AnswerHolds
      <4> QED BY <4>1, <4>6, <4>7
    <3> QED BY <3>1, <3>2
  <2> QED BY <2>1 DEF AnswersHold, AnswerHolds
<1>12. OutletTellsTheRail'
  <2>1. \A o \in DOMAIN mem.outlets : MidOf[o] \in Mids
    BY <1>0, MidsOfOutlets
  <2>2. ASSUME NEW o \in DOMAIN mem.outlets, ~Shared(o),
               MidOf[o] \notin hazy' \cup Answered(Provisioners) \cup {mid}
        PROVE  mem.outlets[o].told = OnRail(MidOf[o])'
    <3>1. MidOf[o] \notin hazy
      BY <2>2, <1>6
    <3> QED BY <2>1, <2>2, <3>1, <1>0, <1>1 DEF OutletTellsTheRail
  <2>3. \A o : Shared(o)' <=> Shared(o)
    BY <1>6 DEF Shared
  <2> QED BY <2>2, <2>3, <1>6, <1>9 DEF OutletTellsTheRail
<1> QED BY <1>1, <1>7, <1>8, <1>10, <1>11, <1>12 DEF RegistryInv

\* An errand done with the outlet it is at has no answer on its way.
LEMMA GoingOn ==
  ASSUME RegistryTypeOK, NEW c \in Provisioners, NextOutlet(c), errand[c].left # {},
         errand[c].step \in {"call", "record"}
  PROVE  /\ errand' \in [Provisioners -> Errands]
         /\ errand'[c].step = "call"
         /\ \A d \in Provisioners \ {c} : errand'[d] = errand[d] /\ Current(d)' = Current(d)
<1> DEFINE e == [merchants |-> errand[c].merchants, left |-> errand[c].left \ {Min(errand[c].left)},
                 want |-> errand[c].want, step |-> "call"]
           f == IF e.merchants = {} /\ e.left = {} THEN NoErrand ELSE e
<1>1. errand[c] \in CallErrands \cup RecordErrands
  BY CurrentIsLeft
<1>2. e \in CallErrands
  BY <1>1 DEF CallErrands, RecordErrands, IsErrand
<1>3. errand' = [errand EXCEPT ![c] = f]
  BY DEF NextOutlet, OnWith
<1>4. f \in Errands /\ f.step = "call"
  BY <1>2 DEF Errands, NoErrand
<1> HIDE DEF f
<1> QED BY <1>3, <1>4, OtherErrands

LEMMA FailedCallKeeps ==
  ASSUME RegistryInv, NEW c \in Provisioners, CallRailFails(c)
  PROVE  RegistryInv'
<1>a. PICK mid : mid = Current(c)
  OBVIOUS
<1>0. /\ RegistryTypeOK /\ SavedBut /\ UsedAreTaken /\ RailIs /\ PayeesAre(railFile)
      /\ AnswersHold /\ OutletTellsTheRail
      /\ UNCHANGED <<mem, saved, given, unsaved>> /\ Calling(c)
  BY DEF RegistryInv, CallRailFails
<1>1. mid \in Mids /\ errand[c].step = "call" /\ errand[c].left # {}
  BY <1>a, <1>0, CurrentIsLeft DEF Calling
<1>2. /\ rail' \in Rails /\ RailIs'
      /\ railFile' \in Maps(Int, PayeeRecords) /\ PayeesAre(railFile')
      /\ \A n \in Mids : Known(n)' => Known(n) \/ (n = mid /\ mid \in hazy')
      /\ \A n \in Mids : OnRail(n)' = OnRail(n) \/ (n = mid /\ mid \in hazy')
      /\ hazy \subseteq hazy' /\ hazy' \subseteq Mids
  <2>1. CASE UNCHANGED <<rail, railFile, saveFails, hazy>>
    <3>1. RailIs' /\ PayeesAre(railFile')
      BY <1>0, <2>1 DEF RailIs, PayeesAre
    <3>2. \A n \in Mids : (Known(n)' <=> Known(n)) /\ OnRail(n)' = OnRail(n)
      BY <2>1 DEF OnRail, Known, PayeeOf
    <3>3. /\ rail' \in Rails /\ railFile' \in Maps(Int, PayeeRecords)
          /\ hazy' = hazy /\ hazy \subseteq Mids
      BY <1>0, <2>1 DEF RegistryTypeOK
    <3> QED BY <3>1, <3>2, <3>3
  <2>2. CASE (\E reply \in Replies(c) : rail' = reply.rail) /\ SaveRail /\ hazy' = hazy \cup {mid}
    <3>1. /\ rail' \in Rails /\ RailIs'
          /\ railFile' \in Maps(Int, PayeeRecords) /\ PayeesAre(railFile')
          /\ \A n \in Mids : Known(n)' <=> Known(n) \/ n = mid
          /\ \A n \in Mids \ {mid} : OnRail(n)' = OnRail(n)
      BY <1>a, <1>0, <2>2, CallIs
    <3>2. hazy \subseteq Mids
      BY <1>0 DEF RegistryTypeOK
    <3> QED BY <3>1, <3>2, <2>2, <1>1
  <2> QED BY <1>a, <2>1, <2>2 DEF CallRailFails
<1>3. /\ errand' \in [Provisioners -> Errands]
      /\ errand'[c].step = "call"
      /\ \A d \in Provisioners \ {c} : errand'[d] = errand[d] /\ Current(d)' = Current(d)
  BY <1>0, <1>1, GoingOn DEF CallRailFails
<1>4. RegistryTypeOK'
  BY <1>0, <1>2, <1>3 DEF RegistryTypeOK
<1>5. SavedBut'
  BY <1>0 DEF SavedBut
<1>6. Answered(Provisioners)' = Answered(Provisioners)
  BY <1>1, <1>3 DEF Answered
<1>7. UsedAreTaken'
  <2>1. \A p \in given : Taken(p) => Taken(p)'
    BY <1>0 DEF Taken
  <2> QED BY <2>1, <1>0, <1>2, <1>6, UsedStayTaken
<1>8. AnswersHold'
  <2>1. ASSUME NEW d \in Provisioners, errand'[d].step = "record", Current(d)' \notin hazy'
        PROVE  /\ errand'[d].payee = OnRail(Current(d))'
               /\ \A x \in Provisioners \ {d} : errand'[x].step = "record" => Current(x)' # Current(d)'
    <3>1. d # c /\ errand'[d] = errand[d] /\ Current(d)' = Current(d) /\ errand[d].step = "record"
      BY <2>1, <1>3
    <3>2. Current(d) \in Mids /\ Current(d) \notin hazy /\ AnswerHolds(d)
      BY <2>1, <3>1, <1>0, <1>2, RecordingHasOne DEF AnswersHold
    <3>3. errand[d].payee = OnRail(Current(d))
      BY <3>1, <3>2 DEF AnswerHolds
    <3>4. \A n \in Mids \ hazy' : OnRail(n)' = OnRail(n)
      BY <1>2
    <3>5. OnRail(Current(d))' = OnRail(Current(d))
      BY <2>1, <3>1, <3>2, <3>4
    <3>6. \A x \in Provisioners \ {d} : errand'[x].step = "record" => Current(x)' # Current(d)'
      BY <3>1, <3>2, <1>3 DEF AnswerHolds
    <3> QED BY <3>1, <3>3, <3>5, <3>6
  <2> QED BY <2>1 DEF AnswersHold, AnswerHolds
<1>9. OutletTellsTheRail'
  <2>1. \A o \in DOMAIN mem.outlets : MidOf[o] \in Mids
    BY <1>0, MidsOfOutlets
  <2>2. \A o : Shared(o)' <=> Shared(o)
    BY <1>0 DEF Shared
  <2>3. ASSUME NEW o \in DOMAIN mem.outlets, ~Shared(o), MidOf[o] \notin hazy',
               MidOf[o] \notin Answered(Provisioners)
        PROVE  mem.outlets[o].told = OnRail(MidOf[o])'
    BY <2>1, <2>3, <1>0, <1>2 DEF OutletTellsTheRail
  <2> QED BY <2>2, <2>3, <1>0, <1>6 DEF OutletTellsTheRail
<1> QED BY <1>2, <1>4, <1>5, <1>7, <1>8, <1>9 DEF RegistryInv

\* What an answer becomes while it is written is about a MID that is hazy.
LEMMA WritingAnswerKeeps ==
  ASSUME RegistryInv, NEW c \in Provisioners, WriteAnswer(c)
  PROVE  RegistryInv'
<1> DEFINE p == errand[c].payee
           e == [errand[c] EXCEPT !.payee.standing = rail.payees[p.id].standing]
<1>0. /\ RegistryTypeOK /\ SavedBut /\ UsedAreTaken /\ RailIs /\ PayeesAre(railFile)
      /\ AnswersHold /\ OutletTellsTheRail
      /\ UNCHANGED <<mem, saved, rail, railFile, given, hazy, unsaved>>
  BY DEF RegistryInv, WriteAnswer
<1>1. /\ errand[c].step = "record" /\ errand[c] \in RecordErrands /\ Current(c) \in Mids
      /\ p.id \in DOMAIN rail.payees /\ rail.payees[p.id].standing # p.standing
  BY <1>0, RecordingHasOne DEF WriteAnswer
<1>2. rail.payees[p.id] \in PayeeRecords
  BY <1>0, <1>1, MapsAre DEF RegistryTypeOK, Rails
<1>3. e \in RecordErrands /\ e.step = "record" /\ e.left = errand[c].left /\ e.want = errand[c].want
  BY <1>1, <1>2 DEF RecordErrands, IsErrand, Payees, PayeeRecords
<1>4. errand' = [errand EXCEPT ![c] = e]
  BY <1>0 DEF WriteAnswer, RegistryTypeOK
<1>5. /\ errand'[c] = e
      /\ \A d \in Provisioners \ {c} : errand'[d] = errand[d] /\ Current(d)' = Current(d)
      /\ errand' \in [Provisioners -> Errands]
  <2> HIDE DEF e
  <2> QED BY <1>0, <1>3, <1>4, OtherErrands DEF Errands
<1>6. Current(c)' = Current(c)
  BY <1>3, <1>5 DEF Current
<1> HIDE DEF e
<1>7. Current(c) \in hazy
  <2> SUFFICES ASSUME p = OnRail(Current(c)) PROVE FALSE
    BY <1>0, <1>1 DEF AnswersHold, AnswerHolds
  <2>1. p.id \in Mids \cup PayeeIds /\ p \in Payees
    BY <1>0, <1>1 DEF RailIs, PayeesAre, RecordErrands
  <2>2. p # Unregistered
    BY <2>1, RegistryAssumption DEF Payees, Statuses
  <2> HIDE DEF p
  <2>3. p.standing = rail.payees[p.id].standing
    BY <2>2 DEF OnRail
  <2> QED BY <2>3, <1>1
<1>8. Answered(Provisioners)' = Answered(Provisioners)
  BY <1>1, <1>3, <1>5, <1>6 DEF Answered
<1>9. \A n : /\ (Known(n)' <=> Known(n)) /\ OnRail(n)' = OnRail(n)
             /\ (Taken(n)' <=> Taken(n)) /\ (Shared(n)' <=> Shared(n))
  BY <1>0 DEF OnRail, Known, PayeeOf, Taken, Shared
<1>10. RegistryTypeOK' /\ SavedBut' /\ RailIs' /\ PayeesAre(railFile')
  BY <1>0, <1>5 DEF RegistryTypeOK, SavedBut, RailIs, PayeesAre
<1>11. UsedAreTaken'
  BY <1>0, <1>8, <1>9 DEF UsedAreTaken
<1>12. AnswersHold'
  <2>1. ASSUME NEW d \in Provisioners PROVE AnswerHolds(d)'
    <3>1. CASE d = c
      BY <3>1, <1>0, <1>6, <1>7 DEF AnswerHolds
    <3>2. CASE d # c
      <4>1. errand'[d] = errand[d] /\ Current(d)' = Current(d) /\ AnswerHolds(d)
        BY <3>2, <1>0, <1>5 DEF AnswersHold
      <4>2. \A x \in Provisioners : errand'[x].step = "record" => errand[x].step = "record"
                                  /\ Current(x)' = Current(x)
        BY <1>1, <1>5, <1>6
      <4> QED BY <4>1, <4>2, <1>0, <1>9 DEF AnswerHolds
    <3> QED BY <3>1, <3>2
  <2> QED BY <2>1 DEF AnswersHold
<1>13. OutletTellsTheRail'
  BY <1>0, <1>8, <1>9 DEF OutletTellsTheRail
<1> QED BY <1>10, <1>11, <1>12, <1>13 DEF RegistryInv

\* What recording an answer in outlet q makes of the registry.
LEMMA RecordingSaves ==
  ASSUME RegistryTypeOK, SavedBut, NEW q \in DOMAIN mem.outlets, NEW payee \in Payees,
         Amend(Recorded(mem, q, payee))
  PROVE  /\ mem' \in Registers /\ saved' \in Registers
         /\ unsaved' \subseteq Mids /\ given' \subseteq 1..MaxIds /\ given \subseteq given'
         /\ SavedBut'
         /\ \A p \in given : Taken(p) => Taken(p)'
         /\ DOMAIN mem'.outlets = DOMAIN mem.outlets
         /\ \A o \in DOMAIN mem.outlets \ {q} : mem'.outlets[o] = mem.outlets[o]
         /\ q \in given' /\ Taken(q)' /\ mem'.outlets[q].told = payee
<1> DEFINE r == Recorded(mem, q, payee)
           o2 == [mem.outlets EXCEPT ![q].told = payee]
<1>0. DOMAIN mem.outlets \subseteq Nat /\ mem \in Registers /\ mem.seq \in Nat
      /\ mem.outlets \in [DOMAIN mem.outlets -> OutletRecords]
  BY MapsAre DEF RegistryTypeOK, Registers
<1>1. r = [mem EXCEPT !.outlets = o2]
  BY <1>0 DEF Recorded, Registers
<1>2. /\ o2 \in [DOMAIN mem.outlets -> OutletRecords]
      /\ \A o \in DOMAIN mem.outlets \ {q} : o2[o] = mem.outlets[o]
      /\ o2[q].told = payee
  BY <1>0 DEF OutletRecords
<1>3. o2 \in Maps(Nat, OutletRecords) /\ DOMAIN o2 = DOMAIN mem.outlets
  BY <1>2, <1>0, MapsAre
<1> HIDE DEF o2
<1>4. r \in Registers /\ r.seq = mem.seq /\ r.outlets = o2
  BY <1>1, <1>3, <1>0 DEF Registers
<1>5. mem.seq <= r.seq /\ DOMAIN r.outlets \subseteq 1..r.seq
  BY <1>0, <1>3, <1>4 DEF SavedBut
<1>6. Amend(r)
  OBVIOUS
<1> HIDE DEF r
<1>7. /\ mem' \in Registers /\ saved' \in Registers
      /\ unsaved' \subseteq Mids /\ given' \subseteq 1..MaxIds /\ given \subseteq given'
      /\ SavedBut'
      /\ \A p \in given : Taken(p) => Taken(p)'
      /\ \A o \in DOMAIN r.outlets : o \in given' /\ Taken(o)'
  BY <1>4, <1>5, <1>6, AmendSaves
<1>8. mem' = r
  BY <1>6 DEF Amend
<1> QED BY <1>2, <1>3, <1>4, <1>7, <1>8

LEMMA RecordKeeps ==
  ASSUME RegistryInv, NEW c \in Provisioners, RecordPayee(c)
  PROVE  RegistryInv'
<1>a. PICK mid : mid = Current(c)
  OBVIOUS
<1> DEFINE payee == errand[c].payee
           there == {o \in DOMAIN mem.outlets : MidOf[o] = mid}
<1>0. /\ RegistryTypeOK /\ SavedBut /\ UsedAreTaken /\ RailIs /\ PayeesAre(railFile)
      /\ AnswersHold /\ OutletTellsTheRail
      /\ UNCHANGED <<rail, railFile>>
  BY DEF RegistryInv, RecordPayee
<1>1. /\ errand[c].step = "record" /\ errand[c] \in RecordErrands /\ errand[c].left # {}
      /\ mid \in Mids /\ payee \in Payees
  BY <1>a, <1>0, RecordingHasOne DEF RecordPayee, RecordErrands
<1>2. /\ errand' \in [Provisioners -> Errands]
      /\ errand'[c].step = "call"
      /\ \A d \in Provisioners \ {c} : errand'[d] = errand[d] /\ Current(d)' = Current(d)
  BY <1>0, <1>1, GoingOn DEF RecordPayee
<1>3. DOMAIN mem.outlets \subseteq Nat /\ mem \in Registers /\ mem.seq \in Nat
      /\ mem.outlets \in [DOMAIN mem.outlets -> OutletRecords]
  BY <1>0, MapsAre DEF RegistryTypeOK, Registers
<1>4. /\ mem' \in Registers /\ saved' \in Registers
      /\ unsaved' \subseteq Mids /\ given' \subseteq 1..MaxIds /\ given \subseteq given'
      /\ SavedBut'
      /\ \A p \in given : Taken(p) => Taken(p)'
      /\ hazy \subseteq hazy' /\ hazy' \subseteq Mids
      /\ DOMAIN mem'.outlets = DOMAIN mem.outlets
      /\ \A o \in DOMAIN mem.outlets : o \notin there => mem'.outlets[o] = mem.outlets[o]
      /\ \/ mid \in hazy'
         \/ \E o \in there : o \in given' /\ Taken(o)' /\ mem'.outlets[o].told = payee
  <2>1. ASSUME NEW q \in there, Amend(Recorded(mem, q, payee)), UNCHANGED hazy
        PROVE  /\ mem' \in Registers /\ saved' \in Registers
               /\ unsaved' \subseteq Mids /\ given' \subseteq 1..MaxIds /\ given \subseteq given'
               /\ SavedBut'
               /\ \A p \in given : Taken(p) => Taken(p)'
               /\ hazy \subseteq hazy' /\ hazy' \subseteq Mids
               /\ DOMAIN mem'.outlets = DOMAIN mem.outlets
               /\ \A o \in DOMAIN mem.outlets : o \notin there => mem'.outlets[o] = mem.outlets[o]
               /\ \E o \in there : o \in given' /\ Taken(o)' /\ mem'.outlets[o].told = payee
    <3>1. hazy' = hazy /\ hazy \subseteq Mids
      BY <2>1, <1>0 DEF RegistryTypeOK
    <3> HIDE DEF payee
    <3> QED BY <2>1, <3>1, <1>0, <1>1, RecordingSaves
  <2>2. CASE there = {} /\ hazy' = hazy \cup {mid} /\ UNCHANGED <<mem, saved, given, unsaved>>
    BY <2>2, <1>0, <1>1 DEF RegistryTypeOK, SavedBut, Taken
  <2> QED BY <1>a, <2>1, <2>2 DEF RecordPayee
<1>5. RegistryTypeOK'
  BY <1>0, <1>2, <1>4 DEF RegistryTypeOK
<1>6. \A n \in Mids : Known(n)' = Known(n) /\ OnRail(n)' = OnRail(n)
  BY <1>0 DEF Known, OnRail, PayeeOf
<1>7. Answered(Provisioners) \subseteq Answered(Provisioners)' \cup {mid}
  BY <1>a, <1>1, <1>2 DEF Answered
<1>8. UsedAreTaken'
  <2>1. ASSUME NEW n \in Mids, Known(n)', n \notin hazy' \cup Answered(Provisioners)'
        PROVE  \E p \in given' : MidOf[p] = n /\ Taken(p)'
    <3>1. CASE n = mid
      BY <2>1, <3>1, <1>4
    <3>2. CASE n # mid
      <4>1. Known(n) /\ n \notin hazy \cup Answered(Provisioners)
        BY <2>1, <3>2, <1>4, <1>6, <1>7
      <4>2. PICK p \in given : MidOf[p] = n /\ Taken(p)
        BY <4>1, <1>0 DEF UsedAreTaken
      <4> QED BY <4>2, <1>4
    <3> QED BY <3>1, <3>2
  <2> QED BY <2>1 DEF UsedAreTaken
<1>9. RailIs' /\ PayeesAre(railFile')
  BY <1>0 DEF RailIs, PayeesAre
<1>10. AnswersHold'
  <2>1. ASSUME NEW d \in Provisioners, errand'[d].step = "record", Current(d)' \notin hazy'
        PROVE  /\ errand'[d].payee = OnRail(Current(d))'
               /\ \A x \in Provisioners \ {d} : errand'[x].step = "record" => Current(x)' # Current(d)'
    <3>1. d # c /\ errand'[d] = errand[d] /\ Current(d)' = Current(d) /\ errand[d].step = "record"
      BY <2>1, <1>2
    <3>2. Current(d) \in Mids /\ Current(d) \notin hazy /\ AnswerHolds(d)
      BY <2>1, <3>1, <1>0, <1>4, RecordingHasOne DEF AnswersHold
    <3>3. errand[d].payee = OnRail(Current(d))
      BY <3>1, <3>2 DEF AnswerHolds
    <3>4. OnRail(Current(d))' = OnRail(Current(d))
      BY <3>1, <3>2, <1>6
    <3>5. \A x \in Provisioners \ {d} : errand'[x].step = "record" => Current(x)' # Current(d)'
      BY <3>1, <3>2, <1>2 DEF AnswerHolds
    <3> QED BY <3>1, <3>3, <3>4, <3>5
  <2> QED BY <2>1 DEF AnswersHold, AnswerHolds
<1>11. OutletTellsTheRail'
  <2>1. \A o \in DOMAIN mem.outlets : MidOf[o] \in Mids
    BY <1>0, MidsOfOutlets
  <2>2. ASSUME NEW o \in DOMAIN mem.outlets, ~Shared(o)',
               MidOf[o] \notin hazy', MidOf[o] \notin Answered(Provisioners)'
        PROVE  mem'.outlets[o].told = OnRail(MidOf[o])
    <3>1. CASE MidOf[o] = mid
      <4>1. PICK q \in there : q \in given' /\ mem'.outlets[q].told = payee
        BY <2>2, <3>1, <1>4
      <4>2. q = o
        BY <2>2, <3>1, <4>1 DEF Shared
      <4>3. payee = OnRail(mid)
        BY <2>2, <3>1, <1>a, <1>0, <1>1, <1>4 DEF AnswersHold, AnswerHolds, RecordPayee
      <4> QED BY <3>1, <4>1, <4>2, <4>3
    <3>2. CASE MidOf[o] # mid
      <4>1. ~Shared(o) /\ mem'.outlets[o] = mem.outlets[o]
        BY <2>2, <3>2, <1>4 DEF Shared
      <4> QED BY <2>2, <3>2, <4>1, <1>0, <1>4, <1>7 DEF OutletTellsTheRail
    <3> QED BY <3>1, <3>2
  <2> QED BY <2>1, <2>2, <1>4, <1>6 DEF OutletTellsTheRail
<1> QED BY <1>4, <1>5, <1>8, <1>9, <1>10, <1>11 DEF RegistryInv
-----------------------------------------------------------------------------
(***************************************************************************)
(* Restarts                                                                *)
(***************************************************************************)

LEMMA RegistryRestartKeeps ==
  ASSUME RegistryInv, RestartRegistry
  PROVE  RegistryInv'
<1>0. /\ RegistryTypeOK /\ SavedBut /\ UsedAreTaken /\ RailIs /\ PayeesAre(railFile)
      /\ OutletTellsTheRail
      /\ mem' = saved /\ saved' = saved /\ UNCHANGED <<rail, railFile, given>>
      /\ errand' = [c \in Provisioners |-> NoErrand]
      /\ hazy' = hazy \cup Answered(Provisioners) \cup unsaved /\ unsaved' = {}
  BY DEF RegistryInv, RestartRegistry, Loaded
<1>1. \A c \in Provisioners : errand'[c].step # "record"
  BY <1>0 DEF NoErrand
<1>2. \A n : (Known(n)' <=> Known(n)) /\ OnRail(n)' = OnRail(n) /\ (Shared(n)' <=> Shared(n))
  BY <1>0 DEF Known, OnRail, PayeeOf, Shared
<1>3. RegistryTypeOK'
  BY <1>0, AnsweredAre DEF RegistryTypeOK, Errands
<1>4. SavedBut'
  BY <1>0 DEF SavedBut
<1>5. UsedAreTaken'
  <2>1. \A p \in given : Taken(p) /\ MidOf[p] \notin hazy' => Taken(p)'
    BY <1>0 DEF Taken, RegistryTypeOK
  <2> QED BY <2>1, <1>0, <1>2 DEF UsedAreTaken
<1>6. RailIs' /\ PayeesAre(railFile')
  BY <1>0 DEF RailIs, PayeesAre
<1>7. AnswersHold'
  BY <1>1 DEF AnswersHold, AnswerHolds
<1>8. OutletTellsTheRail'
  <2>1. ASSUME NEW o \in DOMAIN saved.outlets, MidOf[o] \notin hazy', ~Shared(o)
        PROVE  saved.outlets[o].told = OnRail(MidOf[o])
    BY <2>1, <1>0 DEF SavedBut, OutletTellsTheRail
  <2> QED BY <2>1, <1>0, <1>2 DEF OutletTellsTheRail
<1> QED BY <1>3, <1>4, <1>5, <1>6, <1>7, <1>8 DEF RegistryInv

LEMMA RailRestartKeeps ==
  ASSUME RegistryInv, RestartRail
  PROVE  RegistryInv'
<1>0. /\ RegistryTypeOK /\ SavedBut /\ UsedAreTaken /\ RailIs /\ PayeesAre(railFile)
      /\ AnswersHold /\ OutletTellsTheRail
      /\ rail' = Restored(railFile) /\ UNCHANGED <<mem, saved, railFile, errand, given, unsaved>>
      /\ hazy' = hazy \cup {mid \in Mids : Bearers(railFile, mid) # Bearers(rail.payees, mid)
                                            \/ Twice(mid)}
  BY DEF RegistryInv, RestartRail
<1>1. /\ rail' \in Rails /\ RailIs'
      /\ \A n \in Mids \ hazy' : (Known(n)' <=> Known(n)) /\ OnRail(n)' = OnRail(n)
  BY <1>0, RestoredRail
<1>2. /\ \A c \in Provisioners : Current(c)' = Current(c)
      /\ Answered(Provisioners)' = Answered(Provisioners)
  BY <1>0 DEF Current, Answered
<1>3. hazy \subseteq hazy' /\ hazy' \subseteq Mids
  BY <1>0 DEF RegistryTypeOK
<1>4. RegistryTypeOK'
  BY <1>0, <1>1, <1>3 DEF RegistryTypeOK
<1>5. SavedBut' /\ PayeesAre(railFile')
  BY <1>0 DEF SavedBut, PayeesAre
<1>6. UsedAreTaken'
  <2>1. \A p \in given : Taken(p) => Taken(p)'
    BY <1>0 DEF Taken
  <2>2. \A n \in Mids : Known(n)' => Known(n) \/ n \in hazy' \cup Answered(Provisioners)'
    BY <1>1
  <2> QED BY <2>1, <2>2, <1>0, <1>2, <1>3, UsedStayTaken
<1>7. AnswersHold'
  <2>1. ASSUME NEW d \in Provisioners, errand'[d].step = "record", Current(d)' \notin hazy'
        PROVE  /\ errand'[d].payee = OnRail(Current(d))'
               /\ \A x \in Provisioners \ {d} : errand'[x].step = "record" => Current(x)' # Current(d)'
    <3>1. errand[d].step = "record" /\ Current(d)' = Current(d) /\ AnswerHolds(d)
      BY <2>1, <1>0, <1>2 DEF AnswersHold
    <3>2. Current(d) \in Mids /\ Current(d) \notin hazy
      BY <2>1, <3>1, <1>0, <1>3, RecordingHasOne
    <3>3. errand[d].payee = OnRail(Current(d)) /\ OnRail(Current(d))' = OnRail(Current(d))
      BY <2>1, <3>1, <3>2, <1>1 DEF AnswerHolds
    <3>4. \A x \in Provisioners \ {d} : errand'[x].step = "record" => Current(x)' # Current(d)'
      BY <3>1, <3>2, <1>0, <1>2 DEF AnswerHolds
    <3> QED BY <3>1, <3>3, <3>4, <1>0
  <2> QED BY <2>1 DEF AnswersHold, AnswerHolds
<1>8. OutletTellsTheRail'
  <2>1. \A o \in DOMAIN mem.outlets : MidOf[o] \in Mids
    BY <1>0, MidsOfOutlets
  <2>2. \A o : Shared(o)' <=> Shared(o)
    BY <1>0 DEF Shared
  <2>3. ASSUME NEW o \in DOMAIN mem.outlets, ~Shared(o), MidOf[o] \notin hazy',
               MidOf[o] \notin Answered(Provisioners)
        PROVE  mem.outlets[o].told = OnRail(MidOf[o])'
    BY <2>1, <2>3, <1>0, <1>1 DEF OutletTellsTheRail
  <2> QED BY <2>2, <2>3, <1>0, <1>2 DEF OutletTellsTheRail
<1> QED BY <1>1, <1>4, <1>5, <1>6, <1>7, <1>8 DEF RegistryInv

LEMMA RegistryStutters ==
  ASSUME RegistryInv, UNCHANGED registryVars
  PROVE  RegistryInv'
<1>u. /\ mem' = mem /\ saved' = saved /\ rail' = rail /\ railFile' = railFile
      /\ errand' = errand /\ given' = given /\ hazy' = hazy /\ unsaved' = unsaved
  BY DEF registryVars
<1>1. \A c : Current(c)' = Current(c)
  BY <1>u DEF Current
<1>2. Answered(Provisioners)' = Answered(Provisioners)
  BY <1>u, <1>1 DEF Answered
<1>3. \A m : Known(m)' = Known(m) /\ OnRail(m)' = OnRail(m)
  BY <1>u DEF Known, OnRail, PayeeOf
<1>4. RegistryTypeOK'
  BY <1>u DEF RegistryInv, RegistryTypeOK
<1>5. SavedBut'
  BY <1>u DEF RegistryInv, SavedBut
<1>6. UsedAreTaken'
  BY <1>u, <1>2, <1>3 DEF RegistryInv, UsedAreTaken, Taken
<1>7. RailIs' /\ PayeesAre(railFile)'
  BY <1>u DEF RegistryInv, RailIs, PayeesAre
<1>8. AnswersHold'
  BY <1>u, <1>1, <1>3 DEF RegistryInv, AnswersHold, AnswerHolds
<1>9. OutletTellsTheRail'
  BY <1>u, <1>2, <1>3 DEF RegistryInv, OutletTellsTheRail, Shared
<1> QED BY <1>4, <1>5, <1>6, <1>7, <1>8, <1>9 DEF RegistryInv

LEMMA RegistryInvariant == RegistrySpec => []RegistryInv
<1>1. RegistryInv /\ [RegistryNext]_registryVars => RegistryInv'
  BY ChangesKeep, BeginningKeeps, TakingMerchantKeeps, CallKeeps, FailedCallKeeps,
     WritingAnswerKeeps, RecordKeeps, RegistryRestartKeeps, RailRestartKeeps, RegistryStutters
  DEF RegistryNext, Provisioning
<1> QED BY <1>1, RegistryInitially, PTL DEF RegistrySpec

\* However many provisioners are at work, whatever answers and saves are lost,
\* and whichever side is restarted, an outlet says of the rail what is so
\* there, unless another id was hashed to its MID, it changed since the last
\* save, an answer about it was lost or met another, or the rail came back
\* without its payee or had two (provision.go, Restore).
THEOREM OutletsTellTheRail == RegistrySpec => []OutletTellsTheRail
<1> QED BY RegistryInvariant, PTL DEF RegistryInv

\* The registry in memory, the one saved, the rail's payees, their file and the
\* errands keep their types: the counter stays in its bound, every id is a
\* number, every map has one answer for it.
THEOREM RegistryTyped == RegistrySpec => []RegistryTypeOK
<1> QED BY RegistryInvariant, PTL DEF RegistryInv
-----------------------------------------------------------------------------
(***************************************************************************)
(* The directory                                                           *)
(***************************************************************************)

IsRequest(r) ==
  /\ DOMAIN r = {"step", "ask", "held", "blocked", "claim"}
  /\ r.step \in {"work", "add", "pay", "save", "copy", "write"}

IsDirectory(d) ==
  /\ DOMAIN d = {"companies", "refs", "addresses", "people", "extended", "documents", "vibans"}
  /\ DOMAIN d.companies \subseteq Ids /\ \A r \in DOMAIN d.refs : d.refs[r] \in Ids
  /\ \A k \in DOMAIN d.vibans : k = <<k[1], k[2]>>

IsSave(s) == DOMAIN s = {"dir", "byID", "crossed", "beside", "passed"} /\ IsDirectory(s.dir)

\* The shape of what is remembered, of the requests and of their saves.
DirectoryShape ==
  /\ IsDirectory(dir) /\ DOMAIN bens = {"byID", "byRef"}
  /\ IsDirectory(file.dir) /\ DOMAIN file = {"dir", "byID"}
  /\ DOMAIN caller = Callers
  /\ \A c \in Callers : caller[c] = Free \/ IsRequest(caller[c])
  /\ DOMAIN saver = {c \in Callers : caller[c].step \in {"copy", "write"}}
  /\ \A c \in DOMAIN saver : IsSave(saver[c])

\* What a client was told is what directory d has.
Backed(t, d) ==
  \/ \E r \in DOMAIN d.refs : t.key = <<"company", r>> /\ d.refs[r] = t.id
  \/ \E n \in DOMAIN d.extended : t.key = <<"extended", n>> /\ d.extended[n] = t.id
  \/ \E k \in DOMAIN d.vibans : t.key = <<"viban", k[1], k[2]>> /\ d.vibans[k] = t.id
  \/ t.key = <<"any", t.id>>

\* What is kept is in the file, and in every copy that may come to be.
CreatedAre ==
  \A t \in created :
    /\ Backed(t, dir)
    /\ t.kept => Backed(t, file.dir) /\ \A d \in DOMAIN saver : Backed(t, saver[d].dir)

\* What a request will tell of, if it tells of anything.
Made(c) == Creation(caller[c].ask, caller[c].held, TRUE)

InSave(c) == caller[c].step \in {"save", "copy", "write"}

\* A request on its way to an answer still means the company it found, and
\* the directory has what it made there.
Making(c) ==
  /\ caller[c].step = "add" /\ caller[c].ask.kind = "extended" =>
       caller[c].held # 0 /\ caller[c].held = ResolveCompany(caller[c].ask.of)
  /\ InSave(c) => Backed(Made(c), dir)
  /\ InSave(c) /\ caller[c].ask.kind \in {"extended", "viban"} =>
       ResolveCompany(caller[c].ask.of) # 0

\* A save has what its request made.  One that began alone has begun before
\* every other, and they all have it; and so has the file, once one of them
\* was there first.
SavesHave ==
  /\ \A c \in DOMAIN saver : Backed(Made(c), saver[c].dir)
  /\ \A c, d \in DOMAIN saver : ~saver[c].crossed => Backed(Made(c), saver[d].dir)
  /\ \A c \in DOMAIN saver : ~saver[c].crossed /\ saver[c].passed => Backed(Made(c), file.dir)

MakingHolds == (\A c \in Callers : Making(c)) /\ SavesHave

BlocksIn(byID, n) == n \in DOMAIN byID /\ Blocks(byID[n])

Writing == {d \in DOMAIN saver : caller[d].step = "write"}

\* Who is blocked is so in the store; and, if that is kept, in the file and in
\* every copy of the payees.
BlockedAre ==
  \A t \in blocked :
    /\ BlocksIn(bens.byID, t.payee)
    /\ t.kept => /\ BlocksIn(file.byID, t.payee)
                 /\ \A d \in Writing : BlocksIn(saver[d].byID, t.payee)

\* Likewise whom a request will tell of.
ClaimsAre ==
  /\ \A c \in Callers : caller[c].step # "free" =>
       \A n \in caller[c].claim : BlocksIn(bens.byID, n)
  /\ \A c \in Writing : \A n \in caller[c].claim : BlocksIn(saver[c].byID, n)
  /\ \A c \in DOMAIN saver : ~saver[c].crossed =>
       \A n \in caller[c].claim : \A d \in Writing : BlocksIn(saver[d].byID, n)
  /\ \A c \in DOMAIN saver : ~saver[c].crossed /\ saver[c].passed =>
       \A n \in caller[c].claim : BlocksIn(file.byID, n)

\* Every request knows only of such as are blocked, and lets none of them
\* through.
KnownAre ==
  /\ \A c \in Callers : caller[c].step # "free" => caller[c].blocked \subseteq KnownBlocked
  /\ \A c \in Callers : caller[c].step = "pay" => caller[c].held \notin caller[c].blocked

DirectoryInv ==
  DirectoryShape /\ CreatedAre /\ MakingHolds /\ BlockedAre /\ ClaimsAre /\ KnownAre /\ BlockHolds

LEMMA BackedOnce ==
  ASSUME NEW d, IsDirectory(d), NEW a, NEW b, Backed(a, d), Backed(b, d), a.key = b.key
  PROVE  a.id = b.id
<1>1. CASE \E r \in DOMAIN d.refs : a.key = <<"company", r>> /\ d.refs[r] = a.id
  BY <1>1 DEF Backed
<1>2. CASE \E n \in DOMAIN d.extended : a.key = <<"extended", n>> /\ d.extended[n] = a.id
  BY <1>2 DEF Backed
<1>3. CASE \E k \in DOMAIN d.vibans : a.key = <<"viban", k[1], k[2]>> /\ d.vibans[k] = a.id
  <2>1. PICK k \in DOMAIN d.vibans : a.key = <<"viban", k[1], k[2]>> /\ d.vibans[k] = a.id
    BY <1>3
  <2>2. PICK l \in DOMAIN d.vibans : b.key = <<"viban", l[1], l[2]>> /\ d.vibans[l] = b.id
    BY <2>1 DEF Backed
  <2>3. k[1] = l[1] /\ k[2] = l[2]
    <3>1. a.key[2] = k[1] /\ a.key[3] = k[2]
      BY <2>1
    <3>2. b.key[2] = l[1] /\ b.key[3] = l[2]
      BY <2>2
    <3> QED BY <3>1, <3>2
  <2>4. k = <<k[1], k[2]>> /\ l = <<l[1], l[2]>>
    BY DEF IsDirectory
  <2>5. k = l
    BY <2>3, <2>4
  <2> QED BY <2>1, <2>2, <2>5
<1>4. CASE a.key = <<"any", a.id>>
  BY <1>4 DEF Backed
<1> QED BY <1>1, <1>2, <1>3, <1>4 DEF Backed

LEMMA BackedAreOnce == DirectoryInv => CreatedOnce
<1> QED BY BackedOnce DEF DirectoryInv, DirectoryShape, CreatedAre, CreatedOnce

LEMMA DirectoryInitially == DirectoryInit => DirectoryInv
<1> SUFFICES ASSUME DirectoryInit PROVE DirectoryInv
  OBVIOUS
<1> USE DEF DirectoryInit
<1>1. DirectoryShape
  BY DEF DirectoryShape, IsDirectory, EmptyDirectory, Void, Free
<1>2. CreatedAre /\ BlockedAre /\ BlockHolds
  BY DEF CreatedAre, BlockedAre, BlockHolds
<1>3. MakingHolds
  BY DEF MakingHolds, Making, InSave, SavesHave, Free, Void
<1>4. ClaimsAre /\ KnownAre
  BY DEF ClaimsAre, KnownAre, Writing, Free, Void
<1> QED BY <1>1, <1>2, <1>3, <1>4 DEF DirectoryInv
-----------------------------------------------------------------------------
\* The directory grew, by new ids only.
DirGrew ==
  /\ IsDirectory(dir')
  /\ DOMAIN dir.companies \subseteq DOMAIN dir'.companies
  /\ DOMAIN dir'.companies \subseteq DOMAIN dir.companies \cup Fresh
  /\ \A r \in DOMAIN dir.refs : r \in DOMAIN dir'.refs /\ dir'.refs[r] = dir.refs[r]
  /\ \A n \in DOMAIN dir.extended :
       n \in DOMAIN dir'.extended /\ dir'.extended[n] = dir.extended[n]
  /\ \A k \in DOMAIN dir.vibans : k \in DOMAIN dir'.vibans /\ dir'.vibans[k] = dir.vibans[k]

\* A name that meant a company means it still.
LEMMA ResolvingStays ==
  ASSUME IsDirectory(dir), DirGrew, NEW n, ResolveCompany(n) # 0
  PROVE  ResolveCompany(n)' = ResolveCompany(n)
<1>1. CASE n \in DOMAIN dir.companies
  <2>1. n \in DOMAIN dir'.companies
    BY <1>1 DEF DirGrew
  <2> QED BY <1>1, <2>1 DEF ResolveCompany
<1>2. CASE n \notin DOMAIN dir.companies
  <2>1. n \in DOMAIN dir.refs /\ ResolveCompany(n) = dir.refs[n]
    BY <1>2 DEF ResolveCompany
  <2>2. n \notin DOMAIN dir'.companies /\ n \in DOMAIN dir'.refs /\ dir'.refs[n] = dir.refs[n]
    BY <1>2, <2>1 DEF DirGrew, Fresh
  <2> QED BY <2>1, <2>2 DEF ResolveCompany
<1> QED BY <1>1, <1>2

LEMMA BackingStays ==
  ASSUME DirGrew, NEW t, Backed(t, dir)
  PROVE  Backed(t, dir')
<1> QED BY DEF DirGrew, Backed

\* So a request that goes on means to tell what it meant to.
LEMMA MadeStays ==
  ASSUME IsDirectory(dir), DirGrew, NEW c \in Callers, Making(c), InSave(c),
         caller'[c].ask = caller[c].ask, caller'[c].held = caller[c].held
  PROVE  Made(c)' = Made(c)
<1>1. PICK ask, held : ask = caller[c].ask /\ held = caller[c].held
  OBVIOUS
<1>2. ask.kind \in {"extended", "viban"} => ResolveCompany(ask.of)' = ResolveCompany(ask.of)
  <2>1. ask.kind \in {"extended", "viban"} => ResolveCompany(ask.of) # 0
    BY <1>1 DEF Making
  <2>2. PICK of : of = ask.of
    OBVIOUS
  <2>3. ResolveCompany(of) # 0 => ResolveCompany(of)' = ResolveCompany(of)
    BY ResolvingStays
  <2> QED BY <2>1, <2>2, <2>3
<1>3. Key(ask, held)' = Key(ask, held)
  BY <1>2 DEF Key
<1>4. Made(c) = Creation(ask, held, TRUE) /\ Made(c)' = Creation(ask, held, TRUE)'
  BY <1>1 DEF Made, Creation, Key, ResolveCompany
<1> QED BY <1>3, <1>4 DEF Creation

LEMMA MakingStays ==
  ASSUME IsDirectory(dir), DirGrew, NEW c \in Callers, Making(c),
         caller'[c].step = caller[c].step, caller'[c].ask = caller[c].ask,
         caller'[c].held = caller[c].held
  PROVE  Making(c)'
<1>1. PICK of : of = caller[c].ask.of
  OBVIOUS
<1>2. ResolveCompany(of) # 0 => ResolveCompany(of)' = ResolveCompany(of)
  BY ResolvingStays
<1>3. ResolveCompany(caller[c].ask.of)' = ResolveCompany(of)'
  BY <1>1 DEF ResolveCompany
<1>4. InSave(c) => Backed(Made(c), dir)'
  <2>1. InSave(c) => Made(c)' = Made(c) /\ Backed(Made(c), dir)
    BY MadeStays DEF Making
  <2> QED BY <2>1, BackingStays
<1> QED BY <1>1, <1>2, <1>3, <1>4 DEF Making, InSave

\* A request's change of step, and of what it holds.
LEMMA Stepping ==
  ASSUME DirectoryShape, NEW c \in Callers, caller[c].step # "free",
         NEW step \in {"work", "add", "pay", "save", "copy", "write"}, NEW held,
         caller' = [caller EXCEPT ![c].step = step, ![c].held = held]
  PROVE  /\ IsRequest(caller'[c]) /\ caller'[c].step = step /\ caller'[c].held = held
         /\ caller'[c].ask = caller[c].ask /\ caller'[c].blocked = caller[c].blocked
         /\ caller'[c].claim = caller[c].claim
         /\ DOMAIN caller' = Callers /\ \A d \in Callers \ {c} : caller'[d] = caller[d]
<1>1. IsRequest(caller[c])
  BY DEF DirectoryShape, Free
<1>2. DOMAIN caller[c] = {"step", "ask", "held", "blocked", "claim"}
  BY <1>1 DEF IsRequest
<1>3. caller'[c] = [caller[c] EXCEPT !.step = step, !.held = held]
  BY DEF DirectoryShape
<1>4. DOMAIN caller' = Callers /\ \A d \in Callers \ {c} : caller'[d] = caller[d]
  BY DEF DirectoryShape
<1> QED BY <1>2, <1>3, <1>4 DEF IsRequest

\* A request that is neither free nor saving.
InHand(c) == caller[c].step \in {"work", "add", "pay"}

LEMMA Going ==
  ASSUME DirectoryShape, NEW c \in Callers, InHand(c),
         NEW step \in {"work", "add", "pay", "save", "copy", "write"}, NEW held,
         Goto(c, step, held)
  PROVE  /\ IsRequest(caller'[c]) /\ caller'[c].step = step /\ caller'[c].held = held
         /\ caller'[c].ask = caller[c].ask /\ caller'[c].blocked = caller[c].blocked
         /\ caller'[c].claim = caller[c].claim
         /\ DOMAIN caller' = Callers /\ \A d \in Callers \ {c} : caller'[d] = caller[d]
<1> QED BY Stepping, ZenonT(60) DEF Goto, InHand

LEMMA Refusing ==
  ASSUME DirectoryShape, NEW c \in Callers, Refuse(c)
  PROVE  /\ caller'[c] = Free
         /\ DOMAIN caller' = Callers /\ \A d \in Callers \ {c} : caller'[d] = caller[d]
<1> QED BY DEF Refuse, DirectoryShape

\* A request at work is in no save, and the saves are what they were.
LEMMA SavesStand ==
  ASSUME DirectoryShape, MakingHolds, ClaimsAre, DirGrew, NEW c \in Callers,
         caller[c].step \notin {"copy", "write"}, caller'[c].step \notin {"copy", "write"},
         UNCHANGED saving,
         DOMAIN caller' = Callers, \A d \in Callers \ {c} : caller'[d] = caller[d]
  PROVE  /\ DOMAIN saver' = {d \in Callers : caller'[d].step \in {"copy", "write"}}
         /\ SavesHave' /\ Writing' = Writing
<1>1. /\ DOMAIN saver' = {d \in Callers : caller'[d].step \in {"copy", "write"}}
      /\ saver' = saver /\ file' = file /\ c \notin DOMAIN saver
      /\ \A d \in DOMAIN saver : d \in Callers /\ caller'[d] = caller[d] /\ InSave(d)
  BY DEF DirectoryShape, saving, InSave
<1>2. \A d \in DOMAIN saver : Made(d)' = Made(d)
  BY <1>1, MadeStays DEF MakingHolds, DirectoryShape
<1>3. SavesHave'
  BY <1>1, <1>2 DEF MakingHolds, SavesHave
<1>4. Writing' = Writing
  BY <1>1 DEF Writing
<1> QED BY <1>1, <1>3, <1>4

\* A request that is not saving comes to a step whose claims hold, or ends;
\* the directory grows or stays, and who is blocked remains so.
LEMMA DirectoryStepKeeps ==
  ASSUME DirectoryInv, NEW c \in Callers, DirGrew, UNCHANGED <<saving, blocked>>,
         caller[c].step \notin {"copy", "write"},
         DOMAIN bens' = {"byID", "byRef"},
         \A n : BlocksIn(bens.byID, n) => BlocksIn(bens'.byID, n),
         \A t \in created' : t \in created \/ (~t.kept /\ Backed(t, dir')),
         paid' = paid \/ BlockHolds',
         DOMAIN caller' = Callers, \A d \in Callers \ {c} : caller'[d] = caller[d],
         \/ caller'[c] = Free
         \/ /\ IsRequest(caller'[c]) /\ caller'[c].step \in {"work", "add", "save", "pay"}
            /\ caller'[c].blocked \subseteq KnownBlocked
            /\ \A n \in caller'[c].claim : BlocksIn(bens'.byID, n)
            /\ caller'[c].step = "pay" => caller'[c].held \notin caller'[c].blocked
            /\ Making(c)'
  PROVE  DirectoryInv'
<1>0. /\ DirectoryShape /\ CreatedAre /\ MakingHolds /\ BlockedAre /\ ClaimsAre /\ KnownAre
      /\ BlockHolds /\ file' = file /\ saver' = saver /\ blocked' = blocked
  BY DEF DirectoryInv, saving
<1>1. caller'[c].step \in {"free", "work", "add", "save", "pay"}
  BY DEF Free
<1>2. /\ DOMAIN saver' = {d \in Callers : caller'[d].step \in {"copy", "write"}}
      /\ SavesHave' /\ Writing' = Writing
  BY <1>0, <1>1, SavesStand
<1>3. DirectoryShape'
  BY <1>0, <1>2 DEF DirectoryShape, DirGrew
<1>4. CreatedAre'
  <2>1. \A t \in created : Backed(t, dir')
    BY <1>0, BackingStays DEF CreatedAre
  <2> QED BY <1>0, <2>1 DEF CreatedAre
<1>5. MakingHolds'
  <2>1. ASSUME NEW d \in Callers \ {c} PROVE Making(d)'
    <3>1. Making(d) /\ caller'[d] = caller[d] /\ IsDirectory(dir)
      BY <1>0 DEF MakingHolds, DirectoryShape
    <3> QED BY <3>1, MakingStays
  <2>2. caller'[c] = Free => Making(c)'
    BY DEF Making, InSave, Free
  <2> QED BY <1>2, <2>1, <2>2 DEF MakingHolds
<1>6. BlockedAre' /\ BlockHolds'
  BY <1>0, <1>2 DEF BlockedAre, BlockHolds
<1>7. ClaimsAre'
  <2>1. \A d \in DOMAIN saver : caller'[d] = caller[d]
    BY <1>0 DEF DirectoryShape
  <2>2. Writing \subseteq DOMAIN saver
    BY DEF Writing
  <2> QED BY <1>0, <1>2, <2>1, <2>2 DEF ClaimsAre, Free
<1>8. KnownAre'
  BY <1>0 DEF KnownAre, KnownBlocked, Free
<1> QED BY <1>3, <1>4, <1>5, <1>6, <1>7, <1>8 DEF DirectoryInv

\* What a request has made is in d when d has it by its key.
LEMMA MadeIsBacked ==
  ASSUME NEW c \in Callers, NEW ask, ask = caller'[c].ask, NEW id, id = caller'[c].held,
         NEW company, company = ResolveCompany(ask.of)', NEW d,
         ask.kind = "company" /\ ask.ref # 0 =>
           ask.ref \in DOMAIN d.refs /\ d.refs[ask.ref] = id,
         ask.kind = "extended" => company \in DOMAIN d.extended /\ d.extended[company] = id,
         ask.kind = "viban" => /\ <<company, ask.currency>> \in DOMAIN d.vibans
                               /\ d.vibans[<<company, ask.currency>>] = id
  PROVE  Backed(Made(c)', d)
<1>1. Made(c)'.key = Key(ask, id)' /\ Made(c)'.id = id
  BY DEF Made, Creation, Key, ResolveCompany
<1>2. CASE ask.kind = "company" /\ ask.ref # 0
  <2>1. Key(ask, id)' = <<"company", ask.ref>>
    BY <1>2 DEF Key
  <2> QED BY <1>1, <1>2, <2>1 DEF Backed
<1>3. CASE ask.kind = "extended"
  <2>1. Key(ask, id)' = <<"extended", company>>
    BY <1>3 DEF Key
  <2> QED BY <1>1, <1>3, <2>1 DEF Backed
<1>4. CASE ask.kind = "viban"
  <2>1. Key(ask, id)' = <<"viban", company, ask.currency>>
    BY <1>4 DEF Key
  <2>2. PICK k : k = <<company, ask.currency>>
    OBVIOUS
  <2>3. k[1] = company /\ k[2] = ask.currency /\ k \in DOMAIN d.vibans /\ d.vibans[k] = id
    BY <1>4, <2>2
  <2> QED BY <1>1, <2>1, <2>3 DEF Backed
<1>5. CASE ~(ask.kind = "company" /\ ask.ref # 0) /\ ask.kind \notin {"extended", "viban"}
  <2>1. Key(ask, id)' = <<"any", id>>
    BY <1>5 DEF Key
  <2> QED BY <1>1, <2>1 DEF Backed
<1> QED BY <1>2, <1>3, <1>4, <1>5

\* What may exist more often is only told by its id.
LEMMA AnyIsMade ==
  ASSUME NEW c \in Callers, caller'[c].ask.kind \notin {"company", "extended", "viban"}
  PROVE  Making(c)'
<1>1. Backed(Made(c)', dir')
  BY MadeIsBacked
<1> QED BY <1>1 DEF Making

\* A directory grows by a record of a new id.
LEMMA NothingGrew ==
  ASSUME IsDirectory(dir), UNCHANGED dir
  PROVE  DirGrew
<1> QED BY DEF DirGrew, IsDirectory

\* The steps that end with the request refused, or with the directory as it was.
LEMMA RefusedKeeps ==
  ASSUME DirectoryInv, NEW c \in Callers, InHand(c), Refuse(c),
         UNCHANGED <<dir, bens, saving, paid, dirHistory>>
  PROVE  DirectoryInv'
<1>1. DirectoryShape /\ IsDirectory(dir)
  BY DEF DirectoryInv, DirectoryShape
<1>2. DirGrew
  BY <1>1, NothingGrew
<1>3. /\ caller'[c] = Free
      /\ DOMAIN caller' = Callers /\ \A d \in Callers \ {c} : caller'[d] = caller[d]
  BY <1>1, Refusing
<1>4. DOMAIN bens' = {"byID", "byRef"}
  BY <1>1 DEF DirectoryShape
<1> QED BY <1>2, <1>3, <1>4, DirectoryStepKeeps DEF InHand, dirHistory

\* The steps that go on, to "add" with the company found, or to "save".
LEMMA GoneOnKeeps ==
  ASSUME DirectoryInv, NEW c \in Callers, InHand(c),
         NEW step \in {"add", "save"}, NEW held, Goto(c, step, held), DirGrew,
         UNCHANGED <<bens, saving, paid, dirHistory>>, Making(c)'
  PROVE  DirectoryInv'
<1>1. DirectoryShape /\ ClaimsAre /\ KnownAre /\ caller[c].step # "free"
  BY DEF DirectoryInv, InHand
<1>2. /\ IsRequest(caller'[c]) /\ caller'[c].step = step
      /\ caller'[c].blocked = caller[c].blocked /\ caller'[c].claim = caller[c].claim
      /\ DOMAIN caller' = Callers /\ \A d \in Callers \ {c} : caller'[d] = caller[d]
  BY <1>1, Going
<1>3. caller'[c].blocked \subseteq KnownBlocked /\ \A n \in caller'[c].claim : BlocksIn(bens'.byID, n)
  BY <1>1, <1>2 DEF ClaimsAre, KnownAre
<1>4. DOMAIN bens' = {"byID", "byRef"}
  BY <1>1 DEF DirectoryShape
<1> QED BY <1>2, <1>3, <1>4, DirectoryStepKeeps DEF InHand, dirHistory

LEMMA FreshIds == \A id \in Fresh : id \in Ids /\ id # 0 /\ id \notin DOMAIN dir.companies
<1> QED BY DirectoryAssumption DEF Fresh, Used

LEMMA CreateCompanyKeeps ==
  ASSUME DirectoryInv, NEW c \in Callers, CreateCompany(c)
  PROVE  DirectoryInv'
<1> DEFINE ask == caller[c].ask
<1>0. DirectoryShape /\ IsDirectory(dir) /\ InHand(c) /\ ask.kind = "company"
      /\ UNCHANGED <<bens, saving, paid, dirHistory>>
  BY DEF DirectoryInv, DirectoryShape, CreateCompany, At, InHand
<1>1. CASE Refuse(c) /\ UNCHANGED dir
  BY <1>0, <1>1, RefusedKeeps
<1>2. CASE /\ ~(ask.ref # 0 /\ ask.ref \in DOMAIN dir.refs)
           /\ \E id \in Fresh : dir' = WithCompany(ask, id) /\ ThenSave(c, id)
  <2>1. PICK id \in Fresh : dir' = WithCompany(ask, id) /\ ThenSave(c, id)
    BY <1>2
  <2>2. id \in Ids
    BY FreshIds
  <2>3. /\ DOMAIN dir' = DOMAIN dir
        /\ dir'.companies = With(dir.companies, id, Company(ask))
        /\ dir'.refs = IF ask.ref = 0 THEN dir.refs ELSE With(dir.refs, ask.ref, id)
        /\ dir'.extended = dir.extended /\ dir'.vibans = dir.vibans
    BY <1>0, <2>1 DEF WithCompany, IsDirectory
  <2>4. DirGrew
    BY <1>0, <1>2, <2>1, <2>2, <2>3 DEF DirGrew, IsDirectory, With
  <2>5. /\ caller'[c].step = "save" /\ caller'[c].held = id /\ caller'[c].ask = ask
    BY <1>0, <2>1, Going DEF ThenSave
  <2>6. ask.ref # 0 => ask.ref \in DOMAIN dir'.refs /\ dir'.refs[ask.ref] = id
    BY <2>3 DEF With
  <2>7. Backed(Made(c)', dir')
    BY <1>0, <2>5, <2>6, MadeIsBacked
  <2>8. Making(c)'
    BY <1>0, <2>5, <2>7 DEF Making
  <2> QED BY <1>0, <2>1, <2>4, <2>8, GoneOnKeeps DEF ThenSave
<1> QED BY <1>1, <1>2 DEF CreateCompany

\* The steps that leave companies, references, profiles and accounts alone.
LEMMA AsideKeeps ==
  ASSUME DirectoryInv, NEW c \in Callers, InHand(c), NEW held, ThenSave(c, held),
         DOMAIN dir' = DOMAIN dir, DOMAIN dir'.companies = DOMAIN dir.companies,
         dir'.refs = dir.refs, dir'.extended = dir.extended, dir'.vibans = dir.vibans,
         UNCHANGED <<bens, saving, paid, dirHistory>>,
         caller[c].ask.kind \notin {"company", "extended", "viban"}
  PROVE  DirectoryInv'
<1>1. DirectoryShape /\ IsDirectory(dir)
  BY DEF DirectoryInv, DirectoryShape
<1>2. DirGrew
  BY <1>1 DEF DirGrew, IsDirectory
<1>3. caller'[c].step = "save" /\ caller'[c].ask = caller[c].ask
  BY <1>1, Going DEF ThenSave
<1>4. Making(c)'
  BY <1>3, AnyIsMade
<1> QED BY <1>2, <1>4, GoneOnKeeps DEF ThenSave

LEMMA CreateAddressKeeps ==
  ASSUME DirectoryInv, NEW c \in Callers, CreateAddress(c)
  PROVE  DirectoryInv'
<1>0. IsDirectory(dir) /\ InHand(c) /\ caller[c].ask.kind = "address"
      /\ UNCHANGED <<bens, saving, paid, dirHistory>>
  BY DEF DirectoryInv, DirectoryShape, CreateAddress, At, InHand
<1>1. CASE Refuse(c) /\ UNCHANGED dir
  BY <1>0, <1>1, RefusedKeeps
<1>2. CASE \E company : dir' = WithAddress(company) /\ ThenSave(c, 0)
  <2>1. PICK company : dir' = WithAddress(company) /\ ThenSave(c, 0)
    BY <1>2
  <2>2. /\ DOMAIN dir' = DOMAIN dir /\ dir'.companies = dir.companies
        /\ dir'.refs = dir.refs /\ dir'.extended = dir.extended /\ dir'.vibans = dir.vibans
    BY <1>0, <2>1 DEF WithAddress, IsDirectory
  <2> QED BY <1>0, <2>1, <2>2, AsideKeeps
<1> QED BY <1>1, <1>2 DEF CreateAddress

LEMMA PersonKeeps ==
  ASSUME DirectoryInv, NEW c \in Callers, CheckPerson(c) \/ CreatePerson(c)
  PROVE  DirectoryInv'
<1>0. IsDirectory(dir) /\ InHand(c) /\ caller[c].ask.kind = "person"
      /\ UNCHANGED <<bens, saving, paid, dirHistory>> /\ DirectoryShape
  BY DEF DirectoryInv, DirectoryShape, CheckPerson, CreatePerson, At, InHand
<1>1. CASE Refuse(c) /\ UNCHANGED dir
  BY <1>0, <1>1, RefusedKeeps
<1>2. CASE \E company : Goto(c, "add", company) /\ UNCHANGED dir
  <2>1. PICK company : Goto(c, "add", company)
    BY <1>2
  <2>2. DirGrew
    BY <1>0, <1>2, NothingGrew
  <2>3. caller'[c].step = "add" /\ caller'[c].ask = caller[c].ask
    BY <1>0, <2>1, Going
  <2>4. Making(c)'
    BY <1>0, <2>3, AnyIsMade
  <2> QED BY <1>0, <2>1, <2>2, <2>4, GoneOnKeeps
<1>3. CASE CreatePerson(c)
  <2>1. PICK id \in Fresh : dir' = WithPerson(caller[c].held, id) /\ ThenSave(c, id)
    BY <1>3 DEF CreatePerson
  <2>2. /\ DOMAIN dir' = DOMAIN dir /\ dir'.companies = dir.companies
        /\ dir'.refs = dir.refs /\ dir'.extended = dir.extended /\ dir'.vibans = dir.vibans
    BY <1>0, <2>1 DEF WithPerson, IsDirectory
  <2> QED BY <1>0, <2>1, <2>2, AsideKeeps
<1> QED BY <1>1, <1>2, <1>3 DEF CheckPerson

LEMMA CheckExtendedKeeps ==
  ASSUME DirectoryInv, NEW c \in Callers, CheckExtended(c)
  PROVE  DirectoryInv'
<1>0. IsDirectory(dir) /\ InHand(c) /\ caller[c].ask.kind = "extended"
      /\ UNCHANGED <<dir, bens, saving, paid, dirHistory>> /\ DirectoryShape
  BY DEF DirectoryInv, DirectoryShape, CheckExtended, At, InHand
<1>1. CASE Refuse(c)
  BY <1>0, <1>1, RefusedKeeps
<1>2. CASE /\ ResolveCompany(caller[c].ask.of) # 0
           /\ Goto(c, "add", ResolveCompany(caller[c].ask.of))
  <2>1. PICK company : company = ResolveCompany(caller[c].ask.of)
    OBVIOUS
  <2>2. DirGrew
    BY <1>0, NothingGrew
  <2>3. /\ caller'[c].step = "add" /\ caller'[c].ask = caller[c].ask
        /\ caller'[c].held = company
    BY <1>0, <1>2, <2>1, Going
  <2>4. ResolveCompany(caller[c].ask.of)' = company
    BY <1>0, <2>1, <2>3 DEF ResolveCompany
  <2>5. Making(c)'
    BY <1>0, <1>2, <2>1, <2>3, <2>4 DEF Making, InSave
  <2> QED BY <1>0, <1>2, <2>1, <2>2, <2>5, GoneOnKeeps
<1> QED BY <1>1, <1>2 DEF CheckExtended

LEMMA AddExtendedKeeps ==
  ASSUME DirectoryInv, NEW c \in Callers, AddExtended(c)
  PROVE  DirectoryInv'
<1>0. IsDirectory(dir) /\ caller[c].step = "add" /\ InHand(c) /\ caller[c].ask.kind = "extended"
      /\ UNCHANGED <<bens, saving, paid, dirHistory>> /\ DirectoryShape
  BY DEF DirectoryInv, DirectoryShape, AddExtended, At, InHand
<1>1. CASE Refuse(c) /\ UNCHANGED dir
  BY <1>0, <1>1, RefusedKeeps
<1>2. CASE /\ caller[c].held \notin DOMAIN dir.extended
           /\ \E id \in Fresh : dir' = WithExtended(caller[c].held, id) /\ ThenSave(c, id)
  <2>1. PICK id \in Fresh : dir' = WithExtended(caller[c].held, id) /\ ThenSave(c, id)
    BY <1>2
  <2>2. PICK company, of : company = caller[c].held /\ of = caller[c].ask.of
    OBVIOUS
  <2>3. company # 0 /\ company = ResolveCompany(of)
    BY <1>0, <2>2 DEF DirectoryInv, MakingHolds, Making
  <2>4. /\ DOMAIN dir' = DOMAIN dir /\ dir'.companies = dir.companies /\ dir'.refs = dir.refs
        /\ dir'.extended = With(dir.extended, company, id) /\ dir'.vibans = dir.vibans
    BY <1>0, <2>1, <2>2 DEF WithExtended, IsDirectory
  <2>5. DirGrew
    BY <1>0, <1>2, <2>2, <2>4 DEF DirGrew, IsDirectory, With
  <2>6. /\ caller'[c].step = "save" /\ caller'[c].held = id /\ caller'[c].ask = caller[c].ask
    BY <1>0, <2>1, Going DEF ThenSave
  <2>7. ResolveCompany(caller[c].ask.of)' = company
    BY <2>2, <2>3, <2>4, <2>6 DEF ResolveCompany
  <2>8. company \in DOMAIN dir'.extended /\ dir'.extended[company] = id
    BY <2>4 DEF With
  <2>9. Backed(Made(c)', dir')
    BY <1>0, <2>6, <2>7, <2>8, MadeIsBacked
  <2>10. Making(c)'
    BY <1>0, <2>3, <2>6, <2>7, <2>9 DEF Making
  <2> QED BY <1>0, <2>1, <2>5, <2>10, GoneOnKeeps DEF ThenSave
<1> QED BY <1>1, <1>2 DEF AddExtended

LEMMA CreateVibanKeeps ==
  ASSUME DirectoryInv, NEW c \in Callers, CreateViban(c)
  PROVE  DirectoryInv'
<1>a. PICK company, of, ccy :
        company = ResolveCompany(of) /\ of = caller[c].ask.of /\ ccy = caller[c].ask.currency
  OBVIOUS
<1>0. IsDirectory(dir) /\ InHand(c) /\ caller[c].ask.kind = "viban"
      /\ UNCHANGED <<bens, saving, paid, blocked>> /\ DirectoryShape
  BY DEF DirectoryInv, DirectoryShape, CreateViban, At, InHand
<1>1. CASE Refuse(c) /\ UNCHANGED <<dir, created>>
  BY <1>0, <1>1, RefusedKeeps DEF dirHistory
<1>3. CASE /\ <<company, ccy>> \in DOMAIN dir.vibans /\ Refuse(c) /\ UNCHANGED dir
           /\ created' = created \cup {Creation(caller[c].ask, dir.vibans[<<company, ccy>>], FALSE)}
  <2>1. PICK t : t = Creation(caller[c].ask, dir.vibans[<<company, ccy>>], FALSE)
    OBVIOUS
  <2>2. PICK k : k = <<company, ccy>>
    OBVIOUS
  <2>3. k[1] = company /\ k[2] = ccy /\ k \in DOMAIN dir.vibans
    BY <1>3, <2>2
  <2>4. t.key = <<"viban", company, ccy>> /\ t.id = dir.vibans[k] /\ ~t.kept
    BY <1>a, <1>0, <2>1, <2>2 DEF Creation, Key
  <2>5. Backed(t, dir) /\ dir' = dir
    BY <1>3, <2>3, <2>4 DEF Backed
  <2>6. \A u \in created' : u \in created \/ (~u.kept /\ Backed(u, dir'))
    BY <1>3, <2>1, <2>4, <2>5
  <2>7. DirGrew /\ DOMAIN bens' = {"byID", "byRef"}
    BY <1>0, <1>3, NothingGrew DEF DirectoryShape
  <2>8. /\ caller'[c] = Free
        /\ DOMAIN caller' = Callers /\ \A d \in Callers \ {c} : caller'[d] = caller[d]
    BY <1>0, <1>3, Refusing
  <2> QED BY <1>0, <2>6, <2>7, <2>8, DirectoryStepKeeps DEF InHand
<1>2. CASE /\ company # 0 /\ <<company, ccy>> \notin DOMAIN dir.vibans /\ UNCHANGED created
           /\ \E id \in Fresh : dir' = WithViban(<<company, ccy>>, id) /\ ThenSave(c, id)
  <2>1. PICK id \in Fresh : dir' = WithViban(<<company, ccy>>, id) /\ ThenSave(c, id)
    BY <1>2
  <2>2. PICK key : key = <<company, ccy>>
    OBVIOUS
  <2>3. key = <<key[1], key[2]>>
    BY <2>2
  <2>4. /\ DOMAIN dir' = DOMAIN dir /\ dir'.companies = dir.companies /\ dir'.refs = dir.refs
        /\ dir'.extended = dir.extended /\ dir'.vibans = With(dir.vibans, key, id)
    BY <1>0, <2>1, <2>2 DEF WithViban, IsDirectory
  <2>5. DirGrew
    BY <1>0, <1>2, <2>2, <2>3, <2>4 DEF DirGrew, IsDirectory, With
  <2>6. /\ caller'[c].step = "save" /\ caller'[c].held = id /\ caller'[c].ask = caller[c].ask
    BY <1>0, <2>1, Going DEF ThenSave
  <2>7. ResolveCompany(caller[c].ask.of)' = company /\ caller'[c].ask.currency = ccy
    BY <1>a, <2>4, <2>6 DEF ResolveCompany
  <2>8. key \in DOMAIN dir'.vibans /\ dir'.vibans[key] = id
    BY <2>4 DEF With
  <2>9. Backed(Made(c)', dir')
    BY <1>0, <2>2, <2>6, <2>7, <2>8, MadeIsBacked
  <2>10. Making(c)'
    BY <1>0, <1>2, <2>6, <2>7, <2>9 DEF Making
  <2> QED BY <1>0, <1>2, <2>1, <2>5, <2>10, GoneOnKeeps DEF ThenSave, dirHistory
<1> QED BY <1>a, <1>1, <1>2, <1>3 DEF CreateViban

LEMMA OthersKeep ==
  ASSUME DirectoryInv, NEW c \in Callers,
         UploadDocument(c) \/ ScreenCompany(c) \/ ScreenPerson(c)
  PROVE  DirectoryInv'
<1>0. IsDirectory(dir) /\ InHand(c)
      /\ caller[c].ask.kind \in {"document", "screen company", "screen person"}
      /\ UNCHANGED <<bens, saving, paid, dirHistory>> /\ DirectoryShape
  BY DEF DirectoryInv, DirectoryShape, UploadDocument, ScreenCompany, ScreenPerson, At, InHand
<1>1. CASE Refuse(c) /\ UNCHANGED dir
  BY <1>0, <1>1, RefusedKeeps
<1>2. CASE UploadDocument(c)
  <2>1. PICK id \in Fresh : dir' = WithDocument(id) /\ ThenSave(c, id)
    BY <1>2 DEF UploadDocument
  <2>2. /\ DOMAIN dir' = DOMAIN dir /\ dir'.companies = dir.companies
        /\ dir'.refs = dir.refs /\ dir'.extended = dir.extended /\ dir'.vibans = dir.vibans
    BY <1>0, <2>1 DEF WithDocument, IsDirectory
  <2> QED BY <1>0, <2>1, <2>2, AsideKeeps
<1>3. CASE \E company, to : dir' = WithStatus(company, to) /\ ThenSave(c, 0)
  <2>1. PICK company, to : dir' = WithStatus(company, to) /\ ThenSave(c, 0)
    BY <1>3
  <2>2. /\ DOMAIN dir' = DOMAIN dir /\ DOMAIN dir'.companies = DOMAIN dir.companies
        /\ dir'.refs = dir.refs /\ dir'.extended = dir.extended /\ dir'.vibans = dir.vibans
    BY <1>0, <2>1 DEF WithStatus, IsDirectory
  <2> QED BY <1>0, <2>1, <2>2, AsideKeeps
<1>4. CASE \E of, p : dir' = [dir EXCEPT !.people[of] = p] /\ ThenSave(c, 0)
  <2>1. PICK of, p : dir' = [dir EXCEPT !.people[of] = p] /\ ThenSave(c, 0)
    BY <1>4
  <2>2. /\ DOMAIN dir' = DOMAIN dir /\ dir'.companies = dir.companies
        /\ dir'.refs = dir.refs /\ dir'.extended = dir.extended /\ dir'.vibans = dir.vibans
    BY <1>0, <2>1 DEF IsDirectory
  <2> QED BY <1>0, <2>1, <2>2, AsideKeeps
<1> QED BY <1>1, <1>2, <1>3, <1>4 DEF ScreenCompany, ScreenPerson

\* A payment is let through to a payee that nothing blocks.
LEMMA GateKeeps ==
  ASSUME DirectoryInv, NEW c \in Callers, Gate(c)
  PROVE  DirectoryInv'
<1>0. /\ IsDirectory(dir) /\ InHand(c) /\ caller[c].ask.kind = "payment"
      /\ UNCHANGED <<dir, bens, saving, paid, dirHistory>>
      /\ DirectoryShape /\ BlockedAre /\ ClaimsAre /\ KnownAre
  BY DEF DirectoryInv, DirectoryShape, Gate, At, InHand
<1>1. CASE Refuse(c)
  BY <1>0, <1>1, RefusedKeeps
<1>2. CASE MayPay(Get(caller[c].ask.of), caller[c].ask) /\ Goto(c, "pay", Resolve(caller[c].ask.of))
  <2>1. PICK n : n = Resolve(caller[c].ask.of)
    OBVIOUS
  <2>2. DirGrew /\ DOMAIN bens' = {"byID", "byRef"}
    BY <1>0, NothingGrew DEF DirectoryShape
  <2>3. /\ IsRequest(caller'[c]) /\ caller'[c].step = "pay" /\ caller'[c].held = n
        /\ caller'[c].ask = caller[c].ask
        /\ caller'[c].blocked = caller[c].blocked /\ caller'[c].claim = caller[c].claim
        /\ DOMAIN caller' = Callers /\ \A d \in Callers \ {c} : caller'[d] = caller[d]
    BY <1>0, <1>2, <2>1, Going
  <2>4. n \in DOMAIN bens.byID => ~Blocks(bens.byID[n])
    BY <1>2, <2>1 DEF MayPay, Get, Blocks
  <2>5. caller[c].blocked \subseteq KnownBlocked /\ \A m \in caller[c].claim : BlocksIn(bens.byID, m)
    BY <1>0 DEF KnownAre, ClaimsAre, InHand
  <2>6. n \notin caller[c].blocked
    BY <1>0, <2>4, <2>5 DEF BlockedAre, BlocksIn, KnownBlocked
  <2>7. Making(c)'
    BY <1>0, <2>3, AnyIsMade
  <2> QED BY <1>0, <2>2, <2>3, <2>5, <2>6, <2>7, DirectoryStepKeeps DEF InHand, dirHistory
<1> QED BY <1>1, <1>2 DEF Gate

LEMMA PayKeeps ==
  ASSUME DirectoryInv, NEW c \in Callers, Pay(c)
  PROVE  DirectoryInv'
<1>0. /\ IsDirectory(dir) /\ InHand(c) /\ caller[c].step = "pay" /\ caller[c].ask.kind = "payment"
      /\ UNCHANGED <<dir, bens, saving, dirHistory>>
      /\ DirectoryShape /\ ClaimsAre /\ KnownAre /\ BlockHolds
  BY DEF DirectoryInv, DirectoryShape, Pay, At, InHand
<1>1. /\ IsRequest(caller'[c]) /\ caller'[c].step = "save" /\ caller'[c].ask = caller[c].ask
      /\ caller'[c].blocked = caller[c].blocked /\ caller'[c].claim = caller[c].claim
      /\ DOMAIN caller' = Callers /\ \A d \in Callers \ {c} : caller'[d] = caller[d]
  BY <1>0, Going DEF Pay, ThenSave
<1>2. BlockHolds'
  BY <1>0 DEF BlockHolds, KnownAre, Pay
<1>3. DirGrew /\ DOMAIN bens' = {"byID", "byRef"}
  BY <1>0, NothingGrew DEF DirectoryShape
<1>4. caller[c].blocked \subseteq KnownBlocked /\ \A n \in caller[c].claim : BlocksIn(bens.byID, n)
  BY <1>0 DEF KnownAre, ClaimsAre, InHand
<1>5. Making(c)'
  BY <1>0, <1>1, AnyIsMade
<1> QED BY <1>0, <1>1, <1>2, <1>3, <1>4, <1>5, DirectoryStepKeeps DEF InHand, dirHistory

\* A request begins, or a payment that comes to its next state is saved.
LEMMA BeginKeeps ==
  ASSUME DirectoryInv, NEW c \in Callers, Begin(c) \/ Hop(c)
  PROVE  DirectoryInv'
<1>0. /\ IsDirectory(dir) /\ DirectoryShape /\ caller[c].step = "free"
      /\ UNCHANGED <<dir, bens, saving, paid, dirHistory>>
  BY DEF DirectoryInv, DirectoryShape, Begin, Hop
<1>1. \E r : /\ caller' = [caller EXCEPT ![c] = r] /\ IsRequest(r) /\ r.claim = {}
             /\ r.blocked \subseteq KnownBlocked
             /\ r.step = "work" \/ (r.step = "save" /\ r.ask.kind = "hop")
  <2>1. CASE Begin(c)
    <3>1. PICK ask \in Asks :
            caller' = [caller EXCEPT ![c] = [step |-> "work", ask |-> ask, held |-> 0,
                                             blocked |-> KnownBlocked, claim |-> {}]]
      BY <2>1 DEF Begin
    <3>2. PICK r : r = [step |-> "work", ask |-> ask, held |-> 0,
                        blocked |-> KnownBlocked, claim |-> {}]
      OBVIOUS
    <3>3. /\ IsRequest(r) /\ r.claim = {} /\ r.blocked = KnownBlocked /\ r.step = "work"
          /\ caller' = [caller EXCEPT ![c] = r]
      BY <3>1, <3>2 DEF IsRequest
    <3> QED BY <3>3
  <2>2. CASE Hop(c)
    <3>1. PICK r : r = [step |-> "save", ask |-> [kind |-> "hop"], held |-> 0,
                        blocked |-> {}, claim |-> {}]
      OBVIOUS
    <3>2. /\ IsRequest(r) /\ r.claim = {} /\ r.blocked = {} /\ r.step = "save"
          /\ r.ask.kind = "hop" /\ caller' = [caller EXCEPT ![c] = r]
      BY <2>2, <3>1 DEF Hop, IsRequest
    <3> QED BY <3>2
  <2> QED BY <2>1, <2>2
<1>2. PICK r : /\ caller' = [caller EXCEPT ![c] = r] /\ IsRequest(r) /\ r.claim = {}
               /\ r.blocked \subseteq KnownBlocked
               /\ r.step = "work" \/ (r.step = "save" /\ r.ask.kind = "hop")
  BY <1>1
<1>3. caller'[c] = r /\ DOMAIN caller' = Callers /\ \A d \in Callers \ {c} : caller'[d] = caller[d]
  BY <1>0, <1>2 DEF DirectoryShape
<1>4. Making(c)'
  <2>1. r.step = "work" => Making(c)'
    BY <1>3 DEF Making, InSave
  <2>2. r.ask.kind = "hop" => Making(c)'
    BY <1>3, AnyIsMade
  <2> QED BY <1>2, <2>1, <2>2
<1>5. DirGrew /\ DOMAIN bens' = {"byID", "byRef"}
  BY <1>0, NothingGrew DEF DirectoryShape
<1> QED BY <1>0, <1>2, <1>3, <1>4, <1>5, DirectoryStepKeeps DEF dirHistory

LEMMA RegisterKeeps ==
  ASSUME DirectoryInv, NEW c \in Callers, RegisterBeneficiary(c)
  PROVE  DirectoryInv'
<1>0. /\ DirectoryShape /\ ClaimsAre /\ KnownAre /\ IsDirectory(dir)
      /\ InHand(c) /\ caller[c].ask.kind = "payee"
      /\ UNCHANGED <<dir, saving, paid, dirHistory>>
  BY DEF DirectoryInv, DirectoryShape, RegisterBeneficiary, At, InHand
<1>1. CASE Refuse(c) /\ UNCHANGED bens
  BY <1>0, <1>1, RefusedKeeps
<1>2. CASE \E ask, id : id \in Fresh /\ bens' = WithPayee(ask, id) /\ ThenSave(c, id)
  <2>1. PICK ask, id : id \in Fresh /\ bens' = WithPayee(ask, id) /\ ThenSave(c, id)
    BY <1>2
  <2>2. /\ DOMAIN bens' = {"byID", "byRef"} /\ bens'.byID = With(bens.byID, id, Payee(ask))
        /\ id \notin DOMAIN bens.byID
    BY <2>1 DEF WithPayee, Fresh, Used
  <2>3. /\ IsRequest(caller'[c]) /\ caller'[c].step = "save" /\ caller'[c].ask = caller[c].ask
        /\ caller'[c].blocked = caller[c].blocked /\ caller'[c].claim = caller[c].claim
        /\ DOMAIN caller' = Callers /\ \A d \in Callers \ {c} : caller'[d] = caller[d]
    BY <1>0, <2>1, Going DEF ThenSave
  <2>4. \A n : BlocksIn(bens.byID, n) => BlocksIn(bens'.byID, n)
    BY <2>2 DEF With, BlocksIn
  <2>5. caller[c].blocked \subseteq KnownBlocked /\ \A n \in caller[c].claim : BlocksIn(bens.byID, n)
    BY <1>0 DEF KnownAre, ClaimsAre, InHand
  <2>6. Making(c)' /\ DirGrew
    BY <1>0, <2>3, AnyIsMade, NothingGrew
  <2> QED BY <1>0, <2>2, <2>3, <2>4, <2>5, <2>6, DirectoryStepKeeps DEF InHand, dirHistory
<1> QED BY <1>1, <1>2 DEF RegisterBeneficiary

\* A change that blocks: the answer will say so.
LEMMA BlockingKeeps ==
  ASSUME DirectoryInv, NEW c \in Callers, InHand(c),
         caller[c].ask.kind \in {"sanctions", "status"}, NEW b, Blocks(b), Change(c, b)
  PROVE  DirectoryInv'
<1>0. /\ DirectoryShape /\ KnownAre /\ IsDirectory(dir)
      /\ UNCHANGED <<dir, saving, paid, created, blocked>>
  BY DEF DirectoryInv, DirectoryShape, Change
<1>1. PICK n : n = Resolve(caller[c].ask.of)
  OBVIOUS
<1>2. /\ DOMAIN bens' = {"byID", "byRef"} /\ bens'.byID = With(bens.byID, n, b)
      /\ caller' = [caller EXCEPT ![c].step = "save", ![c].claim = {n}]
  BY <1>0, <1>1 DEF Change, DirectoryShape
<1>3. IsRequest(caller[c])
  BY <1>0 DEF DirectoryShape, InHand, Free
<1>4. /\ DOMAIN caller' = Callers /\ \A d \in Callers \ {c} : caller'[d] = caller[d]
      /\ caller'[c] = [caller[c] EXCEPT !.step = "save", !.claim = {n}]
  BY <1>0, <1>2 DEF DirectoryShape
<1>5. /\ IsRequest(caller'[c]) /\ caller'[c].step = "save" /\ caller'[c].ask = caller[c].ask
      /\ caller'[c].blocked = caller[c].blocked /\ caller'[c].claim = {n}
  BY <1>3, <1>4 DEF IsRequest
<1>6. \A m : m = n \/ BlocksIn(bens.byID, m) => BlocksIn(bens'.byID, m)
  BY <1>2 DEF With, BlocksIn
<1>7. Making(c)' /\ DirGrew
  BY <1>0, <1>5, AnyIsMade, NothingGrew
<1>8. caller[c].blocked \subseteq KnownBlocked
  BY <1>0 DEF KnownAre, InHand
<1> QED BY <1>0, <1>2, <1>4, <1>5, <1>6, <1>7, <1>8, DirectoryStepKeeps DEF InHand

\* A change that lifts: every request forgets the payee, too.
LEMMA LiftingKeeps ==
  ASSUME DirectoryInv, NEW c \in Callers, InHand(c),
         caller[c].ask.kind \in {"sanctions", "status"}, NEW b, ~Blocks(b), Change(c, b)
  PROVE  DirectoryInv'
<1>0. /\ DirectoryShape /\ CreatedAre /\ MakingHolds /\ BlockedAre /\ ClaimsAre /\ KnownAre
      /\ BlockHolds /\ dir' = dir /\ file' = file /\ saver' = saver /\ paid' = paid
      /\ created' = created
  BY DEF DirectoryInv, Change, saving
<1>1. PICK n : n = Resolve(caller[c].ask.of)
  OBVIOUS
<1>2. /\ DOMAIN bens' = DOMAIN bens /\ bens'.byID = With(bens.byID, n, b)
      /\ blocked' = {t \in blocked : t.payee # n}
  BY <1>0, <1>1 DEF Change, DirectoryShape
<1>3. \A d \in Callers : caller[d] = Free \/ IsRequest(caller[d])
  BY <1>0 DEF DirectoryShape
<1> DEFINE others == [d \in Callers |-> Lifted(n, d)]
<1>4. /\ DOMAIN others = Callers
      /\ \A d \in Callers : caller[d] = Free => others[d] = Free
      /\ \A d \in Callers : caller[d] # Free =>
           /\ IsRequest(others[d]) /\ others[d].step = caller[d].step
           /\ others[d].ask = caller[d].ask /\ others[d].held = caller[d].held
           /\ others[d].blocked = caller[d].blocked \ {n}
           /\ others[d].claim = caller[d].claim \ {n}
  <2>1. ASSUME NEW d \in Callers, caller[d] = Free PROVE others[d] = Free
    BY <2>1 DEF Lifted, Free
  <2>2. ASSUME NEW d \in Callers, caller[d] # Free
        PROVE  /\ IsRequest(others[d]) /\ others[d].step = caller[d].step
               /\ others[d].ask = caller[d].ask /\ others[d].held = caller[d].held
               /\ others[d].blocked = caller[d].blocked \ {n}
               /\ others[d].claim = caller[d].claim \ {n}
    <3>1. IsRequest(caller[d]) /\ caller[d].step # "free"
      BY <1>3, <2>2 DEF IsRequest
    <3>2. others[d] = [caller[d] EXCEPT !.blocked = @ \ {n}, !.claim = @ \ {n}]
      BY <3>1 DEF Lifted
    <3> HIDE DEF others
    <3>3. PICK r, l : r = caller[d] /\ l = others[d]
      OBVIOUS
    <3>4. l = [r EXCEPT !.blocked = @ \ {n}, !.claim = @ \ {n}] /\ IsRequest(r)
      BY <3>1, <3>2, <3>3
    <3>5. /\ DOMAIN l = DOMAIN r /\ l.step = r.step /\ l.ask = r.ask /\ l.held = r.held
          /\ l.blocked = r.blocked \ {n} /\ l.claim = r.claim \ {n}
      BY <3>4 DEF IsRequest
    <3> QED BY <3>3, <3>4, <3>5 DEF IsRequest
  <2> QED BY <2>1, <2>2
<1>5. caller' = [others EXCEPT ![c].step = "save", ![c].claim = {}]
  BY <1>1 DEF Change
<1> HIDE DEF others
<1>6. /\ DOMAIN caller' = Callers /\ \A d \in Callers \ {c} : caller'[d] = others[d]
      /\ IsRequest(caller'[c]) /\ caller'[c].step = "save" /\ caller'[c].claim = {}
      /\ caller'[c].ask = caller[c].ask /\ caller'[c].blocked = caller[c].blocked \ {n}
  <2>1. caller[c] # Free
    BY DEF Free, InHand
  <2>2. IsRequest(others[c]) /\ others[c].ask = caller[c].ask
        /\ others[c].blocked = caller[c].blocked \ {n}
    BY <2>1, <1>4
  <2>3. caller'[c] = [others[c] EXCEPT !.step = "save", !.claim = {}]
    BY <1>4, <1>5
  <2>4. DOMAIN caller' = Callers /\ \A d \in Callers \ {c} : caller'[d] = others[d]
    BY <1>4, <1>5
  <2> QED BY <2>2, <2>3, <2>4 DEF IsRequest
<1>7. \A d \in Callers \ {c} :
        /\ caller'[d].step = caller[d].step
        /\ caller[d].step # "free" =>
             /\ IsRequest(caller'[d]) /\ caller'[d].ask = caller[d].ask
             /\ caller'[d].held = caller[d].held
             /\ caller'[d].blocked = caller[d].blocked \ {n}
             /\ caller'[d].claim = caller[d].claim \ {n}
  BY <1>4, <1>6 DEF Free
<1>8. c \notin DOMAIN saver /\ DOMAIN saver \subseteq Callers
      /\ \A d \in DOMAIN saver : caller[d].step \in {"copy", "write"}
  BY <1>0 DEF DirectoryShape, InHand
<1>9. DirectoryShape'
  <2>1. \A d \in Callers : caller'[d] = Free \/ IsRequest(caller'[d])
    BY <1>3, <1>4, <1>6
  <2>2. DOMAIN saver' = {d \in Callers : caller'[d].step \in {"copy", "write"}}
    BY <1>0, <1>6, <1>7, <1>8 DEF DirectoryShape
  <2> QED BY <1>0, <1>2, <1>6, <2>1, <2>2 DEF DirectoryShape
<1>10. CreatedAre'
  BY <1>0 DEF CreatedAre
<1>11. IsDirectory(dir) /\ DirGrew
  BY <1>0, NothingGrew DEF DirectoryShape
<1>12. MakingHolds'
  <2>1. ASSUME NEW d \in Callers \ {c} PROVE Making(d)'
    <3>1. CASE caller[d].step = "free"
      BY <3>1, <1>7 DEF Making, InSave
    <3>2. CASE caller[d].step # "free"
      BY <3>2, <1>0, <1>7, <1>11, MakingStays DEF MakingHolds
    <3> QED BY <3>1, <3>2
  <2>2. Making(c)'
    BY <1>6, AnyIsMade
  <2>3. \A d \in DOMAIN saver : Made(d)' = Made(d)
    <3> SUFFICES ASSUME NEW d \in DOMAIN saver PROVE Made(d)' = Made(d)
      OBVIOUS
    <3>1. InSave(d) /\ d \in Callers \ {c} /\ caller[d].step # "free"
      BY <1>8 DEF InSave
    <3> QED BY <3>1, <1>0, <1>7, <1>11, MadeStays DEF MakingHolds
  <2>4. SavesHave'
    BY <1>0, <2>3 DEF MakingHolds, SavesHave
  <2> QED BY <2>1, <2>2, <2>4 DEF MakingHolds
<1>13. Writing' = Writing /\ Writing \subseteq DOMAIN saver
  BY <1>0, <1>7, <1>8 DEF Writing
<1>14. \A m : m # n /\ BlocksIn(bens.byID, m) => BlocksIn(bens'.byID, m)
  BY <1>2 DEF With, BlocksIn
<1>15. BlockedAre'
  BY <1>0, <1>2, <1>13, <1>14 DEF BlockedAre
<1>16. ClaimsAre'
  <2>1. \A d \in Callers : caller'[d].step # "free" =>
          \A m \in caller'[d].claim : BlocksIn(bens'.byID, m)
    BY <1>0, <1>6, <1>7, <1>14 DEF ClaimsAre
  <2>2. \A d \in DOMAIN saver : caller'[d].claim \subseteq caller[d].claim
    BY <1>7, <1>8
  <2> QED BY <1>0, <1>13, <2>1, <2>2 DEF ClaimsAre
<1>17. KnownAre'
  <2>1. KnownBlocked' = KnownBlocked \ {n}
    BY <1>2 DEF KnownBlocked
  <2>2. \A d \in Callers : caller'[d].step # "free" => caller'[d].blocked \subseteq KnownBlocked'
    BY <1>0, <1>6, <1>7, <2>1 DEF KnownAre, InHand
  <2>3. \A d \in Callers : caller'[d].step = "pay" => caller'[d].held \notin caller'[d].blocked
    BY <1>0, <1>6, <1>7 DEF KnownAre
  <2> QED BY <2>2, <2>3 DEF KnownAre
<1>18. BlockHolds'
  BY <1>0 DEF BlockHolds
<1> QED BY <1>9, <1>10, <1>12, <1>15, <1>16, <1>17, <1>18 DEF DirectoryInv

LEMMA SettingKeeps ==
  ASSUME DirectoryInv, NEW c \in Callers, SetSanctions(c) \/ SetStatus(c)
  PROVE  DirectoryInv'
<1>1. InHand(c) /\ caller[c].ask.kind \in {"sanctions", "status"}
  BY DEF SetSanctions, SetStatus, At, InHand
<1>2. CASE Refuse(c) /\ UNCHANGED <<dir, bens, saving, paid, dirHistory>>
  BY <1>1, <1>2, RefusedKeeps
<1>3. CASE \E b : Change(c, b)
  BY <1>1, <1>3, BlockingKeeps, LiftingKeeps
<1> QED BY <1>2, <1>3 DEF SetSanctions, SetStatus
-----------------------------------------------------------------------------
\* While only saves go on, what a request means to tell stands.
LEMMA MadeStands ==
  ASSUME UNCHANGED dir, NEW c \in Callers, caller'[c].ask = caller[c].ask,
         caller'[c].held = caller[c].held
  PROVE  /\ Made(c)' = Made(c)
         /\ (InSave(c) /\ caller'[c].step \in {"copy", "write"}) \/ caller'[c].step = caller[c].step
              => (Making(c) => Making(c)')
<1>1. Made(c)' = Made(c)
  BY DEF Made, Creation, Key, ResolveCompany
<1>2. PICK ask : ask = caller[c].ask
  OBVIOUS
<1>3. ResolveCompany(ask.of)' = ResolveCompany(ask.of)
  BY DEF ResolveCompany
<1>4. ResolveCompany(caller[c].ask.of)' = ResolveCompany(ask.of)'
  BY <1>2 DEF ResolveCompany
<1> QED BY <1>1, <1>2, <1>3, <1>4 DEF Making, InSave

\* A save has copied the directory, and began alone or not.
LEMMA CopyDirectoryKeeps ==
  ASSUME DirectoryInv, NEW c \in Callers, CopyDirectory(c)
  PROVE  DirectoryInv'
<1>0. /\ DirectoryShape /\ CreatedAre /\ MakingHolds /\ BlockedAre /\ ClaimsAre /\ KnownAre
      /\ BlockHolds /\ dir' = dir /\ bens' = bens /\ file' = file /\ paid' = paid
      /\ created' = created /\ blocked' = blocked /\ caller[c].step = "save"
  BY DEF DirectoryInv, CopyDirectory, dirHistory
<1>1. /\ IsRequest(caller'[c]) /\ caller'[c].step = "copy" /\ caller'[c].held = caller[c].held
      /\ caller'[c].ask = caller[c].ask /\ caller'[c].blocked = caller[c].blocked
      /\ caller'[c].claim = caller[c].claim
      /\ DOMAIN caller' = Callers /\ \A d \in Callers \ {c} : caller'[d] = caller[d]
  <2>1. IsRequest(caller[c])
    BY <1>0 DEF DirectoryShape, Free
  <2>2. /\ caller'[c] = [caller[c] EXCEPT !.step = "copy"]
        /\ DOMAIN caller' = Callers /\ \A d \in Callers \ {c} : caller'[d] = caller[d]
    BY <1>0 DEF CopyDirectory, DirectoryShape
  <2> QED BY <2>1, <2>2 DEF IsRequest
<1>2. c \notin DOMAIN saver /\ DOMAIN saver \subseteq Callers
  BY <1>0 DEF DirectoryShape
<1>3. /\ DOMAIN saver' = DOMAIN saver \cup {c}
      /\ IsSave(saver'[c]) /\ saver'[c].dir = dir
      /\ saver'[c].crossed = (DOMAIN saver # {}) /\ ~saver'[c].passed
      /\ \A d \in DOMAIN saver :
           /\ IsSave(saver'[d]) /\ saver'[d].dir = saver[d].dir /\ saver'[d].byID = saver[d].byID
           /\ saver'[d].crossed = saver[d].crossed /\ saver'[d].passed = saver[d].passed
  <2>1. /\ DOMAIN saver' = DOMAIN saver \cup {c}
        /\ saver'[c] = [dir |-> dir, byID |-> Void, crossed |-> DOMAIN saver # {},
                        beside |-> DOMAIN saver # {}, passed |-> FALSE]
        /\ \A d \in DOMAIN saver : saver'[d] = [saver[d] EXCEPT !.beside = TRUE]
    BY <1>2 DEF CopyDirectory
  <2>2. \A d \in DOMAIN saver : IsSave(saver[d])
    BY <1>0 DEF DirectoryShape
  <2>3. ASSUME NEW d \in DOMAIN saver
        PROVE  /\ IsSave(saver'[d]) /\ saver'[d].dir = saver[d].dir
               /\ saver'[d].byID = saver[d].byID
               /\ saver'[d].crossed = saver[d].crossed /\ saver'[d].passed = saver[d].passed
    <3>1. saver'[d] = [saver[d] EXCEPT !.beside = TRUE] /\ IsSave(saver[d])
      BY <2>1, <2>2
    <3> QED BY <3>1 DEF IsSave
  <2>4. /\ IsSave(saver'[c]) /\ saver'[c].dir = dir
        /\ saver'[c].crossed = (DOMAIN saver # {}) /\ ~saver'[c].passed
    BY <1>0, <2>1 DEF IsSave, DirectoryShape
  <2> QED BY <2>1, <2>3, <2>4
<1>4. DirectoryShape'
  BY <1>0, <1>1, <1>3 DEF DirectoryShape
<1>5. CreatedAre'
  BY <1>0, <1>3 DEF CreatedAre
<1>6. MakingHolds'
  <2>1. \A d \in Callers : Made(d)' = Made(d) /\ Making(d)'
    BY <1>0, <1>1, MadeStands DEF MakingHolds, InSave
  <2>2. \A d \in DOMAIN saver \cup {c} : Backed(Made(d), dir)
    BY <1>0, <1>2 DEF MakingHolds, Making, InSave, DirectoryShape
  <2>3. SavesHave'
    BY <1>0, <1>2, <1>3, <2>1, <2>2 DEF MakingHolds, SavesHave
  <2> QED BY <2>1, <2>3 DEF MakingHolds
<1>7. Writing' = Writing /\ Writing \subseteq DOMAIN saver
  BY <1>1, <1>2, <1>3 DEF Writing
<1>8. BlockedAre' /\ BlockHolds'
  BY <1>0, <1>3, <1>7 DEF BlockedAre, BlockHolds
<1>9. ClaimsAre'
  <2>1. ~saver'[c].crossed => Writing = {}
    BY <1>3, <1>7
  <2> QED BY <1>0, <1>1, <1>2, <1>3, <1>7, <2>1 DEF ClaimsAre
<1>10. KnownAre'
  BY <1>0, <1>1 DEF KnownAre, KnownBlocked
<1> QED BY <1>4, <1>5, <1>6, <1>8, <1>9, <1>10 DEF DirectoryInv

\* And then the payees, of whom everything told and to be told is true.
LEMMA CopyPayeesKeeps ==
  ASSUME DirectoryInv, NEW c \in Callers, CopyPayees(c)
  PROVE  DirectoryInv'
<1>0. /\ DirectoryShape /\ CreatedAre /\ MakingHolds /\ BlockedAre /\ ClaimsAre /\ KnownAre
      /\ BlockHolds /\ dir' = dir /\ bens' = bens /\ file' = file /\ paid' = paid
      /\ created' = created /\ blocked' = blocked /\ caller[c].step = "copy"
  BY DEF DirectoryInv, CopyPayees, dirHistory
<1>1. /\ IsRequest(caller'[c]) /\ caller'[c].step = "write" /\ caller'[c].held = caller[c].held
      /\ caller'[c].ask = caller[c].ask /\ caller'[c].blocked = caller[c].blocked
      /\ caller'[c].claim = caller[c].claim
      /\ DOMAIN caller' = Callers /\ \A d \in Callers \ {c} : caller'[d] = caller[d]
  <2>1. IsRequest(caller[c])
    BY <1>0 DEF DirectoryShape, Free
  <2>2. /\ caller'[c] = [caller[c] EXCEPT !.step = "write"]
        /\ DOMAIN caller' = Callers /\ \A d \in Callers \ {c} : caller'[d] = caller[d]
    BY <1>0 DEF CopyPayees, DirectoryShape
  <2> QED BY <2>1, <2>2 DEF IsRequest
<1>2. c \in DOMAIN saver /\ DOMAIN saver \subseteq Callers /\ IsSave(saver[c])
      /\ \A d \in DOMAIN saver : caller[d].step # "free"
  BY <1>0 DEF DirectoryShape
<1>3. /\ DOMAIN saver' = DOMAIN saver
      /\ IsSave(saver'[c]) /\ saver'[c].dir = saver[c].dir /\ saver'[c].byID = bens.byID
      /\ saver'[c].crossed = saver[c].crossed /\ saver'[c].passed = saver[c].passed
      /\ \A d \in DOMAIN saver \ {c} : saver'[d] = saver[d]
  <2>1. /\ DOMAIN saver' = DOMAIN saver /\ \A d \in DOMAIN saver \ {c} : saver'[d] = saver[d]
        /\ saver'[c] = [saver[c] EXCEPT !.byID = bens.byID]
    BY <1>2 DEF CopyPayees
  <2> QED BY <1>2, <2>1 DEF IsSave
<1>4. DirectoryShape'
  BY <1>0, <1>1, <1>3 DEF DirectoryShape
<1>5. \A d \in DOMAIN saver : /\ saver'[d].dir = saver[d].dir
                              /\ saver'[d].crossed = saver[d].crossed
                              /\ saver'[d].passed = saver[d].passed
  BY <1>3
<1>6. CreatedAre'
  BY <1>0, <1>3, <1>5 DEF CreatedAre
<1>7. MakingHolds'
  <2>1. \A d \in Callers : Made(d)' = Made(d) /\ Making(d)'
    BY <1>0, <1>1, MadeStands DEF MakingHolds, InSave
  <2>2. SavesHave'
    BY <1>0, <1>2, <1>3, <1>5, <2>1 DEF MakingHolds, SavesHave
  <2> QED BY <2>1, <2>2 DEF MakingHolds
<1>8. Writing' = Writing \cup {c} /\ Writing \subseteq DOMAIN saver /\ c \notin Writing
  BY <1>0, <1>1, <1>2, <1>3 DEF Writing
<1>9. BlockedAre' /\ BlockHolds'
  BY <1>0, <1>3, <1>8 DEF BlockedAre, BlockHolds
<1>10. ClaimsAre'
  <2>1. \A d \in DOMAIN saver : \A n \in caller[d].claim : BlocksIn(bens.byID, n)
    BY <1>0, <1>2 DEF ClaimsAre
  <2>2. \A d \in Callers : caller'[d].claim = caller[d].claim
    BY <1>1
  <2>3. \A d \in Callers : caller'[d].step # "free" => caller[d].step # "free"
    BY <1>0, <1>1
  <2>4. \A d \in Writing' : \A n \in caller'[d].claim : BlocksIn(saver'[d].byID, n)
    BY <1>0, <1>2, <1>3, <1>8, <2>1, <2>2 DEF ClaimsAre
  <2>5. \A d \in DOMAIN saver : ~saver'[d].crossed =>
          \A n \in caller'[d].claim : \A e \in Writing' : BlocksIn(saver'[e].byID, n)
    BY <1>0, <1>2, <1>3, <1>5, <1>8, <2>1, <2>2 DEF ClaimsAre
  <2>6. \A d \in DOMAIN saver : ~saver'[d].crossed /\ saver'[d].passed =>
          \A n \in caller'[d].claim : BlocksIn(file'.byID, n)
    BY <1>0, <1>2, <1>5, <2>2 DEF ClaimsAre
  <2>7. \A d \in Callers : caller'[d].step # "free" =>
          \A n \in caller'[d].claim : BlocksIn(bens'.byID, n)
    BY <1>0, <2>2, <2>3 DEF ClaimsAre
  <2> QED BY <1>3, <2>4, <2>5, <2>6, <2>7 DEF ClaimsAre
<1>11. KnownAre'
  BY <1>0, <1>1 DEF KnownAre, KnownBlocked
<1> QED BY <1>4, <1>6, <1>7, <1>9, <1>10, <1>11 DEF DirectoryInv

\* What is in the copies of a save that is written is in every copy.
LEMMA WriteThroughKeeps ==
  ASSUME DirectoryInv, NEW c \in Callers, WriteThrough(c)
  PROVE  DirectoryInv'
<1>0. /\ DirectoryShape /\ CreatedAre /\ MakingHolds /\ BlockedAre /\ ClaimsAre /\ KnownAre
      /\ BlockHolds /\ UNCHANGED <<dir, bens, saver, caller, paid, created, blocked>>
      /\ file' = Copied(c) /\ caller[c].step = "write"
  BY DEF DirectoryInv, WriteThrough, dirHistory
<1>1. /\ DOMAIN file' = {"dir", "byID"} /\ file'.dir = saver[c].dir /\ file'.byID = saver[c].byID
      /\ c \in DOMAIN saver /\ c \in Writing /\ IsDirectory(saver[c].dir)
  BY <1>0 DEF Copied, Writing, DirectoryShape, IsSave
<1>2. DirectoryShape'
  BY <1>0, <1>1, SMTT(20) DEF DirectoryShape
<1>3. CreatedAre' /\ BlockedAre' /\ BlockHolds'
  BY <1>0, <1>1 DEF CreatedAre, BlockedAre, BlockHolds, Writing
<1>4. MakingHolds'
  <2>1. \A d \in Callers : Made(d)' = Made(d) /\ Making(d)'
    BY <1>0, MadeStands DEF MakingHolds
  <2>2. DOMAIN saver \subseteq Callers
    BY <1>0 DEF DirectoryShape
  <2>3. SavesHave'
    BY <1>0, <1>1, <2>1, <2>2 DEF MakingHolds, SavesHave
  <2> QED BY <2>1, <2>3 DEF MakingHolds
<1>5. ClaimsAre' /\ KnownAre'
  BY <1>0, <1>1 DEF ClaimsAre, KnownAre, Writing, KnownBlocked
<1> QED BY <1>2, <1>3, <1>4, <1>5 DEF DirectoryInv

\* The answer of a save that is over: it may say that what it tells is kept if
\* the save began alone, and the file was written by it, or by a later one.
LEMMA AnswerKeeps ==
  ASSUME DirectoryInv, NEW c \in Callers, caller[c].step = "write",
         NEW kept \in BOOLEAN, Tell(c, kept), UNCHANGED <<dir, bens, paid>>,
         file' = file \/ file' = Copied(c),
         kept => ~saver[c].crossed /\ (file' = Copied(c) \/ saver[c].passed),
         DOMAIN saver' = DOMAIN saver \ {c},
         \A d \in DOMAIN saver \ {c} :
           /\ IsSave(saver'[d]) /\ saver'[d].dir = saver[d].dir /\ saver'[d].byID = saver[d].byID
           /\ saver'[d].crossed = saver[d].crossed
           /\ saver'[d].passed => saver[d].passed \/ file' = Copied(c)
  PROVE  DirectoryInv'
<1>0. /\ DirectoryShape /\ CreatedAre /\ MakingHolds /\ BlockedAre /\ ClaimsAre /\ KnownAre
      /\ BlockHolds /\ dir' = dir /\ bens' = bens /\ paid' = paid
  BY DEF DirectoryInv
<1>1. /\ caller'[c] = Free
      /\ DOMAIN caller' = Callers /\ \A d \in Callers \ {c} : caller'[d] = caller[d]
  BY <1>0 DEF Tell, DirectoryShape
<1>2. /\ c \in DOMAIN saver /\ c \in Writing /\ IsDirectory(saver[c].dir)
      /\ DOMAIN saver \subseteq Callers
  BY <1>0 DEF DirectoryShape, Writing, IsSave
<1>3. \/ file' = file
      \/ DOMAIN file' = {"dir", "byID"} /\ file'.dir = saver[c].dir /\ file'.byID = saver[c].byID
  BY DEF Copied
<1>4. file' = Copied(c) => file'.dir = saver[c].dir /\ file'.byID = saver[c].byID
  BY DEF Copied
<1>5. DirectoryShape'
  <2>1. IsDirectory(file'.dir) /\ DOMAIN file' = {"dir", "byID"}
    BY <1>0, <1>2, <1>3 DEF DirectoryShape
  <2>2. DOMAIN saver' = {d \in Callers : caller'[d].step \in {"copy", "write"}}
    BY <1>0, <1>1, <1>2 DEF DirectoryShape, Free
  <2> QED BY <1>0, <1>1, <2>1, <2>2 DEF DirectoryShape
<1>6. CreatedAre'
  <2>1. \A t \in created' : \/ t \in created
                            \/ t.key = Made(c).key /\ t.id = Made(c).id /\ t.kept = kept
    BY DEF Tell, Made, Creation
  <2>2. Backed(Made(c), dir) /\ Backed(Made(c), saver[c].dir)
        /\ (kept => Backed(Made(c), file'.dir) /\ \A d \in DOMAIN saver : Backed(Made(c), saver[d].dir))
    BY <1>0, <1>2, <1>4 DEF MakingHolds, Making, SavesHave, InSave
  <2>3. ASSUME NEW t \in created', t \in created
        PROVE  /\ Backed(t, dir')
               /\ t.kept => Backed(t, file'.dir) /\ \A d \in DOMAIN saver' : Backed(t, saver'[d].dir)
    BY <2>3, <1>0, <1>2, <1>3 DEF CreatedAre
  <2>4. ASSUME NEW t \in created', t.key = Made(c).key, t.id = Made(c).id, t.kept = kept
        PROVE  /\ Backed(t, dir')
               /\ t.kept => Backed(t, file'.dir) /\ \A d \in DOMAIN saver' : Backed(t, saver'[d].dir)
    <3>1. \A d : Backed(Made(c), d) => Backed(t, d)
      BY <2>4 DEF Backed
    <3> QED BY <2>4, <3>1, <2>2, <1>0
  <2> QED BY <2>1, <2>3, <2>4 DEF CreatedAre
<1>7. MakingHolds'
  <2>1. \A d \in Callers \ {c} : Made(d)' = Made(d) /\ Making(d)'
    BY <1>0, <1>1, MadeStands DEF MakingHolds
  <2>2. Making(c)'
    BY <1>1 DEF Making, InSave, Free
  <2>3. \A d \in DOMAIN saver : ~saver[d].crossed /\ file' = Copied(c) => Backed(Made(d), file'.dir)
    BY <1>0, <1>2, <1>4 DEF MakingHolds, SavesHave
  <2>4. \A d \in DOMAIN saver : ~saver[d].crossed /\ saver[d].passed => Backed(Made(d), file'.dir)
    BY <1>0, <2>3 DEF MakingHolds, SavesHave
  <2>5. SavesHave'
    BY <1>0, <1>2, <2>1, <2>3, <2>4 DEF MakingHolds, SavesHave
  <2> QED BY <2>1, <2>2, <2>5 DEF MakingHolds
<1>8. Writing' = Writing \ {c} /\ Writing \subseteq DOMAIN saver
  BY <1>1, <1>2 DEF Writing
<1>9. BlockedAre'
  <2>1. \A t \in blocked' : \/ t \in blocked
                            \/ t.payee \in caller[c].claim /\ t.kept = kept
    BY DEF Tell
  <2>2. \A n \in caller[c].claim :
          /\ BlocksIn(bens.byID, n)
          /\ kept => BlocksIn(file'.byID, n) /\ \A d \in Writing : BlocksIn(saver[d].byID, n)
    BY <1>0, <1>2, <1>4 DEF ClaimsAre
  <2>3. \A t \in blocked : t.kept => BlocksIn(file'.byID, t.payee)
    BY <1>0, <1>2, <1>3 DEF BlockedAre
  <2> QED BY <1>0, <1>8, <2>1, <2>2, <2>3 DEF BlockedAre
<1>10. ClaimsAre'
  <2>1. \A d \in DOMAIN saver : ~saver[d].crossed /\ (saver[d].passed \/ file' = Copied(c)) =>
          \A n \in caller[d].claim : BlocksIn(file'.byID, n)
    BY <1>0, <1>2, <1>4 DEF ClaimsAre
  <2>2. \A d \in DOMAIN saver' : d \in DOMAIN saver /\ d # c /\ caller'[d] = caller[d]
    BY <1>1, <1>2
  <2> QED BY <1>0, <1>1, <1>8, <2>1, <2>2 DEF ClaimsAre, Free
<1>11. KnownAre'
  <2>1. KnownBlocked \subseteq KnownBlocked'
    BY DEF KnownBlocked, Tell
  <2> QED BY <1>0, <1>1, <2>1 DEF KnownAre, Free
<1>12. BlockHolds'
  BY <1>0 DEF BlockHolds
<1> QED BY <1>5, <1>6, <1>7, <1>9, <1>10, <1>11, <1>12 DEF DirectoryInv

LEMMA LandKeeps ==
  ASSUME DirectoryInv, NEW c \in Callers, Land(c) \/ SaveFault(c)
  PROVE  DirectoryInv'
<1>0. /\ DirectoryShape /\ caller[c].step = "write" /\ UNCHANGED <<dir, bens, paid>>
      /\ \A d \in DOMAIN saver : IsSave(saver[d])
  BY DEF DirectoryInv, DirectoryShape, Land, SaveFault
<1>1. ASSUME Leave(c)
      PROVE  /\ DOMAIN saver' = DOMAIN saver \ {c}
             /\ \A d \in DOMAIN saver \ {c} : saver'[d] = saver[d]
  BY <1>1 DEF Leave, Restrict
<1>2. CASE SaveFault(c)
  <2>1. Leave(c) /\ Tell(c, FALSE) /\ file' = file
    BY <1>2 DEF SaveFault
  <2> QED BY <1>0, <1>1, <2>1, AnswerKeeps
<1>3. CASE saver[c].passed /\ Leave(c) /\ UNCHANGED <<file, legible>> /\ Tell(c, ~saver[c].crossed)
  BY <1>0, <1>1, <1>3, AnswerKeeps
<1>4. CASE file' = Copied(c) /\ LeaveBehind(c) /\ Tell(c, ~saver[c].crossed)
  <2>1. /\ DOMAIN saver' = DOMAIN saver \ {c}
        /\ \A d \in DOMAIN saver \ {c} :
             saver'[d] = saver[d] \/ saver'[d] = [saver[d] EXCEPT !.passed = TRUE]
    BY <1>4 DEF LeaveBehind
  <2>2. ASSUME NEW d \in DOMAIN saver \ {c}
        PROVE  /\ IsSave(saver'[d]) /\ saver'[d].dir = saver[d].dir
               /\ saver'[d].byID = saver[d].byID /\ saver'[d].crossed = saver[d].crossed
    <3>1. IsSave(saver[d])
      BY <1>0
    <3> QED BY <2>1, <3>1 DEF IsSave
  <2> QED BY <1>0, <1>4, <2>1, <2>2, AnswerKeeps
<1> QED BY <1>2, <1>3, <1>4 DEF Land

LEMMA PersistKeeps ==
  ASSUME DirectoryInv, NEW c \in Callers, Persist(c)
  PROVE  DirectoryInv'
<1> QED BY CopyDirectoryKeeps, CopyPayeesKeeps, WriteThroughKeeps, LandKeeps DEF Persist

LEMMA DirectoryRestartKeeps ==
  ASSUME DirectoryInv, RestartDirectory
  PROVE  DirectoryInv'
<1>0. /\ DirectoryShape /\ CreatedAre /\ BlockedAre /\ BlockHolds
      /\ file' = file /\ paid' = paid /\ dir' = file.dir
      /\ DOMAIN bens' = {"byID", "byRef"} /\ bens'.byID = file.byID
      /\ caller' = [c \in Callers |-> Free] /\ DOMAIN saver' = {}
      /\ created' = {t \in created : t.kept} /\ blocked' = {t \in blocked : t.kept}
  BY DEF DirectoryInv, RestartDirectory, Void
<1>1. DirectoryShape'
  BY <1>0 DEF DirectoryShape, Free
<1>2. CreatedAre' /\ BlockedAre' /\ BlockHolds'
  BY <1>0 DEF CreatedAre, BlockedAre, BlockHolds, Writing
<1>3. MakingHolds'
  BY <1>0 DEF MakingHolds, Making, InSave, SavesHave, Free
<1>4. ClaimsAre' /\ KnownAre'
  BY <1>0 DEF ClaimsAre, KnownAre, Writing, Free
<1> QED BY <1>1, <1>2, <1>3, <1>4 DEF DirectoryInv

LEMMA DirectoryStutters ==
  ASSUME DirectoryInv, UNCHANGED dirVars
  PROVE  DirectoryInv'
<1>1. UNCHANGED <<dir, bens, file, saver, caller, created, blocked, paid>>
  BY DEF dirVars, dirHistory, saving
<1>2. DirectoryShape'
  BY <1>1, SMTT(20) DEF DirectoryInv, DirectoryShape
<1>3. CreatedAre' /\ BlockedAre' /\ BlockHolds'
  BY <1>1 DEF DirectoryInv, CreatedAre, BlockedAre, BlockHolds, Writing
<1>4. \A c \in Callers : Made(c)' = Made(c) /\ Making(c)'
  BY <1>1, MadeStands DEF DirectoryInv, MakingHolds
<1>5. DOMAIN saver \subseteq Callers
  BY DEF DirectoryInv, DirectoryShape
<1>6. MakingHolds'
  BY <1>1, <1>4, <1>5 DEF DirectoryInv, MakingHolds, SavesHave
<1>7. ClaimsAre' /\ KnownAre'
  BY <1>1 DEF DirectoryInv, ClaimsAre, KnownAre, Writing, KnownBlocked
<1> QED BY <1>2, <1>3, <1>6, <1>7 DEF DirectoryInv

LEMMA DirectoryInvariant == DirectorySpec => []DirectoryInv
<1>1. DirectoryInv /\ [DirectoryNext]_dirVars => DirectoryInv'
  <2> SUFFICES ASSUME DirectoryInv, [DirectoryNext]_dirVars PROVE DirectoryInv'
    OBVIOUS
  <2>1. ASSUME NEW c \in Callers, Begin(c) \/ Handle(c) \/ Hop(c) \/ Persist(c)
        PROVE  DirectoryInv'
    BY <2>1, BeginKeeps, CreateCompanyKeeps, CreateAddressKeeps, PersonKeeps, CheckExtendedKeeps,
       AddExtendedKeeps, CreateVibanKeeps, OthersKeep, RegisterKeeps, SettingKeeps, GateKeeps,
       PayKeeps, PersistKeeps DEF Handle
  <2> QED BY <2>1, DirectoryRestartKeeps, DirectoryStutters DEF DirectoryNext
<1> QED BY <1>1, DirectoryInitially, PTL DEF DirectorySpec

\* Whatever requests B4B serves and saves beside each other, no client is told
\* of a second company, profile or account for what has one, for any number of
\* ids and callers; over restarts, with the exception that CreatedOnce states
\* (directory.go, find or create; persist).
THEOREM ToldOnce == DirectorySpec => []CreatedOnce
<1> QED BY DirectoryInvariant, BackedAreOnce, PTL

\* A payee that an operator was told is blocked, when its payment was asked
\* for, is not paid; over restarts too, if no save that was under way when the
\* block's own save began could be written after it, and that one did not fail
\* (gateBeneficiary, setSanctions, persist).
THEOREM BlocksHold == DirectorySpec => []BlockHolds
<1> QED BY DirectoryInvariant, PTL DEF DirectoryInv
-----------------------------------------------------------------------------
(***************************************************************************)
(* The enrolment desk                                                      *)
(***************************************************************************)

Steps == {"idle", "next", "open", "write", "rename", "mark"}

DeskShape ==
  /\ seen \subseteq Names
  /\ DOMAIN inbox \subseteq Names
  /\ \A n \in DOMAIN inbox : DOMAIN inbox[n] = {"text", "goal", "due"}
  /\ DOMAIN clerk = Clerks
  /\ \A c \in Clerks :
       /\ DOMAIN clerk[c] = {"step", "names", "text", "receipt", "inode"}
       /\ clerk[c].step \in Steps /\ clerk[c].names \subseteq DOMAIN inbox
       /\ clerk[c].step = "idle" => clerk[c].names = {}
       /\ AtWork(c) => clerk[c].names # {}
  /\ partial \in [Names -> Nat] /\ out \in [Names -> Nat] /\ written \in [Names -> Nat]
  /\ DOMAIN sent = Names
  /\ requests \in Nat /\ deskRestarts \in Nat

\* A receipt speaks of a batch that was uploaded under the name.
Speaks(r, n) == r # Half /\ \E b \in sent[n] \ {Garbage} : Answers(r, b)

\* What a clerk has read was uploaded whole, and its receipt speaks of it.
TextsSent ==
  /\ \A n \in DOMAIN inbox : inbox[n].text # Half => inbox[n].text \in sent[n]
  /\ \A c \in Clerks : AtWork(c) =>
       /\ clerk[c].text \in sent[Batch0(c)] \ {Garbage}
       /\ clerk[c].step # "open" => Speaks(clerk[c].receipt, Batch0(c))

\* The receipt's files of a name.
Holding(c) == clerk[c].step \in {"write", "rename"}
FilesOf(n) ==
  {partial[n], out[n]} \cup {clerk[c].inode : c \in {d \in Clerks : Holding(d) /\ Batch0(d) = n}}

\* Each file is one name's, and half-written or a receipt for it.
FilesApart ==
  /\ \E k \in Nat : DOMAIN inodes = 1..k /\ \A n \in Names : FilesOf(n) \subseteq 0..k
  /\ \A c \in Clerks : Holding(c) => clerk[c].inode # 0
  /\ \A n, m \in Names : n # m => FilesOf(n) \cap FilesOf(m) \subseteq {0}
  /\ \A n \in Names : \A i \in FilesOf(n) \ {0} : inodes[i] = Half \/ Speaks(inodes[i], n)

\* A batch not met twice has one clerk at most, and that one its file.
OneClerk ==
  \A n \in Names :
    /\ out[n] # 0 <=> written[n] > 0
    /\ n \notin met =>
         /\ written[n] <= 1
         /\ out[n] # 0 => inodes[out[n]] # Half
         /\ \A c, d \in Clerks : AtWork(c) /\ AtWork(d) /\ Batch0(c) = n /\ Batch0(d) = n => c = d
         /\ \A c \in Clerks : AtWork(c) /\ Batch0(c) = n /\ clerk[c].step # "mark" =>
              /\ written[n] = 0
              /\ Holding(c) => partial[n] = clerk[c].inode
              /\ clerk[c].step = "rename" => inodes[partial[n]] # Half

\* The clerks that may still answer a batch.
Left(c) == IF clerk[c].step = "mark" THEN clerk[c].names \ {Batch0(c)} ELSE clerk[c].names
LeftAt(n) == {c \in Clerks : n \in Left(c)}

\* Every answer to a batch is by the sweep, once until the next restart, or
\* an operator's request.
Counted ==
  \A n \in Names :
    written[n] + Cardinality(LeftAt(n))
      <= deskRestarts + requests + (IF n \in seen \cup clerk[Sweep].names THEN 1 ELSE 0)

DeskInv == DeskShape /\ TextsSent /\ FilesApart /\ OneClerk /\ Counted

-----------------------------------------------------------------------------
LEMMA FirstIs ==
  ASSUME DeskShape, NEW c \in Clerks, clerk[c].names # {}
  PROVE  Batch0(c) \in clerk[c].names /\ Batch0(c) \in Names
<1>1. clerk[c].names \subseteq DOMAIN inbox /\ DOMAIN inbox \subseteq Names /\ Names \subseteq Nat
  BY EnrolmentDeskAssumption DEF DeskShape
<1> QED BY <1>1, MinIsLeast DEF Batch0

LEMMA OthersStay ==
  ASSUME NEW d, clerk'[d] = clerk[d]
  PROVE  /\ Batch0(d)' = Batch0(d) /\ AtWork(d)' = AtWork(d)
         /\ Holding(d)' = Holding(d) /\ Left(d)' = Left(d)
<1> QED BY DEF Batch0, AtWork, Holding, Left

LEMMA NamesStay ==
  ASSUME NEW d, clerk'[d].names = clerk[d].names
  PROVE  Batch0(d)' = Batch0(d)
<1> QED BY DEF Batch0

LEMMA Fewer ==
  ASSUME NEW S, NEW T, S \subseteq T, T \subseteq Clerks
  PROVE  /\ Cardinality(S) \in Nat /\ Cardinality(T) \in Nat
         /\ Cardinality(S) <= Cardinality(T)
         /\ \A c \in T \ S : Cardinality(S) + 1 <= Cardinality(T)
<1>1. IsFiniteSet(T) /\ IsFiniteSet(S)
  BY FS_Subset, EnrolmentDeskAssumption
<1>2. Cardinality(S) \in Nat /\ Cardinality(T) \in Nat /\ Cardinality(S) <= Cardinality(T)
  BY <1>1, FS_Subset, FS_CardinalityType
<1>3. ASSUME NEW c \in T \ S PROVE Cardinality(S) + 1 <= Cardinality(T)
  <2>1. IsFiniteSet(T \ {c}) /\ Cardinality(T \ {c}) = Cardinality(T) - 1
    BY <1>1, FS_RemoveElement
  <2>2. S \subseteq T \ {c}
    OBVIOUS
  <2>3. Cardinality(S) <= Cardinality(T \ {c})
    BY <2>1, <2>2, FS_Subset
  <2> QED BY <1>2, <2>1, <2>3
<1> QED BY <1>2, <1>3

LEMMA OneMore ==
  ASSUME NEW S, NEW T, NEW c, S \subseteq T \cup {c}, T \subseteq Clerks
  PROVE  /\ Cardinality(S) \in Nat /\ Cardinality(T) \in Nat
         /\ Cardinality(S) <= Cardinality(T) + 1
<1>1. IsFiniteSet(T)
  BY FS_Subset, EnrolmentDeskAssumption
<1>2. IsFiniteSet(T \cup {c}) /\ Cardinality(T \cup {c}) <= Cardinality(T) + 1
  <2>1. Cardinality(T) \in Nat
    BY <1>1, FS_CardinalityType
  <2>2. CASE c \in T
    <3>1. T \cup {c} = T
      BY <2>2
    <3> QED BY <1>1, <2>1, <3>1
  <2>3. CASE c \notin T
    <3>1. IsFiniteSet(T \cup {c}) /\ Cardinality(T \cup {c}) = Cardinality(T) + 1
      BY <1>1, <2>3, FS_AddElement, Zenon
    <3> QED BY <2>1, <3>1
  <2> QED BY <2>2, <2>3
<1>3. IsFiniteSet(S) /\ Cardinality(S) <= Cardinality(T \cup {c})
  BY <1>2, FS_Subset
<1>4. Cardinality(S) \in Nat /\ Cardinality(T) \in Nat /\ Cardinality(T \cup {c}) \in Nat
  BY <1>1, <1>2, <1>3, FS_CardinalityType
<1> QED BY <1>2, <1>3, <1>4

LEMMA LeftAtClerks == \A n : LeftAt(n) \subseteq Clerks
<1> QED BY DEF LeftAt

LEMMA InodeIsNew ==
  ASSUME NEW k \in Nat, DOMAIN inodes = 1..k
  PROVE  NewInode = k + 1
<1>1. Cardinality(1..k) = k
  BY FS_Interval
<1> QED BY <1>1 DEF NewInode

LEMMA FilesAre ==
  ASSUME NEW n
  PROVE  \A i : i \in FilesOf(n) <=>
           \/ i = partial[n] \/ i = out[n]
           \/ \E d \in Clerks : Holding(d) /\ Batch0(d) = n /\ i = clerk[d].inode
<1> QED BY DEF FilesOf

\* A receipt the desk builds tells the truth of its batch.
LEMMA BuiltAnswers ==
  ASSUME NEW text, NEW armed
  PROVE  /\ Answers(BuildReceipt(text, armed), text)
         /\ BuildReceipt(text, armed) # Half
<1> DEFINE r == BuildReceipt(text, armed)
           no == {i \in Handles(text) : text.subs[i] \in DOMAIN armed}
<1>1. DOMAIN r = {"approvals", "rejections"} /\ DOMAIN r.approvals = Handles(text) \ no
      /\ DOMAIN r.rejections = no /\ no \subseteq Handles(text)
  BY DEF BuildReceipt
<1>2. \A i \in Handles(text) \ no :
        r.approvals[i].outlet = text.subs[i] /\ r.approvals[i].mid = Mid[text.subs[i]]
  BY DEF BuildReceipt
<1>3. \A i \in no : r.rejections[i].outlet = text.subs[i] /\ r.rejections[i].code \in Codes
  BY EnrolmentDeskAssumption DEF BuildReceipt
<1>4. r # Half
  <2>1. DOMAIN Half = {"half"}
    BY DEF Half
  <2>2. "half" # "approvals"
    OBVIOUS
  <2> QED BY <1>1, <2>1, <2>2
<1>5. Answers(r, text)
  <2> HIDE DEF r, no
  <2> QED BY <1>1, <1>2, <1>3 DEF Answers
<1> QED BY <1>4, <1>5

-----------------------------------------------------------------------------

\* The clerks and the receipts stay as they are.
LEMMA ClerksStay ==
  ASSUME DeskInv,
         UNCHANGED <<seen, clerk, inodes, partial, out, written, met, requests, deskRestarts>>,
         DOMAIN inbox \subseteq DOMAIN inbox', DOMAIN inbox' \subseteq Names, DOMAIN sent' = Names,
         \A m \in Names : sent[m] \subseteq sent'[m],
         \A m \in DOMAIN inbox' :
           /\ DOMAIN inbox'[m] = {"text", "goal", "due"}
           /\ inbox'[m].text # Half => inbox'[m].text \in sent'[m]
  PROVE  DeskInv'
<1>1. DeskShape /\ TextsSent /\ FilesApart /\ OneClerk /\ Counted
  BY DEF DeskInv
<1>2. \A d : /\ Batch0(d)' = Batch0(d) /\ AtWork(d)' = AtWork(d)
             /\ Holding(d)' = Holding(d) /\ Left(d)' = Left(d)
  BY OthersStay
<1>3. \A m \in Names : \A r : Speaks(r, m) =>
        r # Half /\ \E b \in sent'[m] \ {Garbage} : Answers(r, b)
  BY DEF Speaks
<1>4. \A m : FilesOf(m)' = FilesOf(m) /\ LeftAt(m)' = LeftAt(m)
  BY <1>2 DEF FilesOf, LeftAt
<1>5. DeskShape'
  BY <1>1, <1>2 DEF DeskShape
<1>6. TextsSent'
  <2>1. ASSUME NEW d \in Clerks, AtWork(d)
        PROVE  /\ clerk[d].text \in sent'[Batch0(d)] \ {Garbage}
               /\ clerk[d].step # "open" => 
                    /\ clerk[d].receipt # Half
                    /\ \E b \in sent'[Batch0(d)] \ {Garbage} : Answers(clerk[d].receipt, b)
    <3>1. Batch0(d) \in Names
      BY <1>1, <2>1, FirstIs DEF DeskShape
    <3>2. /\ clerk[d].text \in sent[Batch0(d)] \ {Garbage}
          /\ clerk[d].step # "open" => Speaks(clerk[d].receipt, Batch0(d))
      BY <1>1, <2>1 DEF TextsSent
    <3> QED BY <1>3, <3>1, <3>2
  <2> QED BY <1>2, <2>1 DEF TextsSent, Speaks
<1>7. FilesApart'
  <2>1. \A m \in Names : \A i \in FilesOf(m) \ {0} :
          inodes[i] = Half \/ (inodes[i] # Half /\ \E b \in sent'[m] \ {Garbage} : Answers(inodes[i], b))
    BY <1>1, <1>3 DEF FilesApart
  <2>2. PICK k \in Nat : DOMAIN inodes = 1..k /\ \A n \in Names : FilesOf(n) \subseteq 0..k
    BY <1>1 DEF FilesApart
  <2>3. \A c \in Clerks : Holding(c) => clerk[c].inode # 0
    BY <1>1 DEF FilesApart
  <2>4. \A n, m \in Names : n # m => FilesOf(n) \cap FilesOf(m) \subseteq {0}
    BY <1>1 DEF FilesApart
  <2> QED BY <1>2, <1>4, <2>1, <2>2, <2>3, <2>4 DEF FilesApart, Speaks
<1>8. OneClerk'
  BY <1>1, <1>2 DEF OneClerk
<1>9. Counted'
  BY <1>1, <1>4 DEF Counted
<1> QED BY <1>5, <1>6, <1>7, <1>8, <1>9 DEF DeskInv

LEMMA UploadKeeps ==
  ASSUME DeskInv, NEW n \in Names, NEW b,
         BeginUpload(n, b) \/ EndUpload(n) \/ FallDue(n)
  PROVE  DeskInv'
<1>1. DOMAIN inbox \subseteq Names /\ DOMAIN sent = Names
      /\ \A m \in DOMAIN inbox :
           DOMAIN inbox[m] = {"text", "goal", "due"} /\ (inbox[m].text # Half => inbox[m].text \in sent[m])
  BY DEF DeskInv, DeskShape, TextsSent
<1>2. CASE BeginUpload(n, b)
  BY <1>1, <1>2, ClerksStay DEF BeginUpload, files, history
<1>3. CASE EndUpload(n)
  BY <1>1, <1>3, ClerksStay DEF EndUpload, files, deskBounds
<1>4. CASE FallDue(n)
  BY <1>1, <1>4, ClerksStay DEF FallDue, files, history, deskBounds
<1> QED BY <1>2, <1>3, <1>4

LEMMA ArmKeeps ==
  ASSUME DeskInv, NEW o, NEW code, Arm(o, code)
  PROVE  DeskInv'
<1>1. DOMAIN inbox \subseteq Names /\ DOMAIN sent = Names
      /\ \A m \in DOMAIN inbox :
           DOMAIN inbox[m] = {"text", "goal", "due"} /\ (inbox[m].text # Half => inbox[m].text \in sent[m])
  BY DEF DeskInv, DeskShape, TextsSent
<1> QED BY <1>1, ClerksStay DEF Arm, files, history, deskBounds

\* Clerks leave off, or go on to another batch.
LEMMA ClerksLeave ==
  ASSUME DeskInv, UNCHANGED <<inbox, inodes, partial, out, sent, written>>,
         met \subseteq met',
         \A d \in Clerks : AtWork(d)' => clerk'[d] = clerk[d]
  PROVE  TextsSent' /\ FilesApart' /\ OneClerk'
<1>1. DeskShape /\ TextsSent /\ FilesApart /\ OneClerk
  BY DEF DeskInv
<1>2. \A d \in Clerks :
        AtWork(d)' => /\ Batch0(d)' = Batch0(d) /\ AtWork(d) /\ Holding(d)' = Holding(d)
                      /\ clerk'[d] = clerk[d]
  BY OthersStay
<1>3. \A d \in Clerks : Holding(d)' => AtWork(d)'
  BY DEF Holding, AtWork
<1>4. TextsSent'
  <2>1. \A d \in Clerks : AtWork(d)' =>
          /\ clerk'[d].text \in sent[Batch0(d)'] \ {Garbage}
          /\ clerk'[d].step # "open" =>
               /\ clerk'[d].receipt # Half
               /\ \E b \in sent[Batch0(d)'] \ {Garbage} : Answers(clerk'[d].receipt, b)
    BY <1>1, <1>2 DEF TextsSent, Speaks
  <2> QED BY <1>1, <2>1 DEF TextsSent, Speaks
<1>5. FilesApart'
  <2>1. \A m : FilesOf(m)' \subseteq FilesOf(m)
    BY <1>2, <1>3 DEF FilesOf
  <2>2. PICK k \in Nat : DOMAIN inodes = 1..k /\ \A n \in Names : FilesOf(n) \subseteq 0..k
    BY <1>1 DEF FilesApart
  <2>3. \A d \in Clerks : Holding(d)' => clerk'[d].inode # 0
    BY <1>1, <1>2, <1>3 DEF FilesApart
  <2>4. \A n, m \in Names : n # m => FilesOf(n)' \cap FilesOf(m)' \subseteq {0}
    BY <1>1, <2>1 DEF FilesApart
  <2>5. \A n \in Names : \A i \in FilesOf(n)' \ {0} : inodes[i] = Half \/ Speaks(inodes[i], n)
    BY <1>1, <2>1 DEF FilesApart
  <2> QED BY <2>1, <2>2, <2>3, <2>4, <2>5 DEF FilesApart, Speaks
<1>6. OneClerk'
  BY <1>1, <1>2, <1>3 DEF OneClerk
<1> QED BY <1>4, <1>5, <1>6

LEMMA DeskRestartKeeps ==
  ASSUME DeskInv, RestartDesk
  PROVE  DeskInv'
<1>1. \A d \in Clerks : /\ clerk'[d] = Idle /\ ~AtWork(d)' /\ Left(d)' = {}
  BY DEF RestartDesk, AtWork, Idle, Left
<1>2. TextsSent' /\ FilesApart' /\ OneClerk'
  BY <1>1, ClerksLeave DEF RestartDesk, files, history
<1>3. DeskShape'
  BY <1>1 DEF DeskInv, DeskShape, RestartDesk, files, history, Idle, Steps
<1>4. Counted'
  <2> SUFFICES ASSUME NEW n \in Names
      PROVE  written'[n] + Cardinality(LeftAt(n)')
               <= deskRestarts' + requests' + (IF n \in seen' \cup clerk'[Sweep].names THEN 1 ELSE 0)
    BY DEF Counted
  <2>1. LeftAt(n)' = {} /\ Cardinality({}) = 0
    BY <1>1, FS_EmptySet DEF LeftAt
  <2>2. Cardinality(LeftAt(n)) \in Nat
    BY LeftAtClerks, Fewer
  <2>3. written[n] + Cardinality(LeftAt(n)) <= deskRestarts + requests + 1
    <3>1. written[n] + Cardinality(LeftAt(n))
            <= deskRestarts + requests + (IF n \in seen \cup clerk[Sweep].names THEN 1 ELSE 0)
      BY DEF DeskInv, Counted
    <3>2. written[n] \in Nat /\ requests \in Nat /\ deskRestarts \in Nat
      BY DEF DeskInv, DeskShape
    <3> QED BY <2>2, <3>1, <3>2
  <2>4. written' = written /\ requests' = requests /\ deskRestarts' = deskRestarts + 1
        /\ written[n] \in Nat /\ requests \in Nat /\ deskRestarts \in Nat
    BY DEF RestartDesk, history, DeskInv, DeskShape
  <2>5. clerk'[Sweep].names = {} /\ seen' = {}
    BY <1>1, EnrolmentDeskAssumption DEF Idle, RestartDesk
  <2> QED BY <2>1, <2>2, <2>3, <2>4, <2>5
<1> QED BY <1>2, <1>3, <1>4 DEF DeskInv

LEMMA ListKeeps ==
  ASSUME DeskInv, NEW c \in Clerks, List(c)
  PROVE  DeskInv'
<1>0. DeskShape
  BY DEF DeskInv
<1>1. /\ clerk'[c] = [Idle EXCEPT !.step = "next", !.names = Pending]
      /\ \A d \in Clerks \ {c} : clerk'[d] = clerk[d]
      /\ DOMAIN clerk' = Clerks
  BY <1>0 DEF List, DeskShape
<1>2. /\ clerk'[c].step = "next" /\ clerk'[c].names = Pending /\ ~AtWork(c)'
      /\ Left(c)' = Pending /\ Left(c) = {} /\ clerk[c].names = {}
      /\ Pending \subseteq DOMAIN inbox /\ Pending \cap seen = {}
  BY <1>0, <1>1 DEF Idle, AtWork, Left, List, DeskShape, Pending
<1>3. TextsSent' /\ FilesApart' /\ OneClerk'
  <2>1. \A d \in Clerks : AtWork(d)' => clerk'[d] = clerk[d]
    BY <1>1, <1>2
  <2> QED BY <2>1, ClerksLeave DEF List, files, history
<1>4. DeskShape'
  <2>1. DOMAIN clerk'[c] = {"step", "names", "text", "receipt", "inode"}
    BY <1>1 DEF Idle
  <2>2. UNCHANGED <<inbox, seen, partial, out, written, sent, deskRestarts>> /\ requests' \in Nat
    BY <1>0 DEF List, files, history, DeskShape
  <2>3. \A d \in Clerks \ {c} : AtWork(d)' = AtWork(d)
    BY <1>1, OthersStay
  <2>4. \A d \in Clerks :
          /\ DOMAIN clerk'[d] = {"step", "names", "text", "receipt", "inode"}
          /\ clerk'[d].step \in Steps /\ clerk'[d].names \subseteq DOMAIN inbox
          /\ clerk'[d].step = "idle" => clerk'[d].names = {}
    <3>1. /\ clerk'[c].step \in Steps /\ clerk'[c].names \subseteq DOMAIN inbox
          /\ clerk'[c].step # "idle"
      BY <1>0, <1>1, <1>2 DEF DeskShape, Steps
    <3>2. \A d \in Clerks \ {c} :
            /\ DOMAIN clerk'[d] = {"step", "names", "text", "receipt", "inode"}
            /\ clerk'[d].step \in Steps /\ clerk'[d].names \subseteq DOMAIN inbox
            /\ clerk'[d].step = "idle" => clerk'[d].names = {}
      BY <1>0, <1>1 DEF DeskShape
    <3> QED BY <2>1, <3>1, <3>2
  <2>5. \A d \in Clerks : AtWork(d)' => clerk'[d].names # {}
    BY <1>0, <1>1, <1>2, <2>3 DEF DeskShape
  <2> QED BY <1>0, <1>1, <2>2, <2>4, <2>5 DEF DeskShape
<1>5. Counted'
  <2> SUFFICES ASSUME NEW n \in Names
      PROVE  written'[n] + Cardinality(LeftAt(n)')
               <= deskRestarts' + requests' + (IF n \in seen' \cup clerk'[Sweep].names THEN 1 ELSE 0)
    BY DEF Counted
  <2>1. \A d \in Clerks \ {c} : Left(d)' = Left(d)
    BY <1>1, OthersStay
  <2>2. /\ LeftAt(n)' \subseteq LeftAt(n) \cup {c}
        /\ n \notin Pending => LeftAt(n)' \subseteq LeftAt(n)
    BY <1>2, <2>1 DEF LeftAt
  <2>3. /\ Cardinality(LeftAt(n)') \in Nat /\ Cardinality(LeftAt(n)) \in Nat
        /\ Cardinality(LeftAt(n)') <= Cardinality(LeftAt(n)) + 1
        /\ n \notin Pending => Cardinality(LeftAt(n)') <= Cardinality(LeftAt(n))
    BY <2>2, LeftAtClerks, Fewer, OneMore
  <2>4. written[n] + Cardinality(LeftAt(n))
          <= deskRestarts + requests + (IF n \in seen \cup clerk[Sweep].names THEN 1 ELSE 0)
    BY DEF DeskInv, Counted
  <2>5. written' = written /\ deskRestarts' = deskRestarts /\ seen' = seen
        /\ written[n] \in Nat /\ requests \in Nat /\ deskRestarts \in Nat
        /\ requests' = (IF c = Sweep THEN requests ELSE requests + 1)
    BY <1>0 DEF List, history, DeskShape
  <2>6. CASE c = Sweep
    BY <1>2, <2>3, <2>4, <2>5, <2>6
  <2>7. CASE c # Sweep
    <3>1. clerk'[Sweep].names = clerk[Sweep].names
      BY <1>1, <2>7, EnrolmentDeskAssumption
    <3> QED BY <2>3, <2>4, <2>5, <2>7, <3>1
  <2> QED BY <2>6, <2>7
<1> QED BY <1>3, <1>4, <1>5 DEF DeskInv

\* A clerk is done with a batch, or the sweep passes it over.
LEMMA OnFromKeeps ==
  ASSUME DeskInv, NEW c \in Clerks, clerk[c].names # {}, clerk' = OnFrom(c),
         UNCHANGED <<inbox, inodes, partial, out, sent, written, requests, deskRestarts>>,
         met \subseteq met',
         \/ seen' = seen \cup {Batch0(c)}
         \/ seen' = seen /\ c = Sweep /\ clerk[c].step = "next"
  PROVE  DeskInv'
<1>0. DeskShape
  BY DEF DeskInv
<1>1. Batch0(c) \in clerk[c].names /\ Batch0(c) \in Names
  BY <1>0, FirstIs
<1>2. PICK b : b = Batch0(c)
  OBVIOUS
<1>3. /\ clerk'[c] = [Idle EXCEPT !.step = "next", !.names = clerk[c].names \ {b}]
      /\ \A d \in Clerks \ {c} : clerk'[d] = clerk[d]
      /\ DOMAIN clerk' = Clerks
  BY <1>0, <1>2 DEF OnFrom, DeskShape
<1>4. /\ clerk'[c].step = "next" /\ clerk'[c].names = clerk[c].names \ {b} /\ ~AtWork(c)'
      /\ Left(c)' = clerk[c].names \ {b}
      /\ clerk[c].names \subseteq DOMAIN inbox
      /\ Left(c) = clerk[c].names \/ Left(c) = clerk[c].names \ {b}
      /\ clerk[c].step # "mark" => Left(c) = clerk[c].names
  BY <1>0, <1>2, <1>3 DEF Idle, AtWork, Left, DeskShape
<1>5. TextsSent' /\ FilesApart' /\ OneClerk'
  <2>1. \A d \in Clerks : AtWork(d)' => clerk'[d] = clerk[d]
    BY <1>3, <1>4
  <2> QED BY <2>1, ClerksLeave
<1>6. DeskShape'
  <2>1. DOMAIN clerk'[c] = {"step", "names", "text", "receipt", "inode"}
    BY <1>3 DEF Idle
  <2>2. \A d \in Clerks \ {c} : AtWork(d)' = AtWork(d)
    BY <1>3, OthersStay
  <2>3. seen' \subseteq Names
    BY <1>0, <1>1 DEF DeskShape
  <2>4. \A d \in Clerks :
          /\ DOMAIN clerk'[d] = {"step", "names", "text", "receipt", "inode"}
          /\ clerk'[d].step \in Steps /\ clerk'[d].names \subseteq DOMAIN inbox
          /\ clerk'[d].step = "idle" => clerk'[d].names = {}
    <3>1. /\ clerk'[c].step \in Steps /\ clerk'[c].names \subseteq DOMAIN inbox
          /\ clerk'[c].step # "idle"
      BY <1>0, <1>3, <1>4 DEF DeskShape, Steps
    <3>2. \A d \in Clerks \ {c} :
            /\ DOMAIN clerk'[d] = {"step", "names", "text", "receipt", "inode"}
            /\ clerk'[d].step \in Steps /\ clerk'[d].names \subseteq DOMAIN inbox
            /\ clerk'[d].step = "idle" => clerk'[d].names = {}
      BY <1>0, <1>3 DEF DeskShape
    <3> QED BY <2>1, <3>1, <3>2
  <2>5. \A d \in Clerks : AtWork(d)' => clerk'[d].names # {}
    BY <1>0, <1>3, <1>4, <2>2 DEF DeskShape
  <2> QED BY <1>0, <1>3, <2>3, <2>4, <2>5 DEF DeskShape
<1>7. Counted'
  <2> SUFFICES ASSUME NEW n \in Names
      PROVE  written'[n] + Cardinality(LeftAt(n)')
               <= deskRestarts' + requests' + (IF n \in seen' \cup clerk'[Sweep].names THEN 1 ELSE 0)
    BY DEF Counted
  <2>1. \A d \in Clerks \ {c} : Left(d)' = Left(d)
    BY <1>3, OthersStay
  <2>2. /\ LeftAt(n)' \subseteq LeftAt(n)
        /\ n = b /\ clerk[c].step # "mark" => c \in LeftAt(n) \ LeftAt(n)'
    BY <1>1, <1>2, <1>4, <2>1 DEF LeftAt
  <2>3. /\ Cardinality(LeftAt(n)') \in Nat /\ Cardinality(LeftAt(n)) \in Nat
        /\ Cardinality(LeftAt(n)') <= Cardinality(LeftAt(n))
        /\ n = b /\ clerk[c].step # "mark" => Cardinality(LeftAt(n)') + 1 <= Cardinality(LeftAt(n))
    BY <2>2, LeftAtClerks, Fewer
  <2>4. written[n] + Cardinality(LeftAt(n))
          <= deskRestarts + requests + (IF n \in seen \cup clerk[Sweep].names THEN 1 ELSE 0)
    BY DEF DeskInv, Counted
  <2>5. written[n] \in Nat /\ requests \in Nat /\ deskRestarts \in Nat
    BY <1>0 DEF DeskShape
  <2>6. n # b => (n \in seen' \cup clerk'[Sweep].names <=> n \in seen \cup clerk[Sweep].names)
    BY <1>2, <1>3, <1>4, EnrolmentDeskAssumption
  <2>7. CASE n # b
    BY <2>3, <2>4, <2>5, <2>6, <2>7
  <2>8. CASE n = b /\ seen' = seen \cup {Batch0(c)}
    BY <1>2, <2>3, <2>4, <2>5, <2>8
  <2>9. CASE n = b /\ clerk[c].step = "next"
    BY <2>3, <2>4, <2>5, <2>9
  <2> QED BY <1>2, <2>7, <2>8, <2>9
<1> QED BY <1>5, <1>6, <1>7 DEF DeskInv

LEMMA PassKeeps ==
  ASSUME DeskInv, NEW c \in Clerks, Pass(c)
  PROVE  DeskInv'
<1>0. DeskShape
  BY DEF DeskInv
<1>1. CASE clerk[c].names # {}
  BY <1>1, OnFromKeeps DEF Pass, files, history, deskBounds
<1>2. CASE clerk[c].names = {}
  <2>1. clerk' = [clerk EXCEPT ![c] = Idle]
        /\ UNCHANGED <<inbox, seen, inodes, partial, out, sent, written, met, requests, deskRestarts>>
    BY <1>2 DEF Pass, files, history, deskBounds
  <2>2. /\ clerk'[c] = Idle /\ ~AtWork(c)' /\ Left(c)' = {} /\ Left(c) = {}
        /\ \A d \in Clerks \ {c} : clerk'[d] = clerk[d]
        /\ DOMAIN clerk' = Clerks
        /\ clerk'[c].names = clerk[c].names
    BY <1>0, <1>2, <2>1 DEF DeskShape, Pass, AtWork, Left, Idle
  <2>3. TextsSent' /\ FilesApart' /\ OneClerk'
    <3>1. \A d \in Clerks : AtWork(d)' => clerk'[d] = clerk[d]
      BY <2>2
    <3> QED BY <2>1, <3>1, ClerksLeave
  <2>4. \A d \in Clerks \ {c} : AtWork(d)' = AtWork(d) /\ Left(d)' = Left(d)
    BY <2>2, OthersStay
  <2>5. DeskShape'
    <3>1. \A d \in Clerks :
            /\ DOMAIN clerk'[d] = {"step", "names", "text", "receipt", "inode"}
            /\ clerk'[d].step \in Steps /\ clerk'[d].names \subseteq DOMAIN inbox
            /\ clerk'[d].step = "idle" => clerk'[d].names = {}
      BY <1>0, <2>2 DEF DeskShape, Steps, Idle
    <3>2. \A d \in Clerks : AtWork(d)' => clerk'[d].names # {}
      BY <1>0, <2>2, <2>4 DEF DeskShape
    <3> QED BY <1>0, <2>1, <2>2, <3>1, <3>2 DEF DeskShape
  <2>6. Counted'
    <3>1. \A n : LeftAt(n)' = LeftAt(n)
      BY <2>2, <2>4 DEF LeftAt
    <3>2. clerk'[Sweep].names = clerk[Sweep].names
      BY <2>2, EnrolmentDeskAssumption
    <3> QED BY <2>1, <3>1, <3>2 DEF DeskInv, Counted
  <2> QED BY <2>3, <2>5, <2>6 DEF DeskInv
<1> QED BY <1>1, <1>2

LEMMA FailKeeps ==
  ASSUME DeskInv, NEW c \in Clerks, clerk[c].names # {}, Fail(c),
         UNCHANGED <<inbox, inodes, partial, out, sent, written, requests, deskRestarts>>,
         met \subseteq met'
  PROVE  DeskInv'
<1> QED BY OnFromKeeps DEF Fail

LEMMA MarkKeeps ==
  ASSUME DeskInv, NEW c \in Clerks, Mark(c)
  PROVE  DeskInv'
<1>1. clerk[c].names # {}
  BY DEF DeskInv, DeskShape, Mark, AtWork
<1> QED BY <1>1, OnFromKeeps DEF Mark, files, history, deskBounds
-----------------------------------------------------------------------------
\* A clerk goes on with its batch: to another step, with the same names.
LEMMA ClerkGoesOn ==
  ASSUME DeskInv, NEW c \in Clerks, clerk[c].names # {},
         DOMAIN clerk' = Clerks,
         \A d \in Clerks \ {c} : clerk'[d] = clerk[d],
         DOMAIN clerk'[c] = DOMAIN clerk[c],
         clerk'[c].step \in Steps \ {"idle", "next"}, clerk'[c].names = clerk[c].names
  PROVE  /\ \A d \in Clerks : Batch0(d)' = Batch0(d)
         /\ \A d \in Clerks \ {c} : AtWork(d)' = AtWork(d) /\ Holding(d)' = Holding(d) /\ Left(d)' = Left(d)
         /\ AtWork(c)' /\ Batch0(c) \in Names /\ Batch0(c) \in clerk[c].names
         /\ (UNCHANGED <<inbox, seen, sent, requests, deskRestarts>>
               /\ {partial', out', written'} \subseteq [Names -> Nat]) => DeskShape'
         /\ (UNCHANGED <<seen, written, requests, deskRestarts>>
               /\ "mark" \notin {clerk[c].step, clerk'[c].step}) => Counted'
<1>0. DeskShape
  BY DEF DeskInv
<1>1. \A d \in Clerks : Batch0(d)' = Batch0(d)
  BY OthersStay, NamesStay
<1>2. \A d \in Clerks \ {c} : AtWork(d)' = AtWork(d) /\ Holding(d)' = Holding(d) /\ Left(d)' = Left(d)
  BY OthersStay
<1>3. AtWork(c)' /\ Batch0(c) \in Names /\ Batch0(c) \in clerk[c].names
  BY <1>0, FirstIs DEF AtWork
<1>4. (UNCHANGED <<inbox, seen, sent, requests, deskRestarts>>
         /\ {partial', out', written'} \subseteq [Names -> Nat]) => DeskShape'
  <2> SUFFICES ASSUME UNCHANGED <<inbox, seen, sent, requests, deskRestarts>>,
                      {partial', out', written'} \subseteq [Names -> Nat]
               PROVE  DeskShape'
    OBVIOUS
  <2>1. \A d \in Clerks :
          /\ DOMAIN clerk'[d] = {"step", "names", "text", "receipt", "inode"}
          /\ clerk'[d].step \in Steps /\ clerk'[d].names \subseteq DOMAIN inbox
          /\ clerk'[d].step = "idle" => clerk'[d].names = {}
    BY <1>0 DEF DeskShape
  <2>2. \A d \in Clerks : AtWork(d)' => clerk'[d].names # {}
    BY <1>0, <1>2 DEF DeskShape
  <2> QED BY <1>0, <2>1, <2>2 DEF DeskShape
<1>5. (UNCHANGED <<seen, written, requests, deskRestarts>>
         /\ "mark" \notin {clerk[c].step, clerk'[c].step}) => Counted'
  <2> SUFFICES ASSUME UNCHANGED <<seen, written, requests, deskRestarts>>,
                      "mark" \notin {clerk[c].step, clerk'[c].step}
               PROVE  Counted'
    OBVIOUS
  <2>1. Left(c)' = Left(c)
    BY DEF Left
  <2>2. \A n : LeftAt(n)' = LeftAt(n)
    BY <1>2, <2>1 DEF LeftAt
  <2>3. clerk'[Sweep].names = clerk[Sweep].names
    BY EnrolmentDeskAssumption
  <2> QED BY <2>2, <2>3 DEF DeskInv, Counted
<1> QED BY <1>1, <1>2, <1>3, <1>4, <1>5

LEMMA ReadKeeps ==
  ASSUME DeskInv, NEW c \in Clerks, ReadBatch(c)
  PROVE  DeskInv'
<1>0. DeskShape /\ TextsSent /\ FilesApart /\ OneClerk
  BY DEF DeskInv
<1>1. /\ UNCHANGED <<inbox, inodes, partial, out, sent, written, requests, deskRestarts>>
      /\ met \subseteq met' /\ clerk[c].names # {} /\ clerk[c].step = "next" /\ met' = Meets(c)
  BY DEF ReadBatch, files, deskBounds, Meets
<1>2. CASE Fail(c)
  BY <1>1, <1>2, FailKeeps
<1>3. CASE ~Fail(c)
  <2> DEFINE text == inbox[Batch0(c)].text
  <2>1. Legible(text) /\ seen' = seen
        /\ clerk' = [clerk EXCEPT ![c].step = "open", ![c].text = text]
    BY <1>3 DEF ReadBatch
  <2>2. /\ DOMAIN clerk' = Clerks /\ \A d \in Clerks \ {c} : clerk'[d] = clerk[d]
        /\ DOMAIN clerk'[c] = DOMAIN clerk[c]
        /\ clerk'[c].step = "open" /\ clerk'[c].names = clerk[c].names /\ clerk'[c].text = text
    BY <1>0, <2>1 DEF DeskShape
  <2>3. /\ \A d \in Clerks : Batch0(d)' = Batch0(d)
        /\ \A d \in Clerks \ {c} : AtWork(d)' = AtWork(d) /\ Holding(d)' = Holding(d)
        /\ AtWork(c)' /\ Batch0(c) \in Names /\ DeskShape' /\ Counted'
    <3>1. clerk'[c].step \in Steps \ {"idle", "next"} /\ "mark" \notin {clerk[c].step, clerk'[c].step}
          /\ {partial', out', written'} \subseteq [Names -> Nat]
      BY <1>0, <1>1, <2>2 DEF Steps, DeskShape
    <3> QED BY <1>1, <2>1, <2>2, <3>1, ClerkGoesOn
  <2>4. ~Holding(c) /\ ~Holding(c)' /\ ~AtWork(c)
    BY <1>1, <2>2 DEF Holding, AtWork
  <2>5. TextsSent'
    <3>1. text \in sent[Batch0(c)] \ {Garbage}
      <4>1. Batch0(c) \in Names /\ text # Half /\ text # Garbage
        BY <2>1, <2>3 DEF Legible
      <4>2. Batch0(c) \in DOMAIN inbox
        BY <1>0, <1>1, FirstIs DEF DeskShape
      <4> QED BY <1>0, <4>1, <4>2 DEF TextsSent
    <3>2. \A d \in Clerks : AtWork(d)' =>
            /\ clerk'[d].text \in sent[Batch0(d)] \ {Garbage}
            /\ clerk'[d].step # "open" => Speaks(clerk'[d].receipt, Batch0(d))
      BY <1>0, <2>2, <2>3, <3>1 DEF TextsSent
    <3> QED BY <1>0, <1>1, <2>3, <3>2 DEF TextsSent, Speaks
  <2>6. FilesApart'
    <3>1. \A m : FilesOf(m)' = FilesOf(m)
      BY <1>1, <2>2, <2>3, <2>4 DEF FilesOf
    <3> QED BY <1>0, <1>1, <2>2, <2>3, <2>4, <3>1 DEF FilesApart, Speaks
  <2>7. OneClerk'
    <3>1. ASSUME NEW n \in Names, n \notin met', n # Batch0(c)
          PROVE \A d \in Clerks : AtWork(d)' /\ Batch0(d) = n => clerk'[d] = clerk[d] /\ AtWork(d)
      BY <2>2, <2>3, <3>1
    <3>2. ASSUME NEW n \in Names, n \notin met', n = Batch0(c)
          PROVE written[n] = 0 /\ \A d \in Clerks \ {c} : ~(AtWork(d) /\ Batch0(d) = n)
      BY <1>0, <1>1, <3>2 DEF Meets, DeskShape
    <3>3. \A d \in Clerks : Holding(d)' => AtWork(d)'
      BY DEF Holding, AtWork
    <3> QED BY <1>0, <1>1, <2>2, <2>3, <2>4, <3>1, <3>2, <3>3 DEF OneClerk
  <2> QED BY <2>3, <2>5, <2>6, <2>7 DEF DeskInv
<1> QED BY <1>2, <1>3

LEMMA OpenKeeps ==
  ASSUME DeskInv, NEW c \in Clerks, Open(c)
  PROVE  DeskInv'
<1>0. DeskShape /\ TextsSent /\ FilesApart /\ OneClerk
  BY DEF DeskInv
<1> PICK b : b = Batch0(c)
  OBVIOUS
<1> PICK i : i = IF partial[Batch0(c)] = 0 THEN NewInode ELSE partial[Batch0(c)]
  OBVIOUS
<1>1. /\ UNCHANGED <<inbox, seen, out, sent, written, met, requests, deskRestarts>>
      /\ inodes' = Emptied(i) /\ partial' = [partial EXCEPT ![b] = i]
      /\ clerk' = [clerk EXCEPT ![c].step = "write", ![c].inode = i,
                               ![c].receipt = BuildReceipt(clerk[c].text, rejects)]
      /\ clerk[c].step = "open"
  BY DEF Open, history, deskBounds
<1>2. /\ DOMAIN clerk' = Clerks /\ \A d \in Clerks \ {c} : clerk'[d] = clerk[d]
      /\ DOMAIN clerk'[c] = DOMAIN clerk[c] /\ clerk'[c].names = clerk[c].names
      /\ clerk'[c].step = "write" /\ clerk'[c].inode = i /\ clerk'[c].text = clerk[c].text
      /\ clerk'[c].receipt = BuildReceipt(clerk[c].text, rejects)
  BY <1>0, <1>1 DEF DeskShape
<1>3. AtWork(c) /\ ~Holding(c) /\ Holding(c)' /\ clerk[c].names # {}
  BY <1>0, <1>1, <1>2 DEF DeskShape, AtWork, Holding
<1>4. PICK k \in Nat : DOMAIN inodes = 1..k /\ \A n \in Names : FilesOf(n) \subseteq 0..k
  BY <1>0 DEF FilesApart
<1>5. /\ \A d \in Clerks : Batch0(d)' = Batch0(d)
      /\ \A d \in Clerks \ {c} : AtWork(d)' = AtWork(d) /\ Holding(d)' = Holding(d)
      /\ AtWork(c)' /\ b \in Names
  BY <1>2, <1>3, ClerkGoesOn DEF Steps
<1>6. /\ i \in Nat \ {0}
      /\ (i \in 1..k /\ i \in FilesOf(b)) \/ i = k + 1
  <2>1. NewInode = k + 1
    BY <1>4, InodeIsNew
  <2>2. partial[b] \in FilesOf(b)
    BY FilesAre
  <2> QED BY <1>0, <1>4, <1>5, <2>1, <2>2 DEF DeskShape
<1>7. DeskShape' /\ Counted'
  <2>1. clerk'[c].step \in Steps \ {"idle", "next"} /\ "mark" \notin {clerk[c].step, clerk'[c].step}
    BY <1>1, <1>2 DEF Steps
  <2>2. partial' \in [Names -> Nat]
    BY <1>0, <1>1, <1>5, <1>6 DEF DeskShape
  <2>3. {partial', out', written'} \subseteq [Names -> Nat]
    BY <1>0, <1>1, <2>2 DEF DeskShape
  <2> QED BY <1>1, <1>2, <1>3, <2>1, <2>3, ClerkGoesOn
<1>8. TextsSent'
  <2>1. BuildReceipt(clerk[c].text, rejects) # Half
        /\ Answers(BuildReceipt(clerk[c].text, rejects), clerk[c].text)
    BY BuiltAnswers
  <2>2. clerk[c].text \in sent[b] \ {Garbage}
    BY <1>0, <1>3 DEF TextsSent
  <2>3. \A d \in Clerks : AtWork(d)' =>
          /\ clerk'[d].text \in sent[Batch0(d)] \ {Garbage}
          /\ clerk'[d].step # "open" =>
               /\ clerk'[d].receipt # Half
               /\ \E x \in sent[Batch0(d)] \ {Garbage} : Answers(clerk'[d].receipt, x)
    BY <1>0, <1>2, <1>5, <2>1, <2>2 DEF TextsSent, Speaks
  <2> QED BY <1>0, <1>1, <1>5, <2>3 DEF TextsSent, Speaks
<1>9. /\ \A m \in Names \ {b} : FilesOf(m)' \subseteq FilesOf(m)
      /\ FilesOf(b)' \subseteq FilesOf(b) \cup {i}
  BY <1>0, <1>1, <1>2, <1>5 DEF FilesOf, DeskShape
<1>10. /\ DOMAIN inodes' = (1..k) \cup {i} /\ inodes'[i] = Half
       /\ \A j \in (1..k) \ {i} : inodes'[j] = inodes[j]
  BY <1>1, <1>4 DEF Emptied
<1>11. FilesApart'
  <2>1. \E l \in Nat : DOMAIN inodes' = 1..l /\ \A n \in Names : FilesOf(n)' \subseteq 0..l
    <3>1. CASE i = k + 1
      BY <1>4, <1>9, <1>10, <3>1
    <3>2. CASE i \in 1..k
      BY <1>4, <1>9, <1>10, <3>2
    <3> QED BY <1>6, <3>1, <3>2
  <2>2. \A d \in Clerks : Holding(d)' => clerk'[d].inode # 0
    BY <1>0, <1>2, <1>5, <1>6 DEF FilesApart
  <2>3. \A m \in Names \ {b} : i \notin FilesOf(m)
    BY <1>0, <1>4, <1>5, <1>6 DEF FilesApart
  <2>4. \A n, m \in Names : n # m => FilesOf(n)' \cap FilesOf(m)' \subseteq {0}
    BY <1>0, <1>9, <2>3 DEF FilesApart
  <2>5. \A n \in Names : \A j \in FilesOf(n)' \ {0} : inodes'[j] = Half \/ Speaks(inodes'[j], n)
    <3> SUFFICES ASSUME NEW n \in Names, NEW j \in FilesOf(n)' \ {0}, j # i
                 PROVE  inodes'[j] = Half \/ Speaks(inodes'[j], n)
      BY <1>10
    <3>1. j \in FilesOf(n) \ {0}
      BY <1>9
    <3>2. j \in 1..k
      BY <1>4, <3>1
    <3> QED BY <1>0, <1>10, <3>1, <3>2 DEF FilesApart
  <2>6. \A r, n : Speaks(r, n) => r # Half /\ \E x \in sent'[n] \ {Garbage} : Answers(r, x)
    BY <1>1 DEF Speaks
  <2> QED BY <2>1, <2>2, <2>4, <2>5, <2>6 DEF FilesApart, Speaks
<1>12. OneClerk'
  <2> SUFFICES ASSUME NEW n \in Names
      PROVE
    /\ out'[n] # 0 <=> written'[n] > 0
    /\ n \notin met' =>
         /\ written'[n] <= 1
         /\ out'[n] # 0 => inodes'[out'[n]] # Half
         /\ \A d, e \in Clerks : AtWork(d)' /\ AtWork(e)' /\ Batch0(d)' = n /\ Batch0(e)' = n => d = e
         /\ \A d \in Clerks : AtWork(d)' /\ Batch0(d)' = n /\ clerk'[d].step # "mark" =>
              /\ written'[n] = 0
              /\ Holding(d)' => partial'[n] = clerk'[d].inode
              /\ clerk'[d].step = "rename" => inodes'[partial'[n]] # Half
    BY DEF OneClerk
  <2>1. CASE n = b
    <3>1. n \notin met => written[n] = 0 /\ out[n] = 0
          /\ \A d \in Clerks \ {c} : ~(AtWork(d) /\ Batch0(d) = n)
      BY <1>0, <1>1, <1>3, <2>1 DEF OneClerk, DeskShape
    <3>2. partial'[n] = i
      BY <1>0, <1>1, <1>5, <2>1 DEF DeskShape
    <3> QED BY <1>0, <1>1, <1>2, <1>3, <1>5, <2>1, <3>1, <3>2 DEF OneClerk
  <2>2. CASE n # b
    <3>1. \A d \in Clerks : AtWork(d)' /\ Batch0(d)' = n =>
            d # c /\ AtWork(d) /\ Batch0(d) = n /\ clerk'[d] = clerk[d] /\ Holding(d)' = Holding(d)
      BY <1>2, <1>5, <2>2
    <3>2. i \notin FilesOf(n) /\ partial[n] \in FilesOf(n) /\ out[n] \in FilesOf(n)
      BY <1>0, <1>4, <1>5, <1>6, <2>2, FilesAre DEF FilesApart
    <3>3. partial'[n] = partial[n] /\ out' = out
      BY <1>0, <1>1, <1>5, <2>2 DEF DeskShape
    <3>4. /\ out[n] # 0 => inodes'[out[n]] = inodes[out[n]]
          /\ partial[n] # 0 => inodes'[partial[n]] = inodes[partial[n]]
      BY <1>0, <1>4, <1>10, <3>2 DEF DeskShape
    <3>5. \A d \in Clerks : clerk[d].step = "rename" => Holding(d) /\ clerk[d].inode # 0
      BY <1>0 DEF Holding, FilesApart
    <3>6. n \notin met => \A d \in Clerks :
            AtWork(d) /\ Batch0(d) = n /\ clerk[d].step # "mark" =>
              /\ written[n] = 0
              /\ Holding(d) => partial[n] = clerk[d].inode
              /\ clerk[d].step = "rename" => inodes[partial[n]] # Half /\ partial[n] # 0
      BY <1>0, <3>5 DEF OneClerk
    <3>7. n \notin met => \A d \in Clerks : AtWork(d)' /\ Batch0(d)' = n /\ clerk'[d].step # "mark" =>
              /\ written'[n] = 0
              /\ Holding(d)' => partial'[n] = clerk'[d].inode
              /\ clerk'[d].step = "rename" => inodes'[partial'[n]] # Half
      BY <1>1, <3>1, <3>3, <3>4, <3>6
    <3>8. n \notin met => \A d, e \in Clerks :
            AtWork(d)' /\ AtWork(e)' /\ Batch0(d)' = n /\ Batch0(e)' = n => d = e
      BY <1>0, <3>1 DEF OneClerk
    <3>9. /\ out'[n] # 0 <=> written'[n] > 0
          /\ n \notin met => written'[n] <= 1 /\ (out'[n] # 0 => inodes'[out'[n]] # Half)
      BY <1>0, <1>1, <3>3, <3>4 DEF OneClerk
    <3> QED BY <1>1, <3>7, <3>8, <3>9
  <2> QED BY <2>1, <2>2
<1> QED BY <1>7, <1>8, <1>11, <1>12 DEF DeskInv

LEMMA WriteKeeps ==
  ASSUME DeskInv, NEW c \in Clerks, Write(c)
  PROVE  DeskInv'
<1>0. DeskShape /\ TextsSent /\ FilesApart /\ OneClerk
  BY DEF DeskInv
<1>1. /\ UNCHANGED <<inbox, partial, out, sent, written, met, requests, deskRestarts>>
      /\ clerk[c].step = "write"
  BY DEF Write
<1>2. AtWork(c) /\ Holding(c) /\ clerk[c].names # {}
  BY <1>0, <1>1 DEF DeskShape, AtWork, Holding
<1>3. CASE Fail(c) /\ inodes' = inodes
  BY <1>1, <1>2, <1>3, FailKeeps
<1>4. CASE ~(Fail(c) /\ inodes' = inodes)
  <2> PICK b : b = Batch0(c)
    OBVIOUS
  <2> PICK i : i = clerk[c].inode
    OBVIOUS
  <2>1. /\ inodes' = [inodes EXCEPT ![i] = clerk[c].receipt]
        /\ clerk' = [clerk EXCEPT ![c].step = "rename"]
        /\ seen' = seen
    BY <1>4 DEF Write, To
  <2>2. /\ DOMAIN clerk' = Clerks /\ \A d \in Clerks \ {c} : clerk'[d] = clerk[d]
        /\ DOMAIN clerk'[c] = DOMAIN clerk[c] /\ clerk'[c].names = clerk[c].names
        /\ clerk'[c].step = "rename" /\ clerk'[c].inode = i /\ clerk'[c].text = clerk[c].text
        /\ clerk'[c].receipt = clerk[c].receipt
    BY <1>0, <2>1 DEF DeskShape
  <2>3. /\ \A d \in Clerks : Batch0(d)' = Batch0(d)
        /\ \A d \in Clerks \ {c} : AtWork(d)' = AtWork(d) /\ Holding(d)' = Holding(d)
        /\ AtWork(c)' /\ b \in Names /\ Holding(c)' /\ DeskShape' /\ Counted'
    <3>1. clerk'[c].step \in Steps \ {"idle", "next"} /\ "mark" \notin {clerk[c].step, clerk'[c].step}
      BY <1>1, <2>2 DEF Steps
    <3>2. {partial', out', written'} \subseteq [Names -> Nat]
      BY <1>0, <1>1 DEF DeskShape
    <3> QED BY <1>1, <1>2, <2>1, <2>2, <3>1, <3>2, ClerkGoesOn DEF Holding
  <2>4. \A d \in Clerks : Holding(d)' = Holding(d) /\ AtWork(d)' = AtWork(d) /\ clerk'[d].inode = clerk[d].inode
    <3>1. Holding(c)' = Holding(c) /\ AtWork(c)' = AtWork(c) /\ clerk'[c].inode = clerk[c].inode
      BY <1>1, <2>1, <2>2 DEF Holding, AtWork
    <3> QED BY <2>2, <2>3, <3>1
  <2>5. \A m : FilesOf(m)' = FilesOf(m)
    BY <1>1, <2>3, <2>4 DEF FilesOf
  <2>6. PICK k \in Nat : DOMAIN inodes = 1..k /\ \A n \in Names : FilesOf(n) \subseteq 0..k
    BY <1>0 DEF FilesApart
  <2>7. i \in FilesOf(b) /\ i # 0 /\ i \in 1..k /\ \A m \in Names \ {b} : i \notin FilesOf(m)
    <3>1. i \in FilesOf(b)
      BY <1>2, FilesAre
    <3>2. i # 0
      BY <1>0, <1>2 DEF FilesApart
    <3> QED BY <1>0, <2>3, <2>6, <3>1, <3>2 DEF FilesApart
  <2>8. /\ DOMAIN inodes' = 1..k /\ inodes'[i] = clerk[c].receipt
        /\ \A j \in (1..k) \ {i} : inodes'[j] = inodes[j]
    BY <2>1, <2>6, <2>7
  <2>9. \A r, n : Speaks(r, n) => r # Half /\ \E x \in sent'[n] \ {Garbage} : Answers(r, x)
    BY <1>1 DEF Speaks
  <2>10. Speaks(clerk[c].receipt, b)
    BY <1>0, <1>1, <1>2 DEF TextsSent
  <2>11. TextsSent'
    <3>1. \A d \in Clerks : AtWork(d)' =>
            /\ clerk'[d].text \in sent[Batch0(d)] \ {Garbage}
            /\ clerk'[d].step # "open" => Speaks(clerk'[d].receipt, Batch0(d))
      BY <1>0, <1>1, <1>2, <2>2, <2>3 DEF TextsSent
    <3> QED BY <1>0, <1>1, <2>3, <2>9, <3>1 DEF TextsSent, Speaks
  <2>12. FilesApart'
    <3>1. \A n \in Names : \A j \in FilesOf(n)' \ {0} : inodes'[j] = Half \/ Speaks(inodes'[j], n)
      <4> SUFFICES ASSUME NEW n \in Names, NEW j \in FilesOf(n) \ {0}
                   PROVE  inodes'[j] = Half \/ Speaks(inodes'[j], n)
        BY <2>5
      <4>1. CASE j = i
        BY <2>7, <2>8, <2>10, <4>1
      <4>2. CASE j # i
        <5>1. j \in 1..k
          BY <2>6
        <5> QED BY <1>0, <2>8, <4>2, <5>1 DEF FilesApart
      <4> QED BY <4>1, <4>2
    <3>2. \A d \in Clerks : Holding(d)' => clerk'[d].inode # 0
      BY <1>0, <2>4 DEF FilesApart
    <3>3. \A n, m \in Names : n # m => FilesOf(n)' \cap FilesOf(m)' \subseteq {0}
      BY <1>0, <2>5 DEF FilesApart
    <3>4. \E l \in Nat : DOMAIN inodes' = 1..l /\ \A n \in Names : FilesOf(n)' \subseteq 0..l
      BY <2>5, <2>6, <2>8
    <3> QED BY <2>9, <3>1, <3>2, <3>3, <3>4 DEF FilesApart, Speaks
  <2>13. OneClerk'
    <3> SUFFICES ASSUME NEW n \in Names
        PROVE
      /\ out'[n] # 0 <=> written'[n] > 0
      /\ n \notin met' =>
           /\ written'[n] <= 1
           /\ out'[n] # 0 => inodes'[out'[n]] # Half
           /\ \A d, e \in Clerks : AtWork(d)' /\ AtWork(e)' /\ Batch0(d)' = n /\ Batch0(e)' = n => d = e
           /\ \A d \in Clerks : AtWork(d)' /\ Batch0(d)' = n /\ clerk'[d].step # "mark" =>
                /\ written'[n] = 0
                /\ Holding(d)' => partial'[n] = clerk'[d].inode
                /\ clerk'[d].step = "rename" => inodes'[partial'[n]] # Half
      BY DEF OneClerk
    <3>1. n \notin met => \A d, e \in Clerks :
            AtWork(d)' /\ AtWork(e)' /\ Batch0(d)' = n /\ Batch0(e)' = n => d = e
      BY <1>0, <2>3, <2>4 DEF OneClerk
    <3>2. partial[n] \in FilesOf(n) /\ out[n] \in FilesOf(n)
      BY FilesAre
    <3>3. n \notin met /\ n = b => written[n] = 0 /\ out[n] = 0 /\ partial[n] = i
      BY <1>0, <1>1, <1>2, <2>3 DEF OneClerk, DeskShape
    <3>4. \A j \in FilesOf(n) \ {0} : (inodes[j] # Half => inodes'[j] # Half)
      <4>1. clerk[c].receipt # Half
        BY <2>10 DEF Speaks
      <4> QED BY <2>6, <2>8, <4>1
    <3>5. \A d \in Clerks : Holding(d) => clerk[d].inode # 0
      BY <1>0 DEF FilesApart
    <3>6. n \notin met => \A d \in Clerks : AtWork(d) /\ Batch0(d) = n /\ clerk[d].step # "mark" =>
            /\ written[n] = 0
            /\ Holding(d) => partial[n] = clerk[d].inode /\ partial[n] # 0
            /\ clerk[d].step = "rename" => inodes[partial[n]] # Half
      BY <1>0, <3>5 DEF OneClerk
    <3>7. n \notin met => \A d \in Clerks : AtWork(d)' /\ Batch0(d)' = n /\ clerk'[d].step # "mark" =>
            /\ written'[n] = 0
            /\ Holding(d)' => partial'[n] = clerk'[d].inode
            /\ clerk'[d].step = "rename" => inodes'[partial'[n]] # Half
      <4> SUFFICES ASSUME n \notin met, NEW d \in Clerks, AtWork(d), Batch0(d) = n, clerk'[d].step # "mark"
                   PROVE  /\ written'[n] = 0
                          /\ Holding(d)' => partial'[n] = clerk'[d].inode
                          /\ clerk'[d].step = "rename" => inodes'[partial'[n]] # Half
        BY <2>3, <2>4
      <4>1. CASE d = c
        <5>1. inodes'[i] # Half
          BY <2>8, <2>10 DEF Speaks
        <5> QED BY <1>1, <2>2, <3>3, <4>1, <5>1
      <4>2. CASE d # c
        <5>1. clerk'[d] = clerk[d]
          BY <2>2, <4>2
        <5>2. clerk[d].step = "rename" => Holding(d)
          BY DEF Holding
        <5> QED BY <1>1, <2>4, <3>2, <3>4, <3>6, <5>1, <5>2
      <4> QED BY <4>1, <4>2
    <3>8. /\ out'[n] # 0 <=> written'[n] > 0
          /\ n \notin met => written'[n] <= 1 /\ (out'[n] # 0 => inodes'[out'[n]] # Half)
      BY <1>0, <1>1, <3>2, <3>4 DEF OneClerk
    <3> QED BY <1>1, <3>1, <3>7, <3>8
  <2> QED BY <2>3, <2>11, <2>12, <2>13 DEF DeskInv
<1> QED BY <1>3, <1>4

LEMMA RenameKeeps ==
  ASSUME DeskInv, NEW c \in Clerks, Rename(c)
  PROVE  DeskInv'
<1>0. DeskShape /\ TextsSent /\ FilesApart /\ OneClerk
  BY DEF DeskInv
<1>1. /\ UNCHANGED <<inbox, inodes, sent, met, requests, deskRestarts>>
      /\ clerk[c].step = "rename"
  BY DEF Rename, deskBounds
<1>2. AtWork(c) /\ Holding(c) /\ clerk[c].names # {}
  BY <1>0, <1>1 DEF DeskShape, AtWork, Holding
<1>3. CASE partial[Batch0(c)] = 0
  BY <1>1, <1>2, <1>3, FailKeeps DEF Rename
<1>4. CASE partial[Batch0(c)] # 0
  <2> PICK b : b = Batch0(c)
    OBVIOUS
  <2> PICK i : i = partial[b]
    OBVIOUS
  <2>1. /\ out' = [out EXCEPT ![b] = i] /\ partial' = [partial EXCEPT ![b] = 0]
        /\ written' = [written EXCEPT ![b] = @ + 1]
        /\ clerk' = [clerk EXCEPT ![c].step = "mark"]
        /\ seen' = seen
    BY <1>4 DEF Rename, To
  <2>2. /\ DOMAIN clerk' = Clerks /\ \A d \in Clerks \ {c} : clerk'[d] = clerk[d]
        /\ DOMAIN clerk'[c] = DOMAIN clerk[c] /\ clerk'[c].names = clerk[c].names
        /\ clerk'[c].step = "mark" /\ clerk'[c].text = clerk[c].text
        /\ clerk'[c].receipt = clerk[c].receipt
    BY <1>0, <2>1 DEF DeskShape
  <2>3. clerk'[c].step \in Steps \ {"idle", "next"}
    BY <2>2 DEF Steps
  <2>4. /\ \A d \in Clerks : Batch0(d)' = Batch0(d)
        /\ \A d \in Clerks \ {c} : AtWork(d)' = AtWork(d) /\ Holding(d)' = Holding(d) /\ Left(d)' = Left(d)
        /\ AtWork(c)' /\ b \in Names /\ b \in clerk[c].names
    BY <1>2, <2>2, <2>3, ClerkGoesOn
  <2>5. ~Holding(c)'
    BY <2>2 DEF Holding
  <2>6. i \in Nat \ {0} /\ i \in FilesOf(b) /\ 0 \in Nat
    BY <1>0, <1>4, <2>4, FilesAre DEF DeskShape
  <2>7. DeskShape'
    <3>1. out' \in [Names -> Nat]
      BY <1>0, <2>1, <2>4, <2>6 DEF DeskShape
    <3>2. partial' \in [Names -> Nat]
      BY <1>0, <2>1, <2>4, <2>6 DEF DeskShape
    <3>3. written' \in [Names -> Nat]
      BY <1>0, <2>1, <2>4 DEF DeskShape
    <3> QED BY <1>1, <1>2, <2>1, <2>2, <2>3, <3>1, <3>2, <3>3, ClerkGoesOn
  <2>8. /\ out'[b] = i /\ partial'[b] = 0 /\ written'[b] = written[b] + 1
        /\ \A m \in Names \ {b} :
             out'[m] = out[m] /\ partial'[m] = partial[m] /\ written'[m] = written[m]
    BY <1>0, <2>1, <2>4 DEF DeskShape
  <2>9. Counted'
    <3> SUFFICES ASSUME NEW n \in Names
        PROVE  written'[n] + Cardinality(LeftAt(n)')
                 <= deskRestarts' + requests' + (IF n \in seen' \cup clerk'[Sweep].names THEN 1 ELSE 0)
      BY DEF Counted
    <3>1. Left(c) = clerk[c].names /\ Left(c)' = clerk[c].names \ {b}
      BY <1>1, <2>2, <2>4 DEF Left
    <3>2. /\ LeftAt(n)' \subseteq LeftAt(n)
          /\ n = b => c \in LeftAt(n) \ LeftAt(n)'
      BY <2>4, <3>1 DEF LeftAt
    <3>3. /\ Cardinality(LeftAt(n)') \in Nat /\ Cardinality(LeftAt(n)) \in Nat
          /\ Cardinality(LeftAt(n)') <= Cardinality(LeftAt(n))
          /\ n = b => Cardinality(LeftAt(n)') + 1 <= Cardinality(LeftAt(n))
      BY <3>2, LeftAtClerks, Fewer
    <3>4. written[n] + Cardinality(LeftAt(n))
            <= deskRestarts + requests + (IF n \in seen \cup clerk[Sweep].names THEN 1 ELSE 0)
      BY DEF DeskInv, Counted
    <3>5. written[n] \in Nat /\ requests \in Nat /\ deskRestarts \in Nat
          /\ clerk'[Sweep].names = clerk[Sweep].names
      BY <1>0, <2>2, EnrolmentDeskAssumption DEF DeskShape
    <3>6. written'[n] = IF n = b THEN written[n] + 1 ELSE written[n]
      BY <2>8
    <3> QED BY <1>1, <2>1, <3>3, <3>4, <3>5, <3>6
  <2>10. \A r, n : Speaks(r, n) => r # Half /\ \E x \in sent'[n] \ {Garbage} : Answers(r, x)
    BY <1>1 DEF Speaks
  <2>11. TextsSent'
    <3>1. \A d \in Clerks : AtWork(d)' =>
            /\ clerk'[d].text \in sent[Batch0(d)] \ {Garbage}
            /\ clerk'[d].step # "open" => Speaks(clerk'[d].receipt, Batch0(d))
      BY <1>0, <1>1, <1>2, <2>2, <2>4 DEF TextsSent
    <3> QED BY <1>0, <1>1, <2>4, <2>10, <3>1 DEF TextsSent, Speaks
  <2>12. \A m \in Names : FilesOf(m)' \subseteq FilesOf(m) \cup {0}
    <3> SUFFICES ASSUME NEW m \in Names, NEW j \in FilesOf(m)' PROVE j \in FilesOf(m) \cup {0}
      OBVIOUS
    <3>1. j = partial'[m] \/ j = out'[m] \/ \E d \in Clerks : Holding(d)' /\ Batch0(d)' = m /\ j = clerk'[d].inode
      BY DEF FilesOf
    <3>2. CASE j = partial'[m] \/ j = out'[m]
      BY <2>6, <2>8, <3>2, FilesAre
    <3>3. CASE \E d \in Clerks : Holding(d)' /\ Batch0(d)' = m /\ j = clerk'[d].inode
      BY <2>2, <2>4, <2>5, <3>3, FilesAre
    <3> QED BY <3>1, <3>2, <3>3
  <2>13. FilesApart'
    <3>1. PICK k \in Nat : DOMAIN inodes = 1..k /\ \A n \in Names : FilesOf(n) \subseteq 0..k
      BY <1>0 DEF FilesApart
    <3>2. DOMAIN inodes' = 1..k /\ \A n \in Names : FilesOf(n)' \subseteq 0..k
      BY <1>1, <2>12, <3>1
    <3>3. \A d \in Clerks : Holding(d)' => clerk'[d].inode # 0
      BY <1>0, <2>2, <2>4, <2>5 DEF FilesApart
    <3>4. \A n, m \in Names : n # m => FilesOf(n)' \cap FilesOf(m)' \subseteq {0}
      BY <1>0, <2>12 DEF FilesApart
    <3>5. \A n \in Names : \A j \in FilesOf(n)' \ {0} : inodes'[j] = Half \/ Speaks(inodes'[j], n)
      BY <1>0, <1>1, <2>12 DEF FilesApart
    <3> QED BY <2>10, <3>2, <3>3, <3>4, <3>5 DEF FilesApart, Speaks
  <2>14. OneClerk'
    <3> SUFFICES ASSUME NEW n \in Names
        PROVE
      /\ out'[n] # 0 <=> written'[n] > 0
      /\ n \notin met' =>
           /\ written'[n] <= 1
           /\ out'[n] # 0 => inodes'[out'[n]] # Half
           /\ \A d, e \in Clerks : AtWork(d)' /\ AtWork(e)' /\ Batch0(d)' = n /\ Batch0(e)' = n => d = e
           /\ \A d \in Clerks : AtWork(d)' /\ Batch0(d)' = n /\ clerk'[d].step # "mark" =>
                /\ written'[n] = 0
                /\ Holding(d)' => partial'[n] = clerk'[d].inode
                /\ clerk'[d].step = "rename" => inodes'[partial'[n]] # Half
      BY DEF OneClerk
    <3>1. n \notin met => \A d, e \in Clerks :
            AtWork(d)' /\ AtWork(e)' /\ Batch0(d)' = n /\ Batch0(e)' = n => d = e
      BY <1>0, <1>2, <2>4 DEF OneClerk
    <3>2. n \notin met /\ n = b =>
            /\ written[n] = 0 /\ inodes[i] # Half
            /\ \A d \in Clerks \ {c} : ~(AtWork(d) /\ Batch0(d) = n)
      BY <1>0, <1>1, <1>2, <2>4 DEF OneClerk
    <3>3. written[n] \in Nat
      BY <1>0 DEF DeskShape
    <3>4. /\ out'[n] # 0 <=> written'[n] > 0
          /\ n \notin met => written'[n] <= 1 /\ (out'[n] # 0 => inodes'[out'[n]] # Half)
      <4>1. CASE n = b
        BY <1>1, <2>6, <2>8, <3>2, <3>3, <4>1
      <4>2. CASE n # b
        BY <1>0, <1>1, <2>8, <4>2 DEF OneClerk
      <4> QED BY <4>1, <4>2
    <3>5. n \notin met => \A d \in Clerks : AtWork(d)' /\ Batch0(d)' = n /\ clerk'[d].step # "mark" =>
            /\ written'[n] = 0
            /\ Holding(d)' => partial'[n] = clerk'[d].inode
            /\ clerk'[d].step = "rename" => inodes'[partial'[n]] # Half
      <4> SUFFICES ASSUME n \notin met, NEW d \in Clerks, AtWork(d)', Batch0(d) = n, clerk'[d].step # "mark"
                   PROVE  /\ written'[n] = 0
                          /\ Holding(d)' => partial'[n] = clerk'[d].inode
                          /\ clerk'[d].step = "rename" => inodes'[partial'[n]] # Half
        BY <2>4
      <4>1. d # c /\ AtWork(d) /\ clerk'[d] = clerk[d] /\ Holding(d)' = Holding(d)
        BY <2>2, <2>4
      <4>2. n # b
        BY <3>2, <4>1
      <4> QED BY <1>0, <1>1, <2>8, <4>1, <4>2 DEF OneClerk
    <3> QED BY <1>1, <3>1, <3>4, <3>5
  <2> QED BY <2>7, <2>9, <2>11, <2>13, <2>14 DEF DeskInv
<1> QED BY <1>3, <1>4

LEMMA DeskStarts ==
  ASSUME DeskInit
  PROVE  DeskInv
<1>1. \A c \in Clerks : clerk[c] = Idle /\ ~AtWork(c) /\ ~Holding(c) /\ Left(c) = {}
  BY DEF DeskInit, Idle, AtWork, Holding, Left
<1>2. DeskShape
  BY <1>1 DEF DeskShape, DeskInit, Idle, Steps
<1>3. TextsSent
  BY <1>1 DEF TextsSent, DeskInit
<1>4. FilesApart
  <2>1. \A n \in Names : FilesOf(n) = {0}
    BY <1>1 DEF FilesOf, DeskInit
  <2>2. DOMAIN inodes = 1..0 /\ 0 \in Nat /\ {0} \subseteq 0..0
    BY DEF DeskInit
  <2>3. \E k \in Nat : DOMAIN inodes = 1..k /\ \A n \in Names : FilesOf(n) \subseteq 0..k
    BY <2>1, <2>2
  <2> QED BY <1>1, <2>1, <2>3 DEF FilesApart
<1>5. OneClerk
  BY <1>1 DEF OneClerk, DeskInit
<1>6. Counted
  <2>1. \A n : LeftAt(n) = {}
    BY <1>1 DEF LeftAt
  <2> QED BY <2>1, FS_EmptySet, SMTT(40) DEF Counted, DeskInit
<1> QED BY <1>2, <1>3, <1>4, <1>5, <1>6 DEF DeskInv

LEMMA DeskSteps ==
  ASSUME DeskInv, [DeskNext]_deskVars
  PROVE  DeskInv'
<1>1. CASE UNCHANGED deskVars
  <2>1. DOMAIN inbox \subseteq Names /\ DOMAIN sent = Names
        /\ \A m \in DOMAIN inbox :
             DOMAIN inbox[m] = {"text", "goal", "due"} /\ (inbox[m].text # Half => inbox[m].text \in sent[m])
    BY DEF DeskInv, DeskShape, TextsSent
  <2> QED BY <1>1, <2>1, ClerksStay DEF deskVars, files, history, deskBounds
<1>2. ASSUME NEW n \in Names, (\E b \in Contents : BeginUpload(n, b)) \/ EndUpload(n) \/ FallDue(n)
      PROVE  DeskInv'
  <2>1. CASE \E b \in Contents : BeginUpload(n, b)
    BY <2>1, UploadKeeps
  <2>2. CASE EndUpload(n) \/ FallDue(n)
    BY <2>2, UploadKeeps
  <2> QED BY <1>2, <2>1, <2>2
<1>3. ASSUME NEW o \in Outlets, NEW code \in Codes \cup {Unknown}, Arm(o, code)
      PROVE  DeskInv'
  BY <1>3, ArmKeeps
<1>4. ASSUME NEW c \in Clerks, Work(c)
      PROVE  DeskInv'
  BY <1>4, ListKeeps, PassKeeps, ReadKeeps, OpenKeeps, WriteKeeps, RenameKeeps, MarkKeeps
     DEF Work, Answer
<1>5. CASE RestartDesk
  BY <1>5, DeskRestartKeeps
<1> QED BY <1>1, <1>2, <1>3, <1>4, <1>5 DEF DeskNext

LEMMA DeskAnswersRight ==
  ASSUME DeskInv
  PROVE  ReceiptsAnswer
<1>1. ASSUME NEW n \in Names
      PROVE  written[n] <= 1 + deskRestarts + requests /\ (written[n] > 1 => n \in met)
  <2>1. written[n] + Cardinality(LeftAt(n))
          <= deskRestarts + requests + (IF n \in seen \cup clerk[Sweep].names THEN 1 ELSE 0)
    BY DEF DeskInv, Counted
  <2>2. Cardinality(LeftAt(n)) \in Nat
    BY LeftAtClerks, Fewer
  <2>3. written[n] \in Nat /\ requests \in Nat /\ deskRestarts \in Nat
    BY DEF DeskInv, DeskShape
  <2>4. n \notin met => written[n] <= 1
    BY DEF DeskInv, OneClerk
  <2> QED BY <2>1, <2>2, <2>3, <2>4
<1>2. ASSUME NEW n \in Receipts
      PROVE  \/ inodes[out[n]] = Half /\ n \in met
             \/ /\ inodes[out[n]] # Half
                /\ \E b \in sent[n] \ {Garbage} : Answers(inodes[out[n]], b)
  <2>1. n \in Names /\ out[n] # 0 /\ out[n] \in FilesOf(n)
    BY FilesAre DEF Receipts
  <2>2. inodes[out[n]] = Half \/ Speaks(inodes[out[n]], n)
    BY <2>1 DEF DeskInv, FilesApart
  <2>3. inodes[out[n]] = Half => n \in met
    BY <2>1 DEF DeskInv, OneClerk
  <2> QED BY <2>2, <2>3 DEF Speaks
<1> QED BY <1>1, <1>2 DEF ReceiptsAnswer

\* For any number of clerks, batches and faults a receipt tells, of each outlet
\* of a batch uploaded under its name, one thing that is so; it is answered
\* twice or found half-written only where two clerks met (answer, process).
THEOREM ReceiptsAreRight == DeskSpec => []ReceiptsAnswer
<1>1. DeskInit => DeskInv
  BY DeskStarts
<1>2. DeskInv /\ [DeskNext]_deskVars => DeskInv'
  BY DeskSteps
<1>3. DeskInv => ReceiptsAnswer
  BY DeskAnswersRight
<1> QED BY <1>1, <1>2, <1>3, PTL DEF DeskSpec
==============================================================================
