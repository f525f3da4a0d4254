---------------------------- MODULE MerchantRegistry ----------------------------
(***************************************************************************)
(* The console's merchants (internal/console/merchant.go, batch.go) and    *)
(* their way onto the payout rail (provision.go), with the payees the rail *)
(* keeps of them (internal/b4b/beneficiary.go, state.go).  The registry is *)
(* held in memory and saved whole after every change; outlets are          *)
(* registered at B4B one call at a time, with the registry unlocked over   *)
(* the call, and the answer is written into the outlet with their MID      *)
(* afterwards.  What others than the console do at the rail is left out.   *)
(***************************************************************************)
EXTENDS Integers, FiniteSetsExt

CONSTANTS
  Provisioners,  \* requests at work together
  OpeningCounts, \* how many outlets a merchant opens with
  BatchShapes,   \* how many ids a batch takes besides its own, and its merchants' among them
  Standings,     \* what an operator sets a payee's sanctions status to
  Unregistered,  \* an outlet without a beneficiary
  Mids,          \* what an operator may name, every outlet's MID among them
  MidOf,         \* the MID an outlet's id is hashed to
  PayeeIds,      \* the ids the rail draws from, ordered as they sort
  NoRef,         \* the reference of a payee without one
  MaxIds, MaxErrands, MaxSaveFails, MaxRegistryRestarts \* bounds

ASSUME RegistryAssumption ==
  /\ OpeningCounts \subseteq Nat \ {0}
  /\ \A b \in BatchShapes : b.size \in Nat /\ b.merchants \subseteq 1..b.size /\ 1 \in b.merchants
  /\ \A o \in 1..MaxIds : MidOf[o] \in Mids
  /\ Mids \subseteq Nat /\ Max(PayeeIds) \in Nat /\ PayeeIds \subseteq 0 .. Max(PayeeIds)
  /\ Mids \cap PayeeIds = {}
  /\ NoRef \notin Mids /\ "register" \notin Standings
  /\ Unregistered \notin [id : Mids \cup PayeeIds, standing : Standings \cup {"pass"}]
  /\ {MaxIds, MaxErrands, MaxSaveFails, MaxRegistryRestarts} \subseteq Nat

VARIABLES
  mem,    \* Registry: [seq, batches, merchants (and their batch), outlets]
  saved,   \* what was saved of it
  rail,   \* BeneficiaryStore: payees by id, and the latest id by reference
  railFile, \* what was saved of the payees
  errand, \* what each provisioner is at
  given,  \* history: ids outlets were given
  hazy,   \* history: MIDs excepted from what the rail and the outlet agree on
  unsaved, \* history: MIDs whose outlets changed since the last save
  errands, saveFails, registryRestarts \* for the bounds, of either side

registryVars ==
  <<mem, saved, rail, railFile, errand, given, hazy, unsaved, errands, saveFails, registryRestarts>>
-----------------------------------------------------------------------------
NoErrand == [merchants |-> {}, left |-> {}, step |-> "call"]

\* newOutletLocked: known here and not to the rail.
NewOutlet(m) == [of |-> m, told |-> Unregistered]

\* Maps put together, the first counting where both have an id.
Joined(f, g) == [n \in DOMAIN f \cup DOMAIN g |-> IF n \in DOMAIN f THEN f[n] ELSE g[n]]

\* A merchant of no batch and its opening outlets.
WithMerchant(r, count) ==
  LET m == r.seq + 1
  IN  [r EXCEPT !.seq = m + count,
                !.merchants = Joined(@, [x \in {m} |-> 0]),
                !.outlets = Joined(@, [o \in m + 1 .. m + count |-> NewOutlet(m)])]

WithOutlet(r, m) ==
  [r EXCEPT !.seq = @ + 1, !.outlets = Joined(@, [o \in {r.seq + 1} |-> NewOutlet(m)])]

\* A batch and its merchants, each followed by its outlets.
WithBatch(r, shape) ==
  LET b == r.seq + 1
      ms == {b + i : i \in shape.merchants}
  IN  [r EXCEPT !.seq = b + shape.size,
                !.batches = @ \cup {b},
                !.merchants = Joined(@, [m \in ms |-> b]),
                !.outlets = Joined(@, [o \in (b + 1 .. b + shape.size) \ ms |->
                                         NewOutlet(Max({m \in ms : m < o}))])]

OutletsOf(r, ms) == {o \in DOMAIN r.outlets : r.outlets[o].of \in ms}

\* What is left of r without the merchants ms.
Without(r, ms) ==
  [r EXCEPT !.merchants = [m \in DOMAIN @ \ ms |-> @[m]],
            !.outlets = [o \in DOMAIN @ \ OutletsOf(r, ms) |-> @[o]]]

\* For the property: the MIDs of the outlets r and q have otherwise.
Differing(r, q) ==
  LET both == DOMAIN r.outlets \cap DOMAIN q.outlets
      either == DOMAIN r.outlets \cup DOMAIN q.outlets
  IN  {MidOf[o] : o \in either \ {x \in both : r.outlets[x] = q.outlets[x]}}

\* A change and its save: memory keeps a change that could not be written.
Amend(r) ==
  /\ mem' = r /\ given' = given \cup DOMAIN r.outlets
  /\ \/ saved' = r /\ unsaved' = {} /\ UNCHANGED saveFails
     \/ /\ saveFails < MaxSaveFails /\ saveFails' = saveFails + 1
        /\ unsaved' = unsaved \cup Differing(mem, r)
        /\ UNCHANGED saved

\* Ids are bounded.
Add(r) == r.seq <= MaxIds /\ Amend(r)

AddMerchant ==
  /\ \E count \in OpeningCounts : Add(WithMerchant(mem, count))
  /\ UNCHANGED <<rail, railFile, errand, hazy, errands, registryRestarts>>

AddOutlet ==
  /\ \E m \in DOMAIN mem.merchants : Add(WithOutlet(mem, m))
  /\ UNCHANGED <<rail, railFile, errand, hazy, errands, registryRestarts>>

\* Made together, saved once.
AddBatch ==
  /\ \E shape \in BatchShapes : Add(WithBatch(mem, shape))
  /\ UNCHANGED <<rail, railFile, errand, hazy, errands, registryRestarts>>

\* A distributor or a partner takes an id as well.
AddParty ==
  /\ Add([mem EXCEPT !.seq = @ + 1])
  /\ UNCHANGED <<rail, railFile, errand, hazy, errands, registryRestarts>>

\* Nothing is unwound at the rail.
DeleteMerchant ==
  /\ \E m \in DOMAIN mem.merchants : Amend(Without(mem, {m}))
  /\ UNCHANGED <<rail, railFile, errand, hazy, errands, registryRestarts>>

BatchMerchants(b) == {m \in DOMAIN mem.merchants : mem.merchants[m] = b}

DeleteBatch ==
  /\ \E b \in mem.batches : Amend([Without(mem, BatchMerchants(b)) EXCEPT !.batches = @ \ {b}])
  /\ UNCHANGED <<rail, railFile, errand, hazy, errands, registryRestarts>>
-----------------------------------------------------------------------------
(***************************************************************************)
(* The rail.  A payee it was never told of it brings up under the MID      *)
(* itself, and without a reference; an id is found before a reference.     *)
(***************************************************************************)

PayeeOf(mid) == IF mid \in DOMAIN rail.payees THEN mid ELSE rail.byRef[mid]

Known(mid) == mid \in DOMAIN rail.payees \cup DOMAIN rail.byRef

\* What the rail has of a MID.
OnRail(mid) ==
  IF Known(mid) THEN [id |-> PayeeOf(mid), standing |-> rail.payees[PayeeOf(mid)].standing]
  ELSE Unregistered

\* Register: another payee, whatever else has the reference.
Registered(mid, id) ==
  [payees |-> Joined([i \in {id} |-> [ref |-> mid, standing |-> "pass"]], rail.payees),
   byRef |-> Joined([m \in {mid} |-> id], rail.byRef)]

\* SetSanctions.
Sanctioned(mid, standing) ==
  LET p == IF Known(mid)
           THEN [id |-> PayeeOf(mid), payee |-> [rail.payees[PayeeOf(mid)] EXCEPT !.standing = standing]]
           ELSE [id |-> mid, payee |-> [ref |-> NoRef, standing |-> standing]]
  IN  [rail EXCEPT !.payees = Joined([i \in {p.id} |-> p.payee], @)]

\* Ids are drawn at random.
Undrawn == PayeeIds \ DOMAIN rail.payees

\* What a provisioner has left: the outlets of a merchant in their order, or
\* the MID an operator named.
Current(c) ==
  LET n == Min(errand[c].left) IN IF errand[c].want = "register" THEN MidOf[n] ELSE n

\* What a call of provisioner c makes of the rail, and the payee it is
\* answered with.
Replies(c) ==
  LET mid == Current(c)
      want == errand[c].want
  IN  IF want = "register"
      THEN {[rail |-> Registered(mid, id), payee |-> [id |-> id, standing |-> "pass"]] : id \in Undrawn}
      ELSE {[rail |-> Sanctioned(mid, want),
             payee |-> [id |-> IF Known(mid) THEN PayeeOf(mid) ELSE mid, standing |-> want]]}

\* The file may fail to be written, or be overtaken by an older copy, and the
\* call is answered all the same.
SaveRail ==
  \/ railFile' = rail'.payees /\ UNCHANGED saveFails
  \/ saveFails < MaxSaveFails /\ saveFails' = saveFails + 1 /\ UNCHANGED railFile

\* Restore: the references are taken from the payees, of two with the same the
\* one whose id sorts last.
Restored(payees) ==
  LET Bearing(ref) == {i \in DOMAIN payees : payees[i].ref = ref}
  IN  [payees |-> payees,
       byRef |-> [m \in {payees[i].ref : i \in DOMAIN payees} \ {NoRef} |-> Max(Bearing(m))]]

\* For the property: the payees of a MID, and whether it was registered twice.
Bearers(payees, mid) ==
  LET own == {i \in DOMAIN payees : i = mid \/ payees[i].ref = mid}
  IN  [i \in own |-> payees[i]]

Twice(mid) ==
  \E i, j \in DOMAIN rail.payees : i # j /\ rail.payees[i].ref = mid /\ rail.payees[j].ref = mid

RestartRail ==
  /\ registryRestarts < MaxRegistryRestarts /\ registryRestarts' = registryRestarts + 1
  /\ rail' = Restored(railFile)
  /\ hazy' = hazy \cup {mid \in Mids : Bearers(railFile, mid) # Bearers(rail.payees, mid) \/ Twice(mid)}
  /\ UNCHANGED <<mem, saved, railFile, errand, given, unsaved, errands, saveFails>>
-----------------------------------------------------------------------------
(***************************************************************************)
(* Provisioning                                                            *)
(***************************************************************************)

BeginErrand(c, e) ==
  /\ errands < MaxErrands /\ errands' = errands + 1
  /\ errand[c] = NoErrand /\ errand' = [errand EXCEPT ![c] = e]

OnWith(c, e) ==
  errand' = [errand EXCEPT ![c] = IF e.merchants = {} /\ e.left = {} THEN NoErrand ELSE e]

\* Done with the outlet a provisioner is at.
NextOutlet(c) ==
  OnWith(c, [merchants |-> errand[c].merchants, left |-> errand[c].left \ {Min(errand[c].left)},
             want |-> errand[c].want, step |-> "call"])

Provision(ms) == [merchants |-> ms, left |-> {}, step |-> "call", want |-> "register"]

ProvisionMerchant(c) ==
  /\ \E m \in DOMAIN mem.merchants : BeginErrand(c, Provision({m}))
  /\ UNCHANGED <<mem, saved, rail, railFile, given, hazy, unsaved, saveFails, registryRestarts>>

\* The merchants the batch has now.
ProvisionBatch(c) ==
  /\ \E b \in mem.batches :
       /\ BatchMerchants(b) # {}
       /\ BeginErrand(c, Provision(BatchMerchants(b)))
  /\ UNCHANGED <<mem, saved, rail, railFile, given, hazy, unsaved, saveFails, registryRestarts>>

\* Of any MID: the registry is not asked before the rail.
AskSanctions(c) ==
  /\ \E mid \in Mids, standing \in Standings :
       BeginErrand(c, [merchants |-> {}, left |-> {mid}, step |-> "call", want |-> standing])
  /\ UNCHANGED <<mem, saved, rail, railFile, given, hazy, unsaved, saveFails, registryRestarts>>

\* The outlets the next merchant has now; one deleted since has none.
TakeMerchant(c) ==
  /\ errand[c].merchants # {} /\ errand[c].left = {}
  /\ LET m == Min(errand[c].merchants)
     IN  OnWith(c, [errand[c] EXCEPT !.merchants = @ \ {m}, !.left = OutletsOf(mem, {m})])
  /\ UNCHANGED <<mem, saved, rail, railFile, given, hazy, unsaved, errands, saveFails, registryRestarts>>

Calling(c) == errand[c].left # {} /\ errand[c].step = "call"

\* MIDs with an answer on its way into the registry.
Answered(cs) == {Current(c) : c \in {d \in cs : errand[d].step = "record"}}

\* Answers of calls for one MID may be recorded in the other order, and a
\* payee brought up under its MID hides one registered afterwards.
CallRail(c) ==
  /\ Calling(c)
  /\ \E reply \in Replies(c) :
       /\ rail' = reply.rail
       /\ errand' = [errand EXCEPT ![c] = [merchants |-> @.merchants, left |-> @.left, want |-> @.want,
                                           step |-> "record", payee |-> reply.payee]]
  /\ SaveRail
  /\ LET mid == Current(c)
     IN  hazy' = IF mid \in Answered(Provisioners \ {c})
                    \/ (errand[c].want = "register" /\ mid \in DOMAIN rail.payees)
                 THEN hazy \cup {mid} ELSE hazy \ {mid}
  /\ UNCHANGED <<mem, saved, given, unsaved, errands, registryRestarts>>

\* Refused, timed out, or done and the answer lost: the outlet is left as it
\* was, and the next one is tried.
CallRailFails(c) ==
  /\ Calling(c)
  /\ \/ UNCHANGED <<rail, railFile, saveFails, hazy>>
     \/ /\ \E reply \in Replies(c) : rail' = reply.rail
        /\ SaveRail /\ hazy' = hazy \cup {Current(c)}
  /\ NextOutlet(c)
  /\ UNCHANGED <<mem, saved, given, unsaved, errands, registryRestarts>>

\* A registration is answered with the payee itself, written out once the
\* store is unlocked: with the standing it has by then.
WriteAnswer(c) ==
  LET p == errand[c].payee
  IN  /\ errand[c].step = "record" /\ errand[c].want = "register"
      /\ p.id \in DOMAIN rail.payees /\ rail.payees[p.id].standing # p.standing
      /\ errand' = [errand EXCEPT ![c].payee.standing = rail.payees[p.id].standing]
      /\ UNCHANGED <<mem, saved, rail, railFile, given, hazy, unsaved, errands, saveFails,
                     registryRestarts>>

\* SetOutletBeneficiary.
Recorded(r, o, payee) == [r EXCEPT !.outlets[o].told = payee]

\* The first outlet met with the MID, merchants being met in any order.
RecordPayee(c) ==
  /\ errand[c].step = "record"
  /\ LET mid == Current(c)
         there == {o \in DOMAIN mem.outlets : MidOf[o] = mid}
     IN  \/ /\ \E o \in there : Amend(Recorded(mem, o, errand[c].payee))
            /\ UNCHANGED hazy
         \/ /\ there = {} /\ hazy' = hazy \cup {mid}
            /\ UNCHANGED <<mem, saved, given, unsaved, saveFails>>
  /\ NextOutlet(c)
  /\ UNCHANGED <<rail, railFile, errands, registryRestarts>>
-----------------------------------------------------------------------------
\* Slip: the counter is taken from the records that are there.
LoadedRecounting(f) ==
  LET used == DOMAIN f.merchants \cup DOMAIN f.outlets \cup f.batches \cup {0}
  IN  [f EXCEPT !.seq = CHOOSE n \in used : \A i \in used : i <= n]

\* load: what was saved, the counter too.
Loaded(f) == f

RestartRegistry ==
  /\ registryRestarts < MaxRegistryRestarts /\ registryRestarts' = registryRestarts + 1
  /\ mem' = Loaded(saved)
  /\ errand' = [c \in Provisioners |-> NoErrand]
  /\ hazy' = hazy \cup Answered(Provisioners) \cup unsaved /\ unsaved' = {}
  /\ UNCHANGED <<saved, rail, railFile, given, errands, saveFails>>

RegistryInit ==
  /\ mem = [seq |-> 0, batches |-> {}, merchants |-> [m \in {} |-> 0], outlets |-> [o \in {} |-> 0]]
  /\ saved = mem
  /\ rail = [payees |-> [i \in {} |-> ""], byRef |-> [m \in {} |-> 0]] /\ railFile = rail.payees
  /\ errand = [c \in Provisioners |-> NoErrand]
  /\ given = {} /\ hazy = {} /\ unsaved = {}
  /\ errands = 0 /\ saveFails = 0 /\ registryRestarts = 0

Provisioning ==
  \E c \in Provisioners :
    \/ ProvisionMerchant(c) \/ ProvisionBatch(c) \/ AskSanctions(c)
    \/ TakeMerchant(c) \/ CallRail(c) \/ CallRailFails(c) \/ WriteAnswer(c) \/ RecordPayee(c)

RegistryNext ==
  \/ AddMerchant \/ AddOutlet \/ AddBatch \/ AddParty \/ DeleteMerchant \/ DeleteBatch
  \/ Provisioning \/ RestartRegistry \/ RestartRail

RegistrySpec == RegistryInit /\ [][RegistryNext]_registryVars
-----------------------------------------------------------------------------
\* For the property: nothing refuses a MID two ids are hashed to.
Shared(o) == \E p \in given \ {o} : MidOf[p] = MidOf[o]

\* An outlet carries the beneficiary id and the sanctions status the rail has
\* for its MID, and none exactly when the rail was never told of the MID: an
\* id is not given twice, whatever was deleted, failed to be saved or was
\* restarted in between, on either side.  Excepted is an outlet whose MID
\* another id was hashed to, one whose answer is on its way, was lost, or met
\* that of another call for the MID, one that changed and was not saved before
\* a restart, and one whose payee was not saved, or was registered twice,
\* before the rail's restart
\* (ProvisionMerchant, SetSanctions, load, Restore).
OutletTellsTheRail ==
  \A o \in DOMAIN mem.outlets :
    MidOf[o] \notin hazy \cup Answered(Provisioners) /\ ~Shared(o)
      => mem.outlets[o].told = OnRail(MidOf[o])
=============================================================================
