------------------------------ MODULE B4BDirectory ------------------------------
(***************************************************************************)
(* What B4B remembers besides payments (internal/b4b directory.go,         *)
(* company.go, beneficiary.go; cmd/b4b companies.go, people.go,            *)
(* documents.go, beneficiaries.go): the companies a platform boards and    *)
(* everything that hangs off one, and the payees its payouts name.         *)
(*                                                                         *)
(* Requests are handled beside one another.  A store is locked for a part  *)
(* of one at a time, so creating a person or a profile takes two steps; a  *)
(* request that changed something writes the state file and only then      *)
(* answers.  Nothing is locked for a save: it copies one store after the   *)
(* other and writes what it copied, beside other saves.  (B4BPayout has    *)
(* the temporary file they share; here is what can come of it.)  What a    *)
(* client is called back with when a screening changes is left out.        *)
(*                                                                         *)
(* Names are numbers: the ids B4B mints, in any order as they are random,  *)
(* and the references clients give.                                        *)
(***************************************************************************)
EXTENDS Integers, FiniteSets, FiniteSetsExt, Functions

CONSTANTS
  Callers,          \* requests that can be handled at once
  Asks,             \* what may be asked, by kind
  Ids,              \* what ids are drawn from
  Enforce,          \* B4B_ENFORCE_BENEFICIARY_COMPANY
  Own,              \* the account LookupBeneficiary derives from an id
  MaxAsks, MaxSaveFaults, MaxBoots \* bounds

ASSUME DirectoryAssumption ==
  /\ Ids \subseteq Nat \ {0} /\ Enforce \in BOOLEAN
  /\ {MaxAsks, MaxSaveFaults, MaxBoots} \subseteq Nat

VARIABLES
  dir,       \* the Directory
  bens,      \* the BeneficiaryStore
  file,      \* the state last written to the state file
  legible,   \* the state file holds that, whole
  saver,     \* the requests that are inside persist, with what they copied
  caller,    \* the requests being handled
  paid,      \* payments handed to the engine, with the payee's record then
  blocked,   \* history: payees an operator was told are blocked, and still are
  created,   \* history: what clients were told was created
  asks, boots \* for the bounds

saving == <<file, legible, saver>>
dirHistory == <<blocked, created>>
dirVars == <<dir, bens, saving, caller, paid, dirHistory, asks, boots>>
-----------------------------------------------------------------------------
(***************************************************************************)
(* Records                                                                 *)
(***************************************************************************)

Void == [n \in {} |-> 0]
With(f, n, x) == [m \in DOMAIN f \cup {n} |-> IF m = n THEN x ELSE f[m]]

\* A company starts active and clean; its two waivers never change.
Company(ask) ==
  [ref |-> ask.ref, companyWaived |-> ask.companyWaived, personWaived |-> ask.personWaived,
   sanctions |-> "pass"]

Person(company) == [company |-> company, sanctions |-> "pass", pep |-> "pass"]

EmptyDirectory ==
  [companies |-> Void, refs |-> Void, addresses |-> Void, people |-> Void,
   extended |-> Void, documents |-> {}, vibans |-> Void]

Payee(ask) ==
  [company |-> ask.company, ref |-> ask.ref, account |-> ask.account, status |-> "active",
   sanctions |-> IF ask.sanctions = "" THEN "pass" ELSE ask.sanctions]

\* LookupBeneficiary: what an unknown id reads as, always the same.
Lookup(n) ==
  [company |-> 0, ref |-> 0, account |-> Own[n], status |-> "active", sanctions |-> "pass"]

\* The id's record before the reference's.
ResolveCompany(n) ==
  IF n \in DOMAIN dir.companies THEN n ELSE IF n \in DOMAIN dir.refs THEN dir.refs[n] ELSE 0

\* Which record a payee's name means: itself, when nobody registered it.
Resolve(n) ==
  IF n \notin DOMAIN bens.byID /\ n \in DOMAIN bens.byRef THEN bens.byRef[n] ELSE n

\* Beneficiaries and their index hold the same record.
Get(n) ==
  IF Resolve(n) \in DOMAIN bens.byID THEN bens.byID[Resolve(n)] ELSE Lookup(n)

Used ==
  DOMAIN dir.companies \cup DOMAIN dir.people \cup dir.documents \cup DOMAIN bens.byID
    \cup Range(dir.extended) \cup Range(dir.vibans)

\* A random id is not one that is in use or was told to anybody before, over
\* restarts, nor a reference.
Fresh ==
  Ids \ (Used \cup {t.id : t \in created} \cup DOMAIN dir.refs \cup DOMAIN bens.byRef)

-----------------------------------------------------------------------------
(***************************************************************************)
(* What a body is refused for                                              *)
(***************************************************************************)

\* The statuses a screening may end in.
Screenings == {"pass", "review", "fail"}

\* Names, a registered office and a code of four digits; likewise an address.
CompanyValid(ask) == ask.valid
AddressValid(ask) == ask.valid

\* A natural person needs an identity document unless the company waives it.
PersonValid(ask, waived) == ask.valid /\ (ask.natural => ask.papers \/ waived)

\* A profile needs a document unless the company waives it.
ProfileValid(ask, waived) == ask.documents # {} \/ waived

PayeeValid(ask) == ask.valid /\ ask.sanctions \in Screenings \cup {""}

\* What a payment says of the creditor must be what the payee's record says.
CreditorMatches(b, account) == account \in {0, b.account}

\* A payee of a company is paid by it, when that is enforced at all.
CompanyMayPay(b, by) == Enforce => b.company = 0 \/ by \in {0, b.company}
-----------------------------------------------------------------------------
(***************************************************************************)
(* Handling a request                                                      *)
(***************************************************************************)

Free == [step |-> "free"]

At(c, kind, step) == caller[c].step = step /\ caller[c].ask.kind = kind

Goto(c, step, held) == caller' = [caller EXCEPT ![c].step = step, ![c].held = held]

\* Whatever the answer is, nothing changed.
Refuse(c) == caller' = [caller EXCEPT ![c] = Free]

\* The store changed: the file is written, then the id is told.
ThenSave(c, id) == Goto(c, "save", id)

\* The payees that operators have been told are blocked.
KnownBlocked == {t.payee : t \in blocked}

\* claim is the payee that the answer will say is blocked.
Begin(c) ==
  /\ caller[c].step = "free" /\ asks < MaxAsks
  /\ asks' = asks + 1
  /\ \E ask \in Asks :
       caller' = [caller EXCEPT ![c] = [step |-> "work", ask |-> ask, held |-> 0,
                                        blocked |-> KnownBlocked, claim |-> {}]]
  /\ UNCHANGED <<dir, bens, saving, paid, dirHistory, boots>>

\* Directory.CreateCompany: the registered office is its first address.
WithCompany(ask, id) ==
  [dir EXCEPT !.companies = With(@, id, Company(ask)),
              !.refs = IF ask.ref = 0 THEN @ ELSE With(@, ask.ref, id),
              !.addresses = With(@, id, 1)]

\* createCompany: a repeated reference is refused.
CreateCompany(c) ==
  /\ At(c, "company", "work")
  /\ LET ask == caller[c].ask
     IN  IF ~CompanyValid(ask) \/ (ask.ref # 0 /\ ask.ref \in DOMAIN dir.refs)
         THEN Refuse(c) /\ UNCHANGED dir
         ELSE \E id \in Fresh : dir' = WithCompany(ask, id) /\ ThenSave(c, id)
  /\ UNCHANGED <<bens, saving, paid, dirHistory, asks, boots>>

\* Addresses are counted.
WithAddress(company) == [dir EXCEPT !.addresses[company] = @ + 1]

CreateAddress(c) ==
  /\ At(c, "address", "work")
  /\ LET company == ResolveCompany(caller[c].ask.of)
     IN  IF company = 0 \/ ~AddressValid(caller[c].ask) THEN Refuse(c) /\ UNCHANGED dir
         ELSE dir' = WithAddress(company) /\ ThenSave(c, 0)
  /\ UNCHANGED <<bens, saving, paid, dirHistory, asks, boots>>

\* AddPerson looks the company up, checks the body without the lock, and adds
\* the person.
CheckPerson(c) ==
  /\ At(c, "person", "work")
  /\ LET company == ResolveCompany(caller[c].ask.of)
     IN  IF company = 0 \/ ~PersonValid(caller[c].ask, dir.companies[company].personWaived)
         THEN Refuse(c) ELSE Goto(c, "add", company)
  /\ UNCHANGED <<dir, bens, saving, paid, dirHistory, asks, boots>>

WithPerson(company, id) == [dir EXCEPT !.people = With(@, id, Person(company))]

CreatePerson(c) ==
  /\ At(c, "person", "add")
  /\ \E id \in Fresh : dir' = WithPerson(caller[c].held, id) /\ ThenSave(c, id)
  /\ UNCHANGED <<bens, saving, paid, dirHistory, asks, boots>>

\* CreateExtended: there must be none, its documents must be there, and, when
\* the lock is taken again, there must still be none.
CheckExtended(c) ==
  /\ At(c, "extended", "work")
  /\ LET ask == caller[c].ask
         company == ResolveCompany(ask.of)
     IN  IF \/ company = 0 \/ company \in DOMAIN dir.extended
            \/ ~ask.documents \subseteq dir.documents
            \/ ~ProfileValid(ask, dir.companies[company].companyWaived)
         THEN Refuse(c) ELSE Goto(c, "add", company)
  /\ UNCHANGED <<dir, bens, saving, paid, dirHistory, asks, boots>>

WithExtended(company, id) == [dir EXCEPT !.extended = With(@, company, id)]

\* Slip: the first look was enough.
AddExtendedUnchecked(c) ==
  /\ At(c, "extended", "add")
  /\ \E id \in Fresh : dir' = WithExtended(caller[c].held, id) /\ ThenSave(c, id)
  /\ UNCHANGED <<bens, saving, paid, dirHistory, asks, boots>>

AddExtended(c) ==
  /\ At(c, "extended", "add")
  /\ IF caller[c].held \in DOMAIN dir.extended
     THEN Refuse(c) /\ UNCHANGED dir
     ELSE \E id \in Fresh : dir' = WithExtended(caller[c].held, id) /\ ThenSave(c, id)
  /\ UNCHANGED <<bens, saving, paid, dirHistory, asks, boots>>

WithDocument(id) == [dir EXCEPT !.documents = @ \cup {id}]

\* uploadDocument takes whatever comes and keeps a receipt of it.
UploadDocument(c) ==
  /\ At(c, "document", "work")
  /\ \E id \in Fresh : dir' = WithDocument(id) /\ ThenSave(c, id)
  /\ UNCHANGED <<bens, saving, paid, dirHistory, asks, boots>>

\* What may exist once: a company of a reference, a company's profile, its
\* account in a currency.
Key(ask, id) ==
  CASE ask.kind = "company" /\ ask.ref # 0 -> <<"company", ask.ref>>
    [] ask.kind = "extended" -> <<"extended", ResolveCompany(ask.of)>>
    [] ask.kind = "viban" -> <<"viban", ResolveCompany(ask.of), ask.currency>>
    [] OTHER -> <<"any", id>>

\* A client is told the id of what it asked for.  It is kept if no save that
\* began earlier can still be written after the one that has it.
Creation(ask, id, kept) == [key |-> Key(ask, id), id |-> id, kept |-> kept]

WithViban(key, id) == [dir EXCEPT !.vibans = With(@, key, id)]

\* One for each currency: asked again, the same is answered, at once, and
\* may still have to be saved by the request that made it.
CreateViban(c) ==
  /\ At(c, "viban", "work")
  /\ LET ask == caller[c].ask
         company == ResolveCompany(ask.of)
         key == <<company, ask.currency>>
     IN  IF company = 0 THEN Refuse(c) /\ UNCHANGED <<dir, created>>
         ELSE IF key \in DOMAIN dir.vibans
         THEN /\ created' = created \cup {Creation(ask, dir.vibans[key], FALSE)}
              /\ Refuse(c) /\ UNCHANGED dir
         ELSE /\ \E id \in Fresh : dir' = WithViban(key, id) /\ ThenSave(c, id)
              /\ UNCHANGED created
  /\ UNCHANGED <<bens, saving, paid, blocked, asks, boots>>

WithStatus(company, to) == [dir EXCEPT !.companies[company].sanctions = to]

\* Written down again when the status is the company's already.
ScreenCompany(c) ==
  /\ At(c, "screen company", "work")
  /\ LET ask == caller[c].ask
         company == ResolveCompany(ask.of)
     IN  IF company = 0 \/ ask.to \notin Screenings
         THEN Refuse(c) /\ UNCHANGED dir
         ELSE dir' = WithStatus(company, ask.to) /\ ThenSave(c, 0)
  /\ UNCHANGED <<bens, saving, paid, dirHistory, asks, boots>>

\* Either status may be left alone.
Screened(person, ask) ==
  [person EXCEPT !.sanctions = IF ask.to = "" THEN @ ELSE ask.to,
                 !.pep = IF ask.pep = "" THEN @ ELSE ask.pep]

\* A person has no reference to be found by; one status must be given.
ScreenPerson(c) ==
  /\ At(c, "screen person", "work")
  /\ LET ask == caller[c].ask
     IN  IF \/ ask.of \notin DOMAIN dir.people
            \/ ~{ask.to, ask.pep} \subseteq Screenings \cup {""}
            \/ {ask.to, ask.pep} = {""}
         THEN Refuse(c) /\ UNCHANGED dir
         ELSE /\ dir' = [dir EXCEPT !.people[ask.of] = Screened(@, ask)]
              /\ ThenSave(c, 0)
  /\ UNCHANGED <<bens, saving, paid, dirHistory, asks, boots>>

\* Register puts the record in both indexes, the last for a reference in the
\* place of the one before.
WithPayee(ask, id) ==
  [byID |-> With(bens.byID, id, Payee(ask)),
   byRef |-> IF ask.ref = 0 THEN bens.byRef ELSE With(bens.byRef, ask.ref, id)]

\* registerBeneficiary: a company that is named must be there.
RegisterBeneficiary(c) ==
  /\ At(c, "payee", "work")
  /\ LET ask == caller[c].ask
     IN  IF ~PayeeValid(ask) \/ (ask.company # 0 /\ ResolveCompany(ask.company) = 0)
         THEN Refuse(c) /\ UNCHANGED bens
         ELSE \E id \in Fresh :
                /\ bens' = WithPayee([ask EXCEPT !.company = ResolveCompany(@)], id)
                /\ ThenSave(c, id)
  /\ UNCHANGED <<dir, saving, paid, dirHistory, asks, boots>>

Blocks(b) == b.sanctions # "pass" \/ b.status = "disabled"

\* A change lifts what an operator was told as soon as it is made, for the
\* requests in progress too.
Lifted(n, d) ==
  IF caller[d].step = "free" THEN caller[d]
  ELSE [caller[d] EXCEPT !.blocked = @ \ {n}, !.claim = @ \ {n}]

Change(c, b) ==
  LET n == Resolve(caller[c].ask.of)
      others == IF Blocks(b) THEN caller ELSE [d \in Callers |-> Lifted(n, d)]
  IN  /\ bens' = [bens EXCEPT !.byID = With(@, n, b)]
      /\ blocked' = IF Blocks(b) THEN blocked ELSE {t \in blocked : t.payee # n}
      /\ caller' = [others EXCEPT ![c].step = "save",
                                  ![c].claim = IF Blocks(b) THEN {n} ELSE {}]
      /\ UNCHANGED <<dir, saving, paid, created, asks, boots>>

\* Slip: an unknown payee is changed where nobody keeps it.
SetSanctionsIfKnown(c) ==
  /\ At(c, "sanctions", "work")
  /\ LET ask == caller[c].ask
     IN  IF Resolve(ask.of) \in DOMAIN bens.byID
         THEN Change(c, [Get(ask.of) EXCEPT !.sanctions = ask.to])
         ELSE /\ caller' = [caller EXCEPT ![c].step = "save",
                                          ![c].claim = IF ask.to = "pass" THEN {} ELSE {ask.of}]
              /\ UNCHANGED <<dir, bens, saving, paid, dirHistory, asks, boots>>

\* An unknown payee is put into the store, so that the change sticks.
SetSanctions(c) ==
  /\ At(c, "sanctions", "work")
  /\ IF caller[c].ask.to \in Screenings
     THEN Change(c, [Get(caller[c].ask.of) EXCEPT !.sanctions = caller[c].ask.to])
     ELSE Refuse(c) /\ UNCHANGED <<dir, bens, saving, paid, dirHistory, asks, boots>>

SetStatus(c) ==
  /\ At(c, "status", "work")
  /\ IF caller[c].ask.to \in {"active", "disabled"}
     THEN Change(c, [Get(caller[c].ask.of) EXCEPT !.status = caller[c].ask.to])
     ELSE Refuse(c) /\ UNCHANGED <<dir, bens, saving, paid, dirHistory, asks, boots>>

\* gateBeneficiary reads the payee once; the payment is made from the copy.
MayPay(b, ask) ==
  /\ b.sanctions = "pass" /\ b.status = "active"
  /\ CreditorMatches(b, ask.account) /\ CompanyMayPay(b, ask.by)

Gate(c) ==
  /\ At(c, "payment", "work")
  /\ IF MayPay(Get(caller[c].ask.of), caller[c].ask)
     THEN Goto(c, "pay", Resolve(caller[c].ask.of)) ELSE Refuse(c)
  /\ UNCHANGED <<dir, bens, saving, paid, dirHistory, asks, boots>>

\* Submit hands the payment to the engine (B4BPayout), which saves it.
Pay(c) ==
  /\ At(c, "payment", "pay")
  /\ paid' = paid \cup {[payee |-> caller[c].held, known |-> caller[c].blocked]}
  /\ ThenSave(c, 0)
  /\ UNCHANGED <<dir, bens, saving, dirHistory, asks, boots>>

\* A payment that was made comes to its next state, which is saved as well.
Hop(c) ==
  /\ paid # {}
  /\ caller[c].step = "free" /\ asks < MaxAsks
  /\ asks' = asks + 1
  /\ caller' = [caller EXCEPT ![c] = [step |-> "save", ask |-> [kind |-> "hop"], held |-> 0,
                                      blocked |-> {}, claim |-> {}]]
  /\ UNCHANGED <<dir, bens, saving, paid, dirHistory, boots>>
-----------------------------------------------------------------------------
(***************************************************************************)
(* Saving and starting                                                     *)
(***************************************************************************)

\* persist takes its copies one after the other, each under its store's lock.
\* crossed: another save was under way when this one began.  beside: another
\* was at some time since, so that they may write into one temporary file.
\* passed: another's rename came when this one had opened its file.
CopyDirectory(c) ==
  /\ caller[c].step = "save"
  /\ caller' = [caller EXCEPT ![c].step = "copy"]
  /\ LET others == DOMAIN saver # {}
     IN  saver' = [d \in DOMAIN saver \cup {c} |->
                     IF d = c THEN [dir |-> dir, byID |-> Void, crossed |-> others,
                                    beside |-> others, passed |-> FALSE]
                     ELSE [saver[d] EXCEPT !.beside = TRUE]]
  /\ UNCHANGED <<dir, bens, file, legible, paid, dirHistory, asks, boots>>

CopyPayees(c) ==
  /\ caller[c].step = "copy"
  /\ caller' = [caller EXCEPT ![c].step = "write"]
  /\ saver' = [saver EXCEPT ![c].byID = bens.byID]
  /\ UNCHANGED <<dir, bens, file, legible, paid, dirHistory, asks, boots>>

Copied(c) == [dir |-> saver[c].dir, byID |-> saver[c].byID]

\* The file that another save renamed is the one this save writes to.
WriteThrough(c) ==
  /\ caller[c].step = "write" /\ saver[c].passed
  /\ file' = Copied(c) /\ legible' \in BOOLEAN
  /\ UNCHANGED <<dir, bens, saver, caller, paid, dirHistory, asks, boots>>

\* The answer goes out.
Tell(c, kept) ==
  LET ask == caller[c].ask
      id == caller[c].held
  IN  /\ created' = IF id # 0 THEN created \cup {Creation(ask, id, kept)} ELSE created
      /\ blocked' = blocked \cup {[payee |-> n, kept |-> kept] : n \in caller[c].claim}
      /\ caller' = [caller EXCEPT ![c] = Free]

Leave(c) == saver' = Restrict(saver, DOMAIN saver \ {c})

\* The saves that have opened the file which c takes away.
LeaveBehind(c) ==
  saver' = [d \in DOMAIN saver \ {c} |->
              IF caller[d].step = "write" THEN [saver[d] EXCEPT !.passed = TRUE] ELSE saver[d]]

\* The file is renamed, whole unless another save is writing to it; or there
\* is none, as another save has renamed it, which is logged.
Land(c) ==
  /\ caller[c].step = "write"
  /\ \/ /\ file' = Copied(c)
        /\ legible' \in (IF saver[c].beside THEN BOOLEAN ELSE {TRUE})
        /\ LeaveBehind(c)
     \/ saver[c].passed /\ Leave(c) /\ UNCHANGED <<file, legible>>
  /\ Tell(c, ~saver[c].crossed)
  /\ UNCHANGED <<dir, bens, paid, asks, boots>>

\* A save that fails is logged, and the request answered.
SaveFault(c) ==
  /\ caller[c].step = "write" /\ MaxSaveFaults > 0
  /\ legible' \in {legible} \cup (IF saver[c].passed THEN {FALSE} ELSE {})
  /\ Leave(c)
  /\ Tell(c, FALSE)
  /\ UNCHANGED <<dir, bens, file, paid, asks, boots>>

\* Payees are saved in the order of their ids and read back in that order,
\* and so the reference's last is the one with the greatest id.
RefsOf(byID) ==
  [r \in {byID[n].ref : n \in DOMAIN byID} \ {0} |-> Max({n \in DOMAIN byID : byID[n].ref = r})]

\* B4B is killed and starts, which it only does on a file that it can read.
\* Of what clients and operators were told, what may be lost is struck off.
RestartDirectory ==
  /\ legible /\ boots < MaxBoots /\ boots' = boots + 1
  /\ dir' = file.dir
  /\ bens' = [byID |-> file.byID, byRef |-> RefsOf(file.byID)]
  /\ caller' = [c \in Callers |-> Free] /\ saver' = Void
  /\ created' = {t \in created : t.kept} /\ blocked' = {t \in blocked : t.kept}
  /\ UNCHANGED <<file, legible, paid, asks>>
-----------------------------------------------------------------------------
DirectoryInit ==
  /\ dir = EmptyDirectory
  /\ bens = [byID |-> Void, byRef |-> Void]
  /\ file = [dir |-> EmptyDirectory, byID |-> Void] /\ legible = TRUE /\ saver = Void
  /\ caller = [c \in Callers |-> Free]
  /\ paid = {} /\ blocked = {} /\ created = {}
  /\ asks = 0 /\ boots = 0

Handle(c) ==
  \/ CreateCompany(c) \/ CreateAddress(c) \/ CheckPerson(c) \/ CreatePerson(c)
  \/ CheckExtended(c) \/ AddExtended(c) \/ UploadDocument(c) \/ CreateViban(c)
  \/ ScreenCompany(c) \/ ScreenPerson(c) \/ RegisterBeneficiary(c)
  \/ SetSanctions(c) \/ SetStatus(c) \/ Gate(c) \/ Pay(c)

Persist(c) ==
  CopyDirectory(c) \/ CopyPayees(c) \/ WriteThrough(c) \/ Land(c) \/ SaveFault(c)

DirectoryNext ==
  (\E c \in Callers : Begin(c) \/ Handle(c) \/ Hop(c) \/ Persist(c)) \/ RestartDirectory

DirectorySpec == DirectoryInit /\ [][DirectoryNext]_dirVars
-----------------------------------------------------------------------------
\* What may exist once is told to clients once: of requests handled at once,
\* retried or sent again, one is told a company of that reference, a profile
\* of that company or an account in that currency was created; and over
\* restarts, unless a save that was under way when the creation was saved
\* could be written after it, or the creation's own save failed
\* (CreateCompany, CreateExtended, AddViban, persist).
CreatedOnce == \A a, b \in created : a.key = b.key => a.id = b.id

\* Once an operator was told that a payee is refused or disabled, no payment
\* asked for after that goes to its record until somebody lifts it; and over
\* restarts, with the same exception (SetSanctions, SetStatus,
\* gateBeneficiary, persist).
BlockHolds == \A p \in paid : p.payee \notin p.known
=============================================================================
