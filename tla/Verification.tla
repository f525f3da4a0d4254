------------------------------ MODULE Verification ------------------------------
(***************************************************************************)
(* Whether a merchant may be paid: the verification service (cmd/verify,   *)
(* internal/verify), which answers a request at once and has the decision  *)
(* ready some time later, and the settlement platform's gate, which asks   *)
(* for a decision and looks for it MaxPolls times (cmd/settlement,         *)
(* checkVerification).                                                     *)
(*                                                                         *)
(* A decline that is heard closes the gate; whatever keeps the platform    *)
(* from hearing opens it.  The service may be started with another list of *)
(* merchants to decline, and forgets what it decided.                      *)
(***************************************************************************)
EXTENDS Integers, FiniteSets

CONSTANTS
  Payers,     \* those at work in submitPayout together
  Merchants,
  Hash,       \* the signed 32-bit hash of a merchant's id
  HalfWord,       \* 2^31
  Lists,      \* what VERIFY_FORCE_DECLINE_IDS may say
  MaxPolls,
  MaxGates, MaxMissed, MaxVerifyRestarts \* bounds

ASSUME VerificationAssumption ==
  /\ HalfWord \in Nat /\ Hash \in [Merchants -> (-HalfWord)..(HalfWord - 1)]
  /\ MaxPolls \in Nat \ {0}
  /\ {MaxGates, MaxMissed, MaxVerifyRestarts} \subseteq Nat

VARIABLES
  declines,   \* Engine.forceDecline
  keyed,      \* whether the platform has the service's key
  deciding,   \* goroutines that sleep over a decision: [id, decision]
  decisions,  \* Engine.decisions
  gate,       \* what each payer is at
  verdicts,   \* history: how gates came out
  gates, missed, verifyRestarts \* for the bounds

verificationVars ==
  <<declines, keyed, deciding, decisions, gate, verdicts, gates, missed, verifyRestarts>>
-----------------------------------------------------------------------------
\* fnvPositive: the least number has no positive counterpart.
FnvPositive(m) == IF Hash[m] < 0 /\ Hash[m] # -HalfWord THEN -Hash[m] ELSE Hash[m]

Closed == [step |-> "none"]

NoDecisions == [id \in {} |-> ""]

\* positiveDecision and declineDecision.
Decision(id) == IF id \in declines THEN "DECLINE" ELSE "APPROVED"
-----------------------------------------------------------------------------
(***************************************************************************)
(* The service                                                             *)
(***************************************************************************)

\* A request is served with the right key and an id that is not 0.
Serves(id) == keyed /\ id # 0

\* Engine.Trigger: what is decided is settled now and can be read later.
Triggered(id) ==
  IF Serves(id) THEN deciding \cup {[id |-> id, decision |-> Decision(id)]} ELSE deciding

\* Its goroutine wakes up.
Decide(d) ==
  /\ deciding' = deciding \ {d}
  /\ decisions' = [i \in DOMAIN decisions \cup {d.id} |-> IF i = d.id THEN d.decision ELSE decisions[i]]
  /\ UNCHANGED <<declines, keyed, gate, verdicts, gates, missed, verifyRestarts>>

\* Nothing is kept.  For the property, each gate that is being passed notes
\* which lists there were meanwhile.
RestartVerify ==
  /\ verifyRestarts < MaxVerifyRestarts /\ verifyRestarts' = verifyRestarts + 1
  /\ declines' \in Lists
  /\ deciding' = {} /\ decisions' = NoDecisions
  /\ gate' = [p \in Payers |-> IF gate[p] = Closed THEN Closed
                               ELSE [gate[p] EXCEPT !.lists = @ \cup {declines'}]]
  /\ UNCHANGED <<keyed, verdicts, gates, missed>>
-----------------------------------------------------------------------------
(***************************************************************************)
(* The gate                                                                *)
(***************************************************************************)

Enter(p) ==
  /\ gate[p] = Closed /\ gates < MaxGates /\ gates' = gates + 1
  /\ \E m \in Merchants :
       gate' = [gate EXCEPT ![p] =
         [step |-> "trigger", id |-> FnvPositive(m), looks |-> 0, lists |-> {declines}]]
  /\ UNCHANGED <<declines, keyed, deciding, decisions, verdicts, missed, verifyRestarts>>

\* checkVerification returns.
Verdict(p, approved, failed) ==
  /\ verdicts' = verdicts \cup
       {[id |-> gate[p].id, looks |-> gate[p].looks, lists |-> gate[p].lists,
         approved |-> approved, failed |-> failed, ready |-> gate[p].id \in DOMAIN decisions]}
  /\ gate' = [gate EXCEPT ![p] = Closed]

\* A decision is asked for; what is answered is not looked at.
Trigger(p) ==
  /\ gate[p].step = "trigger"
  /\ deciding' = Triggered(gate[p].id)
  /\ gate' = [gate EXCEPT ![p].step = "look", ![p].looks = 1]
  /\ UNCHANGED <<declines, keyed, decisions, verdicts, gates, missed, verifyRestarts>>

\* A request that fails opens the gate, whether it was served or not.
Miss(p) ==
  /\ gate[p] # Closed /\ missed < MaxMissed /\ missed' = missed + 1
  /\ deciding' \in {deciding} \cup (IF gate[p].step = "trigger" THEN {Triggered(gate[p].id)} ELSE {})
  /\ Verdict(p, TRUE, TRUE)
  /\ UNCHANGED <<declines, keyed, decisions, gates, verifyRestarts>>

\* Slip: a decision that is not there is as good as none.
LookOnce(p) ==
  /\ gate[p].step = "look"
  /\ Verdict(p, gate[p].id \notin DOMAIN decisions \/ decisions[gate[p].id] = "APPROVED", FALSE)
  /\ UNCHANGED <<declines, keyed, deciding, decisions, gates, missed, verifyRestarts>>

\* It is looked for, again while it is not found and looks are left.
Look(p) ==
  /\ gate[p].step = "look"
  /\ LET there == keyed /\ gate[p].id \in DOMAIN decisions
     IN  IF keyed /\ ~there /\ gate[p].looks < MaxPolls
         THEN gate' = [gate EXCEPT ![p].looks = @ + 1] /\ UNCHANGED verdicts
         ELSE Verdict(p, there => decisions[gate[p].id] = "APPROVED", FALSE)
  /\ UNCHANGED <<declines, keyed, deciding, decisions, gates, missed, verifyRestarts>>
-----------------------------------------------------------------------------
VerificationInit ==
  /\ declines \in Lists /\ keyed \in BOOLEAN
  /\ deciding = {} /\ decisions = NoDecisions
  /\ gate = [p \in Payers |-> Closed]
  /\ verdicts = {} /\ gates = 0 /\ missed = 0 /\ verifyRestarts = 0

CheckVerification(p) == Enter(p) \/ Trigger(p) \/ Miss(p) \/ Look(p)

VerificationNext ==
  \/ \E p \in Payers : CheckVerification(p)
  \/ \E d \in deciding : Decide(d)
  \/ RestartVerify

VerificationSpec == VerificationInit /\ [][VerificationNext]_verificationVars
-----------------------------------------------------------------------------
\* "An actual DECLINE decision, once received, still blocks -- only not
\* hearing back is forgiven": a merchant every list at work while its gate was
\* passed declines is let through only when a request failed, the key is not
\* the service's, its id is the one the service refuses, or its last look came
\* before the decision; and nobody is held back whom no list declines, though
\* decisions of other gates, of earlier lists and of merchants with the same
\* hash are around (checkVerification, Engine.Trigger).
DeclineHolds ==
  \A v \in verdicts :
    /\ v.approved /\ (\A l \in v.lists : v.id \in l) =>
         v.failed \/ ~keyed \/ v.id = 0 \/ (v.looks = MaxPolls /\ ~v.ready)
    /\ ~v.approved => \E l \in v.lists : v.id \in l
=============================================================================
