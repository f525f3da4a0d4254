----------------------------- MODULE EnrolmentDesk -----------------------------
(***************************************************************************)
(* Worldline's boarding desk (cmd/worldline/enrolment.go): a platform      *)
(* uploads a batch of submerchants over SFTP, a sweep of the inbox reads   *)
(* it some time later, decides about each and puts a receipt where the     *)
(* platform polls.  An operator arms rejections beforehand, or has the     *)
(* inbox processed at once, beside the sweep.                              *)
(*                                                                         *)
(* A file's name stays with its contents through an inode, as two clerks   *)
(* at work on one batch write the same temporary file.  "The sweep" and    *)
(* each operator's request is a clerk here.                                *)
(***************************************************************************)
EXTENDS Integers, Sequences, FiniteSets, FiniteSetsExt

CONSTANTS
  Clerks, Sweep,   \* those that process the inbox; the sweep is one
  Names,           \* names a batch may have: numbers, as the inbox is sorted
  Outlets,         \* pf_account_ids
  Contents,        \* what is uploaded: [subs], outlets and blanks, or Garbage
  Blank, None,
  Mid,             \* ProxyMIDFor: a checksum of the outlet
  Codes, Unknown,  \* rejection codes, those the platform knows; one it does not
  MaxUploads, MaxRequests, MaxFaults, MaxDeskRestarts \* bounds

ASSUME EnrolmentDeskAssumption ==
  /\ IsFiniteSet(Clerks) /\ Sweep \in Clerks /\ Names \subseteq Nat
  /\ Blank \notin Outlets
  /\ Unknown \notin Codes /\ "03" \in Codes
  /\ {MaxUploads, MaxRequests, MaxFaults, MaxDeskRestarts} \subseteq Nat

VARIABLES
  inbox,        \* to_WLNORDIC: from names to [text, goal, due]
  seen,         \* d.seen: batches that are done with
  rejects,      \* d.rejects: from outlets to codes
  clerk,        \* what each clerk is at
  inodes,       \* the receipts' files, whole or Half
  partial, out, \* from_WLNORDIC: inodes under the temporary name and the final
  sent,         \* history: what was uploaded under each name
  spoiled,      \* history: batches a clerk failed at
  written,      \* history: how often each batch's receipt took its final name
  met,          \* history: batches two clerks were at, or one after a restart
  faults, uploads, requests, deskRestarts \* for the bounds

files == <<inodes, partial, out>>
deskBounds == <<faults, uploads, requests, deskRestarts>>
history == <<sent, spoiled, written, met>>
deskVars == <<inbox, seen, rejects, clerk, files, history, deskBounds>>
-----------------------------------------------------------------------------
Half == [half |-> TRUE]
Garbage == [garbage |-> TRUE]

Idle == [step |-> "idle", names |-> {}, text |-> None, receipt |-> None, inode |-> 0]

NoRejects == [o \in {} |-> ""]

\* charsetReader and decrypt leave a text that parses as it was, encrypted or
\* plain.  An empty batch is refused.
Legible(text) == text # Half /\ text # Garbage /\ text.subs # <<>>

\* The places of a batch's outlets, but for those without a reference.
Handles(text) == {i \in DOMAIN text.subs : text.subs[i] # Blank}

\* BuildReceipt: an outlet without a reference is passed over, one that was
\* armed is refused, with a code the platform can describe.  Each keeps its
\* place in the batch.
BuildReceipt(text, armed) ==
  LET no == {i \in Handles(text) : text.subs[i] \in DOMAIN armed}
  IN  [approvals |-> [i \in Handles(text) \ no |->
                        [outlet |-> text.subs[i], mid |-> Mid[text.subs[i]]]],
       rejections |-> [i \in no |->
                         [outlet |-> text.subs[i],
                          code |-> IF armed[text.subs[i]] \in Codes THEN armed[text.subs[i]] ELSE "03"]]]
-----------------------------------------------------------------------------
(***************************************************************************)
(* The platform and the operator                                           *)
(***************************************************************************)

\* An upload is seen in the inbox before it is whole.
BeginUpload(n, b) ==
  /\ uploads < MaxUploads /\ uploads' = uploads + 1
  /\ inbox' = [m \in DOMAIN inbox \cup {n} |->
                 IF m = n THEN [text |-> Half, goal |-> b, due |-> FALSE] ELSE inbox[m]]
  /\ UNCHANGED <<seen, rejects, clerk, files, history, faults, requests, deskRestarts>>

EndUpload(n) ==
  /\ n \in DOMAIN inbox /\ inbox[n].text = Half
  /\ inbox' = [inbox EXCEPT ![n] = [text |-> @.goal, goal |-> @.goal, due |-> FALSE]]
  /\ sent' = [sent EXCEPT ![n] = @ \cup {inbox[n].goal}]
  /\ UNCHANGED <<seen, rejects, clerk, files, spoiled, written, met, deskBounds>>

\* The delay since the file's last change is over.
FallDue(n) ==
  /\ n \in DOMAIN inbox /\ ~inbox[n].due
  /\ inbox' = [inbox EXCEPT ![n].due = TRUE]
  /\ UNCHANGED <<seen, rejects, clerk, files, history, deskBounds>>

\* armRejection: a code that is not known is refused.
Arm(o, code) ==
  /\ code \in Codes
  /\ rejects' = [x \in DOMAIN rejects \cup {o} |-> IF x = o THEN code ELSE rejects[x]]
  /\ UNCHANGED <<inbox, seen, clerk, files, history, deskBounds>>
-----------------------------------------------------------------------------
(***************************************************************************)
(* A clerk                                                                 *)
(***************************************************************************)

\* pending: in the order of their names.
Pending == DOMAIN inbox \ seen

\* process begins: the sweep again and again, an operator's request once.
List(c) ==
  /\ clerk[c].step = "idle"
  /\ IF c = Sweep THEN UNCHANGED requests ELSE requests < MaxRequests /\ requests' = requests + 1
  /\ Pending # {}
  /\ clerk' = [clerk EXCEPT ![c] = [Idle EXCEPT !.step = "next", !.names = Pending]]
  /\ UNCHANGED <<inbox, seen, rejects, files, history, faults, uploads, deskRestarts>>

Batch0(c) == Min(clerk[c].names)

To(c, step) == [clerk EXCEPT ![c].step = step]

\* The clerk goes on to its next batch.
OnFrom(c) ==
  [clerk EXCEPT ![c] = [Idle EXCEPT !.step = "next", !.names = clerk[c].names \ {Batch0(c)}]]

\* The sweep passes over a batch whose delay is not over.
Pass(c) ==
  /\ clerk[c].step = "next"
  /\ IF clerk[c].names = {} THEN clerk' = [clerk EXCEPT ![c] = Idle]
     ELSE /\ c = Sweep /\ ~inbox[Batch0(c)].due
          /\ clerk' = OnFrom(c)
  /\ UNCHANGED <<inbox, seen, rejects, files, history, deskBounds>>

AtWork(c) == clerk[c].step \notin {"idle", "next"}

Meets(c) ==
  IF \/ Batch0(c) \in seen \/ written[Batch0(c)] > 0
     \/ \E d \in Clerks \ {c} : AtWork(d) /\ Batch0(d) = Batch0(c)
  THEN met \cup {Batch0(c)} ELSE met

\* Slip: one batch that cannot be answered stops the rest.
FailAndStop(c) ==
  /\ clerk' = [clerk EXCEPT ![c] = Idle]
  /\ spoiled' = spoiled \cup {Batch0(c)}
  /\ UNCHANGED seen

\* Whatever went wrong, the batch counts as done with.
Fail(c) ==
  /\ clerk' = OnFrom(c)
  /\ spoiled' = spoiled \cup {Batch0(c)}
  /\ seen' = seen \cup {Batch0(c)}

\* answer begins: the batch is read, decrypted and parsed.
ReadBatch(c) ==
  /\ clerk[c].step = "next" /\ clerk[c].names # {}
  /\ c = Sweep => inbox[Batch0(c)].due
  /\ met' = Meets(c)
  /\ IF Legible(inbox[Batch0(c)].text)
     THEN /\ clerk' = [clerk EXCEPT ![c].step = "open", ![c].text = inbox[Batch0(c)].text]
          /\ UNCHANGED <<seen, spoiled>>
     ELSE Fail(c)
  /\ UNCHANGED <<inbox, rejects, files, sent, written, deskBounds>>

\* WriteFile opens a file and empties it, or makes one.
Emptied(i) == [j \in DOMAIN inodes \cup {i} |-> IF j = i THEN Half ELSE inodes[j]]
NewInode == Cardinality(DOMAIN inodes) + 1

\* Slip: no temporary name.
OpenInPlace(c) ==
  /\ clerk[c].step = "open"
  /\ inodes' = Emptied(NewInode)
  /\ partial' = [partial EXCEPT ![Batch0(c)] = NewInode]
  /\ out' = [out EXCEPT ![Batch0(c)] = NewInode]
  /\ clerk' = [clerk EXCEPT ![c].step = "write", ![c].inode = NewInode,
                            ![c].receipt = BuildReceipt(clerk[c].text, rejects)]
  /\ UNCHANGED <<inbox, seen, rejects, history, deskBounds>>

\* The rejections armed by now count.  The temporary file may be another
\* clerk's.
Open(c) ==
  /\ clerk[c].step = "open"
  /\ LET i == IF partial[Batch0(c)] = 0 THEN NewInode ELSE partial[Batch0(c)]
     IN  /\ inodes' = Emptied(i)
         /\ partial' = [partial EXCEPT ![Batch0(c)] = i]
         /\ clerk' = [clerk EXCEPT ![c].step = "write", ![c].inode = i,
                                   ![c].receipt = BuildReceipt(clerk[c].text, rejects)]
  /\ UNCHANGED <<inbox, seen, rejects, out, history, deskBounds>>

\* And fills it, unless the disk does not hold it.
Write(c) ==
  /\ clerk[c].step = "write"
  /\ \/ /\ inodes' = [inodes EXCEPT ![clerk[c].inode] = clerk[c].receipt]
        /\ clerk' = To(c, "rename")
        /\ UNCHANGED <<seen, spoiled, faults>>
     \/ /\ faults < MaxFaults /\ faults' = faults + 1
        /\ Fail(c)
        /\ UNCHANGED inodes
  /\ UNCHANGED <<inbox, rejects, partial, out, sent, written, met, uploads, requests, deskRestarts>>

\* Rename fails when another clerk has taken the temporary name away.
Rename(c) ==
  /\ clerk[c].step = "rename"
  /\ IF partial[Batch0(c)] = 0
     THEN Fail(c) /\ UNCHANGED <<partial, out, written>>
     ELSE /\ out' = [out EXCEPT ![Batch0(c)] = partial[Batch0(c)]]
          /\ partial' = [partial EXCEPT ![Batch0(c)] = 0]
          /\ written' = [written EXCEPT ![Batch0(c)] = @ + 1]
          /\ clerk' = To(c, "mark")
          /\ UNCHANGED <<seen, spoiled>>
  /\ UNCHANGED <<inbox, rejects, inodes, sent, met, deskBounds>>

Mark(c) ==
  /\ clerk[c].step = "mark"
  /\ seen' = seen \cup {Batch0(c)}
  /\ clerk' = OnFrom(c)
  /\ UNCHANGED <<inbox, rejects, files, history, deskBounds>>

Answer(c) == ReadBatch(c) \/ Open(c) \/ Write(c) \/ Rename(c) \/ Mark(c)

\* The desk's memory goes with the process, the files stay as they are.
RestartDesk ==
  /\ deskRestarts < MaxDeskRestarts /\ deskRestarts' = deskRestarts + 1
  /\ seen' = {} /\ rejects' = NoRejects
  /\ clerk' = [c \in Clerks |-> Idle]
  /\ UNCHANGED <<inbox, files, history, faults, uploads, requests>>
-----------------------------------------------------------------------------
DeskInit ==
  /\ inbox = [n \in {} |-> None]
  /\ seen = {} /\ rejects = NoRejects
  /\ clerk = [c \in Clerks |-> Idle]
  /\ inodes = [i \in {} |-> Half] /\ partial = [n \in Names |-> 0] /\ out = [n \in Names |-> 0]
  /\ sent = [n \in Names |-> {}] /\ spoiled = {} /\ met = {}
  /\ written = [n \in Names |-> 0]
  /\ faults = 0 /\ uploads = 0 /\ requests = 0 /\ deskRestarts = 0

Work(c) == List(c) \/ Pass(c) \/ Answer(c)

DeskNext ==
  \/ \E n \in Names : (\E b \in Contents : BeginUpload(n, b)) \/ EndUpload(n) \/ FallDue(n)
  \/ \E o \in Outlets, code \in Codes \cup {Unknown} : Arm(o, code)
  \/ \E c \in Clerks : Work(c)
  \/ RestartDesk

\* Time passes and the sweep goes on; nobody else has to do a thing.
DeskFairness ==
  /\ \A n \in Names : WF_deskVars(FallDue(n))
  /\ WF_deskVars(Work(Sweep))

DeskSpec == DeskInit /\ [][DeskNext]_deskVars /\ DeskFairness
-----------------------------------------------------------------------------
Receipts == {n \in Names : out[n] # 0}

\* Of each outlet of batch b, at its place, receipt r tells one thing.
Answers(r, b) ==
  /\ DOMAIN r.approvals \cup DOMAIN r.rejections = Handles(b)
  /\ DOMAIN r.approvals \cap DOMAIN r.rejections = {}
  /\ \A i \in DOMAIN r.approvals :
       r.approvals[i].outlet = b.subs[i] /\ r.approvals[i].mid = Mid[b.subs[i]]
  /\ \A i \in DOMAIN r.rejections :
       r.rejections[i].outlet = b.subs[i] /\ r.rejections[i].code \in Codes

\* A receipt the platform collects speaks of a batch it uploaded under that
\* name: of each outlet with a reference exactly once, boarded under its own
\* MID or refused with a code the platform knows, whatever was uploaded in
\* its place, armed or processed beside.  It may be half-written only when
\* two clerks were at the batch (answer).  "So a receipt is written once": a
\* batch is answered once more for each restart and for each operator's
\* request at most, and only by those that were at it together with another
\* clerk or after one (seen, process).
ReceiptsAnswer ==
  /\ \A n \in Names :
       written[n] <= 1 + deskRestarts + requests /\ (written[n] > 1 => n \in met)
  /\ \A n \in Receipts :
       \/ inodes[out[n]] = Half /\ n \in met
       \/ /\ inodes[out[n]] # Half
          /\ \E b \in sent[n] \ {Garbage} : Answers(inodes[out[n]], b)

\* A batch that came whole and legible gets its receipt, malformed neighbours
\* notwithstanding, unless a clerk failed at it: what failed once is never
\* tried again (process).
LegibleIsAnswered ==
  \A n \in Names :
    (n \in DOMAIN inbox /\ Legible(inbox[n].text)) ~> (out[n] # 0 \/ n \in spoiled)
=============================================================================
