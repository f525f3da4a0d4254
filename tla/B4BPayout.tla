------------------------------- MODULE B4BPayout -------------------------------
(***************************************************************************)
(* B4B's payouts (internal/b4b/payment.go), the state file they survive a  *)
(* restart in (internal/b4b/state.go), and the callbacks and the bridge to *)
(* Banking Circle that each transition starts (cmd/b4b).                   *)
(*                                                                         *)
(* One goroutine walks each payment through its states, Hops of them (five *)
(* in the code; the last is TMApproved, or Failed).  After each step, as   *)
(* after each change of the directory, it saves everything: it copies the  *)
(* directory, then the payments, opens and truncates state.json.tmp,       *)
(* writes it, and renames it to state.json.  Only the copying takes locks, *)
(* and all saves share the name of the temporary file, so saves of several *)
(* goroutines interleave.  The process may be killed at any moment.        *)
(***************************************************************************)
EXTENDS Naturals, Functions

CONSTANTS
  Payments,
  Failing,     \* the payments with ForceFail
  Companies,   \* stands for every change of the directory
  Hops,        \* the states a payment walks through
  Inodes,      \* bound: files that exist at one time
  MaxCrashes, \* bound
  DiskFails,   \* whether the disk may be full
  None,        \* no such file
  Empty,       \* contents that do not parse: nothing written yet,
  Garbled      \* or the bytes of two writers

ASSUME PayoutAssumption ==
  /\ Failing \subseteq Payments /\ Payments \cap Companies = {}
  /\ Hops \in Nat \ {0, 1} /\ Inodes \in Nat /\ MaxCrashes \in Nat
  /\ DiskFails \in BOOLEAN
  /\ None \notin Nat
  /\ Empty # Garbled
  /\ {Empty, Garbled} \cap [dir: SUBSET Companies, pay: [Payments -> Nat]] = {}

VARIABLES
  up,        \* the process is running
  state,     \* e.payments: how many states each payment has reached
  directory, \* the companies in memory
  walking,   \* the payments that have a goroutine in process()
  saver,     \* from the goroutines inside persist() to what they hold
  path, tmp, \* the inodes of state.json and state.json.tmp
  disk,      \* the contents of the inodes
  calls,     \* callback goroutines: a payment and the state it tells
  bridging,  \* goroutines about to call Banking Circle
  told,      \* how often the client was told each state of each payment
  bridged,   \* how many payments Banking Circle made for each of ours
  answered,  \* what was accepted and the client knows of
  crashes,
  alone      \* history: no save began while another ran, and none failed

memory == <<state, directory, walking>>
file == <<path, tmp, disk>>
outside == <<told, bridged, answered>>
vars == <<up, memory, saver, file, calls, bridging, outside, crashes, alone>>
-----------------------------------------------------------------------------
Owners == Payments \cup Companies
Level == 0..Hops  \* 0: not a payment yet

Contents == [dir: SUBSET Companies, pay: [Payments -> Level]]
Nothing == [dir |-> {}, pay |-> [p \in Payments |-> 0]]

\* The steps of persist() and SaveState, each named for what comes next.
Saver == [at: {"directory", "payments", "open", "write", "rename"},
          dir: SUBSET Companies, pay: [Payments -> Level], fd: 1..Inodes \cup {None}]

Approved(p) == state[p] = Hops /\ p \notin Failing
-----------------------------------------------------------------------------
(***************************************************************************)
(* Saving                                                                  *)
(***************************************************************************)

Starting == [at |-> "directory", dir |-> {}, pay |-> Nothing.pay, fd |-> None]

\* a is about to save.
Begin(a) ==
  /\ saver' = [x \in DOMAIN saver \cup {a} |->
                 IF x = a THEN Starting ELSE saver[x]]
  /\ alone' = (alone /\ DOMAIN saver = {})

At(a, step) == a \in DOMAIN saver /\ saver[a].at = step

CopyDirectory(a) ==
  /\ At(a, "directory")
  /\ saver' = [saver EXCEPT ![a].at = "payments", ![a].dir = directory]
  /\ UNCHANGED <<up, memory, file, calls, bridging, outside, crashes, alone>>

CopyPayments(a) ==
  /\ At(a, "payments")
  /\ saver' = [saver EXCEPT ![a].at = "open", ![a].pay = state]
  /\ UNCHANGED <<up, memory, file, calls, bridging, outside, crashes, alone>>

Open(s) == {s[a].fd : a \in {x \in DOMAIN s : s[x].at = "write"}}
InUse == Open(saver) \cup {path, tmp}

\* A file that has neither a name nor a writer is gone.
Kept(d) == [i \in 1..Inodes |-> IF i \in Open(saver') \cup {path', tmp'} THEN d[i] ELSE Empty]

\* Slip: the file itself is written, and renamed onto itself.
OpenInPlace(a, i) ==
  /\ At(a, "open")
  /\ IF path # None THEN i = path
     ELSE i \notin InUse /\ \A j \in 1..Inodes : j < i => j \in InUse
  /\ tmp' = i
  /\ disk' = [disk EXCEPT ![i] = Empty]
  /\ saver' = [saver EXCEPT ![a].at = "write", ![a].fd = i]
  /\ UNCHANGED <<up, memory, path, calls, bridging, outside, crashes, alone>>

\* os.WriteFile opens the temporary file and truncates what it finds.
OpenTmp(a, i) ==
  /\ At(a, "open")
  /\ IF tmp # None THEN i = tmp
     ELSE i \notin InUse /\ \A j \in 1..Inodes : j < i => j \in InUse
  /\ tmp' = i
  /\ disk' = [disk EXCEPT ![i] = Empty]
  /\ saver' = [saver EXCEPT ![a].at = "write", ![a].fd = i]
  /\ UNCHANGED <<up, memory, path, calls, bridging, outside, crashes, alone>>

\* A file in which another save has written meanwhile keeps that one's tail
\* if it was longer.
Write(a) ==
  LET i == saver[a].fd
      mine == [dir |-> saver[a].dir, pay |-> saver[a].pay]
  IN
  /\ At(a, "write")
  /\ saver' = [saver EXCEPT ![a].at = "rename", ![a].fd = None]
  /\ UNCHANGED <<up, memory, path, tmp, calls, bridging, outside, crashes, alone>>
  /\ \E c \in IF disk[i] \in {Empty, mine} THEN {mine} ELSE {mine, Garbled} :
       disk' = Kept([disk EXCEPT ![i] = c])

\* What the goroutine does once persist() has returned, however it ended:
\* onTransition starts the bridge or a callback, Submit starts the walk, and
\* the handlers answer.
AfterSave(a) ==
  /\ saver' = Restrict(saver, DOMAIN saver \ {a})
  /\ answered' = answered \cup {a}
  /\ bridging' = IF a \in Payments /\ Approved(a) THEN bridging \cup {a} ELSE bridging
  /\ calls' = IF a \in Payments /\ ~Approved(a) THEN calls \cup {<<a, state[a]>>} ELSE calls
  /\ walking' = IF a \in Payments /\ state[a] < Hops THEN walking \cup {a} ELSE walking \ {a}
  /\ UNCHANGED <<up, state, directory, told, bridged, crashes>>

\* The rename fails if another save has renamed the file already.
Rename(a) ==
  /\ At(a, "rename")
  /\ path' = IF tmp = None THEN path ELSE tmp
  /\ tmp' = None
  /\ AfterSave(a)
  /\ disk' = Kept(disk)
  /\ UNCHANGED alone

\* A full disk: the error is logged, and the payment goes on.
SaveFails(a) ==
  /\ DiskFails
  /\ At(a, "open") \/ At(a, "write")
  /\ alone' = FALSE
  /\ AfterSave(a)
  /\ UNCHANGED <<path, tmp>>
  /\ disk' = Kept(IF At(a, "write") THEN [disk EXCEPT ![saver[a].fd] = Garbled] ELSE disk)
-----------------------------------------------------------------------------
(***************************************************************************)
(* Payments and companies                                                  *)
(***************************************************************************)

\* A request that clears the gates; its id has not been used before.
Submit(p) ==
  /\ up /\ state[p] = 0 /\ p \notin answered
  /\ state' = [state EXCEPT ![p] = 1]
  /\ Begin(p)
  /\ UNCHANGED <<up, directory, walking, file, calls, bridging, outside, crashes>>

\* The walk of process(): the next state, or after the last of stateOrder
\* the terminal one.
Hop(p) ==
  /\ p \in walking /\ p \notin DOMAIN saver
  /\ state' = [state EXCEPT ![p] = IF @ < Hops THEN @ + 1 ELSE Hops]
  /\ Begin(p)
  /\ UNCHANGED <<up, directory, walking, file, calls, bridging, outside, crashes>>

\* CreateCompany, and whatever else calls OnChange.
Board(c) ==
  /\ up /\ c \notin directory \cup answered
  /\ directory' = directory \cup {c}
  /\ Begin(c)
  /\ UNCHANGED <<up, state, walking, file, calls, bridging, outside, crashes>>

\* Banking Circle makes a payment under a fresh id, or cannot be reached; the
\* callback follows in either case.
Bridge(p) ==
  /\ p \in bridging
  /\ bridging' = bridging \ {p}
  /\ bridged' \in {bridged, [bridged EXCEPT ![p] = @ + 1]}
  /\ calls' = calls \cup {<<p, Hops>>}
  /\ UNCHANGED <<up, memory, saver, file, told, answered, crashes, alone>>

\* The callback is delivered, by some attempt, or given up.
Callback(p, s) ==
  /\ <<p, s>> \in calls
  /\ calls' = calls \ {<<p, s>>}
  /\ told' \in {told, [told EXCEPT ![p][s] = @ + 1]}
  /\ UNCHANGED <<up, memory, saver, file, bridging, bridged, answered, crashes, alone>>
-----------------------------------------------------------------------------
(***************************************************************************)
(* Death and restart                                                       *)
(***************************************************************************)
\* The process is killed: memory goes, files stay.
Crash ==
  /\ up /\ crashes < MaxCrashes
  /\ up' = FALSE /\ crashes' = crashes + 1
  /\ state' = Nothing.pay /\ directory' = {} /\ walking' = {}
  /\ saver' = <<>> /\ calls' = {} /\ bridging' = {}
  /\ UNCHANGED <<path, tmp, outside, alone>>
  /\ disk' = Kept(disk)

OnFile == IF path = None THEN Nothing ELSE disk[path]

\* Slip: terminal payments are resumed as well.
RestartAll ==
  /\ ~up /\ OnFile \notin {Empty, Garbled}
  /\ up' = TRUE
  /\ state' = OnFile.pay /\ directory' = OnFile.dir
  /\ walking' = {p \in Payments : OnFile.pay[p] > 0}
  /\ UNCHANGED <<saver, file, calls, bridging, outside, crashes, alone>>

\* Slip: nothing is resumed.
RestartIdle ==
  /\ ~up /\ OnFile \notin {Empty, Garbled}
  /\ up' = TRUE
  /\ state' = OnFile.pay /\ directory' = OnFile.dir
  /\ walking' = {}
  /\ UNCHANGED <<saver, file, calls, bridging, outside, crashes, alone>>

\* A file that does not parse stops the service for good.
Restart ==
  /\ ~up /\ OnFile \notin {Empty, Garbled}
  /\ up' = TRUE
  /\ state' = OnFile.pay /\ directory' = OnFile.dir
  /\ walking' = {p \in Payments : OnFile.pay[p] \in 1..(Hops - 1)}
  /\ UNCHANGED <<saver, file, calls, bridging, outside, crashes, alone>>
-----------------------------------------------------------------------------
Init ==
  /\ up = TRUE
  /\ state = Nothing.pay /\ directory = {} /\ walking = {}
  /\ saver = <<>>
  /\ path = None /\ tmp = None /\ disk = [i \in 1..Inodes |-> Empty]
  /\ calls = {} /\ bridging = {}
  /\ told = [p \in Payments |-> [s \in 1..Hops |-> 0]]
  /\ bridged = [p \in Payments |-> 0]
  /\ answered = {} /\ crashes = 0 /\ alone = TRUE

Saves(a) ==
  \/ CopyDirectory(a) \/ CopyPayments(a) \/ Write(a) \/ Rename(a)
  \/ \E i \in 1..Inodes : OpenTmp(a, i)

Next ==
  \/ \E p \in Payments : Submit(p) \/ Hop(p) \/ Bridge(p)
  \/ \E p \in Payments, s \in 1..Hops : Callback(p, s)
  \/ \E c \in Companies : Board(c)
  \/ \E a \in Owners : Saves(a) \/ SaveFails(a)
  \/ Crash \/ Restart

\* Goroutines run and sleeps end; the service is started again.
Fairness ==
  /\ \A p \in Payments : WF_vars(Hop(p)) /\ WF_vars(Bridge(p))
  /\ \A p \in Payments, s \in 1..Hops : WF_vars(Callback(p, s))
  /\ \A a \in Owners : WF_vars(Saves(a))
  /\ WF_vars(Restart)

Spec == Init /\ [][Next]_vars
FairSpec == Spec /\ Fairness
-----------------------------------------------------------------------------
(***************************************************************************)
(* Properties                                                              *)
(***************************************************************************)

\* Every variable has its type, nothing runs while the process is down, who
\* saves has something to save, and a goroutine that walks a payment has a
\* state left to reach or to save.
TypeOK ==
  /\ up \in BOOLEAN /\ alone \in BOOLEAN /\ crashes \in 0..MaxCrashes
  /\ state \in [Payments -> Level] /\ directory \subseteq Companies
  /\ walking \subseteq {p \in Payments : state[p] \in 1..(Hops - 1) \/ p \in DOMAIN saver}
  /\ DOMAIN saver \subseteq Owners
  /\ \A a \in DOMAIN saver : /\ saver[a] \in Saver
                             /\ a \in Payments => state[a] > 0
                             /\ a \in Companies => a \in directory
  /\ {path, tmp} \subseteq 1..Inodes \cup {None}
  /\ disk \in [1..Inodes -> Contents \cup {Empty, Garbled}]
  /\ calls \subseteq Payments \X (1..Hops) /\ bridging \subseteq Payments
  /\ told \in [Payments -> [1..Hops -> Nat]] /\ bridged \in [Payments -> Nat]
  /\ answered \subseteq Owners
  /\ ~up => (DOMAIN saver = {} /\ walking = {} /\ calls = {} /\ bridging = {})

\* The client was told of state s of payment p, or Banking Circle was.
Seen(p, s) == told[p][s] > 0 \/ (s = Hops /\ bridged[p] > 0)

\* A restart finds whatever anybody outside was told: the file parses, it has
\* each company and payment that was accepted, and no payment is earlier in
\* its life there, nor when it is read instead of a callback that was missed,
\* than a callback or the bridge has said.
AnsweredIsKept ==
  alone =>
    /\ OnFile \notin {Empty, Garbled}
    /\ answered \cap Companies \subseteq OnFile.dir
    /\ \A p \in answered \cap Payments : OnFile.pay[p] > 0
    /\ \A p \in Payments, s \in 1..Hops : Seen(p, s) => OnFile.pay[p] >= s /\ (up => state[p] >= s)

\* No payment is paid twice and no state told twice, whatever the crashes.
NothingRepeated ==
  alone => \A p \in Payments : bridged[p] <= 1 /\ \A s \in 1..Hops : told[p][s] <= 1

\* A payment that was accepted comes to its end, crashes or not.  An approval
\* goes on to the bridge and to the client, failed saves and overlapping ones
\* included; only a crash on the way stops it.
PayoutsEnd ==
  \A p \in Payments :
    /\ (p \in answered /\ alone) ~> (state[p] = Hops \/ ~alone)
    /\ (p \in DOMAIN saver /\ Approved(p)) ~> (<<p, Hops>> \in calls \/ ~up)
=============================================================================
