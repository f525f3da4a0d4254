---------------------------- MODULE B4BPayoutProofs ----------------------------
(***************************************************************************)
(* Theorems about B4BPayout.                                               *)
(***************************************************************************)
EXTENDS B4BPayout, TLAPS

\* The part of TypeOK about goroutines that save, and the rest of it.
SaverOK ==
  /\ DOMAIN saver \subseteq Owners
  /\ \A a \in DOMAIN saver : saver[a] \in Saver

SavesSomething ==
  \A a \in DOMAIN saver : /\ a \in Payments => state[a] > 0
                          /\ a \in Companies => a \in directory

FileOK ==
  /\ {path, tmp} \subseteq 1..Inodes \cup {None}
  /\ disk \in [1..Inodes -> Contents \cup {Empty, Garbled}]

MemoryOK ==
  /\ up \in BOOLEAN /\ alone \in BOOLEAN /\ crashes \in 0..MaxCrashes
  /\ state \in [Payments -> Level] /\ directory \subseteq Companies
  /\ walking \subseteq {p \in Payments : state[p] \in 1..(Hops - 1) \/ p \in DOMAIN saver}
  /\ ~up => (DOMAIN saver = {} /\ walking = {} /\ calls = {} /\ bridging = {})

OutsideOK ==
  /\ calls \subseteq Payments \X (1..Hops) /\ bridging \subseteq Payments
  /\ told \in [Payments -> [1..Hops -> Nat]] /\ bridged \in [Payments -> Nat]
  /\ answered \subseteq Owners

LEMMA TypeParts == TypeOK <=> SaverOK /\ SavesSomething /\ FileOK /\ MemoryOK /\ OutsideOK
  BY DEF TypeOK, SaverOK, SavesSomething, FileOK, MemoryOK, OutsideOK

\* How saver changes: a save starts, moves on, or ends.
LEMMA BeginShape ==
  ASSUME NEW a, Begin(a)
  PROVE  /\ DOMAIN saver' = DOMAIN saver \cup {a}
         /\ saver'[a] = Starting
         /\ \A x \in DOMAIN saver : x # a => saver'[x] = saver[x]
         /\ alone' \in BOOLEAN
         /\ alone' => alone /\ DOMAIN saver = {}
  BY DEF Begin

LEMMA AfterSaveShape ==
  ASSUME NEW a, AfterSave(a)
  PROVE  /\ DOMAIN saver' = DOMAIN saver \ {a}
         /\ \A x \in DOMAIN saver' : saver'[x] = saver[x]
  BY DEF AfterSave, Restrict

Moves(a) ==
  /\ a \in DOMAIN saver /\ DOMAIN saver' = DOMAIN saver
  /\ \A x \in DOMAIN saver : x # a => saver'[x] = saver[x]

LEMMA MovesShape ==
  ASSUME NEW a, SaverOK,
         \/ CopyDirectory(a) \/ CopyPayments(a) \/ Write(a)
         \/ \E i \in 1..Inodes : OpenTmp(a, i)
  PROVE  Moves(a)
  BY DEF Moves, CopyDirectory, CopyPayments, Write, OpenTmp, At

LEMMA MovedTyped ==
  ASSUME NEW a, SaverOK, FileOK, MemoryOK,
         \/ CopyDirectory(a) \/ CopyPayments(a) \/ Write(a)
         \/ \E i \in 1..Inodes : OpenTmp(a, i)
  PROVE  saver'[a] \in Saver
<1> PICK r : r = saver[a]
  OBVIOUS
<1> USE DEF SaverOK, MemoryOK, At, Saver
<1>1. CASE CopyDirectory(a)
  BY <1>1 DEF CopyDirectory
<1>2. CASE CopyPayments(a)
  BY <1>2 DEF CopyPayments
<1>3. CASE Write(a)
  BY <1>3 DEF Write
<1>4. ASSUME NEW i \in 1..Inodes, OpenTmp(a, i) PROVE saver'[a] \in Saver
  <2>1. saver' = [saver EXCEPT ![a].at = "write", ![a].fd = i] /\ a \in DOMAIN saver
    BY <1>4 DEF OpenTmp
  <2> QED
    BY <2>1
<1> QED
  BY <1>1, <1>2, <1>3, <1>4

LEMMA SaverMoves ==
  ASSUME NEW a, SaverOK, SavesSomething, Moves(a), saver'[a] \in Saver,
         UNCHANGED <<state, directory>>
  PROVE  SaverOK' /\ SavesSomething'
  BY DEF SaverOK, SavesSomething, Moves

LEMMA SaverBegins ==
  ASSUME NEW a \in Owners, SaverOK, SavesSomething, Begin(a),
         \A p \in Payments : state[p] > 0 => state'[p] > 0,
         directory \subseteq directory',
         a \in Payments => state'[a] > 0, a \in Companies => a \in directory'
  PROVE  SaverOK' /\ SavesSomething'
<1>1. Starting \in Saver
  BY PayoutAssumption DEF Starting, Saver, Nothing, Level
<1> HIDE DEF Starting, Saver
<1> QED
  <2>0. DOMAIN saver' = DOMAIN saver \cup {a} /\ \A x \in DOMAIN saver : x # a => saver'[x] = saver[x]
    BY BeginShape, ZenonT(20)
  <2>1. \A x \in DOMAIN saver' : x = a \/ (x \in DOMAIN saver /\ saver'[x] = saver[x])
    BY <2>0
  <2>2. SaverOK'
    BY <1>1, <2>1, BeginShape DEF SaverOK
  <2> QED
    BY <2>1, <2>2 DEF SavesSomething

LEMMA KeptTyped ==
  ASSUME NEW d \in [1..Inodes -> Contents \cup {Empty, Garbled}]
  PROVE  Kept(d) \in [1..Inodes -> Contents \cup {Empty, Garbled}]
  BY DEF Kept

LEMMA OnFileTyped == FileOK => OnFile \in Contents \cup {Empty, Garbled}
  BY PayoutAssumption DEF FileOK, OnFile, Nothing, Contents, Level

\* The variables keep their types whatever happens, crashes and full disks
\* included.
THEOREM PayoutTypeCorrect == Spec => []TypeOK
<1>1. Init => TypeOK
  BY PayoutAssumption DEF Init, TypeOK, Nothing, Contents, Level
<1>2. TypeOK /\ [Next]_vars => TypeOK'
  <2> SUFFICES ASSUME SaverOK, SavesSomething, FileOK, MemoryOK, OutsideOK, [Next]_vars
               PROVE  /\ SaverOK' /\ SavesSomething' /\ FileOK'
                      /\ MemoryOK' /\ OutsideOK'
    BY TypeParts, PTL
  <2> USE PayoutAssumption
  <2>1. ASSUME NEW p \in Payments, Submit(p)
        PROVE  SaverOK' /\ SavesSomething' /\ FileOK' /\ MemoryOK' /\ OutsideOK'
    <3>1. p \in Owners /\ Begin(p) /\ UNCHANGED <<up, directory, walking, file, calls, bridging, outside, crashes>>
      BY <2>1 DEF Submit, Owners
    <3>2. state' = [state EXCEPT ![p] = 1] /\ up /\ state[p] = 0
      BY <2>1 DEF Submit
    <3>3. state' \in [Payments -> Level] /\ state'[p] = 1
      BY <3>2 DEF MemoryOK, Level
    <3>4. SaverOK' /\ SavesSomething'
      BY <3>1, <3>2, <3>3, SaverBegins DEF MemoryOK
    <3> QED
      <4>1. DOMAIN saver' = DOMAIN saver \cup {p} /\ alone' \in BOOLEAN /\ p \in DOMAIN saver'
        BY <3>1, BeginShape, ZenonT(40)
      <4>2. \A q \in Payments : q # p => state'[q] = state[q]
        BY <3>2 DEF MemoryOK
      <4>3. walking' \subseteq {q \in Payments : state'[q] \in 1..(Hops - 1) \/ q \in DOMAIN saver'}
        BY <3>1, <4>1, <4>2 DEF MemoryOK
      <4>4. MemoryOK'
        BY <3>1, <3>2, <3>3, <4>1, <4>3 DEF MemoryOK
      <4> QED
        BY <3>4, <3>1, <4>4 DEF FileOK, OutsideOK, file, outside
  <2>2. ASSUME NEW p \in Payments, Hop(p)
        PROVE  SaverOK' /\ SavesSomething' /\ FileOK' /\ MemoryOK' /\ OutsideOK'
    <3>1. p \in Owners /\ Begin(p) /\ UNCHANGED <<up, directory, walking, file, calls, bridging, outside, crashes>>
      BY <2>2 DEF Hop, Owners
    <3>2. p \in walking /\ p \notin DOMAIN saver /\ state[p] \in 1..(Hops - 1)
      BY <2>2 DEF Hop, MemoryOK
    <3>3. state' = [state EXCEPT ![p] = state[p] + 1]
      <4>1. state[p] < Hops
        BY <3>2
      <4> QED
        BY <2>2, <4>1 DEF Hop, MemoryOK
    <3>4. state' \in [Payments -> Level] /\ state'[p] > 0
      BY <3>2, <3>3 DEF MemoryOK, Level
    <3>5. SaverOK' /\ SavesSomething'
      BY <3>1, <3>3, <3>4, SaverBegins DEF MemoryOK
    <3> QED
      <4>1. DOMAIN saver' = DOMAIN saver \cup {p} /\ alone' \in BOOLEAN /\ p \in DOMAIN saver'
        BY <3>1, BeginShape, ZenonT(40)
      <4>2. \A q \in Payments : q # p => state'[q] = state[q]
        BY <3>3 DEF MemoryOK
      <4>3. walking' \subseteq {q \in Payments : state'[q] \in 1..(Hops - 1) \/ q \in DOMAIN saver'}
        BY <3>1, <4>1, <4>2 DEF MemoryOK
      <4>4. MemoryOK'
        BY <3>1, <3>2, <3>4, <4>1, <4>3 DEF MemoryOK
      <4> QED
        BY <3>5, <3>1, <4>4 DEF FileOK, OutsideOK, file, outside
  <2>3. ASSUME NEW p \in Payments, Bridge(p)
        PROVE  SaverOK' /\ SavesSomething' /\ FileOK' /\ MemoryOK' /\ OutsideOK'
    <3>1. bridged' \in [Payments -> Nat] /\ calls' \subseteq Payments \X (1..Hops)
      <4>1. <<p, Hops>> \in Payments \X (1..Hops)
        OBVIOUS
      <4>2. [bridged EXCEPT ![p] = bridged[p] + 1] \in [Payments -> Nat]
        BY DEF OutsideOK
      <4> QED
        BY <2>3, <4>1, <4>2 DEF Bridge, OutsideOK
    <3> QED
      BY <2>3, <3>1
      DEF Bridge, SaverOK, SavesSomething, FileOK, MemoryOK, OutsideOK, memory, file
  <2>4. ASSUME NEW p \in Payments, NEW s \in 1..Hops, Callback(p, s)
        PROVE  SaverOK' /\ SavesSomething' /\ FileOK' /\ MemoryOK' /\ OutsideOK'
    <3>1. told' \in [Payments -> [1..Hops -> Nat]]
      <4>1. told[p] \in [1..Hops -> Nat]
        BY DEF OutsideOK
      <4>2. [told EXCEPT ![p] = [told[p] EXCEPT ![s] = told[p][s] + 1]] \in [Payments -> [1..Hops -> Nat]]
        BY <4>1 DEF OutsideOK
      <4> QED
        BY <2>4, <4>2 DEF Callback, OutsideOK
    <3> QED
      BY <2>4, <3>1
      DEF Callback, SaverOK, SavesSomething, FileOK, MemoryOK, OutsideOK, memory, file
  <2>5. ASSUME NEW c \in Companies, Board(c)
        PROVE  SaverOK' /\ SavesSomething' /\ FileOK' /\ MemoryOK' /\ OutsideOK'
    <3>1. c \in Owners /\ Begin(c) /\ UNCHANGED <<up, state, walking, file, calls, bridging, outside, crashes>>
      BY <2>5 DEF Board, Owners
    <3>2. directory' = directory \cup {c} /\ up
      BY <2>5 DEF Board
    <3>3. SaverOK' /\ SavesSomething'
      BY <3>1, <3>2, SaverBegins
    <3> QED
      BY <3>1, <3>2, <3>3, BeginShape DEF FileOK, MemoryOK, OutsideOK, file, outside
  <2>6. ASSUME NEW a \in Owners, CopyDirectory(a)
        PROVE  SaverOK' /\ SavesSomething' /\ FileOK' /\ MemoryOK' /\ OutsideOK'
    <3>1. Moves(a) /\ saver'[a] \in Saver
      BY <2>6, MovesShape, MovedTyped
    <3>2. UNCHANGED <<up, memory, file, calls, bridging, outside, crashes, alone>>
      BY <2>6 DEF CopyDirectory
    <3> QED
      BY <3>1, <3>2, SaverMoves DEF Moves, FileOK, MemoryOK, OutsideOK, memory, file, outside
  <2>7. ASSUME NEW a \in Owners, CopyPayments(a)
        PROVE  SaverOK' /\ SavesSomething' /\ FileOK' /\ MemoryOK' /\ OutsideOK'
    <3>1. Moves(a) /\ saver'[a] \in Saver
      BY <2>7, MovesShape, MovedTyped
    <3>2. UNCHANGED <<up, memory, file, calls, bridging, outside, crashes, alone>>
      BY <2>7 DEF CopyPayments
    <3> QED
      BY <3>1, <3>2, SaverMoves DEF Moves, FileOK, MemoryOK, OutsideOK, memory, file, outside
  <2>8. ASSUME NEW a \in Owners, NEW i \in 1..Inodes, OpenTmp(a, i)
        PROVE  SaverOK' /\ SavesSomething' /\ FileOK' /\ MemoryOK' /\ OutsideOK'
    <3>1. Moves(a) /\ saver'[a] \in Saver
      BY <2>8, MovesShape, MovedTyped
    <3>2. /\ UNCHANGED <<up, memory, path, calls, bridging, outside, crashes, alone>>
          /\ tmp' = i /\ disk' = [disk EXCEPT ![i] = Empty]
      BY <2>8 DEF OpenTmp
    <3> QED
      BY <3>1, <3>2, SaverMoves DEF Moves, FileOK, MemoryOK, OutsideOK, memory, outside
  <2>9. ASSUME NEW a \in Owners, Write(a)
        PROVE  SaverOK' /\ SavesSomething' /\ FileOK' /\ MemoryOK' /\ OutsideOK'
    <3>1. Moves(a) /\ saver'[a] \in Saver
      BY <2>9, MovesShape, MovedTyped
    <3>2. UNCHANGED <<up, memory, path, tmp, calls, bridging, outside, crashes, alone>>
      BY <2>9 DEF Write
    <3>3. [dir |-> saver[a].dir, pay |-> saver[a].pay] \in Contents
      BY <2>9 DEF Write, At, SaverOK, Saver, Contents
    <3>4. PICK c \in Contents \cup {Empty, Garbled} :
            disk' = Kept([disk EXCEPT ![saver[a].fd] = c])
      BY <2>9, <3>3 DEF Write
    <3>5. FileOK'
      BY <3>2, <3>4, KeptTyped DEF FileOK
    <3> QED
      BY <3>1, <3>2, <3>5, SaverMoves DEF Moves, MemoryOK, OutsideOK, memory, outside
  <2>10. ASSUME NEW a \in Owners, AfterSave(a), a \in DOMAIN saver, alone' \in BOOLEAN
         PROVE  SaverOK' /\ SavesSomething' /\ MemoryOK' /\ OutsideOK'
    <3>1. SaverOK' /\ SavesSomething'
      BY <2>10, AfterSaveShape DEF AfterSave, SaverOK, SavesSomething
    <3>2. up /\ (a \in Payments => state[a] \in 1..Hops)
      BY <2>10 DEF MemoryOK, SavesSomething, Level
    <3>3. MemoryOK'
      <4>1. walking' \subseteq {p \in Payments : state'[p] \in 1..(Hops - 1) \/ p \in DOMAIN saver'}
        <5>1. UNCHANGED state /\ walking' \subseteq walking \cup {a}
          BY <2>10 DEF AfterSave
        <5>2. a \in walking' => a \in Payments /\ state[a] < Hops
          BY <2>10 DEF AfterSave
        <5> QED
          <6>1. ASSUME NEW p \in walking, p # a
                PROVE  p \in Payments /\ (state[p] \in 1..(Hops - 1) \/ p \in DOMAIN saver')
            BY <6>1, <2>10, AfterSaveShape DEF MemoryOK
          <6>2. a \in walking' => a \in Payments /\ state[a] \in 1..(Hops - 1)
            BY <3>2, <5>2
          <6> QED
            BY <5>1, <6>1, <6>2
      <4> QED
        BY <2>10, <3>2, <4>1 DEF AfterSave, MemoryOK
    <3>4. OutsideOK'
      BY <2>10, <3>2 DEF AfterSave, OutsideOK
    <3> QED
      BY <3>1, <3>3, <3>4
  <2>11. ASSUME NEW a \in Owners, Rename(a)
         PROVE  SaverOK' /\ SavesSomething' /\ FileOK' /\ MemoryOK' /\ OutsideOK'
    <3>1. AfterSave(a) /\ a \in DOMAIN saver /\ alone' \in BOOLEAN
      BY <2>11 DEF Rename, At, MemoryOK
    <3>2. FileOK'
      BY <2>11, KeptTyped DEF Rename, FileOK
    <3> QED
      BY <3>1, <3>2, <2>10
  <2>12. ASSUME NEW a \in Owners, SaveFails(a)
         PROVE  SaverOK' /\ SavesSomething' /\ FileOK' /\ MemoryOK' /\ OutsideOK'
    <3>1. AfterSave(a) /\ a \in DOMAIN saver /\ alone' \in BOOLEAN
      BY <2>12 DEF SaveFails, At
    <3>2. FileOK'
      BY <2>12, KeptTyped DEF SaveFails, FileOK
    <3> QED
      BY <3>1, <3>2, <2>10
  <2>13. ASSUME Crash
         PROVE  SaverOK' /\ SavesSomething' /\ FileOK' /\ MemoryOK' /\ OutsideOK'
    <3>1. DOMAIN saver' = {} /\ FileOK'
      BY <2>13, KeptTyped DEF Crash, FileOK
    <3> QED
      <4>1. state' \in [Payments -> Level] /\ crashes' \in 0..MaxCrashes
        BY <2>13 DEF Crash, MemoryOK, Nothing, Level
      <4> QED
        BY <2>13, <3>1, <4>1
        DEF Crash, SaverOK, SavesSomething, MemoryOK, OutsideOK, outside
  <2>14. ASSUME Restart
         PROVE  SaverOK' /\ SavesSomething' /\ FileOK' /\ MemoryOK' /\ OutsideOK'
    <3>1. OnFile \in Contents
      BY <2>14, OnFileTyped DEF Restart
    <3> HIDE DEF OnFile
    <3> QED
      BY <2>14, <3>1
      DEF Restart, SaverOK, SavesSomething, FileOK, MemoryOK, OutsideOK, Contents, Level, file, outside
  <2>15. CASE UNCHANGED vars
    BY <2>15
    DEF SaverOK, SavesSomething, FileOK, MemoryOK, OutsideOK, vars, memory, file, outside
  <2> QED
    BY <2>1, <2>2, <2>3, <2>4, <2>5, <2>6, <2>7, <2>8, <2>9, <2>11, <2>12, <2>13, <2>14, <2>15
    DEF Next, Saves
<1> QED
  BY <1>1, <1>2, PTL DEF Spec
-----------------------------------------------------------------------------
(***************************************************************************)
(* While no save overlaps another: one goroutine saves at a time, what it  *)
(* copies is still true when it renames, so the file is memory but for the *)
(* one payment or company being saved; and nobody outside is told of a     *)
(* state before it is on file.                                             *)
(***************************************************************************)
Copy(a) == [dir |-> saver[a].dir, pay |-> saver[a].pay]

FileGood == OnFile \in Contents /\ (path # None => path # tmp)

SaveGood ==
  /\ \A a, b \in DOMAIN saver : a = b
  /\ \A a \in DOMAIN saver :
       /\ saver[a].at = "write" => tmp # None /\ saver[a].fd = tmp /\ disk[tmp] = Empty
       /\ saver[a].at = "rename" => tmp # None /\ disk[tmp] = Copy(a)
       /\ saver[a].at # "directory" => saver[a].dir = directory
       /\ saver[a].at \notin {"directory", "payments"} => saver[a].pay = state

Behind ==
  up => /\ OnFile.dir \subseteq directory
        /\ \A p \in Payments : IF p \in DOMAIN saver THEN OnFile.pay[p] < state[p]
                                                     ELSE OnFile.pay[p] = state[p]

\* Outside is about to hear of state s of p.
Pending(p, s) == <<p, s>> \in calls \/ (s = Hops /\ p \in bridging)

Once ==
  \A p \in Payments :
    /\ bridged[p] <= 1
    /\ p \in bridging => bridged[p] = 0 /\ <<p, Hops>> \notin calls
    /\ \A s \in 1..Hops :
         /\ told[p][s] <= 1
         /\ Pending(p, s) => told[p][s] = 0
         /\ Pending(p, s) \/ Seen(p, s) => s <= OnFile.pay[p]

Accepted ==
  /\ answered \cap Companies \subseteq OnFile.dir
  /\ \A p \in answered \cap Payments : OnFile.pay[p] > 0

Clean == FileGood /\ SaveGood /\ Behind /\ Once /\ Accepted

LEMMA CleanSuffices == TypeOK /\ (alone => Clean) => AnsweredIsKept /\ NothingRepeated
<1> SUFFICES ASSUME TypeOK, alone, Clean PROVE AnsweredIsKept /\ NothingRepeated
  BY DEF AnsweredIsKept, NothingRepeated
<1>1. OnFile \notin {Empty, Garbled} /\ OnFile.pay \in [Payments -> Level]
  BY PayoutAssumption DEF Clean, FileGood, Contents, Level
<1>2. \A p \in Payments, s \in 1..Hops : Seen(p, s) => s <= OnFile.pay[p]
  BY DEF Clean, Once
<1>3. up => \A p \in Payments : OnFile.pay[p] <= state[p]
  <2> SUFFICES ASSUME up, NEW p \in Payments PROVE OnFile.pay[p] <= state[p]
    OBVIOUS
  <2>1. OnFile.pay[p] \in Nat /\ state[p] \in Nat
    BY <1>1, PayoutAssumption DEF TypeOK, Level
  <2>2. OnFile.pay[p] < state[p] \/ OnFile.pay[p] = state[p]
    BY DEF Clean, Behind
  <2> QED
    BY <2>1, <2>2
<1>4. \A p \in Payments, s \in 1..Hops : Seen(p, s) => (up => s <= state[p])
  BY <1>1, <1>2, <1>3, PayoutAssumption DEF TypeOK, Level
<1>5. AnsweredIsKept
  BY <1>1, <1>2, <1>4 DEF AnsweredIsKept, Clean, Accepted, Level
<1>6. NothingRepeated
  BY DEF NothingRepeated, Clean, Once
<1> QED
  BY <1>5, <1>6

\* Nothing but a rename changes what a restart would find.
LEMMA FileStays ==
  ASSUME TypeOK, FileGood, SaveGood,
         \/ UNCHANGED file
         \/ \E a \in Owners : Write(a) \/ \E i \in 1..Inodes : OpenTmp(a, i)
         \/ Crash
  PROVE  OnFile' = OnFile /\ FileGood'
<1> USE PayoutAssumption
<1>1. CASE UNCHANGED file
  BY <1>1 DEF file, OnFile, FileGood
<1>2. ASSUME NEW a \in Owners, Write(a) PROVE OnFile' = OnFile /\ FileGood'
  <2>1. UNCHANGED <<path, tmp>> /\ tmp # None /\ saver[a].fd = tmp
    BY <1>2 DEF Write, At, SaveGood
  <2>2. PICK c : disk' = Kept([disk EXCEPT ![saver[a].fd] = c])
    BY <1>2 DEF Write
  <2>3. path # None => disk'[path] = disk[path]
    BY <2>1, <2>2 DEF Kept, FileGood, TypeOK
  <2> QED
    BY <2>1, <2>3 DEF OnFile, FileGood
<1>3. ASSUME NEW a \in Owners, NEW i \in 1..Inodes, OpenTmp(a, i)
      PROVE  OnFile' = OnFile /\ FileGood'
  <2>1. path' = path /\ tmp' = i /\ disk' = [disk EXCEPT ![i] = Empty]
    BY <1>3 DEF OpenTmp
  <2>2. path # None => i # path
    BY <1>3 DEF OpenTmp, InUse, FileGood
  <2>3. path # None => disk'[path] = disk[path]
    BY <2>1, <2>2 DEF TypeOK
  <2> QED
    BY <2>1, <2>2, <2>3 DEF OnFile, FileGood
<1>4. CASE Crash
  <2>1. UNCHANGED <<path, tmp>> /\ disk' = Kept(disk)
    BY <1>4 DEF Crash
  <2>2. path # None => disk'[path] = disk[path]
    BY <2>1 DEF Kept, TypeOK
  <2> QED
    BY <2>1, <2>2 DEF OnFile, FileGood
<1> QED
  BY <1>1, <1>2, <1>3, <1>4

\* A save that starts: only what is saved is ahead of the file.
LEMMA BeginClean ==
  ASSUME TypeOK, Clean, up, up', NEW a \in Owners, Begin(a), alone',
         UNCHANGED <<file, calls, bridging, outside>>,
         directory \subseteq directory',
         \A p \in Payments : p # a => state'[p] = state[p],
         a \in Payments => state[a] < state'[a]
  PROVE  Clean'
<1>1. DOMAIN saver = {} /\ DOMAIN saver' = {a} /\ saver'[a] = Starting
  BY BeginShape
<1>2. OnFile' = OnFile /\ FileGood'
  BY FileStays DEF Clean
<1>3. SaveGood'
  BY <1>1 DEF SaveGood, Starting
<1>4. Behind'
  BY <1>1, <1>2 DEF Clean, Behind
<1>5. Once' /\ Accepted'
  BY <1>2 DEF Clean, Once, Accepted, Pending, Seen, outside
<1> QED
  BY <1>2, <1>3, <1>4, <1>5 DEF Clean

\* A save that moves on, as far as the rename.
LEMMA MoveClean ==
  ASSUME TypeOK, Clean, NEW a \in Owners,
         \/ CopyDirectory(a) \/ CopyPayments(a) \/ Write(a)
         \/ \E i \in 1..Inodes : OpenTmp(a, i)
  PROVE  Clean'
<1>1. Moves(a) /\ UNCHANGED <<up, memory, calls, bridging, outside>>
  BY MovesShape, TypeParts DEF CopyDirectory, CopyPayments, Write, OpenTmp
<1>2. DOMAIN saver = {a} /\ DOMAIN saver' = {a}
  BY <1>1 DEF Moves, Clean, SaveGood
<1>3. OnFile' = OnFile /\ FileGood'
  BY FileStays DEF Clean, CopyDirectory, CopyPayments
<1>4. SaveGood'
  <2> SUFFICES
        /\ saver'[a].at = "write" => tmp' # None /\ saver'[a].fd = tmp' /\ disk'[tmp'] = Empty
        /\ saver'[a].at = "rename" => tmp' # None /\ disk'[tmp'] = Copy(a)'
        /\ saver'[a].at # "directory" => saver'[a].dir = directory'
        /\ saver'[a].at \notin {"directory", "payments"} => saver'[a].pay = state'
    BY <1>2 DEF SaveGood
  <2>0. UNCHANGED <<state, directory>> /\ saver[a] \in Saver
    BY <1>1, <1>2 DEF memory, TypeOK
  <2>1. CASE CopyDirectory(a)
    BY <2>0, <2>1, <1>2 DEF CopyDirectory, Saver
  <2>2. CASE CopyPayments(a)
    BY <2>0, <2>2, <1>2 DEF CopyPayments, At, Saver, Clean, SaveGood
  <2>3. CASE Write(a)
    <3>1. /\ saver[a].at = "write" /\ saver[a].fd = tmp /\ tmp # None /\ disk[tmp] = Empty
          /\ saver[a].dir = directory /\ saver[a].pay = state
      BY <2>3, <1>2 DEF Write, At, Clean, SaveGood
    <3>2. /\ saver' = [saver EXCEPT ![a].at = "rename", ![a].fd = None]
          /\ tmp' = tmp /\ disk' = Kept([disk EXCEPT ![tmp] = Copy(a)])
      BY <2>3, <3>1 DEF Write, Copy
    <3>3. /\ saver'[a].at = "rename" /\ saver'[a].dir = directory
          /\ saver'[a].pay = state /\ Copy(a)' = Copy(a)
      BY <3>1, <3>2, <2>0, <1>2 DEF Saver, Copy
    <3>4. disk'[tmp] = Copy(a)
      BY <3>1, <3>2 DEF Kept, TypeOK
    <3> QED
      BY <2>0, <3>1, <3>2, <3>3, <3>4
  <2>4. ASSUME NEW i \in 1..Inodes, OpenTmp(a, i)
        PROVE  /\ saver'[a].at = "write" /\ tmp' # None /\ saver'[a].fd = tmp'
               /\ disk'[tmp'] = Empty
               /\ saver'[a].dir = directory' /\ saver'[a].pay = state'
    <3>1. saver[a].at = "open" /\ saver[a].dir = directory /\ saver[a].pay = state
      BY <2>4, <1>2 DEF OpenTmp, At, Clean, SaveGood
    <3>2. /\ saver' = [saver EXCEPT ![a].at = "write", ![a].fd = i]
          /\ tmp' = i /\ disk' = [disk EXCEPT ![i] = Empty]
      BY <2>4 DEF OpenTmp
    <3>3. saver'[a] = [saver[a] EXCEPT !.at = "write", !.fd = i]
      BY <3>2, <1>2
    <3> QED
      <4>1. /\ saver'[a].at = "write" /\ saver'[a].fd = i
            /\ saver'[a].dir = saver[a].dir /\ saver'[a].pay = saver[a].pay
        BY <2>0, <3>3 DEF Saver
      <4>2. tmp' # None /\ disk'[tmp'] = Empty
        BY <3>2, PayoutAssumption DEF TypeOK
      <4> QED
        BY <2>0, <3>1, <3>2, <4>1, <4>2
  <2> QED
    BY <2>1, <2>2, <2>3, <2>4
<1>5. Behind' /\ Once' /\ Accepted'
  BY <1>1, <1>2, <1>3 DEF Clean, Behind, Once, Accepted, Pending, Seen, memory, outside
<1> QED
  BY <1>3, <1>4, <1>5 DEF Clean

\* A save that ends: the file is memory, and what follows has not happened.
LEMMA RenameClean ==
  ASSUME TypeOK, Clean, NEW a \in Owners, Rename(a)
  PROVE  Clean'
<1> USE PayoutAssumption
<1>1. DOMAIN saver = {a} /\ DOMAIN saver' = {} /\ up
  <2>1. a \in DOMAIN saver /\ DOMAIN saver' = DOMAIN saver \ {a}
    BY AfterSaveShape DEF Rename, At
  <2>2. DOMAIN saver = {a}
    BY <2>1 DEF Clean, SaveGood
  <2> QED
    BY <2>1, <2>2 DEF TypeOK
<1>2. tmp # None /\ disk[tmp] = [dir |-> directory, pay |-> state]
  BY <1>1 DEF Rename, At, Clean, SaveGood, Copy
<1>3. path' = tmp /\ tmp' = None /\ disk' = Kept(disk)
  BY <1>2 DEF Rename
<1>4. OnFile' = [dir |-> directory, pay |-> state]
  BY <1>2, <1>3 DEF OnFile, Kept, TypeOK
<1>5. UNCHANGED <<up, state, directory, told, bridged>> /\ answered' = answered \cup {a}
  BY DEF Rename, AfterSave
<1>6. FileGood' /\ SaveGood' /\ Behind'
  BY <1>1, <1>2, <1>3, <1>4, <1>5 DEF FileGood, SaveGood, Behind, Contents, TypeOK
<1>7. Accepted'
  <2>1. directory \subseteq Companies /\ OnFile.dir \subseteq directory
    BY <1>1 DEF TypeOK, Clean, Behind
  <2>2. a \in Companies => a \in directory
    BY <1>1 DEF TypeOK
  <2>3. a \in Payments => state[a] > 0
    BY <1>1 DEF TypeOK
  <2>4. ASSUME NEW p \in answered \cap Payments PROVE state[p] > 0
    <3>1. OnFile.pay[p] \in Nat /\ OnFile.pay[p] > 0 /\ state[p] \in Nat
      BY DEF Clean, Accepted, FileGood, Contents, Level, TypeOK
    <3> QED
      BY <1>1, <3>1 DEF Clean, Behind
  <2> QED
    BY <1>4, <1>5, <2>1, <2>2, <2>3, <2>4 DEF Accepted, Clean
<1>8. Once'
  <2> SUFFICES ASSUME NEW p \in Payments
               PROVE  /\ bridged[p] <= 1
                      /\ p \in bridging' => bridged[p] = 0 /\ <<p, Hops>> \notin calls'
                      /\ \A s \in 1..Hops :
                           /\ told[p][s] <= 1
                           /\ Pending(p, s)' => told[p][s] = 0
                           /\ Pending(p, s)' \/ Seen(p, s) => s <= state[p]
    BY <1>4, <1>5 DEF Once, Seen
  <2> DEFINE n == OnFile.pay[p]
  <2>1. n \in Nat /\ state[p] \in Nat /\ n <= state[p] /\ (p = a => n < state[p])
    BY <1>1 DEF Clean, Behind, FileGood, Contents, Level, TypeOK
  <2>2. /\ bridged[p] <= 1
        /\ p \in bridging => bridged[p] = 0 /\ <<p, Hops>> \notin calls
        /\ \A s \in 1..Hops : /\ told[p][s] <= 1
                              /\ Pending(p, s) => told[p][s] = 0
                              /\ Pending(p, s) \/ Seen(p, s) => s <= n
    BY DEF Clean, Once
  <2> HIDE DEF n
  <2>3. CASE p # a
    <3>1. (p \in bridging' <=> p \in bridging) /\ \A s \in 1..Hops : <<p, s>> \in calls' <=> <<p, s>> \in calls
      BY <2>3 DEF Rename, AfterSave
    <3>2. \A s \in 1..Hops : s <= n => s <= state[p]
      BY <2>1
    <3> QED
      BY <2>2, <3>1, <3>2 DEF Pending
  <2>4. CASE p = a
    <3>1. state[p] \in 1..Hops
      BY <1>1, <2>4 DEF TypeOK, Level
    <3>2. ~Pending(p, state[p]) /\ ~Seen(p, state[p])
      BY <2>1, <2>2, <2>4, <3>1
    <3>3. told[p][state[p]] = 0 /\ (state[p] = Hops => bridged[p] = 0)
      BY <3>1, <3>2 DEF Seen, TypeOK
    <3>4. CASE Approved(p)
      <4>1. state[p] = Hops /\ bridging' = bridging \cup {p} /\ calls' = calls
        BY <2>4, <3>4 DEF Rename, AfterSave, Approved
      <4>2. \A s \in 1..Hops : Pending(p, s)' => Pending(p, s) \/ s = state[p]
        BY <4>1 DEF Pending
      <4> QED
        BY <2>1, <2>2, <3>1, <3>2, <3>3, <4>1, <4>2 DEF Pending
    <3>5. CASE ~Approved(p)
      <4>1. bridging' = bridging /\ calls' = calls \cup {<<p, state[p]>>}
        BY <2>4, <3>5 DEF Rename, AfterSave
      <4>2. \A s \in 1..Hops : Pending(p, s)' => Pending(p, s) \/ s = state[p]
        BY <4>1 DEF Pending
      <4>3. p \in bridging => <<p, Hops>> \notin calls'
        BY <2>1, <2>2, <2>4, <3>1, <3>2, <4>1 DEF Pending
      <4> QED
        BY <2>1, <2>2, <3>1, <3>2, <3>3, <4>1, <4>2, <4>3
    <3> QED
      BY <3>4, <3>5
  <2> QED
    BY <2>3, <2>4
<1> QED
  BY <1>6, <1>7, <1>8 DEF Clean

\* The steps of those outside.
LEMMA OutsideClean ==
  ASSUME TypeOK, Clean, NEW p \in Payments, NEW s \in 1..Hops, Bridge(p) \/ Callback(p, s)
  PROVE  Clean'
<1> USE PayoutAssumption
<1>1. UNCHANGED <<up, memory, saver, file, answered>>
  BY DEF Bridge, Callback
<1>2. OnFile' = OnFile /\ FileGood'
  BY <1>1, FileStays DEF Clean
<1>3. SaveGood' /\ Behind' /\ Accepted'
  BY <1>1, <1>2 DEF Clean, SaveGood, Behind, Accepted, Copy, memory, file
<1>4. Once'
  <2> DEFINE C(q, t) == <<q, t>> \in calls
  <2>1. CASE Bridge(p)
    <3>1. /\ p \in bridging /\ bridging' = bridging \ {p} /\ calls' = calls \cup {<<p, Hops>>}
          /\ told' = told /\ \A q \in Payments : q # p => bridged'[q] = bridged[q]
          /\ bridged'[p] \in {bridged[p], bridged[p] + 1}
      BY <2>1 DEF Bridge, TypeOK
    <3>2. Pending(p, Hops) /\ bridged[p] = 0 /\ bridged'[p] \in {0, 1}
      BY <3>1 DEF Pending, Clean, Once
    <3>3. told[p][Hops] = 0 /\ Hops <= OnFile.pay[p]
      BY <3>2, Hops \in 1..Hops DEF Clean, Once
    <3>4. \A q \in Payments, t \in 1..Hops :
            /\ Pending(q, t)' => Pending(q, t)
            /\ Seen(q, t)' => Seen(q, t) \/ (q = p /\ t = Hops)
      BY <3>1 DEF Pending, Seen
    <3> QED
      BY <1>2, <3>1, <3>2, <3>3, <3>4 DEF Clean, Once
  <2>2. CASE Callback(p, s)
    <3>1. /\ <<p, s>> \in calls /\ calls' = calls \ {<<p, s>>}
          /\ bridging' = bridging /\ bridged' = bridged
          /\ \A q \in Payments, t \in 1..Hops : ~(q = p /\ t = s) => told'[q][t] = told[q][t]
          /\ told'[p][s] \in {told[p][s], told[p][s] + 1}
      <4>1. told[p] \in [1..Hops -> Nat]
        BY DEF TypeOK
      <4>2. CASE told' = told
        BY <2>2, <4>2 DEF Callback
      <4>3. CASE told' = [told EXCEPT ![p] = [told[p] EXCEPT ![s] = told[p][s] + 1]]
        <5>1. told'[p] = [told[p] EXCEPT ![s] = told[p][s] + 1] /\ \A q \in Payments : q # p => told'[q] = told[q]
          BY <4>3 DEF TypeOK
        <5> QED
          BY <2>2, <4>1, <5>1 DEF Callback
      <4> QED
        BY <2>2, <4>2, <4>3 DEF Callback
    <3>2. Pending(p, s) /\ told[p][s] = 0 /\ s <= OnFile.pay[p]
      BY <3>1 DEF Pending, Clean, Once
    <3>3. told'[p][s] \in {0, 1} /\ ~Pending(p, s)'
      <4>1. s = Hops => p \notin bridging
        BY <3>1 DEF Clean, Once
      <4> QED
        BY <3>1, <3>2, <4>1 DEF Pending
    <3>4. \A q \in Payments, t \in 1..Hops :
            /\ Pending(q, t)' => Pending(q, t)
            /\ Seen(q, t)' => Seen(q, t) \/ (q = p /\ t = s)
      BY <3>1 DEF Pending, Seen
    <3>5. ASSUME NEW q \in Payments, NEW t \in 1..Hops
          PROVE  /\ told'[q][t] <= 1
                 /\ Pending(q, t)' => told'[q][t] = 0
                 /\ Pending(q, t)' \/ Seen(q, t)' => t <= OnFile.pay[q]
      <4>1. CASE q = p /\ t = s
        BY <3>2, <3>3, <4>1
      <4>2. CASE ~(q = p /\ t = s)
        <5>1. /\ told[q][t] <= 1 /\ (Pending(q, t) => told[q][t] = 0)
              /\ (Pending(q, t) \/ Seen(q, t) => t <= OnFile.pay[q])
          BY DEF Clean, Once
        <5>2. /\ told'[q][t] = told[q][t] /\ (Pending(q, t)' => Pending(q, t))
              /\ (Seen(q, t)' => Seen(q, t))
          BY <3>1, <3>4, <4>2
        <5> QED
          BY <5>1, <5>2
      <4> QED
        BY <4>1, <4>2
    <3> QED
      BY <1>2, <3>1, <3>5 DEF Clean, Once
  <2> QED
    BY <2>1, <2>2
<1> QED
  BY <1>2, <1>3, <1>4 DEF Clean

LEMMA CrashClean == TypeOK /\ Clean /\ Crash => Clean'
<1> SUFFICES ASSUME TypeOK, Clean, Crash PROVE Clean'
  OBVIOUS
<1>1. OnFile' = OnFile /\ FileGood'
  BY FileStays DEF Clean
<1>2. ~up' /\ DOMAIN saver' = {} /\ calls' = {} /\ bridging' = {} /\ UNCHANGED outside
  BY DEF Crash
<1> QED
  BY <1>1, <1>2 DEF Clean, SaveGood, Behind, Once, Accepted, Pending, Seen, outside

LEMMA RestartClean == TypeOK /\ Clean /\ Restart => Clean'
<1> SUFFICES ASSUME TypeOK, Clean, Restart PROVE Clean'
  OBVIOUS
<1>1. /\ UNCHANGED <<saver, file, calls, bridging, outside>> /\ DOMAIN saver = {}
      /\ state' = OnFile.pay /\ directory' = OnFile.dir
  BY DEF Restart, TypeOK
<1>2. OnFile' = OnFile /\ FileGood'
  BY <1>1, FileStays DEF Clean
<1> QED
  BY <1>1, <1>2 DEF Clean, SaveGood, Behind, Once, Accepted, Pending, Seen, outside

LEMMA CleanInvariant == Spec => [](TypeOK /\ (alone => Clean))
<1>1. Init => (alone => Clean)
  <2> SUFFICES ASSUME Init PROVE Clean
    OBVIOUS
  <2>1. OnFile = Nothing /\ Nothing \in Contents
    BY PayoutAssumption DEF Init, OnFile, Nothing, Contents, Level
  <2> QED
    BY <2>1, PayoutAssumption
    DEF Init, Clean, FileGood, SaveGood, Behind, Once, Accepted, Pending, Seen, Nothing
<1>2. TypeOK /\ (alone => Clean) /\ [Next]_vars => (alone' => Clean')
  <2> SUFFICES ASSUME TypeOK, alone => Clean, [Next]_vars, alone' PROVE Clean'
    OBVIOUS
  <2> USE PayoutAssumption
  <2>1. ASSUME NEW p \in Payments, Submit(p) PROVE Clean'
    <3>1. /\ up /\ up' /\ Begin(p) /\ state[p] < state'[p] /\ p \in Owners
          /\ \A q \in Payments : q # p => state'[q] = state[q]
          /\ UNCHANGED <<directory, file, calls, bridging, outside>>
      BY <2>1 DEF Submit, TypeOK, Owners
    <3> QED
      BY <3>1, BeginClean, BeginShape
  <2>2. ASSUME NEW p \in Payments, Hop(p) PROVE Clean'
    <3>1. state[p] \in 1..(Hops - 1) /\ up
      BY <2>2 DEF Hop, TypeOK
    <3>2. state[p] < Hops
      BY <3>1
    <3>3. state' = [state EXCEPT ![p] = state[p] + 1]
      BY <2>2, <3>2 DEF Hop
    <3>4. /\ up' /\ Begin(p) /\ state[p] < state'[p] /\ p \in Owners
          /\ \A q \in Payments : q # p => state'[q] = state[q]
          /\ UNCHANGED <<directory, file, calls, bridging, outside>>
      BY <2>2, <3>1, <3>3 DEF Hop, TypeOK, Owners
    <3> QED
      BY <3>1, <3>4, BeginClean, BeginShape
  <2>3. ASSUME NEW c \in Companies, Board(c) PROVE Clean'
    <3>1. /\ up /\ up' /\ Begin(c) /\ c \in Owners /\ c \notin Payments
          /\ directory \subseteq directory'
          /\ UNCHANGED <<state, file, calls, bridging, outside>>
      BY <2>3 DEF Board, Owners
    <3> QED
      BY <3>1, BeginClean, BeginShape
  <2>4. ASSUME NEW a \in Owners, Saves(a) PROVE Clean'
    <3>1. CASE Rename(a)
      BY <3>1, RenameClean DEF Rename
    <3>2. CASE ~Rename(a)
      <4>1. \/ CopyDirectory(a) \/ CopyPayments(a) \/ Write(a)
            \/ \E i \in 1..Inodes : OpenTmp(a, i)
        BY <2>4, <3>2 DEF Saves
      <4>2. alone
        BY <4>1 DEF CopyDirectory, CopyPayments, Write, OpenTmp
      <4> QED
        BY <4>1, <4>2, MoveClean
    <3> QED
      BY <3>1, <3>2
  <2>5. ASSUME NEW a \in Owners, SaveFails(a) PROVE FALSE
    BY <2>5 DEF SaveFails
  <2>6. ASSUME NEW p \in Payments, NEW s \in 1..Hops, Bridge(p) \/ Callback(p, s) PROVE Clean'
    BY <2>6, OutsideClean DEF Bridge, Callback
  <2>7. CASE Crash
    BY <2>7, CrashClean DEF Crash
  <2>8. CASE Restart
    BY <2>8, RestartClean DEF Restart
  <2>9. CASE UNCHANGED vars
    <3>1. alone /\ UNCHANGED <<up, memory, saver, file, calls, bridging, outside>>
      BY <2>9 DEF vars
    <3>2. OnFile' = OnFile
      BY <3>1 DEF OnFile, file
    <3> QED
      BY <3>1, <3>2
      DEF Clean, FileGood, SaveGood, Behind, Once, Accepted, Pending, Seen, Copy, memory, file, outside
  <2>10. Hops \in 1..Hops
    OBVIOUS
  <2> QED
    BY <2>1, <2>2, <2>3, <2>4, <2>5, <2>6, <2>7, <2>8, <2>9, <2>10 DEF Next
<1> QED
  BY <1>1, <1>2, PayoutTypeCorrect, PTL DEF Spec

\* While saves do not overlap and the disk takes them, a restart finds what
\* outsiders were told, and a payment that is read is not behind it:
\* main.go:127-129 and 138-143, payments.go:93-99.
THEOREM PayoutAnsweredIsKept == Spec => []AnsweredIsKept
BY CleanInvariant, CleanSuffices, PTL

\* ... no payment is bridged twice, and no state told twice, over any number
\* of crashes: what state.go:192-195 promises.
THEOREM PayoutNothingRepeated == Spec => []NothingRepeated
BY CleanInvariant, CleanSuffices, PTL
=============================================================================
